----------------------------- MODULE ProcessRunner -----------------------------
(***************************************************************************)
(* The process scheduler of the proof conductor (Process, ProcessFuture    *)
(* and ProcessRunner of dv/formal/conductor.py) and the operating system   *)
(* under it.                                                               *)
(*                                                                         *)
(* poll() is one callback of the event loop.  It is split where the code   *)
(* loops, because the processes run on while it runs: PollBegin reads the  *)
(* free memory, KillLast and StartLast are one turn of the first and the   *)
(* second loop, Drop is the third.  Coroutines run only while phase is     *)
(* "wait": nothing else of the program is interleaved with a poll.         *)
(*                                                                         *)
(* Memory is counted in tenths of a GB.                                    *)
(***************************************************************************)
EXTENDS Integers, Sequences, FiniteSets, SequencesExt

CONSTANTS
    Kinds,          \* kinds of command; a process id is a pair <<task, kind>>
    Codes,          \* Codes[k]: exit codes of a command of kind k
    Peak,           \* Peak[k]: its resident memory once it has grown
    Total,          \* memory that is free when no command runs
    MAX_RUNNING,    \* CPUs less two
    NoCode          \* the code None

GLOBAL_MEMORY_BUFFER == 50
MinCharge == 30     \* what a process is charged at least

ASSUME RunnerAssumption ==
    /\ \A k \in Kinds : Codes[k] # {} /\ Codes[k] \subseteq Int /\ Peak[k] \in Nat
    /\ Total \in Nat /\ MAX_RUNNING \in Int /\ NoCode \notin Int

VARIABLES
    proc,       \* the Process objects, by id
    pending,    \* queue of ids, the next one to start last
    running,    \* ids in starting order
    phase,      \* where poll() is; "wait" between two polls
    free        \* poll()'s local estimate of the free memory

runnerVars == <<proc, pending, running, phase, free>>
-------------------------------------------------------------------------------
(* Process *)

Larger(a, b) == IF a > b THEN a ELSE b

Process(expected_memory, timed) ==
    [expected |-> expected_memory, timed |-> timed, kill |-> "None",
     future |-> "waiting", result |-> NoCode, max_memory |-> 0,
     os |-> "none", code |-> NoCode, rss |-> 0, late |-> FALSE]

\* Popen: the process lives, its clock and its memory record start again.
Started(r) == [r EXCEPT !.os = "live", !.code = NoCode, !.rss = 0,
                        !.late = FALSE, !.max_memory = 0]

\* What the operating system keeps of a process that was killed or reaped.
Gone(r) == [r EXCEPT !.os = "none", !.code = NoCode, !.rss = 0, !.late = FALSE]

\* Mutant: a cancelled future is given a result as well.
ResolvedAlways(r, c) == [r EXCEPT !.future = "done", !.result = c]

\* future.set_result, unless the future was cancelled.
Resolved(r, c) ==
    IF r.future = "cancelled" THEN r
    ELSE [r EXCEPT !.future = "done", !.result = c]

\* The first thing poll() does is to sample the memory.
Sampled(r) == [r EXCEPT !.max_memory = Larger(r.rss, r.max_memory)]

\* Mutant: the memory is added to what was expected before.
RestartedAccumulates(r) ==
    LET s == Sampled(r) IN
    Gone([s EXCEPT !.kill = "None", !.expected = r.expected + s.max_memory])

\* poll() with kill_ = "restart".
Restarted(r) ==
    LET s == Sampled(r) IN
    Gone([s EXCEPT !.kill = "None", !.expected = Larger(r.expected, s.max_memory)])

\* poll() returns True.
Ends(r) == (r.os = "exited" /\ r.kill = "None") \/ r.kill # "None" \/ r.late

\* The branches of poll(), in the order of the code.
Polled(r) ==
    IF r.os = "exited" /\ r.kill = "None" THEN Gone(Resolved(Sampled(r), r.code))
    ELSE IF r.kill = "restart" THEN Restarted(r)
    ELSE IF r.late \/ r.kill = "kill" THEN Gone(Resolved(Sampled(r), NoCode))
    ELSE Sampled(r)

\* ProcessFuture.cancel: only the flag is set, the next poll kills.
Cancelled(r) ==
    IF r.future = "waiting" THEN [r EXCEPT !.kill = "kill", !.future = "cancelled"] ELSE r
-------------------------------------------------------------------------------
(* ProcessRunner *)

SumOver(f, S) == FoldFunctionOnSet(+, 0, f, S)

global_memory_free ==
    Larger(0, Total - SumOver([p \in DOMAIN proc |-> proc[p].rss], DOMAIN proc))

children_used_mem ==
    SumOver([p \in DOMAIN proc |-> proc[p].max_memory], Range(running))

mem_avail(max_mem) ==
    IF max_mem = 0 THEN global_memory_free
    ELSE LET left == Larger(max_mem - children_used_mem, 0)
         IN IF left < global_memory_free THEN left ELSE global_memory_free

PollBegin(max_mem) ==
    /\ phase = "wait"
    /\ phase' = "kill"
    /\ free' = mem_avail(max_mem)
    /\ UNCHANGED <<proc, pending, running>>

MemoryIsLow(no_kill) ==
    ~no_kill /\ free < GLOBAL_MEMORY_BUFFER /\ Len(running) > 1

\* Mutant: the killed process is not queued again.
KillLastForgotten(no_kill) ==
    LET last == Last(running) IN
    /\ phase = "kill" /\ MemoryIsLow(no_kill)
    /\ running' = Front(running)
    /\ free' = free + Larger(proc[last].max_memory, MinCharge)
    /\ proc' = [proc EXCEPT ![last] = Restarted([@ EXCEPT !.kill = "restart"])]
    /\ UNCHANGED <<pending, phase>>

\* One turn of the loop that kills the process started last.
KillLast(no_kill) ==
    LET last == Last(running) IN
    /\ phase = "kill" /\ MemoryIsLow(no_kill)
    /\ running' = Front(running)
    /\ free' = free + Larger(proc[last].max_memory, MinCharge)
    /\ proc' = [proc EXCEPT ![last] = Polled([@ EXCEPT !.kill = "restart"])]
    /\ pending' = Append(pending, last)
    /\ UNCHANGED phase

\* Mutant: a process is started whenever the buffer is free.
CanStartOnBuffer ==
    /\ Len(running) < MAX_RUNNING /\ pending # <<>>
    /\ free >= GLOBAL_MEMORY_BUFFER

CanStart ==
    /\ Len(running) < MAX_RUNNING /\ pending # <<>>
    /\ free > proc[Last(pending)].expected + GLOBAL_MEMORY_BUFFER

\* One turn of the loop that starts the process at the end of the queue.
StartLast(no_kill) ==
    LET last == Last(pending) IN
    /\ phase \in {"kill", "start"} /\ (phase = "kill" => ~MemoryIsLow(no_kill))
    /\ CanStart
    /\ phase' = "start"
    /\ pending' = Front(pending)
    /\ running' = Append(running, last)
    /\ proc' = [proc EXCEPT ![last] = Started(@)]
    /\ free' = free - Larger(proc[last].expected, MinCharge)

\* The loop over running: an element that has ended is popped.
Survivors(s, ended) ==
    LET kept[i \in 0 .. Len(s)] ==
          IF i = 0 THEN <<>>
          ELSE IF s[i] \in ended THEN kept[i - 1] ELSE Append(kept[i - 1], s[i])
    IN kept[Len(s)]

\* The processes that ended leave running; the newly started are polled too.
Drop(no_kill) ==
    /\ phase \in {"kill", "start"} /\ (phase = "kill" => ~MemoryIsLow(no_kill))
    /\ ~CanStart
    /\ phase' = "wait" /\ free' = 0
    /\ running' = Survivors(running, {p \in Range(running) : Ends(proc[p])})
    /\ proc' = [p \in DOMAIN proc |->
                  IF p \in Range(running) THEN Polled(proc[p]) ELSE proc[p]]
    /\ UNCHANGED pending

Poll(max_mem, no_kill) ==
    PollBegin(max_mem) \/ KillLast(no_kill) \/ StartLast(no_kill) \/ Drop(no_kill)
-------------------------------------------------------------------------------
(* The operating system: a process grows, exits (also because the kernel   *)
(* kills it), or outlives its timeout, at any time.                        *)

Grow(p) ==
    /\ proc[p].os = "live" /\ proc[p].rss = 0 /\ Peak[p[2]] > 0
    /\ proc' = [proc EXCEPT ![p].rss = Peak[p[2]]]
    /\ UNCHANGED <<pending, running, phase, free>>

Exit(p) ==
    /\ proc[p].os = "live"
    /\ \E c \in Codes[p[2]] :
         proc' = [proc EXCEPT ![p].os = "exited", ![p].code = c, ![p].rss = 0]
    /\ UNCHANGED <<pending, running, phase, free>>

Expire(p) ==
    /\ proc[p].timed /\ proc[p].os # "none" /\ ~proc[p].late
    /\ proc' = [proc EXCEPT ![p].late = TRUE]
    /\ UNCHANGED <<pending, running, phase, free>>

OS == \E p \in DOMAIN proc : Grow(p) \/ Exit(p) \/ Expire(p)

\* The process that runs longest is never killed for memory.
OldestEnds == running # <<>> /\ (Exit(running[1]) \/ Expire(running[1]))
-------------------------------------------------------------------------------
(* The interface of the coroutines: shell() and the cancellation of a      *)
(* task that awaits it.                                                    *)

RunnerInit ==
    proc = <<>> /\ pending = <<>> /\ running = <<>> /\ phase = "wait" /\ free = 0

\* The first shell() of every coroutine of a gather, in the order of procs;
\* records are their Process objects.  Nothing is queued or running then.
ShellAll(records, procs) ==
    /\ proc' = records
    /\ pending' = Reverse(procs)
    /\ UNCHANGED <<running, phase, free>>

\* One more shell(): the process joins the back of the queue.
Shell(p, record) ==
    /\ proc' = [q \in DOMAIN proc \cup {p} |-> IF q = p THEN record ELSE proc[q]]
    /\ pending' = <<p>> \o pending
    /\ UNCHANGED <<running, phase, free>>

CancelAll ==
    /\ proc' = [p \in DOMAIN proc |-> Cancelled(proc[p])]
    /\ UNCHANGED <<pending, running, phase, free>>
-------------------------------------------------------------------------------
(* Properties *)

\* The Process object of a command of kind k.
ProcessType(k) ==
    [expected : Nat, timed : BOOLEAN, kill : {"None", "kill", "restart"},
     future : {"waiting", "done", "cancelled"}, result : Codes[k] \cup {NoCode},
     max_memory : Nat, os : {"none", "live", "exited"}, code : Codes[k] \cup {NoCode},
     rss : {0, Peak[k]}, late : BOOLEAN]

\* The Process objects and the queues are of their types; the estimate of the
\* free memory never falls below zero.
RunnerTypeOK ==
    /\ phase \in {"wait", "kill", "start"} /\ free \in Nat
    /\ pending \in Seq(DOMAIN proc) /\ running \in Seq(DOMAIN proc)
    /\ \A p \in DOMAIN proc : p[2] \in Kinds /\ proc[p] \in ProcessType(p[2])

\* append, poll, kill_restart: a command whose future is awaited is in the
\* pending or the running list, once, through every kill, restart and early
\* exit; a command that was answered is in neither; and exactly the commands
\* in running have a process of the operating system.
QueuedOnce ==
    /\ \A p \in DOMAIN proc :
         LET places == {i \in 1 .. Len(pending) : pending[i] = p}
             turns  == {i \in 1 .. Len(running) : running[i] = p}
         IN /\ proc[p].future = "waiting" => Cardinality(places) + Cardinality(turns) = 1
            /\ proc[p].future = "done" => places = {} /\ turns = {}
            /\ proc[p].os # "none" <=> turns # {}
    /\ running # <<>> => Len(running) <= MAX_RUNNING
===============================================================================
