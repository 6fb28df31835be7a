------------------------------- MODULE Conductor -------------------------------
(***************************************************************************)
(* The proof conductor (dv/formal/conductor.py): one process that runs     *)
(* stored proof strategies (prove), builds and stores new ones (explore),  *)
(* does bounded model checking (bmc) or reports (info), on top of the      *)
(* process scheduler of ProcessRunner.                                     *)
(*                                                                         *)
(* A strategy is a set of entries [step, props, mem]: properties of a step *)
(* that are proved together, and the memory that took.  A task is the      *)
(* coroutine of one entry: it awaits the preparation of its aiger file,    *)
(* then the engine, and in bmc mode the simulation of the counterexample.  *)
(* The program is started again, with other arguments, on the strategy     *)
(* files it left, and may be killed at any time.                           *)
(***************************************************************************)
EXTENDS ProcessRunner

CONSTANTS
    Asserts,        \* the property list of build/all.ywmap: a sequence of
                    \* [step, name, cover], cover: the name ends in _Cover
    SKIPPED_PROPS,
    ArgSets,        \* command lines, as records
    Disks,          \* strategy files the first session may find
    MaxSessions

VARIABLES
    disk,       \* strategies/step*.json, as [file, entries], file being
                \* "absent", "torn" (it cannot be decoded) or "good"
    args,       \* the command line
    sel,        \* props: the selected properties, as [step, name]
    pc,         \* where main() is: before a step of its mode ("main"), awaiting
                \* engines ("build", "run", "bmc"), storing ("store", "dump"),
                \* before the run of what was built ("rerun"), unwinding after
                \* an exception ("closing", "closed"), ended ("off")
    at,         \* the step of the loop over by_step
    strat, new, \* construct_strategy's strategy, and whether it was just built
    task,       \* tasks of the current gather and what each awaits
    exit,       \* exit status of the last session
    sessions,   \* sessions started
    proved      \* history: what explore ever proved, as [step, props]

mainVars == <<disk, args, sel, pc, at, strat, new, task, exit, sessions, proved>>
vars == <<runnerVars, mainVars>>

MaxStep == Max({Asserts[i].step : i \in DOMAIN Asserts})
Steps   == 0 .. MaxStep

\* Positions in the list, without the cover properties.
names == {i \in DOMAIN Asserts : ~Asserts[i].cover}

ASSUME ConductorAssumption ==
    /\ {"aiger", "engine", "sim"} \subseteq Kinds
    /\ Asserts \in Seq(Range(Asserts)) /\ Asserts # <<>>
    /\ \A i \in DOMAIN Asserts : Asserts[i].step \in Nat
    /\ \A a \in ArgSets : /\ a.properties \in Seq(Range(a.properties))
                          /\ a.start \in Int /\ a.max_mem \in Nat
    /\ ArgSets # {} /\ MaxSessions \in Nat

\* The strategy files of a first session: finitely many entries, of the step
\* of their file.
Entry(e) == e = [step |-> e.step, props |-> e.props, mem |-> e.mem] /\ e.mem \in Nat
ASSUME DisksAssumption ==
    \A d \in Disks :
      /\ DOMAIN d = Steps
      /\ \A s \in Steps :
           /\ d[s].file \in {"absent", "torn", "good"} /\ IsFiniteSet(d[s].entries)
           /\ \A e \in d[s].entries : Entry(e) /\ e.step = s
-------------------------------------------------------------------------------
(* Strategy files and property selection *)

\* None when --fresh, when there is no file and when it cannot be decoded.
LoadsNone(s, a) == a.fresh \/ disk[s].file # "good"
load_strategy(s, a) == IF LoadsNone(s, a) THEN {} ELSE disk[s].entries

PropsOf(strategy) == UNION {e.props : e \in strategy}
missing_from(strategy, props) == props \ PropsOf(strategy)

Block(e) == [step |-> e.step, props |-> e.props]
Prop(x) == [step |-> x.step, name |-> x.name]
NamesOf(props, s) == {x.name : x \in {y \in props : y.step = s}}
by_step(s) == NamesOf(sel, s)

\* The first property of the list with the name.
Found(n)  == {i \in names : Asserts[i].name = n}
Known(n)  == Found(n) # {}
Lookup(n) == Prop(Asserts[Min(Found(n))])

\* props, as pairs <<where from, property>>: -p and --missing, all properties
\* when neither gives one.  A property that is listed twice is there twice.
Listing(a) ==
    LET explicit == {<<i, Lookup(a.properties[i])>> : i \in DOMAIN a.properties}
        all      == {<<i, Prop(Asserts[i])>> : i \in names}
        missing  == UNION {{<<0, [step |-> s, name |-> n]>> :
                              n \in missing_from(load_strategy(s, a),
                                                 NamesOf({x[2] : x \in all}, s))} :
                           s \in {t \in Steps : ~LoadsNone(t, a)}}
    IN {x \in IF a.missing THEN explicit \cup missing
              ELSE IF explicit = {} THEN all ELSE explicit : x[2].name \notin SKIPPED_PROPS}

Selected(a) == {x[2] : x \in Listing(a)}

\* len(props) == 1: bmc_mode runs one engine without a bound.  The strategy
\* files do not change in that mode.
Unbounded == args.mode = "bmc" /\ Cardinality(Listing(args)) = 1
-------------------------------------------------------------------------------
(* Coroutines *)

Aiger(t)  == <<t, "aiger">>
Engine(t) == <<t, "engine">>
Sim(t)    == <<t, "sim">>

\* asyncio.gather: each task runs up to the shell() of prepare_aiger.  The
\* order is that of the recorded times, which are not modelled.
Gather(tasks) ==
    \E order \in SetToSeqs({Aiger(t) : t \in tasks}) :
      /\ ShellAll([p \in Range(order) |-> Process(5, FALSE)], order)
      /\ task' = [t \in tasks |-> "aiger"]

\* expected_memory: the recorded memory and a tenth in run_strategy, else
\* 10 GB; only explore has a timeout.
EngineProcess(t) ==
    IF pc = "run" THEN Process((t.mem * 11) \div 10, FALSE)
    ELSE Process(100, pc = "build")

Answered(p) == p \in DOMAIN proc /\ proc[p].future = "done"
Code(p) == proc[p].result
Proven(t) == Code(Engine(t)) = 20

\* An exception leaves main(): asyncio.run cancels every other task.
Fail == pc' = "closing" /\ task' = <<>>

\* prepare_aiger asserts that aig-manip succeeded; then the engine is queued.
\* Without --hard explore races two engines, and the second entrant awaits
\* the coroutine of the first: the engine is queued, cancelled, and the
\* exception leaves main().
ResumeAiger(t) ==
    /\ task[t] = "aiger" /\ Answered(Aiger(t))
    /\ \/ Code(Aiger(t)) # 0 /\ CancelAll /\ Fail
       \/ /\ Code(Aiger(t)) = 0 /\ pc = "build" /\ ~args.hard
          /\ Shell(Engine(t), Cancelled(EngineProcess(t))) /\ Fail
       \/ /\ Code(Aiger(t)) = 0 /\ ~(pc = "build" /\ ~args.hard)
          /\ Shell(Engine(t), EngineProcess(t))
          /\ task' = [task EXCEPT ![t] = "engine"] /\ UNCHANGED pc
    /\ UNCHANGED proved

\* The engine's result is recorded; bmc() goes on to simulate a witness.
ResumeEngine(t) ==
    /\ task[t] = "engine" /\ Answered(Engine(t))
    /\ IF pc = "bmc" /\ Code(Engine(t)) = 10
       THEN Shell(Sim(t), Process(0, FALSE)) /\ task' = [task EXCEPT ![t] = "sim"]
       ELSE task' = [task EXCEPT ![t] = "done"] /\ UNCHANGED runnerVars
    /\ proved' = IF pc = "build" /\ Proven(t) THEN proved \cup {Block(t)}
                 ELSE proved
    /\ UNCHANGED pc

ResumeSim(t) ==
    /\ task[t] = "sim" /\ Answered(Sim(t))
    /\ task' = [task EXCEPT ![t] = "done"]
    /\ UNCHANGED <<pc, proved, runnerVars>>

Resume ==
    /\ phase = "wait"
    /\ \E t \in DOMAIN task : ResumeAiger(t) \/ ResumeEngine(t) \/ ResumeSim(t)
    /\ UNCHANGED <<disk, args, sel, at, strat, new, exit, sessions>>

\* Callbacks of answered futures come before the next poll.
Idle == \A t \in DOMAIN task : task[t] # "done" => ~Answered(<<t, task[t]>>)

\* Mutant: a started engine is not awaited.
AllStarted == \A t \in DOMAIN task : task[t] # "aiger"

\* asyncio.gather returns.
AllDone == \A t \in DOMAIN task : task[t] = "done"

\* A poll that is due after an exception still runs before the loop is
\* closed, and is the last one.
Tick ==
    /\ \/ pc \in {"build", "run", "bmc"} /\ (phase = "wait" => Idle /\ ~AllDone)
       \/ pc = "closing"
       \/ pc = "closed" /\ phase # "wait"
    /\ Poll(args.max_mem, args.no_kill)
    /\ pc' = IF pc = "closing" THEN "closed" ELSE pc
    /\ UNCHANGED <<disk, args, sel, at, strat, new, task, exit, sessions, proved>>
-------------------------------------------------------------------------------
(* Sessions *)

Init ==
    /\ RunnerInit
    /\ disk \in Disks
    /\ args = (CHOOSE a \in ArgSets : TRUE) /\ sel = {} /\ pc = "off" /\ at = 0
    /\ strat = {} /\ new = FALSE /\ task = <<>> /\ exit = "none" /\ sessions = 0
    /\ proved = {Block(e) : e \in UNION {disk[s].entries : s \in Steps}}

\* main() up to the choice of the mode.  An unknown name of -p ends it.
Launch(a) ==
    /\ pc = "off" /\ sessions < MaxSessions
    /\ sessions' = sessions + 1
    /\ args' = a /\ at' = Larger(a.start, 0) /\ strat' = {} /\ new' = FALSE /\ task' = <<>>
    /\ proc' = <<>> /\ pending' = <<>> /\ running' = <<>> /\ phase' = "wait" /\ free' = 0
    /\ IF \A n \in Range(a.properties) : Known(n)
       THEN sel' = Selected(a) /\ pc' = "main" /\ exit' = "none"
       ELSE sel' = {} /\ pc' = "off" /\ exit' = "1"
    /\ UNCHANGED <<disk, proved>>

Leave(code) == pc' = "off" /\ exit' = code

\* The program is killed: the file being written is left as it is.  Engines
\* that survive it are not counted in the next session's memory.
Kill ==
    /\ pc # "off" /\ Leave("killed")
    /\ proc' = <<>> /\ pending' = <<>> /\ running' = <<>> /\ phase' = "wait" /\ free' = 0
    /\ task' = <<>> /\ strat' = {} /\ new' = FALSE
    /\ UNCHANGED <<disk, args, sel, at, sessions, proved>>

\* The loop is closed after an exception; a process may be left alive.
Close ==
    /\ pc \in {"closing", "closed"} /\ phase = "wait" /\ Leave("crash")
    /\ UNCHANGED <<runnerVars, disk, args, sel, at, strat, new, task, sessions, proved>>

kept == <<disk, args, sel, sessions, proved>>
-------------------------------------------------------------------------------
(* prove, bmc and info *)

AllStrategies == UNION {load_strategy(s, args) : s \in {t \in Steps : t >= args.start}}

\* --check-complete compares names.
Uncovered == {x.name : x \in sel} \ PropsOf(AllStrategies)
Incomplete == args.check_complete /\ Uncovered # {}

\* Mutant: an entry that was refuted or undetermined is not an error.
VerdictTimeoutsOnly == IF \E t \in DOMAIN task : Code(Engine(t)) = NoCode THEN "1" ELSE "0"

Verdict == IF \A t \in DOMAIN task : Proven(t) THEN "0" ELSE "1"

\* Everything at once: run_strategy of all steps, then the verdict.
ProveAll ==
    /\ pc = "main" /\ args.mode = "prove" /\ ~args.by_step
    /\ IF Incomplete THEN Leave("1") /\ UNCHANGED <<runnerVars, task>>
       ELSE IF AllStrategies = {} THEN Leave("0") /\ UNCHANGED <<runnerVars, task>>
       ELSE Gather(AllStrategies) /\ pc' = "run" /\ UNCHANGED exit
    /\ UNCHANGED <<kept, at, strat, new>>

\* One step after the other; a step without a strategy is skipped.
ProveStep ==
    /\ pc = "main" /\ args.mode = "prove" /\ args.by_step /\ at <= MaxStep
    /\ IF load_strategy(at, args) = {} THEN at' = at + 1 /\ UNCHANGED <<runnerVars, task, pc>>
       ELSE Gather(load_strategy(at, args)) /\ pc' = "run" /\ UNCHANGED at
    /\ UNCHANGED <<kept, strat, new, exit>>

ProveStepsDone ==
    /\ pc = "main" /\ args.mode = "prove" /\ args.by_step /\ at > MaxStep
    /\ Leave(IF Incomplete THEN "1" ELSE "0")
    /\ UNCHANGED <<kept, runnerVars, at, strat, new, task>>

\* The gather is over.  Only prove mode without --by-step looks at results.
Ran ==
    /\ pc = "run" /\ phase = "wait" /\ AllDone
    /\ IF args.mode = "prove" /\ ~args.by_step
       THEN Leave(Verdict) /\ UNCHANGED at
       ELSE pc' = "main" /\ at' = at + 1 /\ UNCHANGED exit
    /\ UNCHANGED <<kept, runnerVars, strat, new, task>>

\* One property without a bound, or all of them again and again, deeper each
\* time round; which of them comes next is left open.
Bmc ==
    /\ pc = "main" /\ args.mode = "bmc"
    /\ \/ sel = {} /\ Leave("0") /\ UNCHANGED <<runnerVars, task>>
       \/ \E x \in sel :
            /\ Gather({[step |-> x.step, props |-> {x.name}, mem |-> 0]})
            /\ pc' = "bmc" /\ UNCHANGED exit
    /\ UNCHANGED <<kept, at, strat, new>>

BmcDone ==
    /\ pc = "bmc" /\ phase = "wait" /\ AllDone
    /\ IF Unbounded THEN Leave("0") ELSE pc' = "main" /\ UNCHANGED exit
    /\ UNCHANGED <<kept, runnerVars, at, strat, new, task>>

\* info_mode only reads.
Info ==
    /\ pc = "main" /\ args.mode = "info" /\ Leave("0")
    /\ UNCHANGED <<kept, runnerVars, at, strat, new, task>>
-------------------------------------------------------------------------------
(* explore *)

\* construct_strategy up to its gather.  Without --hard two or more missing
\* properties are raced with their split, which fails before any command.
Construct ==
    /\ pc = "main" /\ args.mode = "explore" /\ at <= MaxStep
    /\ LET strategy == load_strategy(at, args)
           not_done == missing_from(strategy, by_step(at))
       IN /\ strat' = strategy
          /\ \/ /\ not_done = {} /\ new' = FALSE /\ pc' = "rerun"
                /\ UNCHANGED <<runnerVars, task>>
             \/ /\ not_done # {} /\ new' = TRUE
                /\ IF args.hard \/ Cardinality(not_done) = 1
                   THEN /\ Gather({[step |-> at, props |-> {n}, mem |-> 0] : n \in not_done})
                        /\ pc' = "build"
                   ELSE Fail /\ UNCHANGED runnerVars
    /\ UNCHANGED <<kept, at, exit>>

\* Mutant: what an engine gave up on is stored as well.
BuiltUnlessRefuted == {[t EXCEPT !.mem = proc[Engine(t)].max_memory] :
                         t \in {u \in DOMAIN task : Code(Engine(u)) # 10}}

\* What build_strategy_rec returns, for all tasks: the proved properties.
Built == {[t EXCEPT !.mem = proc[Engine(t)].max_memory] :
            t \in {u \in DOMAIN task : Proven(u)}}

\* Mutant: the entries loaded from the file are left out.
ExtendNothing == strat' = Built

Extend == strat' = strat \cup Built

BuildDone ==
    /\ pc = "build" /\ phase = "wait" /\ AllDone
    /\ Extend
    /\ pc' = IF args.no_store THEN "rerun" ELSE "store"
    /\ UNCHANGED <<kept, runnerVars, at, new, task, exit>>

\* store_strategy: open(..., "w") truncates the file, then it is written.
\* An exception is only logged: the file is as it was, or stays torn.
Truncate ==
    /\ pc = "store"
    /\ \/ /\ disk' = [disk EXCEPT ![at] = [file |-> "torn", entries |-> {}]]
          /\ pc' = "dump"
       \/ UNCHANGED disk /\ pc' = "rerun"
    /\ UNCHANGED <<runnerVars, args, sel, at, strat, new, task, exit, sessions, proved>>

Dump ==
    /\ pc = "dump" /\ pc' = "rerun"
    /\ \/ disk' = [disk EXCEPT ![at] = [file |-> "good", entries |-> strat]]
       \/ UNCHANGED disk
    /\ UNCHANGED <<runnerVars, args, sel, at, strat, new, task, exit, sessions, proved>>

\* A strategy that was just built and has one entry is not run again.
Rerun ==
    /\ pc = "rerun"
    /\ IF args.no_run \/ (new /\ Cardinality(strat) = 1) \/ strat = {}
       THEN pc' = "main" /\ at' = at + 1 /\ UNCHANGED <<runnerVars, task>>
       ELSE Gather(strat) /\ pc' = "run" /\ UNCHANGED at
    /\ UNCHANGED <<kept, strat, new, exit>>

ExploreDone ==
    /\ pc = "main" /\ args.mode = "explore" /\ at > MaxStep /\ Leave("0")
    /\ UNCHANGED <<kept, runnerVars, at, strat, new, task>>
-------------------------------------------------------------------------------
Main == \/ ProveAll \/ ProveStep \/ ProveStepsDone \/ Ran \/ Bmc \/ BmcDone \/ Info
        \/ Construct \/ BuildDone \/ Truncate \/ Dump \/ Rerun \/ ExploreDone \/ Close

Halted == pc = "off" /\ sessions = MaxSessions /\ UNCHANGED vars

Next == \/ \E a \in ArgSets : Launch(a)
        \/ Main \/ Resume \/ Tick
        \/ OS /\ pc # "off" /\ UNCHANGED mainVars
        \/ Kill \/ Halted

\* The engine of bmc_mode's only property is running: it has neither a bound
\* nor a timeout, and need not end.
Endless == pc = "bmc" /\ Unbounded /\ running # <<>> /\ running[1][2] = "engine"

\* The event loop goes on, and the command that runs longest ends or reaches
\* its timeout.
Fairness ==
    /\ WF_vars(Main) /\ WF_vars(Resume) /\ WF_vars(Tick)
    /\ WF_vars(OldestEnds /\ ~Endless /\ pc # "off" /\ UNCHANGED mainVars)

Spec == Init /\ [][Next]_vars /\ Fairness
-------------------------------------------------------------------------------
(* Properties *)

\* Every variable of the program and of its scheduler is of its type.
TypeOK ==
    /\ RunnerTypeOK
    /\ \A s \in Steps : disk[s].file \in {"absent", "torn", "good"} /\ IsFiniteSet(disk[s].entries)
    /\ args \in ArgSets /\ \A x \in sel : x.step \in Steps
    /\ pc \in {"main", "build", "store", "dump", "rerun", "run", "bmc", "closing",
              "closed", "off"}
    /\ at \in Nat /\ new \in BOOLEAN /\ sessions \in 0 .. MaxSessions
    /\ exit \in {"none", "crash", "killed", "0", "1"}
    /\ \A t \in DOMAIN task : task[t] \in Kinds \cup {"done"}

\* prove_mode, exit status 0 without --by-step: every strategy entry that was
\* run was proved in this session, and with --check-complete every selected
\* name is among the properties of one.
VerdictSound ==
    (exit = "0" /\ args.mode = "prove" /\ ~args.by_step) =>
      /\ \A t \in DOMAIN task : Answered(Engine(t)) /\ Proven(t)
      /\ args.check_complete =>
           \A x \in sel : \E t \in DOMAIN task : x.name \in t.props

\* store_strategy, load_strategy: whatever was killed, timed out or refuted
\* while it was built, a strategy file holds only entries an engine proved,
\* for the step of the file.
StoredProved ==
    \A s \in Steps : \A e \in disk[s].entries : e.step = s /\ Block(e) \in proved

\* construct_strategy, store_strategy: a strategy file that can be read is
\* only overwritten by a strategy for all of its properties and maybe more,
\* except with --fresh, which replaces it.
ProofsKept ==
    [][\A s \in Steps :
         (disk[s].file = "good" /\ disk'[s] # disk[s] /\ ~args.fresh) =>
           PropsOf(disk[s].entries) \subseteq PropsOf(strat)]_vars

\* main() and exit(1): when the program ends by itself, and not by an
\* exception, no command it started is left running or queued.
CleanExit ==
    (pc = "off" /\ exit \in {"0", "1"}) =>
      /\ pending = <<>> /\ running = <<>>
      /\ \A p \in DOMAIN proc : proc[p].os = "none"

\* What a coroutine can see of its commands.
commands ==
    [p \in DOMAIN proc |->
       [state |-> proc[p].future, timed |-> proc[p].timed, code |-> proc[p].result]]

\* poll(): nothing runs, so that all of the memory is free, and yet the head
\* of the queue does not fit, though it expects no more than was requested
\* for it or than it once used: everything waits for ever.  So it does on a
\* machine with two CPUs.
Starved ==
    /\ pending # <<>> /\ running = <<>>
    /\ LET p     == Last(pending)
           need  == IF p[2] = "engine" THEN EngineProcess(p[1]).expected ELSE 5
           limit == IF args.max_mem = 0 \/ Total < args.max_mem THEN Total ELSE args.max_mem
       IN \/ MAX_RUNNING <= 0
          \/ /\ proc[p].expected <= Larger(need, Peak[p[2]])
             /\ limit <= proc[p].expected + GLOBAL_MEMORY_BUFFER

ShellSpec == INSTANCE Shell WITH job <- commands, stuck <- (Starved \/ Endless)

\* shell(): the scheduler, with its kills, restarts and timeouts, is seen by
\* the coroutines as a shell that answers every command that can be run.
ImplementsShell == ShellSpec!Spec

\* main(): prove, explore and info end, and so does bmc of at most one property,
\* unless the last session comes to a point from which on the head of the queue
\* never fits into the memory, or its unbounded engine never ends.
Terminates ==
    \/ (pc = "main" /\ (args.mode = "bmc" => Unbounded \/ sel = {})) ~> (pc = "off")
    \/ <>[](Starved \/ Endless)
===============================================================================
