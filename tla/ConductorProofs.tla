---------------------------- MODULE ConductorProofs ----------------------------
(***************************************************************************)
(* The conductor's verdicts, its strategy files and its scheduler are      *)
(* right for any property list, any strategy files, any command lines, any *)
(* memory and any number of CPUs; and as far as safety goes the scheduler  *)
(* is, to the coroutines, the shell of module Shell.                       *)
(***************************************************************************)
EXTENDS Conductor, ProcessRunnerProofs

(* The inductive invariant *)

Gathering == pc \in {"build", "run", "bmc"}
Building  == pc \in {"build", "store", "dump", "rerun"}

\* The commands that exist are those of the current gather; only the one a task
\* awaits may be unanswered, and a task that awaits no command any more has the
\* answer of its engine.
Coroutines ==
    /\ \A t \in DOMAIN task : /\ task[t] \in {"aiger", "engine", "sim", "done"}
                              /\ task[t] = "sim" => pc = "bmc"
    /\ ~Gathering => \A t \in DOMAIN task : task[t] = "done"
    /\ pc \notin {"closing", "closed", "off"} =>
         \A p \in DOMAIN proc :
           /\ p[1] \in DOMAIN task /\ p \in {Aiger(p[1]), Engine(p[1]), Sim(p[1])}
           /\ \/ proc[p].future = "done"
              \/ proc[p].future = "waiting" /\ p = <<p[1], task[p[1]]>>
    /\ \A t \in DOMAIN task : task[t] \in {"sim", "done"} => Answered(Engine(t))
    /\ pc \in {"run", "build"} => \A t \in DOMAIN task : t.mem \in Nat

\* Which mode is where; a session has no exit status before it ends, and
\* nothing is queued or running when it ends without an exception.
Session ==
    /\ args \in ArgSets
    /\ pc \in {"main", "build", "store", "dump", "rerun", "run", "bmc", "closing",
              "closed", "off"}
    /\ at \in Nat /\ new \in BOOLEAN /\ sessions \in 0 .. MaxSessions
    /\ exit \in {"none", "crash", "killed", "0", "1"}
    /\ IsFiniteSet(sel) /\ \A x \in sel : x.step \in Steps
    /\ pc # "off" => exit = "none"
    /\ pc = "off" /\ exit # "crash" => pending = <<>> /\ running = <<>>
    /\ Building => args.mode = "explore"
    /\ pc = "bmc" => args.mode = "bmc"

\* What the verdict of prove_mode rests on.
Proving ==
    /\ VerdictSound
    /\ args.mode = "prove" /\ ~args.by_step =>
         /\ pc = "main" => task = <<>>
         /\ pc = "run" /\ args.check_complete =>
              \A x \in sel : \E t \in DOMAIN task : x.name \in t.props

\* The entries of a set were proved, for the step s.
ProvedEntries(S, s) ==
    IsFiniteSet(S) /\ \A e \in S : Entry(e) /\ e.step = s /\ Block(e) \in proved

\* explore: what is built extends what was loaded, and was proved.
Strategy ==
    /\ Building => at \in Steps /\ ProvedEntries(strat, at)
    /\ pc = "build" =>
         /\ IsFiniteSet(DOMAIN task)
         /\ \A t \in DOMAIN task :
              /\ Entry(t) /\ t.step = at
              /\ task[t] = "done" /\ Proven(t) => Block(t) \in proved
    /\ pc \in {"build", "store"} /\ ~args.fresh /\ disk[at].file = "good" =>
         disk[at].entries \subseteq strat
    /\ pc = "dump" => disk[at].file # "good"

Files ==
    /\ DOMAIN disk = Steps
    /\ \A s \in Steps : disk[s].file \in {"absent", "torn", "good"}
                         /\ ProvedEntries(disk[s].entries, s)

IInv == RInv /\ Coroutines /\ Session /\ Proving /\ Strategy /\ Files
-------------------------------------------------------------------------------
(* The property list and the selection *)

\* Every property is of a step of by_step.
LEMMA StepsOfAsserts ==
    MaxStep \in Nat /\ \A i \in DOMAIN Asserts : Asserts[i].step \in Steps
<1>. DEFINE n == Len(Asserts)
            step(i) == Asserts[i].step
            Top(k) == \E i \in 1 .. k : \A j \in 1 .. k : step(i) >= step(j)
            Bad == {k \in 1 .. n : ~Top(k)}
            T == {step(i) : i \in DOMAIN Asserts}
<1>1. n \in Nat \ {0} /\ DOMAIN Asserts = 1 .. n /\ \A i \in 1 .. n : step(i) \in Nat
  <2>1. Asserts \in Seq(Range(Asserts)) /\ Asserts # <<>>
    BY ConductorAssumption
  <2>2. n \in Nat /\ n # 0 /\ DOMAIN Asserts = 1 .. n
    BY <2>1, LenProperties, EmptySeq
  <2>. QED
    BY <2>2, ConductorAssumption
<1>. HIDE DEF n, step, Top, Bad
<1>2. Top(n)
  <2>. SUFFICES ASSUME Bad # {} PROVE FALSE
    BY <1>1 DEF Bad
  <2>0. Bad \subseteq Nat
    BY DEF Bad
  <2>1. PICK k \in Bad : \A m \in Bad : k <= m
    BY <2>0, LeastNumber
  <2>2. k \in 1 .. n /\ ~Top(k)
    BY DEF Bad
  <2>3. k # 1
    <3>1. step(1) >= step(1)
      BY <1>1
    <3>. QED
      BY <3>1, <2>2 DEF Top
  <2>4. k - 1 \in 1 .. n
    BY <2>2, <2>3, <1>1
  <2>5. Top(k - 1)
    BY <2>1, <2>2, <2>4, <1>1 DEF Bad
  <2>6. PICK i \in 1 .. k - 1 : \A j \in 1 .. k - 1 : step(i) >= step(j)
    BY <2>5 DEF Top
  <2>7. i \in 1 .. k /\ \A j \in 1 .. k : j \in 1 .. n /\ step(j) \in Nat
    BY <2>2, <1>1
  <2>8. CASE step(i) >= step(k)
    <3>1. \A j \in 1 .. k : step(i) >= step(j)
      BY <2>2, <2>6, <2>8
    <3>. QED
      BY <3>1, <2>2, <2>7 DEF Top
  <2>9. CASE step(k) >= step(i)
    <3>1. \A j \in 1 .. k : j = k \/ j \in 1 .. k - 1
      BY <2>2
    <3>2. \A j \in 1 .. k : step(k) >= step(j)
      BY <2>2, <2>6, <2>7, <2>9, <3>1
    <3>3. k \in 1 .. k
      BY <2>2
    <3>. QED
      BY <3>2, <3>3, <2>2 DEF Top
  <2>10. step(i) >= step(k) \/ step(k) >= step(i)
    <3>1. k \in 1 .. k
      BY <2>2
    <3>. QED
      BY <3>1, <2>7
  <2>. QED
    BY <2>8, <2>9, <2>10
<1>3. \E x \in T : \A y \in T : x >= y
  BY <1>1, <1>2 DEF Top
<1>4. MaxStep = Max(T)
  BY DEF MaxStep, step
<1>5. Max(T) \in T /\ \A y \in T : Max(T) >= y
  <2>. HIDE DEF T
  <2>. QED
    BY <1>3 DEF Max
<1>6. T \subseteq Nat
  BY <1>1
<1>. QED
  BY <1>4, <1>5, <1>6 DEF Steps, step

\* Lookup finds a property of the list under a name that is known.
LEMMA LookupFinds ==
    ASSUME NEW n, Known(n)
    PROVE  \E i \in names : Lookup(n) = Prop(Asserts[i])
<1>1. Found(n) \subseteq Nat /\ Found(n) # {} /\ Found(n) \subseteq names
  <2>1. DOMAIN Asserts \subseteq Nat
    BY ConductorAssumption, LenProperties
  <2>. QED
    BY <2>1 DEF Found, Known, names
<1>2. \E x \in Found(n) : \A y \in Found(n) : x <= y
  BY <1>1, LeastNumber
<1>3. Min(Found(n)) \in Found(n)
  BY <1>2 DEF Min
<1>. QED
  BY <1>1, <1>3 DEF Lookup

\* -p, --missing or all: finitely many properties, each of a step of the list.
LEMMA SelectedFacts ==
    ASSUME NEW a \in ArgSets, \A n \in Range(a.properties) : Known(n)
    PROVE  IsFiniteSet(Selected(a)) /\ \A x \in Selected(a) : x.step \in Steps
<1>. DEFINE all == {Prop(Asserts[i]) : i \in names}
            listed == {<<i, Prop(Asserts[i])>> : i \in names}
            explicit == {<<i, Lookup(a.properties[i])>> : i \in DOMAIN a.properties}
            missing == UNION {{<<0, [step |-> s, name |-> n]>> :
                                 n \in missing_from(load_strategy(s, a),
                                                    NamesOf({x[2] : x \in listed}, s))} :
                              s \in {t \in Steps : ~LoadsNone(t, a)}}
<1>1. IsFiniteSet(names) /\ names \subseteq DOMAIN Asserts
  <2>1. Len(Asserts) \in Nat /\ DOMAIN Asserts = 1 .. Len(Asserts)
    BY ConductorAssumption, LenProperties
  <2>2. IsFiniteSet(1 .. Len(Asserts))
    BY <2>1, FS_Interval
  <2>3. names \in SUBSET (1 .. Len(Asserts))
    BY <2>1 DEF names
  <2>. QED
    BY <2>1, <2>2, <2>3, FS_Subset
<1>2. IsFiniteSet(all)
  <2>. DEFINE f == [i \in names |-> Prop(Asserts[i])]
  <2>1. f \in Surjection(names, all)
    BY DEF Surjection
  <2>. QED
    BY <2>1, <1>1, FS_Surjection
<1>3. \A x \in all : x = [step |-> x.step, name |-> x.name] /\ x.step \in Steps
  BY <1>1, StepsOfAsserts DEF Prop
<1>4. \A y \in explicit : y[2] \in all
  <2>1. \A i \in DOMAIN a.properties : Known(a.properties[i])
    BY DEF Range
  <2>. QED
    BY <2>1, LookupFinds
<1>5. {x[2] : x \in listed} = all
  <2>1. ASSUME NEW i \in names PROVE Prop(Asserts[i]) \in {x[2] : x \in listed}
    <3>1. <<i, Prop(Asserts[i])>> \in listed /\ <<i, Prop(Asserts[i])>>[2] = Prop(Asserts[i])
      OBVIOUS
    <3>. QED
      BY <3>1
  <2>2. \A x \in listed : x[2] \in all
    OBVIOUS
  <2>. QED
    BY <2>1, <2>2
<1>6. \A y \in missing : y[2] \in all
  <2>1. ASSUME NEW s \in Steps, NEW n \in NamesOf(all, s)
        PROVE  [step |-> s, name |-> n] \in all
    <3>1. PICK x \in all : x.step = s /\ x.name = n
      BY DEF NamesOf
    <3>. QED
      BY <3>1, <1>3
  <2>2. \A y \in missing : \E s \in Steps : \E n \in NamesOf(all, s) :
          y = <<0, [step |-> s, name |-> n]>>
    BY <1>5 DEF missing_from
  <2>. HIDE DEF missing, all
  <2>. QED
    BY <2>1, <2>2
<1>7. Selected(a) \subseteq all
  <2>1. \A y \in Listing(a) : y \in explicit \/ y \in missing \/ y \in listed
    BY DEF Listing
  <2>2. \A y \in listed : y[2] \in all
    BY <1>5
  <2>. HIDE DEF all, listed, explicit, missing
  <2>. QED
    BY <2>1, <2>2, <1>4, <1>6 DEF Selected
<1>. HIDE DEF all
<1>. QED
  BY <1>2, <1>3, <1>7, FS_Subset

\* A program that has not started is in order.
LEMMA InitIInv == Init => IInv
<1>. SUFFICES ASSUME Init PROVE IInv
  OBVIOUS
<1>1. RInv
  BY RunnerInitRInv DEF Init
<1>2. DOMAIN task = {} /\ DOMAIN proc = {}
  BY DEF Init, RunnerInit
<1>3. Coroutines
  BY <1>2 DEF Coroutines, Init
<1>4. Session
  <2>1. args \in ArgSets
    BY ConductorAssumption DEF Init
  <2>2. sessions \in 0 .. MaxSessions
    BY ConductorAssumption DEF Init
  <2>. QED
    BY <2>1, <2>2, FS_EmptySet DEF Session, Init, RunnerInit, Building
<1>5. Proving
  BY DEF Proving, VerdictSound, Init
<1>6. Strategy
  BY DEF Strategy, Building, Init
<1>7. Files
  <2>1. \A s \in Steps : \A e \in disk[s].entries : Block(e) \in proved
    BY DEF Init
  <2>. QED
    BY <2>1, DisksAssumption DEF Files, ProvedEntries, Init
<1>. QED
  BY <1>1, <1>3, <1>4, <1>5, <1>6, <1>7 DEF IInv
-------------------------------------------------------------------------------
(* What the coroutines see of a step *)

ShellView == ShellSpec!Next \/ UNCHANGED commands

\* The commands as the coroutines see them.
LEMMA CommandsFacts ==
    /\ DOMAIN commands = DOMAIN proc
    /\ \A p \in DOMAIN proc :
         /\ commands[p] = [state |-> proc[p].future, timed |-> proc[p].timed,
                           code |-> proc[p].result]
    /\ ShellSpec!Awaited = {p \in DOMAIN proc : proc[p].future = "waiting"}
<1>1. /\ DOMAIN commands = DOMAIN proc
      /\ \A p \in DOMAIN proc :
           commands[p] = [state |-> proc[p].future, timed |-> proc[p].timed,
                          code |-> proc[p].result]
  BY DEF commands
<1>. QED
  BY <1>1 DEF ShellSpec!Awaited

\* The same after the step.
LEMMA CommandsNext ==
    /\ DOMAIN commands' = DOMAIN proc'
    /\ \A p \in DOMAIN proc' :
         commands'[p] = [state |-> proc'[p].future, timed |-> proc'[p].timed,
                         code |-> proc'[p].result]
  BY DEF commands

\* A scheduler step that answers some awaited commands, or none.
LEMMA SettlesSeen == Settles => ShellView
<1>. SUFFICES ASSUME Settles PROVE ShellView
  OBVIOUS
<1>. DEFINE S == {p \in DOMAIN proc : proc[p].future = "waiting" /\ proc'[p].future = "done"}
<1>1. /\ DOMAIN proc' = DOMAIN proc
      /\ \A p \in DOMAIN proc \ S : commands'[p] = commands[p]
  BY CommandsFacts, CommandsNext DEF Settles
<1>2. \A p \in S : /\ commands'[p].state = "done" /\ commands'[p].timed = commands[p].timed
                   /\ \/ commands'[p].code \in Codes[p[2]]
                      \/ commands'[p].code = NoCode /\ commands[p].timed
  BY CommandsFacts, CommandsNext DEF Settles
<1>3. S \subseteq ShellSpec!Awaited
  BY CommandsFacts
<1>4. CASE S = {}
  <2>1. commands' = commands
    BY <1>1, <1>4, CommandsFacts, CommandsNext DEF commands
  <2>. QED
    BY <2>1 DEF ShellView
<1>5. CASE S # {}
  <2>. HIDE DEF S
  <2>1. DOMAIN commands' = DOMAIN commands /\ DOMAIN commands = DOMAIN proc
    BY <1>1, CommandsFacts, CommandsNext
  <2>2. ShellSpec!Settle
    BY <1>1, <1>2, <1>3, <1>5, <2>1 DEF ShellSpec!Settle
  <2>. QED
    BY <2>2 DEF ShellView, ShellSpec!Next
<1>. QED
  BY <1>4, <1>5

\* The scheduler is not touched.
LEMMA SameSeen == proc' = proc => ShellView
  BY DEF ShellView, commands

\* The program ends, is killed or starts.
LEMMA EmptySeen == proc' = <<>> => ShellView
<1>. SUFFICES ASSUME proc' = <<>> PROVE ShellView
  OBVIOUS
<1>1. DOMAIN proc' = {}
  OBVIOUS
<1>2. commands' = <<>>
  BY <1>1 DEF commands
<1>. QED
  BY <1>2 DEF ShellView, ShellSpec!Next, ShellSpec!Abandon

\* New commands are awaited, or cancelled at once; the awaited ones stay.
LEMMA RequestSeen ==
    ASSUME \A p \in DOMAIN proc' :
             \/ proc'[p].future \in {"waiting", "cancelled"} /\ proc'[p].result = NoCode
             \/ p \in DOMAIN proc /\ proc'[p] = proc[p],
           \A p \in DOMAIN proc :
             proc[p].future = "waiting" => p \in DOMAIN proc' /\ proc'[p] = proc[p]
    PROVE  ShellView
<1>1. \A p \in DOMAIN proc' : p \in DOMAIN proc /\ proc'[p] = proc[p] => commands'[p] = commands[p]
  BY CommandsFacts, CommandsNext
<1>2. ShellSpec!Request
  BY <1>1, CommandsFacts, CommandsNext DEF ShellSpec!Request
<1>. QED
  BY <1>2 DEF ShellView, ShellSpec!Next

\* An exception cancels every awaited command.
LEMMA CancelSeen ==
    ASSUME RInv, CancelAll
    PROVE  ShellView
<1>1. /\ DOMAIN proc' = DOMAIN proc
      /\ \A p \in DOMAIN proc : proc'[p] = Cancelled(proc[p])
  BY DEF CancelAll
<1>2. \A p \in DOMAIN proc :
        /\ proc[p].future = "waiting" =>
             proc'[p].future = "cancelled" /\ proc'[p].timed = proc[p].timed
             /\ proc'[p].result = proc[p].result
        /\ proc[p].future # "waiting" => proc'[p] = proc[p]
  BY <1>1, OneCommand, RecordFacts
<1>3. \A p \in DOMAIN proc :
        commands'[p] = IF p \in ShellSpec!Awaited
                       THEN [commands[p] EXCEPT !.state = "cancelled"] ELSE commands[p]
  BY <1>1, <1>2, CommandsFacts, CommandsNext
<1>4. commands' = [p \in DOMAIN proc |-> commands'[p]]
  BY <1>1 DEF commands
<1>5. commands' = [p \in DOMAIN commands |->
                     IF p \in ShellSpec!Awaited
                     THEN [commands[p] EXCEPT !.state = "cancelled"] ELSE commands[p]]
  BY <1>3, <1>4, CommandsFacts
<1>. QED
  BY <1>5 DEF ShellView, ShellSpec!Next, ShellSpec!Cancel
-------------------------------------------------------------------------------
(* Steps that gather, and steps that leave the scheduler alone *)

\* When every task is done nothing is awaited, queued or running.
LEMMA AllDoneQuiet ==
    ASSUME IInv, AllDone, pc \notin {"closing", "closed", "off"}
    PROVE  /\ pending = <<>> /\ running = <<>>
           /\ \A p \in DOMAIN proc : proc[p].future = "done"
<1>1. \A p \in DOMAIN proc : proc[p].future = "done"
  <2>. SUFFICES ASSUME NEW p \in DOMAIN proc, proc[p].future # "done" PROVE FALSE
    OBVIOUS
  <2>1. /\ p[1] \in DOMAIN task /\ p \in {Aiger(p[1]), Engine(p[1]), Sim(p[1])}
        /\ p = <<p[1], task[p[1]]>>
    BY DEF IInv, Coroutines
  <2>2. task[p[1]] = "done"
    BY <2>1 DEF AllDone
  <2>. QED
    BY <2>1, <2>2 DEF Aiger, Engine, Sim
<1>2. pending \in Seq(DOMAIN proc) /\ running \in Seq(DOMAIN proc)
  BY DEF IInv, RInv, RunnerTypeOK
<1>3. \A p \in DOMAIN proc : p \notin Listed
  BY <1>1, OneCommand DEF IInv
<1>4. ASSUME NEW s \in Seq(DOMAIN proc), Range(s) \subseteq Listed PROVE s = <<>>
  <2>. SUFFICES ASSUME s # <<>> PROVE FALSE
    OBVIOUS
  <2>1. 1 \in DOMAIN s /\ s[1] \in DOMAIN proc
    BY LenProperties, EmptySeq, ElementOfSeq
  <2>. QED
    BY <2>1, <1>3, <1>4 DEF Range
<1>5. Range(pending) \subseteq Listed /\ Range(running) \subseteq Listed
  BY DEF Listed
<1>. QED
  BY <1>1, <1>2, <1>4, <1>5

\* Before a step of main() every task is done.
LEMMA MainAllDone ==
    ASSUME IInv, ~Gathering
    PROVE  AllDone
  BY DEF IInv, Coroutines, AllDone

\* The order in which the tasks of a gather start.
LEMMA OrderFacts ==
    ASSUME NEW S, IsFiniteSet(S), NEW order \in SetToSeqs(S)
    PROVE  order \in Seq(S) /\ IsInjective(order) /\ Range(order) = S
<1>1. Cardinality(S) \in Nat
  BY FS_CardinalityType
<1>2. order \in [1 .. Cardinality(S) -> S] /\ IsInjective(order)
  BY DEF SetToSeqs, IsInjective
<1>3. order \in Seq(S)
  BY <1>1, <1>2
<1>4. order \in Injection(1 .. Cardinality(S), S)
  BY <1>2 DEF Injection, IsInjective
<1>5. IsFiniteSet(1 .. Cardinality(S)) /\ Cardinality(1 .. Cardinality(S)) = Cardinality(S)
  BY <1>1, FS_Interval
<1>6. order \in Surjection(1 .. Cardinality(S), S)
  BY <1>4, <1>5, FS_Injection
<1>. QED
  BY <1>2, <1>3, <1>6 DEF Surjection, Range

\* A gather queues the preparation of every task, and nothing else is there.
LEMMA GatherStep ==
    ASSUME IInv, AllDone, pc \notin {"closing", "closed", "off"},
           NEW tasks, IsFiniteSet(tasks), Gather(tasks), Gathering',
           pc' \in {"run", "build"} => \A t \in tasks : t.mem \in Nat
    PROVE  /\ RInv' /\ Coroutines' /\ ShellView
           /\ DOMAIN task' = tasks /\ \A t \in tasks : task'[t] = "aiger"
<1>. DEFINE S == {Aiger(t) : t \in tasks}
<1>1. PICK order \in SetToSeqs(S) :
        /\ ShellAll([p \in Range(order) |-> Process(5, FALSE)], order)
        /\ task' = [t \in tasks |-> "aiger"]
  BY DEF Gather
<1>2. IsFiniteSet(S)
  <2>1. [t \in tasks |-> Aiger(t)] \in Surjection(tasks, S)
    BY DEF Surjection
  <2>. QED
    BY <2>1, FS_Surjection
<1>3. \A p \in S : p[1] \in tasks /\ p = Aiger(p[1]) /\ p[2] = "aiger" /\ p = <<p[1], "aiger">>
  BY DEF Aiger
<1>. HIDE DEF S
<1>4. order \in Seq(S) /\ IsInjective(order) /\ Range(order) = S
  BY <1>2, OrderFacts
<1>5. DOMAIN task' = tasks /\ \A t \in tasks : task'[t] = "aiger"
  BY <1>1
<1>. DEFINE records == [p \in S |-> Process(5, FALSE)]
<1>6. ShellAll(records, order) /\ proc' = records
  BY <1>1, <1>4 DEF ShellAll
<1>7. /\ RInv' /\ DOMAIN proc' = S
      /\ \A p \in DOMAIN proc' : proc'[p].future = "waiting" /\ proc'[p].result = NoCode
  <2>1. DOMAIN records = S /\ \A p \in S : records[p] = Process(5, FALSE)
    OBVIOUS
  <2>2. \A p \in S : p[2] \in Kinds /\ \E m \in Nat, timed \in BOOLEAN : records[p] = Process(m, timed)
    <3>1. 5 \in Nat /\ FALSE \in BOOLEAN
      OBVIOUS
    <3>2. "aiger" \in Kinds
      BY ConductorAssumption
    <3>. HIDE DEF records
    <3>. QED
      BY <1>3, <2>1, <3>1, <3>2
  <2>3. RInv /\ running = <<>>
    BY AllDoneQuiet DEF IInv
  <2>. HIDE DEF records
  <2>. QED
    BY <2>1, <2>2, <2>3, <1>2, <1>4, <1>6, ShellAllStep
<1>8. Coroutines'
  <2>1. \A p \in DOMAIN proc' :
          /\ p[1] \in DOMAIN task' /\ p = Aiger(p[1])
          /\ proc'[p].future = "waiting" /\ p = <<p[1], task'[p[1]]>>
    BY <1>3, <1>5, <1>7
  <2>2. \A t \in DOMAIN task' : task'[t] = "aiger"
    BY <1>5
  <2>3. Gathering' /\ (pc' \in {"run", "build"} => \A t \in DOMAIN task' : t.mem \in Nat)
    BY <1>5
  <2>. QED
    BY <2>1, <2>2, <2>3 DEF Coroutines
<1>9. ShellView
  <2>1. \A p \in DOMAIN proc : proc[p].future = "done"
    BY AllDoneQuiet
  <2>. QED
    BY <2>1, <1>7, RequestSeen
<1>. QED
  BY <1>5, <1>7, <1>8, <1>9

\* A step that leaves the scheduler and the tasks alone when all are done.
LEMMA StayStep ==
    ASSUME IInv, AllDone, pc \notin {"closing", "closed", "off"},
           UNCHANGED <<runnerVars, task>>, ~Gathering'
    PROVE  RInv' /\ Coroutines' /\ ShellView /\ pending' = <<>> /\ running' = <<>>
<1>1. UNCHANGED <<proc, pending, running, phase, free, task>>
  BY DEF runnerVars
<1>2. RInv'
  BY <1>1 DEF IInv, RInv, RunnerTypeOK, Lists, Listed, Answers, ProcessType
<1>3. Coroutines'
  <2>1. \A t \in DOMAIN task : task[t] = "done"
    BY DEF AllDone
  <2>2. pc' \notin {"run", "build"}
    BY DEF Gathering
  <2>. QED
    BY <1>1, <2>1, <2>2 DEF IInv, Coroutines, Answered
<1>. QED
  BY <1>1, <1>2, <1>3, AllDoneQuiet, SameSeen

\* The strategy files stay what they are while more is proved.
LEMMA FilesKept ==
    ASSUME Files, disk' = disk, proved \subseteq proved'
    PROVE  Files'
  BY DEF Files, ProvedEntries

\* What load_strategy returns was proved, for its step.
LEMMA LoadedProved ==
    ASSUME Files, NEW s \in Steps, NEW a
    PROVE  ProvedEntries(load_strategy(s, a), s)
  BY FS_EmptySet DEF Files, ProvedEntries, load_strategy

\* A session that leaves by itself.
LEMMA LeaveStep ==
    ASSUME IInv, AllDone, pc \notin {"closing", "closed", "off"}, NEW code \in {"0", "1"},
           Leave(code), UNCHANGED <<runnerVars, disk, args, sel, at, new, task, sessions, proved>>,
           VerdictSound'
    PROVE  IInv' /\ ShellView
<1>1. RInv' /\ Coroutines' /\ ShellView /\ pending' = <<>> /\ running' = <<>>
  BY StayStep DEF Leave, Gathering
<1>2. Session'
  BY <1>1 DEF IInv, Session, Leave, Building
<1>3. Proving' /\ Strategy'
  BY DEF Proving, Strategy, Leave, Building
<1>4. Files'
  BY FilesKept DEF IInv
<1>. QED
  BY <1>1, <1>2, <1>3, <1>4 DEF IInv
-------------------------------------------------------------------------------
(* Sessions *)

\* A program starts or is killed with an empty scheduler.
LEMMA FreshRunner ==
    ASSUME proc' = <<>>, pending' = <<>>, running' = <<>>, phase' = "wait", free' = 0
    PROVE  RInv' /\ DOMAIN proc' = {}
<1>1. DOMAIN proc' = {} /\ Range(pending') = {} /\ Range(running') = {}
  BY DEF Range
<1>2. pending' \in Seq(DOMAIN proc') /\ running' \in Seq(DOMAIN proc')
  OBVIOUS
<1>3. RunnerTypeOK'
  BY <1>1, <1>2 DEF RunnerTypeOK
<1>4. Lists'
  BY <1>1 DEF Lists, IsInjective
<1>5. Answers' /\ IsFiniteSet(DOMAIN proc')
  BY <1>1, FS_EmptySet DEF Answers
<1>. QED
  BY <1>1, <1>3, <1>4, <1>5 DEF RInv

\* main() up to the choice of the mode.
LEMMA LaunchStep ==
    ASSUME IInv, NEW a \in ArgSets, Launch(a)
    PROVE  IInv' /\ ShellView
<1>1. RInv' /\ DOMAIN proc' = {} /\ ShellView
  BY FreshRunner, EmptySeen DEF Launch
<1>2. task' = <<>> /\ DOMAIN task' = {} /\ pc' \in {"main", "off"}
  BY DEF Launch
<1>3. Coroutines'
  BY <1>1, <1>2 DEF Coroutines, Gathering
<1>4. Session'
  <2>1. IsFiniteSet(sel') /\ \A x \in sel' : x.step \in Steps
    BY SelectedFacts, FS_EmptySet DEF Launch
  <2>2. at' \in Nat
    <3>1. a.start \in Int
      BY ConductorAssumption
    <3>. QED
      BY <3>1 DEF Launch, Larger
  <2>3. sessions' \in 0 .. MaxSessions
    BY ConductorAssumption DEF Launch, IInv, Session
  <2>4. /\ exit' \in {"none", "1"} /\ (pc' # "off" => exit' = "none")
        /\ new' \in BOOLEAN /\ args' \in ArgSets /\ pending' = <<>> /\ running' = <<>>
    BY DEF Launch
  <2>. QED
    BY <1>2, <2>1, <2>2, <2>3, <2>4 DEF Session, Building
<1>5. Proving'
  <2>1. exit' # "0"
    BY DEF Launch
  <2>. QED
    BY <2>1, <1>2 DEF Proving, VerdictSound
<1>6. Strategy'
  BY <1>2 DEF Strategy, Building
<1>7. Files'
  BY FilesKept DEF IInv, Launch
<1>. QED
  BY <1>1, <1>3, <1>4, <1>5, <1>6, <1>7 DEF IInv

\* The program is killed, wherever it is.
LEMMA KillStep ==
    ASSUME IInv, Kill
    PROVE  IInv' /\ ShellView
<1>1. RInv' /\ DOMAIN proc' = {} /\ ShellView
  BY FreshRunner, EmptySeen DEF Kill
<1>2. DOMAIN task' = {} /\ pc' = "off" /\ exit' = "killed"
  BY DEF Kill, Leave
<1>3. Coroutines'
  BY <1>1, <1>2 DEF Coroutines, Gathering
<1>4. Session'
  BY <1>2 DEF IInv, Session, Building, Kill
<1>5. Proving' /\ Strategy'
  BY <1>2 DEF Proving, VerdictSound, Strategy, Building
<1>6. Files'
  BY FilesKept DEF IInv, Kill
<1>. QED
  BY <1>1, <1>3, <1>4, <1>5, <1>6 DEF IInv

\* The event loop is closed after an exception.
LEMMA CloseStep ==
    ASSUME IInv, Close
    PROVE  IInv' /\ ShellView
<1>1. UNCHANGED <<proc, pending, running, phase, free, task>>
  BY DEF Close, runnerVars
<1>2. RInv'
  BY <1>1 DEF IInv, RInv, RunnerTypeOK, Lists, Listed, Answers, ProcessType
<1>3. pc' = "off" /\ exit' = "crash" /\ pc \in {"closing", "closed"}
  BY DEF Close, Leave
<1>4. Coroutines'
  BY <1>1, <1>3 DEF IInv, Coroutines, Answered, Gathering
<1>5. Session'
  BY <1>3 DEF IInv, Session, Building, Close
<1>6. Proving' /\ Strategy'
  BY <1>3 DEF Proving, VerdictSound, Strategy, Building
<1>7. Files'
  BY FilesKept DEF IInv, Close
<1>. QED
  BY <1>1, <1>2, <1>4, <1>5, <1>6, <1>7, SameSeen DEF IInv
-------------------------------------------------------------------------------
(* prove, bmc and info *)

\* All strategies together: finitely many entries.
LEMMA AllStrategiesFacts ==
    ASSUME IInv
    PROVE  IsFiniteSet(AllStrategies) /\ \A e \in AllStrategies : Entry(e)
<1>. DEFINE T == {t \in Steps : t >= args.start}
            L == {load_strategy(s, args) : s \in T}
<1>1. \A s \in T : ProvedEntries(load_strategy(s, args), s)
  BY LoadedProved DEF IInv
<1>2. IsFiniteSet(T)
  <2>1. IsFiniteSet(Steps)
    <3>1. 0 \in Int /\ MaxStep \in Int
      BY StepsOfAsserts
    <3>. QED
      BY <3>1, FS_Interval DEF Steps
  <2>. QED
    BY <2>1, FS_Subset
<1>3. IsFiniteSet(L)
  <2>1. [s \in T |-> load_strategy(s, args)] \in Surjection(T, L)
    BY DEF Surjection
  <2>. QED
    BY <2>1, <1>2, FS_Surjection
<1>4. \A S \in L : IsFiniteSet(S) /\ \A e \in S : Entry(e)
  BY <1>1 DEF ProvedEntries
<1>5. AllStrategies = UNION L
  BY DEF AllStrategies
<1>. HIDE DEF L
<1>. QED
  BY <1>3, <1>4, <1>5, FS_UNION

\* run_strategy of a set of entries begins.
LEMMA RunBegins ==
    ASSUME IInv, pc \in {"main", "rerun"}, NEW tasks, Gather(tasks), pc' = "run",
           IsFiniteSet(tasks), \A e \in tasks : Entry(e),
           UNCHANGED <<disk, args, sel, at, new, exit, sessions, proved>>,
           (args.mode = "prove" /\ ~args.by_step /\ args.check_complete) =>
             \A x \in sel : \E t \in tasks : x.name \in t.props
    PROVE  IInv' /\ ShellView
<1>1. /\ RInv' /\ Coroutines' /\ ShellView
      /\ DOMAIN task' = tasks /\ \A t \in tasks : task'[t] = "aiger"
  BY MainAllDone, GatherStep DEF Gathering, Entry
<1>2. exit' = "none"
  BY DEF IInv, Session
<1>3. Session'
  BY DEF IInv, Session, Building
<1>4. Proving'
  BY <1>1, <1>2 DEF Proving, VerdictSound
<1>5. Strategy'
  BY DEF Strategy, Building
<1>6. Files'
  BY FilesKept DEF IInv
<1>. QED
  BY <1>1, <1>3, <1>4, <1>5, <1>6 DEF IInv

\* prove_mode without --by-step.
LEMMA ProveAllStep ==
    ASSUME IInv, ProveAll
    PROVE  IInv' /\ ShellView
<1>1. /\ pc = "main" /\ args.mode = "prove" /\ ~args.by_step /\ AllDone /\ task = <<>>
      /\ UNCHANGED <<disk, args, sel, at, new, sessions, proved>>
  BY MainAllDone DEF ProveAll, kept, Gathering, IInv, Proving
<1>2. ~Incomplete /\ args.check_complete => \A x \in sel : x.name \in PropsOf(AllStrategies)
  BY DEF Incomplete, Uncovered
<1>3. CASE Incomplete
  <2>1. Leave("1") /\ UNCHANGED <<runnerVars, task>>
    BY <1>3 DEF ProveAll
  <2>2. VerdictSound'
    BY <2>1 DEF Leave, VerdictSound
  <2>. QED
    BY <1>1, <2>1, <2>2, LeaveStep
<1>4. CASE ~Incomplete /\ AllStrategies = {}
  <2>1. Leave("0") /\ UNCHANGED <<runnerVars, task>>
    BY <1>4 DEF ProveAll
  <2>2. args.check_complete => sel = {}
    BY <1>2, <1>4 DEF PropsOf
  <2>3. DOMAIN task' = {}
    BY <1>1, <2>1
  <2>4. VerdictSound'
    BY <1>1, <2>2, <2>3 DEF VerdictSound
  <2>. QED
    BY <1>1, <2>1, <2>4, LeaveStep
<1>5. CASE ~Incomplete /\ AllStrategies # {}
  <2>1. Gather(AllStrategies) /\ pc' = "run" /\ exit' = exit
    BY <1>5 DEF ProveAll
  <2>2. args.check_complete => \A x \in sel : \E t \in AllStrategies : x.name \in t.props
    BY <1>2, <1>5 DEF PropsOf
  <2>. QED
    BY <1>1, <2>1, <2>2, AllStrategiesFacts, RunBegins
<1>. QED
  BY <1>3, <1>4, <1>5

\* prove_mode with --by-step: a step is skipped or run.
LEMMA ProveStepStep ==
    ASSUME IInv, ProveStep
    PROVE  IInv' /\ ShellView
<1>1. /\ pc = "main" /\ args.mode = "prove" /\ args.by_step /\ at \in Steps /\ AllDone
      /\ UNCHANGED <<disk, args, sel, strat, new, exit, sessions, proved>>
  BY MainAllDone, StepsOfAsserts DEF ProveStep, kept, Gathering, IInv, Session, Steps
<1>2. CASE load_strategy(at, args) = {}
  <2>1. at' = at + 1 /\ UNCHANGED <<runnerVars, task, pc>>
    BY <1>2 DEF ProveStep
  <2>2. RInv' /\ Coroutines' /\ ShellView
    BY <1>1, <2>1, StayStep DEF Gathering
  <2>3. Session'
    BY <1>1, <2>1 DEF IInv, Session, Building
  <2>4. exit' = "none"
    BY <1>1 DEF IInv, Session
  <2>5. Proving' /\ Strategy'
    BY <1>1, <2>1, <2>4 DEF Proving, VerdictSound, Strategy, Building
  <2>6. Files'
    BY <1>1, FilesKept DEF IInv
  <2>. QED
    BY <2>2, <2>3, <2>5, <2>6 DEF IInv
<1>3. CASE load_strategy(at, args) # {}
  <2>1. Gather(load_strategy(at, args)) /\ pc' = "run" /\ at' = at
    BY <1>3 DEF ProveStep
  <2>2. IsFiniteSet(load_strategy(at, args)) /\ \A e \in load_strategy(at, args) : Entry(e)
    BY <1>1, LoadedProved DEF IInv, ProvedEntries
  <2>. QED
    BY <1>1, <2>1, <2>2, RunBegins
<1>. QED
  BY <1>2, <1>3

\* A gather of run_strategy is over: the verdict, or the next step.
LEMMA RanStep ==
    ASSUME IInv, Ran
    PROVE  IInv' /\ ShellView
<1>1. /\ pc = "run" /\ AllDone
      /\ UNCHANGED <<runnerVars, disk, args, sel, strat, new, task, sessions, proved>>
  BY DEF Ran, kept
<1>2. CASE args.mode = "prove" /\ ~args.by_step
  <2>1. Leave(Verdict) /\ at' = at
    BY <1>2 DEF Ran
  <2>2. Verdict \in {"0", "1"} /\ (Verdict = "0" => \A t \in DOMAIN task : Proven(t))
    BY DEF Verdict
  <2>3. \A t \in DOMAIN task : Answered(Engine(t))
    BY <1>1 DEF AllDone, IInv, Coroutines
  <2>4. args.check_complete => \A x \in sel : \E t \in DOMAIN task : x.name \in t.props
    BY <1>1, <1>2 DEF IInv, Proving
  <2>5. VerdictSound'
    <3>1. UNCHANGED <<proc, task, args, sel>> /\ exit' = Verdict
      BY <1>1, <2>1 DEF runnerVars, Leave
    <3>. QED
      BY <2>2, <2>3, <2>4, <3>1 DEF VerdictSound, Answered, Proven, Code
  <2>. QED
    BY <1>1, <2>1, <2>2, <2>5, LeaveStep
<1>3. CASE ~(args.mode = "prove" /\ ~args.by_step)
  <2>1. pc' = "main" /\ at' = at + 1 /\ exit' = exit
    BY <1>3 DEF Ran
  <2>2. RInv' /\ Coroutines' /\ ShellView
    BY <1>1, <2>1, StayStep DEF Gathering
  <2>3. Session'
    BY <1>1, <2>1 DEF IInv, Session, Building
  <2>4. exit' = "none"
    BY <1>1, <2>1 DEF IInv, Session
  <2>5. Proving' /\ Strategy'
    BY <1>1, <1>3, <2>1, <2>4 DEF Proving, VerdictSound, Strategy, Building
  <2>6. Files'
    BY <1>1, FilesKept DEF IInv
  <2>. QED
    BY <2>2, <2>3, <2>5, <2>6 DEF IInv
<1>. QED
  BY <1>2, <1>3

\* bmc_mode: it ends, or one property is gathered.
LEMMA BmcStep ==
    ASSUME IInv, Bmc
    PROVE  IInv' /\ ShellView
<1>1. /\ pc = "main" /\ args.mode = "bmc" /\ AllDone
      /\ UNCHANGED <<disk, args, sel, at, strat, new, sessions, proved>>
  BY MainAllDone DEF Bmc, kept, Gathering
<1>2. CASE sel = {} /\ Leave("0") /\ UNCHANGED <<runnerVars, task>>
  <2>1. VerdictSound'
    BY <1>1 DEF VerdictSound
  <2>. QED
    BY <1>1, <1>2, <2>1, LeaveStep
<1>3. CASE \E x \in sel : /\ Gather({[step |-> x.step, props |-> {x.name}, mem |-> 0]})
                          /\ pc' = "bmc" /\ UNCHANGED exit
  <2>1. PICK e : Gather({e}) /\ pc' = "bmc" /\ exit' = exit
    BY <1>3
  <2>2. RInv' /\ Coroutines' /\ ShellView
    <3>1. IsFiniteSet({e}) /\ Gathering' /\ pc' \notin {"run", "build"}
      BY <2>1, FS_Singleton DEF Gathering
    <3>. QED
      BY <1>1, <2>1, <3>1, GatherStep
  <2>3. Session'
    BY <1>1, <2>1 DEF IInv, Session, Building
  <2>4. exit' = "none"
    BY <1>1, <2>1 DEF IInv, Session
  <2>5. Proving' /\ Strategy'
    BY <1>1, <2>1, <2>4 DEF Proving, VerdictSound, Strategy, Building
  <2>6. Files'
    BY <1>1, FilesKept DEF IInv
  <2>. QED
    BY <2>2, <2>3, <2>5, <2>6 DEF IInv
<1>. QED
  BY <1>2, <1>3 DEF Bmc

\* The gather of bmc_mode is over.
LEMMA BmcDoneStep ==
    ASSUME IInv, BmcDone
    PROVE  IInv' /\ ShellView
<1>1. /\ pc = "bmc" /\ args.mode = "bmc" /\ AllDone
      /\ UNCHANGED <<runnerVars, disk, args, sel, at, strat, new, task, sessions, proved>>
  BY DEF BmcDone, kept, IInv, Session
<1>2. CASE Leave("0")
  <2>1. VerdictSound'
    BY <1>1 DEF VerdictSound
  <2>. QED
    BY <1>1, <1>2, <2>1, LeaveStep
<1>3. CASE pc' = "main" /\ exit' = exit
  <2>2. RInv' /\ Coroutines' /\ ShellView
    BY <1>1, <1>3, StayStep DEF Gathering
  <2>3. Session'
    BY <1>1, <1>3 DEF IInv, Session, Building
  <2>4. exit' = "none"
    BY <1>1, <1>3 DEF IInv, Session
  <2>5. Proving' /\ Strategy'
    BY <1>1, <1>3, <2>4 DEF Proving, VerdictSound, Strategy, Building
  <2>6. Files'
    BY <1>1, FilesKept DEF IInv
  <2>. QED
    BY <2>2, <2>3, <2>5, <2>6 DEF IInv
<1>. QED
  BY <1>2, <1>3 DEF BmcDone

\* The modes that end without a verdict of prove_mode.
LEMMA EndSteps ==
    ASSUME IInv, ProveStepsDone \/ Info \/ ExploreDone
    PROVE  IInv' /\ ShellView
<1>1. PICK code \in {"0", "1"} :
        /\ pc = "main" /\ Leave(code) /\ ~(args.mode = "prove" /\ ~args.by_step)
        /\ UNCHANGED <<runnerVars, disk, args, sel, at, new, task, sessions, proved>>
  BY DEF ProveStepsDone, Info, ExploreDone, kept
<1>2. AllDone
  BY <1>1, MainAllDone DEF Gathering
<1>3. VerdictSound'
  BY <1>1 DEF VerdictSound
<1>. QED
  BY <1>1, <1>2, <1>3, LeaveStep
-------------------------------------------------------------------------------
(* explore *)

\* construct_strategy: nothing to do, a gather, or the exception of the race.
LEMMA ConstructStep ==
    ASSUME IInv, Construct
    PROVE  IInv' /\ ShellView
<1>. DEFINE strategy == load_strategy(at, args)
            not_done == missing_from(strategy, by_step(at))
            tasks == {[step |-> at, props |-> {n}, mem |-> 0] : n \in not_done}
<1>1. /\ pc = "main" /\ args.mode = "explore" /\ at \in Steps /\ AllDone /\ strat' = strategy
      /\ UNCHANGED <<disk, args, sel, at, exit, sessions, proved>>
  BY MainAllDone, StepsOfAsserts DEF Construct, kept, Gathering, IInv, Session, Steps
<1>2. \/ not_done = {} /\ new' = FALSE /\ pc' = "rerun" /\ UNCHANGED <<runnerVars, task>>
      \/ new' = TRUE /\ Gather(tasks) /\ pc' = "build"
      \/ new' = TRUE /\ Fail /\ UNCHANGED runnerVars
  BY DEF Construct
<1>3. Files' /\ exit' = "none"
  BY <1>1, FilesKept DEF IInv, Session
<1>4. ProvedEntries(strat, at)'
  BY <1>1, LoadedProved DEF IInv, ProvedEntries
<1>5. IsFiniteSet(tasks) /\ \A t \in tasks : Entry(t) /\ t.step = at
  <2>1. IsFiniteSet(by_step(at))
    <3>. DEFINE mine == {y \in sel : y.step = at}
    <3>1. IsFiniteSet(mine)
      BY FS_Subset DEF IInv, Session
    <3>2. by_step(at) = {x.name : x \in mine}
      BY DEF by_step, NamesOf
    <3>3. [x \in mine |-> x.name] \in Surjection(mine, by_step(at))
      BY <3>2 DEF Surjection
    <3>. HIDE DEF mine
    <3>. QED
      BY <3>1, <3>3, FS_Surjection
  <2>2. IsFiniteSet(not_done)
    BY <2>1, FS_Subset DEF missing_from
  <2>. HIDE DEF not_done
  <2>3. [n \in not_done |-> [step |-> at, props |-> {n}, mem |-> 0]] \in Surjection(not_done, tasks)
    BY DEF Surjection
  <2>4. IsFiniteSet(tasks)
    BY <2>2, <2>3, FS_Surjection
  <2>. QED
    BY <2>4 DEF Entry
<1>. HIDE DEF tasks, not_done
<1>6. CASE not_done = {} /\ new' = FALSE /\ pc' = "rerun" /\ UNCHANGED <<runnerVars, task>>
  <2>1. RInv' /\ Coroutines' /\ ShellView
    BY <1>1, <1>6, StayStep DEF Gathering
  <2>2. Session'
    BY <1>1, <1>3, <1>6 DEF IInv, Session, Building
  <2>3. Proving' /\ Strategy'
    BY <1>1, <1>3, <1>4, <1>6 DEF Proving, VerdictSound, Strategy, Building, ProvedEntries
  <2>. QED
    BY <2>1, <2>2, <2>3, <1>3 DEF IInv
<1>7. CASE new' = TRUE /\ Gather(tasks) /\ pc' = "build"
  <2>1. /\ RInv' /\ Coroutines' /\ ShellView
        /\ DOMAIN task' = tasks /\ \A t \in tasks : task'[t] = "aiger"
    <3>1. Gathering' /\ \A t \in tasks : t.mem \in Nat
      BY <1>5, <1>7 DEF Gathering, Entry
    <3>. QED
      BY <3>1, <1>1, <1>5, <1>7, GatherStep
  <2>2. Session'
    BY <1>1, <1>3, <1>7 DEF IInv, Session, Building
  <2>3. Proving'
    BY <1>1, <1>3, <1>7 DEF Proving, VerdictSound
  <2>4. Strategy'
    <3>1. ~args.fresh /\ disk[at].file = "good" => strategy = disk[at].entries
      BY DEF load_strategy, LoadsNone
    <3>. QED
      BY <3>1, <2>1, <1>1, <1>4, <1>5, <1>7 DEF Strategy, Building, ProvedEntries
  <2>. QED
    BY <2>1, <2>2, <2>3, <2>4, <1>3 DEF IInv
<1>8. CASE new' = TRUE /\ Fail /\ UNCHANGED runnerVars
  <2>1. /\ pc' = "closing" /\ DOMAIN task' = {}
        /\ UNCHANGED <<proc, pending, running, phase, free>>
    BY <1>8 DEF Fail, runnerVars
  <2>2. RInv'
    BY <2>1 DEF IInv, RInv, RunnerTypeOK, Lists, Listed, Answers, ProcessType
  <2>3. Coroutines'
    BY <2>1 DEF Coroutines
  <2>4. Session'
    BY <2>1, <1>1, <1>3, <1>8 DEF IInv, Session, Building
  <2>5. Proving' /\ Strategy'
    BY <2>1, <1>3 DEF Proving, VerdictSound, Strategy, Building
  <2>. QED
    BY <2>1, <2>2, <2>3, <2>4, <2>5, <1>3, SameSeen DEF IInv
<1>. QED
  BY <1>2, <1>6, <1>7, <1>8

\* What build_strategy_rec returns was proved, for the step that is built.
LEMMA BuiltProved ==
    ASSUME IInv, pc = "build", AllDone
    PROVE  ProvedEntries(Built, at)
<1>. DEFINE good == {u \in DOMAIN task : Proven(u)}
            entry(t) == [t EXCEPT !.mem = proc[Engine(t)].max_memory]
<1>1. IsFiniteSet(good)
  BY FS_Subset DEF IInv, Strategy
<1>2. IsFiniteSet(Built)
  <2>1. [t \in good |-> entry(t)] \in Surjection(good, Built)
    BY DEF Surjection, Built
  <2>. QED
    BY <2>1, <1>1, FS_Surjection
<1>3. ASSUME NEW t \in good
      PROVE  Entry(entry(t)) /\ entry(t).step = at /\ Block(entry(t)) \in proved
  <2>1. t = [step |-> t.step, props |-> t.props, mem |-> t.mem] /\ t.step = at /\ Block(t) \in proved
    BY DEF IInv, Strategy, Entry, AllDone
  <2>2. Engine(t) \in DOMAIN proc
    BY DEF AllDone, IInv, Coroutines, Answered
  <2>3. proc[Engine(t)].max_memory \in Nat
    BY <2>2, OneCommand DEF IInv, ProcessType
  <2>4. entry(t) = [step |-> t.step, props |-> t.props, mem |-> proc[Engine(t)].max_memory]
    BY <2>1
  <2>. QED
    BY <2>1, <2>3, <2>4 DEF Entry, Block
<1>. QED
  BY <1>2, <1>3 DEF ProvedEntries, Built

\* The gather of construct_strategy is over.
LEMMA BuildDoneStep ==
    ASSUME IInv, BuildDone
    PROVE  IInv' /\ ShellView
<1>1. /\ pc = "build" /\ AllDone /\ strat' = strat \cup Built /\ pc' \in {"rerun", "store"}
      /\ UNCHANGED <<runnerVars, disk, args, sel, at, new, task, exit, sessions, proved>>
  BY DEF BuildDone, kept, Extend
<1>2. RInv' /\ Coroutines' /\ ShellView
  BY <1>1, StayStep DEF Gathering
<1>3. Session'
  BY <1>1 DEF IInv, Session, Building
<1>4. exit' = "none" /\ args.mode = "explore"
  BY <1>1 DEF IInv, Session, Building
<1>5. Proving'
  BY <1>1, <1>4 DEF Proving, VerdictSound
<1>6. Strategy'
  <2>1. at \in Steps /\ ProvedEntries(strat, at) /\ ProvedEntries(Built, at)
    BY <1>1, BuiltProved DEF IInv, Strategy, Building
  <2>2. ProvedEntries(strat, at)'
    BY <2>1, <1>1, FS_Union DEF ProvedEntries
  <2>3. ~args.fresh /\ disk[at].file = "good" => disk[at].entries \subseteq strat'
    BY <1>1 DEF IInv, Strategy
  <2>. QED
    BY <2>1, <2>2, <2>3, <1>1 DEF Strategy, Building, ProvedEntries
<1>7. Files'
  BY <1>1, FilesKept DEF IInv
<1>. QED
  BY <1>2, <1>3, <1>5, <1>6, <1>7 DEF IInv

\* The file could not be opened or written: it is as it was.
LEMMA StoreFailsStep ==
    ASSUME IInv, pc \in {"store", "dump"}, pc' = "rerun", UNCHANGED disk,
           UNCHANGED <<runnerVars, args, sel, at, strat, new, task, exit, sessions, proved>>
    PROVE  IInv' /\ ShellView
<1>1. /\ AllDone /\ ~Gathering
      /\ UNCHANGED <<runnerVars, args, sel, at, strat, new, task, exit, sessions, proved>>
  BY MainAllDone DEF Gathering
<1>2. RInv' /\ Coroutines' /\ ShellView
  BY <1>1, StayStep DEF Gathering
<1>3. Session'
  BY <1>1 DEF IInv, Session, Building
<1>4. exit' = "none" /\ at \in Steps /\ ProvedEntries(strat, at)
  BY <1>1 DEF IInv, Session, Strategy, Building
<1>5. Proving'
  BY <1>4 DEF Proving, VerdictSound
<1>6. Strategy'
  BY <1>1, <1>4 DEF Strategy, Building, ProvedEntries
<1>7. Files'
  BY <1>1, FilesKept DEF IInv
<1>. QED
  BY <1>2, <1>3, <1>5, <1>6, <1>7 DEF IInv

\* store_strategy empties the file, if it can.
LEMMA TruncateStep ==
    ASSUME IInv, Truncate
    PROVE  IInv' /\ ShellView
<1>. SUFFICES ASSUME disk' = [disk EXCEPT ![at] = [file |-> "torn", entries |-> {}]], pc' = "dump"
              PROVE  IInv' /\ ShellView
  BY StoreFailsStep DEF Truncate
<1>1. /\ pc = "store" /\ pc' = "dump" /\ AllDone
      /\ UNCHANGED <<runnerVars, args, sel, at, strat, new, task, exit, sessions, proved>>
  BY MainAllDone DEF Truncate, Gathering
<1>2. RInv' /\ Coroutines' /\ ShellView
  BY <1>1, StayStep DEF Gathering
<1>3. Session'
  BY <1>1 DEF IInv, Session, Building
<1>4. exit' = "none" /\ args.mode = "explore" /\ at \in Steps /\ ProvedEntries(strat, at)
  BY <1>1 DEF IInv, Session, Strategy, Building
<1>5. /\ DOMAIN disk' = Steps /\ disk'[at] = [file |-> "torn", entries |-> {}]
      /\ \A s \in Steps : s # at => disk'[s] = disk[s]
  BY <1>4 DEF Truncate, IInv, Files
<1>6. Proving'
  BY <1>1, <1>4 DEF Proving, VerdictSound
<1>7. Strategy'
  BY <1>1, <1>4, <1>5 DEF Strategy, Building, ProvedEntries
<1>8. Files'
  BY <1>1, <1>5, FS_EmptySet DEF IInv, Files, ProvedEntries
<1>. QED
  BY <1>2, <1>3, <1>6, <1>7, <1>8 DEF IInv

\* store_strategy writes it, if it can.
LEMMA DumpStep ==
    ASSUME IInv, Dump
    PROVE  IInv' /\ ShellView
<1>. SUFFICES ASSUME disk' = [disk EXCEPT ![at] = [file |-> "good", entries |-> strat]]
              PROVE  IInv' /\ ShellView
  BY StoreFailsStep DEF Dump
<1>1. /\ pc = "dump" /\ pc' = "rerun" /\ AllDone
      /\ UNCHANGED <<runnerVars, args, sel, at, strat, new, task, exit, sessions, proved>>
  BY MainAllDone DEF Dump, Gathering
<1>2. RInv' /\ Coroutines' /\ ShellView
  BY <1>1, StayStep DEF Gathering
<1>3. Session'
  BY <1>1 DEF IInv, Session, Building
<1>4. exit' = "none" /\ args.mode = "explore" /\ at \in Steps /\ ProvedEntries(strat, at)
  BY <1>1 DEF IInv, Session, Strategy, Building
<1>5. /\ DOMAIN disk' = Steps /\ disk'[at] = [file |-> "good", entries |-> strat]
      /\ \A s \in Steps : s # at => disk'[s] = disk[s]
  BY <1>4 DEF Dump, IInv, Files
<1>6. Proving'
  BY <1>1, <1>4 DEF Proving, VerdictSound
<1>7. Strategy'
  BY <1>1, <1>4 DEF Strategy, Building, ProvedEntries
<1>8. Files'
  BY <1>1, <1>4, <1>5 DEF IInv, Files, ProvedEntries
<1>. QED
  BY <1>2, <1>3, <1>6, <1>7, <1>8 DEF IInv

\* What was built or loaded is run, or the next step begins.
LEMMA RerunStep ==
    ASSUME IInv, Rerun
    PROVE  IInv' /\ ShellView
<1>1. /\ pc = "rerun" /\ AllDone /\ args.mode = "explore" /\ ProvedEntries(strat, at)
      /\ UNCHANGED <<disk, args, sel, strat, new, exit, sessions, proved>>
  BY MainAllDone DEF Rerun, kept, Gathering, IInv, Session, Strategy, Building
<1>2. CASE pc' = "main" /\ at' = at + 1 /\ UNCHANGED <<runnerVars, task>>
  <2>1. RInv' /\ Coroutines' /\ ShellView
    BY <1>1, <1>2, StayStep DEF Gathering
  <2>2. Session'
    BY <1>1, <1>2 DEF IInv, Session, Building
  <2>3. exit' = "none"
    BY <1>1 DEF IInv, Session
  <2>4. Proving' /\ Strategy'
    BY <1>1, <1>2, <2>3 DEF Proving, VerdictSound, Strategy, Building
  <2>5. Files'
    BY <1>1, FilesKept DEF IInv
  <2>. QED
    BY <2>1, <2>2, <2>4, <2>5 DEF IInv
<1>3. CASE Gather(strat) /\ pc' = "run" /\ at' = at
  <2>1. IsFiniteSet(strat) /\ \A e \in strat : Entry(e)
    BY <1>1 DEF ProvedEntries
  <2>. QED
    BY <1>1, <1>3, <2>1, RunBegins
<1>. QED
  BY <1>2, <1>3 DEF Rerun
-------------------------------------------------------------------------------
(* The event loop *)

\* A poll, or the operating system, wherever main() awaits or unwinds.
LEMMA RunnerStep ==
    ASSUME IInv, RInv', Settles, pc # "off",
           pc' = pc \/ (pc = "closing" /\ pc' = "closed"),
           UNCHANGED <<disk, args, sel, at, strat, new, task, exit, sessions, proved>>
    PROVE  IInv' /\ ShellView
<1>1. /\ DOMAIN proc' = DOMAIN proc
      /\ \A p \in DOMAIN proc :
           /\ proc[p].future = "done" =>
                proc'[p].future = "done" /\ proc'[p].result = proc[p].result
           /\ proc[p].future = "waiting" => proc'[p].future \in {"waiting", "done"}
  BY DEF Settles
<1>2. \A t \in DOMAIN task :
        Answered(Engine(t)) => Answered(Engine(t))' /\ (Proven(t)' <=> Proven(t))
  BY <1>1 DEF Answered, Proven, Code
<1>3. Coroutines'
  <2>1. pc \notin {"closing", "closed", "off"} =>
          \A p \in DOMAIN proc' :
            /\ p[1] \in DOMAIN task' /\ p \in {Aiger(p[1]), Engine(p[1]), Sim(p[1])}
            /\ \/ proc'[p].future = "done"
               \/ proc'[p].future = "waiting" /\ p = <<p[1], task'[p[1]]>>
    BY <1>1 DEF IInv, Coroutines
  <2>2. \A t \in DOMAIN task' : task'[t] \in {"sim", "done"} => Answered(Engine(t))'
    BY <1>2 DEF IInv, Coroutines
  <2>. QED
    BY <2>1, <2>2 DEF IInv, Coroutines, Gathering
<1>4. Session'
  BY DEF IInv, Session, Building
<1>5. exit' = "none"
  BY DEF IInv, Session
<1>6. Proving'
  BY <1>5 DEF IInv, Proving, VerdictSound
<1>7. Strategy'
  <2>1. pc = "build" => \A t \in DOMAIN task : task[t] = "done" /\ Proven(t)' => Block(t) \in proved
    BY <1>2 DEF IInv, Strategy, Coroutines
  <2>. QED
    BY <2>1 DEF IInv, Strategy, Building, ProvedEntries
<1>8. Files'
  BY FilesKept DEF IInv
<1>. QED
  BY <1>3, <1>4, <1>6, <1>7, <1>8, SettlesSeen DEF IInv

\* A turn of poll().
LEMMA TickStep ==
    ASSUME IInv, Tick
    PROVE  IInv' /\ ShellView
<1>1. args.max_mem \in Nat
  BY ConductorAssumption DEF IInv, Session
<1>2. RInv' /\ Settles
  BY <1>1, PollStep DEF Tick, IInv
<1>. QED
  BY <1>2, RunnerStep DEF Tick

\* A process grows, exits or expires.
LEMMA SystemStep ==
    ASSUME IInv, OS, pc # "off", UNCHANGED mainVars
    PROVE  IInv' /\ ShellView
<1>1. RInv' /\ Settles
  BY OSStep DEF IInv
<1>2. UNCHANGED <<disk, args, sel, pc, at, strat, new, task, exit, sessions, proved>>
  BY DEF mainVars
<1>. QED
  BY <1>1, <1>2, RunnerStep

\* An exception leaves main() from a gather.
LEMMA FailStep ==
    ASSUME IInv, RInv', Fail, Gathering,
           UNCHANGED <<disk, args, sel, at, strat, new, exit, sessions, proved>>
    PROVE  IInv'
<1>1. pc' = "closing" /\ DOMAIN task' = {}
  BY DEF Fail
<1>2. Coroutines'
  BY <1>1 DEF Coroutines
<1>3. Session'
  BY <1>1 DEF IInv, Session, Building, Gathering
<1>4. exit' = "none"
  BY DEF IInv, Session, Gathering
<1>5. Proving' /\ Strategy'
  BY <1>1, <1>4 DEF Proving, VerdictSound, Strategy, Building
<1>6. Files'
  BY FilesKept DEF IInv
<1>. QED
  BY <1>2, <1>3, <1>5, <1>6 DEF IInv

\* A command that its task does not await yet is in no list.
LEMMA NotListed ==
    ASSUME IInv, Gathering, NEW t \in DOMAIN task, NEW k, task[t] # k
    PROVE  /\ <<t, k>> \notin Listed
           /\ <<t, k>> \in DOMAIN proc => proc[<<t, k>>].future = "done"
<1>. DEFINE p == <<t, k>>
<1>0. p[1] = t /\ p[2] = k
  OBVIOUS
<1>. HIDE DEF p
<1>1. p \in DOMAIN proc => proc[p].future = "done"
  <2>. SUFFICES ASSUME p \in DOMAIN proc, proc[p].future # "done" PROVE FALSE
    OBVIOUS
  <2>1. p = <<p[1], task[p[1]]>>
    BY DEF IInv, Coroutines, Gathering
  <2>. QED
    BY <2>1, <1>0
<1>2. Listed \subseteq DOMAIN proc
  <2>1. pending \in Seq(DOMAIN proc) /\ running \in Seq(DOMAIN proc)
    BY DEF IInv, RInv, RunnerTypeOK
  <2>. QED
    BY <2>1, LenProperties, ElementOfSeq DEF Listed, Range
<1>. QED
  BY <1>1, <1>2, OneCommand DEF IInv, p

\* The command of an engine.
LEMMA EngineProcessFacts ==
    ASSUME IInv, Gathering, NEW t \in DOMAIN task
    PROVE  LET r == EngineProcess(t)
           IN /\ r \in ProcessType("engine") /\ r.future = "waiting" /\ r.kill = "None"
              /\ r.os = "none" /\ r.late = FALSE /\ r.result = NoCode
<1>1. CASE pc = "run"
  <2>1. t.mem \in Nat
    BY <1>1 DEF IInv, Coroutines
  <2>2. (t.mem * 11) \div 10 \in Nat
    BY <2>1
  <2>. DEFINE m == (t.mem * 11) \div 10
  <2>. HIDE DEF m
  <2>3. m \in Nat
    BY <2>2 DEF m
  <2>4. EngineProcess(t) = Process(m, FALSE)
    BY <1>1 DEF EngineProcess, m
  <2>. QED
    BY <2>3, <2>4 DEF Process, ProcessType
<1>2. CASE pc = "build"
  BY <1>2 DEF EngineProcess, Process, ProcessType
<1>3. CASE pc = "bmc"
  BY <1>3 DEF EngineProcess, Process, ProcessType
<1>. QED
  BY <1>1, <1>2, <1>3 DEF Gathering

\* A task queues its next command.
LEMMA NextCommand ==
    ASSUME IInv, Gathering, UNCHANGED pc, NEW t \in DOMAIN task, NEW k \in {"engine", "sim"},
           task[t] # k, Answered(<<t, task[t]>>),
           k = "sim" => pc = "bmc" /\ Answered(Engine(t)),
           NEW record, Shell(<<t, k>>, record), record \in ProcessType(k),
           record.future = "waiting", record.kill = "None", record.os = "none",
           record.late = FALSE, record.result = NoCode,
           task' = [task EXCEPT ![t] = k]
    PROVE  /\ RInv' /\ Coroutines' /\ ShellView
           /\ \A u \in DOMAIN task : Answered(Engine(u)) /\ Engine(u) # <<t, k>> =>
                Answered(Engine(u))' /\ (Proven(u)' <=> Proven(u))
<1>. DEFINE p == <<t, k>>
<1>1. p[1] = t /\ p[2] = k /\ p \in {Aiger(t), Engine(t), Sim(t)}
  BY DEF Aiger, Engine, Sim
<1>2. p \notin Listed /\ (p \in DOMAIN proc => proc[p].future = "done")
  BY NotListed
<1>3. k \in Kinds
  BY ConductorAssumption
<1>4. DOMAIN task' = DOMAIN task /\ task'[t] = k /\ \A u \in DOMAIN task : u # t => task'[u] = task[u]
  OBVIOUS
<1>5. \A u : Engine(u) = p <=> (u = t /\ k = "engine")
  BY DEF Engine
<1>5a. \A u : p = <<u, task[u]>> => u = t
  OBVIOUS
<1>5b. \A q : q[1] = t /\ q = <<q[1], task[q[1]]>> => q = <<t, task[t]>>
  OBVIOUS
<1>. HIDE DEF p
<1>6. Shell(p, record)
  BY DEF p
<1>7. RInv'
  BY <1>1, <1>2, <1>3, <1>6, ShellStep DEF IInv
<1>8. /\ DOMAIN proc' = DOMAIN proc \cup {p} /\ proc'[p] = record
      /\ \A q \in DOMAIN proc : q # p => proc'[q] = proc[q]
  BY <1>6 DEF Shell
<1>9. \A u \in DOMAIN task : Answered(Engine(u)) /\ Engine(u) # p =>
        Answered(Engine(u))' /\ (Proven(u)' <=> Proven(u))
  BY <1>8 DEF Answered, Proven, Code
<1>10. ShellView
  <2>1. \A q \in DOMAIN proc' :
          \/ proc'[q].future \in {"waiting", "cancelled"} /\ proc'[q].result = NoCode
          \/ q \in DOMAIN proc /\ proc'[q] = proc[q]
    BY <1>8
  <2>2. \A q \in DOMAIN proc :
          proc[q].future = "waiting" => q \in DOMAIN proc' /\ proc'[q] = proc[q]
    BY <1>2, <1>8
  <2>. QED
    BY <2>1, <2>2, RequestSeen
<1>11. Coroutines'
  <2>1. ASSUME NEW q \in DOMAIN proc'
        PROVE  /\ q[1] \in DOMAIN task' /\ q \in {Aiger(q[1]), Engine(q[1]), Sim(q[1])}
               /\ \/ proc'[q].future = "done"
                  \/ proc'[q].future = "waiting" /\ q = <<q[1], task'[q[1]]>>
    <3>1. CASE q = p
      <4>1. q = <<q[1], task'[q[1]]>>
        BY <3>1, <1>1, <1>4 DEF p
      <4>. QED
        BY <3>1, <4>1, <1>1, <1>4, <1>8
    <3>2. CASE q # p
      <4>1. q \in DOMAIN proc /\ proc'[q] = proc[q]
        BY <3>2, <1>8
      <4>2. /\ q[1] \in DOMAIN task /\ q \in {Aiger(q[1]), Engine(q[1]), Sim(q[1])}
            /\ \/ proc[q].future = "done"
               \/ proc[q].future = "waiting" /\ q = <<q[1], task[q[1]]>>
        BY <4>1 DEF IInv, Coroutines, Gathering
      <4>3. proc[q].future # "done" => q[1] # t
        BY <4>2, <1>5b DEF Answered
      <4>. QED
        BY <4>1, <4>2, <4>3, <1>4
    <3>. QED
      BY <3>1, <3>2
  <2>2. ASSUME NEW u \in DOMAIN task, task'[u] \in {"sim", "done"}
        PROVE  Answered(Engine(u))'
    <3>1. Answered(Engine(u)) /\ Engine(u) # p
      BY <2>2, <1>4, <1>5 DEF IInv, Coroutines
    <3>. QED
      BY <3>1, <1>9
  <2>3. \A u \in DOMAIN task : /\ task'[u] \in {"aiger", "engine", "sim", "done"}
                               /\ task'[u] = "sim" => pc' = "bmc"
    BY <1>4 DEF IInv, Coroutines
  <2>4. Gathering' /\ (pc' \in {"run", "build"} => \A u \in DOMAIN task : u.mem \in Nat)
    BY DEF IInv, Coroutines, Gathering
  <2>. QED
    BY <2>1, <2>2, <2>3, <2>4, <1>4 DEF Coroutines
<1>. QED
  BY <1>7, <1>9, <1>10, <1>11 DEF p

\* A step of a task that goes on: the parts beside the scheduler.
LEMMA TaskStep ==
    ASSUME IInv, Gathering, RInv', Coroutines', UNCHANGED pc, DOMAIN task' = DOMAIN task,
           UNCHANGED <<disk, args, sel, at, strat, new, exit, sessions>>, proved \subseteq proved',
           pc = "build" => \A u \in DOMAIN task :
                             task'[u] = "done" /\ Proven(u)' => Block(u) \in proved'
    PROVE  IInv'
<1>1. Session'
  BY DEF IInv, Session, Building, Gathering
<1>2. exit' = "none"
  BY DEF IInv, Session, Gathering
<1>3. Proving'
  BY <1>2 DEF IInv, Proving, VerdictSound, Gathering
<1>4. Strategy'
  <2>1. Building' => ProvedEntries(strat, at)'
    BY DEF IInv, Strategy, Building, ProvedEntries
  <2>. QED
    BY <2>1 DEF IInv, Strategy, Building
<1>5. Files'
  BY FilesKept DEF IInv
<1>. QED
  BY <1>1, <1>3, <1>4, <1>5 DEF IInv

\* A task awaits something only in a gather.
LEMMA AwaitsInGather ==
    ASSUME IInv, NEW t \in DOMAIN task, task[t] # "done"
    PROVE  Gathering
  BY DEF IInv, Coroutines

\* prepare_aiger returns.
LEMMA ResumeAigerStep ==
    ASSUME IInv, NEW t \in DOMAIN task, ResumeAiger(t),
           UNCHANGED <<disk, args, sel, at, strat, new, exit, sessions>>
    PROVE  IInv' /\ ShellView
<1>1. Gathering /\ task[t] = "aiger" /\ Answered(Aiger(t)) /\ proved' = proved
  BY AwaitsInGather DEF ResumeAiger
<1>2. CASE CancelAll /\ Fail
  <2>1. RInv' /\ ShellView
    BY <1>2, CancelAllStep, CancelSeen DEF IInv
  <2>. QED
    BY <2>1, <1>1, <1>2, FailStep
<1>. DEFINE r == EngineProcess(t)
<1>3. /\ r \in ProcessType("engine") /\ r.future = "waiting" /\ r.kill = "None"
      /\ r.os = "none" /\ r.late = FALSE /\ r.result = NoCode
  BY <1>1, EngineProcessFacts
<1>4. Engine(t)[2] = "engine" /\ "engine" \in Kinds /\ Engine(t) = <<t, "engine">>
  BY ConductorAssumption DEF Engine
<1>5. CASE Shell(Engine(t), Cancelled(r)) /\ Fail
  <2>. DEFINE c == Cancelled(r)
  <2>1. /\ c \in ProcessType("engine") /\ c.future = "cancelled" /\ c.kill = "kill"
        /\ c.os = "none" /\ c.late = FALSE /\ c.result = NoCode
    BY <1>3, <1>4, RecordFacts
  <2>2. Engine(t) \notin Listed /\ (Engine(t) \in DOMAIN proc => proc[Engine(t)].future = "done")
    BY <1>1, <1>4, NotListed
  <2>. HIDE DEF c
  <2>3. Shell(Engine(t), c)
    BY <1>5 DEF c
  <2>4. RInv'
    BY <2>1, <2>2, <2>3, <1>4, ShellStep DEF IInv
  <2>5. /\ DOMAIN proc' = DOMAIN proc \cup {Engine(t)} /\ proc'[Engine(t)] = c
        /\ \A q \in DOMAIN proc : q # Engine(t) => proc'[q] = proc[q]
    BY <2>3 DEF Shell
  <2>6. ShellView
    <3>1. \A q \in DOMAIN proc' :
            \/ proc'[q].future \in {"waiting", "cancelled"} /\ proc'[q].result = NoCode
            \/ q \in DOMAIN proc /\ proc'[q] = proc[q]
      BY <2>1, <2>5
    <3>2. \A q \in DOMAIN proc :
            proc[q].future = "waiting" => q \in DOMAIN proc' /\ proc'[q] = proc[q]
      BY <2>2, <2>5
    <3>. QED
      BY <3>1, <3>2, RequestSeen
  <2>. QED
    BY <2>4, <2>6, <1>1, <1>5, FailStep
<1>6. CASE Shell(Engine(t), r) /\ task' = [task EXCEPT ![t] = "engine"] /\ UNCHANGED pc
  <2>. HIDE DEF r
  <2>1. Answered(<<t, task[t]>>) /\ Shell(<<t, "engine">>, r)
    BY <1>1, <1>4, <1>6 DEF Aiger
  <2>2. /\ RInv' /\ Coroutines' /\ ShellView
        /\ \A u \in DOMAIN task : Answered(Engine(u)) /\ Engine(u) # <<t, "engine">> =>
             Answered(Engine(u))' /\ (Proven(u)' <=> Proven(u))
    BY <1>1, <1>3, <1>6, <2>1, NextCommand
  <2>3. pc = "build" => \A u \in DOMAIN task :
                          task'[u] = "done" /\ Proven(u)' => Block(u) \in proved'
    <3>. SUFFICES ASSUME pc = "build", NEW u \in DOMAIN task, task'[u] = "done", Proven(u)'
                  PROVE  Block(u) \in proved'
      OBVIOUS
    <3>1. u # t /\ task[u] = "done"
      BY <1>6
    <3>2. Answered(Engine(u)) /\ Engine(u) # <<t, "engine">>
      BY <3>1 DEF IInv, Coroutines, Engine
    <3>. QED
      BY <3>1, <3>2, <2>2, <1>1 DEF IInv, Strategy
  <2>4. DOMAIN task' = DOMAIN task
    BY <1>6
  <2>. QED
    BY <2>2, <2>3, <2>4, <1>1, <1>6, TaskStep
<1>. QED
  BY <1>2, <1>5, <1>6 DEF ResumeAiger

\* The scheduler is left alone and a task is done.
LEMMA DoneStep ==
    ASSUME IInv, Gathering, NEW t \in DOMAIN task, Answered(Engine(t)), Answered(<<t, task[t]>>),
           task' = [task EXCEPT ![t] = "done"], UNCHANGED <<pc, runnerVars>>,
           UNCHANGED <<disk, args, sel, at, strat, new, exit, sessions>>, proved \subseteq proved',
           pc = "build" /\ Proven(t) => Block(t) \in proved'
    PROVE  IInv' /\ ShellView
<1>1. UNCHANGED <<proc, pending, running, phase, free>>
  BY DEF runnerVars
<1>2. DOMAIN task' = DOMAIN task /\ task'[t] = "done" /\ \A u \in DOMAIN task : u # t => task'[u] = task[u]
  OBVIOUS
<1>3. RInv'
  BY <1>1 DEF IInv, RInv, RunnerTypeOK, Lists, Listed, Answers, ProcessType
<1>4. Coroutines'
  <2>0. \A q : q[1] = t /\ q = <<q[1], task[q[1]]>> => q = <<t, task[t]>>
    OBVIOUS
  <2>1. ASSUME NEW q \in DOMAIN proc
        PROVE  /\ q[1] \in DOMAIN task' /\ q \in {Aiger(q[1]), Engine(q[1]), Sim(q[1])}
               /\ \/ proc[q].future = "done"
                  \/ proc[q].future = "waiting" /\ q = <<q[1], task'[q[1]]>>
    <3>1. /\ q[1] \in DOMAIN task /\ q \in {Aiger(q[1]), Engine(q[1]), Sim(q[1])}
          /\ \/ proc[q].future = "done"
             \/ proc[q].future = "waiting" /\ q = <<q[1], task[q[1]]>>
      BY DEF IInv, Coroutines, Gathering
    <3>2. proc[q].future # "done" => q[1] # t
      BY <2>0, <3>1 DEF Answered
    <3>. QED
      BY <3>1, <3>2, <1>2
  <2>2. \A u \in DOMAIN task : task'[u] \in {"sim", "done"} => Answered(Engine(u))'
    BY <1>1, <1>2 DEF IInv, Coroutines, Answered
  <2>3. \A u \in DOMAIN task : /\ task'[u] \in {"aiger", "engine", "sim", "done"}
                               /\ task'[u] = "sim" => pc' = "bmc"
    BY <1>2 DEF IInv, Coroutines
  <2>4. Gathering' /\ (pc' \in {"run", "build"} => \A u \in DOMAIN task : u.mem \in Nat)
    BY DEF IInv, Coroutines, Gathering
  <2>. QED
    BY <2>1, <2>2, <2>3, <2>4, <1>1, <1>2 DEF Coroutines
<1>5. pc = "build" => \A u \in DOMAIN task :
                        task'[u] = "done" /\ Proven(u)' => Block(u) \in proved'
  BY <1>1, <1>2 DEF IInv, Strategy, Proven, Code
<1>. QED
  BY <1>1, <1>2, <1>3, <1>4, <1>5, TaskStep, SameSeen

\* The engine's answer is recorded; bmc() goes on to simulate a witness.
LEMMA ResumeEngineStep ==
    ASSUME IInv, NEW t \in DOMAIN task, ResumeEngine(t),
           UNCHANGED <<disk, args, sel, at, strat, new, exit, sessions>>
    PROVE  IInv' /\ ShellView
<1>1. /\ Gathering /\ task[t] = "engine" /\ Answered(Engine(t)) /\ pc' = pc
      /\ proved \subseteq proved' /\ (pc = "build" /\ Proven(t) => Block(t) \in proved')
  BY AwaitsInGather DEF ResumeEngine
<1>2. Answered(<<t, task[t]>>)
  BY <1>1 DEF Engine
<1>3. CASE pc = "bmc" /\ Shell(Sim(t), Process(0, FALSE)) /\ task' = [task EXCEPT ![t] = "sim"]
  <2>. DEFINE r == Process(0, FALSE)
  <2>1. /\ r \in ProcessType("sim") /\ r.future = "waiting" /\ r.kill = "None"
        /\ r.os = "none" /\ r.late = FALSE /\ r.result = NoCode
    BY DEF Process, ProcessType
  <2>. HIDE DEF r
  <2>2. Shell(<<t, "sim">>, r)
    BY <1>3 DEF Sim, r
  <2>3. RInv' /\ Coroutines' /\ ShellView
    BY <1>1, <1>2, <1>3, <2>1, <2>2, NextCommand
  <2>4. DOMAIN task' = DOMAIN task
    BY <1>3
  <2>. QED
    BY <1>1, <1>3, <2>3, <2>4, TaskStep
<1>4. CASE task' = [task EXCEPT ![t] = "done"] /\ UNCHANGED runnerVars
  BY <1>1, <1>2, <1>4, DoneStep
<1>. QED
  BY <1>3, <1>4 DEF ResumeEngine

\* The simulation of a counterexample returns.
LEMMA ResumeSimStep ==
    ASSUME IInv, NEW t \in DOMAIN task, ResumeSim(t),
           UNCHANGED <<disk, args, sel, at, strat, new, exit, sessions>>
    PROVE  IInv' /\ ShellView
<1>1. /\ Gathering /\ task[t] = "sim" /\ Answered(Sim(t)) /\ pc = "bmc"
      /\ task' = [task EXCEPT ![t] = "done"] /\ UNCHANGED <<pc, proved, runnerVars>>
  BY AwaitsInGather DEF ResumeSim, IInv, Coroutines
<1>2. Answered(<<t, task[t]>>) /\ Answered(Engine(t))
  BY <1>1 DEF Sim, IInv, Coroutines
<1>. QED
  BY <1>1, <1>2, DoneStep
-------------------------------------------------------------------------------
(* The results *)

\* Every step keeps the invariant, and is a step of the shell or none.
LEMMA StepIInv ==
    ASSUME IInv, [Next]_vars
    PROVE  IInv' /\ ShellView
<1>1. ASSUME NEW a \in ArgSets, Launch(a) PROVE IInv' /\ ShellView
  BY <1>1, LaunchStep
<1>2. CASE Main
  BY <1>2, ProveAllStep, ProveStepStep, EndSteps, RanStep, BmcStep, BmcDoneStep, ConstructStep,
     BuildDoneStep, TruncateStep, DumpStep, RerunStep, CloseStep DEF Main
<1>3. CASE Resume
  BY <1>3, ResumeAigerStep, ResumeEngineStep, ResumeSimStep DEF Resume
<1>4. CASE Tick
  BY <1>4, TickStep
<1>5. CASE OS /\ pc # "off" /\ UNCHANGED mainVars
  BY <1>5, SystemStep
<1>6. CASE Kill
  BY <1>6, KillStep
<1>7. CASE UNCHANGED vars
  <2>1. UNCHANGED <<proc, pending, running, phase, free>>
        /\ UNCHANGED <<disk, args, sel, pc, at, strat, new, task, exit, sessions, proved>>
    BY <1>7 DEF vars, runnerVars, mainVars
  <2>2. RInv'
    BY <2>1 DEF IInv, RInv, RunnerTypeOK, Lists, Listed, Answers, ProcessType
  <2>3. Coroutines'
    BY <2>1 DEF IInv, Coroutines, Gathering, Answered
  <2>4. Session'
    BY <2>1 DEF IInv, Session, Building
  <2>5. Proving'
    BY <2>1 DEF IInv, Proving, VerdictSound, Answered, Proven, Code
  <2>6. Strategy'
    BY <2>1 DEF IInv, Strategy, Building, ProvedEntries, Proven, Code
  <2>7. Files'
    BY <2>1, FilesKept DEF IInv
  <2>. QED
    BY <2>1, <2>2, <2>3, <2>4, <2>5, <2>6, <2>7, SameSeen DEF IInv
<1>. QED
  BY <1>1, <1>2, <1>3, <1>4, <1>5, <1>6, <1>7 DEF Next, Halted

\* The inductive invariant holds in every session.
THEOREM Inductive == Spec => []IInv
<1>1. IInv /\ [Next]_vars => IInv'
  BY StepIInv
<1>. QED
  BY <1>1, InitIInv, PTL DEF Spec

\* Every variable of the conductor and of its scheduler is of its type: poll()'s
\* estimate of the free memory never falls below zero.
THEOREM TypeCorrect == Spec => []TypeOK
<1>1. IInv => TypeOK
  <2>. SUFFICES ASSUME IInv PROVE TypeOK
    OBVIOUS
  <2>1. \A t \in DOMAIN task : task[t] \in Kinds \cup {"done"}
    BY ConductorAssumption DEF IInv, Coroutines
  <2>. QED
    BY <2>1 DEF TypeOK, IInv, RInv, Session, Files, ProvedEntries
<1>. QED
  BY <1>1, Inductive, PTL

\* append, poll and kill_restart never lose, duplicate or forget a command.
THEOREM CommandsQueuedOnce == Spec => []QueuedOnce
<1>1. IInv => QueuedOnce
  BY ListsGiveQueuedOnce DEF IInv
<1>. QED
  BY <1>1, Inductive, PTL

\* prove_mode exits with 0 only when all it ran was proved, and covers the
\* selection when it was asked to.
THEOREM VerdictIsSound == Spec => []VerdictSound
<1>1. IInv => VerdictSound
  BY DEF IInv, Proving
<1>. QED
  BY <1>1, Inductive, PTL

\* A strategy file holds only what an engine proved, for its own step.
THEOREM StoredIsProved == Spec => []StoredProved
<1>1. IInv => StoredProved
  BY DEF IInv, Files, ProvedEntries, StoredProved
<1>. QED
  BY <1>1, Inductive, PTL

\* A session that ends without an exception leaves no command behind.
THEOREM ExitIsClean == Spec => []CleanExit
<1>1. IInv => CleanExit
  <2>. SUFFICES ASSUME IInv, pc = "off", exit \in {"0", "1"}
                PROVE  /\ pending = <<>> /\ running = <<>>
                       /\ \A p \in DOMAIN proc : proc[p].os = "none"
    BY DEF CleanExit
  <2>1. pending = <<>> /\ running = <<>>
    BY DEF IInv, Session
  <2>2. Range(running) = {}
    BY <2>1 DEF Range
  <2>. QED
    BY <2>1, <2>2, OneCommand DEF IInv
<1>. QED
  BY <1>1, Inductive, PTL

\* No step overwrites a readable strategy file with one that has fewer
\* properties, unless it was asked for a fresh one.
THEOREM StrategiesKept == Spec => ProofsKept
<1>1. ASSUME IInv, [Next]_vars
      PROVE  \A s \in Steps :
               (disk[s].file = "good" /\ disk'[s] # disk[s] /\ ~args.fresh) =>
                 PropsOf(disk[s].entries) \subseteq PropsOf(strat)
  <2>1. CASE disk' = disk
    BY <2>1
  <2>2. CASE Truncate
    <3>1. at \in Steps /\ \A s \in Steps : s # at => disk'[s] = disk[s]
      BY <1>1, <2>2 DEF Truncate, IInv, Files, Strategy, Building
    <3>2. ~args.fresh /\ disk[at].file = "good" => disk[at].entries \subseteq strat
      BY <1>1, <2>2 DEF Truncate, IInv, Strategy
    <3>. QED
      BY <3>1, <3>2 DEF PropsOf
  <2>3. CASE Dump
    <3>1. at \in Steps /\ \A s \in Steps : s # at => disk'[s] = disk[s]
      BY <1>1, <2>3 DEF Dump, IInv, Files, Strategy, Building
    <3>2. disk[at].file # "good"
      BY <1>1, <2>3 DEF Dump, IInv, Strategy
    <3>. QED
      BY <3>1, <3>2
  <2>4. disk' = disk \/ Truncate \/ Dump
    BY <1>1 DEF Next, Launch, Main, ProveAll, ProveStep, ProveStepsDone, Ran, Bmc, BmcDone, Info,
       Construct, BuildDone, Rerun, ExploreDone, Close, Resume, Tick, Kill, Halted, kept,
       mainVars, vars
  <2>. QED
    BY <2>1, <2>2, <2>3, <2>4
<1>. QED
  BY <1>1, Inductive, PTL DEF Spec, ProofsKept

\* As far as safety goes the conductor's scheduler, with its kills, restarts
\* and timeouts, implements the shell of module Shell.
THEOREM ShellSafety == Spec => ShellSpec!Safety
<1>1. Init => ShellSpec!Init
  <2>. SUFFICES ASSUME Init PROVE commands = <<>>
    BY DEF ShellSpec!Init
  <2>1. DOMAIN proc = {}
    BY DEF Init, RunnerInit
  <2>. QED
    BY <2>1 DEF commands
<1>2. IInv /\ [Next]_vars => [ShellSpec!Next]_commands
  BY StepIInv DEF ShellView
<1>. QED
  BY <1>1, <1>2, Inductive, PTL DEF Spec, ShellSpec!Safety
===============================================================================
