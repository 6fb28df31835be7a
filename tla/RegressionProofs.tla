--------------------------- MODULE RegressionProofs ---------------------------
(***************************************************************************)
(* A regression keeps its records, loses no update of the metadata, gives  *)
(* its tests the verdicts of their logs and simulates current inputs, for  *)
(* every test list, configuration, number of jobs and sequence of calls,   *)
(* kills and edits.                                                        *)
(***************************************************************************)
EXTENDS Regression, FiniteSetTheorems, SequenceTheorems, WellFoundedInduction, TLAPS

(* The inductive invariant *)

\* The pickles, and the files that a simulation leaves.
Records ==
    /\ md.st \in {"absent", "torn", "good"} /\ md.fields \subseteq LockedKinds
    /\ DOMAIN md = {"st", "req", "items", "tests", "fields"}
    /\ DOMAIN trr = {Key(t) : t \in Tests}
    /\ DOMAIN log = DOMAIN trr /\ DOMAIN trace = DOMAIN trr /\ DOMAIN sims = DOMAIN trr
    /\ \A t \in DOMAIN trr : /\ trr[t] \in TrrState
                             /\ log[t] \in {Missing} \cup LogLines
                             /\ trace[t] \in {Missing} \cup TraceLines
                             /\ sims[t] \in {0, 1, 2}
    /\ checked \subseteq DOMAIN trr

\* Where make and the user are, and what is on disk then.
Phases ==
    /\ phase \in {"idle", "gen", "create", "parse", "make"}
    /\ exit \in {"none", "ok", "fail", "killed"}
    /\ phase # "make" => job = <<>> /\ todo = {}
    /\ phase \in {"create", "parse", "make"} => md.st # "absent"
    /\ phase = "create" => ood = {} /\ have = {}
    /\ md.st = "absent" => ood = {} /\ have = {}

\* A script of a test runs without the lock, and two of the others end with it.
Runs(g, j) ==
    /\ j \in JobState
    /\ g.kind \in TestKinds => j.at = "run"
    /\ j.at = "run" => g.kind \notin {"cfg", "regr"}

\* What make has to do and what runs.
Agenda ==
    /\ ood \subseteq Targets /\ todo \subseteq Targets
    /\ DOMAIN job \subseteq todo
    /\ IsFiniteSet(DOMAIN job) /\ Cardinality(DOMAIN job) <= Jobs
    /\ \A g \in DOMAIN job : Runs(g, job[g])

\* One script holds the lock, and what it read is still what the file says.
Lock ==
    /\ \A g, h \in DOMAIN job : Holds(g) /\ Holds(h) => g = h
    /\ \A g \in DOMAIN job : Holds(g) => job[g].snap = md.fields

\* The fields of a script that has released the lock, while it runs on and
\* after, whether or not the file is being rewritten.
Updated ==
    \A kind \in LockedKinds \ {"cfg"} :
        G(kind) \in have \/ At(G(kind), "run") => kind \in md.fields

\* A test that was never simulated has no log and has not passed; a test that
\* has passed has left a log that passes, and has been checked since its
\* simulation if that was the only one.
Judged ==
    /\ \A t \in DOMAIN trr : sims[t] = 0 => log[t] = Missing /\ trr[t].passed # "True"
    /\ \A t \in DOMAIN trr : sims[t] = 1 /\ trr[t].passed = "True" => t \in checked
    /\ \A t \in DOMAIN trr : trr[t].passed = "True" => t \in won
    /\ VerdictOfLog

InUse == phase = "make" \/ md.st = "good"

\* While a test has not passed the regression is not complete, and make knows.
Verdict ==
    /\ InUse /\ ~AllPassed => G("regr") \in ood /\ (phase = "make" => G("regr") \in todo)
    /\ exit = "ok" => phase \in {"idle", "gen"} /\ (md.st = "good" => AllPassed)

\* The testbench and the binaries are remade before a test is simulated.
Inputs ==
    /\ phase = "make" => \A h \in ood : h.kind \in {"tb", "bin"} => h \in todo
    /\ \A g \in DOMAIN job :
          g.kind = "log" => /\ ~\E h \in todo : Precedes(h, g)
                            /\ ~XOptsRaise(md.req.simulator)
    /\ InUse => \A t \in Tests : T("bin", t) \in ood \cup have
    /\ InUse /\ G("tb") \notin ood => built = XOpts(md.req.simulator, "compile", known_fields)

IInv == Records /\ Phases /\ Agenda /\ Lock /\ Updated /\ Judged /\ Verdict /\ Inputs
-------------------------------------------------------------------------------
(* Targets *)

\* A target of a test carries the name and the seed of one of the tests; the
\* others are one of their kind.
LEMMA TargetFacts ==
    ASSUME NEW g \in Targets
    PROVE  /\ g = [kind |-> g.kind, name |-> g.name, seed |-> g.seed]
           /\ g.kind \in LockedKinds \cup TestKinds
           /\ g.kind \in LockedKinds => g = G(g.kind)
           /\ g.kind \in TestKinds => \E t \in Tests : g = T(g.kind, t) /\ Key(g) = Key(t)
           /\ g.kind = "S" => \E t \in RandomTests : g = T("S", t) /\ Key(g) = Key(t)
           /\ g.kind \in {"cfg", "gen"} => RandomTests # {}
<1>1. CASE \E k \in {"tb", "fcov", "cov", "regr"} : g = G(k)
  <2>1. PICK k \in {"tb", "fcov", "cov", "regr"} : g = G(k)
    BY <1>1
  <2>2. g.kind = k /\ g = G(g.kind) /\ g = [kind |-> g.kind, name |-> g.name, seed |-> g.seed]
    BY <2>1 DEF G
  <2>3. k \in LockedKinds /\ k \notin TestKinds \cup {"S", "cfg", "gen"}
    BY DEF LockedKinds, TestKinds
  <2>. QED
    BY <2>2, <2>3
<1>2. CASE \E k \in {"bin", "log", "trr"}, t \in Tests : g = T(k, t)
  BY <1>2 DEF T, Key, LockedKinds, TestKinds
<1>3. CASE \E t \in RandomTests : g = T("S", t)
  <2>1. RandomTests \subseteq Tests
    BY DEF RandomTests
  <2>. QED
    BY <1>3, <2>1 DEF T, Key, LockedKinds, TestKinds
<1>4. CASE RandomTests # {} /\ g \in {G("cfg"), G("gen")}
  <2>1. PICK k \in {"cfg", "gen"} : g = G(k)
    BY <1>4
  <2>2. g.kind = k /\ g = G(g.kind) /\ g = [kind |-> g.kind, name |-> g.name, seed |-> g.seed]
    BY <2>1 DEF G
  <2>3. k \in LockedKinds /\ k \notin TestKinds \cup {"S"}
    BY DEF LockedKinds, TestKinds
  <2>. QED
    BY <1>4, <2>2, <2>3
<1>. QED
  BY <1>1, <1>2, <1>3, <1>4 DEF Targets

\* The targets that make always has, and those of each test.
LEMMA TargetsOfTests ==
    /\ \A k \in {"tb", "fcov", "cov", "regr"} : G(k) \in Targets
    /\ \A k \in {"bin", "log", "trr"}, t \in Tests : T(k, t) \in Targets
    /\ \A t \in RandomTests : T("S", t) \in Targets
    /\ RandomTests # {} => G("cfg") \in Targets /\ G("gen") \in Targets
  BY DEF Targets

\* The kind and the test of a target.
LEMMA KindOf ==
    \A k : G(k).kind = k /\ \A t : T(k, t).kind = k /\ Key(T(k, t)) = Key(t)
  BY DEF G, T, Key

\* What is made from a target is a target.
LEMMA DependentsAreTargets ==
    ASSUME NEW g \in Targets
    PROVE  Dependents(g) \subseteq Targets
<1>1. g.kind \in TestKinds => \E t \in Tests : \A k : T(k, g) = T(k, t)
  BY TargetFacts DEF T, Key
<1>2. g.kind \in LockedKinds \cup TestKinds /\ (g.kind = "cfg" => RandomTests # {})
  BY TargetFacts
<1>3. CASE g.kind \in {"S", "bin", "log"}
  <2>1. PICK t \in Tests : \A k : T(k, g) = T(k, t)
    BY <1>1, <1>3 DEF TestKinds
  <2>. QED
    BY <1>3, <2>1, TargetsOfTests DEF Dependents
<1>4. CASE g.kind \in {"cfg", "gen", "tb", "trr", "fcov", "cov", "regr"}
  BY <1>2, <1>4, TargetsOfTests DEF Dependents
<1>. QED
  BY <1>2, <1>3, <1>4 DEF LockedKinds, TestKinds

\* The kinds of what is made from a target.
LEMMA DependentKinds ==
    ASSUME NEW g \in Targets, NEW d \in Dependents(g)
    PROVE  /\ d.kind \notin {"cfg", "tb"}
           /\ d.kind = "gen" => g.kind = "cfg"
           /\ d.kind = "S" => g.kind = "gen" /\ \E t \in RandomTests : Key(d) = Key(t)
           /\ d.kind = "bin" => g.kind = "S" /\ Key(d) = Key(g)
<1>1. g.kind \in LockedKinds \cup TestKinds
  BY TargetFacts
<1>2. \A k : G(k).kind = k /\ \A t : T(k, t).kind = k /\ Key(T(k, t)) = Key(t)
  BY KindOf
<1>3. CASE g.kind \in {"S", "bin", "log"}
  BY <1>2, <1>3 DEF Dependents
<1>4. CASE g.kind \in {"gen", "tb"}
  BY <1>2, <1>4 DEF Dependents
<1>5. CASE g.kind \in {"cfg", "trr", "fcov", "cov", "regr"}
  BY <1>2, <1>5 DEF Dependents
<1>. QED
  BY <1>1, <1>3, <1>4, <1>5 DEF LockedKinds, TestKinds

\* The order of the kinds.
LEMMA Ranks ==
    /\ Rank("cfg") = 1 /\ Rank("gen") = 2 /\ Rank("S") = 3 /\ Rank("bin") = 4
    /\ Rank("tb") = 5 /\ Rank("log") = 6 /\ Rank("trr") = 7 /\ Rank("fcov") = 8
    /\ Rank("cov") = 9 /\ Rank("regr") = 10
  BY DEF Rank, Order

\* A target that is made from something before a simulation of a test and is
\* itself before it has that something before it too.
LEMMA PrecedesThrough ==
    ASSUME NEW x \in Targets, NEW d \in Dependents(x), NEW g \in Targets, g.kind = "log",
           Precedes(d, g)
    PROVE  Precedes(x, g)
<1>1. d \in Targets /\ d.kind \in LockedKinds \cup TestKinds /\ Rank(d.kind) < 6
  BY DependentsAreTargets, TargetFacts, Ranks DEF Precedes
<1>2. d.kind \in {"gen", "S", "bin"}
  BY <1>1, Ranks, DependentKinds DEF LockedKinds, TestKinds
<1>3. CASE d.kind = "gen"
  <2>1. x.kind = "cfg"
    BY <1>3, DependentKinds
  <2>2. IsRandom(g)
    BY <1>3 DEF Precedes, LockedKinds
  <2>. QED
    BY <2>1, <2>2, Ranks DEF Precedes, LockedKinds
<1>4. CASE d.kind = "S"
  <2>1. x.kind = "gen" /\ \E t \in RandomTests : Key(d) = Key(t)
    BY <1>4, DependentKinds
  <2>2. Key(d) = Key(g)
    BY <1>4 DEF Precedes, LockedKinds
  <2>3. IsRandom(g)
    BY <2>1, <2>2 DEF IsRandom
  <2>. QED
    BY <2>1, <2>3, Ranks DEF Precedes, LockedKinds
<1>5. CASE d.kind = "bin"
  BY <1>5, DependentKinds, Ranks DEF Precedes, LockedKinds
<1>. QED
  BY <1>2, <1>3, <1>4, <1>5

\* Targets only depend on the tests of the metadata.
LEMMA SameTests ==
    ASSUME md'.tests = md.tests
    PROVE  /\ Tests' = Tests /\ RandomTests' = RandomTests /\ Targets' = Targets
           /\ \A g, h : Precedes(g, h)' <=> Precedes(g, h)
<1>1. Tests' = Tests
  BY DEF Tests
<1>2. RandomTests' = RandomTests
  BY <1>1 DEF RandomTests
<1>3. \A g : IsRandom(g)' <=> IsRandom(g)
  BY <1>2 DEF IsRandom
<1>. QED
  BY <1>1, <1>2, <1>3 DEF Targets, Precedes
-------------------------------------------------------------------------------
(* The loops of the log checker *)

\* A nonempty set of natural numbers has a least element.
LEMMA LeastLine ==
    ASSUME NEW S, S \subseteq Nat, S # {}
    PROVE  \E x \in S : \A y \in S : x <= y
<1>. DEFINE R == OpToRel(<, Nat)
<1>1. IsWellFoundedOn(R, Nat)
  BY NatLessThanWellFounded DEF OpToRel
<1>. HIDE DEF R
<1>2. PICK x \in S : \A y \in S : ~(<<y, x>> \in R)
  BY <1>1, WFMin
<1>3. \A y \in S : ~(y < x)
  BY <1>2 DEF R, OpToRel
<1>. QED
  BY <1>3

\* Some instruction of the trace is counted: it has one before every ecall.
LEMMA TraceCounts ==
    ASSUME NEW s \in TraceLines
    PROVE  InstrCount(s) = 0 <=>
             ~\E i \in DOMAIN s : s[i] = "instr" /\ \A j \in 1 .. i : s[j] # "ecall"
<1>. DEFINE N == Len(s) + 1
            Body(g, i) == IF i = Len(s) + 1 THEN 0
                          ELSE IF s[i] = "ecall" THEN 0
                          ELSE g[i + 1] + (IF s[i] = "instr" THEN 1 ELSE 0)
            Part(g, k) == g = [i \in k .. Len(s) + 1 |-> Body(g, i)]
            count == CHOOSE g : Part(g, 1)
            Seen(i) == \E k \in i .. Len(s) : s[k] = "instr" /\ \A j \in i .. k : s[j] # "ecall"
            Good(i) == count[i] \in Nat /\ (count[i] # 0 <=> Seen(i))
<1>1. Len(s) \in Nat /\ DOMAIN s = 1 .. Len(s)
  BY LenProperties DEF TraceLines
<1>2. InstrCount(s) = count[1]
  BY DEF InstrCount
<1>3. N \in Nat /\ N = Len(s) + 1 /\ N >= 1
  BY <1>1
<1>. HIDE DEF Body, Part, count, Good, Seen, N
<1>4. \A n \in 0 .. N : \E g : Part(g, N - n)
  <2>. DEFINE Bad == {n \in 0 .. N : ~\E g : Part(g, N - n)}
  <2>. SUFFICES ASSUME Bad # {} PROVE FALSE
    OBVIOUS
  <2>1. Bad \subseteq Nat
    OBVIOUS
  <2>. HIDE DEF Bad
  <2>2. PICK n \in Bad : \A m \in Bad : n <= m
    BY <2>1, LeastLine
  <2>3. n \in 0 .. N /\ ~\E g : Part(g, N - n)
    BY DEF Bad
  <2>4. n # 0
    <3>1. \A i \in N - 0 .. N : i = N
      BY <1>3
    <3>2. Part([i \in N - 0 .. N |-> 0], N - 0)
      BY <3>1, <1>3 DEF Part, Body
    <3>. QED
      BY <3>2, <2>3
  <2>5. n - 1 \in 0 .. N /\ n - 1 \notin Bad
    BY <2>2, <2>3, <2>4, <1>3
  <2>. DEFINE k == N - n
  <2>6. PICK g : Part(g, k + 1)
    <3>1. N - (n - 1) = k + 1
      BY <2>3, <1>3
    <3>. QED
      BY <2>5, <3>1 DEF Bad
  <2>7. k \in Nat /\ k < N /\ ~\E h : Part(h, k)
    BY <2>3, <2>4, <1>3
  <2>. HIDE DEF k
  <2>. DEFINE h == [i \in k .. N |-> Body(g, i)]
  <2>8. \A i \in k + 1 .. N : h[i] = g[i]
    <3>1. \A i \in k + 1 .. N : i \in k .. N /\ g[i] = Body(g, i)
      BY <1>3, <2>7, <2>6 DEF Part
    <3>. QED
      BY <3>1
  <2>9. \A i \in k .. N : Body(h, i) = Body(g, i)
    <3>. SUFFICES ASSUME NEW i \in k .. N PROVE Body(h, i) = Body(g, i)
      OBVIOUS
    <3>1. CASE i = N
      BY <3>1, <1>3 DEF Body
    <3>2. CASE i # N
      <4>1. i + 1 \in k + 1 .. N
        BY <3>2, <2>7, <1>3
      <4>2. h[i + 1] = g[i + 1]
        BY <4>1, <2>8
      <4>. HIDE DEF h
      <4>. QED
        BY <4>2 DEF Body
    <3>. QED
      BY <3>1, <3>2
  <2>10. Part(h, k)
    <3>1. h = [i \in k .. N |-> Body(h, i)]
      BY <2>9
    <3>. HIDE DEF h
    <3>. QED
      BY <3>1, <1>3 DEF Part
  <2>. HIDE DEF h
  <2>. QED
    BY <2>10, <2>7
<1>5. \A i \in 1 .. N : count[i] = Body(count, i)
  <2>1. N - 1 \in 0 .. N /\ N - (N - 1) = 1
    BY <1>3
  <2>2. \E g : Part(g, 1)
    BY <2>1, <1>4
  <2>3. Part(count, 1)
    BY <2>2 DEF count
  <2>. QED
    BY <2>3, <1>3 DEF Part
<1>6. Good(N)
  <2>1. count[N] = 0
    BY <1>3, <1>5 DEF Body
  <2>2. ~Seen(N)
    BY <1>1, <1>3 DEF Seen
  <2>. QED
    BY <2>1, <2>2 DEF Good
<1>7. ASSUME NEW i \in 1 .. Len(s), Good(i + 1) PROVE Good(i)
  <2>1. i \in 1 .. N /\ i # N /\ count[i] = Body(count, i)
    BY <1>1, <1>3, <1>5
  <2>2. count[i] = IF s[i] = "ecall" THEN 0 ELSE count[i + 1] + (IF s[i] = "instr" THEN 1 ELSE 0)
    BY <2>1, <1>3 DEF Body
  <2>3. Seen(i) <=> s[i] # "ecall" /\ (s[i] = "instr" \/ Seen(i + 1))
    <3>1. s[i] = "instr" => Seen(i)
      <4>1. i \in i .. Len(s) /\ \A j \in i .. i : j = i
        BY <1>1
      <4>. QED
        BY <4>1 DEF Seen
    <3>2. s[i] # "ecall" /\ Seen(i + 1) => Seen(i)
      <4>1. \A k \in i + 1 .. Len(s) : k \in i .. Len(s) /\ \A j \in i .. k : j = i \/ j \in i + 1 .. k
        BY <1>1
      <4>. QED
        BY <4>1 DEF Seen
    <3>3. ASSUME Seen(i) PROVE s[i] # "ecall" /\ (s[i] = "instr" \/ Seen(i + 1))
      <4>1. PICK k \in i .. Len(s) : s[k] = "instr" /\ \A j \in i .. k : s[j] # "ecall"
        BY <3>3 DEF Seen
      <4>2. i \in i .. k /\ (k = i \/ k \in i + 1 .. Len(s)) /\ \A j \in i + 1 .. k : j \in i .. k
        BY <1>1
      <4>. QED
        BY <4>1, <4>2 DEF Seen
    <3>. QED
      BY <3>1, <3>2, <3>3
  <2>. QED
    BY <2>2, <2>3, <1>7 DEF Good
<1>8. Good(1)
  <2>. DEFINE Bad == {n \in 0 .. Len(s) : ~Good(N - n)}
  <2>. SUFFICES ASSUME Bad # {} PROVE FALSE
    <3>1. Len(s) \in 0 .. Len(s) /\ N - Len(s) = 1
      BY <1>1, <1>3
    <3>. QED
      BY <3>1
  <2>1. Bad \subseteq Nat
    OBVIOUS
  <2>. HIDE DEF Bad
  <2>2. PICK n \in Bad : \A m \in Bad : n <= m
    BY <2>1, LeastLine
  <2>3. n \in 0 .. Len(s) /\ ~Good(N - n)
    BY DEF Bad
  <2>4. n # 0
    <3>1. N - 0 = N
      BY <1>3
    <3>. QED
      BY <3>1, <2>3, <1>6
  <2>5. n - 1 \in 0 .. Len(s) /\ n - 1 \notin Bad /\ N - n \in 1 .. Len(s)
        /\ (N - n) + 1 = N - (n - 1)
    BY <2>2, <2>3, <2>4, <1>1, <1>3
  <2>6. Good((N - n) + 1)
    BY <2>5 DEF Bad
  <2>. QED
    BY <2>3, <2>5, <2>6, <1>7
<1>. QED
  <2>1. Seen(1) <=> \E i \in DOMAIN s : s[i] = "instr" /\ \A j \in 1 .. i : s[j] # "ecall"
    BY <1>1 DEF Seen
  <2>. QED
    BY <1>2, <1>8, <2>1 DEF Good

\* The log checker passes a log that has a line with PASSED, none with FAILED,
\* and no error up to the first PASSED.
LEMMA LogIsRead ==
    ASSUME NEW l \in LogLines
    PROVE  check_ibex_uvm_log(l).passed <=>
             /\ \E i \in DOMAIN l : "PASSED" \in l[i] /\ \A j \in 1 .. i : "error" \notin l[j]
             /\ \A i \in DOMAIN l : "FAILED" \notin l[i]
<1>. DEFINE Body(g, i) == IF i = 0 THEN NothingRead ELSE ReadLine(g[i - 1], l[i])
            Part(g, n) == g = [i \in 0 .. n |-> Body(g, i)]
            read == CHOOSE g : Part(g, Len(l))
            Flags == [test_result_seen : BOOLEAN, passed : BOOLEAN, failed : BOOLEAN,
                      error_line : {<<>>} \cup {<<x>> : x \in SUBSET {"error", "timeout", "PASSED", "FAILED"}},
                      over : BOOLEAN]
            Pass(i) == \E j \in 1 .. i : "PASSED" \in l[j]
            Fail(i) == \E j \in 1 .. i : "FAILED" \in l[j]
            Error(i) == \E j \in 1 .. i : "error" \in l[j] /\ ~Pass(j - 1)
            Good(i) == /\ read[i] \in Flags
                       /\ read[i].over <=> Fail(i)
                       /\ Fail(i) => read[i].failed
                       /\ ~Fail(i) => /\ read[i].passed <=> Pass(i)
                                      /\ read[i].test_result_seen <=> Pass(i)
                                      /\ read[i].failed <=> Error(i)
<1>1. /\ Len(l) \in Nat /\ DOMAIN l = 1 .. Len(l)
      /\ \A i \in 1 .. Len(l) : l[i] \in SUBSET {"error", "timeout", "PASSED", "FAILED"}
  BY LenProperties, ElementOfSeq DEF LogLines
<1>2. ReadLog(l) = read[Len(l)]
  BY DEF ReadLog
<1>. HIDE DEF Body, Part, read, Good, Pass, Fail, Error
<1>3. \A n \in 0 .. Len(l) : \E g : Part(g, n)
  <2>. DEFINE Bad == {n \in 0 .. Len(l) : ~\E g : Part(g, n)}
  <2>. SUFFICES ASSUME Bad # {} PROVE FALSE
    OBVIOUS
  <2>1. Bad \subseteq Nat
    OBVIOUS
  <2>. HIDE DEF Bad
  <2>2. PICK n \in Bad : \A m \in Bad : n <= m
    BY <2>1, LeastLine
  <2>3. n \in 0 .. Len(l) /\ ~\E g : Part(g, n)
    BY DEF Bad
  <2>4. n # 0
    <3>1. Part([i \in 0 .. 0 |-> NothingRead], 0)
      BY DEF Part, Body
    <3>. QED
      BY <3>1, <2>3
  <2>5. n - 1 \in 0 .. Len(l) /\ n - 1 \notin Bad
    BY <2>2, <2>3, <2>4, <1>1
  <2>6. PICK g : Part(g, n - 1)
    BY <2>5 DEF Bad
  <2>. DEFINE h == [i \in 0 .. n |-> Body(g, i)]
  <2>7. \A i \in 0 .. n - 1 : h[i] = g[i]
    <3>1. \A i \in 0 .. n - 1 : i \in 0 .. n /\ g[i] = Body(g, i)
      BY <2>3, <2>6 DEF Part
    <3>. QED
      BY <3>1
  <2>8. \A i \in 0 .. n : Body(h, i) = Body(g, i)
    <3>. SUFFICES ASSUME NEW i \in 0 .. n PROVE Body(h, i) = Body(g, i)
      OBVIOUS
    <3>1. CASE i = 0
      BY <3>1 DEF Body
    <3>2. CASE i # 0
      <4>1. i - 1 \in 0 .. n - 1
        BY <3>2, <2>3
      <4>2. h[i - 1] = g[i - 1]
        BY <4>1, <2>7
      <4>. HIDE DEF h
      <4>. QED
        BY <4>2 DEF Body
    <3>. QED
      BY <3>1, <3>2
  <2>9. Part(h, n)
    BY <2>8 DEF Part
  <2>. QED
    BY <2>3, <2>9
<1>4. read[0] = NothingRead /\ \A i \in 1 .. Len(l) : read[i] = ReadLine(read[i - 1], l[i])
  <2>1. \E g : Part(g, Len(l))
    BY <1>1, <1>3
  <2>2. Part(read, Len(l))
    BY <2>1 DEF read
  <2>3. \A i \in 0 .. Len(l) : read[i] = Body(read, i)
    BY <2>2 DEF Part
  <2>4. Body(read, 0) = NothingRead /\ \A i \in 1 .. Len(l) : Body(read, i) = ReadLine(read[i - 1], l[i])
    BY DEF Body
  <2>. QED
    BY <2>3, <2>4, <1>1
<1>5. Good(0)
  <2>1. ~Pass(0) /\ ~Fail(0) /\ ~Error(0)
    BY DEF Pass, Fail, Error
  <2>. QED
    BY <1>4, <2>1 DEF Good, NothingRead
\* One line keeps the flags true to what was read.
<1>6. ASSUME NEW i \in 1 .. Len(l), Good(i - 1) PROVE Good(i)
  <2>. DEFINE s == read[i - 1]
              line == l[i]
              error == "error" \in line /\ ~s.test_result_seen
  <2>1. /\ Pass(i) <=> Pass(i - 1) \/ "PASSED" \in line
        /\ Fail(i) <=> Fail(i - 1) \/ "FAILED" \in line
        /\ Error(i) <=> Error(i - 1) \/ ("error" \in line /\ ~Pass(i - 1))
    <3>1. \A j : j \in 1 .. i <=> j \in 1 .. i - 1 \/ j = i
      BY <1>1
    <3>. QED
      BY <3>1 DEF Pass, Fail, Error
  <2>2. /\ s \in Flags /\ line \in SUBSET {"error", "timeout", "PASSED", "FAILED"}
        /\ s.over <=> Fail(i - 1)
        /\ Fail(i - 1) => s.failed
        /\ ~Fail(i - 1) => /\ s.passed <=> Pass(i - 1)
                           /\ s.test_result_seen <=> Pass(i - 1)
                           /\ s.failed <=> Error(i - 1)
    BY <1>1, <1>6 DEF Good
  <2>3. read[i] = ReadLine(s, line)
    BY <1>4
  <2>4. CASE s.over
    <3>1. read[i] = s
      BY <2>3, <2>4 DEF ReadLine
    <3>. HIDE DEF s, line
    <3>. QED
      BY <3>1, <2>1, <2>2, <2>4 DEF Good
  <2>5. CASE ~s.over
    <3>. HIDE DEF s, line
    <3>1. read[i] = [test_result_seen |-> s.test_result_seen \/ {"PASSED", "FAILED"} \cap line # {},
                     passed     |-> s.passed \/ "PASSED" \in line,
                     failed     |-> s.failed \/ error \/ "FAILED" \in line,
                     error_line |-> IF error THEN <<line>> ELSE s.error_line,
                     over       |-> "FAILED" \in line]
      BY <2>3, <2>5, Zenon DEF ReadLine
    <3>2. {"PASSED", "FAILED"} \cap line # {} <=> "PASSED" \in line \/ "FAILED" \in line
      OBVIOUS
    <3>3. /\ s.test_result_seen \in BOOLEAN /\ s.passed \in BOOLEAN /\ s.failed \in BOOLEAN
          /\ s.error_line \in {<<>>} \cup {<<x>> : x \in SUBSET {"error", "timeout", "PASSED", "FAILED"}}
      BY <2>2
    <3>4. /\ read[i].test_result_seen <=> s.test_result_seen \/ "PASSED" \in line \/ "FAILED" \in line
          /\ read[i].passed <=> s.passed \/ "PASSED" \in line
          /\ read[i].failed <=> s.failed \/ error \/ "FAILED" \in line
          /\ read[i].over <=> "FAILED" \in line
      <4>. DEFINE a == s.test_result_seen \/ {"PASSED", "FAILED"} \cap line # {}
                  b == s.passed \/ "PASSED" \in line
                  c == s.failed \/ error \/ "FAILED" \in line
                  d == IF error THEN <<line>> ELSE s.error_line
                  e == "FAILED" \in line
      <4>0. read[i] = [test_result_seen |-> a, passed |-> b, failed |-> c, error_line |-> d, over |-> e]
        BY <3>1, Zenon
      <4>1. read[i].test_result_seen = a /\ read[i].passed = b /\ read[i].failed = c /\ read[i].over = e
        <5>. HIDE DEF a, b, c, d, e
        <5>. QED
          BY <4>0
      <4>. HIDE DEF error
      <4>. QED
        BY <4>1, <3>2
    <3>5. read[i] \in Flags
      <4>1. (IF error THEN <<line>> ELSE s.error_line)
                \in {<<>>} \cup {<<x>> : x \in SUBSET {"error", "timeout", "PASSED", "FAILED"}}
        BY <3>3, <2>2
      <4>. QED
        BY <3>1, <4>1
    <3>6. ~Fail(i - 1)
      BY <2>2, <2>5
    <3>. QED
      BY <3>4, <3>5, <3>6, <2>1, <2>2 DEF Good
  <2>. QED
    BY <2>4, <2>5
<1>7. Good(Len(l))
  <2>. DEFINE Bad == {n \in 0 .. Len(l) : ~Good(n)}
  <2>. SUFFICES ASSUME Bad # {} PROVE FALSE
    BY <1>1
  <2>1. Bad \subseteq Nat
    OBVIOUS
  <2>. HIDE DEF Bad
  <2>2. PICK n \in Bad : \A m \in Bad : n <= m
    BY <2>1, LeastLine
  <2>3. n \in 1 .. Len(l) /\ ~Good(n)
    BY <1>5, <1>1 DEF Bad
  <2>4. n - 1 \in 0 .. Len(l) /\ n - 1 \notin Bad
    BY <2>2, <2>3, <1>1
  <2>. QED
    BY <2>3, <2>4, <1>6 DEF Bad
<1>8. check_ibex_uvm_log(l).passed <=> ~Fail(Len(l)) /\ Pass(Len(l)) /\ ~Error(Len(l))
  <2>. DEFINE s == read[Len(l)]
  <2>1. s \in Flags
    BY <1>7 DEF Good
  <2>2. check_ibex_uvm_log(l).passed = (s.passed /\ ~s.failed)
    BY <1>2 DEF check_ibex_uvm_log
  <2>3. s.passed /\ ~s.failed <=> ~Fail(Len(l)) /\ Pass(Len(l)) /\ ~Error(Len(l))
    BY <1>7 DEF Good
  <2>. QED
    BY <2>2, <2>3
<1>9. ASSUME Pass(Len(l)), ~Error(Len(l))
      PROVE  \E i \in 1 .. Len(l) : "PASSED" \in l[i] /\ \A j \in 1 .. i : "error" \notin l[j]
  <2>. DEFINE Passing == {i \in 1 .. Len(l) : "PASSED" \in l[i]}
  <2>1. Passing \subseteq Nat /\ Passing # {}
    BY <1>9 DEF Pass
  <2>2. PICK i \in Passing : \A k \in Passing : i <= k
    BY <2>1, LeastLine
  <2>3. ASSUME NEW j \in 1 .. i, "error" \in l[j] PROVE FALSE
    <3>1. j \in 1 .. Len(l) /\ \A k \in 1 .. j - 1 : k \in 1 .. Len(l) /\ ~(i <= k)
      BY <1>1, <2>2
    <3>2. ~Pass(j - 1)
      BY <3>1, <2>2 DEF Pass
    <3>. QED
      BY <3>1, <3>2, <2>3, <1>9 DEF Error
  <2>. QED
    BY <2>2, <2>3
<1>10. ASSUME NEW i \in 1 .. Len(l), "PASSED" \in l[i], \A j \in 1 .. i : "error" \notin l[j]
       PROVE  Pass(Len(l)) /\ ~Error(Len(l))
  <2>1. Pass(Len(l))
    BY <1>10 DEF Pass
  <2>2. ASSUME NEW j \in 1 .. Len(l), "error" \in l[j] PROVE Pass(j - 1)
    <3>1. i \in 1 .. j - 1
      BY <1>1, <1>10, <2>2
    <3>. QED
      BY <3>1, <1>10 DEF Pass
  <2>. QED
    BY <2>1, <2>2 DEF Error
<1>. QED
  BY <1>1, <1>8, <1>9, <1>10 DEF Fail

\* What check_logs.py writes for a test: by induction its verdict was that of
\* its log, or it had none.
LEMMA VerdictIsThatOfLog ==
    ASSUME Records, Judged, NEW t \in DOMAIN trr
    PROVE  LET r == compare_test_run(trr[t], trace[t], log[t])
           IN /\ r \in TrrState
              /\ sims[t] = 0 => r.passed # "True"
              /\ r.passed = "True" => trr[t].passed = "True" \/ LogPasses(t)
              /\ sims[t] = 1 => (r.passed = "True" <=> LogPasses(t) /\ r.failure_mode # "TIMEOUT")
<1>. DEFINE r == compare_test_run(trr[t], trace[t], log[t])
            uvm == check_ibex_uvm_log(log[t])
<1>1. trr[t] \in TrrState /\ log[t] \in {Missing} \cup LogLines /\ trace[t] \in {Missing} \cup TraceLines
  BY DEF Records
<1>2. /\ sims[t] = 0 => log[t] = Missing /\ trr[t].passed # "True"
      /\ sims[t] = 1 /\ trr[t].passed = "True" => LogPasses(t)
  BY DEF Judged, VerdictOfLog
<1>3. TraceRaises(trace[t]) \/ log[t] = Missing => ~LogPasses(t)
  BY <1>1, TraceCounts DEF TraceRaises, LogPasses
<1>4. ~TraceRaises(trace[t]) /\ log[t] # Missing => (uvm.passed <=> LogPasses(t))
  <2>. SUFFICES ASSUME ~TraceRaises(trace[t]), log[t] # Missing PROVE uvm.passed <=> LogPasses(t)
    OBVIOUS
  <2>1. trace[t] # Missing /\ trace[t] \in TraceLines /\ InstrCount(trace[t]) # 0 /\ log[t] \in LogLines
    BY <1>1 DEF TraceRaises
  <2>2. \E i \in DOMAIN trace[t] : trace[t][i] = "instr" /\ \A j \in 1 .. i : trace[t][j] # "ecall"
    BY <2>1, TraceCounts
  <2>3. uvm.passed <=>
             /\ \E i \in DOMAIN log[t] : "PASSED" \in log[t][i] /\ \A j \in 1 .. i : "error" \notin log[t][j]
             /\ \A i \in DOMAIN log[t] : "FAILED" \notin log[t][i]
    BY <2>1, LogIsRead
  <2>. QED
    BY <2>1, <2>2, <2>3 DEF LogPasses
<1>5. uvm.failure_mode \in {"NONE", "TIMEOUT", "LOG_ERROR"}
  BY DEF check_ibex_uvm_log
<1>6. CASE trr[t].failure_mode = "TIMEOUT"
  <2>1. r = [trr[t] EXCEPT !.passed = "False"]
    BY <1>6 DEF compare_test_run
  <2>. QED
    BY <1>1, <1>6, <2>1 DEF TrrState
<1>7. CASE trr[t].failure_mode # "TIMEOUT" /\ (TraceRaises(trace[t]) \/ log[t] = Missing)
  <2>1. r = [trr[t] EXCEPT !.passed = "False", !.failure_mode = "FILE_ERROR"]
    BY <1>7 DEF compare_test_run, FileError
  <2>. QED
    BY <1>1, <1>3, <1>7, <2>1 DEF TrrState
<1>8. CASE trr[t].failure_mode # "TIMEOUT" /\ ~TraceRaises(trace[t]) /\ log[t] # Missing
  <2>. HIDE DEF uvm
  <2>1. r = IF uvm.passed THEN [trr[t] EXCEPT !.passed = "True"]
            ELSE [trr[t] EXCEPT !.failure_mode = uvm.failure_mode]
    BY <1>8 DEF compare_test_run, uvm
  <2>2. CASE uvm.passed
    <3>1. r = [trr[t] EXCEPT !.passed = "True"] /\ LogPasses(t)
      BY <1>4, <1>8, <2>1, <2>2
    <3>. QED
      BY <1>1, <1>2, <1>8, <3>1 DEF TrrState
  <2>3. CASE ~uvm.passed
    <3>1. r = [trr[t] EXCEPT !.failure_mode = uvm.failure_mode] /\ ~LogPasses(t)
      BY <1>4, <1>8, <2>1, <2>3
    <3>. QED
      BY <1>1, <1>2, <1>5, <3>1 DEF TrrState
  <2>. QED
    BY <2>2, <2>3
<1>. QED
  BY <1>6, <1>7, <1>8
-------------------------------------------------------------------------------
(* What the steps of make and of its scripts keep *)

\* The records of the tests, when a script only rewrites the metadata.
LEMMA RecordsKept ==
    ASSUME Records, Judged, UNCHANGED results,
           DOMAIN md' = DOMAIN md, md'.tests = md.tests,
           md'.st \in {"torn", "good"}, md'.fields \subseteq LockedKinds
    PROVE  Records' /\ Judged' /\ (AllPassed' <=> AllPassed)
<1>1. /\ Tests' = Tests /\ trr' = trr /\ log' = log /\ trace' = trace
      /\ sims' = sims /\ checked' = checked /\ won' = won
  BY SameTests DEF results, history
<1>2. {Key(t) : t \in Tests}' = {Key(t) : t \in Tests}
  BY <1>1 DEF Key
<1>3. Records'
  BY <1>1, <1>2 DEF Records, Key
<1>4. VerdictOfLog' <=> VerdictOfLog
  BY <1>1 DEF VerdictOfLog, LogPasses
<1>5. Judged'
  BY <1>1, <1>4 DEF Judged
<1>6. AllPassed' <=> AllPassed
  BY <1>1 DEF AllPassed, Trr, Key
<1>. QED
  BY <1>3, <1>5, <1>6

\* Phases and verdict of make.
LEMMA PhasesKept ==
    ASSUME Phases, phase = "make", phase' = phase, exit' = exit, md'.st # "absent"
    PROVE  Phases'
  BY DEF Phases

\* A test that has not passed keeps regr among the targets to remake.
LEMMA VerdictKept ==
    ASSUME Verdict, phase = "make", phase' = phase, exit' = exit,
           ~AllPassed' => G("regr") \in ood' \cap todo'
    PROVE  Verdict'
<1>1. exit # "ok"
  BY DEF Verdict
<1>. QED
  BY <1>1 DEF Verdict

\* The targets stay targets of the tests.
LEMMA AgendaKept ==
    ASSUME md'.tests = md.tests, ood' \subseteq Targets, todo' \subseteq Targets,
           DOMAIN job' \subseteq todo', IsFiniteSet(DOMAIN job'), Cardinality(DOMAIN job') <= Jobs,
           \A g \in DOMAIN job' : Runs(g, job'[g])
    PROVE  Agenda'
  BY SameTests DEF Agenda

\* Nobody takes the lock, and what is finished has its fields in the metadata.
LEMMA LockKept ==
    ASSUME Lock, Updated, md.fields \subseteq md'.fields,
           \/ md'.fields = md.fields
           \/ \A h \in DOMAIN job' : job'[h].at \notin {"held", "export"},
           \A h \in DOMAIN job' :
              \/ h \in DOMAIN job /\ job'[h] = job[h]
              \/ /\ job'[h].at \notin {"held", "export"}
                 /\ job'[h].at = "run" => h.kind \in TestKinds \cup md'.fields,
           \A h \in have' : h \in have \/ h.kind \in TestKinds \cup {"cfg"} \cup md'.fields \/ At(h, "run")
    PROVE  Lock' /\ Updated'
<1>1. \A h \in DOMAIN job' : Holds(h)' => /\ h \in DOMAIN job /\ job'[h] = job[h] /\ Holds(h)
                                         /\ md'.fields = md.fields
  BY DEF Holds
<1>2. Lock'
  BY <1>1 DEF Lock
<1>3. ASSUME NEW kind \in LockedKinds \ {"cfg"}, G(kind) \in have' \/ At(G(kind), "run")'
      PROVE  kind \in md'.fields
  <2>. DEFINE x == G(kind)
  <2>1. x.kind = kind /\ kind \notin TestKinds \cup {"cfg"} /\ x' = x
    BY DEF G, LockedKinds, TestKinds
  <2>2. x \in have' \/ At(x, "run")'
    BY <1>3
  <2>3. x \in have \/ At(x, "run") => kind \in md'.fields
    BY DEF Updated
  <2>. HIDE DEF x
  <2>4. CASE x \in have'
    BY <2>1, <2>3, <2>4
  <2>5. CASE At(x, "run")'
    <3>1. x \in DOMAIN job' /\ job'[x].at = "run"
      BY <2>1, <2>5 DEF At
    <3>2. x \in DOMAIN job /\ job'[x] = job[x] => At(x, "run")
      BY <3>1 DEF At
    <3>. QED
      BY <2>1, <2>3, <3>1, <3>2
  <2>. QED
    BY <2>2, <2>4, <2>5
<1>4. Updated'
  BY <1>3 DEF Updated
<1>. QED
  BY <1>2, <1>4

\* A simulation still has its inputs before it, and they are current.
LEMMA InputsKept ==
    ASSUME Inputs, Agenda, phase = "make", phase' = phase,
           md'.tests = md.tests, md'.req = md.req, have \subseteq have',
           NEW x \in Targets, x \in todo, todo' \subseteq todo \cup Dependents(x),
           \A h \in DOMAIN job' :
              h.kind = "log" => \/ h \in DOMAIN job
                                \/ /\ h \in Targets /\ ~\E y \in todo : Precedes(y, h)
                                   /\ ~XOptsRaise(md.req.simulator),
           \A h \in ood' : h.kind \in {"tb", "bin"} => h \in todo',
           \A t \in Tests : T("bin", t) \in ood => T("bin", t) \in ood' \cup have',
           G("tb") \notin ood' =>
              \/ G("tb") \notin ood /\ built' = built
              \/ built' = XOpts(md.req.simulator, "compile", known_fields)
    PROVE  Inputs'
<1>1. Tests' = Tests /\ Targets' = Targets /\ \A g, h : Precedes(g, h)' <=> Precedes(g, h)
  BY SameTests
<1>3. InUse
  BY DEF InUse
<1>4. ASSUME NEW g \in DOMAIN job', g.kind = "log"
      PROVE  ~XOptsRaise(md.req.simulator) /\ ~\E h \in todo' : Precedes(h, g)
  <2>1. g \in Targets /\ ~XOptsRaise(md.req.simulator) /\ ~\E y \in todo : Precedes(y, g)
    BY <1>4 DEF Inputs, Agenda
  <2>2. \A h \in Dependents(x) : ~Precedes(h, g)
    BY <1>4, <2>1, PrecedesThrough
  <2>. QED
    BY <2>1, <2>2
<1>5. \A t \in Tests : T("bin", t) \in ood' \cup have'
  BY <1>3 DEF Inputs
<1>6. G("tb") \notin ood' => built' = XOpts(md.req.simulator, "compile", known_fields)
  BY <1>3 DEF Inputs
<1>7. \A g \in DOMAIN job' : g.kind = "log" => /\ ~\E h \in todo' : Precedes(h, g)'
                                             /\ ~XOptsRaise(md'.req.simulator)
  BY <1>1, <1>4
<1>8. built' = XOpts(md.req.simulator, "compile", known_fields) =>
      built' = XOpts(md'.req.simulator, "compile", known_fields)
  OBVIOUS
<1>. QED
  BY <1>1, <1>5, <1>6, <1>7, <1>8 DEF Inputs

\* The scripts that go on while make starts another one.
LEMMA SpawnFacts ==
    ASSUME Agenda, NEW g, Startable(g), NEW at, Spawn(g, at)
    PROVE  /\ DOMAIN job' = DOMAIN job \cup {g} /\ g \in todo /\ g \notin DOMAIN job
           /\ job'[g] = [at |-> at, snap |-> {}, bad |-> FALSE]
           /\ \A h \in DOMAIN job : h # g /\ job'[h] = job[h]
           /\ IsFiniteSet(DOMAIN job') /\ Cardinality(DOMAIN job') <= Jobs
<1>1. DOMAIN job' = DOMAIN job \cup {g} /\ g \in todo /\ g \notin DOMAIN job
  BY DEF Spawn, Startable
<1>2. /\ job'[g] = [at |-> at, snap |-> {}, bad |-> FALSE]
      /\ \A h \in DOMAIN job : h # g /\ job'[h] = job[h]
  BY <1>1 DEF Spawn
<1>3. IsFiniteSet(DOMAIN job) /\ Cardinality(DOMAIN job) < Jobs
  BY DEF Agenda, Startable
<1>4. /\ IsFiniteSet(DOMAIN job \cup {g})
      /\ Cardinality(DOMAIN job \cup {g}) = Cardinality(DOMAIN job) + 1
      /\ Cardinality(DOMAIN job) \in Nat
  BY <1>1, <1>3, FS_AddElement, FS_CardinalityType
<1>. QED
  BY <1>1, <1>2, <1>3, <1>4, JobsAssumption

\* Whether or not the script starts, make stays within its jobs.
LEMMA StartedFacts ==
    ASSUME Agenda, NEW g, Startable(g), NEW at, job' = job \/ Spawn(g, at), todo' = todo
    PROVE  DOMAIN job' \subseteq todo' /\ IsFiniteSet(DOMAIN job') /\ Cardinality(DOMAIN job') <= Jobs
<1>1. CASE job' = job
  BY <1>1 DEF Agenda
<1>2. CASE Spawn(g, at)
  <2>1. DOMAIN job' = DOMAIN job \cup {g} /\ g \in todo /\ DOMAIN job \subseteq todo
    BY <1>2, SpawnFacts DEF Agenda
  <2>. QED
    BY <1>2, <2>1, SpawnFacts
<1>. QED
  BY <1>1, <1>2

\* The scripts that go on when one has ended.
LEMMA ReapFacts ==
    ASSUME Agenda, NEW g \in DOMAIN job, Reap(g)
    PROVE  /\ DOMAIN job' = DOMAIN job \ {g}
           /\ \A h \in DOMAIN job' : h \in DOMAIN job /\ h # g /\ job'[h] = job[h]
           /\ IsFiniteSet(DOMAIN job') /\ Cardinality(DOMAIN job') <= Jobs
           /\ \A h \in DOMAIN job' : Runs(h, job'[h])
           /\ g \in todo /\ g \in Targets /\ Runs(g, job[g])
<1>1. DOMAIN job' = DOMAIN job \ {g} /\ \A h \in DOMAIN job' : job'[h] = job[h]
  BY DEF Reap, Restrict
<1>2. IsFiniteSet(DOMAIN job) /\ Cardinality(DOMAIN job) <= Jobs
  BY DEF Agenda
<1>3. /\ IsFiniteSet(DOMAIN job \ {g})
      /\ Cardinality(DOMAIN job \ {g}) = Cardinality(DOMAIN job) - 1
      /\ Cardinality(DOMAIN job) \in Nat
  BY <1>2, FS_RemoveElement, FS_CardinalityType
<1>. QED
  BY <1>1, <1>2, <1>3, JobsAssumption DEF Agenda

\* Nothing has happened.
LEMMA InitIInv == Init => IInv
<1>. SUFFICES ASSUME Init PROVE IInv
  OBVIOUS
<1>. USE DEF Init, NoMd
<1>1. DOMAIN trr = {} /\ DOMAIN job = {} /\ Tests = {}
  BY DEF Tests, Range
<1>2. Records
  BY <1>1 DEF Records
<1>3. Phases
  BY DEF Phases
<1>4. Agenda
  BY <1>1, FS_EmptySet, JobsAssumption DEF Agenda
<1>5. Lock /\ Updated /\ Judged
  BY <1>1 DEF Lock, Updated, Judged, VerdictOfLog, At
<1>6. Verdict /\ Inputs
  BY <1>1 DEF Verdict, Inputs, InUse
<1>. QED
  BY <1>2, <1>3, <1>4, <1>5, <1>6 DEF IInv
-------------------------------------------------------------------------------
(* The steps of make *)

\* A target that was remade, as far as the inputs of the simulations go.
LEMMA RemadeFacts ==
    ASSUME Agenda, Inputs, phase = "make", NEW g \in todo, Remade(g)
    PROVE  /\ g \in Targets /\ ood' \subseteq Targets /\ todo' \subseteq Targets
           /\ todo' \subseteq todo \cup Dependents(g) /\ todo \ {g} \subseteq todo'
           /\ \A h \in ood' : h.kind \in {"tb", "bin"} => h \in todo'
           /\ ood \ {g} \subseteq ood'
           /\ \A k : k # g.kind => (G(k) \in ood => G(k) \in ood') /\ (G(k) \in todo => G(k) \in todo')
<1>1. g \in Targets /\ Dependents(g) \subseteq Targets
  BY DependentsAreTargets DEF Agenda
<1>2. ood' = (ood \ {g}) \cup Dependents(g) /\ todo' = (todo \ {g}) \cup Dependents(g)
  BY DEF Remade
<1>3. \A h \in ood : h.kind \in {"tb", "bin"} => h \in todo
  BY DEF Inputs
<1>4. \A k : G(k).kind = k
  BY DEF G
<1>. QED
  BY <1>1, <1>2, <1>3, <1>4 DEF Agenda

\* fcov and cov are only touched.
LEMMA TouchStep ==
    ASSUME IInv, NEW g \in todo, Touch(g)
    PROVE  IInv'
<1>. USE DEF IInv
<1>1. /\ phase = "make" /\ phase' = phase /\ exit' = exit /\ md' = md /\ job' = job
      /\ UNCHANGED results /\ have' = have /\ built' = built /\ Remade(g)
      /\ g.kind \in {"fcov", "cov"} /\ g \notin DOMAIN job
  BY DEF Touch, Startable, Touches, quiet
<1>2. /\ g \in Targets /\ ood' \subseteq Targets /\ todo' \subseteq Targets
      /\ todo' \subseteq todo \cup Dependents(g) /\ todo \ {g} \subseteq todo'
      /\ \A h \in ood' : h.kind \in {"tb", "bin"} => h \in todo'
      /\ ood \ {g} \subseteq ood'
      /\ (G("regr") \in ood => G("regr") \in ood') /\ (G("regr") \in todo => G("regr") \in todo')
      /\ (G("tb") \in ood => G("tb") \in ood')
  BY <1>1, RemadeFacts
<1>3. md.st \in {"torn", "good"}
  BY <1>1 DEF Records, Phases
<1>4. Records' /\ Judged' /\ (AllPassed' <=> AllPassed)
  BY <1>1, <1>3, RecordsKept DEF Records
<1>5. Phases'
  BY <1>1, <1>3, PhasesKept
<1>6. Agenda'
  BY <1>1, <1>2, AgendaKept DEF Agenda
<1>7. Lock' /\ Updated'
  BY <1>1, LockKept
<1>8. Verdict'
  <2>1. ~AllPassed => G("regr") \in ood \cap todo
    BY <1>1 DEF Verdict, InUse
  <2>. QED
    BY <1>1, <1>2, <1>4, <2>1, VerdictKept
<1>9. Inputs'
  <2>1. \A t \in Tests : T("bin", t) # g
    BY <1>1 DEF T
  <2>. QED
    BY <1>1, <1>2, <2>1, InputsKept
<1>. QED
  BY <1>4, <1>5, <1>6, <1>7, <1>8, <1>9

\* A script that will lock the metadata starts, or raises before that.
LEMMA StartLockedStep ==
    ASSUME IInv, NEW g \in todo, StartLocked(g)
    PROVE  IInv'
<1>. USE DEF IInv
<1>1. /\ phase = "make" /\ phase' = phase /\ exit' = exit /\ md' = md /\ ood' = ood /\ todo' = todo
      /\ UNCHANGED results /\ have' = have /\ built' = built /\ Startable(g)
      /\ g.kind \in LockedKinds /\ (job' = job \/ Spawn(g, "wait"))
  BY DEF StartLocked, Failed, Startable, quiet
<1>2. md.st \in {"torn", "good"} /\ g \in Targets /\ g.kind \notin TestKinds
  BY <1>1 DEF Records, Phases, Agenda, LockedKinds, TestKinds
<1>3. \A h \in DOMAIN job' : \/ h \in DOMAIN job /\ job'[h] = job[h]
                             \/ h = g /\ job'[h] = [at |-> "wait", snap |-> {}, bad |-> FALSE]
  BY <1>1, SpawnFacts
<1>4. Records' /\ Judged' /\ (AllPassed' <=> AllPassed)
  BY <1>1, <1>2, RecordsKept DEF Records
<1>5. Phases'
  BY <1>1, <1>2, PhasesKept
<1>6. Agenda'
  <2>1. DOMAIN job' \subseteq todo' /\ IsFiniteSet(DOMAIN job') /\ Cardinality(DOMAIN job') <= Jobs
    BY <1>1, StartedFacts
  <2>2. Runs(g, [at |-> "wait", snap |-> {}, bad |-> FALSE])
    BY <1>2 DEF Runs, JobState
  <2>3. \A h \in DOMAIN job' : Runs(h, job'[h])
    BY <1>2, <1>3, <2>2 DEF Agenda
  <2>4. ood' \subseteq Targets /\ todo' \subseteq Targets /\ md'.tests = md.tests
    BY <1>1 DEF Agenda
  <2>. QED
    BY <2>1, <2>3, <2>4, AgendaKept
<1>7. Lock' /\ Updated'
  <2>1. \A h \in DOMAIN job' : \/ h \in DOMAIN job /\ job'[h] = job[h]
                               \/ /\ job'[h].at \notin {"held", "export"}
                                  /\ job'[h].at = "run" => h.kind \in TestKinds \cup md'.fields
    BY <1>3
  <2>. QED
    BY <1>1, <2>1, LockKept
<1>8. Verdict'
  <2>1. ~AllPassed => G("regr") \in ood \cap todo
    BY <1>1 DEF Verdict, InUse
  <2>. QED
    BY <1>1, <1>4, <2>1, VerdictKept
<1>9. Inputs'
  <2>1. \A h \in DOMAIN job' : h.kind = "log" => h \in DOMAIN job
    BY <1>2, <1>3 DEF TestKinds
  <2>2. \A h \in ood' : h.kind \in {"tb", "bin"} => h \in todo'
    BY <1>1 DEF Inputs
  <2>. QED
    BY <1>1, <1>2, <2>1, <2>2, InputsKept
<1>. QED
  BY <1>4, <1>5, <1>6, <1>7, <1>8, <1>9

\* The script of a test starts: before a simulation nothing that it is made
\* from is left to remake.
LEMMA StartTestStep ==
    ASSUME IInv, NEW g \in todo, StartTest(g)
    PROVE  IInv'
<1>. USE DEF IInv
<1>1. /\ phase = "make" /\ phase' = phase /\ exit' = exit /\ md' = md /\ todo' = todo
      /\ UNCHANGED results /\ have' = have /\ built' = built /\ Startable(g) /\ CanStart(g)
      /\ g.kind \in TestKinds
      /\ ood' = ood \/ ood' = Exported(ood, g)
      /\ job' = job \/ (Spawn(g, "run") /\ ~ScriptRaises(g))
  BY DEF StartTest, Failed, Startable, quiet
<1>2. md.st \in {"torn", "good"} /\ g \in Targets
  BY <1>1 DEF Records, Phases, Agenda
<1>3. \A h \in DOMAIN job' : \/ h \in DOMAIN job /\ job'[h] = job[h]
                             \/ /\ h = g /\ job'[h] = [at |-> "run", snap |-> {}, bad |-> FALSE]
                                /\ ~ScriptRaises(g)
  <2>1. CASE job' = job
    BY <2>1
  <2>2. CASE Spawn(g, "run") /\ ~ScriptRaises(g)
    <3>1. /\ DOMAIN job' = DOMAIN job \cup {g} /\ \A h \in DOMAIN job : job'[h] = job[h]
          /\ job'[g] = [at |-> "run", snap |-> {}, bad |-> FALSE]
      BY <1>1, <2>2, SpawnFacts
    <3>. QED
      BY <2>2, <3>1
  <2>. QED
    BY <1>1, <2>1, <2>2
<1>4. Records' /\ Judged' /\ (AllPassed' <=> AllPassed)
  BY <1>1, <1>2, RecordsKept DEF Records
<1>5. Phases'
  BY <1>1, <1>2, PhasesKept
<1>10. /\ ood' \subseteq Targets
       /\ \A h \in ood' : h.kind \in {"tb", "bin"} => h \in ood
       /\ \A h \in ood : h.kind # "trr" => h \in ood'
  <2>1. G("fcov") \in Targets /\ G("regr") \in Targets /\ ood \subseteq Targets
    BY TargetsOfTests DEF Agenda
  <2>2. T("trr", g).kind = "trr" /\ G("fcov").kind = "fcov" /\ G("regr").kind = "regr"
    BY DEF T, G
  <2>. QED
    BY <1>1, <2>1, <2>2 DEF Exported
<1>6. Agenda'
  <2>1. DOMAIN job' \subseteq todo' /\ IsFiniteSet(DOMAIN job') /\ Cardinality(DOMAIN job') <= Jobs
    BY <1>1, StartedFacts
  <2>2. Runs(g, [at |-> "run", snap |-> {}, bad |-> FALSE])
    BY <1>1 DEF Runs, JobState, TestKinds
  <2>3. \A h \in DOMAIN job' : Runs(h, job'[h])
    BY <1>2, <1>3, <2>2 DEF Agenda
  <2>4. todo' \subseteq Targets /\ md'.tests = md.tests
    BY <1>1 DEF Agenda
  <2>. QED
    BY <2>1, <2>3, <2>4, <1>10, AgendaKept
<1>7. Lock' /\ Updated'
  <2>1. \A h \in DOMAIN job' : \/ h \in DOMAIN job /\ job'[h] = job[h]
                               \/ /\ job'[h].at \notin {"held", "export"}
                                  /\ job'[h].at = "run" => h.kind \in TestKinds \cup md'.fields
    BY <1>1, <1>3
  <2>. QED
    BY <1>1, <2>1, LockKept
<1>8. Verdict'
  <2>1. ~AllPassed => G("regr") \in ood \cap todo
    BY <1>1 DEF Verdict, InUse
  <2>2. G("regr").kind # "trr"
    BY DEF G
  <2>. QED
    BY <1>1, <1>4, <1>10, <2>1, <2>2, VerdictKept
<1>9. Inputs'
  <2>1. \A h \in DOMAIN job' :
           h.kind = "log" => \/ h \in DOMAIN job
                             \/ /\ h \in Targets /\ ~\E y \in todo : Precedes(y, h)
                                /\ ~XOptsRaise(md.req.simulator)
    <3>1. g.kind = "log" /\ ~ScriptRaises(g) => ~XOptsRaise(md.req.simulator)
      BY DEF ScriptRaises, NoCommand
    <3>. QED
      BY <1>1, <1>2, <1>3, <3>1 DEF CanStart
  <2>2. \A h \in ood' : h.kind \in {"tb", "bin"} => h \in todo'
    BY <1>1, <1>10 DEF Inputs
  <2>3. G("tb").kind = "tb" /\ \A t : T("bin", t).kind = "bin"
    BY DEF G, T
  <2>4. (\A t \in Tests : T("bin", t) \in ood => T("bin", t) \in ood') /\ (G("tb") \in ood => G("tb") \in ood')
    BY <1>10, <2>3
  <2>. QED
    BY <1>1, <1>2, <2>1, <2>2, <2>4, InputsKept
<1>. QED
  BY <1>4, <1>5, <1>6, <1>7, <1>8, <1>9
-------------------------------------------------------------------------------
(* The steps of the scripts *)

\* While a script runs make is in its second phase, and there is metadata.
LEMMA InMake ==
    ASSUME IInv, NEW g \in DOMAIN job
    PROVE  /\ phase = "make" /\ md.st \in {"torn", "good"} /\ g \in todo /\ g \in Targets
           /\ Runs(g, job[g])
           /\ ~AllPassed => G("regr") \in ood \cap todo
<1>1. phase = "make"
  <2>1. DOMAIN <<>> = {}
    OBVIOUS
  <2>. QED
    BY <2>1 DEF IInv, Phases
<1>2. md.st \in {"torn", "good"}
  BY <1>1 DEF IInv, Phases, Records
<1>3. g \in todo /\ g \in Targets /\ Runs(g, job[g])
  BY DEF IInv, Agenda
<1>. QED
  BY <1>1, <1>2, <1>3 DEF IInv, Verdict, InUse

\* A recipe that fails, with or without its script still running.
LEMMA FailedStep ==
    ASSUME IInv, NEW g \in DOMAIN job, Reap(g), Failed,
           UNCHANGED <<quiet, results, have, built, ood>>,
           DOMAIN md' = DOMAIN md, md'.tests = md.tests, md'.req = md.req,
           md.fields \subseteq md'.fields, md'.fields \subseteq LockedKinds,
           md'.fields = md.fields \/ Holds(g), md'.st \in {"torn", "good"}
    PROVE  IInv'
<1>. USE DEF IInv
<1>1. /\ phase = "make" /\ phase' = phase /\ exit' = exit /\ ood' = ood /\ todo' = todo
      /\ UNCHANGED results /\ have' = have /\ built' = built
      /\ md.st \in {"torn", "good"} /\ g \in todo /\ g \in Targets
      /\ ~AllPassed => G("regr") \in ood \cap todo
  BY InMake DEF Failed, quiet
<1>2. /\ DOMAIN job' = DOMAIN job \ {g}
      /\ \A h \in DOMAIN job' : h \in DOMAIN job /\ h # g /\ job'[h] = job[h]
      /\ IsFiniteSet(DOMAIN job') /\ Cardinality(DOMAIN job') <= Jobs
      /\ \A h \in DOMAIN job' : Runs(h, job'[h])
  BY ReapFacts
<1>3. Records' /\ Judged' /\ (AllPassed' <=> AllPassed)
  BY <1>1, RecordsKept DEF Records
<1>4. Phases'
  BY <1>1, PhasesKept
<1>5. Agenda'
  BY <1>1, <1>2, AgendaKept DEF Agenda
<1>6. Lock' /\ Updated'
  <2>1. Holds(g) => \A h \in DOMAIN job' : job'[h].at \notin {"held", "export"}
    BY <1>2 DEF Lock, Holds
  <2>. QED
    BY <1>1, <1>2, <2>1, LockKept
<1>7. Verdict'
  BY <1>1, <1>3, VerdictKept
<1>8. Inputs'
  <2>1. \A h \in ood' : h.kind \in {"tb", "bin"} => h \in todo'
    BY <1>1 DEF Inputs
  <2>. QED
    BY <1>1, <1>2, <2>1, InputsKept
<1>. QED
  BY <1>3, <1>4, <1>5, <1>6, <1>7, <1>8

\* A script finds the lock free and reads the metadata.
LEMMA LockedEnterStep ==
    ASSUME IInv, NEW g \in DOMAIN job, LockedEnter(g)
    PROVE  IInv'
<1>. USE DEF IInv
<1>1. /\ phase = "make" /\ phase' = phase /\ exit' = exit /\ ood' = ood /\ todo' = todo
      /\ UNCHANGED results /\ have' = have /\ built' = built /\ md' = md
      /\ md.st \in {"torn", "good"} /\ g \in todo /\ g \in Targets /\ Runs(g, job[g])
      /\ ~AllPassed => G("regr") \in ood \cap todo
      /\ job[g].at = "wait" /\ \A h \in DOMAIN job : ~Holds(h)
  BY InMake DEF LockedEnter, quiet, At, LockFree
<1>2. PICK bad \in BOOLEAN : job' = [job EXCEPT ![g] = [at |-> "held", snap |-> md.fields, bad |-> bad]]
  <2>1. PICK failed \in PkgConfigFails(g) :
          job' = [job EXCEPT ![g] = [at |-> "held", snap |-> md.fields,
                                     bad |-> failed \/ BodyRaises(g, md.fields)]]
    BY DEF LockedEnter
  <2>2. (failed \/ BodyRaises(g, md.fields)) \in BOOLEAN
    OBVIOUS
  <2>. QED
    BY <2>1, <2>2
<1>3. /\ DOMAIN job' = DOMAIN job
      /\ job'[g] = [at |-> "held", snap |-> md.fields, bad |-> bad]
      /\ \A h \in DOMAIN job : h # g => job'[h] = job[h]
  BY <1>2
<1>4. Records' /\ Judged' /\ (AllPassed' <=> AllPassed)
  BY <1>1, RecordsKept DEF Records
<1>5. Phases'
  BY <1>1, PhasesKept
<1>6. Agenda'
  <2>1. Runs(g, job'[g])
    BY <1>1, <1>3 DEF Runs, JobState, Records
  <2>2. \A h \in DOMAIN job' : Runs(h, job'[h])
    BY <1>3, <2>1 DEF Agenda
  <2>. QED
    BY <1>1, <1>3, <2>2, AgendaKept DEF Agenda
<1>7. Lock'
  <2>1. \A h \in DOMAIN job' : Holds(h)' => h = g
    BY <1>1, <1>3 DEF Holds
  <2>. QED
    BY <1>1, <1>3, <2>1 DEF Lock
<1>8. Updated'
  <2>1. \A x : At(x, "run")' => At(x, "run")
    <3>. SUFFICES ASSUME NEW x, x \in DOMAIN job', job'[x].at = "run" PROVE At(x, "run")
      BY DEF At
    <3>1. x # g
      BY <1>3
    <3>. QED
      BY <1>3, <3>1 DEF At
  <2>. QED
    BY <1>1, <2>1 DEF Updated
<1>9. Verdict'
  BY <1>1, <1>4, VerdictKept
<1>10. Inputs'
  <2>1. \A h \in ood' : h.kind \in {"tb", "bin"} => h \in todo'
    BY <1>1 DEF Inputs
  <2>. QED
    BY <1>1, <1>3, <2>1, InputsKept
<1>. QED
  BY <1>4, <1>5, <1>6, <1>7, <1>8, <1>9, <1>10

\* The alarm of a script that waits for the lock goes off.
LEMMA LockTimeoutStep ==
    ASSUME IInv, NEW g \in DOMAIN job, LockTimeout(g)
    PROVE  IInv'
<1>1. md.st \in {"torn", "good"} /\ md' = md /\ md.fields \subseteq LockedKinds
  BY InMake DEF LockTimeout, IInv, Records
<1>. QED
  BY <1>1, FailedStep DEF LockTimeout

\* A script opens the metadata to write it.
LEMMA ExportMdStep ==
    ASSUME IInv, NEW g \in DOMAIN job, ExportMd(g)
    PROVE  IInv'
<1>. USE DEF IInv
<1>1. /\ phase = "make" /\ phase' = phase /\ exit' = exit /\ ood' = ood /\ todo' = todo
      /\ UNCHANGED results /\ have' = have /\ built' = built
      /\ md.st \in {"torn", "good"} /\ g \in todo /\ g \in Targets /\ Runs(g, job[g])
      /\ ~AllPassed => G("regr") \in ood \cap todo
      /\ job[g].at = "held" /\ job' = [job EXCEPT ![g].at = "export"]
      /\ md' = [md EXCEPT !.st = "torn"]
  BY InMake DEF ExportMd, quiet, At
<1>2. /\ DOMAIN job' = DOMAIN job
      /\ job'[g] = [job[g] EXCEPT !.at = "export"]
      /\ \A h \in DOMAIN job : h # g => job'[h] = job[h]
  BY <1>1
<1>3. /\ DOMAIN md' = DOMAIN md /\ md'.tests = md.tests /\ md'.req = md.req
      /\ md'.fields = md.fields /\ md'.st = "torn"
  BY <1>1 DEF Records
<1>4. Records' /\ Judged' /\ (AllPassed' <=> AllPassed)
  BY <1>1, <1>3, RecordsKept DEF Records
<1>5. Phases'
  BY <1>1, <1>3, PhasesKept
<1>6. Agenda'
  <2>1. Runs(g, job'[g])
    BY <1>1, <1>2 DEF Runs, JobState
  <2>2. \A h \in DOMAIN job' : Runs(h, job'[h])
    BY <1>2, <2>1 DEF Agenda
  <2>. QED
    BY <1>1, <1>2, <1>3, <2>2, AgendaKept DEF Agenda
<1>11. job'[g].at = "export" /\ job'[g].snap = job[g].snap
  BY <1>1, <1>2 DEF Runs, JobState
<1>7. Lock'
  <2>1. \A h \in DOMAIN job' : h \in DOMAIN job /\ (Holds(h)' <=> Holds(h)) /\ job'[h].snap = job[h].snap
    BY <1>1, <1>2, <1>11 DEF Holds
  <2>. QED
    BY <1>3, <2>1 DEF Lock
<1>8. Updated'
  <2>1. \A x : At(x, "run")' => At(x, "run")
    <3>. SUFFICES ASSUME NEW x, x \in DOMAIN job', job'[x].at = "run" PROVE At(x, "run")
      BY DEF At
    <3>1. x # g
      BY <1>11
    <3>. QED
      BY <1>2, <3>1 DEF At
  <2>. QED
    BY <1>1, <1>3, <2>1 DEF Updated
<1>9. Verdict'
  BY <1>1, <1>4, VerdictKept
<1>10. Inputs'
  <2>1. \A h \in ood' : h.kind \in {"tb", "bin"} => h \in todo'
    BY <1>1 DEF Inputs
  <2>. QED
    BY <1>1, <1>2, <1>3, <2>1, InputsKept
<1>. QED
  BY <1>4, <1>5, <1>6, <1>7, <1>8, <1>9, <1>10

\* A recipe that succeeds: its script ends, its file is new, and what is made
\* from it will be remade.
LEMMA RemadeStep ==
    ASSUME IInv, NEW g \in DOMAIN job, Reap(g), Remade(g),
           UNCHANGED <<quiet, results>>, have' = have \cup {g},
           DOMAIN md' = DOMAIN md, md'.tests = md.tests, md'.req = md.req,
           md.fields \subseteq md'.fields, md'.fields \subseteq LockedKinds,
           md'.fields = md.fields \/ Holds(g), md'.st \in {"torn", "good"},
           g.kind \in TestKinds \cup {"cfg"} \cup md'.fields \/ job[g].at = "run",
           g.kind = "regr" => AllPassed,
           \/ g.kind # "tb" /\ built' = built
           \/ built' = XOpts(md.req.simulator, "compile", known_fields)
    PROVE  IInv'
<1>. USE DEF IInv
<1>1. /\ phase = "make" /\ phase' = phase /\ exit' = exit
      /\ UNCHANGED results
      /\ md.st \in {"torn", "good"} /\ g \in todo
      /\ ~AllPassed => G("regr") \in ood \cap todo
  BY InMake DEF quiet
<1>2. /\ DOMAIN job' = DOMAIN job \ {g}
      /\ \A h \in DOMAIN job' : h \in DOMAIN job /\ h # g /\ job'[h] = job[h]
      /\ IsFiniteSet(DOMAIN job') /\ Cardinality(DOMAIN job') <= Jobs
      /\ \A h \in DOMAIN job' : Runs(h, job'[h])
  BY ReapFacts
<1>3. /\ g \in Targets /\ ood' \subseteq Targets /\ todo' \subseteq Targets
      /\ todo' \subseteq todo \cup Dependents(g) /\ todo \ {g} \subseteq todo'
      /\ \A h \in ood' : h.kind \in {"tb", "bin"} => h \in todo'
      /\ ood \ {g} \subseteq ood'
      /\ \A k : k # g.kind => (G(k) \in ood => G(k) \in ood') /\ (G(k) \in todo => G(k) \in todo')
  BY <1>1, RemadeFacts
<1>4. Records' /\ Judged' /\ (AllPassed' <=> AllPassed)
  BY <1>1, RecordsKept DEF Records
<1>5. Phases'
  BY <1>1, PhasesKept
<1>6. Agenda'
  <2>1. DOMAIN job' \subseteq todo'
    BY <1>2, <1>3 DEF Agenda
  <2>. QED
    BY <1>2, <1>3, <2>1, AgendaKept
<1>7. Lock' /\ Updated'
  <2>1. Holds(g) => \A h \in DOMAIN job' : job'[h].at \notin {"held", "export"}
    BY <1>2 DEF Lock, Holds
  <2>2. \A h \in have' : h \in have \/ h.kind \in TestKinds \cup {"cfg"} \cup md'.fields \/ At(h, "run")
    BY DEF At
  <2>. QED
    BY <1>2, <2>1, <2>2, LockKept
<1>8. Verdict'
  BY <1>1, <1>3, <1>4, VerdictKept
<1>9. Inputs'
  <2>1. \A t \in Tests : T("bin", t) \in ood => T("bin", t) \in ood' \cup have'
    BY <1>3
  <2>2. G("tb") \notin ood' =>
           \/ G("tb") \notin ood /\ built' = built
           \/ built' = XOpts(md.req.simulator, "compile", known_fields)
    BY <1>3
  <2>. QED
    BY <1>1, <1>2, <1>3, <2>1, <2>2, InputsKept
<1>. QED
  BY <1>4, <1>5, <1>6, <1>7, <1>8, <1>9

\* A script has written the metadata and releases the lock: what it read is
\* still what the file said, so that no field is lost.
LEMMA LockedExitStep ==
    ASSUME IInv, NEW g \in DOMAIN job, LockedExit(g)
    PROVE  IInv'
<1>. USE DEF IInv
<1>1. /\ phase = "make" /\ phase' = phase /\ exit' = exit
      /\ UNCHANGED <<quiet, results>> /\ built' = built
      /\ md.st \in {"torn", "good"} /\ g \in todo /\ g \in Targets /\ Runs(g, job[g])
      /\ ~AllPassed => G("regr") \in ood \cap todo
      /\ job[g].at = "export"
  BY InMake DEF LockedExit, quiet, At
<1>2. Holds(g) /\ job[g].snap = md.fields /\ g.kind \in LockedKinds /\ g = G(g.kind)
  <2>1. Holds(g) /\ g.kind \notin TestKinds
    BY <1>1 DEF Holds, Runs
  <2>. QED
    BY <1>1, <2>1, TargetFacts DEF Lock
<1>3. /\ DOMAIN md' = DOMAIN md /\ md'.tests = md.tests /\ md'.req = md.req /\ md'.st = "good"
      /\ md'.fields = md.fields \cup Sets(g)
  BY <1>2 DEF LockedExit, Records
<1>4. Sets(g) \subseteq LockedKinds /\ (~job[g].bad /\ g.kind # "cfg" => g.kind \in Sets(g))
  BY <1>2 DEF Sets
<1>5. md.fields \subseteq md'.fields /\ md'.fields \subseteq LockedKinds
  BY <1>3, <1>4 DEF Records
<1>6. CASE job[g].bad \/ (g.kind = "regr" /\ ~AllPassed)
  <2>1. Reap(g) /\ Failed /\ UNCHANGED <<have, ood>>
    BY <1>6 DEF LockedExit
  <2>. QED
    BY <1>1, <1>2, <1>3, <1>5, <2>1, FailedStep
<1>7. CASE ~(job[g].bad \/ (g.kind = "regr" /\ ~AllPassed)) /\ g.kind \in {"cfg", "regr"}
  <2>1. Reap(g) /\ Remade(g) /\ have' = have \cup {g}
    BY <1>7 DEF LockedExit
  <2>2. g.kind # "tb" /\ g.kind \in {"cfg"} \cup md'.fields /\ (g.kind = "regr" => AllPassed)
    BY <1>3, <1>4, <1>7
  <2>. QED
    BY <1>1, <1>2, <1>3, <1>5, <2>1, <2>2, RemadeStep
<1>8. CASE ~(job[g].bad \/ (g.kind = "regr" /\ ~AllPassed)) /\ g.kind \notin {"cfg", "regr"}
  <2>1. job' = [job EXCEPT ![g].at = "run"] /\ have' = have /\ ood' = ood /\ todo' = todo
    BY <1>8 DEF LockedExit
  <2>2. /\ DOMAIN job' = DOMAIN job
        /\ job'[g] = [job[g] EXCEPT !.at = "run"] /\ job'[g].at = "run"
        /\ \A h \in DOMAIN job : h # g => job'[h] = job[h]
    BY <1>1, <2>1 DEF Runs, JobState
  <2>3. g.kind \in md'.fields
    BY <1>3, <1>4, <1>8
  <2>4. Records' /\ Judged' /\ (AllPassed' <=> AllPassed)
    BY <1>1, <1>3, <1>5, RecordsKept DEF Records
  <2>5. Phases'
    BY <1>1, <1>3, PhasesKept
  <2>6. Agenda'
    <3>1. Runs(g, job'[g])
      BY <1>1, <1>8, <2>2 DEF Runs, JobState
    <3>2. \A h \in DOMAIN job' : Runs(h, job'[h])
      BY <2>2, <3>1 DEF Agenda
    <3>. QED
      BY <1>3, <2>1, <2>2, <3>2, AgendaKept DEF Agenda
  <2>7. Lock' /\ Updated'
    <3>1. \A h \in DOMAIN job' : job'[h].at \notin {"held", "export"}
      BY <1>2, <2>2 DEF Lock, Holds
    <3>2. \A h \in DOMAIN job' :
              \/ h \in DOMAIN job /\ job'[h] = job[h]
              \/ /\ job'[h].at \notin {"held", "export"}
                 /\ job'[h].at = "run" => h.kind \in TestKinds \cup md'.fields
      BY <2>2, <2>3
    <3>. QED
      BY <1>5, <2>1, <3>1, <3>2, LockKept
  <2>8. Verdict'
    BY <1>1, <2>1, <2>4, VerdictKept
  <2>9. Inputs'
    <3>1. \A h \in ood' : h.kind \in {"tb", "bin"} => h \in todo'
      BY <1>1, <2>1 DEF Inputs
    <3>. QED
      BY <1>1, <1>3, <2>1, <2>2, <3>1, InputsKept
  <2>. QED
    BY <2>4, <2>5, <2>6, <2>7, <2>8, <2>9
<1>. QED
  BY <1>6, <1>7, <1>8

\* The tool that a script runs after its update succeeds or fails.
LEMMA RunToolStep ==
    ASSUME IInv, NEW g \in DOMAIN job, RunTool(g)
    PROVE  IInv'
<1>1. /\ md.st \in {"torn", "good"} /\ md.fields \subseteq LockedKinds /\ md' = md
      /\ UNCHANGED <<quiet, results>> /\ Reap(g) /\ job[g].at = "run" /\ g.kind # "regr"
  BY InMake DEF RunTool, IInv, Records, At, Runs
<1>2. CASE Failed /\ UNCHANGED <<have, built, ood>>
  BY <1>1, <1>2, FailedStep
<1>3. CASE /\ Remade(g) /\ have' = have \cup {g}
           /\ built' = IF g.kind = "tb" THEN XOpts(md.req.simulator, "compile", known_fields) ELSE built
  BY <1>1, <1>3, RemadeStep
<1>. QED
  BY <1>2, <1>3 DEF RunTool

\* The compiler of a test succeeds or fails.
LEMMA CompileTestStep ==
    ASSUME IInv, NEW g \in DOMAIN job, CompileTest(g)
    PROVE  IInv'
<1>1. /\ md.st \in {"torn", "good"} /\ md.fields \subseteq LockedKinds /\ md' = md /\ built' = built
      /\ UNCHANGED <<quiet, results>> /\ Reap(g) /\ g.kind = "bin" /\ g.kind \in TestKinds
  BY InMake DEF CompileTest, IInv, Records, TestKinds
<1>2. CASE Failed /\ UNCHANGED <<have, ood>>
  BY <1>1, <1>2, FailedStep
<1>3. CASE Remade(g) /\ have' = have \cup {g}
  BY <1>1, <1>3, RemadeStep
<1>. QED
  BY <1>2, <1>3 DEF CompileTest

\* The generator, a simulation or the log checker of a test ends, whatever it
\* leaves: none of them disturbs the inputs of another simulation.
LEMMA TestScriptEnds ==
    ASSUME IInv, NEW g \in DOMAIN job, g.kind \in {"S", "log", "trr"}, Reap(g),
           UNCHANGED quiet, md' = md, built' = built, have' \in {have, have \cup {g}},
           todo \ {g} \subseteq todo', todo' \subseteq todo \cup Dependents(g), DOMAIN job' \subseteq todo',
           \A h \in ood : h.kind \notin {"S", "log", "trr"} => h \in ood',
           \A h \in ood' : h \in ood \/ h \in {G("fcov"), G("regr")} \/ h \in Dependents(g) \cap todo'
    PROVE  /\ Phases' /\ Agenda' /\ Lock' /\ Updated' /\ Inputs'
           /\ phase = "make" /\ phase' = phase /\ exit' = exit /\ md.st \in {"torn", "good"}
           /\ g \in Targets
           /\ ~AllPassed => G("regr") \in ood' \cap todo'
<1>. USE DEF IInv
<1>1. /\ phase = "make" /\ phase' = phase /\ exit' = exit /\ md.st \in {"torn", "good"}
      /\ g \in todo /\ g \in Targets
      /\ ~AllPassed => G("regr") \in ood \cap todo
  BY InMake DEF quiet
<1>2. /\ DOMAIN job' = DOMAIN job \ {g}
      /\ \A h \in DOMAIN job' : h \in DOMAIN job /\ h # g /\ job'[h] = job[h]
      /\ IsFiniteSet(DOMAIN job') /\ Cardinality(DOMAIN job') <= Jobs
      /\ \A h \in DOMAIN job' : Runs(h, job'[h])
  BY ReapFacts
<1>3. Phases'
  BY <1>1, PhasesKept
<1>4. Agenda'
  <2>1. ood' \subseteq Targets /\ todo' \subseteq Targets
    BY <1>1, DependentsAreTargets, TargetsOfTests DEF Agenda
  <2>. QED
    BY <1>2, <2>1, AgendaKept
<1>5. Lock' /\ Updated'
  <2>1. \A h \in have' : h \in have \/ h.kind \in TestKinds
    BY DEF TestKinds
  <2>. QED
    BY <1>2, <2>1, LockKept
<1>6. G("regr").kind = "regr" /\ G("tb").kind = "tb" /\ G("fcov").kind = "fcov" /\ \A t : T("bin", t).kind = "bin"
  BY KindOf
<1>7. Inputs'
  <2>1. \A h \in ood' : h.kind \in {"tb", "bin"} => h \in todo'
    <3>1. \A h \in ood : h.kind \in {"tb", "bin"} => h \in todo /\ h # g
      BY <1>1 DEF Inputs
    <3>. QED
      BY <1>6, <3>1
  <2>2. \A t \in Tests : T("bin", t) \in ood => T("bin", t) \in ood'
    BY <1>6
  <2>3. G("tb") \in ood => G("tb") \in ood'
    BY <1>6
  <2>. QED
    BY <1>1, <1>2, <2>1, <2>2, <2>3, InputsKept
<1>8. ~AllPassed => G("regr") \in ood' \cap todo'
  <2>1. G("regr") # g
    BY <1>6
  <2>. QED
    BY <1>1, <1>6, <2>1
<1>. QED
  BY <1>1, <1>3, <1>4, <1>5, <1>7, <1>8

\* What a script that ends leaves running was and is to be remade.
LEMMA StillToDo ==
    ASSUME Agenda, NEW g \in DOMAIN job, Reap(g), todo \ {g} \subseteq todo'
    PROVE  DOMAIN job' \subseteq todo'
  BY ReapFacts DEF Agenda

\* The generator leaves a new test, the old one or none, or its script fails.
LEMMA RunInstrGenStep ==
    ASSUME IInv, NEW g \in DOMAIN job, RunInstrGen(g)
    PROVE  IInv'
<1>1. /\ UNCHANGED quiet /\ UNCHANGED results /\ md' = md /\ built' = built /\ Reap(g) /\ g.kind = "S"
      /\ g \in Targets /\ md.fields \subseteq LockedKinds /\ md.st \in {"torn", "good"}
  BY InMake DEF RunInstrGen, IInv, Records
<1>2. CASE Failed /\ UNCHANGED <<have, ood>>
  BY <1>1, <1>2, FailedStep
<1>3. CASE /\ have' \in {have, have \cup {g}}
           /\ \/ /\ ood' = Exported(ood \ {g}, g) \cup Dependents(g)
                 /\ todo' = (todo \ {g}) \cup Dependents(g)
              \/ /\ ood' = Exported(ood, g)
                 /\ todo' = (todo \ {g}) \cup (IF g \in have THEN {} ELSE Dependents(g))
  <2>1. todo \ {g} \subseteq todo' /\ todo' \subseteq todo \cup Dependents(g)
    BY <1>3
  <2>2. DOMAIN job' \subseteq todo'
    BY <1>1, <2>1, StillToDo DEF IInv
  <2>3. T("trr", g).kind = "trr"
    BY DEF T
  <2>4. /\ \A h \in ood : h.kind \notin {"S", "log", "trr"} => h \in ood'
        /\ \A h \in ood' : h \in ood \/ h \in {G("fcov"), G("regr")} \/ h \in Dependents(g) \cap todo'
    BY <1>1, <1>3, <2>3 DEF Exported
  <2>5. /\ Phases' /\ Agenda' /\ Lock' /\ Updated' /\ Inputs'
        /\ phase = "make" /\ phase' = phase /\ exit' = exit
        /\ ~AllPassed => G("regr") \in ood' \cap todo'
    BY <1>1, <1>3, <2>1, <2>2, <2>4, TestScriptEnds
  <2>6. Records' /\ Judged' /\ (AllPassed' <=> AllPassed)
    BY <1>1, RecordsKept DEF IInv, Records
  <2>7. Verdict'
    BY <2>5, <2>6, VerdictKept DEF IInv
  <2>. QED
    BY <2>5, <2>6, <2>7 DEF IInv
<1>. QED
  BY <1>2, <1>3 DEF RunInstrGen

\* The test of a target has its records.
LEMMA TestOfTarget ==
    ASSUME Records, NEW g \in Targets, g.kind \in TestKinds
    PROVE  Key(g) \in DOMAIN trr
  BY TargetFacts DEF Records

\* Whether all tests have passed is a matter of their records.
LEMMA AllPassedRecords ==
    ASSUME DOMAIN trr = {Key(t) : t \in Tests}
    PROVE  AllPassed <=> \A k \in DOMAIN trr : trr[k].passed = "True"
  BY DEF AllPassed, Trr

\* A simulation ends.  The test is no longer checked, and if it was the first
\* one it cannot have passed before.
LEMMA RunRtlStep ==
    ASSUME IInv, NEW g \in DOMAIN job, RunRtl(g)
    PROVE  IInv'
<1>. DEFINE k == Key(g)
<1>1. /\ UNCHANGED quiet /\ md' = md /\ built' = built /\ Reap(g) /\ g.kind = "log"
      /\ g \in Targets /\ g.kind \in TestKinds
  BY InMake DEF RunRtl, TestKinds
<1>2. PICK o \in Outcomes :
        /\ log' = [log EXCEPT ![k] = RtlLog(o.log, log[k])]
        /\ trace' = [trace EXCEPT ![k] = IF o.trace = Missing THEN trace[k] ELSE o.trace]
        /\ trr' = [trr EXCEPT ![k] = Timed(trr[k], o.timeout)]
        /\ have' = IF o.log # Missing THEN have \cup {g} ELSE have
        /\ ood' = Exported(IF o.log # Missing THEN ood \ {g} ELSE ood, g)
        /\ todo' = (todo \ {g}) \cup (IF o.log # Missing \/ g \notin have THEN Dependents(g) ELSE {})
        /\ sims' = [sims EXCEPT ![k] = IF sims[k] = 0 THEN 1 ELSE 2]
        /\ checked' = checked \ {k}
  BY DEF RunRtl
<1>3. k \in DOMAIN trr
  BY <1>1, TestOfTarget DEF IInv
<1>. HIDE DEF k
<1>4. /\ Phases' /\ Agenda' /\ Lock' /\ Updated' /\ Inputs'
      /\ phase = "make" /\ phase' = phase /\ exit' = exit /\ md.st \in {"torn", "good"}
      /\ ~AllPassed => G("regr") \in ood' \cap todo'
  <2>1. todo \ {g} \subseteq todo' /\ todo' \subseteq todo \cup Dependents(g)
    BY <1>2
  <2>2. DOMAIN job' \subseteq todo'
    BY <1>1, <2>1, StillToDo DEF IInv
  <2>3. T("trr", g).kind = "trr"
    BY KindOf
  <2>4. /\ \A h \in ood : h.kind \notin {"S", "log", "trr"} => h \in ood'
        /\ \A h \in ood' : h \in ood \/ h \in {G("fcov"), G("regr")} \/ h \in Dependents(g) \cap todo'
    BY <1>1, <1>2, <2>3 DEF Exported
  <2>5. have' \in {have, have \cup {g}}
    BY <1>2
  <2>. QED
    BY <1>1, <2>1, <2>2, <2>4, <2>5, TestScriptEnds
<1>5. /\ DOMAIN trr' = DOMAIN trr /\ DOMAIN log' = DOMAIN trr /\ DOMAIN trace' = DOMAIN trr
      /\ DOMAIN sims' = DOMAIN trr
      /\ trr'[k] = Timed(trr[k], o.timeout) /\ log'[k] = RtlLog(o.log, log[k])
      /\ trace'[k] = IF o.trace = Missing THEN trace[k] ELSE o.trace
      /\ sims'[k] = IF sims[k] = 0 THEN 1 ELSE 2
      /\ \A t \in DOMAIN trr : t # k => /\ trr'[t] = trr[t] /\ log'[t] = log[t]
                                       /\ trace'[t] = trace[t] /\ sims'[t] = sims[t]
  BY <1>2, <1>3 DEF IInv, Records
<1>6. trr'[k] \in TrrState /\ trr'[k].passed = trr[k].passed
  BY <1>3, <1>5 DEF Timed, IInv, Records, TrrState
<1>7. log'[k] \in {Missing} \cup LogLines /\ trace'[k] \in {Missing} \cup TraceLines
  <2>1. log[k] \in {Missing} \cup LogLines /\ trace[k] \in {Missing} \cup TraceLines
    BY <1>3 DEF IInv, Records
  <2>2. <<>> \in LogLines
    BY DEF LogLines
  <2>. QED
    BY <1>5, <2>1, <2>2, OutcomesAssumption DEF RtlLog
<1>8. Tests' = Tests /\ {Key(t) : t \in Tests}' = {Key(t) : t \in Tests}
  <2>1. Tests' = Tests
    BY <1>1, SameTests
  <2>. QED
    BY <2>1 DEF Key
<1>9. Records'
  <2>1. \A t \in DOMAIN trr' : /\ trr'[t] \in TrrState
                               /\ log'[t] \in {Missing} \cup LogLines
                               /\ trace'[t] \in {Missing} \cup TraceLines
                               /\ sims'[t] \in {0, 1, 2}
    BY <1>5, <1>6, <1>7 DEF IInv, Records
  <2>2. DOMAIN trr' = {Key(t) : t \in Tests}'
    BY <1>5, <1>8 DEF IInv, Records
  <2>3. checked' \subseteq DOMAIN trr'
    BY <1>2, <1>5 DEF IInv, Records
  <2>. QED
    BY <1>1, <1>5, <2>1, <2>2, <2>3 DEF IInv, Records
<1>10. AllPassed' <=> AllPassed
  <2>1. AllPassed <=> \A t \in DOMAIN trr : trr[t].passed = "True"
    BY AllPassedRecords DEF IInv, Records
  <2>2. AllPassed' <=> \A t \in DOMAIN trr' : trr'[t].passed = "True"
    BY <1>9 DEF AllPassed, Trr, Key, Records
  <2>. QED
    BY <1>3, <1>5, <1>6, <2>1, <2>2
<1>11. Judged'
  <2>1. \A t \in DOMAIN trr' : sims'[t] = 0 => log'[t] = Missing /\ trr'[t].passed # "True"
    BY <1>5 DEF IInv, Judged
  <2>2. \A t \in DOMAIN trr' : sims'[t] = 1 /\ trr'[t].passed = "True" => t \in checked'
    BY <1>2, <1>3, <1>5, <1>6 DEF IInv, Judged
  <2>3. \A t \in checked' : t \in DOMAIN trr /\ t # k /\ t \in checked
    BY <1>2 DEF IInv, Records
  <2>4. \A t \in checked' : LogPasses(t)' <=> LogPasses(t)
    BY <1>5, <2>3 DEF LogPasses
  <2>5. VerdictOfLog'
    BY <1>5, <2>3, <2>4 DEF IInv, Judged, VerdictOfLog
  <2>6. won' = won
    BY DEF RunRtl
  <2>7. \A t \in DOMAIN trr' : trr'[t].passed = "True" => t \in won'
    BY <1>5, <1>6, <2>6 DEF IInv, Judged
  <2>. QED
    BY <2>1, <2>2, <2>5, <2>7 DEF Judged
<1>12. Verdict'
  BY <1>4, <1>10, VerdictKept DEF IInv
<1>. QED
  BY <1>4, <1>9, <1>11, <1>12 DEF IInv

\* The log checker gives a test its verdict, or raises an exception.
LEMMA CheckLogsStep ==
    ASSUME IInv, NEW g \in DOMAIN job, CheckLogs(g)
    PROVE  IInv'
<1>. DEFINE k == Key(g)
            r == compare_test_run(trr[k], trace[k], log[k])
<1>1. /\ UNCHANGED quiet /\ md' = md /\ built' = built /\ have' = have /\ Reap(g) /\ g.kind = "trr"
      /\ g \in Targets /\ g.kind \in TestKinds
      /\ log' = log /\ trace' = trace /\ sims' = sims
      /\ md.fields \subseteq LockedKinds /\ md.st \in {"torn", "good"}
  BY InMake DEF CheckLogs, TestKinds, IInv, Records
<1>2. CASE Failed /\ UNCHANGED <<trr, checked, won, ood>>
  BY <1>1, <1>2, FailedStep DEF results, history
<1>3. CASE /\ trr' = [trr EXCEPT ![k] = r] /\ checked' = checked \cup {k} /\ Remade(g)
           /\ won' = IF LogPasses(k) THEN won \cup {k} ELSE won
  <2>1. k \in DOMAIN trr
    BY <1>1, TestOfTarget DEF IInv
  <2>2. /\ r \in TrrState
        /\ sims[k] = 0 => r.passed # "True"
        /\ r.passed = "True" => trr[k].passed = "True" \/ LogPasses(k)
        /\ sims[k] = 1 => (r.passed = "True" <=> LogPasses(k) /\ r.failure_mode # "TIMEOUT")
    BY <2>1, VerdictIsThatOfLog DEF IInv
  <2>. HIDE DEF k, r
  <2>3. /\ DOMAIN trr' = DOMAIN trr /\ trr'[k] = r
        /\ \A t \in DOMAIN trr : t # k => trr'[t] = trr[t]
    BY <1>3, <2>1
  <2>4. /\ todo \ {g} \subseteq todo' /\ todo' \subseteq todo \cup Dependents(g)
        /\ Dependents(g) \subseteq ood' \cap todo'
        /\ ood \ {g} \subseteq ood' /\ ood' \subseteq ood \cup Dependents(g)
    BY <1>3 DEF Remade
  <2>5. DOMAIN job' \subseteq todo'
    BY <1>1, <2>4, StillToDo DEF IInv
  <2>6. /\ Phases' /\ Agenda' /\ Lock' /\ Updated' /\ Inputs'
        /\ phase = "make" /\ phase' = phase /\ exit' = exit
    <3>1. /\ \A h \in ood : h.kind \notin {"S", "log", "trr"} => h \in ood'
          /\ \A h \in ood' : h \in ood \/ h \in Dependents(g) \cap todo'
      BY <1>1, <2>4
    <3>. QED
      BY <1>1, <2>4, <2>5, <3>1, TestScriptEnds
  <2>7. Records'
    <3>1. {Key(t) : t \in Tests}' = {Key(t) : t \in Tests}
      BY <1>1, SameTests DEF Key
    <3>. QED
      BY <1>1, <1>3, <2>1, <2>2, <2>3, <3>1 DEF IInv, Records
  <2>8. Judged'
    <3>1. \A t \in DOMAIN trr' : sims'[t] = 0 => log'[t] = Missing /\ trr'[t].passed # "True"
      BY <1>1, <2>2, <2>3 DEF IInv, Judged
    <3>2. \A t \in DOMAIN trr' : sims'[t] = 1 /\ trr'[t].passed = "True" => t \in checked'
      BY <1>1, <1>3, <2>3 DEF IInv, Judged
    <3>3. \A t : LogPasses(t)' <=> LogPasses(t)
      BY <1>1 DEF LogPasses
    <3>4. ASSUME NEW t \in checked', sims'[t] = 1
          PROVE  trr'[t].passed = "True" <=> LogPasses(t)' /\ trr'[t].failure_mode # "TIMEOUT"
      <4>1. CASE t = k
        BY <1>1, <2>2, <2>3, <3>3, <3>4, <4>1
      <4>2. CASE t # k
        <5>1. t \in checked /\ t \in DOMAIN trr /\ sims[t] = 1
          BY <1>1, <1>3, <3>4, <4>2 DEF IInv, Records
        <5>2. trr[t].passed = "True" <=> LogPasses(t) /\ trr[t].failure_mode # "TIMEOUT"
          BY <5>1 DEF IInv, Judged, VerdictOfLog
        <5>. QED
          BY <2>3, <3>3, <4>2, <5>1, <5>2
      <4>. QED
        BY <4>1, <4>2
    <3>5. VerdictOfLog'
      BY <3>4 DEF VerdictOfLog
    <3>6. ASSUME NEW t \in DOMAIN trr', trr'[t].passed = "True"
          PROVE  t \in won'
      <4>1. CASE t = k
        <5>1. k \in won \/ LogPasses(k)
          BY <2>1, <2>2, <2>3, <3>6, <4>1 DEF IInv, Judged
        <5>. QED
          BY <1>3, <4>1, <5>1
      <4>2. CASE t # k
        <5>1. t \in won
          BY <2>3, <3>6, <4>2 DEF IInv, Judged
        <5>. QED
          BY <1>3, <5>1
      <4>. QED
        BY <4>1, <4>2
    <3>. QED
      BY <3>1, <3>2, <3>5, <3>6 DEF Judged
  <2>9. Verdict'
    <3>1. G("regr") \in Dependents(g)
      BY <1>1 DEF Dependents
    <3>. QED
      BY <2>4, <2>6, <3>1, VerdictKept DEF IInv
  <2>. QED
    BY <2>6, <2>7, <2>8, <2>9 DEF IInv
<1>. QED
  BY <1>2, <1>3 DEF CheckLogs
-------------------------------------------------------------------------------
(* The steps between two makes *)

\* Without a script the lock is free, and the fields are those of the files.
LEMMA NoJobs ==
    ASSUME job' = <<>>, Updated, md.fields \subseteq md'.fields,
           \A h \in have' : h \in have \/ h.kind \in TestKinds
    PROVE  Lock' /\ Updated'
<1>1. DOMAIN job' = {}
  OBVIOUS
<1>2. Lock'
  BY <1>1 DEF Lock
<1>3. \A kind \in LockedKinds \ {"cfg"} : G(kind) \in have' => kind \in md'.fields
  <2>1. \A kind \in LockedKinds : G(kind).kind = kind /\ kind \notin TestKinds
    BY DEF G, LockedKinds, TestKinds
  <2>. QED
    BY <2>1 DEF Updated
<1>4. \A x : ~At(x, "run")'
  BY <1>1 DEF At
<1>5. Updated'
  BY <1>3, <1>4 DEF Updated
<1>. QED
  BY <1>2, <1>5

\* The agenda of make is empty.
LEMMA NoAgenda ==
    ASSUME job' = <<>>, todo' = {}, (ood \subseteq Targets)'
    PROVE  Agenda'
<1>1. DOMAIN job' = {}
  OBVIOUS
<1>. QED
  BY <1>1, FS_EmptySet, JobsAssumption DEF Agenda

\* A step that leaves the metadata, the records and the files alone, and the
\* verdict of the last make where no make is running.
LEMMA QuietStep ==
    ASSUME IInv, UNCHANGED <<files, history>>, job' = <<>>, todo' = {},
           phase' \in {"idle", "gen", "parse"},
           phase' = "parse" => md.st # "absent",
           exit' \in {"none", "ok", "fail", "killed"},
           exit' = "ok" => phase' \in {"idle", "gen"} /\ (md.st = "good" => AllPassed)
    PROVE  IInv'
<1>. USE DEF IInv
<1>1. /\ md' = md /\ trr' = trr /\ have' = have /\ log' = log /\ trace' = trace /\ built' = built
      /\ ood' = ood /\ sims' = sims /\ checked' = checked /\ won' = won
  BY DEF files, history
<1>2. Tests' = Tests /\ Targets' = Targets /\ DOMAIN job' = {}
  BY <1>1, SameTests
<1>3. Records' /\ (AllPassed' <=> AllPassed)
  BY <1>1, <1>2 DEF Records, Key, AllPassed, Trr
<1>4. Phases'
  BY <1>1 DEF Phases
<1>5. Agenda'
  BY <1>1, <1>2, NoAgenda DEF Agenda
<1>6. Lock' /\ Updated'
  BY <1>1, NoJobs
<1>7. Judged'
  <2>1. VerdictOfLog' <=> VerdictOfLog
    BY <1>1 DEF VerdictOfLog, LogPasses
  <2>. QED
    BY <1>1, <2>1 DEF Judged
<1>8. InUse' => InUse
  BY <1>1 DEF InUse
<1>9. Verdict'
  BY <1>1, <1>3, <1>8 DEF Verdict
<1>10. Inputs'
  BY <1>1, <1>2, <1>8 DEF Inputs
<1>. QED
  BY <1>3, <1>4, <1>5, <1>6, <1>7, <1>9, <1>10

\* gen_testlist.py starts and writes.
LEMMA GenSteps ==
    ASSUME IInv, GenStart \/ append_directed_testlist
    PROVE  IInv'
<1>1. /\ UNCHANGED <<files, history>> /\ job' = job /\ todo' = todo /\ exit' = exit
      /\ phase \in {"idle", "gen"} /\ phase' \in {"idle", "gen"}
  BY DEF GenStart, append_directed_testlist
<1>2. job = <<>> /\ todo = {} /\ exit \in {"none", "ok", "fail", "killed"}
      /\ (exit = "ok" => (md.st = "good" => AllPassed))
  BY <1>1 DEF IInv, Phases, Verdict
<1>. QED
  BY <1>1, <1>2, QuietStep

\* make is called: there is metadata, it cannot be created, or it is, with the
\* records of its tests.
LEMMA BeginStep ==
    ASSUME IInv, Begin
    PROVE  IInv'
<1>1. phase = "idle" /\ job' = job /\ todo' = todo /\ job = <<>> /\ todo = {}
  BY DEF Begin, IInv, Phases
<1>2. CASE md.st # "absent"
  <2>1. phase' = "parse" /\ exit' = "none" /\ UNCHANGED <<files, history>>
    BY <1>2 DEF Begin
  <2>. QED
    BY <1>1, <1>2, <2>1, QuietStep
<1>3. CASE md.st = "absent" /\ exit' = "fail" /\ UNCHANGED <<phase, files, history>>
  BY <1>1, <1>3, QuietStep
<1>4. CASE md.st = "absent" /\ ~(exit' = "fail" /\ UNCHANGED <<phase, files, history>>)
  <2>. DEFINE q == Head(plan.calls)
              keys == {Key(x) : x \in Range(NewTests(q))}
  <2>1. /\ md' = [st |-> "torn", req |-> q, items |-> dlist, tests |-> NewTests(q), fields |-> {}]
        /\ trr' = [t \in keys |-> [NoTrr EXCEPT !.st = "good"]]
        /\ log' = [t \in DOMAIN trr' |-> Missing]
        /\ trace' = [t \in DOMAIN trr' |-> Missing]
        /\ sims' = [t \in DOMAIN trr' |-> 0]
        /\ checked' = {}
        /\ phase' = "create" /\ exit' = "none"
        /\ UNCHANGED <<have, built, dumped, ood>>
    BY <1>4 DEF Begin
  <2>2. ood = {} /\ have = {}
    BY <1>4 DEF IInv, Phases
  <2>3. {Key(t) : t \in Tests}' = keys
    BY <2>1 DEF Tests, Key
  <2>. HIDE DEF keys, q
  <2>4. md'.st = "torn" /\ md'.fields = {} /\ DOMAIN md' = {"st", "req", "items", "tests", "fields"}
    BY <2>1
  <2>5. /\ DOMAIN trr' = keys
        /\ \A t \in keys : trr'[t] = [NoTrr EXCEPT !.st = "good"] /\ log'[t] = Missing /\ trace'[t] = Missing
                           /\ sims'[t] = 0
        /\ DOMAIN log' = keys /\ DOMAIN trace' = keys /\ DOMAIN sims' = keys
    BY <2>1
  <2>6. [NoTrr EXCEPT !.st = "good"] \in TrrState /\ [NoTrr EXCEPT !.st = "good"].passed # "True"
    BY DEF NoTrr, TrrState
  <2>7. Records'
    <3>1. checked' \subseteq DOMAIN trr'
      BY <2>1
    <3>. QED
      BY <2>3, <2>4, <2>5, <2>6, <3>1 DEF Records
  <2>8. Phases'
    BY <1>1, <2>1, <2>2, <2>4 DEF Phases
  <2>9. Agenda'
    BY <1>1, <2>1, <2>2, NoAgenda
  <2>10. Lock' /\ Updated'
    <3>1. DOMAIN job' = {} /\ have' = {}
      BY <1>1, <2>1, <2>2
    <3>. QED
      BY <3>1 DEF Lock, Updated, At
  <2>11. Judged'
    BY <2>1, <2>5, <2>6 DEF Judged, VerdictOfLog
  <2>12. Verdict' /\ Inputs'
    <3>1. ~InUse' /\ DOMAIN job' = {}
      BY <1>1, <2>1, <2>4 DEF InUse
    <3>. QED
      BY <2>1, <3>1 DEF Verdict, Inputs
  <2>. QED
    BY <2>7, <2>8, <2>9, <2>10, <2>11, <2>12 DEF IInv
<1>. QED
  BY <1>2, <1>3, <1>4

\* The metadata is complete: everything but the records is to be made.
LEMMA CreatedStep ==
    ASSUME IInv, Created
    PROVE  IInv'
<1>. USE DEF IInv
<1>1. /\ phase = "create" /\ phase' = "parse" /\ exit' = exit /\ md' = [md EXCEPT !.st = "good"]
      /\ ood' = Targets \ TrrTargets /\ UNCHANGED results /\ have' = have /\ built' = built
      /\ job' = <<>> /\ todo' = {} /\ exit # "ok"
  BY DEF Created, results, history, Phases, Verdict
<1>2. /\ DOMAIN md' = DOMAIN md /\ md'.tests = md.tests /\ md'.req = md.req
      /\ md'.fields = md.fields /\ md'.st = "good"
  BY <1>1 DEF Records
<1>3. Records' /\ Judged'
  BY <1>1, <1>2, RecordsKept DEF Records
<1>4. Phases'
  BY <1>1, <1>2 DEF Phases
<1>5. Tests' = Tests /\ Targets' = Targets /\ DOMAIN job' = {}
  BY <1>1, <1>2, SameTests
<1>6. Agenda'
  BY <1>1, <1>5, NoAgenda
<1>7. Lock' /\ Updated'
  BY <1>1, <1>2, NoJobs
<1>8. /\ G("regr") \in ood' /\ G("tb") \in ood'
      /\ \A t \in Tests : T("bin", t) \in ood'
  <2>1. \A h \in TrrTargets : h.kind = "trr"
    BY KindOf DEF TrrTargets
  <2>. QED
    BY <1>1, <2>1, TargetsOfTests, KindOf
<1>9. Verdict'
  BY <1>1, <1>8 DEF Verdict
<1>10. Inputs'
  BY <1>1, <1>5, <1>8 DEF Inputs
<1>. QED
  BY <1>3, <1>4, <1>6, <1>7, <1>9, <1>10

\* The second make reads the metadata and decides what to remake.
LEMMA ParseStep ==
    ASSUME IInv, Parse
    PROVE  IInv'
<1>1. phase = "parse" /\ UNCHANGED <<files, history>> /\ job' = <<>> /\ todo = {} /\ exit # "ok"
  BY DEF Parse, IInv, Phases, Verdict
<1>2. CASE md.st # "good"
  <2>1. phase' = "idle" /\ exit' = "fail" /\ todo' = {}
    BY <1>1, <1>2 DEF Parse
  <2>. QED
    BY <1>1, <2>1, QuietStep
<1>3. CASE md.st = "good"
  <2>. USE DEF IInv
  <2>1. /\ md' = md /\ trr' = trr /\ have' = have /\ log' = log /\ trace' = trace /\ built' = built
        /\ ood' = ood /\ sims' = sims /\ checked' = checked /\ won' = won
    BY <1>1 DEF files, history
  <2>2. phase' = "make" /\ exit' = exit /\ todo' \subseteq Targets /\ ood \subseteq todo'
    <3>1. ood \subseteq Targets
      BY DEF Agenda
    <3>. QED
      BY <1>3, <3>1 DEF Parse
  <2>3. Tests' = Tests /\ Targets' = Targets /\ DOMAIN job' = {}
    BY <1>1, <2>1, SameTests
  <2>4. Records' /\ Judged' /\ (AllPassed' <=> AllPassed)
    BY <1>3, <2>1, RecordsKept DEF Records, results, history
  <2>5. Phases'
    BY <1>3, <2>1, <2>2 DEF Phases
  <2>6. Agenda'
    BY <2>1, <2>2, <2>3, FS_EmptySet, JobsAssumption DEF Agenda
  <2>7. Lock' /\ Updated'
    BY <1>1, <2>1, NoJobs
  <2>8. InUse
    BY <1>3 DEF InUse
  <2>9. Verdict'
    BY <1>1, <2>1, <2>2, <2>4, <2>8 DEF Verdict
  <2>10. Inputs'
    BY <2>1, <2>2, <2>3, <2>8 DEF Inputs
  <2>. QED
    BY <2>4, <2>5, <2>6, <2>7, <2>9, <2>10
<1>. QED
  BY <1>2, <1>3

\* Make ends: with nothing left to remake all tests have passed.
LEMMA EndStep ==
    ASSUME IInv, End
    PROVE  IInv'
<1>1. /\ phase = "make" /\ UNCHANGED <<files, history>> /\ job' = <<>> /\ todo' = {} /\ phase' = "idle"
      /\ (broke \/ todo = {}) /\ exit' = IF broke THEN "fail" ELSE "ok"
  BY DEF End, CanEnd
<1>2. todo = {} => AllPassed
  BY <1>1 DEF IInv, Verdict, InUse
<1>. QED
  BY <1>1, <1>2, QuietStep

\* Everything is removed.
LEMMA CleanStep ==
    ASSUME IInv, Clean
    PROVE  IInv'
<1>1. /\ phase = "idle" /\ phase' = "idle" /\ exit' = exit /\ md' = NoMd
      /\ trr' = <<>> /\ log' = <<>> /\ trace' = <<>> /\ sims' = <<>> /\ checked' = {}
      /\ have' = {} /\ ood' = {} /\ job' = <<>> /\ todo' = {}
      /\ exit \in {"none", "ok", "fail", "killed"}
  BY DEF Clean, IInv, Phases
<1>2. md'.st = "absent" /\ md'.fields = {} /\ DOMAIN md' = {"st", "req", "items", "tests", "fields"}
  BY <1>1 DEF NoMd
<1>3. /\ DOMAIN trr' = {} /\ DOMAIN log' = {} /\ DOMAIN trace' = {} /\ DOMAIN sims' = {}
      /\ DOMAIN job' = {} /\ Tests' = {}
  BY <1>1 DEF Tests, Range, NoMd
<1>4. Records' /\ Judged'
  BY <1>1, <1>2, <1>3 DEF Records, Judged, VerdictOfLog
<1>5. Phases' /\ Agenda'
  BY <1>1, NoAgenda DEF Phases
<1>6. Lock' /\ Updated'
  BY <1>1, <1>3 DEF Lock, Updated, At
<1>7. Verdict' /\ Inputs'
  BY <1>1, <1>2, <1>3 DEF Verdict, Inputs, InUse
<1>. QED
  BY <1>4, <1>5, <1>6, <1>7 DEF IInv

\* A source is edited.
LEMMA EditStep ==
    ASSUME IInv, NEW kind \in {"gen", "tb"}, Edit(kind)
    PROVE  IInv'
<1>. USE DEF IInv
<1>1. /\ phase = "idle" /\ phase' = phase /\ exit' = exit /\ md' = md /\ md.st = "good"
      /\ UNCHANGED results /\ have' = have /\ built' = built /\ job' = <<>> /\ todo' = {}
      /\ ood' = ood \cup {G(kind)} /\ G(kind) \in Targets
  BY DEF Edit, results, history, Phases
<1>2. Records' /\ Judged' /\ (AllPassed' <=> AllPassed)
  BY <1>1, RecordsKept DEF Records
<1>3. Phases'
  BY <1>1 DEF Phases
<1>4. Tests' = Tests /\ Targets' = Targets /\ DOMAIN job' = {}
  BY <1>1, SameTests
<1>5. Agenda'
  BY <1>1, <1>4, NoAgenda DEF Agenda
<1>6. Lock' /\ Updated'
  BY <1>1, NoJobs
<1>7. Verdict'
  BY <1>1, <1>2 DEF Verdict, InUse
<1>8. Inputs'
  BY <1>1, <1>4 DEF Inputs, InUse
<1>. QED
  BY <1>2, <1>3, <1>5, <1>6, <1>7, <1>8

\* Everything that runs is killed.  A simulation that leaves the start of its
\* log counts as one, and its test is not checked.
LEMMA KillStep ==
    ASSUME IInv, Kill
    PROVE  IInv'
<1>. USE DEF IInv
<1>1. /\ phase' = "idle" /\ exit' = "killed" /\ job' = <<>> /\ todo' = {} /\ md' = md /\ built' = built
  BY DEF Kill
<1>2. PICK torn \in SUBSET {Key(g) : g \in {h \in DOMAIN job : h.kind \in TestKinds}},
           cut \in SUBSET {g \in DOMAIN job : g.kind = "log"} :
        LET keys == {Key(g) : g \in cut} IN
        /\ trr' = [t \in DOMAIN trr |-> IF t \in torn THEN [trr[t] EXCEPT !.st = "torn"] ELSE trr[t]]
        /\ log' = [t \in DOMAIN log |-> IF t \in keys THEN <<{}>> ELSE log[t]]
        /\ trace' = [t \in DOMAIN trace |-> IF t \in keys THEN <<"instr">> ELSE trace[t]]
        /\ have' = have \cup cut
        /\ ood' = (ood \ cut) \cup {T("trr", g) : g \in cut}
        /\ sims' = [t \in DOMAIN sims |-> IF t \notin keys THEN sims[t]
                                          ELSE IF sims[t] = 0 THEN 1 ELSE 2]
        /\ checked' = checked \ keys
  BY DEF Kill
<1>. DEFINE keys == {Key(g) : g \in cut}
<1>3. /\ DOMAIN trr' = DOMAIN trr /\ DOMAIN log' = DOMAIN trr /\ DOMAIN trace' = DOMAIN trr
      /\ DOMAIN sims' = DOMAIN trr /\ checked' = checked \ keys /\ have' = have \cup cut
      /\ ood' = (ood \ cut) \cup {T("trr", g) : g \in cut}
      /\ \A t \in DOMAIN trr :
            /\ trr'[t] = IF t \in torn THEN [trr[t] EXCEPT !.st = "torn"] ELSE trr[t]
            /\ t \in keys => /\ log'[t] = <<{}>> /\ trace'[t] = <<"instr">>
                             /\ sims'[t] = IF sims[t] = 0 THEN 1 ELSE 2
            /\ t \notin keys => log'[t] = log[t] /\ trace'[t] = trace[t] /\ sims'[t] = sims[t]
  BY <1>2 DEF Records
<1>. HIDE DEF keys
<1>4. \A t \in DOMAIN trr : /\ trr'[t] \in TrrState /\ trr'[t].passed = trr[t].passed
                            /\ trr'[t].failure_mode = trr[t].failure_mode
  <2>. SUFFICES ASSUME NEW t \in DOMAIN trr
                PROVE  /\ trr'[t] \in TrrState /\ trr'[t].passed = trr[t].passed
                       /\ trr'[t].failure_mode = trr[t].failure_mode
    OBVIOUS
  <2>1. trr[t] \in TrrState
    BY DEF Records
  <2>2. trr'[t] = trr[t] \/ trr'[t] = [trr[t] EXCEPT !.st = "torn"]
    BY <1>3
  <2>. QED
    BY <2>1, <2>2 DEF TrrState
<1>5. \A t \in DOMAIN trr : /\ log'[t] \in {Missing} \cup LogLines
                            /\ trace'[t] \in {Missing} \cup TraceLines /\ sims'[t] \in {0, 1, 2}
  <2>1. <<{}>> \in LogLines /\ <<"instr">> \in TraceLines
    BY DEF LogLines, TraceLines
  <2>. QED
    BY <1>3, <2>1 DEF Records
<1>6. Tests' = Tests /\ Targets' = Targets /\ {Key(t) : t \in Tests}' = {Key(t) : t \in Tests}
  <2>1. Tests' = Tests /\ Targets' = Targets
    BY <1>1, SameTests
  <2>. QED
    BY <2>1 DEF Key
<1>7. Records'
  <2>1. checked' \subseteq DOMAIN trr'
    BY <1>3 DEF Records
  <2>. QED
    BY <1>1, <1>3, <1>4, <1>5, <1>6, <2>1 DEF Records
<1>8. \A g \in cut : /\ g \in Targets /\ g.kind = "log" /\ g.kind \in TestKinds
                     /\ T("trr", g) \in Targets /\ T("trr", g).kind = "trr" /\ md.st # "absent"
  <2>. SUFFICES ASSUME NEW g \in cut
                PROVE  /\ g \in Targets /\ g.kind = "log" /\ g.kind \in TestKinds
                       /\ T("trr", g) \in Targets /\ T("trr", g).kind = "trr" /\ md.st # "absent"
    OBVIOUS
  <2>1. g \in DOMAIN job /\ g.kind = "log" /\ g.kind \in TestKinds
    BY DEF TestKinds
  <2>2. g \in Targets /\ md.st # "absent"
    BY <2>1, InMake
  <2>3. T("trr", g) \in Dependents(g)
    BY <2>1 DEF Dependents
  <2>. QED
    BY <2>1, <2>2, <2>3, DependentsAreTargets, KindOf
<1>9. Phases'
  <2>1. md.st = "absent" => ood' = {} /\ have' = {}
    BY <1>3, <1>8 DEF Phases
  <2>. QED
    BY <1>1, <2>1 DEF Phases, Records
<1>10. Agenda'
  <2>1. ood' \subseteq Targets
    BY <1>3, <1>8 DEF Agenda
  <2>. QED
    BY <1>1, <1>6, <2>1, NoAgenda
<1>11. Lock' /\ Updated'
  BY <1>1, <1>3, <1>8, NoJobs
<1>12. Judged'
  <2>1. \A t \in DOMAIN trr' : sims'[t] = 0 => log'[t] = Missing /\ trr'[t].passed # "True"
    BY <1>3, <1>4 DEF Judged
  <2>2. \A t \in DOMAIN trr' : sims'[t] = 1 /\ trr'[t].passed = "True" => t \in checked'
    BY <1>3, <1>4 DEF Judged
  <2>3. \A t \in checked' : t \in DOMAIN trr /\ t \notin keys /\ t \in checked
    BY <1>3 DEF Records
  <2>4. \A t \in checked' : LogPasses(t)' <=> LogPasses(t)
    BY <1>3, <2>3 DEF LogPasses
  <2>5. VerdictOfLog'
    BY <1>3, <1>4, <2>3, <2>4 DEF Judged, VerdictOfLog
  <2>6. won' = won
    BY DEF Kill
  <2>7. \A t \in DOMAIN trr' : trr'[t].passed = "True" => t \in won'
    BY <1>3, <1>4, <2>6 DEF Judged
  <2>. QED
    BY <2>1, <2>2, <2>5, <2>7 DEF Judged
<1>13. \A h \in ood : h.kind # "log" => h \in ood'
  BY <1>3, <1>8
<1>14. InUse' => InUse
  BY <1>1 DEF InUse
<1>15. Verdict'
  <2>1. AllPassed <=> \A t \in DOMAIN trr : trr[t].passed = "True"
    BY AllPassedRecords DEF Records
  <2>2. AllPassed' <=> \A t \in DOMAIN trr' : trr'[t].passed = "True"
    BY <1>7 DEF AllPassed, Trr, Key, Records
  <2>3. AllPassed' <=> AllPassed
    BY <1>3, <1>4, <2>1, <2>2
  <2>. QED
    BY <1>1, <1>13, <1>14, <2>3, KindOf DEF Verdict
<1>16. Inputs'
  <2>1. InUse => \A t \in Tests : T("bin", t) \in ood' \cup have'
    BY <1>3, <1>13, KindOf DEF Inputs
  <2>2. G("tb") \in ood => G("tb") \in ood'
    BY <1>13, KindOf
  <2>3. DOMAIN job' = {}
    BY <1>1
  <2>. QED
    BY <1>1, <1>6, <1>14, <2>1, <2>2, <2>3 DEF Inputs
<1>. QED
  BY <1>7, <1>9, <1>10, <1>11, <1>12, <1>15, <1>16
-------------------------------------------------------------------------------
(* Theorems *)

\* Every step of make, of a script or of the user keeps the invariant.
LEMMA StepIInv ==
    ASSUME IInv, [Next]_vars
    PROVE  IInv'
<1>1. CASE UNCHANGED vars
  <2>1. /\ md' = md /\ trr' = trr /\ have' = have /\ log' = log /\ trace' = trace /\ built' = built
        /\ ood' = ood /\ sims' = sims /\ checked' = checked /\ won' = won
        /\ phase' = phase /\ exit' = exit /\ job' = job /\ todo' = todo
    BY <1>1 DEF vars, files, history
  <2>2. Tests' = Tests /\ Targets' = Targets /\ \A g, h : Precedes(g, h)' <=> Precedes(g, h)
    BY <2>1, SameTests
  <2>3. Records' /\ (AllPassed' <=> AllPassed)
    BY <2>1, <2>2 DEF IInv, Records, Key, AllPassed, Trr
  <2>4. Phases' /\ Agenda' /\ Lock' /\ Updated'
    BY <2>1, <2>2 DEF IInv, Phases, Agenda, Lock, Updated, Holds, At
  <2>5. Judged'
    BY <2>1 DEF IInv, Judged, VerdictOfLog, LogPasses
  <2>6. Verdict'
    BY <2>1, <2>3 DEF IInv, Verdict, InUse
  <2>7. Inputs'
    BY <2>1, <2>2 DEF IInv, Inputs, InUse
  <2>. QED
    BY <2>3, <2>4, <2>5, <2>6, <2>7 DEF IInv
<1>2. CASE append_directed_testlist \/ GenStart
  BY <1>2, GenSteps
<1>3. CASE Created
  BY <1>3, CreatedStep
<1>4. CASE Parse
  BY <1>4, ParseStep
<1>5. CASE End
  BY <1>5, EndStep
<1>6. CASE \E g \in todo : Touch(g) \/ StartLocked(g) \/ StartTest(g)
  BY <1>6, TouchStep, StartLockedStep, StartTestStep
<1>7. CASE \E g \in DOMAIN job : Script(g)
  <2>1. PICK g \in DOMAIN job : Script(g)
    BY <1>7
  <2>. QED
    BY <2>1, LockedEnterStep, LockTimeoutStep, ExportMdStep, LockedExitStep, RunToolStep,
       RunInstrGenStep, CompileTestStep, RunRtlStep, CheckLogsStep DEF Script
<1>8. CASE Begin
  BY <1>8, BeginStep
<1>9. CASE Kill
  BY <1>9, KillStep
<1>10. CASE Clean
  BY <1>10, CleanStep
<1>11. CASE \E kind \in {"gen", "tb"} : Edit(kind)
  BY <1>11, EditStep
<1>12. CASE Halted
  BY <1>1, <1>12 DEF Halted
<1>. QED
  BY <1>1, <1>2, <1>3, <1>4, <1>5, <1>6, <1>7, <1>8, <1>9, <1>10, <1>11, <1>12
     DEF Next, Make, User

\* A regression keeps the inductive invariant.
THEOREM Inductive == Spec => []IInv
<1>1. Init => IInv
  BY InitIInv
<1>2. IInv /\ [Next]_vars => IInv'
  BY StepIInv
<1>. QED
  BY <1>1, <1>2, PTL DEF Spec

\* Files and processes keep their shape, and make keeps within its jobs.
THEOREM TypeCorrect == Spec => []TypeOK
<1>1. IInv => TypeOK
  BY DEF IInv, Records, Phases, Agenda, Runs, TypeOK
<1>. QED
  BY <1>1, Inductive, PTL

\* LockedMetadata loses no update, whichever scripts run, time out or are
\* killed while the metadata is rewritten.
THEOREM UpdatesAreKept == Spec => []NoLostUpdate
<1>1. IInv => NoLostUpdate
  BY DEF IInv, Updated, NoLostUpdate
<1>. QED
  BY <1>1, Inductive, PTL

\* The verdict of a checked test is that of the log of its one simulation.
THEOREM VerdictsAreOfLogs == Spec => []VerdictOfLog
<1>1. IInv => VerdictOfLog
  BY DEF IInv, Judged
<1>. QED
  BY <1>1, Inductive, PTL

\* When make succeeds every test has the record of a log that passed, which is
\* its last log where it was simulated once.
THEOREM GreenIsPassed == Spec => []GreenMeansPassed
<1>1. ASSUME IInv PROVE GreenMeansPassed
  <2>. SUFFICES ASSUME Green, NEW t \in DOMAIN trr
                PROVE  trr[t].passed = "True" /\ t \in won /\ (sims[t] = 1 => LogPasses(t))
    BY DEF GreenMeansPassed
  <2>1. AllPassed <=> \A k \in DOMAIN trr : trr[k].passed = "True"
    BY <1>1, AllPassedRecords DEF IInv, Records
  <2>2. trr[t].passed = "True"
    BY <1>1, <2>1 DEF IInv, Verdict, Green
  <2>3. t \in won /\ (sims[t] = 1 => LogPasses(t))
    BY <1>1, <2>2 DEF IInv, Judged, VerdictOfLog
  <2>. QED
    BY <2>2, <2>3
<1>. QED
  BY <1>1, Inductive, PTL

\* The options of the two stages share no parameter and leave none out.
LEMMA OptsPartition ==
    ASSUME NEW tool, ~XOptsRaise(tool), NEW fields
    PROVE  LET early == XOpts(tool, "compile", fields)
               late == XOpts(tool, "sim", fields)
           IN early \cap late = {} /\ early \cup late = DOMAIN fields
<1>1. tool \in {"vcs", "riviera", "questa", "xlm", "dsim"}
  BY DEF XOptsRaise, SIM_CFGS
<1>2. CASE tool \in {"vcs", "xlm", "dsim"}
  <2>1. SIM_CFGS[tool].compile = TRUE /\ SIM_CFGS[tool].sim = FALSE
    BY <1>2 DEF SIM_CFGS
  <2>2. SIM_CFGS[tool]["compile"] /\ ~SIM_CFGS[tool]["sim"]
    BY <2>1
  <2>. QED
    BY <2>1, <2>2 DEF XOpts
<1>3. CASE tool \in {"riviera", "questa"}
  <2>1. SIM_CFGS[tool].compile = TRUE /\ SIM_CFGS[tool].sim = TRUE
    BY <1>3 DEF SIM_CFGS
  <2>2. SIM_CFGS[tool]["compile"] /\ SIM_CFGS[tool]["sim"]
    BY <2>1
  <2>. QED
    BY <2>1, <2>2 DEF XOpts
<1>. QED
  BY <1>1, <1>2, <1>3

\* A simulation uses a current testbench and a current binary, and every
\* parameter reaches it once, at compile time or at run time.
THEOREM InputsAreFresh == Spec => FreshInputs
<1>. DEFINE Fresh(g) == LET late == XOpts(md.req.simulator, "sim", known_fields) IN
                        /\ {G("tb"), T("bin", g)} \cap ood = {}
                        /\ T("bin", g) \in have
                        /\ built \cap late = {} /\ built \cup late = DOMAIN known_fields
<1>1. ASSUME IInv, NEW g \in DOMAIN job, Simulates(g) PROVE Fresh(g)
  <2>1. /\ g.kind = "log" /\ g \in Targets /\ phase = "make" /\ InUse
        /\ ~XOptsRaise(md.req.simulator) /\ \A h \in todo : ~Precedes(h, g)
    BY <1>1, InMake DEF Simulates, IInv, Inputs, InUse
  <2>2. Precedes(G("tb"), g) /\ Precedes(T("bin", g), g)
    <3>1. G("tb").kind = "tb" /\ T("bin", g).kind = "bin" /\ Key(T("bin", g)) = Key(g)
      BY KindOf
    <3>2. Rank("tb") < Rank("log") /\ Rank("bin") < Rank("log")
      BY Ranks
    <3>. QED
      BY <2>1, <3>1, <3>2 DEF Precedes, LockedKinds
  <2>3. G("tb") \notin ood /\ T("bin", g) \notin ood
    BY <1>1, <2>1, <2>2, KindOf DEF IInv, Inputs
  <2>4. \E t \in Tests : T("bin", g) = T("bin", t)
    BY <2>1, TargetFacts DEF TestKinds, T, Key
  <2>5. T("bin", g) \in have /\ built = XOpts(md.req.simulator, "compile", known_fields)
    BY <1>1, <2>1, <2>3, <2>4 DEF IInv, Inputs
  <2>. QED
    BY <2>1, <2>3, <2>5, OptsPartition
<1>2. IInv /\ [Next]_vars => [\A g \in DOMAIN job : Simulates(g) => Fresh(g)]_vars
  BY <1>1
<1>. QED
  BY <1>2, Inductive, PTL DEF Spec, FreshInputs
===============================================================================
