------------------------------- MODULE Regression -------------------------------
(***************************************************************************)
(* A regression of the core_ibex testbench.  `make` creates the metadata   *)
(* of the regression (metadata.py), then a second make runs the scripts of *)
(* the flow in parallel and in the order of its targets:                   *)
(*                                                                         *)
(*   cfg -> gen -> S -> bin -> log -> trr -> fcov -> cov -> regr           *)
(*                    tb ----^                                             *)
(*                                                                         *)
(* The scripts share metadata.pickle, which some of them rewrite under a   *)
(* lock (LockedMetadata) while others read it without, and the pickle of   *)
(* each test.  The user starts make again, with other arguments or after   *)
(* an edit, cleans, regenerates the list of the directed tests              *)
(* (gen_testlist.py) or kills what is running.                             *)
(*                                                                         *)
(* Make decides with file times: ood holds the targets that are missing    *)
(* or older than what they are made from, on disk; todo what the running   *)
(* make has decided to remake, from the times it read when it started.     *)
(***************************************************************************)
EXTENDS TestSelect, LogCheck, ToolCmds

CONSTANTS
    Plans,          \* what the user may do: [calls, edits, kills, gens], the
                    \* arguments of make in order and a bound for each of the
                    \* others.  Arguments are [test, iterations, seed, config,
                    \* simulator, cov, waves]
    NoRequest,
    Lists,          \* what gen_testlist.py writes: "base" and the suites
    GenArgs,        \* the suites it is asked for, as sequences
    Outcomes,       \* what the simulation of a test can leave: [name, log,
                    \* trace, timeout]
    Jobs            \* make -j

Requests ==
    [test : SUBSET STRING, iterations : Seq(Int), seed : Int, config : STRING, simulator : STRING,
     cov : BOOLEAN, waves : BOOLEAN]
PlanState == [calls : Seq(Requests), edits : Nat, kills : Nat, gens : Nat]

ASSUME PlansAssumption == Plans \subseteq PlanState
ASSUME ListsAssumption ==
    /\ "base" \in DOMAIN Lists /\ \A l \in DOMAIN Lists : Lists[l] \in Seq(Entries)
    /\ GenArgs \subseteq Seq(DOMAIN Lists)
ASSUME JobsAssumption == Jobs \in Nat \ {0}
ASSUME OutcomesAssumption ==
    \A o \in Outcomes : /\ o.log \in {Missing} \cup LogLines
                        /\ o.trace \in {Missing} \cup TraceLines

VARIABLES
    dlist,      \* directed_testlist.yaml
    gen,        \* what gen_testlist.py still has to write
    phase,      \* "idle", "gen", "create", "parse" or "make"
    req,        \* the arguments of the running make
    md,         \* metadata.pickle: [st, req, items, tests, fields]
    trr,        \* the pickle of each test: [st, passed, failure_mode]
    have,       \* files made by the scripts that exist
    log, trace, \* the files of the last simulation of each test
    built,      \* the parameters compiled into the testbench
    dumped,     \* the variables make dumped when it last ran cfg, gen, tb
    ood, todo,
    job,        \* running scripts: target -> [at, snap, bad]
    broke,      \* a script of this make has failed
    exit,       \* how the last make ended
    sims,       \* history: simulations of each test since it was created (0, 1, 2+)
    checked,    \* history: tests whose last simulation check_logs.py has seen
    won,        \* history: tests of which it has ever seen a log that passes
    plan        \* what the user may still do

files == <<md, trr, have, log, trace, built, dumped, ood>>
history == <<sims, checked, won>>
vars == <<dlist, gen, phase, req, files, todo, job, broke, exit, history, plan>>

Spend(what) == plan[what] > 0 /\ plan' = [plan EXCEPT ![what] = @ - 1]
MoreCalls == plan.calls # <<>>
-------------------------------------------------------------------------------
(* Targets.  A target and a test are told apart by kind, name and seed.    *)

NoMd == [st |-> "absent", req |-> NoRequest, items |-> <<>>, tests |-> <<>>, fields |-> {}]
Tests == Range(md.tests)
Key(t) == <<t.name, t.seed>>
T(kind, t) == [kind |-> kind, name |-> t.name, seed |-> t.seed]
G(kind) == [kind |-> kind, name |-> "", seed |-> 0]
Trr(t) == trr[Key(t)]

RandomTests == {t \in Tests : t.type = "RISCVDV"}
IsRandom(g) == \E t \in RandomTests : Key(t) = Key(g)

\* What regr.log.stamp depends on.
Targets ==
    {G(k) : k \in {"tb", "fcov", "cov", "regr"}}
        \cup {T(k, t) : k \in {"bin", "log", "trr"}, t \in Tests}
        \cup {T("S", t) : t \in RandomTests}
        \cup (IF RandomTests = {} THEN {} ELSE {G("cfg"), G("gen")})

TrrTargets == {T("trr", t) : t \in Tests}
Dependents(g) ==
    CASE g.kind = "cfg"  -> {G("gen")}
      [] g.kind = "gen"  -> {T("S", t) : t \in RandomTests}
      [] g.kind = "S"    -> {T("bin", g)}
      [] g.kind = "bin"  -> {T("log", g)}
      [] g.kind = "tb"   -> {T("log", t) : t \in Tests}
      [] g.kind = "log"  -> {T("trr", g)}
      [] g.kind = "trr"  -> {G("fcov"), G("regr")}
      [] g.kind = "fcov" -> {G("cov")}
      [] g.kind = "cov"  -> {G("regr")}
      [] g.kind = "regr" -> {}

\* The scripts that lock the metadata, one for all tests each.
LockedKinds == {"cfg", "gen", "tb", "fcov", "cov", "regr"}

\* What make considers before a target: everything it depends on, also
\* through others.  A directed test does not need the generator.
Order == <<"cfg", "gen", "S", "bin", "tb", "log", "trr", "fcov", "cov", "regr">>
Rank(kind) == CHOOSE i \in DOMAIN Order : Order[i] = kind
Precedes(h, g) ==
    /\ Rank(h.kind) < Rank(g.kind)
    /\ g.kind # "tb"
    /\ {h.kind, g.kind} \cap LockedKinds # {} \/ Key(h) = Key(g)
    /\ h.kind \in {"cfg", "gen"} => g.kind \in LockedKinds \/ IsRandom(g)

\* The variables whose change makes make run a target again.
VarsOf(kind, r) ==
    CASE kind = "cfg" -> <<r.config>>
      [] kind = "gen" -> <<r.simulator>>
      [] kind = "tb"  -> <<r.simulator, r.cov, r.waves>>
      [] OTHER        -> <<>>
Dumps == {"cfg", "gen", "tb"}
-------------------------------------------------------------------------------
(* gen_testlist.py: truncates the list, then writes it piece by piece. *)

GenStart ==
    /\ phase = "idle"
    /\ Spend("gens")
    /\ \E suites \in GenArgs : gen' = <<"base">> \o suites
    /\ dlist' = <<>>
    /\ phase' = "gen"
    /\ UNCHANGED <<req, files, todo, job, broke, exit, history>>

append_directed_testlist ==
    /\ phase = "gen"
    /\ dlist' = dlist \o Lists[Head(gen)]
    /\ gen' = Tail(gen)
    /\ phase' = IF Len(gen) = 1 THEN "idle" ELSE "gen"
    /\ UNCHANGED <<req, files, todo, job, broke, exit, history, plan>>
-------------------------------------------------------------------------------
(* metadata.py *)

NewTests(r) == TestDotSeeds(r, dlist)

\* make run: metadata.pickle is only created when there is none, and then the
\* pickles and trr.yaml of the tests are written before it.
Begin ==
    LET r == Head(plan.calls) IN
    /\ phase = "idle"
    /\ MoreCalls
    /\ plan' = [plan EXCEPT !.calls = Tail(@)]
    /\ req' = r
    /\ broke' = FALSE
    /\ IF md.st # "absent"
       THEN /\ phase' = "parse"
            /\ exit' = "none"
            /\ UNCHANGED <<files, history>>
       ELSE IF CreateRaises(r, dlist)
       THEN /\ exit' = "fail"
            /\ UNCHANGED <<phase, files, history>>
       ELSE /\ md' = [st |-> "torn", req |-> r, items |-> dlist, tests |-> NewTests(r), fields |-> {}]
            /\ trr' = [t \in {Key(x) : x \in Range(NewTests(r))} |-> [NoTrr EXCEPT !.st = "good"]]
            /\ log' = [t \in DOMAIN trr' |-> Missing]
            /\ trace' = [t \in DOMAIN trr' |-> Missing]
            /\ sims' = [t \in DOMAIN trr' |-> 0]
            /\ checked' = {} /\ won' = {}
            /\ phase' = "create"
            /\ exit' = "none"
            /\ UNCHANGED <<have, built, dumped, ood>>
    /\ UNCHANGED <<dlist, gen, todo, job>>

\* md.export returns.
Created ==
    /\ phase = "create"
    /\ md' = [md EXCEPT !.st = "good"]
    /\ ood' = Targets \ TrrTargets
    /\ phase' = "parse"
    /\ UNCHANGED <<dlist, gen, req, trr, have, log, trace, built, dumped, todo, job, broke, exit,
                   history, plan>>

\* The second make reads its lists of tests with print_field, which fails on
\* a torn pickle.
Parse ==
    /\ phase = "parse"
    /\ IF md.st = "good"
       THEN /\ phase' = "make"
            /\ todo' = {g \in Targets : \/ g \in ood
                                        \/ g.kind \in Dumps /\ dumped[g.kind] # VarsOf(g.kind, req)}
            /\ UNCHANGED exit
       ELSE /\ phase' = "idle"
            /\ exit' = "fail"
            /\ UNCHANGED todo
    /\ UNCHANGED <<dlist, gen, req, files, job, broke, history, plan>>
-------------------------------------------------------------------------------
(* Make: a target is run when nothing it depends on is left to remake. *)

\* Mutant: only what is running holds a target back.
CanStartEager(g) == ~\E h \in DOMAIN job : Precedes(h, g)
CanStart(g) == ~\E h \in todo : Precedes(h, g)

\* Mutant: make without a limit on its jobs.
StartableUnbounded(g) == phase = "make" /\ ~broke /\ g \in todo \ DOMAIN job /\ CanStart(g)
Startable(g) ==
    /\ phase = "make"
    /\ ~broke
    /\ g \in todo \ DOMAIN job
    /\ CanStart(g)
    /\ Cardinality(DOMAIN job) < Jobs

Spawn(g, at) ==
    job' = [h \in DOMAIN job \cup {g} |-> IF h = g THEN [at |-> at, snap |-> {}, bad |-> FALSE]
                                         ELSE job[h]]
At(g, at) == g \in DOMAIN job /\ job[g].at = at
Reap(g) == job' = Restrict(job, DOMAIN job \ {g})

\* The recipe of g has rewritten its file and returned 0.
Remade(g) == /\ ood' = (ood \ {g}) \cup Dependents(g)
             /\ todo' = (todo \ {g}) \cup Dependents(g)

\* Mutant: make tries a failed recipe again.
FailedRetried == UNCHANGED <<broke, todo>>

\* A recipe returned non-zero: make waits for the others and stops.
Failed == broke' = TRUE /\ UNCHANGED todo

\* An export of the test writes trr.yaml, which is a target of make.
Exported(old, g) == (old \ {T("trr", g)}) \cup {G("fcov"), G("regr")}

CanEnd == job = <<>> /\ (broke \/ todo = {})
End ==
    /\ phase = "make"
    /\ CanEnd
    /\ phase' = "idle"
    /\ exit' = IF broke THEN "fail" ELSE "ok"
    /\ todo' = {}
    /\ UNCHANGED <<dlist, gen, req, files, job, broke, history, plan>>

quiet == <<dlist, gen, phase, req, exit, plan>>
results == <<trr, log, trace, history>>
-------------------------------------------------------------------------------
(* Scripts that update the metadata: render_config_template, build_instr_gen, *)
(* compile_tb, get_fcov, merge_cov and collect_results.  LockedMetadata locks, *)
(* reads a copy, and on exit writes the copy back, also after an exception.   *)

\* Without COV=1 the recipes of fcov and cov only touch their stamps.
Touches(g) == g.kind \in {"fcov", "cov"} /\ ~req.cov
Touch(g) ==
    /\ Startable(g) /\ Touches(g)
    /\ Remade(g)
    /\ UNCHANGED <<quiet, results, md, have, built, dumped, job, broke>>

find_cov_dbs == md.req.cov /\ \E t \in Tests : T("log", t) \in have

\* merge_cov.py before it takes the lock.
MergeRaises(g) ==
    /\ g.kind = "cov"
    /\ \/ md.req.simulator \notin {"xlm", "vcs"}
       \/ md.req.simulator = "vcs" /\ ~find_cov_dbs

\* Make dumps the variables when it expands the recipe, before the script runs.
StartLocked(g) ==
    /\ Startable(g) /\ g.kind \in LockedKinds /\ ~Touches(g)
    /\ IF MergeRaises(g) THEN Failed /\ UNCHANGED <<job, dumped>>
       ELSE /\ Spawn(g, "wait")
            /\ dumped' = [k \in Dumps |-> IF k = g.kind THEN VarsOf(k, req) ELSE dumped[k]]
            /\ UNCHANGED <<todo, broke>>
    /\ UNCHANGED <<quiet, results, md, have, built, ood>>

Holds(g) == job[g].at \in {"held", "export"}
\* Mutant: the lock is shared, not exclusive.
LockShared == TRUE
LockFree == \A g \in DOMAIN job : ~Holds(g)

Enables(cmd_type) == (IF md.req.cov THEN {"cov_opts"} ELSE {})
                         \cup (IF md.req.waves THEN {"wave_opts"} ELSE {})
                         \cup (IF cmd_type = "compile" THEN {"cosim_opts"} ELSE {})

\* subst_vars_dict of compile_tb.py and of run_rtl.py.
subst_vars == [compile |-> {"core_ibex", "tb_dir", "tb_build_log", "cmp_opts", "dir_shared_cov",
                             "xlm_cov_cfg_file", "dut_cov_rtl_path", "ISS_CFLAGS", "ISS_LDFLAGS",
                             "ISS_LIBS"},
               sim |-> {"cwd", "test_name", "rtl_test", "seed", "binary", "test_dir", "tb_dir",
                         "dir_shared_cov", "rtl_sim_log", "rtl_trace", "iss_cosim_trace",
                         "core_ibex", "sim_opts"}]
NoCommand(cmd_type) ==
    \/ XOptsRaise(md.req.simulator)
    \/ ToolCmdsRaise(md.req.simulator, cmd_type, Enables(cmd_type), subst_vars[cmd_type])

\* collect_results.py reads every test, and the coverage report that the
\* metadata names.
CollectRaises(snap) ==
    \/ \E t \in Tests : Trr(t).st # "good"
    \/ md.req.simulator = "xlm" /\ "cov" \in snap /\ G("cov") \notin have

BodyRaises(g, snap) ==
    CASE g.kind = "tb"   -> NoCommand("compile")
      [] g.kind = "regr" -> CollectRaises(snap)
      [] OTHER           -> FALSE

\* compile_tb.py looks for the libraries of Spike while it holds the lock.
PkgConfigFails(g) == IF g.kind = "tb" THEN BOOLEAN ELSE {FALSE}

LockedEnter(g) ==
    /\ At(g, "wait")
    /\ LockFree
    /\ \E failed \in PkgConfigFails(g) :
          job' = [job EXCEPT ![g] = [at |-> "held", snap |-> md.fields,
                                     bad |-> failed \/ BodyRaises(g, md.fields)]]
    /\ UNCHANGED <<quiet, results, md, have, built, dumped, ood, todo, broke>>

\* The alarm goes off after five seconds.
LockTimeout(g) ==
    /\ At(g, "wait")
    /\ ~LockFree
    /\ Reap(g)
    /\ Failed
    /\ UNCHANGED <<quiet, results, md, have, built, dumped, ood>>

\* export opens the pickle, which truncates it, and writes it.
ExportMd(g) ==
    /\ At(g, "held")
    /\ job' = [job EXCEPT ![g].at = "export"]
    /\ md' = [md EXCEPT !.st = "torn"]
    /\ UNCHANGED <<quiet, results, have, built, dumped, ood, todo, broke>>

Sets(g) == IF job[g].bad \/ g.kind = "cfg" THEN {} ELSE {g.kind}
\* Mutant: a test without a verdict counts as passed.
NoneFailed == \A t \in Tests : Trr(t).passed # "False"
AllPassed == \A t \in Tests : Trr(t).passed = "True"

LockedExit(g) ==
    /\ At(g, "export")
    /\ md' = [md EXCEPT !.st = "good", !.fields = job[g].snap \cup Sets(g)]
    /\ IF job[g].bad \/ (g.kind = "regr" /\ ~AllPassed)
       THEN Reap(g) /\ Failed /\ UNCHANGED <<have, ood>>
       ELSE IF g.kind \in {"cfg", "regr"}
       THEN Reap(g) /\ Remade(g) /\ have' = have \cup {g} /\ UNCHANGED broke
       ELSE job' = [job EXCEPT ![g].at = "run"] /\ UNCHANGED <<have, ood, todo, broke>>
    /\ UNCHANGED <<quiet, results, built, dumped>>

\* The commands that follow the update; for cov, the list of databases first.
RunTool(g) ==
    /\ At(g, "run") /\ g.kind \in LockedKinds
    /\ Reap(g)
    /\ \/ /\ g.kind = "cov" => find_cov_dbs
          /\ Remade(g)
          /\ have' = have \cup {g}
          /\ built' = IF g.kind = "tb" THEN XOpts(md.req.simulator, "compile", known_fields) ELSE built
          /\ UNCHANGED broke
       \/ Failed /\ UNCHANGED <<have, built, ood>>
    /\ UNCHANGED <<quiet, results, md, dumped>>
-------------------------------------------------------------------------------
(* Scripts of one test: run_instr_gen (S), compile_test (bin), run_rtl     *)
(* (log), check_logs (trr).  All but the last read the metadata without    *)
(* the lock.                                                               *)

TestKinds == {"S", "bin", "log", "trr"}
RecordsReadable(g) == Trr(g).st = "good" /\ (g.kind # "trr" => md.st = "good")
ScriptRaises(g) ==
    CASE g.kind = "S"   -> RelocRaises(md.req.simulator)
      [] g.kind = "log" -> NoCommand("sim")
      [] OTHER          -> FALSE
CallsRiscvdv(g) == g.kind \in {"S", "bin"} /\ IsRandom(g)

StartTest(g) ==
    /\ Startable(g) /\ g.kind \in TestKinds
    /\ \/ /\ RecordsReadable(g) /\ ~ScriptRaises(g)
          /\ Spawn(g, "run")
          /\ ood' = IF g.kind \in {"bin", "log"} THEN Exported(ood, g) ELSE ood
          /\ UNCHANGED <<todo, broke>>
       \/ /\ ~RecordsReadable(g) \/ ScriptRaises(g) \/ CallsRiscvdv(g)
          /\ Failed
          /\ UNCHANGED <<job, ood>>
    /\ UNCHANGED <<quiet, results, md, have, built, dumped>>

\* A generator command that fails leaves no new test.S, and the script still
\* returns 0; one that succeeds and leaves no file is an error.
RunInstrGen(g) ==
    /\ At(g, "run") /\ g.kind = "S"
    /\ Reap(g)
    /\ \/ /\ have' = have \cup {g}
          /\ ood' = Exported(ood \ {g}, g) \cup Dependents(g)
          /\ todo' = (todo \ {g}) \cup Dependents(g)
          /\ UNCHANGED broke
       \/ /\ ood' = Exported(ood, g)
          /\ todo' = (todo \ {g}) \cup (IF g \in have THEN {} ELSE Dependents(g))
          /\ UNCHANGED <<have, broke>>
       \/ Failed /\ UNCHANGED <<have, ood>>
    /\ UNCHANGED <<quiet, results, md, built, dumped>>

CompileTest(g) ==
    /\ At(g, "run") /\ g.kind = "bin"
    /\ Reap(g)
    /\ \/ /\ IsRandom(g) => T("S", g) \in have
          /\ Remade(g)
          /\ have' = have \cup {g}
          /\ UNCHANGED broke
       \/ Failed /\ UNCHANGED <<have, ood>>
    /\ UNCHANGED <<quiet, results, md, built, dumped>>

\* VCS logs to the standard streams, which always leave a file.
RtlLog(new, old) ==
    IF new # Missing THEN new ELSE IF md.req.simulator = "vcs" THEN <<>> ELSE old
Timed(t, timeout) == IF timeout THEN [t EXCEPT !.failure_mode = "TIMEOUT"] ELSE t

\* The second export follows the log, so that trr.yaml is newer than it.
RunRtl(g) ==
    /\ At(g, "run") /\ g.kind = "log"
    /\ Reap(g)
    /\ \E o \in {x \in Outcomes : x.name = g.name} :
          LET wrote == o.log # Missing IN
          /\ log' = [log EXCEPT ![Key(g)] = RtlLog(o.log, @)]
          /\ trace' = [trace EXCEPT ![Key(g)] = IF o.trace = Missing THEN @ ELSE o.trace]
          /\ trr' = [trr EXCEPT ![Key(g)] = Timed(@, o.timeout)]
          /\ have' = IF wrote THEN have \cup {g} ELSE have
          /\ ood' = Exported(IF wrote THEN ood \ {g} ELSE ood, g)
          /\ todo' = (todo \ {g}) \cup (IF wrote \/ g \notin have THEN Dependents(g) ELSE {})
          /\ sims' = [sims EXCEPT ![Key(g)] = IF @ = 0 THEN 1 ELSE 2]
          /\ checked' = checked \ {Key(g)}
    /\ UNCHANGED <<quiet, md, built, dumped, broke, won>>

\* For the properties and their history: the log of a test's last simulation
\* passes.  Some line says so, no line says the opposite, no error precedes
\* the first result, and the core executed something.
LogPasses(t) ==
    /\ trace[t] # Missing /\ log[t] # Missing
    /\ \E i \in DOMAIN trace[t] : trace[t][i] = "instr" /\ \A j \in 1 .. i : trace[t][j] # "ecall"
    /\ \E i \in DOMAIN log[t] :
          /\ "PASSED" \in log[t][i]
          /\ \A j \in 1 .. i : "error" \notin log[t][j]
    /\ \A i \in DOMAIN log[t] : "FAILED" \notin log[t][i]

CheckLogs(g) ==
    /\ At(g, "run") /\ g.kind = "trr"
    /\ Reap(g)
    /\ LET t == Key(g) IN
       IF CompareRaises(trr[t], trace[t], log[t])
       THEN Failed /\ UNCHANGED <<trr, checked, won, ood>>
       ELSE /\ trr' = [trr EXCEPT ![t] = compare_test_run(@, trace[t], log[t])]
            /\ checked' = checked \cup {t}
            /\ won' = IF LogPasses(t) THEN won \cup {t} ELSE won
            /\ Remade(g)
            /\ UNCHANGED broke
    /\ UNCHANGED <<quiet, md, have, log, trace, built, dumped, sims>>
-------------------------------------------------------------------------------
(* The user *)

\* Everything that runs is killed: a pickle that was being written stays torn
\* and a simulation may leave the start of its log.
Kill ==
    /\ phase # "idle"
    /\ Spend("kills")
    /\ \E torn \in SUBSET {Key(g) : g \in {h \in DOMAIN job : h.kind \in TestKinds}},
          cut \in SUBSET {g \in DOMAIN job : g.kind = "log"} :
          LET keys == {Key(g) : g \in cut} IN
          /\ trr' = [t \in DOMAIN trr |-> IF t \in torn THEN [trr[t] EXCEPT !.st = "torn"] ELSE trr[t]]
          /\ log' = [t \in DOMAIN log |-> IF t \in keys THEN <<{}>> ELSE log[t]]
          /\ trace' = [t \in DOMAIN trace |-> IF t \in keys THEN <<"instr">> ELSE trace[t]]
          /\ have' = have \cup cut
          /\ ood' = (ood \ cut) \cup {T("trr", g) : g \in cut}
          /\ sims' = [t \in DOMAIN sims |-> IF t \notin keys THEN sims[t]
                                            ELSE IF sims[t] = 0 THEN 1 ELSE 2]
          /\ checked' = checked \ keys
    /\ phase' = "idle"
    /\ gen' = <<>>
    /\ job' = <<>>
    /\ todo' = {}
    /\ broke' = FALSE
    /\ exit' = "killed"
    /\ UNCHANGED <<dlist, req, md, built, dumped, won>>

\* make clean.
Clean ==
    /\ phase = "idle"
    /\ md.st # "absent"
    /\ MoreCalls
    /\ md' = NoMd
    /\ trr' = <<>> /\ log' = <<>> /\ trace' = <<>> /\ sims' = <<>> /\ checked' = {} /\ won' = {}
    /\ have' = {} /\ built' = {} /\ ood' = {}
    /\ dumped' = [k \in Dumps |-> <<>>]
    /\ UNCHANGED <<dlist, gen, phase, req, todo, job, broke, exit, plan>>

\* A source of the generator or of the testbench is newer than its stamp.
Edit(kind) ==
    /\ phase = "idle"
    /\ md.st = "good"
    /\ G(kind) \in Targets \ ood
    /\ MoreCalls
    /\ Spend("edits")
    /\ ood' = ood \cup {G(kind)}
    /\ UNCHANGED <<dlist, gen, phase, req, md, trr, have, log, trace, built, dumped, todo, job, broke,
                   exit, history>>
-------------------------------------------------------------------------------
(* Specification *)

CONSTANT Directed       \* directed_testlist.yaml as the repository has it

ASSUME DirectedAssumption == Directed \in Seq(Entries)

Init ==
    /\ dlist = Directed
    /\ gen = <<>>
    /\ phase = "idle"
    /\ req = NoRequest
    /\ md = NoMd
    /\ trr = <<>> /\ log = <<>> /\ trace = <<>> /\ sims = <<>> /\ checked = {} /\ won = {}
    /\ have = {} /\ built = {} /\ ood = {} /\ todo = {}
    /\ dumped = [k \in Dumps |-> <<>>]
    /\ job = <<>>
    /\ broke = FALSE
    /\ exit = "none"
    /\ plan \in Plans

\* A script that runs, or make itself, takes a step.
Script(g) ==
    \/ LockedEnter(g) \/ LockTimeout(g) \/ ExportMd(g) \/ LockedExit(g) \/ RunTool(g)
    \/ RunInstrGen(g) \/ CompileTest(g) \/ RunRtl(g) \/ CheckLogs(g)
Make ==
    \/ append_directed_testlist \/ Created \/ Parse \/ End
    \/ \E g \in todo : Touch(g) \/ StartLocked(g) \/ StartTest(g)
    \/ \E g \in DOMAIN job : Script(g)

User ==
    \/ GenStart \/ Begin \/ Kill \/ Clean
    \/ \E kind \in {"gen", "tb"} : Edit(kind)

\* The bounds are used up.
Halted == phase = "idle" /\ ~MoreCalls /\ UNCHANGED vars

Next == Make \/ User \/ Halted

\* Make and its scripts are not suspended, and every tool they call ends: the
\* simulations have a time limit.
Fairness == WF_vars(Make)
Spec == Init /\ [][Next]_vars /\ Fairness
-------------------------------------------------------------------------------
(* Properties *)

Kinds == LockedKinds \cup TestKinds
JobState == [at : {"wait", "held", "export", "run"}, snap : SUBSET LockedKinds, bad : BOOLEAN]
TrrState == [st : {"good", "torn"}, passed : {"None", "True", "False"},
             failure_mode : {"None", "NONE", "TIMEOUT", "FILE_ERROR", "LOG_ERROR"}]

\* Files and processes keep their shape; at most Jobs scripts run, each of
\* them of a target that make has decided to remake.
TypeOK ==
    /\ phase \in {"idle", "gen", "create", "parse", "make"}
    /\ md.st \in {"absent", "torn", "good"} /\ md.fields \subseteq LockedKinds
    /\ DOMAIN trr = {Key(t) : t \in Tests}
    /\ \A t \in DOMAIN trr : trr[t] \in TrrState
    /\ ood \subseteq Targets /\ todo \subseteq Targets
    /\ DOMAIN job \subseteq todo /\ Cardinality(DOMAIN job) <= Jobs
    /\ \A g \in DOMAIN job : job[g] \in JobState
    /\ exit \in {"none", "ok", "fail", "killed"}

\* LockedMetadata loses no update: the fields of a script that has released
\* the lock are in the metadata from then on, whichever scripts rewrote it
\* at the same time.
NoLostUpdate ==
    md.st = "good" =>
        \A kind \in LockedKinds \ {"cfg"} :
            G(kind) \in have \/ At(G(kind), "run") => kind \in md.fields

Plain(e) == Len(e.rtl_params) = (IF e.requires THEN 1 ELSE 0)
Compatible(cfg, e) ==
    (\A p \in Range(e.rtl_params) : Allows(cfg, p)) /\ (e.requires => e.rtl_params # <<>>)
Seeds(r, e) == r.seed .. r.seed + (IF r.iterations = <<>> THEN e.iterations ELSE r.iterations[1]) - 1
Wanted(r, entries, type, all) ==
    UNION {{[name |-> e.test, seed |-> s, type |-> type] : s \in Seeds(r, e)} :
               e \in {x \in entries : /\ x.iterations > 0
                                      /\ x.test \in r.test \/ all \cap r.test # {}
                                      /\ Compatible(ConfigFile[r.config], x)}}

\* What was asked for: the special name "all" runs all the tests.
DirectedEntries(items) == {Joined(items, t) : t \in Range(TestsOf(items))}
AskedFor(r, items) ==
    Wanted(r, Range(Testlist), "RISCVDV", {"all", "all_riscvdv"})
        \cup Wanted(r, DirectedEntries(items), "DIRECTED", {"all", "all_directed"})

\* The directed tests that nothing but "all" asks for: process_directed_testlist
\* does not know that name.
OnlyByAll(r, items) ==
    Wanted(r, DirectedEntries(items), "DIRECTED", {"all"})
        \ Wanted(r, DirectedEntries(items), "DIRECTED", {"all_directed"})

Distinct(list) == \A i, j \in DOMAIN list : list[i].test = list[j].test => i = j

\* get_tests_and_counts, filter_tests_by_config: all the seeds of a test that
\* was asked for and that the configuration supports run.  Nothing is said of
\* the directed tests that only "all" asks for, which the code forgets.  While
\* no entry has two parameters no other test runs, and every seed runs once
\* unless a list has a name twice.  (An entry with two is kept as soon as the
\* first one fits, and once for each that does; one that requires an empty set
\* is never kept.)
SelectionExact ==
    LET r == md.req
        random == process_riscvdv_testlist(r.test, r.iterations)
        directed == process_directed_testlist(r.test, r.iterations, md.items)
    IN md.st = "good" =>
        /\ AskedFor(r, md.items) \ OnlyByAll(r, md.items) \subseteq Tests
        /\ (\A e \in Range(Matched(r, md.items)) : Plain(e)) =>
              /\ Tests \subseteq AskedFor(r, md.items)
              /\ Distinct(random) /\ Distinct(directed) => IsInjective(md.tests)

\* check_logs.py gives a test its verdict: it has passed if and only if its
\* one simulation ended in time and left a log that passes.  (A test that is
\* simulated again keeps passed and failure_mode of the time before.)
VerdictOfLog ==
    \A t \in checked :
        sims[t] = 1 =>
            (trr[t].passed = "True" <=> LogPasses(t) /\ trr[t].failure_mode # "TIMEOUT")

\* make only succeeds when all tests have passed.  Each of them has then left
\* a log that passes, the last one if it was simulated once, whatever was
\* killed, repeated or skipped before.
Green == phase = "idle" /\ exit = "ok" /\ md.st = "good"
GreenMeansPassed ==
    Green => \A t \in DOMAIN trr :
                 /\ trr[t].passed = "True" /\ t \in won
                 /\ sims[t] = 1 => LogPasses(t)

\* check_logs.py: a log in which something was found means that the test is
\* marked as failed, so that make does not succeed on it, no matter how often
\* the test was simulated.
GreenIsCurrent == Green => \A t \in DOMAIN trr : LogPasses(t)

\* A test is simulated with a testbench and a binary that are newer than all
\* they are made from, and every parameter of the configuration reaches the
\* simulator exactly once, at compile time or at run time.
Simulates(g) == g.kind = "log" /\ At(g, "run") /\ g \notin DOMAIN job' /\ phase' = "make"
FreshInputs ==
    [][\A g \in DOMAIN job : Simulates(g) =>
          LET late == XOpts(md.req.simulator, "sim", known_fields) IN
          /\ {G("tb"), T("bin", g)} \cap ood = {}
          /\ T("bin", g) \in have
          /\ built \cap late = {} /\ built \cup late = DOMAIN known_fields]_vars

\* Every make ends, also when its scripts wait for the same lock and when one
\* of them fails.
SessionEnds == phase # "idle" ~> phase = "idle"
===============================================================================
