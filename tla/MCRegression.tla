------------------------------ MODULE MCRegression ------------------------------
(***************************************************************************)
(* Three configurations, three random tests and two directed ones (five    *)
(* after gen_testlist.py), two scripts at a time.  The directed test dl    *)
(* leaves every log of at most MaxLines lines, the other tests a few.      *)
(***************************************************************************)
EXTENDS Regression

CONSTANT MaxLines

MCFields == [RV32B |-> "str", PMPEnable |-> "bool", PMPGranularity |-> "int"]
Config(b, pmp) == [RV32B |-> <<"str", b>>, PMPEnable |-> pmp, PMPGranularity |-> <<"int", "0">>]
MCConfigFile ==
    [opentitan |-> Config("ibex_pkg::RV32BOTEarlGrey", <<"bool", "1">>),
     small     |-> Config("ibex_pkg::RV32BNone", <<"int", "0">>),
     odd       |-> Config("ibex_pkg::RV32BOdd", <<"bool", "0">>)]

Entry(test, n, params) ==
    [test |-> test, iterations |-> n, rtl_params |-> params, requires |-> params # <<>>,
     config |-> "", paths |-> TRUE]
Bitmanip == <<"RV32B", {<<"str", "ibex_pkg::RV32BFull">>, <<"str", "ibex_pkg::RV32BOTEarlGrey">>}>>
Pmp == <<"PMPEnable", {<<"int", "1">>}>>
MCTestlist ==
    <<Entry("r", 1, <<>>), Entry("rb", 1, <<Bitmanip>>), Entry("off", 0, <<>>)>>

Of(config, e) == [e EXCEPT !.config = config]
MCBase ==
    <<Of("c", Entry("", 0, <<Pmp>>)), Of("c", Entry("d", 1, <<>>)), Of("c", Entry("dl", 1, <<>>))>>
MCLists ==
    [base |-> MCBase,
     suite |-> <<Of("c", Entry("two", 1, <<Pmp, Bitmanip>>)), Of("c", Entry("typo", 1, <<<<"PMP", {}>>>>))>>,
     broken |-> <<Of("x", Entry("lost", 1, <<>>))>>]
MCGenArgs == {<<"suite">>, <<"broken">>}

Template(cmd, opts) == [cmd |-> <<cmd>>, opts |-> opts]
MCSimulatorYaml ==
    [xlm |-> [compile |-> Template({"core_ibex", "tb_dir", "cmp_opts", "cov_opts", "cosim_opts"},
                                   <<<<"cov_opts", {"xlm_cov_cfg_file", "dut_cov_rtl_path"}>>,
                                     <<"cosim_opts", {"ISS_LDFLAGS", "ISS_CFLAGS", "IBEX_ROOT"}>>>>),
              sim |-> Template({"test_dir", "tb_dir", "seed", "binary", "sim_opts", "cov_opts"},
                               <<<<"cov_opts", {"dir_shared_cov", "test_name"}>>>>),
              env_var |-> {"IBEX_ROOT"}],
     questa |-> [compile |-> Template({"core_ibex", "tb_build_log", "cmp_opts"}, <<>>),
                 sim |-> Template({"tb_dir", "sim_opts", "seed", "rtl_test", "binary", "cov_opts"},
                                  <<<<"cov_opts", {"tb_dir"}>>>>),
                 env_var |-> {}],
     dsim |-> [compile |-> Template({"DSIM", "tb_dir", "cmp_opts"}, <<>>),
               sim |-> Template({"DSIM", "seed", "binary", "sim_opts"}, <<>>),
               env_var |-> {"DSIM", "IBEX_ROOT"}],
     vcs |-> [compile |-> Template({"tb_dir", "cmp_opts", "ISS_LIBS"}, <<>>),
              sim |-> Template({"tb_dir", "binary", "seed", "sim_opts"}, <<>>),
              env_var |-> {}]]

Request(test, config, simulator, cov) ==
    [test |-> test, iterations |-> <<>>, seed |-> 1, config |-> config, simulator |-> simulator,
     cov |-> cov, waves |-> FALSE]
Rerun == Request({"d"}, "small", "xlm", FALSE)
Directed1(simulator, cov) == Request({"d"}, "opentitan", simulator, cov)
Random(simulator) == Request({"r"}, "opentitan", simulator, FALSE)
All2 == [Request({"all"}, "small", "xlm", FALSE) EXCEPT !.iterations = <<2>>]

\* A call of make, repeated with other arguments after an edit or a kill.
Once(r) == [calls |-> <<r>>, edits |-> 0, kills |-> 0, gens |-> 0]
Twice(r, again, edits) == [calls |-> <<r, again>>, edits |-> edits, kills |-> 1, gens |-> 0]
Listed(r) == [Once(r) EXCEPT !.kills = 1, !.gens = 1]
MCPlans ==
    {Twice(Request({"r", "d"}, "opentitan", "xlm", FALSE), Rerun, 0),
     Once(All2),
     Once(Request({"all"}, "opentitan", "xlm", FALSE)),
     Once(Request({"dl"}, "opentitan", "xlm", FALSE)),
     Once(Request({"d"}, "odd", "xlm", FALSE)),
     Once([Directed1("xlm", FALSE) EXCEPT !.iterations = <<0>>]),
     Once(Directed1("dsim", FALSE)),
     Once(Directed1("questa", TRUE)),
     Once(Random("questa")),
     Once(Directed1("vcs", TRUE)),
     [Twice(Directed1("xlm", TRUE), Rerun, 1) EXCEPT !.calls = Append(@, Directed1("xlm", TRUE))],
     Twice(Random("xlm"), Random("xlm"), 1),
     Listed(Request({"two"}, "opentitan", "xlm", FALSE)),
     Listed(Request({"typo"}, "opentitan", "xlm", FALSE)),
     Listed(Request({"all_directed"}, "small", "xlm", FALSE))}

\* One test, simulated again after an edit of the testbench.
MCGreenPlans == {[Twice(Random("xlm"), Random("xlm"), 1) EXCEPT !.kills = 0]}

Lines == {{}, {"error"}, {"error", "timeout"}, {"PASSED"}, {"FAILED"}}
Ran(l) == [log |-> l, trace |-> <<"instr", "ecall">>, timeout |-> FALSE]
Pass == Ran(<<{"PASSED"}>>)
Fail == Ran(<<{"error"}, {"FAILED"}>>)
NotStarted == [log |-> Missing, trace |-> Missing, timeout |-> FALSE]
Leaves ==
    [r |-> {Pass, Fail}, rb |-> {Pass}, off |-> {Pass}, two |-> {Pass}, typo |-> {Pass},
     lost |-> {Pass}, d |-> {Pass, Fail, NotStarted},
     dl |-> {Ran(l) : l \in UNION {[1 .. n -> Lines] : n \in 0 .. MaxLines}}
                \cup {NotStarted, [Pass EXCEPT !.timeout = TRUE],
                      [Pass EXCEPT !.trace = <<"other", "ecall", "instr">>]}]
MCOutcomes ==
    UNION {{[name |-> n, log |-> o.log, trace |-> o.trace, timeout |-> o.timeout] : o \in Leaves[n]} :
               n \in DOMAIN Leaves}
===============================================================================
