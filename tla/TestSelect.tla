------------------------------- MODULE TestSelect -------------------------------
(***************************************************************************)
(* Which tests a regression of the core_ibex testbench runs: the Ibex      *)
(* configurations (util/ibex_config.py), the riscv-dv and the directed     *)
(* test lists, their selection by the TEST argument and their filter by    *)
(* the chosen configuration (metadata.py, directed_test_schema.py,         *)
(* ibex_cmd.py).                                                           *)
(*                                                                         *)
(* A yaml value is a pair <<type, text>>.  An operator that may raise an   *)
(* exception has a companion that says when it does.                       *)
(***************************************************************************)
EXTENDS Integers, Sequences, FiniteSets, SequencesExt

CONSTANTS
    known_fields,   \* parameter -> "bool", "int" or "str"
    ConfigFile,     \* ibex_configs.yaml: name -> (parameter -> value)
    Testlist        \* testlist.yaml: a sequence of test entries

(* An entry of a test list is a record                                     *)
(*   [test, iterations, rtl_params, requires, config, paths]:              *)
(* rtl_params is a sequence of <<parameter, allowed values>>, requires     *)
(* says whether the entry has that key at all.  The last two are of the    *)
(* directed list: the configuration the entry names and whether the files  *)
(* it names exist.  An entry of that list with an empty test is a          *)
(* configuration.                                                          *)
Entries ==
    [test : STRING, iterations : Int, rtl_params : Seq(STRING \X SUBSET (STRING \X STRING)),
     requires : BOOLEAN, config : STRING, paths : BOOLEAN]

ASSUME TestlistAssumption == Testlist \in Seq(Entries)

\* A list comprehension: the elements of the list that pass, in its order.
Those(list, Passes(_)) ==
    FlattenSeq([i \in DOMAIN list |-> IF Passes(list[i]) THEN <<list[i]>> ELSE <<>>])
-------------------------------------------------------------------------------
(* Ibex configurations *)

\* Python: 1 and True are equal, and different from '1'.
SameValue(a, b) == a[2] = b[2] /\ (a[1] = "str" <=> b[1] = "str")

\* read_bool, read_int, read_str: a bool is also an int.
Readable(fld, val) ==
    CASE known_fields[fld] = "bool" -> val[1] = "bool" \/ (val[1] = "int" /\ val[2] \in {"0", "1"})
      [] known_fields[fld] = "int"  -> val[1] \in {"bool", "int"}
      [] known_fields[fld] = "str"  -> val[1] = "str"

ValidConfig(yml) ==
    /\ DOMAIN yml = DOMAIN known_fields
    /\ \A fld \in DOMAIN known_fields : Readable(fld, yml[fld])

\* parse_config reads every configuration of the file, then takes one.
ParsesConfig(name) ==
    /\ \A n \in DOMAIN ConfigFile : ValidConfig(ConfigFile[n])
    /\ name \in DOMAIN ConfigFile

\* The values of RV32B that get_isas_for_config knows.
bitmanip_mapping ==
    {"ibex_pkg::RV32BNone", "ibex_pkg::RV32BBalanced",
     "ibex_pkg::RV32BOTEarlGrey", "ibex_pkg::RV32BFull"}
HasIsa(cfg) == cfg["RV32B"][2] \in bitmanip_mapping
-------------------------------------------------------------------------------
(* Matching the TEST argument, a set of words.  iterations is the sequence *)
(* with the ITERATIONS argument, empty when there is none.                 *)

Given(iterations) == IF iterations = <<>> THEN 0 ELSE iterations[1]
Repeated(e, n) == [e EXCEPT !.iterations = n]

\* process_regression_list of riscv-dv: the iterations of the command line
\* never revive an entry that the list has switched off.
process_riscvdv_testlist(words, iterations) ==
    LET all == {"all_riscvdv", "all"} \cap words # {}
        n == Given(iterations)
        match == Those(Testlist, LAMBDA e : (all \/ e.test \in words) /\ e.iterations > 0)
    IN [i \in DOMAIN match |-> IF n > 0 THEN Repeated(match[i], n) ELSE match[i]]

ConfigsOf(items) == Those(items, LAMBDA e : e.test = "")
TestsOf(items) == Those(items, LAMBDA e : e.test # "")

\* import_model gives a test the keys of the first configuration of its name,
\* its own keys first.
Joined(items, t) ==
    LET c == Those(ConfigsOf(items), LAMBDA e : e.config = t.config)[1]
    IN IF t.requires THEN t ELSE [t EXCEPT !.requires = c.requires, !.rtl_params = c.rtl_params]

\* An empty file, a test of an unknown configuration and an entry that breaks
\* the schema all end the process.
ImportRaises(items) ==
    \/ items = <<>>
    \/ \E t \in Range(TestsOf(items)) :
          \/ t.config \notin {c.config : c \in Range(ConfigsOf(items))}
          \/ t.iterations <= 0
    \/ \E e \in Range(items) : ~e.paths

\* 'all' does not select a directed test.
process_directed_testlist(words, iterations, items) ==
    LET match == Those(TestsOf(items), LAMBDA t : "all_directed" \in words \/ t.test \in words)
        n == Given(iterations)
        join(t) == Joined(items, IF n > 0 THEN Repeated(t, n) ELSE t)
    IN [i \in DOMAIN match |-> join(match[i])]
-------------------------------------------------------------------------------
(* filter_tests_by_config *)

Known(cfg, p) == p[1] \in DOMAIN cfg
Allows(cfg, p) == Known(cfg, p) /\ \E v \in p[2] : SameValue(v, cfg[p[1]])

\* The loop over the parameters appends the test once for every parameter it
\* has accepted, and stops at the first one it rejects.
Accepted(cfg, e) ==
    CHOOSE k \in 0 .. Len(e.rtl_params) :
        /\ \A i \in 1 .. k : Allows(cfg, e.rtl_params[i])
        /\ k < Len(e.rtl_params) => ~Allows(cfg, e.rtl_params[k + 1])
\* Mutant: a parameter that does not fit is skipped instead of rejected.
CopiesUnfiltered(cfg, e) == 1
Copies(cfg, e) == IF e.requires THEN Accepted(cfg, e) ELSE 1

FilterRaises(cfg, list) ==
    \E e \in Range(list) :
        LET k == Accepted(cfg, e)
        IN k < Len(e.rtl_params) /\ ~Known(cfg, e.rtl_params[k + 1])

filter_tests_by_config(cfg, list) ==
    FlattenSeq([i \in DOMAIN list |-> [j \in 1 .. Copies(cfg, list[i]) |-> list[i]]])
-------------------------------------------------------------------------------
(* The tests of a regression *)

Matched(r, items) ==
    process_riscvdv_testlist(r.test, r.iterations)
        \o process_directed_testlist(r.test, r.iterations, items)

\* get_tests_and_counts: the random tests, then the directed ones.
Counted(list, type) ==
    [i \in DOMAIN list |-> [test |-> list[i].test, count |-> list[i].iterations, type |-> type]]
get_tests_and_counts(r, items) ==
    LET kept(list) == filter_tests_by_config(ConfigFile[r.config], list)
    IN Counted(kept(process_riscvdv_testlist(r.test, r.iterations)), "RISCVDV")
       \o Counted(kept(process_directed_testlist(r.test, r.iterations, items)), "DIRECTED")

\* The errors that leave no metadata behind: _get_ibex_metadata, the schema,
\* no matching test, a mistyped parameter, nothing left after the filter.
CreateRaises(r, items) ==
    \/ r.iterations # <<>> /\ r.iterations[1] <= 0
    \/ r.seed < 0
    \/ ~ParsesConfig(r.config)
    \/ ~HasIsa(ConfigFile[r.config])
    \/ ImportRaises(items)
    \/ FilterRaises(ConfigFile[r.config], Matched(r, items))
    \/ get_tests_and_counts(r, items) = <<>>

\* tests_pickle_files: one TEST.SEED for every seed of every entry.
TestDotSeeds(r, items) ==
    LET tc == get_tests_and_counts(r, items)
    IN FlattenSeq([i \in DOMAIN tc |->
           [j \in 1 .. tc[i].count |-> [name |-> tc[i].test, seed |-> r.seed + j - 1,
                                       type |-> tc[i].type]]])
===============================================================================
