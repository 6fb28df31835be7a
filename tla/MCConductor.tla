------------------------------ MODULE MCConductor ------------------------------
(***************************************************************************)
(* Two steps: step 0 has the properties a and b and a skipped one, step 1  *)
(* the name a again and a cover property.  Two engines that have grown     *)
(* leave less than the memory buffer, so that the younger one is killed    *)
(* and restarted.  One alone fits, except the entry of step 1 in the last  *)
(* of the files: with a tenth and the buffer it needs all of the memory.   *)
(***************************************************************************)
EXTENDS Conductor

MCKinds == {"aiger", "engine", "sim"}
MCCodes == [aiger |-> {0, 1}, engine |-> {10, 20, 30}, sim |-> {0}]
MCPeak  == [aiger |-> 0, engine |-> 60, sim |-> 0]

Property(s, n, c) == [step |-> s, name |-> n, cover |-> c]
MCAsserts == <<Property(0, "a", FALSE), Property(0, "b", FALSE), Property(0, "skip", FALSE),
               Property(1, "a", FALSE), Property(1, "c_Cover", TRUE)>>

\* The command lines: prove as continuous integration calls it, and the
\* others as variations of a default.
Default == [mode |-> "prove", fresh |-> FALSE, no_store |-> FALSE, by_step |-> FALSE,
            properties |-> <<>>, missing |-> FALSE, start |-> 0, hard |-> FALSE,
            no_run |-> FALSE, no_kill |-> FALSE, check_complete |-> FALSE, max_mem |-> 0]
CI == [Default EXCEPT !.check_complete = TRUE, !.max_mem = 160]
Explore == [Default EXCEPT !.mode = "explore"]
Hard == [Explore EXCEPT !.hard = TRUE]
MCArgSets ==
    {CI, [CI EXCEPT !.by_step = TRUE, !.no_kill = TRUE], [Default EXCEPT !.properties = <<"z">>],
     [Hard EXCEPT !.properties = <<"a", "b">>, !.no_run = TRUE],
     [Hard EXCEPT !.properties = <<"a">>, !.fresh = TRUE],
     [Hard EXCEPT !.start = 1, !.no_store = TRUE],
     [Explore EXCEPT !.missing = TRUE],
     [Default EXCEPT !.mode = "bmc", !.properties = <<"b">>, !.missing = TRUE],
     [Default EXCEPT !.mode = "bmc", !.missing = TRUE],
     [Default EXCEPT !.mode = "info"]}

File(f, s, Blocks, mem) ==
    [file |-> f, entries |-> {[step |-> s, props |-> P, mem |-> mem] : P \in Blocks}]
MCDisks ==
    {[s \in 0 .. 1 |-> File("absent", s, {}, 0)],
     [s \in 0 .. 1 |-> IF s = 0 THEN File("good", 0, {{"a"}}, 60) ELSE File("torn", 1, {}, 0)],
     [s \in 0 .. 1 |-> IF s = 0 THEN File("good", 0, {{"a", "b"}}, 60)
                       ELSE File("good", 1, {{"a"}}, 100)]}
===============================================================================
