-------------------------------- MODULE LogCheck --------------------------------
(***************************************************************************)
(* The verdict of one simulated test: check_logs.py reads the trace of the *)
(* core and the UVM log (ibex_log_to_trace_csv.py) and fills in the test's *)
(* TestRunResult.                                                          *)
(*                                                                         *)
(* A log is a sequence of lines and a line the set of the markers found in *)
(* it: "error" (UVM_ERROR, UVM_FATAL or Error), "timeout" (the wall-clock  *)
(* message), "PASSED", "FAILED".  A trace is a sequence of lines that are  *)
(* "instr", "ecall" or "other".                                            *)
(***************************************************************************)
EXTENDS Integers, Sequences, SequencesExt

CONSTANT
    Missing         \* a file that is not on disk

\* What a simulation can leave in the two files.
LogLines == Seq(SUBSET {"error", "timeout", "PASSED", "FAILED"})
TraceLines == Seq({"instr", "ecall", "other"})

NoTrr == [st |-> "absent", passed |-> "None", failure_mode |-> "None"]
-------------------------------------------------------------------------------
(* ibex_log_to_trace_csv.py *)

\* _process_ibex_sim_log_fd counts the instructions up to the first ecall.
InstrCount(trace) ==
    LET count[i \in 1 .. Len(trace) + 1] ==
          IF i = Len(trace) + 1 THEN 0
          ELSE IF trace[i] = "ecall" THEN 0
          ELSE count[i + 1] + (IF trace[i] = "instr" THEN 1 ELSE 0)
    IN count[1]

\* process_ibex_sim_log raises a RuntimeError.
TraceRaises(trace) == trace = Missing \/ InstrCount(trace) = 0

\* Mutant: an error line does not fail the test by itself.
ReadLineNoError(s, line) ==
    IF s.over THEN s
    ELSE [test_result_seen |-> s.test_result_seen \/ {"PASSED", "FAILED"} \cap line # {},
          passed     |-> s.passed \/ "PASSED" \in line,
          failed     |-> s.failed \/ "FAILED" \in line,
          error_line |-> IF "error" \in line THEN <<line>> ELSE s.error_line,
          over       |-> "FAILED" \in line]

\* One line of the loop of check_ibex_uvm_log; over is its break.
ReadLine(s, line) ==
    LET error == "error" \in line /\ ~s.test_result_seen
    IN IF s.over THEN s
       ELSE [test_result_seen |-> s.test_result_seen \/ {"PASSED", "FAILED"} \cap line # {},
             passed     |-> s.passed \/ "PASSED" \in line,
             failed     |-> s.failed \/ error \/ "FAILED" \in line,
             error_line |-> IF error THEN <<line>> ELSE s.error_line,
             over       |-> "FAILED" \in line]

NothingRead == [test_result_seen |-> FALSE, passed |-> FALSE, failed |-> FALSE,
                error_line |-> <<>>, over |-> FALSE]
ReadLog(log) ==
    LET read[i \in 0 .. Len(log)] == IF i = 0 THEN NothingRead ELSE ReadLine(read[i - 1], log[i])
    IN read[Len(log)]

\* The failure mode is looked up in the last error line, which does not exist
\* when the log says FAILED and nothing before it is an error: a TypeError.
UvmRaises(log) == LET s == ReadLog(log) IN s.failed /\ s.error_line = <<>>

check_ibex_uvm_log(log) ==
    LET s == ReadLog(log)
    IN [passed |-> s.passed /\ ~s.failed,
        failure_mode |-> IF ~s.failed THEN "NONE"
                         ELSE IF "timeout" \in s.error_line[1] THEN "TIMEOUT" ELSE "LOG_ERROR"]
-------------------------------------------------------------------------------
(* check_logs.py *)

FileError(trr) == [trr EXCEPT !.passed = "False", !.failure_mode = "FILE_ERROR"]

\* A test that the log fails keeps the value that passed had.
compare_test_run(trr, trace, log) ==
    IF trr.failure_mode = "TIMEOUT" THEN [trr EXCEPT !.passed = "False"]
    ELSE IF TraceRaises(trace) \/ log = Missing THEN FileError(trr)
    ELSE LET uvm == check_ibex_uvm_log(log)
         IN IF uvm.passed THEN [trr EXCEPT !.passed = "True"]
            ELSE [trr EXCEPT !.failure_mode = uvm.failure_mode]

CompareRaises(trr, trace, log) ==
    /\ trr.failure_mode # "TIMEOUT"
    /\ ~TraceRaises(trace)
    /\ log # Missing
    /\ UvmRaises(log)
===============================================================================
