------------------------------- MODULE ObiDemux -------------------------------
(***************************************************************************)
(* The combinational part of obi_demux and of the delta_counter that it    *)
(* uses to count the transactions in flight.  A demux forwards the request *)
(* of one manager to the subordinate that sel names, and returns to the    *)
(* manager the response of the subordinate that select_q names: the one    *)
(* that was granted last.                                                  *)
(*                                                                         *)
(* The counter has CounterWidth = idx_width(NumMaxTrans) bits, so it holds *)
(* 0 .. CounterMod - 1: with NumMaxTrans = 2 that is one bit.              *)
(***************************************************************************)
EXTENDS Naturals

CONSTANT CounterMod     \* 2^CounterWidth, the number of values of in_flight

ASSUME CounterModAssumption == CounterMod \in Nat /\ CounterMod >= 2

Count == 0 .. CounterMod - 1

\* The counter is enabled by cnt_up ^ cnt_down; it overflows when it would
\* leave its range in either direction.
Overflow(q, up, down) ==
    /\ up # down
    /\ IF down THEN q = 0 ELSE q + 1 = CounterMod

\* Mutant: the counter does not wrap.
NextCountUnbounded(q, up, down) ==
    CASE up = down          -> q
      [] down /\ ~up        -> IF q = 0 THEN 0 ELSE q - 1
      [] up /\ ~down        -> q + 1

\* The counter after the clock edge: saturating at 0, wrapping at CounterMod.
NextCount(q, up, down) ==
    CASE up = down                        -> q
      [] down /\ q # 0 /\ ~up             -> q - 1
      [] down /\ q = 0 /\ ~up             -> 0
      [] up /\ ~down /\ q + 1 # CounterMod -> q + 1
      [] OTHER                            -> 0

\* Mutant: another subordinate is selected while an answer is outstanding.
PassAlways(sel, select_q, q, down) == TRUE

\* The demux may forward to another subordinate than the last one only when
\* nothing is in flight, or when the last answer arrives in this very cycle.
Pass(sel, select_q, q, down) ==
    \/ sel = select_q
    \/ q = 0
    \/ q = 1 /\ down

(***************************************************************************)
(* overflow gates the request, the forwarded request raises cnt_up, and    *)
(* cnt_up is an input of overflow: a combinational loop.  ovOpen is the    *)
(* overflow output that the counter computes from the signals an open gate *)
(* (overflow = 0) produces, ovShut the one for a shut gate.  The loop      *)
(* settles in a value that reproduces itself.  When there is none it       *)
(* oscillates, and the flip-flops may sample either value.                 *)
(***************************************************************************)
StableGate(ovOpen, ovShut) == {ov \in BOOLEAN : ov <=> IF ov THEN ovShut ELSE ovOpen}

Settle(ovOpen, ovShut) ==
    IF StableGate(ovOpen, ovShut) = {} THEN BOOLEAN ELSE StableGate(ovOpen, ovShut)
===============================================================================
