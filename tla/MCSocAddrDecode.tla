-------------------------- MODULE MCSocAddrDecode --------------------------
(***************************************************************************)
(* Instances of SocAddrDecode for TLC.  One request stands for each way an *)
(* access can be decoded: memory read and write, the two control bits, a   *)
(* register read, a privileged range without registers, a peripheral.     *)
(***************************************************************************)
EXTENDS SocAddrDecode

CONSTANTS w1, zero, one

Req(reg, off, we, val) == [reg |-> reg, off |-> off, we |-> we, val |-> val]

MCDataReqs ==
    {Req("ISRAM", w1, FALSE, zero), Req("ISRAM", w1, TRUE, one),
     Req("DSRAM", w1, FALSE, zero), Req("DSRAM", w1, TRUE, one),
     Req("CTRL", "CTRL0", TRUE, one), Req("CTRL", "CTRL1", TRUE, one),
     Req("CTRL", "STATUS0", FALSE, zero),
     Req("SHA", "any", TRUE, zero),
     Req("APB", "any", TRUE, zero)}

MCFetchReqs ==
    {[reg |-> "BOOTROM", off |-> "any"], [reg |-> "ISRAM", off |-> w1],
     [reg |-> "DBG", off |-> "any"]}

\* Without the debug ROM.
MCCodeReqs == {r \in MCFetchReqs : r.reg # "DBG"}

\* The fetch port's liveness needs the slow and the fast subordinates of the
\* data port, not every register.
MCLiveDataReqs ==
    {Req("ISRAM", w1, TRUE, one), Req("CTRL", "CTRL1", TRUE, one),
     Req("APB", "any", TRUE, zero)}

\* fans serves liveness only, and no action reads it: states that differ in
\* nothing else are one for the safety run.
SafetyView == <<core, demux, slave, ctrl, env, dexp, fexp, image, unanswered>>
=============================================================================
