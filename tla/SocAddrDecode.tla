---------------------------- MODULE SocAddrDecode ----------------------------
(***************************************************************************)
(* The access-control core of the SoC: soc_addr_decode with its data and   *)
(* fetch demultiplexers, the ISRAM arbiter, the error responder, the       *)
(* control registers (soc_ctrl_regs), the memories (soc_sram, soc_bootrom) *)
(* and the OBI-to-APB bridge behind it.                                    *)
(*                                                                         *)
(* Between two clock edges the core may raise a data or a fetch request    *)
(* (held until it is granted) and the environment may move the dbg_mode    *)
(* and fw_verified inputs.  Clock is the clock edge: it evaluates the      *)
(* combinational network on the live requests, hands the responses of this *)
(* cycle to the core and loads every register.                             *)
(*                                                                         *)
(* An address is a region of the memory map and an offset in it: a word of *)
(* a memory or a control register.  A byte of data that no property tells  *)
(* apart is dropped: a word holds a value of Vals, and Ones are the values *)
(* that have bit 0 set (with be[0]).                                       *)
(***************************************************************************)
EXTENDS Sequences, ObiDemux

CONSTANTS Words,          \* word addresses of ISRAM and of DSRAM
          Vals,           \* values of a word
          Ones,           \* the values of Vals whose bit 0 is set
          NoReq,          \* no request is raised
          DataReqs,       \* the data requests of the core
          FetchReqs,      \* the instruction fetches of the core
          MaxOutstanding  \* requests the core keeps unanswered (Ibex: 2)

CtrlRegs == {"CTRL0", "STATUS0", "BOOT_STATUS", "CTRL1"}

\* Regions that hold no state of this module: a request names only the region.
Opaque == {"BOOTROM", "BUF", "SHA", "PLIC", "DBG", "APB", "UNMAPPED"}

DataRequest ==
         [reg : {"ISRAM", "DSRAM"}, off : Words,    we : BOOLEAN, val : Vals]
    \cup [reg : {"CTRL"},           off : CtrlRegs, we : BOOLEAN, val : Vals]
    \cup [reg : Opaque,             off : {"any"},  we : BOOLEAN, val : Vals]

FetchRequest ==
         [reg : {"ISRAM"},                                    off : Words]
    \cup [reg : {"BOOTROM", "DBG", "UNMAPPED"}, off : {"any"}]

ASSUME BusAssumption ==
    /\ Ones \subseteq Vals
    /\ DataReqs \subseteq DataRequest /\ FetchReqs \subseteq FetchRequest
    /\ NoReq \notin DataRequest \cup FetchRequest
    /\ MaxOutstanding \in Nat \ {0}

\* The subordinates that answer one cycle after the grant.
Slaves == {"BOOTROM", "ISRAM", "DSRAM", "CTRL", "DBG", "ERR"}

\* A word on its way to the core: who produced it, and its value (for a
\* control register the set of its bits that are 1; {} when immaterial).
StatusBits == {"lock", "verified", "boot_done"}
Data       == [src : Slaves \cup {"APB"}, v : Vals \cup SUBSET StatusBits]
From(s, v) == [src |-> s, v |-> v]

VARIABLES
    dreq, freq,             \* data and fetch request on the core's ports
    dsel, dcnt,             \* data demux: select_q, in_flight
    fsel, fcnt,             \* fetch demux: select_q, in_flight
    rvalid, rdata,          \* response registers of the one-cycle slaves
    resp_is_data_q,         \* isram_resp_is_data_q: who owns ISRAM's answer
    fetch_blocked_q,        \* isram_fetch_blocked_q
    in_progress,            \* obi_to_apb: tsxn_in_progress
    isram, dsram,           \* memory contents
    isram_lock, boot_done,  \* soc_ctrl_regs
    dbg_mode, fw_verified,  \* inputs from the debug module and the crypto unit
    dexp, fexp,             \* history: accepted requests not yet answered
    fans,                   \* history: the last clock edge brought a fetch answer
    image,                  \* history: ISRAM as it was when the lock was set
    unanswered              \* history: a fetch went to a port that may not answer

core  == <<dreq, freq>>
demux == <<dsel, dcnt, fsel, fcnt>>
slave == <<rvalid, rdata, resp_is_data_q, fetch_blocked_q, in_progress, isram, dsram>>
ctrl  == <<isram_lock, boot_done>>
env   == <<dbg_mode, fw_verified>>
hist  == <<dexp, fexp, fans, image, unanswered>>
vars  == <<core, demux, slave, ctrl, env, hist>>
-------------------------------------------------------------------------------
(* Access policy and address decode *)

\* Mutant: a debug session may write the privileged ranges too.
PrivDeniedUnlessDebug(r) == r.reg \in {"CTRL", "BUF", "SHA"} /\ boot_done /\ ~dbg_mode

\* A privileged range is written only in the boot phase, and read in the boot
\* phase or under a debug session.
PrivDenied(r) ==
    /\ r.reg \in {"CTRL", "BUF", "SHA"}
    /\ boot_done
    /\ r.we \/ ~dbg_mode

\* The data port reaches ISRAM, DSRAM, CTRL and APB; all else is an error.
DataSel(r) ==
    CASE r.reg \in {"ISRAM", "DSRAM", "APB"}    -> r.reg
      [] r.reg = "CTRL" /\ ~PrivDenied(r)       -> "CTRL"
      [] OTHER                                  -> "ERR"

\* Every fetch outside ISRAM and the debug module goes to the boot ROM.
FetchSel(r) == IF r.reg \in {"ISRAM", "DBG"} THEN r.reg ELSE "BOOTROM"

\* Mutant: the lock does not reach the write enable.
IsramWritableLocked == ~dbg_mode

\* ISRAM is not written once locked, nor ever in a debug session.
IsramWritable == ~isram_lock /\ ~dbg_mode
-------------------------------------------------------------------------------
(* The data port in the current cycle; pready is the APB peripheral's. *)

DataRvalid(pready) ==
    CASE dsel = "APB"     -> in_progress /\ pready
      [] dsel = "ISRAM"   -> rvalid["ISRAM"] /\ resp_is_data_q
      [] dsel = "BOOTROM" -> FALSE
      [] OTHER            -> rvalid[dsel]

\* Mutant: the bridge grants while a transfer is in progress.
DataGntWhileBusy(sel) == TRUE

\* A request that passes the demux is granted at once, except by a busy bridge.
DataGnt(sel) == sel = "APB" => ~in_progress

DataPass(pready) ==
    /\ dreq # NoReq
    /\ Pass(DataSel(dreq), dsel, dcnt, DataRvalid(pready))

DataUp(pready) == DataPass(pready) /\ DataGnt(DataSel(dreq))

DataOvOpen(pready) == Overflow(dcnt, DataUp(pready), DataRvalid(pready))
DataOvShut(pready) == Overflow(dcnt, FALSE, DataRvalid(pready))
DataGate(pready)   == Settle(DataOvOpen(pready), DataOvShut(pready))

\* The request is accepted when the gate is open (ov = FALSE).
DataAccept(pready, ov) == ~ov /\ DataUp(pready)

\* The data port has a request at ISRAM in this cycle.
IsramData(pready, ov) ==
    /\ DataAccept(pready, ov)
    /\ DataSel(dreq) = "ISRAM"

\* The ISRAM error flag is computed from the request that is live when the
\* answer arrives.  (An APB answer carries the peripheral's pslverr.)
DataErr(pready, ov) ==
    CASE dsel = "ERR"   -> TRUE
      [] dsel = "ISRAM" -> IsramData(pready, ov) /\ dreq.we /\ ~IsramWritable
      [] OTHER          -> FALSE

DataRdata == IF dsel = "APB" THEN From("APB", {}) ELSE rdata[dsel]
-------------------------------------------------------------------------------
(* The fetch port; busy says that the data port uses ISRAM in this cycle.   *)
(* fwd says that the fetch request is forwarded by the demux.               *)

FetchAtIsram(busy, fwd) == fwd /\ FetchSel(freq) = "ISRAM" /\ ~busy
FetchAtDbg(fwd)         == fwd /\ FetchSel(freq) = "DBG"

FetchRvalid(busy, fwd) ==
    CASE fsel = "BOOTROM" -> rvalid["BOOTROM"]
      [] fsel = "DBG"     -> rvalid["DBG"] /\ FetchAtDbg(fwd)
      [] fsel = "ISRAM"   -> IF resp_is_data_q
                             THEN /\ FetchAtIsram(busy, fwd)
                                  /\ ~fw_verified /\ fetch_blocked_q
                             ELSE rvalid["ISRAM"]

\* Mutant: the arbiter grants the fetch although data uses ISRAM.
FetchGntAlways(busy) == TRUE

\* Data wins at ISRAM.  A fetch of unverified firmware is granted (and blocked).
FetchGnt(busy) == FetchSel(freq) = "ISRAM" => ~busy

FetchPass(busy) ==
    /\ freq # NoReq
    /\ Pass(FetchSel(freq), fsel, fcnt, FetchRvalid(busy, FALSE))

FetchUp(busy) == FetchPass(busy) /\ FetchGnt(busy)

FetchOvOpen(busy) == Overflow(fcnt, FetchUp(busy), FetchRvalid(busy, FetchPass(busy)))
FetchOvShut(busy) == Overflow(fcnt, FALSE, FetchRvalid(busy, FALSE))
FetchGate(busy)   == Settle(FetchOvOpen(busy), FetchOvShut(busy))

\* A blocked fetch is answered DEAD_BEEF with an error.
FetchErr   == fsel = "ISRAM" /\ resp_is_data_q
FetchRdata == IF FetchErr THEN From("ERR", {}) ELSE rdata[fsel]
-------------------------------------------------------------------------------
(* What the accepted requests are answered, whenever the answer comes *)

CtrlBits(reg) ==
    CASE reg = "CTRL0"       -> IF isram_lock THEN {"lock"} ELSE {}
      [] reg = "STATUS0"     -> (IF isram_lock THEN {"lock"} ELSE {})
                                \cup (IF fw_verified THEN {"verified"} ELSE {})
      [] reg = "BOOT_STATUS" -> IF boot_done THEN {"boot_done"} ELSE {}
      [] reg = "CTRL1"       -> {}

\* The word that subordinate s loads for the data request r.  A write that
\* ISRAM refuses is a read for the memory.
DataWord(s, r) ==
    CASE s = "ISRAM" -> From(s, IF r.we /\ IsramWritable THEN {} ELSE isram[r.off])
      [] s = "DSRAM" -> From(s, IF r.we THEN {} ELSE dsram[r.off])
      [] s = "CTRL"  -> From(s, IF r.we THEN {} ELSE CtrlBits(r.off))
      [] OTHER       -> From(s, {})

FetchWord(r) ==
    IF FetchSel(r) = "ISRAM" THEN From("ISRAM", isram[r.off])
                             ELSE From(FetchSel(r), {})

\* History: the answer that the accepted request r is entitled to.
DataDue(r) ==
    [word |-> DataWord(DataSel(r), r),
     err  |-> \/ DataSel(r) = "ERR"
              \/ DataSel(r) = "ISRAM" /\ r.we /\ ~IsramWritable]

FetchDue(r) ==
    [word |-> IF FetchSel(r) = "ISRAM" /\ ~fw_verified THEN From("ERR", {}) ELSE FetchWord(r),
     err  |-> FetchSel(r) = "ISRAM" /\ ~fw_verified]

\* History: the answers owed after a cycle with an answer and an acceptance.
Owed(due, answered, accepted, entry) ==
    LET rest == IF answered /\ due # <<>> THEN Tail(due) ELSE due
    IN  IF accepted THEN Append(rest, entry) ELSE rest
-------------------------------------------------------------------------------
Init ==
    /\ dreq = NoReq /\ freq = NoReq
    /\ dsel = "BOOTROM" /\ dcnt = 0
    /\ fsel = "BOOTROM" /\ fcnt = 0
    /\ rvalid = [s \in Slaves |-> FALSE]
    /\ rdata  = [s \in Slaves |-> From(s, {})]
    /\ resp_is_data_q = FALSE /\ fetch_blocked_q = FALSE
    /\ in_progress = FALSE
    /\ isram \in [Words -> Vals] /\ dsram \in [Words -> Vals]
    /\ isram_lock = FALSE /\ boot_done = FALSE
    /\ dbg_mode = FALSE /\ fw_verified = FALSE
    /\ dexp = <<>> /\ fexp = <<>>
    /\ fans = FALSE
    /\ image = isram
    /\ unanswered = FALSE

\* The core raises a data request.
RaiseData(r) ==
    /\ dreq = NoReq
    /\ Len(dexp) < MaxOutstanding
    /\ dreq' = r
    /\ UNCHANGED <<freq, demux, slave, ctrl, env, hist>>

\* The core raises an instruction fetch.
RaiseFetch(r) ==
    /\ freq = NoReq
    /\ Len(fexp) < MaxOutstanding
    /\ freq' = r
    /\ UNCHANGED <<dreq, demux, slave, ctrl, env, hist>>

\* The core enters or leaves debug mode.
ToggleDebug ==
    /\ dbg_mode' = ~dbg_mode
    /\ UNCHANGED <<core, demux, slave, ctrl, fw_verified, hist>>

\* The crypto unit reports a valid firmware signature.
Verify ==
    /\ ~fw_verified
    /\ fw_verified' = TRUE
    /\ UNCHANGED <<core, demux, slave, ctrl, dbg_mode, hist>>
-------------------------------------------------------------------------------
(* The clock edge, one operator per group of registers.  acc and facc say   *)
(* that the data and the fetch request are accepted in this cycle.          *)

DataDemuxEdge(acc, answered) ==
    /\ dsel' = IF acc THEN DataSel(dreq) ELSE dsel
    /\ dcnt' = NextCount(dcnt, acc, answered)
    /\ dreq' = IF acc THEN NoReq ELSE dreq

FetchDemuxEdge(facc, answered) ==
    /\ fsel' = IF facc THEN FetchSel(freq) ELSE fsel
    /\ fcnt' = NextCount(fcnt, facc, answered)
    /\ freq' = IF facc THEN NoReq ELSE freq

\* soc_ctrl_regs: both bits are set by a write of 1 and never cleared.
CtrlEdge(acc) ==
    LET writes(reg) == /\ acc /\ DataSel(dreq) = "CTRL"
                       /\ dreq.we /\ dreq.off = reg /\ dreq.val \in Ones
    IN  /\ isram_lock' = (isram_lock \/ writes("CTRL0"))
        /\ boot_done'  = (boot_done \/ writes("CTRL1"))

\* soc_sram, twice.
MemEdge(acc) ==
    LET stores(s) == acc /\ DataSel(dreq) = s /\ dreq.we
    IN  /\ isram' = IF stores("ISRAM") /\ IsramWritable
                    THEN [isram EXCEPT ![dreq.off] = dreq.val] ELSE isram
        /\ dsram' = IF stores("DSRAM")
                    THEN [dsram EXCEPT ![dreq.off] = dreq.val] ELSE dsram

\* Mutant: a fetch reaches ISRAM before the firmware is verified.
FetchAtUnverified(s, facc) == facc /\ FetchSel(freq) = s

\* Slave s is given a request: by the data port, or by the fetch port, whose
\* request does not reach ISRAM before the firmware is verified.
DataAt(s, acc) == acc /\ DataSel(dreq) = s
FetchAt(s, facc) ==
    /\ facc
    /\ FetchSel(freq) = s
    /\ s = "ISRAM" => fw_verified

\* Response registers.  The word is visible only with rvalid, so an idle
\* slave's is not kept.
ResponseEdge(acc, facc) ==
    /\ rvalid' = [s \in Slaves |-> DataAt(s, acc) \/ FetchAt(s, facc)]
    /\ rdata'  = [s \in Slaves |-> IF DataAt(s, acc) THEN DataWord(s, dreq)
                                 ELSE IF FetchAt(s, facc) THEN FetchWord(freq)
                                                          ELSE From(s, {})]

\* Mutant: the owner of ISRAM's answer is not remembered.
ArbiterEdgeForgetful(acc, facc) ==
    /\ resp_is_data_q' = FALSE
    /\ fetch_blocked_q' = (facc /\ FetchSel(freq) = "ISRAM" /\ ~fw_verified)

\* The arbiter's registers: who owns ISRAM's next answer, and that a fetch of
\* unverified firmware was live.
ArbiterEdge(acc, facc) ==
    /\ resp_is_data_q' = IF DataAt("ISRAM", acc) \/ FetchAt("ISRAM", facc)
                         THEN DataAt("ISRAM", acc) ELSE resp_is_data_q
    /\ fetch_blocked_q' = (facc /\ FetchSel(freq) = "ISRAM" /\ ~fw_verified)

\* The bridge is busy from the grant to the peripheral's pready.
BridgeEdge(acc, pready) ==
    in_progress' = IF in_progress THEN ~pready ELSE DataAt("APB", acc)

\* Did the core sample a fetch answer at this edge, and what it is still owed.
HistoryEdge(acc, facc, drv, frv) ==
    /\ fans' = frv
    /\ dexp' = Owed(dexp, drv, acc, DataDue(dreq))
    /\ fexp' = Owed(fexp, frv, facc, FetchDue(freq))
    /\ image' = IF isram_lock THEN image ELSE isram'
    /\ unanswered' =
         \/ unanswered
         \/ facc /\ FetchSel(freq) = "DBG"
         \/ facc /\ FetchSel(freq) = "ISRAM" /\ ~fw_verified

ClockWith(pready, ov, fov) ==
    LET acc  == DataAccept(pready, ov)
        drv  == DataRvalid(pready)
        busy == IsramData(pready, ov)
        fwd  == ~fov /\ FetchPass(busy)
        facc == fwd /\ FetchGnt(busy)
        frv  == FetchRvalid(busy, fwd)
    IN  /\ DataDemuxEdge(acc, drv)
        /\ FetchDemuxEdge(facc, frv)
        /\ CtrlEdge(acc)
        /\ MemEdge(acc)
        /\ ResponseEdge(acc, facc)
        /\ ArbiterEdge(acc, facc)
        /\ BridgeEdge(acc, pready)
        /\ HistoryEdge(acc, facc, drv, frv)
        /\ UNCHANGED env

ClockReady(pready) ==
    \E ov \in DataGate(pready) :
        \E fov \in FetchGate(IsramData(pready, ov)) :
            ClockWith(pready, ov, fov)

Clock == \E pready \in BOOLEAN : ClockReady(pready)

Next ==
    \/ \E r \in DataReqs : RaiseData(r)
    \/ \E r \in FetchReqs : RaiseFetch(r)
    \/ ToggleDebug
    \/ Verify
    \/ Clock

Spec == Init /\ [][Next]_vars

\* The clock keeps running, and an addressed peripheral eventually raises
\* pready (an unmapped APB address is answered at once).
Fairness == WF_vars(Clock) /\ SF_vars(in_progress /\ ClockReady(TRUE))

FairSpec == Spec /\ Fairness

\* The same, with a prefetch buffer that fetches whenever it has room.
FetchFairSpec == FairSpec /\ WF_vars(\E r \in FetchReqs : RaiseFetch(r))
-------------------------------------------------------------------------------
(* Properties *)

DueAnswer == [word : Data, err : BOOLEAN]

\* Type correctness of the registers and of the history.
TypeOK ==
    /\ dreq \in DataRequest \cup {NoReq} /\ freq \in FetchRequest \cup {NoReq}
    /\ dsel \in Slaves \cup {"APB"} /\ fsel \in {"BOOTROM", "ISRAM", "DBG"}
    /\ dcnt \in Count /\ fcnt \in Count
    /\ rvalid \in [Slaves -> BOOLEAN] /\ rdata \in [Slaves -> Data]
    /\ resp_is_data_q \in BOOLEAN /\ fetch_blocked_q \in BOOLEAN /\ in_progress \in BOOLEAN
    /\ isram \in [Words -> Vals] /\ dsram \in [Words -> Vals] /\ image \in [Words -> Vals]
    /\ isram_lock \in BOOLEAN /\ boot_done \in BOOLEAN
    /\ dbg_mode \in BOOLEAN /\ fw_verified \in BOOLEAN
    /\ dexp \in Seq(DueAnswer) /\ fexp \in Seq(DueAnswer)
    /\ fans \in BOOLEAN /\ unanswered \in BOOLEAN

\* Every data response, whatever requests are live when it arrives, belongs to
\* the oldest accepted request and carries the word its subordinate held when
\* the request was accepted; but for ISRAM and APB it reports an error exactly
\* when the request was unmapped or denied.
DataInOrder ==
    \A pready \in BOOLEAN : DataRvalid(pready) =>
        /\ dexp # <<>>
        /\ DataRdata = Head(dexp).word
        /\ dsel \notin {"ISRAM", "APB"} =>
              \A ov \in DataGate(pready) : DataErr(pready, ov) = Head(dexp).err

\* The data demux counts exactly the requests that are owed an answer, and its
\* combinational overflow loop has one and only one stable value.
DataLoopSettles ==
    /\ dcnt = Len(dexp)
    /\ \A pready \in BOOLEAN :
          \E ov \in BOOLEAN : StableGate(DataOvOpen(pready), DataOvShut(pready)) = {ov}

\* As long as every accepted fetch went to the boot ROM or to verified
\* firmware, fetch responses are in order and carry the right word, although
\* data accesses to ISRAM are arbitrated in between, and the fetch demux's
\* overflow loop settles.
FetchInOrder ==
    ~unanswered => \A busy \in BOOLEAN :
        /\ fcnt = Len(fexp)
        /\ \E ov \in BOOLEAN : StableGate(FetchOvOpen(busy), FetchOvShut(busy)) = {ov}
        /\ FetchRvalid(busy, FetchPass(busy)) =>
              /\ fexp # <<>>
              /\ FetchRdata = Head(fexp).word
              /\ FetchErr = Head(fexp).err

\* The core never receives a word of ISRAM as an instruction before the
\* signature is verified.
OnlyVerifiedCode ==
    \A busy, ov \in BOOLEAN :
        FetchRvalid(busy, ~ov /\ FetchPass(busy)) /\ FetchRdata.src = "ISRAM"
            => fw_verified

\* Once the lock is set the firmware image in ISRAM never changes again.
ImageSealed == isram_lock => isram = image

\* After boot_done no step changes the control registers, and in a debug
\* session no step changes ISRAM.
SealedAfterBoot ==
    [][/\ boot_done => UNCHANGED ctrl
       /\ dbg_mode  => UNCHANGED isram]_vars

\* The data port never gets stuck: whatever the fetch port does at the arbiter,
\* a request that is owed an answer gets it in this cycle, unless the bridge
\* waits for its peripheral, and one that nothing is owed before is accepted.
DataNeverStuck ==
    \A pready \in BOOLEAN :
        /\ dexp # <<>> => DataRvalid(pready) \/ (in_progress /\ ~pready)
        /\ dreq # NoReq /\ dexp = <<>> => \A ov \in DataGate(pready) : DataAccept(pready, ov)

\* A refused ISRAM write is answered with an error (the core traps), and no
\* other ISRAM access is.
LockedWriteTraps ==
    \A pready \in BOOLEAN : dsel = "ISRAM" /\ DataRvalid(pready) =>
        \A ov \in DataGate(pready) : DataErr(pready, ov) = Head(dexp).err

\* Every accepted fetch is eventually answered.
FetchAnswered == fexp # <<>> ~> fans
===============================================================================
