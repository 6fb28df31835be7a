------------------------- MODULE SocAddrDecodeProofs -------------------------
(***************************************************************************)
(* Proofs about SocAddrDecode for any set of words, values and requests    *)
(* and any width of the demux counter.                                     *)
(***************************************************************************)
EXTENDS SocAddrDecode, TLAPS

DataPorts == {"BOOTROM", "ISRAM", "DSRAM", "CTRL", "APB", "ERR"}

\* At most one data request is in flight, and dexp holds exactly that one.
OneInFlight ==
    /\ dsel \in DataPorts
    /\ dcnt \in {0, 1}
    /\ dcnt = 0 => dexp = <<>>
    /\ dcnt = 1 => \E w \in Data, e \in BOOLEAN : dexp = <<[word |-> w, err |-> e]>>

\* While it is in flight the subordinate named by select_q holds its answer.
AnswerHeld ==
    dcnt = 1 =>
      /\ dsel # "BOOTROM"
      /\ dsel = "APB"   => in_progress /\ dexp[1].word = From("APB", {})
      /\ dsel # "APB"   => ~in_progress /\ rvalid[dsel] /\ rdata[dsel] = dexp[1].word
      /\ dsel = "ISRAM" => resp_is_data_q
      /\ dsel # "ISRAM" => dexp[1].err = (dsel = "ERR")

\* No subordinate of the data port holds an answer that nobody waits for.
NoStrayAnswer ==
    /\ \A s \in {"DSRAM", "CTRL", "ERR"} : rvalid[s] => dcnt = 1 /\ dsel = s
    /\ rvalid["ISRAM"] /\ resp_is_data_q => dcnt = 1 /\ dsel = "ISRAM"
    /\ in_progress => dcnt = 1 /\ dsel = "APB"

\* An ISRAM word owned by the fetch port was read after verification.
FetchedVerified ==
    /\ rvalid["ISRAM"] /\ ~resp_is_data_q => fw_verified
    /\ \A s \in Slaves : rdata[s].src = s

\* The history follows ISRAM until the lock is set.
Sealed == isram = image

\* While no fetch went to a port that may not answer, at most one fetch is in
\* flight, and the boot ROM or ISRAM holds its answer and no other.
FetchHeld ==
    ~unanswered =>
      /\ fsel \in {"BOOTROM", "ISRAM"} /\ ~fetch_blocked_q
      /\ fcnt \in {0, 1}
      /\ fcnt = 0 => fexp = <<>>
      /\ fcnt = 1 => /\ rvalid[fsel]
                     /\ fexp = <<[word |-> rdata[fsel], err |-> FALSE]>>
                     /\ fsel = "ISRAM" => ~resp_is_data_q
      /\ rvalid["BOOTROM"] => fcnt = 1 /\ fsel = "BOOTROM"
      /\ rvalid["ISRAM"] /\ ~resp_is_data_q => fcnt = 1 /\ fsel = "ISRAM"

IInv == TypeOK /\ OneInFlight /\ AnswerHeld /\ NoStrayAnswer /\ FetchedVerified
-------------------------------------------------------------------------------
(* The data demux *)

\* An answer arrives only for a request in flight, and a request is taken while
\* another is in flight only if the answer to that one arrives.
LEMMA DataHandshake ==
    ASSUME IInv, NEW pready \in BOOLEAN
    PROVE  /\ DataRvalid(pready) \in BOOLEAN
           /\ DataUp(pready) \in BOOLEAN
           /\ DataRvalid(pready) => dcnt = 1
           /\ DataUp(pready) /\ dcnt = 1 => DataRvalid(pready)
           /\ dcnt = 1 /\ dsel # "APB" => DataRvalid(pready)
           /\ dcnt = 1 /\ dsel = "APB" => DataRvalid(pready) = pready
  <1> USE DEF IInv, TypeOK, OneInFlight, AnswerHeld, NoStrayAnswer, DataPorts, Slaves
  <1>1. DataRvalid(pready) \in BOOLEAN
    BY DEF DataRvalid
  <1>2. DataRvalid(pready) => dcnt = 1
    BY DEF DataRvalid
  <1>3. dcnt = 1 /\ dsel # "APB" => DataRvalid(pready)
    BY DEF DataRvalid
  <1>4. dcnt = 1 /\ dsel = "APB" => DataRvalid(pready) = pready /\ in_progress
    BY DEF DataRvalid
  <1>5. DataUp(pready) \in BOOLEAN
    BY DEF DataUp, DataPass, DataGnt
  <1>6. DataUp(pready) /\ dcnt = 1 => DataRvalid(pready)
    BY <1>3, <1>4 DEF DataUp, DataPass, DataGnt, Pass
  <1> QED BY <1>1, <1>2, <1>3, <1>4, <1>5, <1>6

\* A counter at 0 or 1 does not overflow when an answer presupposes a request
\* in flight and a second request presupposes an answer to the first.
LEMMA NoOverflow ==
    ASSUME NEW q \in {0, 1}, NEW up \in BOOLEAN, NEW down \in BOOLEAN,
           down => q = 1, up /\ q = 1 => down
    PROVE  /\ ~Overflow(q, up, down)
           /\ NextCount(q, up, down) = IF up THEN 1 ELSE IF down THEN 0 ELSE q
  BY CounterModAssumption DEF Overflow, NextCount

\* When neither gate value produces an overflow the loop settles open.
LEMMA ClosedLoop ==
    ASSUME NEW a, NEW b, ~a, ~b
    PROVE  StableGate(a, b) = {FALSE} /\ Settle(a, b) = {FALSE}
  <1>1. StableGate(a, b) = {FALSE} BY DEF StableGate
  <1> QED BY <1>1 DEF Settle

\* The overflow loop of the data demux always settles with the gate open.
LEMMA GateOpen ==
    ASSUME IInv, NEW pready \in BOOLEAN
    PROVE  /\ StableGate(DataOvOpen(pready), DataOvShut(pready)) = {FALSE}
           /\ DataGate(pready) = {FALSE}
  <1>1. dcnt \in {0, 1} BY DEF IInv, OneInFlight
  <1>2. ~DataOvOpen(pready)
    BY <1>1, DataHandshake, NoOverflow DEF DataOvOpen
  <1>3. ~DataOvShut(pready)
    BY <1>1, DataHandshake, NoOverflow DEF DataOvShut
  <1> QED BY <1>2, <1>3, ClosedLoop DEF DataGate
-------------------------------------------------------------------------------
(* Typing of the words that travel *)

\* The data decode selects a subordinate.
LEMMA DataSelType ==
    ASSUME NEW r \in DataRequest
    PROVE  /\ DataSel(r) \in DataPorts \ {"BOOTROM"}
           /\ DataSel(r) \in {"ISRAM", "DSRAM"} => r.off \in Words /\ r.val \in Vals
           /\ DataSel(r) = "CTRL" => r.off \in CtrlRegs
           /\ r.we \in BOOLEAN
  BY DEF DataSel, DataRequest, DataPorts, Opaque

\* A control register reads as a set of status bits.
LEMMA CtrlBitsType ==
    ASSUME NEW reg \in CtrlRegs
    PROVE  CtrlBits(reg) \in SUBSET StatusBits
  BY DEF CtrlBits, CtrlRegs, StatusBits

\* A word tagged with its producer is a Data value.
LEMMA FromType ==
    ASSUME NEW s, NEW v
    PROVE  /\ From(s, v).src = s
           /\ s \in Slaves \cup {"APB"} /\ v \in Vals \cup SUBSET StatusBits => From(s, v) \in Data
  BY DEF From, Data

\* The word loaded for a data request is a Data value.
LEMMA DataWordType ==
    ASSUME TypeOK, NEW r \in DataRequest
    PROVE  /\ DataWord(DataSel(r), r) \in Data
           /\ DataWord(DataSel(r), r).src = DataSel(r)
           /\ DataSel(r) = "APB" => DataWord(DataSel(r), r) = From("APB", {})
  <1> DEFINE s == DataSel(r)
  <1>1. s \in Slaves \cup {"APB"} BY DataSelType DEF DataPorts, Slaves
  <1>2. {} \in SUBSET StatusBits OBVIOUS
  <1>3. s = "ISRAM" => isram[r.off] \in Vals BY DataSelType DEF TypeOK
  <1>4. s = "DSRAM" => dsram[r.off] \in Vals BY DataSelType DEF TypeOK
  <1>5. s = "CTRL" => CtrlBits(r.off) \in SUBSET StatusBits BY DataSelType, CtrlBitsType
  <1>6. CASE s = "ISRAM"
    BY <1>1, <1>2, <1>3, <1>6, FromType DEF DataWord
  <1>7. CASE s = "DSRAM"
    BY <1>1, <1>2, <1>4, <1>7, FromType DEF DataWord
  <1>8. CASE s = "CTRL"
    BY <1>1, <1>2, <1>5, <1>8, FromType DEF DataWord
  <1>9. CASE s \notin {"ISRAM", "DSRAM", "CTRL"}
    BY <1>1, <1>2, <1>9, FromType DEF DataWord
  <1> QED BY <1>6, <1>7, <1>8, <1>9

\* The fetch decode selects one of the three fetch ports.
LEMMA FetchSelType ==
    ASSUME NEW r \in FetchRequest
    PROVE  /\ FetchSel(r) \in {"BOOTROM", "ISRAM", "DBG"}
           /\ FetchSel(r) = "ISRAM" => r.off \in Words
  BY DEF FetchSel, FetchRequest

\* The word loaded for a fetch is a Data value.
LEMMA FetchWordType ==
    ASSUME TypeOK, NEW r \in FetchRequest
    PROVE  /\ FetchWord(r) \in Data
           /\ FetchWord(r).src = FetchSel(r)
           /\ FetchDue(r) \in DueAnswer
  <1>1. FetchSel(r) = "ISRAM" => isram[r.off] \in Vals BY FetchSelType DEF TypeOK
  <1>2. FetchWord(r) \in Data /\ FetchWord(r).src = FetchSel(r)
    BY <1>1, FetchSelType, FromType DEF FetchWord, Slaves
  <1>3. From("ERR", {}) \in Data BY FromType DEF Slaves
  <1> QED BY <1>2, <1>3 DEF FetchDue, DueAnswer

\* What an accepted request is entitled to is a DueAnswer.
LEMMA DataDueType ==
    ASSUME TypeOK, NEW r \in DataRequest
    PROVE  /\ DataDue(r) \in DueAnswer
           /\ DataDue(r).word = DataWord(DataSel(r), r)
           /\ DataSel(r) # "ISRAM" => DataDue(r).err = (DataSel(r) = "ERR")
  BY DataWordType DEF DataDue, DueAnswer

\* The queue of owed answers stays a sequence of DueAnswers.
LEMMA OwedType ==
    ASSUME NEW due \in Seq(DueAnswer), NEW a \in BOOLEAN, NEW b \in BOOLEAN,
           NEW e, b => e \in DueAnswer
    PROVE  Owed(due, a, b, e) \in Seq(DueAnswer)
  BY DEF Owed

\* The in-flight counter stays within its width.
LEMMA NextCountType ==
    ASSUME NEW q \in Count, NEW up \in BOOLEAN, NEW down \in BOOLEAN
    PROVE  NextCount(q, up, down) \in Count
  BY CounterModAssumption DEF Count, NextCount
-------------------------------------------------------------------------------
(* The clock edge *)

\* Abbreviations for the signals of a cycle whose data gate is open.
Acc(pready)       == DataUp(pready)
Busy(pready)      == Acc(pready) /\ DataSel(dreq) = "ISRAM"
Fwd(pready, fov)  == ~fov /\ FetchPass(Busy(pready))
Facc(pready, fov) == Fwd(pready, fov) /\ FetchGnt(Busy(pready))

\* The handshake signals of the two ports are Boolean.
LEMMA Signals ==
    ASSUME IInv, NEW pready \in BOOLEAN, NEW fov \in BOOLEAN
    PROVE  /\ Acc(pready) \in BOOLEAN
           /\ Acc(pready) => dreq \in DataRequest
           /\ Facc(pready, fov) \in BOOLEAN
           /\ Facc(pready, fov) => freq \in FetchRequest
           /\ Facc(pready, fov) /\ FetchSel(freq) = "ISRAM" => ~Busy(pready)
           /\ FetchRvalid(Busy(pready), Fwd(pready, fov)) \in BOOLEAN
  <1>1. Acc(pready) \in BOOLEAN BY DataHandshake DEF Acc
  <1>2. Acc(pready) => dreq \in DataRequest
    BY DEF Acc, DataUp, DataPass, IInv, TypeOK
  <1>3. Facc(pready, fov) \in BOOLEAN /\ (Facc(pready, fov) => freq \in FetchRequest)
    BY DEF Facc, Fwd, FetchPass, IInv, TypeOK
  <1>4. Facc(pready, fov) /\ FetchSel(freq) = "ISRAM" => ~Busy(pready)
    BY DEF Facc, FetchGnt
  <1>5. FetchRvalid(Busy(pready), Fwd(pready, fov)) \in BOOLEAN
    BY DEF FetchRvalid, FetchAtDbg, FetchAtIsram, IInv, TypeOK, Slaves
  <1> QED BY <1>1, <1>2, <1>3, <1>4, <1>5

\* What one clock edge does, with the data gate resolved.
LEMMA EdgeFacts ==
    ASSUME IInv, NEW pready \in BOOLEAN, NEW ov \in DataGate(pready), NEW fov \in BOOLEAN,
           ClockWith(pready, ov, fov)
    PROVE  LET acc  == Acc(pready)
               facc == Facc(pready, fov)
               frv  == FetchRvalid(Busy(pready), Fwd(pready, fov))
           IN  /\ DataDemuxEdge(acc, DataRvalid(pready))
               /\ FetchDemuxEdge(facc, frv)
               /\ CtrlEdge(acc) /\ MemEdge(acc) /\ ResponseEdge(acc, facc)
               /\ ArbiterEdge(acc, facc) /\ BridgeEdge(acc, pready)
               /\ HistoryEdge(acc, facc, DataRvalid(pready), frv)
               /\ UNCHANGED env
  <1>0. DataGate(pready) = {FALSE} BY GateOpen
  <1>1. ov = FALSE BY <1>0
  <1>2. DataAccept(pready, ov) = Acc(pready)
    BY <1>1, Signals DEF DataAccept, Acc
  <1>3. IsramData(pready, ov) = Busy(pready)
    BY <1>2 DEF IsramData, Busy
  <1> QED BY <1>2, <1>3 DEF ClockWith, Fwd, Facc

\* A clock edge preserves type correctness.
LEMMA ClockTypeOK ==
    ASSUME IInv, NEW pready \in BOOLEAN, NEW ov \in DataGate(pready), NEW fov \in BOOLEAN,
           ClockWith(pready, ov, fov)
    PROVE  TypeOK'
  <1> DEFINE acc  == Acc(pready)
             facc == Facc(pready, fov)
             drv  == DataRvalid(pready)
             frv  == FetchRvalid(Busy(pready), Fwd(pready, fov))
  <1>0. /\ TypeOK
        /\ acc \in BOOLEAN /\ (acc => dreq \in DataRequest)
        /\ facc \in BOOLEAN /\ (facc => freq \in FetchRequest)
        /\ drv \in BOOLEAN /\ frv \in BOOLEAN
    BY Signals, DataHandshake DEF IInv
  <1> HIDE DEF acc, facc, drv, frv
  <1>a. /\ DataDemuxEdge(acc, drv) /\ FetchDemuxEdge(facc, frv)
        /\ CtrlEdge(acc) /\ MemEdge(acc) /\ ResponseEdge(acc, facc)
        /\ ArbiterEdge(acc, facc) /\ BridgeEdge(acc, pready)
        /\ HistoryEdge(acc, facc, drv, frv)
        /\ UNCHANGED env
    BY EdgeFacts DEF acc, facc, drv, frv
  <1>1. /\ dreq' \in DataRequest \cup {NoReq} /\ dsel' \in Slaves \cup {"APB"} /\ dcnt' \in Count
    <2>1. dcnt' \in Count BY <1>0, <1>a, NextCountType DEF DataDemuxEdge, TypeOK
    <2> QED BY <1>0, <1>a, <2>1, DataSelType DEF DataDemuxEdge, TypeOK, DataPorts, Slaves
  <1>2. /\ freq' \in FetchRequest \cup {NoReq} /\ fsel' \in {"BOOTROM", "ISRAM", "DBG"}
        /\ fcnt' \in Count
    <2>1. fcnt' \in Count BY <1>0, <1>a, NextCountType DEF FetchDemuxEdge, TypeOK
    <2> QED BY <1>0, <1>a, <2>1, FetchSelType DEF FetchDemuxEdge, TypeOK
  <1>3. /\ rvalid' \in [Slaves -> BOOLEAN] /\ rdata' \in [Slaves -> Data]
    <2>1. rvalid' \in [Slaves -> BOOLEAN] BY <1>a DEF ResponseEdge, DataAt, FetchAt
    <2>2. ASSUME NEW s \in Slaves PROVE rdata'[s] \in Data
      <3>1. CASE DataAt(s, acc)
        <4>1. rdata'[s] = DataWord(s, dreq) BY <1>a, <3>1 DEF ResponseEdge
        <4>2. DataWord(s, dreq) \in Data BY <1>0, <3>1, DataWordType DEF DataAt
        <4> QED BY <4>1, <4>2
      <3>2. CASE ~DataAt(s, acc) /\ FetchAt(s, facc)
        BY <1>0, <1>a, <3>2, FetchWordType DEF ResponseEdge, FetchAt
      <3>3. CASE ~DataAt(s, acc) /\ ~FetchAt(s, facc)
        <4>1. rdata'[s] = From(s, {}) BY <1>a, <3>3 DEF ResponseEdge
        <4> QED BY <4>1, FromType
      <3> QED BY <3>1, <3>2, <3>3
    <2> QED BY <1>a, <2>1, <2>2 DEF ResponseEdge
  <1>4. resp_is_data_q' \in BOOLEAN /\ fetch_blocked_q' \in BOOLEAN /\ in_progress' \in BOOLEAN
    BY <1>0, <1>a DEF ArbiterEdge, BridgeEdge, DataAt, TypeOK
  <1>5. isram' \in [Words -> Vals] /\ dsram' \in [Words -> Vals] /\ image' \in [Words -> Vals]
    <2>1. isram' \in [Words -> Vals] /\ dsram' \in [Words -> Vals]
      BY <1>0, <1>a, DataSelType DEF MemEdge, TypeOK
    <2> QED BY <1>0, <1>a, <2>1 DEF HistoryEdge, TypeOK
  <1>6. isram_lock' \in BOOLEAN /\ boot_done' \in BOOLEAN
    BY <1>0, <1>a DEF CtrlEdge, TypeOK
  <1>7. dexp' \in Seq(DueAnswer) /\ fexp' \in Seq(DueAnswer)
    <2>1. dexp' \in Seq(DueAnswer)
      <3>1. acc => DataDue(dreq) \in DueAnswer BY <1>0, DataDueType
      <3> QED BY <1>0, <1>a, <3>1, OwedType DEF HistoryEdge, TypeOK
    <2>2. fexp' \in Seq(DueAnswer)
      <3>1. facc => FetchDue(freq) \in DueAnswer BY <1>0, FetchWordType
      <3> QED BY <1>0, <1>a, <3>1, OwedType DEF HistoryEdge, TypeOK
    <2> QED BY <2>1, <2>2
  <1>8. fans' \in BOOLEAN /\ unanswered' \in BOOLEAN
    BY <1>0, <1>a DEF HistoryEdge, TypeOK
  <1>9. dbg_mode' \in BOOLEAN /\ fw_verified' \in BOOLEAN
    BY <1>0, <1>a DEF env, TypeOK
  <1> QED BY <1>1, <1>2, <1>3, <1>4, <1>5, <1>6, <1>7, <1>8, <1>9 DEF TypeOK

\* With at most one answer owed, an answer and an acceptance leave at most one.
LEMMA OwedOne ==
    ASSUME NEW x, NEW e, NEW a \in BOOLEAN, NEW b \in BOOLEAN
    PROVE  /\ Owed(<<>>, FALSE, b, e) = IF b THEN <<e>> ELSE <<>>
           /\ Owed(<<x>>, FALSE, FALSE, e) = <<x>>
           /\ Owed(<<x>>, TRUE, b, e) = IF b THEN <<e>> ELSE <<>>
  BY DEF Owed

\* A clock edge preserves the invariant of the data path and the provenance of
\* fetched words.
LEMMA ClockDataInv ==
    ASSUME IInv, NEW pready \in BOOLEAN, NEW ov \in DataGate(pready), NEW fov \in BOOLEAN,
           ClockWith(pready, ov, fov)
    PROVE  OneInFlight' /\ AnswerHeld' /\ NoStrayAnswer' /\ FetchedVerified'
  <1> DEFINE acc  == Acc(pready)
             facc == Facc(pready, fov)
             drv  == DataRvalid(pready)
             frv  == FetchRvalid(Busy(pready), Fwd(pready, fov))
  <1>0. /\ TypeOK
        /\ acc \in BOOLEAN /\ (acc => dreq \in DataRequest)
        /\ facc \in BOOLEAN /\ (facc => freq \in FetchRequest)
        /\ drv \in BOOLEAN /\ frv \in BOOLEAN
        /\ facc /\ FetchSel(freq) = "ISRAM" => ~(acc /\ DataSel(dreq) = "ISRAM")
    BY Signals, DataHandshake DEF IInv, Busy
  <1>b. /\ drv => dcnt = 1
        /\ acc /\ dcnt = 1 => drv
        /\ dcnt = 1 /\ dsel # "APB" => drv
        /\ dcnt = 1 /\ dsel = "APB" => drv = pready
    BY DataHandshake DEF Acc
  <1>a. /\ DataDemuxEdge(acc, drv) /\ FetchDemuxEdge(facc, frv)
        /\ CtrlEdge(acc) /\ MemEdge(acc) /\ ResponseEdge(acc, facc)
        /\ ArbiterEdge(acc, facc) /\ BridgeEdge(acc, pready)
        /\ HistoryEdge(acc, facc, drv, frv)
        /\ UNCHANGED env
    BY EdgeFacts
  <1> HIDE DEF acc, facc, drv, frv
  <1>c. dcnt \in {0, 1} BY DEF IInv, OneInFlight
  <1>d. dcnt' = IF acc THEN 1 ELSE IF drv THEN 0 ELSE dcnt
    BY <1>0, <1>a, <1>b, <1>c, NoOverflow DEF DataDemuxEdge
  <1>e. dexp' = IF acc THEN <<DataDue(dreq)>> ELSE IF drv THEN <<>> ELSE dexp
    <2>1. dexp' = Owed(dexp, drv, acc, DataDue(dreq)) BY <1>a DEF HistoryEdge
    <2>2. CASE dcnt = 0
      <3>1. dexp = <<>> /\ drv = FALSE BY <1>0, <1>b, <2>2 DEF IInv, OneInFlight
      <3> QED BY <1>0, <2>1, <3>1, OwedOne
    <2>3. CASE dcnt = 1
      <3>1. PICK x : dexp = <<x>> BY <2>3 DEF IInv, OneInFlight
      <3>2. CASE drv = TRUE BY <1>0, <2>1, <3>1, <3>2, OwedOne
      <3>3. CASE drv = FALSE
        <4>1. acc = FALSE BY <1>0, <1>b, <2>3, <3>3
        <4> QED BY <2>1, <3>1, <3>3, <4>1, OwedOne
      <3> QED BY <1>0, <3>2, <3>3
    <2> QED BY <1>c, <2>2, <2>3
  <1>f. acc => /\ DataSel(dreq) \in DataPorts \ {"BOOTROM"}
               /\ DataDue(dreq) \in DueAnswer
               /\ DataDue(dreq).word = DataWord(DataSel(dreq), dreq)
               /\ DataSel(dreq) = "APB" => DataDue(dreq).word = From("APB", {})
               /\ DataSel(dreq) # "ISRAM" => DataDue(dreq).err = (DataSel(dreq) = "ERR")
    BY <1>0, DataSelType, DataDueType, DataWordType
  <1>g. dsel' = IF acc THEN DataSel(dreq) ELSE dsel BY <1>a DEF DataDemuxEdge
  <1>h. in_progress => dcnt = 1 /\ dsel = "APB" BY DEF IInv, NoStrayAnswer
  <1>i. in_progress' = IF acc THEN DataSel(dreq) = "APB" ELSE in_progress /\ ~drv
    <2>1. in_progress' = IF in_progress THEN ~pready ELSE DataAt("APB", acc)
      BY <1>a DEF BridgeEdge
    <2>2. CASE in_progress = TRUE
      <3>1. drv = pready BY <1>b, <1>h, <2>2
      <3>2. acc => pready /\ DataSel(dreq) # "APB"
        <4>1. acc => drv BY <1>b, <1>h, <2>2
        <4>2. acc => DataGnt(DataSel(dreq)) BY DEF acc, Acc, DataUp
        <4> QED BY <2>2, <3>1, <4>1, <4>2 DEF DataGnt
      <3> QED BY <1>0, <2>1, <2>2, <3>1, <3>2
    <2>3. CASE in_progress = FALSE
      BY <1>0, <2>1, <2>3 DEF DataAt
    <2> QED BY <1>0, <2>2, <2>3 DEF TypeOK
  <1>1. OneInFlight'
    <2>1. acc => \E w \in Data, e \in BOOLEAN : DataDue(dreq) = [word |-> w, err |-> e]
      BY <1>f DEF DueAnswer
    <2>2. CASE acc BY <1>d, <1>e, <1>f, <1>g, <2>1, <2>2 DEF OneInFlight
    <2>3. CASE ~acc BY <1>c, <1>d, <1>e, <1>g, <2>3 DEF OneInFlight, IInv
    <2> QED BY <2>2, <2>3
  <1>2. AnswerHeld'
    <2>1. CASE acc
      <3>1. dsel' \in {"ISRAM", "DSRAM", "CTRL", "ERR"} =>
              rvalid'[dsel'] /\ rdata'[dsel'] = DataWord(dsel', dreq)
        BY <1>a, <1>g, <2>1 DEF ResponseEdge, DataAt, Slaves
      <3>2. dsel' = "ISRAM" => resp_is_data_q'
        BY <1>a, <1>g, <2>1 DEF ArbiterEdge, DataAt
      <3>3. dexp'[1] = DataDue(dreq) BY <1>e, <2>1
      <3>4. dsel' \in {"ISRAM", "DSRAM", "CTRL", "ERR", "APB"} BY <1>f, <1>g, <2>1 DEF DataPorts
      <3>5. in_progress' = (dsel' = "APB") BY <1>g, <1>i, <2>1
      <3> QED BY <1>f, <1>g, <2>1, <3>1, <3>2, <3>3, <3>4, <3>5 DEF AnswerHeld
    <2>2. CASE ~acc
      <3>1. dcnt' = 1 => dcnt = 1 /\ ~drv /\ dsel = "APB" /\ dexp' = dexp
        BY <1>b, <1>c, <1>d, <1>e, <2>2
      <3>2. dcnt' = 1 => in_progress'
        BY <1>i, <2>2, <3>1 DEF IInv, AnswerHeld
      <3> QED BY <1>g, <2>2, <3>1, <3>2 DEF AnswerHeld, IInv
    <2> QED BY <2>1, <2>2
  <1>3. NoStrayAnswer'
    <2>1. ASSUME NEW s \in {"DSRAM", "CTRL", "ERR"}, rvalid'[s]
          PROVE  dcnt' = 1 /\ dsel' = s
      <3>1. DataAt(s, acc) \/ FetchAt(s, facc) BY <1>a, <2>1 DEF ResponseEdge, Slaves
      <3>2. ~FetchAt(s, facc) BY <1>0, FetchSelType DEF FetchAt
      <3> QED BY <1>d, <1>g, <3>1, <3>2 DEF DataAt
    <2>2. rvalid'["ISRAM"] /\ resp_is_data_q' => dcnt' = 1 /\ dsel' = "ISRAM"
      <3>1. rvalid'["ISRAM"] => DataAt("ISRAM", acc) \/ FetchAt("ISRAM", facc)
        BY <1>a DEF ResponseEdge, Slaves
      <3>2. rvalid'["ISRAM"] /\ resp_is_data_q' => DataAt("ISRAM", acc)
        BY <1>a, <3>1 DEF ArbiterEdge
      <3> QED BY <1>d, <1>g, <3>2 DEF DataAt
    <2>3. in_progress' => dcnt' = 1 /\ dsel' = "APB"
      BY <1>d, <1>g, <1>h, <1>i
    <2> QED BY <2>1, <2>2, <2>3 DEF NoStrayAnswer
  <1>4. FetchedVerified'
    <2>1. rvalid'["ISRAM"] /\ ~resp_is_data_q' => fw_verified'
      <3>1. rvalid'["ISRAM"] => DataAt("ISRAM", acc) \/ FetchAt("ISRAM", facc)
        BY <1>a DEF ResponseEdge, Slaves
      <3>2. rvalid'["ISRAM"] /\ ~resp_is_data_q' => FetchAt("ISRAM", facc)
        BY <1>a, <3>1 DEF ArbiterEdge
      <3> QED BY <1>a, <3>2 DEF FetchAt, env
    <2>2. ASSUME NEW s \in Slaves PROVE rdata'[s].src = s
      <3>0. rdata'[s] = IF DataAt(s, acc) THEN DataWord(s, dreq)
                        ELSE IF FetchAt(s, facc) THEN FetchWord(freq) ELSE From(s, {})
        BY <1>a DEF ResponseEdge
      <3>1. CASE DataAt(s, acc)
        BY <1>0, <3>0, <3>1, DataWordType DEF DataAt
      <3>2. CASE ~DataAt(s, acc) /\ FetchAt(s, facc)
        BY <1>0, <3>0, <3>2, FetchWordType DEF FetchAt
      <3>3. CASE ~DataAt(s, acc) /\ ~FetchAt(s, facc)
        BY <3>0, <3>3, FromType
      <3> QED BY <3>1, <3>2, <3>3
    <2> QED BY <2>1, <2>2 DEF FetchedVerified
  <1> QED BY <1>1, <1>2, <1>3, <1>4
-------------------------------------------------------------------------------
(* The invariant *)

\* The reset state satisfies the invariant.
LEMMA InitIInv == Init => IInv
  <1> SUFFICES ASSUME Init PROVE IInv OBVIOUS
  <1>1. ASSUME NEW s \in Slaves PROVE From(s, {}) \in Data /\ From(s, {}).src = s
    BY FromType
  <1>2. TypeOK
    <2>1. rdata \in [Slaves -> Data] BY <1>1 DEF Init
    <2>2. 0 \in Count BY CounterModAssumption DEF Count
    <2>3. <<>> \in Seq(DueAnswer) OBVIOUS
    <2>4. dsel \in Slaves \cup {"APB"} BY DEF Init, Slaves
    <2> QED BY <2>1, <2>2, <2>3, <2>4 DEF Init, TypeOK
  <1>3. OneInFlight BY DEF Init, OneInFlight, DataPorts
  <1>4. AnswerHeld BY DEF Init, AnswerHeld
  <1>5. NoStrayAnswer BY DEF Init, NoStrayAnswer, Slaves
  <1>6. FetchedVerified BY <1>1 DEF Init, FetchedVerified, Slaves
  <1> QED BY <1>2, <1>3, <1>4, <1>5, <1>6 DEF IInv

\* Every step preserves the invariant.
LEMMA StepIInv == IInv /\ [Next]_vars => IInv'
  <1> SUFFICES ASSUME IInv, [Next]_vars PROVE IInv' OBVIOUS
  <1> USE DEF IInv, OneInFlight, AnswerHeld, NoStrayAnswer, FetchedVerified, TypeOK
  <1>1. ASSUME NEW r \in DataReqs, RaiseData(r) PROVE IInv'
    BY <1>1, BusAssumption DEF RaiseData, demux, slave, ctrl, env, hist
  <1>2. ASSUME NEW r \in FetchReqs, RaiseFetch(r) PROVE IInv'
    BY <1>2, BusAssumption DEF RaiseFetch, demux, slave, ctrl, env, hist
  <1>3. CASE ToggleDebug
    BY <1>3 DEF ToggleDebug, core, demux, slave, ctrl, hist
  <1>4. CASE Verify
    BY <1>4 DEF Verify, core, demux, slave, ctrl, hist
  <1>5. CASE Clock
    <2>1. PICK pready \in BOOLEAN : ClockReady(pready) BY <1>5 DEF Clock
    <2>2. PICK ov \in DataGate(pready) :
            \E fov \in FetchGate(IsramData(pready, ov)) : ClockWith(pready, ov, fov)
      BY <2>1 DEF ClockReady
    <2>3. PICK fov \in BOOLEAN : ClockWith(pready, ov, fov)
      BY <2>2 DEF FetchGate, Settle, StableGate
    <2> HIDE DEF IInv, OneInFlight, AnswerHeld, NoStrayAnswer, FetchedVerified, TypeOK
    <2> QED BY <2>3, ClockTypeOK, ClockDataInv DEF IInv
  <1>6. CASE UNCHANGED vars
    BY <1>6 DEF vars, core, demux, slave, ctrl, env, hist
  <1> QED BY <1>1, <1>2, <1>3, <1>4, <1>5, <1>6 DEF Next

\* The inductive invariant holds in every reachable state.
LEMMA Inductive == Spec => []IInv
  BY InitIInv, StepIInv, PTL DEF Spec
-------------------------------------------------------------------------------
(* The theorems *)

\* The registers of the decoder, of its subordinates and the history keep their
\* types: in particular no counter leaves its width.
THEOREM TypeCorrect == Spec => []TypeOK
  <1>1. IInv => TypeOK BY DEF IInv
  <1> QED BY <1>1, Inductive, PTL

\* Data responses are in order, carry the word of the request they answer, and
\* report exactly the unmapped and the denied accesses (obi_demux select_q,
\* the ISRAM owner latch, the error responder).
THEOREM DataResponsesInOrder == Spec => []DataInOrder
  <1>1. IInv => DataInOrder
    <2> SUFFICES ASSUME IInv, NEW pready \in BOOLEAN, DataRvalid(pready)
                 PROVE  /\ dexp # <<>>
                        /\ DataRdata = Head(dexp).word
                        /\ dsel \notin {"ISRAM", "APB"} =>
                             \A ov \in DataGate(pready) : DataErr(pready, ov) = Head(dexp).err
      BY DEF DataInOrder
    <2>1. dcnt = 1 BY DataHandshake
    <2>2. PICK x : dexp = <<x>> BY <2>1 DEF IInv, OneInFlight
    <2>3. dexp # <<>> /\ Head(dexp) = dexp[1] BY <2>2
    <2>4. DataRdata = dexp[1].word BY <2>1 DEF IInv, AnswerHeld, DataRdata
    <2>5. dsel \notin {"ISRAM", "APB"} =>
            \A ov \in DataGate(pready) : DataErr(pready, ov) = dexp[1].err
      BY <2>1 DEF IInv, AnswerHeld, DataErr
    <2> QED BY <2>3, <2>4, <2>5
  <1> QED BY <1>1, Inductive, PTL

\* The combinational overflow loop between obi_demux and delta_counter has one
\* stable value on the data path, and in_flight is the number of open requests.
THEOREM DataLoopAlwaysSettles == Spec => []DataLoopSettles
  <1>1. IInv => DataLoopSettles
    <2> SUFFICES ASSUME IInv PROVE DataLoopSettles OBVIOUS
    <2>1. dcnt = Len(dexp)
      <3>1. CASE dcnt = 0 BY <3>1 DEF IInv, OneInFlight
      <3>2. CASE dcnt = 1
        <4>1. PICK x : dexp = <<x>> BY <3>2 DEF IInv, OneInFlight
        <4> QED BY <3>2, <4>1
      <3> QED BY <3>1, <3>2 DEF IInv, OneInFlight
    <2>2. ASSUME NEW pready \in BOOLEAN
          PROVE  StableGate(DataOvOpen(pready), DataOvShut(pready)) = {FALSE}
      BY GateOpen
    <2> QED BY <2>1, <2>2 DEF DataLoopSettles
  <1> QED BY <1>1, Inductive, PTL

\* Data port, demultiplexer, bridge and ISRAM arbiter: an answer that is owed
\* comes at once unless the bridge waits for its peripheral, and a request that
\* waits for no other is accepted.
THEOREM DataNeverGetsStuck == Spec => []DataNeverStuck
  <1>1. IInv => DataNeverStuck
    <2> SUFFICES ASSUME IInv, NEW pready \in BOOLEAN
                 PROVE  /\ dexp # <<>> => DataRvalid(pready) \/ (in_progress /\ ~pready)
                        /\ dreq # NoReq /\ dexp = <<>> =>
                              \A ov \in DataGate(pready) : DataAccept(pready, ov)
      BY DEF DataNeverStuck
    <2>1. ASSUME dexp # <<>> PROVE DataRvalid(pready) \/ (in_progress /\ ~pready)
      <3>1. dcnt = 1
        BY <2>1 DEF IInv, OneInFlight
      <3>2. dsel = "APB" => in_progress
        BY <3>1 DEF IInv, AnswerHeld
      <3> QED BY <3>1, <3>2, DataHandshake
    <2>2. ASSUME dreq # NoReq, dexp = <<>>, NEW ov \in DataGate(pready)
          PROVE  DataAccept(pready, ov)
      <3>1. dcnt = 0
        BY <2>2 DEF IInv, OneInFlight
      <3>2. ~in_progress
        BY <3>1 DEF IInv, NoStrayAnswer
      <3>3. DataUp(pready)
        BY <2>2, <3>1, <3>2 DEF DataUp, DataPass, DataGnt, Pass
      <3> QED BY <2>2, <3>3, GateOpen DEF DataAccept
    <2> QED BY <2>1, <2>2
  <1> QED BY <1>1, Inductive, PTL

\* An instruction word comes from ISRAM only after the signature was verified.
THEOREM CodeIsVerified == Spec => []OnlyVerifiedCode
  <1>1. IInv => OnlyVerifiedCode
    <2> SUFFICES ASSUME IInv, NEW busy \in BOOLEAN, NEW ov \in BOOLEAN,
                        FetchRvalid(busy, ~ov /\ FetchPass(busy)), FetchRdata.src = "ISRAM"
                 PROVE  fw_verified
      BY DEF OnlyVerifiedCode
    <2>1. fsel \in {"BOOTROM", "ISRAM", "DBG"} /\ \A s \in Slaves : rdata[s].src = s
      BY DEF IInv, TypeOK, FetchedVerified
    <2>2. From("ERR", {}).src = "ERR" BY FromType
    <2>3. fsel = "ISRAM" /\ ~resp_is_data_q
      BY <2>1, <2>2 DEF FetchRdata, FetchErr, Slaves
    <2>4. rvalid["ISRAM"] BY <2>3 DEF FetchRvalid
    <2> QED BY <2>3, <2>4 DEF IInv, FetchedVerified
  <1> QED BY <1>1, Inductive, PTL

\* What a clock edge does to the memories and the control registers.
LEMMA ClockPick ==
    ASSUME IInv, Clock
    PROVE  \E pready \in BOOLEAN :
              /\ CtrlEdge(Acc(pready)) /\ MemEdge(Acc(pready)) /\ UNCHANGED env
              /\ image' = IF isram_lock THEN image ELSE isram'
              /\ Acc(pready) => dreq \in DataRequest
  <1>1. PICK pready \in BOOLEAN : ClockReady(pready) BY DEF Clock
  <1>2. PICK ov \in DataGate(pready) :
          \E fov \in FetchGate(IsramData(pready, ov)) : ClockWith(pready, ov, fov)
    BY <1>1 DEF ClockReady
  <1>3. PICK fov \in BOOLEAN : ClockWith(pready, ov, fov)
    BY <1>2 DEF FetchGate, Settle, StableGate
  <1>4. /\ CtrlEdge(Acc(pready)) /\ MemEdge(Acc(pready)) /\ UNCHANGED env
        /\ image' = IF isram_lock THEN image ELSE isram'
    BY <1>3, EdgeFacts DEF HistoryEdge
  <1>5. Acc(pready) => dreq \in DataRequest BY Signals
  <1> QED BY <1>4, <1>5

\* ISRAM holds the image that was in it when the lock was set, whatever the
\* core, the debugger and the crypto unit do afterwards.
THEOREM ImageStaysSealed == Spec => []ImageSealed
  <1>1. Init => Sealed BY DEF Init, Sealed
  <1>2. IInv /\ Sealed /\ [Next]_vars => Sealed'
    <2> SUFFICES ASSUME IInv, Sealed, [Next]_vars PROVE Sealed' OBVIOUS
    <2>1. CASE Clock
      <3>1. PICK pready \in BOOLEAN :
              /\ CtrlEdge(Acc(pready)) /\ MemEdge(Acc(pready))
              /\ image' = IF isram_lock THEN image ELSE isram'
        BY <2>1, ClockPick
      <3>2. isram_lock => isram' = isram BY <3>1 DEF MemEdge, IsramWritable
      <3>3. isram_lock => isram_lock' BY <3>1 DEF CtrlEdge
      <3> QED BY <3>1, <3>2, <3>3 DEF Sealed
    <2>2. CASE UNCHANGED <<slave, ctrl, hist>>
      BY <2>2 DEF Sealed, slave, ctrl, hist
    <2>3. ASSUME NEW r \in DataReqs, RaiseData(r) PROVE UNCHANGED <<slave, ctrl, hist>>
      BY <2>3 DEF RaiseData
    <2>4. ASSUME NEW r \in FetchReqs, RaiseFetch(r) PROVE UNCHANGED <<slave, ctrl, hist>>
      BY <2>4 DEF RaiseFetch
    <2>5. ToggleDebug \/ Verify \/ UNCHANGED vars => UNCHANGED <<slave, ctrl, hist>>
      BY DEF ToggleDebug, Verify, vars
    <2> QED BY <2>1, <2>2, <2>3, <2>4, <2>5 DEF Next
  <1>3. Sealed => ImageSealed BY DEF Sealed, ImageSealed
  <1> QED BY <1>1, <1>2, <1>3, Inductive, PTL DEF Spec

\* After boot_done no access changes the control registers, and under debug
\* no access changes ISRAM.
THEOREM NothingReopens == Spec => SealedAfterBoot
  <1>1. IInv /\ [Next]_vars =>
          [/\ boot_done => UNCHANGED ctrl
           /\ dbg_mode  => UNCHANGED isram]_vars
    <2> SUFFICES ASSUME IInv, Next
                 PROVE  /\ boot_done => UNCHANGED ctrl
                        /\ dbg_mode  => UNCHANGED isram
      OBVIOUS
    <2>1. CASE Clock
      <3>1. PICK pready \in BOOLEAN :
              /\ CtrlEdge(Acc(pready)) /\ MemEdge(Acc(pready))
              /\ Acc(pready) => dreq \in DataRequest
        BY <2>1, ClockPick
      <3>2. dbg_mode => isram' = isram BY <3>1 DEF MemEdge, IsramWritable
      <3>3. boot_done /\ Acc(pready) /\ dreq.we => DataSel(dreq) # "CTRL"
        BY DEF DataSel, PrivDenied
      <3>4. boot_done => isram_lock' = isram_lock /\ boot_done' = boot_done
        BY <3>1, <3>3 DEF CtrlEdge, IInv, TypeOK
      <3> QED BY <3>2, <3>4 DEF ctrl
    <2>2. CASE UNCHANGED <<slave, ctrl>>
      BY <2>2 DEF slave, ctrl
    <2>3. ASSUME NEW r \in DataReqs, RaiseData(r) PROVE UNCHANGED <<slave, ctrl>>
      BY <2>3 DEF RaiseData
    <2>4. ASSUME NEW r \in FetchReqs, RaiseFetch(r) PROVE UNCHANGED <<slave, ctrl>>
      BY <2>4 DEF RaiseFetch
    <2>5. ToggleDebug \/ Verify => UNCHANGED <<slave, ctrl>>
      BY DEF ToggleDebug, Verify
    <2> QED BY <2>1, <2>2, <2>3, <2>4, <2>5 DEF Next
  <1> QED BY <1>1, Inductive, PTL DEF Spec, SealedAfterBoot
-------------------------------------------------------------------------------
(* The fetch demux *)

\* While FetchHeld holds the answer to a fetch does not depend on what is live
\* on the bus, and it arrives in the cycle after the grant.
LEMMA FetchHandshake ==
    ASSUME TypeOK, FetchHeld, ~unanswered, NEW busy \in BOOLEAN, NEW fwd \in BOOLEAN
    PROVE  FetchRvalid(busy, fwd) = (fcnt = 1)
  <1>1. fsel \in {"BOOTROM", "ISRAM"} /\ fcnt \in {0, 1} /\ ~fetch_blocked_q
    BY DEF FetchHeld
  <1>2. rvalid["BOOTROM"] \in BOOLEAN /\ rvalid["ISRAM"] \in BOOLEAN
    BY DEF TypeOK, Slaves
  <1>3. CASE fsel = "BOOTROM"
    <2>1. FetchRvalid(busy, fwd) = rvalid["BOOTROM"] BY <1>3 DEF FetchRvalid
    <2>2. rvalid["BOOTROM"] <=> fcnt = 1 BY <1>3 DEF FetchHeld
    <2> QED BY <2>1, <2>2, <1>2
  <1>4. CASE fsel = "ISRAM" /\ resp_is_data_q
    <2>1. FetchRvalid(busy, fwd) = FALSE BY <1>1, <1>4 DEF FetchRvalid
    <2>2. fcnt # 1 BY <1>4 DEF FetchHeld
    <2> QED BY <2>1, <2>2
  <1>5. CASE fsel = "ISRAM" /\ ~resp_is_data_q
    <2>1. FetchRvalid(busy, fwd) = rvalid["ISRAM"] BY <1>5 DEF FetchRvalid
    <2>2. rvalid["ISRAM"] <=> fcnt = 1 BY <1>5 DEF FetchHeld
    <2> QED BY <2>1, <2>2, <1>2
  <1> QED BY <1>1, <1>3, <1>4, <1>5

\* The overflow loop of the fetch demux then settles with the gate open.
LEMMA FetchGateOpen ==
    ASSUME TypeOK, FetchHeld, ~unanswered, NEW busy \in BOOLEAN
    PROVE  StableGate(FetchOvOpen(busy), FetchOvShut(busy)) = {FALSE}
  <1>1. fcnt \in {0, 1} BY DEF FetchHeld
  <1>2. FetchPass(busy) \in BOOLEAN /\ FetchUp(busy) \in BOOLEAN /\ (fcnt = 1) \in BOOLEAN
    BY DEF FetchPass, FetchUp
  <1>3. /\ FetchRvalid(busy, FetchPass(busy)) = (fcnt = 1)
        /\ FetchRvalid(busy, FALSE) = (fcnt = 1)
    BY <1>2, FetchHandshake
  <1>4. ~FetchOvOpen(busy)
    BY <1>1, <1>2, <1>3, NoOverflow DEF FetchOvOpen
  <1>5. ~FetchOvShut(busy)
    <2>1. fcnt = 1 => ~Overflow(fcnt, FALSE, TRUE)
      BY NoOverflow
    <2>2. fcnt = 0 => ~Overflow(fcnt, FALSE, FALSE)
      BY NoOverflow
    <2> QED BY <1>1, <1>3, <2>1, <2>2 DEF FetchOvShut
  <1> QED BY <1>4, <1>5, ClosedLoop

\* A clock edge keeps the answer of the fetch in its place.
LEMMA ClockFetchHeld ==
    ASSUME IInv, FetchHeld, NEW pready \in BOOLEAN, NEW ov \in DataGate(pready),
           NEW fov \in BOOLEAN, ClockWith(pready, ov, fov)
    PROVE  FetchHeld'
  <1> DEFINE acc  == Acc(pready)
             facc == Facc(pready, fov)
             drv  == DataRvalid(pready)
             frv  == FetchRvalid(Busy(pready), Fwd(pready, fov))
  <1>0. /\ TypeOK
        /\ acc \in BOOLEAN /\ (acc => dreq \in DataRequest)
        /\ facc \in BOOLEAN /\ (facc => freq \in FetchRequest)
        /\ facc /\ FetchSel(freq) = "ISRAM" => ~(acc /\ DataSel(dreq) = "ISRAM")
    BY Signals DEF IInv, Busy
  <1>a. /\ FetchDemuxEdge(facc, frv) /\ ResponseEdge(acc, facc) /\ ArbiterEdge(acc, facc)
        /\ HistoryEdge(acc, facc, drv, frv)
    BY EdgeFacts
  <1> SUFFICES ASSUME ~unanswered' PROVE FetchHeld'
    BY DEF FetchHeld
  <1>b. /\ ~unanswered
        /\ facc => FetchSel(freq) # "DBG" /\ (FetchSel(freq) = "ISRAM" => fw_verified)
    BY <1>a DEF HistoryEdge
  <1>c. frv = (fcnt = 1)
    <2>1. Busy(pready) \in BOOLEAN /\ Fwd(pready, fov) \in BOOLEAN
      BY DEF Busy, Fwd
    <2> QED BY <1>0, <1>b, <2>1, FetchHandshake
  <1> HIDE DEF acc, facc, drv, frv
  <1>d. fcnt \in {0, 1} /\ frv \in BOOLEAN
    BY <1>b, <1>c DEF FetchHeld
  <1>e. fcnt' = IF facc THEN 1 ELSE 0
    <2>1. fcnt' = NextCount(fcnt, facc, frv) BY <1>a DEF FetchDemuxEdge
    <2> QED BY <2>1, <1>0, <1>c, <1>d, NoOverflow
  <1>f. fexp' = IF facc THEN <<FetchDue(freq)>> ELSE <<>>
    <2>1. fexp' = Owed(fexp, frv, facc, FetchDue(freq)) BY <1>a DEF HistoryEdge
    <2>2. CASE fcnt = 0
      <3>1. fexp = <<>> BY <1>b, <2>2 DEF FetchHeld
      <3>2. frv = FALSE
        <4>1. ~(fcnt = 1) BY <2>2
        <4> QED BY <1>c, <1>d, <4>1
      <3> QED BY <1>0, <2>1, <3>1, <3>2, OwedOne
    <2>3. CASE fcnt = 1
      <3>1. PICK x : fexp = <<x>> BY <1>b, <2>3 DEF FetchHeld
      <3>2. frv = TRUE BY <1>c, <1>d, <2>3
      <3> QED BY <1>0, <2>1, <3>1, <3>2, OwedOne
    <2> QED BY <1>d, <2>2, <2>3
  <1>g. fsel' = IF facc THEN FetchSel(freq) ELSE fsel BY <1>a DEF FetchDemuxEdge
  <1>h. facc => FetchSel(freq) \in {"BOOTROM", "ISRAM"}
    BY <1>0, <1>b, FetchSelType
  <1>1. fsel' \in {"BOOTROM", "ISRAM"} /\ ~fetch_blocked_q'
    <2>1. fsel' \in {"BOOTROM", "ISRAM"} BY <1>b, <1>g, <1>h DEF FetchHeld
    <2>2. ~fetch_blocked_q' BY <1>a, <1>b DEF ArbiterEdge
    <2> QED BY <2>1, <2>2
  <1>2. ASSUME facc PROVE /\ rvalid'[fsel'] /\ fexp' = <<[word |-> rdata'[fsel'], err |-> FALSE]>>
                          /\ fsel' = "ISRAM" => ~resp_is_data_q'
    <2>. DEFINE s == FetchSel(freq)
    <2>1. s \in Slaves /\ FetchAt(s, facc)
      BY <1>2, <1>b, <1>h DEF FetchAt, Slaves
    <2>2. ~DataAt(s, acc)
      BY <1>0, <1>2, <1>h, DataSelType DEF DataAt, DataPorts
    <2>3. rvalid'[s] /\ rdata'[s] = FetchWord(freq)
      BY <1>a, <2>1, <2>2 DEF ResponseEdge
    <2>4. FetchDue(freq) = [word |-> FetchWord(freq), err |-> FALSE]
      BY <1>2, <1>b DEF FetchDue
    <2>5. s = "ISRAM" => ~resp_is_data_q'
      BY <1>a, <2>1, <2>2 DEF ArbiterEdge
    <2> QED BY <1>2, <1>f, <1>g, <2>3, <2>4, <2>5
  <1>3. ASSUME rvalid'["BOOTROM"] PROVE facc /\ fsel' = "BOOTROM"
    <2>1. DataAt("BOOTROM", acc) \/ FetchAt("BOOTROM", facc)
      BY <1>a, <1>3 DEF ResponseEdge, Slaves
    <2>2. ~DataAt("BOOTROM", acc)
      BY <1>0, DataSelType DEF DataAt, DataPorts
    <2> QED BY <2>1, <2>2, <1>g DEF FetchAt
  <1>4. ASSUME rvalid'["ISRAM"], ~resp_is_data_q' PROVE facc /\ fsel' = "ISRAM"
    <2>1. DataAt("ISRAM", acc) \/ FetchAt("ISRAM", facc)
      BY <1>a, <1>4 DEF ResponseEdge, Slaves
    <2>2. FetchAt("ISRAM", facc)
      BY <1>a, <1>4, <2>1 DEF ArbiterEdge
    <2> QED BY <2>2, <1>g DEF FetchAt
  <1> QED BY <1>1, <1>2, <1>3, <1>4, <1>e, <1>f DEF FetchHeld

\* As long as every accepted fetch can be answered, fetches are answered in
\* order with their own word, and the overflow loop of the fetch demux settles.
THEOREM FetchResponsesInOrder == Spec => []FetchInOrder
  <1>1. Init => FetchHeld
    BY DEF Init, FetchHeld, Slaves
  <1>2. IInv /\ FetchHeld /\ [Next]_vars => FetchHeld'
    <2> SUFFICES ASSUME IInv, FetchHeld, [Next]_vars PROVE FetchHeld' OBVIOUS
    <2>1. CASE Clock
      <3>1. PICK pready \in BOOLEAN : ClockReady(pready) BY <2>1 DEF Clock
      <3>2. PICK ov \in DataGate(pready) :
              \E fov \in FetchGate(IsramData(pready, ov)) : ClockWith(pready, ov, fov)
        BY <3>1 DEF ClockReady
      <3>3. PICK fov \in BOOLEAN : ClockWith(pready, ov, fov)
        BY <3>2 DEF FetchGate, Settle, StableGate
      <3> QED BY <3>3, ClockFetchHeld
    <2>2. CASE UNCHANGED <<demux, slave, hist>>
      BY <2>2 DEF FetchHeld, demux, slave, hist
    <2>3. ASSUME NEW r \in DataReqs, RaiseData(r) PROVE UNCHANGED <<demux, slave, hist>>
      BY <2>3 DEF RaiseData
    <2>4. ASSUME NEW r \in FetchReqs, RaiseFetch(r) PROVE UNCHANGED <<demux, slave, hist>>
      BY <2>4 DEF RaiseFetch
    <2>5. ToggleDebug \/ Verify \/ UNCHANGED vars => UNCHANGED <<demux, slave, hist>>
      BY DEF ToggleDebug, Verify, vars
    <2> QED BY <2>1, <2>2, <2>3, <2>4, <2>5 DEF Next
  <1>3. IInv /\ FetchHeld => FetchInOrder
    <2> SUFFICES ASSUME TypeOK, FetchHeld, ~unanswered, NEW busy \in BOOLEAN
                 PROVE  /\ fcnt = Len(fexp)
                        /\ \E ov \in BOOLEAN :
                             StableGate(FetchOvOpen(busy), FetchOvShut(busy)) = {ov}
                        /\ FetchRvalid(busy, FetchPass(busy)) =>
                             /\ fexp # <<>>
                             /\ FetchRdata = Head(fexp).word
                             /\ FetchErr = Head(fexp).err
      BY DEF FetchInOrder, IInv
    <2>1. fcnt \in {0, 1} /\ (fcnt = 0 => fexp = <<>>)
          /\ (fcnt = 1 => fexp = <<[word |-> rdata[fsel], err |-> FALSE]>>)
      BY DEF FetchHeld
    <2>2. fcnt = Len(fexp)
      <3>1. CASE fcnt = 0 BY <2>1, <3>1
      <3>2. CASE fcnt = 1
        <4>1. PICK x : fexp = <<x>> BY <2>1, <3>2
        <4> QED BY <3>2, <4>1
      <3> QED BY <2>1, <3>1, <3>2
    <2>3. StableGate(FetchOvOpen(busy), FetchOvShut(busy)) = {FALSE}
      BY FetchGateOpen
    <2>4. ASSUME FetchRvalid(busy, FetchPass(busy))
          PROVE  /\ fexp # <<>>
                 /\ FetchRdata = Head(fexp).word
                 /\ FetchErr = Head(fexp).err
      <3>1. FetchPass(busy) \in BOOLEAN BY DEF FetchPass
      <3>2. fcnt = 1 BY <2>4, <3>1, FetchHandshake
      <3>3. FetchErr = FALSE BY <3>2 DEF FetchErr, FetchHeld
      <3>4. FetchRdata = rdata[fsel] BY <3>3 DEF FetchRdata
      <3> DEFINE x == [word |-> rdata[fsel], err |-> FALSE]
      <3>5. fexp = <<x>> /\ x.word = rdata[fsel] /\ x.err = FALSE BY <2>1, <3>2
      <3> HIDE DEF x
      <3>6. fexp # <<>> /\ Head(fexp) = x BY <3>5
      <3> QED BY <3>3, <3>4, <3>5, <3>6
    <2> QED BY <2>2, <2>3, <2>4
  <1> QED BY <1>1, <1>2, <1>3, Inductive, PTL DEF Spec
===============================================================================
