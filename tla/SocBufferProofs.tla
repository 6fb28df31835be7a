---------------------------- MODULE SocBufferProofs ----------------------------
(***************************************************************************)
(* The streaming buffer hands over complete blocks and captures complete   *)
(* outputs for every block size, number of output words and programming    *)
(* of its registers, at any time, by software.                             *)
(***************************************************************************)
EXTENDS SocBuffer, SequenceTheorems, TLAPS

(* The inductive invariant *)

Feeding == state \in {"STREAMING", "CTRL_SEND", "WAITING"}

\* While a block is filled the pointer counts its words, each in its place, and
\* from the start of streaming to the end of capturing the next one is empty.
Filled ==
    /\ block \in Seq(Words) /\ sent \in Seq(Words)
    /\ clean => /\ fill_ptr = Len(block) /\ fill_ptr <= blk_size
                /\ \A i \in 1 .. Len(block) : buf_mem[i - 1] = block[i]
    /\ Feeding \/ state = "CAPTURING" => fill_ptr = 0 /\ block = <<>>

\* The buffer still holds the block that is fed.
Held ==
    Feeding /\ clean => /\ Len(sent) = blk_size
                        /\ \A i \in 1 .. blk_size : buf_mem[i - 1] = sent[i]

\* What the accelerator was given so far.
Given ==
    /\ state = "STREAMING" =>
         stream_ptr <= blk_size /\ (clean => \A i \in 1 .. stream_ptr : accel[i - 1] = sent[i])
    /\ state \in {"CTRL_SEND", "WAITING"} /\ clean =>
         \A i \in 1 .. blk_size : accel[i - 1] = sent[i]
    /\ state = "CTRL_SEND" =>
         /\ stream_ptr \in MaxBlk .. MaxBlk + 2
         /\ stream_ptr > MaxBlk => accel[MaxBlk] = first_last
         /\ stream_ptr > MaxBlk + 1 => accel[MaxBlk + 1] = msg_length
    /\ state = "WAITING" => accel[MaxBlk] = first_last /\ accel[MaxBlk + 1] = msg_length

\* Neither an abort nor a reset can be pending when the accelerator finishes,
\* so that every finished block is captured.
Captured ==
    /\ state \in {"CTRL_SEND", "WAITING"} => ~abort /\ ~soft_reset
    /\ OutputsOfBlock
    /\ state = "CAPTURING" => \A j \in 0 .. cap_ptr - 1 : accel_out_regs[j] = <<j, result>>

Remembered == unseen => "done" \in irq_pend

BInv == TypeOK /\ Filled /\ Held /\ Given /\ Captured /\ Remembered
-------------------------------------------------------------------------------
(* A clock edge *)

\* What every action is: an edge with at most one word and one acknowledgement,
\* whose registers are written only when the bus is not stalled.
Cycle(push, ack, done) ==
    /\ Edge(push, ack, done)
    /\ push = {} \/ \E w \in Words : push = {w}
    /\ done \in BOOLEAN /\ (done => state = "WAITING" /\ ack = {})
    /\ blk_size' \in 0 .. MaxBlk /\ irq_en' \subseteq Irqs /\ stalled' \in BOOLEAN
    /\ soft_reset' \in BOOLEAN /\ enable' \in BOOLEAN /\ abort' \in BOOLEAN
    /\ obi_stall => UNCHANGED setup /\ ~soft_reset' /\ ~abort'
    /\ blk_size' = blk_size \/ push = {}

\* Every action of software and of the accelerator is a cycle.
LEMMA NextIsCycle ==
    ASSUME TypeOK, Next
    PROVE  \E push, ack, done : Cycle(push, ack, done)
<1>1. ASSUME NEW done \in BOOLEAN, Wait(done) PROVE Cycle({}, {}, done)
  <2>1. stalled' \in BOOLEAN
    <3>1. obi_stall \in BOOLEAN
      BY DEF obi_stall
    <3>2. CASE stalled
      BY <1>1, <3>2 DEF Wait
    <3>3. CASE ~stalled
      BY <1>1, <3>1, <3>3 DEF Wait
    <3>. QED
      BY <3>2, <3>3
  <2>2. /\ Edge({}, {}, done) /\ (done => state = "WAITING")
        /\ UNCHANGED setup /\ UNCHANGED enable /\ soft_reset' = FALSE /\ abort' = FALSE
    BY <1>1 DEF Wait, SelfClear
  <2>3. /\ blk_size' \in 0 .. MaxBlk /\ irq_en' \subseteq Irqs /\ blk_size' = blk_size
        /\ enable' \in BOOLEAN /\ soft_reset' \in BOOLEAN /\ abort' \in BOOLEAN
    BY <2>2 DEF TypeOK, setup
  <2>. QED
    BY <2>1, <2>2, <2>3, Zenon DEF Cycle
<1>2. CASE Read
  BY <1>2 DEF Read, Granted, Cycle, TypeOK, SelfClear, setup
<1>3. ASSUME NEW w \in Words, WriteFifo(w) PROVE Cycle({w}, {}, FALSE)
  BY <1>3 DEF WriteFifo, Granted, Cycle, TypeOK, SelfClear, setup
<1>4. ASSUME NEW bits, WriteCtrl(bits) PROVE Cycle({}, {}, FALSE)
  <2>1. soft_reset' \in BOOLEAN /\ enable' \in BOOLEAN /\ abort' \in BOOLEAN
    <3>1. \A b : (b \in bits) \in BOOLEAN
      OBVIOUS
    <3>. QED
      BY <1>4, <3>1, Zenon DEF WriteCtrl
  <2>2. Edge({}, {}, FALSE) /\ ~obi_stall /\ stalled' = FALSE /\ UNCHANGED setup
    BY <1>4 DEF WriteCtrl, Granted
  <2>3. blk_size' \in 0 .. MaxBlk /\ irq_en' \subseteq Irqs /\ blk_size' = blk_size
    BY <2>2 DEF TypeOK, setup
  <2>. QED
    BY <2>1, <2>2, <2>3, Zenon DEF Cycle
<1>5. ASSUME NEW n \in Sizes, WriteBlkSize(n) PROVE Cycle({}, {}, FALSE)
  BY <1>5, BufferAssumption DEF WriteBlkSize, Granted, Cycle, TypeOK, SelfClear, setup
<1>6. ASSUME NEW f, WriteAccelCtrl(f) PROVE Cycle({}, {}, FALSE)
  BY <1>6 DEF WriteAccelCtrl, Granted, Cycle, TypeOK, SelfClear, setup
<1>7. ASSUME NEW n, WriteMsgLength(n) PROVE Cycle({}, {}, FALSE)
  BY <1>7 DEF WriteMsgLength, Granted, Cycle, TypeOK, SelfClear, setup
<1>8. ASSUME NEW m \in Masks, WriteIrqEnable(m) PROVE Cycle({}, {}, FALSE)
  BY <1>8, BufferAssumption DEF WriteIrqEnable, Granted, Cycle, TypeOK, SelfClear, setup
<1>9. ASSUME NEW m \in Masks, AckIrq(m) PROVE Cycle({}, m, FALSE)
  BY <1>9 DEF AckIrq, Granted, Cycle, TypeOK, SelfClear, setup
<1>. QED
  BY <1>1, <1>2, <1>3, <1>4, <1>5, <1>6, <1>7, <1>8, <1>9 DEF Next

\* Streaming starts with a full block, unless it is aborted or reset.
Starts == state = "FILLING" /\ ~abort /\ ~soft_reset /\ buf_full

\* The transitions of the state machine.
LEMMA Transitions ==
    ASSUME TypeOK, NEW done \in BOOLEAN, done => state = "WAITING"
    PROVE  /\ (state = "FILLING" /\ state_d(done) = "STREAMING") <=> Starts
           /\ state \in {"IDLE", "ERROR"} => state_d(done) \in {"IDLE", "FILLING", "ERROR"}
           /\ state = "FILLING" /\ ~Starts => state_d(done) \in {"IDLE", "FILLING", "ERROR"}
           /\ state = "STREAMING" =>
                state_d(done) = IF stream_ptr = blk_size THEN "CTRL_SEND" ELSE "STREAMING"
           /\ state = "CTRL_SEND" =>
                state_d(done) = IF stream_ptr = MaxBlk + 2 THEN "WAITING" ELSE "CTRL_SEND"
           /\ state = "WAITING" =>
                state_d(done) = IF abort THEN "ERROR" ELSE IF done THEN "CAPTURING" ELSE "WAITING"
           /\ state = "CAPTURING" =>
                state_d(done) = IF cap_ptr = OutWords - 1 THEN "FILLING" ELSE "CAPTURING"
<1>1. CASE state \in {"IDLE", "ERROR"}
  BY <1>1 DEF state_d, Starts
<1>2. CASE state = "FILLING"
  BY <1>2 DEF state_d, Starts
<1>3. CASE state = "STREAMING"
  BY <1>3 DEF state_d, Starts
<1>4. CASE state = "CTRL_SEND"
  BY <1>4 DEF state_d, Starts
<1>5. CASE state = "WAITING"
  BY <1>5 DEF state_d, Starts
<1>6. CASE state = "CAPTURING"
  BY <1>6 DEF state_d, Starts
<1>. QED
  BY <1>1, <1>2, <1>3, <1>4, <1>5, <1>6 DEF TypeOK

\* Where the next state can come from.
LEMMA Origins ==
    ASSUME TypeOK, NEW push, NEW ack, NEW done, Cycle(push, ack, done)
    PROVE  /\ state' \in {"IDLE", "FILLING", "STREAMING", "CTRL_SEND", "WAITING", "CAPTURING", "ERROR"}
           /\ Feeding' => Starts \/ Feeding
           /\ Starts => state' = "STREAMING" /\ ~done
           /\ done => ~Feeding'
           /\ state' = "CAPTURING" => done \/ state = "CAPTURING"
           /\ state' = "STREAMING" => Starts \/ (state = "STREAMING" /\ stream_ptr # blk_size)
           /\ state' = "CTRL_SEND" =>
                \/ state = "STREAMING" /\ stream_ptr = blk_size
                \/ state = "CTRL_SEND" /\ stream_ptr # MaxBlk + 2
           /\ state' = "WAITING" =>
                \/ state = "CTRL_SEND" /\ stream_ptr = MaxBlk + 2
                \/ state = "WAITING" /\ ~done
<1>1. done \in BOOLEAN /\ (done => state = "WAITING") /\ state' = state_d(done)
  BY DEF Cycle, Edge
<1>2. Starts => state = "FILLING"
  BY DEF Starts
<1>3. state \in {"IDLE", "FILLING", "STREAMING", "CTRL_SEND", "WAITING", "CAPTURING", "ERROR"}
  BY DEF TypeOK
<1>. QED
  BY <1>1, <1>2, <1>3, Transitions DEF Feeding

\* A word is stored only while a block that is not full is filled.
LEMMA StoresFacts ==
    ASSUME TypeOK, NEW push, NEW ack, NEW done, Cycle(push, ack, done)
    PROVE  /\ Stores(push) => /\ state = "FILLING" /\ fill_ptr < blk_size /\ ~Starts /\ ~done
                              /\ ~obi_stall /\ blk_size' = blk_size
                              /\ wdata(push) \in Words
           /\ Starts \/ Feeding \/ state = "CAPTURING" => ~Stores(push)
           /\ Feeding <=> obi_stall
<1>1. Stores(push) => wdata(push) \in Words
  BY DEF Stores, Cycle, wdata
<1>. QED
  BY <1>1 DEF Stores, Cycle, Starts, buf_full, obi_stall, Feeding, TypeOK

\* The new fill pointer, block and size.
LEMMA FillValues ==
    ASSUME TypeOK, NEW push, NEW ack, NEW done, Cycle(push, ack, done)
    PROVE  /\ fill_ptr' = IF Starts THEN 0 ELSE IF Stores(push) THEN fill_ptr + 1
                          ELSE IF soft_reset THEN 0 ELSE fill_ptr
           /\ block' = IF Starts \/ soft_reset THEN <<>>
                       ELSE IF Stores(push) THEN Append(block, wdata(push)) ELSE block
           /\ sent' = IF Starts THEN block ELSE IF done THEN <<>> ELSE sent
           /\ clean' => /\ clean \/ done \/ (soft_reset /\ ~obi_stall)
                        /\ ~(soft_reset /\ Stores(push))
                        /\ blk_size' = blk_size \/ (fill_ptr = 0 /\ ~(state = "FILLING" /\ buf_full))
<1>1. (state = "FILLING" /\ state_d(done) = "STREAMING") <=> Starts
  BY Transitions DEF Cycle
<1>2. fill_ptr' = IF Starts THEN 0 ELSE IF Stores(push) THEN fill_ptr + 1
                  ELSE IF soft_reset THEN 0 ELSE fill_ptr
  BY <1>1 DEF Cycle, Edge, FillEdge
<1>3. Starts => ~done
  BY DEF Starts, Cycle
<1>4. /\ block' = IF Starts \/ soft_reset THEN <<>>
                  ELSE IF Stores(push) THEN Append(block, wdata(push)) ELSE block
      /\ sent' = IF Starts THEN block ELSE IF done THEN <<>> ELSE sent
  BY <1>1, <1>3 DEF Cycle, Edge, HistoryEdge
<1>5. clean' => /\ clean \/ done \/ (soft_reset /\ ~obi_stall)
                /\ ~(soft_reset /\ Stores(push))
                /\ blk_size' = blk_size \/ (fill_ptr = 0 /\ ~(state = "FILLING" /\ buf_full))
  BY DEF Cycle, Edge, HistoryEdge, Misuse
<1>. QED
  BY <1>2, <1>4, <1>5

\* No pointer leaves its memory.
LEMMA TypeStep ==
    ASSUME BInv, NEW push, NEW ack, NEW done, Cycle(push, ack, done)
    PROVE  TypeOK'
<1>1. TypeOK /\ MaxBlk \in Nat \ {0} /\ OutWords \in Nat \ {0}
  BY BufferAssumption DEF BInv
<1>2. fill_ptr' \in 0 .. MaxBlk
  BY <1>1, FillValues, StoresFacts DEF TypeOK
<1>3. stream_ptr' \in Ports
  <2>1. done \in BOOLEAN /\ (done => state = "WAITING") /\ StreamEdge(done)
    BY DEF Cycle, Edge
  <2>2. stream_ptr' \in {0, MaxBlk, stream_ptr} \/ (stream_ptr' = stream_ptr + 1 /\ stream_ptr < MaxBlk + 2)
    <3>1. CASE state = "STREAMING"
      BY <1>1, <2>1, <3>1, Transitions DEF StreamEdge, BInv, Given, TypeOK, Ports
    <3>2. CASE state = "CTRL_SEND"
      BY <1>1, <2>1, <3>2 DEF StreamEdge, TypeOK, Ports
    <3>3. CASE state = "FILLING"
      BY <1>1, <2>1, <3>3 DEF StreamEdge
    <3>4. CASE state \notin {"STREAMING", "CTRL_SEND", "FILLING"}
      BY <1>1, <2>1, <3>4 DEF StreamEdge
    <3>. QED
      BY <3>1, <3>2, <3>3, <3>4
  <2>. QED
    BY <2>2, <1>1 DEF TypeOK, Ports
<1>4. cap_ptr' \in 0 .. OutWords - 1
  <2>1. done \in BOOLEAN /\ CaptureEdge(done)
    BY DEF Cycle, Edge
  <2>2. CASE state = "CAPTURING"
    BY <1>1, <2>1, <2>2 DEF CaptureEdge, TypeOK
  <2>3. CASE state # "CAPTURING"
    BY <1>1, <2>1, <2>3 DEF CaptureEdge, TypeOK
  <2>. QED
    BY <2>2, <2>3
<1>5. /\ DOMAIN buf_mem' = 0 .. MaxBlk - 1 /\ DOMAIN accel_out_regs' = 0 .. OutWords - 1
  BY <1>1 DEF TypeOK, Cycle, Edge, FillEdge, CaptureEdge
<1>6. DOMAIN accel' = Ports
  <2>1. AccelEdge(done) /\ (done => state = "WAITING")
    BY DEF Cycle, Edge
  <2>2. CASE Feeding /\ state # "WAITING"
    BY <1>1, <2>1, <2>2 DEF AccelEdge, TypeOK, Feeding
  <2>3. CASE ~(Feeding /\ state # "WAITING") /\ done
    BY <1>1, <2>1, <2>3 DEF AccelEdge, TypeOK, Feeding
  <2>4. CASE ~(Feeding /\ state # "WAITING") /\ ~done
    BY <1>1, <2>1, <2>4 DEF AccelEdge, TypeOK, Feeding
  <2>. QED
    BY <2>2, <2>3, <2>4
<1>7. irq_pend' \subseteq Irqs
  BY <1>1 DEF TypeOK, Cycle, Edge, IrqEdge, Irqs
<1>8. clean' \in BOOLEAN /\ unseen' \in BOOLEAN /\ lost' \in BOOLEAN
  <2>1. /\ clean' = (~Misuse(push) /\ (clean \/ done \/ (soft_reset /\ ~obi_stall)))
        /\ unseen' = (done \/ (unseen /\ "done" \notin ack))
        /\ lost' = (push # {} /\ state \in {"FILLING", "CAPTURING"} /\ ~Stores(push))
    BY DEF Cycle, Edge, HistoryEdge
  <2>2. /\ (~Misuse(push) /\ (clean \/ done \/ (soft_reset /\ ~obi_stall))) \in BOOLEAN
        /\ (done \/ (unseen /\ "done" \notin ack)) \in BOOLEAN
        /\ (push # {} /\ state \in {"FILLING", "CAPTURING"} /\ ~Stores(push)) \in BOOLEAN
    OBVIOUS
  <2>. QED
    BY <2>1, <2>2, Zenon
<1>9. state' \in {"IDLE", "FILLING", "STREAMING", "CTRL_SEND", "WAITING", "CAPTURING", "ERROR"}
  BY <1>1, Origins
<1>10. /\ blk_size' \in 0 .. MaxBlk /\ irq_en' \subseteq Irqs /\ stalled' \in BOOLEAN
       /\ soft_reset' \in BOOLEAN /\ enable' \in BOOLEAN /\ abort' \in BOOLEAN
  BY DEF Cycle
<1>. QED
  BY <1>2, <1>3, <1>4, <1>5, <1>6, <1>7, <1>8, <1>9, <1>10, Zenon DEF TypeOK

\* The fill pointer counts the words of the block.
LEMMA FilledStep ==
    ASSUME BInv, NEW push, NEW ack, NEW done, Cycle(push, ack, done)
    PROVE  Filled'
<1>1. TypeOK /\ MaxBlk \in Nat \ {0} /\ block \in Seq(Words) /\ sent \in Seq(Words)
      /\ blk_size' \in 0 .. MaxBlk
  BY BufferAssumption DEF BInv, Filled, Cycle
<1>2. (done => state = "WAITING") /\ (Feeding => obi_stall)
  BY DEF Cycle, Feeding, obi_stall
<1>3. (Feeding \/ state = "CAPTURING") => fill_ptr = 0 /\ block = <<>>
  BY DEF BInv, Filled
<1>4. /\ fill_ptr' = IF Starts THEN 0 ELSE IF Stores(push) THEN fill_ptr + 1
                     ELSE IF soft_reset THEN 0 ELSE fill_ptr
      /\ block' = IF Starts \/ soft_reset THEN <<>>
                  ELSE IF Stores(push) THEN Append(block, wdata(push)) ELSE block
      /\ sent' = IF Starts THEN block ELSE IF done THEN <<>> ELSE sent
      /\ clean' => /\ clean \/ done \/ (soft_reset /\ ~obi_stall)
                   /\ ~(soft_reset /\ Stores(push))
                   /\ blk_size' = blk_size \/ fill_ptr = 0
  BY <1>1, FillValues
<1>5. <<>> \in Seq(Words) /\ Len(<<>>) = 0
  OBVIOUS
<1>6. sent' \in Seq(Words)
  <2>1. sent' \in {block, <<>>, sent}
    BY <1>4
  <2>. QED
    BY <2>1, <1>1, <1>5
<1>7. CASE Stores(push) /\ ~soft_reset
  <2>1. wdata(push) \in Words
    BY <1>1, <1>7, StoresFacts
  <2>2. /\ state = "FILLING" /\ fill_ptr < blk_size /\ ~Starts /\ ~done /\ ~obi_stall
        /\ blk_size' = blk_size
    BY <1>1, <1>7, StoresFacts
  <2>3. fill_ptr' = fill_ptr + 1 /\ block' = Append(block, wdata(push)) /\ (clean' => clean)
    BY <1>7, <2>2, <1>4
  <2>4. /\ block' \in Seq(Words) /\ Len(block') = Len(block) + 1 /\ Len(block) \in Nat
        /\ block'[Len(block) + 1] = wdata(push)
        /\ \A i \in 1 .. Len(block) : block'[i] = block[i]
    BY <2>1, <2>3, <1>1, AppendProperties, LenProperties
  <2>5. buf_mem' = [buf_mem EXCEPT ![fill_ptr] = wdata(push)]
    BY <1>7 DEF Cycle, Edge, FillEdge
  <2>8. fill_ptr \in 0 .. MaxBlk - 1 /\ DOMAIN buf_mem = 0 .. MaxBlk - 1
    BY <2>2, <1>1 DEF TypeOK
  <2>6. clean' => /\ fill_ptr' = Len(block') /\ fill_ptr' <= blk_size'
                  /\ \A i \in 1 .. Len(block') : buf_mem'[i - 1] = block'[i]
    <3>. SUFFICES ASSUME clean'
                  PROVE  /\ fill_ptr' = Len(block') /\ fill_ptr' <= blk_size'
                         /\ \A i \in 1 .. Len(block') : buf_mem'[i - 1] = block'[i]
      OBVIOUS
    <3>1. /\ fill_ptr = Len(block) /\ fill_ptr <= blk_size
          /\ \A i \in 1 .. Len(block) : buf_mem[i - 1] = block[i]
      BY <2>3 DEF BInv, Filled
    <3>2. ASSUME NEW i \in 1 .. Len(block') PROVE buf_mem'[i - 1] = block'[i]
      <4>1. CASE i = Len(block) + 1
        <5>1. i - 1 = fill_ptr
          BY <4>1, <3>1, <2>4
        <5>. QED
          BY <5>1, <4>1, <2>4, <2>5, <2>8
      <4>2. CASE i # Len(block) + 1
        <5>1. i \in 1 .. Len(block)
          BY <4>2, <2>4
        <5>2. i - 1 # fill_ptr
          BY <5>1, <3>1, <2>4
        <5>3. i - 1 \in 0 .. MaxBlk - 1
          BY <1>1, <5>1, <3>1, <2>8
        <5>. QED
          BY <5>1, <5>2, <5>3, <3>1, <2>4, <2>5, <2>8
      <4>. QED
        BY <4>1, <4>2
    <3>. QED
      BY <3>1, <3>2, <2>2, <2>3, <2>4, <1>1 DEF TypeOK
  <2>7. ~Feeding' /\ state' # "CAPTURING"
    BY <1>1, <2>2, Origins DEF Feeding
  <2>. QED
    BY <1>6, <2>4, <2>6, <2>7 DEF Filled
<1>8. CASE Starts \/ (soft_reset /\ ~Stores(push))
  <2>1. fill_ptr' = 0 /\ block' = <<>>
    BY <1>8, <1>4
  <2>. QED
    BY <1>1, <1>5, <1>6, <2>1 DEF Filled
<1>9. CASE ~Starts /\ ~soft_reset /\ ~Stores(push)
  <2>1. /\ fill_ptr' = fill_ptr /\ block' = block
        /\ clean' => (clean \/ done) /\ (blk_size' = blk_size \/ fill_ptr = 0)
    BY <1>9, <1>4
  <2>6. buf_mem' = buf_mem
    BY <1>9 DEF Cycle, Edge, FillEdge
  <2>2. done => fill_ptr = 0 /\ block = <<>>
    BY <1>2, <1>3 DEF Feeding
  <2>4. clean' => /\ fill_ptr' = Len(block') /\ fill_ptr' <= blk_size'
                  /\ \A i \in 1 .. Len(block') : buf_mem'[i - 1] = block'[i]
    <3>1. CASE done
      BY <3>1, <1>1, <1>5, <2>1, <2>2
    <3>2. CASE ~done
      BY <3>2, <1>1, <2>1, <2>6 DEF BInv, Filled
    <3>. QED
      BY <3>1, <3>2
  <2>5. Feeding' \/ state' = "CAPTURING" => fill_ptr' = 0 /\ block' = <<>>
    BY <1>1, <1>2, <1>3, <1>9, <2>1, Origins DEF Feeding
  <2>. QED
    BY <1>1, <1>6, <2>1, <2>4, <2>5 DEF Filled
<1>10. CASE Stores(push) /\ soft_reset
  <2>1. ~clean' /\ block' = <<>>
    BY <1>10, <1>4
  <2>2. ~Feeding' /\ state' # "CAPTURING"
    BY <1>1, <1>10, StoresFacts, Origins DEF Feeding
  <2>. QED
    BY <1>5, <1>6, <2>1, <2>2 DEF Filled
<1>. QED
  BY <1>7, <1>8, <1>9, <1>10

\* The block that is fed does not change under the stream.
LEMMA HeldStep ==
    ASSUME BInv, NEW push, NEW ack, NEW done, Cycle(push, ack, done)
    PROVE  Held'
<1>1. TypeOK
  BY DEF BInv
<1>2. SUFFICES ASSUME Feeding', clean'
               PROVE  /\ Len(sent') = blk_size'
                      /\ \A i \in 1 .. blk_size' : buf_mem'[i - 1] = sent'[i]
  BY DEF Held
<1>3. (Starts \/ Feeding) /\ ~done /\ ~Stores(push) /\ (Starts => ~soft_reset)
  BY <1>1, <1>2, Origins, StoresFacts DEF Starts
<1>4. buf_mem' = buf_mem /\ clean
  <2>1. buf_mem' = buf_mem
    BY <1>3 DEF Cycle, Edge, FillEdge
  <2>2. Feeding => obi_stall
    BY DEF Feeding, obi_stall
  <2>. QED
    BY <2>1, <2>2, <1>1, <1>2, <1>3, FillValues
<1>5. CASE Starts
  <2>1. sent' = block /\ blk_size' = blk_size /\ fill_ptr = blk_size
    BY <1>1, <1>2, <1>5, FillValues DEF Starts, buf_full
  <2>. QED
    BY <2>1, <1>4 DEF BInv, Filled
<1>6. CASE ~Starts
  <2>1. sent' = sent /\ blk_size' = blk_size
    BY <1>1, <1>3, <1>6, FillValues, StoresFacts DEF Cycle, setup
  <2>. QED
    BY <2>1, <1>3, <1>4, <1>6 DEF BInv, Held
<1>. QED
  BY <1>5, <1>6

\* While the accelerator is fed no register and no history changes, and the
\* port writes one word per cycle.
LEMMA FeedValues ==
    ASSUME BInv, NEW push, NEW ack, NEW done, Cycle(push, ack, done), Feeding, Feeding'
    PROVE  /\ UNCHANGED <<setup, sent>> /\ ~done /\ (clean' => clean)
           /\ state \in {"STREAMING", "CTRL_SEND"} => accel' = [accel EXCEPT ![stream_ptr] = accel_data]
           /\ state = "WAITING" => accel' = accel
           /\ state = "STREAMING" =>
                stream_ptr' = IF stream_ptr = blk_size THEN MaxBlk ELSE stream_ptr + 1
           /\ state = "CTRL_SEND" /\ stream_ptr # MaxBlk + 2 => stream_ptr' = stream_ptr + 1
<1>1. TypeOK /\ MaxBlk \in Nat \ {0} /\ obi_stall
  BY BufferAssumption DEF BInv, Feeding, obi_stall
<1>2. done \in BOOLEAN /\ ~done /\ ~Starts
  BY <1>1, Origins DEF Starts, Feeding, Cycle
<1>3. UNCHANGED setup /\ sent' = sent /\ (clean' => clean)
  <2>1. UNCHANGED setup
    BY <1>1 DEF Cycle
  <2>2. sent' = sent
    BY <1>1, <1>2, FillValues
  <2>3. clean' => clean
    BY <1>1, <1>2, FillValues
  <2>. QED
    BY <2>1, <2>2, <2>3
<1>4. state \in {"STREAMING", "CTRL_SEND"} => accel' = [accel EXCEPT ![stream_ptr] = accel_data]
  BY <1>2 DEF Cycle, Edge, AccelEdge
<1>5. state = "WAITING" => accel' = accel
  BY <1>2 DEF Cycle, Edge, AccelEdge
<1>6. StreamEdge(done) /\ stream_ptr \in Nat /\ blk_size \in Nat
  BY <1>1 DEF Cycle, Edge, TypeOK, Ports
<1>7. state = "STREAMING" =>
        stream_ptr' = IF stream_ptr = blk_size THEN MaxBlk ELSE stream_ptr + 1
  <2>1. state = "STREAMING" => state_d(done) = IF stream_ptr = blk_size THEN "CTRL_SEND" ELSE "STREAMING"
    BY <1>1, <1>2, Transitions
  <2>2. state = "STREAMING" => stream_ptr <= blk_size
    BY DEF BInv, Given
  <2>. QED
    BY <1>6, <2>1, <2>2 DEF StreamEdge
<1>8. state = "CTRL_SEND" /\ stream_ptr # MaxBlk + 2 => stream_ptr' = stream_ptr + 1
  BY <1>1, <1>6 DEF StreamEdge, TypeOK, Ports
<1>. QED
  BY <1>2, <1>3, <1>4, <1>5, <1>7, <1>8

\* The accelerator is given the words in order, and then the control words.
LEMMA GivenStep ==
    ASSUME BInv, NEW push, NEW ack, NEW done, Cycle(push, ack, done)
    PROVE  Given'
<1>1. TypeOK /\ MaxBlk \in Nat \ {0} /\ blk_size \in 0 .. MaxBlk /\ blk_size' \in 0 .. MaxBlk
      /\ stream_ptr \in 0 .. MaxBlk + 2 /\ DOMAIN accel = 0 .. MaxBlk + 2
  BY BufferAssumption DEF BInv, TypeOK, Cycle, Ports
<1>2. CASE ~Feeding'
  BY <1>2 DEF Given, Feeding
<1>3. CASE Starts
  <2>1. state' = "STREAMING" /\ ~done
    BY <1>1, <1>3, Origins
  <2>2. stream_ptr' = 0
    <3>1. state = "FILLING" /\ state_d(done) = "STREAMING"
      BY <1>1, <1>3, Transitions DEF Cycle, Starts
    <3>. QED
      BY <3>1 DEF Cycle, Edge, StreamEdge
  <2>. QED
    BY <1>1, <2>1, <2>2 DEF Given
<1>4. CASE Feeding' /\ ~Starts
  <2>1. Feeding
    BY <1>1, <1>4, Origins
  <2>2. /\ blk_size' = blk_size /\ first_last' = first_last /\ msg_length' = msg_length
        /\ sent' = sent /\ ~done /\ (clean' => clean)
    BY <2>1, <1>4, FeedValues DEF setup
  <2>3. CASE state' = "STREAMING"
    <3>1. state = "STREAMING" /\ stream_ptr # blk_size
      BY <1>1, <1>4, <2>3, Origins
    <3>2. /\ accel' = [accel EXCEPT ![stream_ptr] = accel_data] /\ stream_ptr' = stream_ptr + 1
      BY <3>1, <2>1, <1>4, FeedValues
    <3>3. stream_ptr < blk_size /\ (clean => \A i \in 1 .. stream_ptr : accel[i - 1] = sent[i])
      BY <1>1, <3>1 DEF BInv, Given
    <3>4. accel_data = buf_mem[stream_ptr]
      BY <1>1, <3>1, <3>3 DEF accel_data
    <3>5. ASSUME clean', NEW i \in 1 .. stream_ptr + 1 PROVE accel'[i - 1] = sent[i]
      <4>1. CASE i = stream_ptr + 1
        <5>1. i - 1 = stream_ptr /\ i \in 1 .. blk_size
          BY <4>1, <1>1, <3>3
        <5>2. buf_mem[i - 1] = sent[i]
          BY <5>1, <2>2, <3>1, <3>5 DEF BInv, Held, Feeding
        <5>. QED
          BY <5>1, <5>2, <3>2, <3>4, <1>1
      <4>2. CASE i # stream_ptr + 1
        <5>1. i \in 1 .. stream_ptr /\ i - 1 # stream_ptr /\ i - 1 \in 0 .. MaxBlk + 2
          BY <4>2, <1>1, <3>3
        <5>. QED
          BY <5>1, <3>2, <3>3, <2>2, <3>5, <1>1
      <4>. QED
        BY <4>1, <4>2
    <3>6. stream_ptr' <= blk_size'
      BY <1>1, <2>2, <3>2, <3>3
    <3>7. clean' => \A i \in 1 .. stream_ptr' : accel'[i - 1] = sent'[i]
      BY <3>2, <3>5, <2>2
    <3>. QED
      BY <3>6, <3>7, <2>3 DEF Given
  <2>4. CASE state' = "CTRL_SEND" /\ state = "STREAMING"
    <3>1. stream_ptr = blk_size
      BY <1>1, <2>4, Origins
    <3>2. /\ accel' = [accel EXCEPT ![stream_ptr] = accel_data] /\ stream_ptr' = MaxBlk
      BY <3>1, <2>1, <2>4, <1>4, FeedValues
    <3>3. clean => \A i \in 1 .. blk_size : accel[i - 1] = sent[i]
      BY <3>1, <2>4 DEF BInv, Given
    <3>4. ASSUME NEW i \in 1 .. blk_size PROVE accel'[i - 1] = accel[i - 1]
      <4>1. i - 1 # stream_ptr /\ i - 1 \in 0 .. MaxBlk + 2
        BY <1>1, <3>1
      <4>. QED
        BY <4>1, <3>2, <1>1
    <3>5. clean' => \A i \in 1 .. blk_size' : accel'[i - 1] = sent'[i]
      BY <3>3, <3>4, <2>2
    <3>6. stream_ptr' \in MaxBlk .. MaxBlk + 2 /\ ~(stream_ptr' > MaxBlk) /\ ~(stream_ptr' > MaxBlk + 1)
      BY <1>1, <3>2
    <3>. QED
      BY <3>5, <3>6, <2>4 DEF Given
  <2>5. CASE state = "CTRL_SEND"
    <3>1. accel' = [accel EXCEPT ![stream_ptr] = accel_data]
      BY <2>1, <2>5, <1>4, FeedValues
    <3>2. /\ stream_ptr \in MaxBlk .. MaxBlk + 2
          /\ stream_ptr > MaxBlk => accel[MaxBlk] = first_last
          /\ stream_ptr > MaxBlk + 1 => accel[MaxBlk + 1] = msg_length
          /\ clean => \A i \in 1 .. blk_size : accel[i - 1] = sent[i]
      BY <2>5 DEF BInv, Given
    <3>3. ASSUME NEW i \in 1 .. blk_size PROVE accel'[i - 1] = accel[i - 1]
      <4>1. i - 1 # stream_ptr /\ i - 1 \in 0 .. MaxBlk + 2
        BY <1>1, <3>2
      <4>. QED
        BY <4>1, <3>1, <1>1
    <3>4. clean' => \A i \in 1 .. blk_size' : accel'[i - 1] = sent'[i]
      BY <3>2, <3>3, <2>2
    <3>5. accel'[MaxBlk] = first_last
      <4>1. MaxBlk \in 0 .. MaxBlk + 2
        BY <1>1
      <4>2. CASE stream_ptr = MaxBlk
        <5>1. accel_data = first_last
          BY <4>2, <2>5 DEF accel_data
        <5>. QED
          BY <5>1, <4>1, <4>2, <3>1, <1>1
      <4>3. CASE stream_ptr # MaxBlk
        BY <4>1, <4>3, <3>1, <3>2, <1>1
      <4>. QED
        BY <4>2, <4>3
    <3>6. stream_ptr > MaxBlk => accel'[MaxBlk + 1] = msg_length
      <4>1. MaxBlk + 1 \in 0 .. MaxBlk + 2
        BY <1>1
      <4>2. CASE stream_ptr = MaxBlk + 1
        <5>1. accel_data = msg_length
          BY <1>1, <4>2, <2>5 DEF accel_data
        <5>. QED
          BY <5>1, <4>1, <4>2, <3>1, <1>1
      <4>3. CASE stream_ptr # MaxBlk + 1
        BY <4>1, <4>3, <3>1, <3>2, <1>1
      <4>. QED
        BY <4>2, <4>3
    <3>7. CASE state' = "CTRL_SEND"
      <4>1. stream_ptr # MaxBlk + 2 /\ stream_ptr' = stream_ptr + 1
        <5>1. stream_ptr # MaxBlk + 2
          BY <1>1, <2>5, <3>7, Origins
        <5>. QED
          BY <5>1, <2>1, <2>5, <1>4, FeedValues
      <4>2. stream_ptr' \in MaxBlk .. MaxBlk + 2 /\ (stream_ptr' > MaxBlk + 1 => stream_ptr > MaxBlk)
        BY <4>1, <3>2, <1>1
      <4>. QED
        BY <4>2, <3>4, <3>5, <3>6, <3>7, <2>2 DEF Given
    <3>8. CASE state' = "WAITING"
      <4>1. stream_ptr > MaxBlk
        <5>1. stream_ptr = MaxBlk + 2
          BY <1>1, <2>5, <3>8, Origins
        <5>. QED
          BY <5>1, <1>1
      <4>. QED
        BY <4>1, <3>4, <3>5, <3>6, <3>8, <2>2 DEF Given
    <3>. QED
      BY <3>7, <3>8, <1>1, <1>4, <2>3, <2>5, Origins DEF Feeding
  <2>6. CASE state = "WAITING" /\ state' = "WAITING"
    <3>1. accel' = accel
      BY <2>1, <2>6, <1>4, FeedValues
    <3>. QED
      BY <3>1, <2>2, <2>6 DEF BInv, Given
  <2>. QED
    BY <1>1, <1>4, <2>1, <2>3, <2>4, <2>5, <2>6, Origins DEF Feeding
<1>. QED
  BY <1>2, <1>3, <1>4

\* A finished block is captured completely before the next one is filled.
LEMMA CapturedStep ==
    ASSUME BInv, NEW push, NEW ack, NEW done, Cycle(push, ack, done)
    PROVE  Captured'
<1>1. TypeOK /\ OutWords \in Nat \ {0} /\ cap_ptr \in 0 .. OutWords - 1
      /\ DOMAIN accel_out_regs = 0 .. OutWords - 1
  BY BufferAssumption DEF BInv, TypeOK
<1>2. state' \in {"CTRL_SEND", "WAITING"} => ~abort' /\ ~soft_reset'
  <2>1. state' \in {"CTRL_SEND", "WAITING"} => obi_stall
    BY <1>1, Origins DEF obi_stall
  <2>. QED
    BY <2>1 DEF Cycle
<1>3. done \in BOOLEAN /\ (done => state = "WAITING") /\ CaptureEdge(done) /\ AccelEdge(done)
      /\ state' = state_d(done)
  BY DEF Cycle, Edge
<1>4. state = "WAITING" => ~abort
  BY DEF BInv, Captured
<1>5. CASE state = "CAPTURING"
  <2>1. accel_out_regs' = [accel_out_regs EXCEPT ![cap_ptr] = <<cap_ptr, result>>] /\ result' = result
    BY <1>3, <1>5 DEF CaptureEdge, AccelEdge
  <2>2. \A j \in 0 .. cap_ptr - 1 : accel_out_regs[j] = <<j, result>>
    BY <1>5 DEF BInv, Captured
  <2>3. ASSUME NEW j \in 0 .. cap_ptr PROVE accel_out_regs'[j] = <<j, result'>>
    <3>1. CASE j = cap_ptr
      BY <3>1, <2>1, <1>1
    <3>2. CASE j # cap_ptr
      <4>1. j \in 0 .. cap_ptr - 1 /\ j \in 0 .. OutWords - 1
        BY <3>2, <1>1
      <4>. QED
        BY <4>1, <3>2, <2>1, <2>2, <1>1
    <3>. QED
      BY <3>1, <3>2
  <2>4. state_d(done) = IF cap_ptr = OutWords - 1 THEN "FILLING" ELSE "CAPTURING"
    BY <1>1, <1>3, <1>5, Transitions
  <2>5. CASE cap_ptr = OutWords - 1
    BY <2>3, <2>4, <2>5, <1>2, <1>3 DEF Captured, OutputsOfBlock
  <2>6. CASE cap_ptr # OutWords - 1
    <3>1. cap_ptr' = cap_ptr + 1
      BY <1>1, <1>3, <1>5, <2>6 DEF CaptureEdge
    <3>2. cap_ptr' - 1 = cap_ptr
      BY <3>1, <1>1
    <3>. QED
      BY <3>2, <2>3, <2>4, <2>6, <1>2, <1>3 DEF Captured, OutputsOfBlock
  <2>. QED
    BY <2>5, <2>6
<1>6. CASE state # "CAPTURING" /\ done
  <2>1. state' = "CAPTURING"
    BY <1>1, <1>3, <1>4, <1>6, Transitions
  <2>2. cap_ptr' = 0
    BY <1>3, <1>6, <2>1 DEF CaptureEdge
  <2>. QED
    BY <2>1, <2>2, <1>2 DEF Captured, OutputsOfBlock
<1>7. CASE state # "CAPTURING" /\ ~done
  <2>1. state' # "CAPTURING"
    BY <1>1, <1>7, Origins
  <2>2. accel_out_regs' = accel_out_regs /\ result' = result
    BY <1>3, <1>7 DEF CaptureEdge, AccelEdge
  <2>. QED
    BY <2>1, <2>2, <1>2, <1>7 DEF BInv, Captured, OutputsOfBlock
<1>. QED
  BY <1>3, <1>5, <1>6, <1>7

\* Only an acknowledgement clears the event of a finished block.
LEMMA RememberedStep ==
    ASSUME BInv, NEW push, NEW ack, NEW done, Cycle(push, ack, done)
    PROVE  Remembered'
<1>1. /\ unseen' => done \/ (unseen /\ "done" \notin ack)
      /\ done => ack = {}
  BY DEF Cycle, Edge, HistoryEdge
<1>2. (irq_pend \cup (IF done THEN {"done"} ELSE {})) \ ack \subseteq irq_pend'
  BY DEF Cycle, Edge, IrqEdge
<1>. QED
  BY <1>1, <1>2 DEF BInv, Remembered
-------------------------------------------------------------------------------
(* The theorems *)

\* The invariant holds in the initial state.
LEMMA InitBInv == Init => BInv
<1>. SUFFICES ASSUME Init PROVE BInv
  OBVIOUS
<1>1. TypeOK
  <2>1. /\ blk_size \in 0 .. MaxBlk /\ fill_ptr \in 0 .. MaxBlk
        /\ stream_ptr \in Ports /\ cap_ptr \in 0 .. OutWords - 1
    BY BufferAssumption DEF Init, Ports
  <2>2. DOMAIN buf_mem = 0 .. MaxBlk - 1 /\ DOMAIN accel = Ports
    BY DEF Init
  <2>3. DOMAIN accel_out_regs = 0 .. OutWords - 1
    BY DEF Init
  <2>. QED
    BY <2>1, <2>2, <2>3 DEF Init, TypeOK
<1>2. Filled
  <2>1. Len(<<>>) = 0 /\ <<>> \in Seq(Words)
    OBVIOUS
  <2>. QED
    BY <2>1, BufferAssumption DEF Init, Filled, Feeding
<1>3. Held /\ Given /\ Remembered
  BY DEF Init, Held, Given, Remembered, Feeding
<1>4. Captured
  BY DEF Init, Captured, OutputsOfBlock
<1>. QED
  BY <1>1, <1>2, <1>3, <1>4 DEF BInv

\* Every step preserves the invariant.
LEMMA StepBInv == BInv /\ [Next]_vars => BInv'
<1>. SUFFICES ASSUME BInv, [Next]_vars PROVE BInv'
  OBVIOUS
<1>1. CASE Next
  <2>1. PICK push, ack, done : Cycle(push, ack, done)
    BY <1>1, NextIsCycle DEF BInv
  <2>. QED
    BY <2>1, TypeStep, FilledStep, HeldStep, GivenStep, CapturedStep, RememberedStep DEF BInv
<1>2. CASE UNCHANGED vars
  BY <1>2 DEF vars, datapath, ctrl, setup, outside, hist, BInv, TypeOK, Filled, Held, Given,
              Captured, OutputsOfBlock, Remembered, Feeding
<1>. QED
  BY <1>1, <1>2

\* The buffer stays within its invariant.
THEOREM Inductive == Spec => []BInv
  BY InitBInv, StepBInv, PTL DEF Spec

\* No pointer of the buffer leaves its memory.
THEOREM TypeCorrect == Spec => []TypeOK
<1>1. BInv => TypeOK
  BY DEF BInv
<1>. QED
  BY <1>1, Inductive, PTL

\* A block that the accelerator works on is the block that software stored,
\* complete and in order, with the control words that are programmed.
THEOREM BlockIsDelivered == Spec => []BlockDelivered
<1>1. BInv => BlockDelivered
  BY DEF BInv, Held, Given, BlockDelivered, Feeding
<1>. QED
  BY <1>1, Inductive, PTL

\* The output registers never mix the outputs of two blocks.
THEOREM OutputsAreComplete == Spec => []OutputsOfBlock
<1>1. BInv => OutputsOfBlock
  BY DEF BInv, Captured
<1>. QED
  BY <1>1, Inductive, PTL

\* The interrupt of a finished block stands until software acknowledges it.
THEOREM DoneIsRemembered == Spec => []DoneRemembered
<1>1. BInv => DoneRemembered
  BY DEF BInv, Remembered, DoneRemembered, irq_o
<1>. QED
  BY <1>1, Inductive, PTL
===============================================================================
