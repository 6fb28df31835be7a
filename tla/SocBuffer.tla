------------------------------- MODULE SocBuffer -------------------------------
(***************************************************************************)
(* The firmware streaming buffer (soc_buffer): software fills a block word *)
(* by word, the buffer streams it and two control words into the           *)
(* accelerator, waits for done and captures the accelerator's output.      *)
(*                                                                         *)
(* Every step is a clock edge.  At most one request is granted in a cycle, *)
(* and none while the buffer streams or waits: a request that is presented *)
(* then is held (stalled).  What a held request is matters only when it is *)
(* granted, and it is chosen then.                                         *)
(*                                                                         *)
(* The accelerator is outside the buffer: it stores what is written to it  *)
(* until it is done, pulses done once for a block that it was given        *)
(* completely, and then shows output words that depend on the block.       *)
(***************************************************************************)
EXTENDS Naturals, Sequences

CONSTANTS MaxBlk,       \* MAX_BLK_SIZE: 32, and the address of the control word
          OutWords,     \* ACCEL_OUT_WORDS: 16
          Words,        \* data words
          Sizes,        \* block sizes that software writes
          Flags, Lens,  \* values of ACCEL_CTRL and of MSG_LENGTH
          Masks,        \* interrupt masks that software writes
          Zero,         \* the word 0
          X             \* the value of a word that does not exist

Irqs  == {"full", "done", "error"}
Ports == 0 .. MaxBlk + 2        \* addresses of the accelerator that are written

ASSUME BufferAssumption ==
    /\ MaxBlk \in Nat \ {0} /\ OutWords \in Nat \ {0}
    /\ Sizes \subseteq 0 .. MaxBlk
    /\ Masks \subseteq SUBSET Irqs

VARIABLES
    state,                          \* state_q
    buf_mem, fill_ptr,              \* the block, and the words written by software
    stream_ptr,                     \* words sent to the accelerator
    accel_out_regs, cap_ptr,        \* the captured output
    soft_reset, enable, abort,      \* BUF_CTRL
    blk_size, first_last, msg_length,
    irq_en, irq_pend,               \* IRQ_ENABLE, IRQ_STATUS
    stalled,                        \* a request waits for its grant
    accel, result,                  \* accelerator: what was written, its output
    block, sent,                    \* history: words stored since the last reset, block fed
    clean,                          \* history: no size or word was written at a wrong time
    unseen,                         \* history: a done that was not acknowledged
    lost                            \* history: a word was granted and not stored

datapath == <<state, buf_mem, fill_ptr, stream_ptr, accel_out_regs, cap_ptr>>
ctrl     == <<soft_reset, enable, abort>>
setup    == <<blk_size, first_last, msg_length, irq_en>>
outside  == <<accel, result>>
hist     == <<block, sent, clean, unseen, lost>>
vars     == <<datapath, ctrl, setup, irq_pend, stalled, outside, hist>>

Init ==
    /\ state = "IDLE"
    /\ buf_mem = [i \in 0 .. MaxBlk - 1 |-> Zero] /\ fill_ptr = 0 /\ stream_ptr = 0
    /\ accel_out_regs = [j \in 0 .. OutWords - 1 |-> <<j, "none">>] /\ cap_ptr = 0
    /\ soft_reset = FALSE /\ enable = FALSE /\ abort = FALSE
    /\ blk_size = MaxBlk /\ first_last = Zero /\ msg_length = Zero
    /\ irq_en = {} /\ irq_pend = {}
    /\ stalled = FALSE
    /\ accel = [a \in Ports |-> X] /\ result = "none"
    /\ block = <<>> /\ sent = <<>>
    /\ clean = TRUE /\ unseen = FALSE /\ lost = FALSE
-------------------------------------------------------------------------------
(* Combinational signals *)

buf_full == fill_ptr = blk_size

\* The bus is stalled while the accelerator is fed or works.
obi_stall == state \in {"STREAMING", "CTRL_SEND", "WAITING"}

state_d(done) ==
    CASE state = "IDLE" /\ enable /\ ~soft_reset                      -> "FILLING"
      [] state = "FILLING" /\ abort                                   -> "ERROR"
      [] state = "FILLING" /\ ~abort /\ soft_reset                    -> "IDLE"
      [] state = "FILLING" /\ ~abort /\ ~soft_reset /\ buf_full       -> "STREAMING"
      [] state = "STREAMING" /\ stream_ptr = blk_size                 -> "CTRL_SEND"
      [] state = "CTRL_SEND" /\ stream_ptr = MaxBlk + 2               -> "WAITING"
      [] state = "WAITING" /\ abort                                   -> "ERROR"
      [] state = "WAITING" /\ ~abort /\ done                          -> "CAPTURING"
      [] state = "CAPTURING" /\ cap_ptr = OutWords - 1                -> "FILLING"
      [] state = "ERROR" /\ soft_reset                                -> "IDLE"
      [] OTHER                                                        -> state

irq_o == irq_en \cap irq_pend # {}

\* Mutant: a word is stored beyond the end of the block.
StoresBeyond(push) == push # {} /\ state = "FILLING"

\* push is the set of the words that software writes in this cycle: none or one.
Stores(push) == push # {} /\ state = "FILLING" /\ fill_ptr < blk_size

\* The word that is written.
wdata(push) == CHOOSE w \in push : TRUE

\* The word on the accelerator port: one more than the block in STREAMING,
\* and the length once more at the end of CTRL_SEND.
accel_data ==
    CASE state = "STREAMING" /\ stream_ptr < MaxBlk  -> buf_mem[stream_ptr]
      [] state = "STREAMING" /\ stream_ptr >= MaxBlk -> X
      [] state = "CTRL_SEND" /\ stream_ptr = MaxBlk  -> first_last
      [] OTHER                                       -> msg_length
-------------------------------------------------------------------------------
(* The clock edge.  A later assignment of the code wins over an earlier one. *)

\* Mutant: the fill pointer is not cleared for the next block.
FillKept(push, done) ==
    /\ buf_mem' = IF Stores(push) THEN [buf_mem EXCEPT ![fill_ptr] = wdata(push)] ELSE buf_mem
    /\ fill_ptr' = IF Stores(push) THEN fill_ptr + 1
                   ELSE IF soft_reset THEN 0 ELSE fill_ptr

FillEdge(push, done) ==
    /\ buf_mem' = IF Stores(push) THEN [buf_mem EXCEPT ![fill_ptr] = wdata(push)] ELSE buf_mem
    /\ fill_ptr' = IF state = "FILLING" /\ state_d(done) = "STREAMING" THEN 0
                   ELSE IF Stores(push) THEN fill_ptr + 1
                   ELSE IF soft_reset THEN 0 ELSE fill_ptr

\* Mutant: the control words are counted one short.
StreamShort(done) ==
    stream_ptr' =
        CASE state = "FILLING" /\ state_d(done) = "STREAMING"        -> 0
          [] state = "STREAMING" /\ state_d(done) = "CTRL_SEND"      -> MaxBlk
          [] state = "STREAMING" /\ stream_ptr < blk_size            -> stream_ptr + 1
          [] state = "CTRL_SEND" /\ stream_ptr < MaxBlk + 1          -> stream_ptr + 1
          [] OTHER                                -> IF soft_reset THEN 0 ELSE stream_ptr

StreamEdge(done) ==
    stream_ptr' =
        CASE state = "FILLING" /\ state_d(done) = "STREAMING"        -> 0
          [] state = "STREAMING" /\ state_d(done) = "CTRL_SEND"      -> MaxBlk
          [] state = "STREAMING" /\ stream_ptr < blk_size            -> stream_ptr + 1
          [] state = "CTRL_SEND" /\ stream_ptr < MaxBlk + 2          -> stream_ptr + 1
          [] OTHER                                -> IF soft_reset THEN 0 ELSE stream_ptr

\* Mutant: the capture pointer is not reset for the next output.
CaptureKept(done) ==
    /\ cap_ptr' = IF state = "CAPTURING" /\ cap_ptr < OutWords - 1 THEN cap_ptr + 1
                  ELSE IF soft_reset THEN 0 ELSE cap_ptr
    /\ accel_out_regs' = IF state = "CAPTURING"
                         THEN [accel_out_regs EXCEPT ![cap_ptr] = <<cap_ptr, result>>]
                         ELSE accel_out_regs

CaptureEdge(done) ==
    /\ cap_ptr' =
         CASE state = "CAPTURING" /\ cap_ptr < OutWords - 1           -> cap_ptr + 1
           [] state = "WAITING" /\ state_d(done) = "CAPTURING"        -> 0
           [] OTHER                                -> IF soft_reset THEN 0 ELSE cap_ptr
    /\ accel_out_regs' = IF state = "CAPTURING"
                         THEN [accel_out_regs EXCEPT ![cap_ptr] = <<cap_ptr, result>>]
                         ELSE accel_out_regs

\* Mutant: an event is remembered only if its interrupt is enabled.
IrqMasked(ack, done) ==
    LET raised == (IF buf_full THEN {"full"} ELSE {})
                  \cup (IF done THEN {"done"} ELSE {})
                  \cup (IF state = "ERROR" THEN {"error"} ELSE {})
    IN  irq_pend' = (irq_pend \cup (raised \cap irq_en)) \ ack

\* A clear by software wins over a set by hardware in the same cycle.
IrqEdge(ack, done) ==
    LET raised == (IF buf_full THEN {"full"} ELSE {})
                  \cup (IF done THEN {"done"} ELSE {})
                  \cup (IF state = "ERROR" THEN {"error"} ELSE {})
    IN  irq_pend' = (irq_pend \cup raised) \ ack

AccelEdge(done) ==
    /\ accel' = CASE state \in {"STREAMING", "CTRL_SEND"} ->
                       [accel EXCEPT ![stream_ptr] = accel_data]
                  [] done  -> [a \in Ports |-> X]
                  [] OTHER -> accel
    /\ result' = IF done THEN (IF result = "a" THEN "b" ELSE "a") ELSE result

\* A word that is written in the cycle of a soft reset keeps the old fill
\* pointer, and a size that changes under a block that is partly filled, or that
\* starts to stream, does not fit the block.
Misuse(push) ==
    \/ soft_reset /\ Stores(push)
    \/ blk_size' # blk_size /\ (fill_ptr # 0 \/ (state = "FILLING" /\ buf_full))

HistoryEdge(push, ack, done) ==
    LET start == state = "FILLING" /\ state_d(done) = "STREAMING" IN
    /\ block' = CASE start \/ soft_reset -> <<>>
                  [] ~start /\ ~soft_reset /\ Stores(push) -> Append(block, wdata(push))
                  [] OTHER -> block
    /\ sent' = CASE start -> block [] done -> <<>> [] OTHER -> sent
    /\ clean' = (~Misuse(push) /\ (clean \/ done \/ (soft_reset /\ ~obi_stall)))
    /\ unseen' = (done \/ (unseen /\ "done" \notin ack))
    /\ lost' = (push # {} /\ state \in {"FILLING", "CAPTURING"} /\ ~Stores(push))

Edge(push, ack, done) ==
    /\ state' = state_d(done)
    /\ FillEdge(push, done)
    /\ StreamEdge(done)
    /\ CaptureEdge(done)
    /\ IrqEdge(ack, done)
    /\ AccelEdge(done)
    /\ HistoryEdge(push, ack, done)

\* soft_reset and abort clear themselves.
SelfClear == soft_reset' = FALSE /\ abort' = FALSE /\ enable' = enable
-------------------------------------------------------------------------------
(* Requests of software *)

\* No request is granted.  The accelerator may finish.
Wait(done) ==
    /\ done => state = "WAITING"
    /\ stalled => obi_stall
    /\ stalled' \in IF stalled THEN {TRUE} ELSE {FALSE, obi_stall}
    /\ UNCHANGED setup
    /\ SelfClear
    /\ Edge({}, {}, done)

Granted == ~obi_stall /\ stalled' = FALSE

Read ==
    /\ Granted
    /\ UNCHANGED setup
    /\ SelfClear
    /\ Edge({}, {}, FALSE)

WriteFifo(w) ==
    /\ Granted
    /\ UNCHANGED setup
    /\ SelfClear
    /\ Edge({w}, {}, FALSE)

WriteCtrl(bits) ==
    /\ Granted
    /\ soft_reset' = ("reset" \in bits)
    /\ enable' = ("enable" \in bits)
    /\ abort' = ("abort" \in bits)
    /\ UNCHANGED setup
    /\ Edge({}, {}, FALSE)

WriteBlkSize(n) ==
    /\ Granted
    /\ blk_size' = n
    /\ UNCHANGED <<first_last, msg_length, irq_en>>
    /\ SelfClear
    /\ Edge({}, {}, FALSE)

WriteAccelCtrl(f) ==
    /\ Granted
    /\ first_last' = f
    /\ UNCHANGED <<blk_size, msg_length, irq_en>>
    /\ SelfClear
    /\ Edge({}, {}, FALSE)

WriteMsgLength(n) ==
    /\ Granted
    /\ msg_length' = n
    /\ UNCHANGED <<blk_size, first_last, irq_en>>
    /\ SelfClear
    /\ Edge({}, {}, FALSE)

WriteIrqEnable(m) ==
    /\ Granted
    /\ irq_en' = m
    /\ UNCHANGED <<blk_size, first_last, msg_length>>
    /\ SelfClear
    /\ Edge({}, {}, FALSE)

AckIrq(m) ==
    /\ Granted
    /\ UNCHANGED setup
    /\ SelfClear
    /\ Edge({}, m, FALSE)

Next ==
    \/ \E done \in BOOLEAN : Wait(done)
    \/ Read
    \/ \E w \in Words : WriteFifo(w)
    \/ \E bits \in SUBSET {"reset", "enable", "abort"} : WriteCtrl(bits)
    \/ \E n \in Sizes : WriteBlkSize(n)
    \/ \E f \in Flags : WriteAccelCtrl(f)
    \/ \E n \in Lens : WriteMsgLength(n)
    \/ \E m \in Masks : WriteIrqEnable(m) \/ AckIrq(m)

Spec == Init /\ [][Next]_vars

\* The clock runs, and the accelerator finishes a block that it was given.
Fairness == WF_vars(Next) /\ WF_vars(Wait(TRUE))

FairSpec == Spec /\ Fairness
-------------------------------------------------------------------------------
(* Properties *)

\* Type correctness; in particular no pointer leaves its memory.
TypeOK ==
    /\ state \in {"IDLE", "FILLING", "STREAMING", "CTRL_SEND", "WAITING", "CAPTURING", "ERROR"}
    /\ blk_size \in 0 .. MaxBlk /\ fill_ptr \in 0 .. MaxBlk
    /\ stream_ptr \in Ports /\ cap_ptr \in 0 .. OutWords - 1
    /\ soft_reset \in BOOLEAN /\ enable \in BOOLEAN /\ abort \in BOOLEAN
    /\ stalled \in BOOLEAN
    /\ irq_en \subseteq Irqs /\ irq_pend \subseteq Irqs
    /\ DOMAIN buf_mem = 0 .. MaxBlk - 1 /\ DOMAIN accel = Ports
    /\ DOMAIN accel_out_regs = 0 .. OutWords - 1
    /\ clean \in BOOLEAN /\ unseen \in BOOLEAN /\ lost \in BOOLEAN

\* When the buffer waits for the accelerator it has handed over exactly the
\* words that software stored since the last reset or block, each at its
\* address, and then the control words, whatever resets, aborts and register
\* writes came before.
BlockDelivered ==
    state = "WAITING" =>
        /\ clean => /\ Len(sent) = blk_size
                    /\ \A i \in 1 .. blk_size : accel[i - 1] = sent[i]
        /\ accel[MaxBlk] = first_last /\ accel[MaxBlk + 1] = msg_length

\* Outside CAPTURING the output registers hold the output of the last finished
\* block, complete and not mixed with an older one.
OutputsOfBlock ==
    state # "CAPTURING" =>
        \A j \in 0 .. OutWords - 1 : accel_out_regs[j] = <<j, result>> \/ result = "none"

\* The interrupt of a block is not lost: although a clear wins over a set in the
\* same cycle, an enabled interrupt is raised until software acknowledges it
\* after the event.
DoneRemembered == unseen /\ "done" \in irq_en => irq_o

\* Every request is granted at last, if the accelerator finishes its blocks.
BusAnswered == stalled ~> ~stalled

\* Every word that is granted while blocks are streamed is stored.
NoWordLost == ~lost
===============================================================================
