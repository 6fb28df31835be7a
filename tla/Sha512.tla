-------------------------------- MODULE Sha512 --------------------------------
(***************************************************************************)
(* The SHA-512 engine: sha512_top with its preprocessor (sha512_padder)    *)
(* and message schedule.  It receives the words of a message into a block, *)
(* hashes every full block, and pads the last one by itself.               *)
(*                                                                         *)
(* Words are tokens and a digest is the sequence of blocks compressed      *)
(* since the initial value was loaded: two digests are equal exactly when  *)
(* the hashed blocks are.  Byte swaps cancel out and are left out.         *)
(***************************************************************************)
EXTENDS Naturals, Sequences

CONSTANTS Blk,      \* 32-bit words in a block: 32
          Rounds    \* rounds per block: 80

ASSUME ShaAssumption == Blk \in Nat /\ Blk >= 8 /\ Rounds \in Nat \ {0}

Slots == 0 .. Blk - 1

\* Words that the hardware makes: the padding, and what is left in the
\* schedule after the rounds.
Zero       == <<"00", 0, 0>>
End        == <<"80", 0, 0>>
Length(n)  == <<"len", n, 0>>
Stale      == <<"stale", 0, 0>>

VARIABLES
    port,               \* addr_i, wr_en_i, wdata_i: driven by top_most's registers
    sstate,             \* state of the top control FSM
    word_count,         \* words in the current block
    round_count,
    is_last_block,
    msg_length,         \* message length in words
    sched,              \* the message schedule's block
    digest,             \* H
    intr,               \* intr_o
    pstate,             \* preprocessor: state
    N_cnt, C_cnt        \* preprocessor: message words seen, zeros sent (modulo 64)

sha == <<sstate, word_count, round_count, is_last_block, msg_length, sched,
         digest, intr, pstate, N_cnt, C_cnt>>

\* The register that the port addresses, and the slot of a message word.
Port(kind, slot, wen, data) == [kind |-> kind, slot |-> slot, wen |-> wen, data |-> data]

Idle == Port("none", 0, FALSE, Zero)

ShaInit ==
    /\ port = Idle
    /\ sstate = "IDLE" /\ word_count = 0 /\ round_count = 0 /\ is_last_block = FALSE
    /\ msg_length = 0 /\ sched = [i \in Slots |-> Stale] /\ digest = <<>> /\ intr = FALSE
    /\ pstate = "IDLE" /\ N_cnt = 0 /\ C_cnt = 0
-------------------------------------------------------------------------------
(* Combinational signals *)

PrepStart == port.wen /\ port.kind = "ctrl"
Ready     == sstate \in {"IDLE", "RECV"}
MuxSel    == pstate # "IDLE"

\* A message word is taken only in RECV; in PAD the preprocessor feeds a word
\* every cycle.
SchedWr == sstate = "PAD" \/ (port.wen /\ port.kind = "word" /\ sstate = "RECV")

\* Mutant: the length is given only the three words that it seems to need.
CThreeWords == LET k == msg_length % Blk
               IN  IF k >= Blk - 3 THEN 2 * Blk - 3 - k ELSE Blk - 3 - k

\* Zero words between the end mark and the length, whose slots are the last two.
K == msg_length % Blk
C == IF K >= Blk - 4 THEN 2 * Blk - 3 - K ELSE Blk - 3 - K

PrepDone == pstate = "SENDLEN1" /\ SchedWr

PrepData ==
    CASE pstate = "SEND80"   -> End
      [] pstate = "SENDLEN1" -> Length(msg_length)
      [] OTHER               -> Zero
-------------------------------------------------------------------------------
(* The clock edge *)

PrepEdge ==
    /\ pstate' =
         CASE pstate = "IDLE" /\ PrepStart /\ msg_length = 0          -> "SEND80"
           [] pstate = "IDLE" /\ SchedWr /\ N_cnt + 1 = msg_length    -> "SEND80"
           [] pstate = "SEND80" /\ SchedWr                            -> IF C = 0 THEN "SENDLEN0" ELSE "SEND00"
           [] pstate = "SEND00" /\ SchedWr /\ C_cnt + 1 = C           -> "SENDLEN0"
           [] pstate = "SENDLEN0" /\ SchedWr                          -> "SENDLEN1"
           [] pstate = "SENDLEN1" /\ SchedWr                          -> "IDLE"
           [] OTHER                                                   -> pstate
    /\ N_cnt' = IF PrepStart THEN 0 ELSE IF SchedWr /\ pstate = "IDLE" THEN N_cnt + 1 ELSE N_cnt
    /\ C_cnt' = IF PrepStart THEN 0
                ELSE IF SchedWr /\ pstate = "SEND00" THEN (C_cnt + 1) % (2 * Blk) ELSE C_cnt

\* The schedule is consumed by the rounds.
SchedEdge ==
    sched' = CASE sstate = "PAD"          -> [sched EXCEPT ![word_count % Blk] = PrepData]
               [] SchedWr /\ sstate # "PAD" -> [sched EXCEPT ![port.slot] = port.data]
               [] sstate = "ACCUM"        -> [i \in Slots |-> Stale]
               [] OTHER                   -> sched

ShaIdle ==
    /\ sstate = "IDLE"
    /\ sstate' = IF PrepStart THEN "RECV" ELSE "IDLE"
    /\ digest' = IF PrepStart THEN <<>> ELSE digest
    /\ intr' = FALSE /\ word_count' = 0 /\ is_last_block' = FALSE
    /\ UNCHANGED round_count

\* A full block is hashed; otherwise the preprocessor takes over after the
\* last message word.
ShaRecv ==
    LET full == word_count = Blk \/ (SchedWr /\ word_count = Blk - 1)
    IN  /\ sstate = "RECV"
        /\ word_count' = IF SchedWr THEN word_count + 1 ELSE word_count
        /\ sstate' = IF full THEN "WORK" ELSE IF MuxSel THEN "PAD" ELSE "RECV"
        /\ round_count' = IF full THEN 0 ELSE round_count
        /\ UNCHANGED <<is_last_block, digest, intr>>

\* Mutant: the padded block is one word too long.
ShaPadOneMore ==
    /\ sstate = "PAD"
    /\ word_count' = word_count + 1
    /\ is_last_block' = (is_last_block \/ PrepDone)
    /\ sstate' = IF word_count = Blk THEN "WORK" ELSE "PAD"
    /\ round_count' = IF word_count = Blk THEN 0 ELSE round_count
    /\ UNCHANGED <<digest, intr>>

ShaPad ==
    /\ sstate = "PAD"
    /\ word_count' = word_count + 1
    /\ is_last_block' = (is_last_block \/ PrepDone)
    /\ sstate' = IF word_count = Blk - 1 THEN "WORK" ELSE "PAD"
    /\ round_count' = IF word_count = Blk - 1 THEN 0 ELSE round_count
    /\ UNCHANGED <<digest, intr>>

ShaWork ==
    /\ sstate = "WORK"
    /\ round_count' = round_count + 1
    /\ sstate' = IF round_count = Rounds THEN "ACCUM" ELSE "WORK"
    /\ UNCHANGED <<word_count, is_last_block, digest, intr>>

\* Mutant: the last block does not pass through DONE.
ShaAccumSilent ==
    /\ sstate = "ACCUM"
    /\ digest' = Append(digest, sched)
    /\ word_count' = 0
    /\ sstate' = IF is_last_block THEN "IDLE" ELSE IF MuxSel THEN "PAD" ELSE "RECV"
    /\ UNCHANGED <<round_count, is_last_block, intr>>

ShaAccum ==
    /\ sstate = "ACCUM"
    /\ digest' = Append(digest, sched)
    /\ word_count' = 0
    /\ sstate' = IF is_last_block THEN "DONE" ELSE IF MuxSel THEN "PAD" ELSE "RECV"
    /\ UNCHANGED <<round_count, is_last_block, intr>>

ShaDone ==
    /\ sstate = "DONE"
    /\ intr' = TRUE
    /\ sstate' = "IDLE"
    /\ UNCHANGED <<word_count, round_count, is_last_block, digest>>

ShaEdge ==
    /\ PrepEdge
    /\ SchedEdge
    /\ msg_length' = IF port.wen /\ port.kind = "len" THEN port.data[2] ELSE msg_length
    /\ ShaIdle \/ ShaRecv \/ ShaPad \/ ShaWork \/ ShaAccum \/ ShaDone
-------------------------------------------------------------------------------
(* Reference: what SHA-512 hashes, for a message of whole words. *)

\* The least number of zero words before the four words of the length.
Zeros(n) == CHOOSE z \in 0 .. Blk - 1 : (n + 1 + z + 4) % Blk = 0

Padded(msg) ==
    msg \o <<End>> \o [i \in 1 .. Zeros(Len(msg)) + 3 |-> Zero] \o <<Length(Len(msg))>>

Blocks(words) ==
    [b \in 1 .. Len(words) \div Blk |-> [i \in Slots |-> words[(b - 1) * Blk + i + 1]]]
===============================================================================
