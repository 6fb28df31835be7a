-------------------------------- MODULE TopMost --------------------------------
(***************************************************************************)
(* The secure-boot orchestrator (crypto/top_most) with the SHA-512 engine, *)
(* the OTP memory that holds the public key, the Ed25519 unit and the      *)
(* firmware that drives it all through the CSR port: it writes R, S and    *)
(* the length, starts, writes one message word whenever STATUS says so,    *)
(* and waits for done.  It may abort at any time and start over.           *)
(*                                                                         *)
(* Every step is a clock edge: the orchestrator, the SHA engine and the    *)
(* Ed25519 unit move together, and at most one CSR write arrives.          *)
(*                                                                         *)
(* The 16 reads of the digest and the 18 cycles that load the Ed25519      *)
(* registers are one step each: the digest does not move while it is read, *)
(* and an abandoned load is repeated in full.  blk_ptr cannot reach the    *)
(* end of a block before the key has been fed, so ST_BLK_POLL_OTP, which   *)
(* handles that case, is left out.                                         *)
(***************************************************************************)
EXTENDS Sha512

CONSTANTS KeyWords,     \* words of R, of S and of the public key: 8
          Lens,         \* message lengths (in words, with R and the key)
          MaxAttempts   \* verifications the firmware starts

ASSUME TopAssumption ==
    /\ KeyWords \in Nat \ {0} /\ 2 * KeyWords < Blk
    /\ Lens \subseteq {n \in Nat : n >= 2 * KeyWords}
    /\ MaxAttempts \in Nat \ {0}

VARIABLES
    state,                      \* state of the main FSM
    sha_len, msg_len,           \* sha_len_reg, msg_len_csr
    sha_fed, blk_ptr, idx,      \* words fed, slot of the next one, r_idx and otp_idx
    r_reg, s_reg, pubkey, hash, \* r_reg, s_reg, pubkey_reg, hash_reg
    data_in, data_pending,      \* the DATA_IN handshake register
    start_latch, boot_q,
    ed_start,                   \* start pulse to the Ed25519 unit
    estate, ed_regs, ed_valid,  \* Ed25519: phase, its operands, signature_valid
    fpc, fcount, attempt,       \* firmware: program counter, words written, attempt
    clean                       \* history: the attempt found every unit at rest

fsm  == <<state, sha_len, sha_fed, blk_ptr, idx, pubkey, hash, start_latch, boot_q, ed_start>>
csrs == <<msg_len, r_reg, s_reg, data_in, data_pending>>
ed   == <<estate, ed_regs, ed_valid>>
fw   == <<fpc, fcount, attempt, clean>>
vars == <<port, sha, fsm, csrs, ed, fw>>

\* Words that firmware writes and words of the key, one per attempt and index.
Word(kind, i) == <<kind, attempt, i>>
KeyWord(i)    == <<"key", 0, i>>

ed_done == estate = "DONE"

\* The OTP answers only until the first verification is done.
OtpData == IF boot_q /\ ~ed_done THEN KeyWord(idx) ELSE Zero

\* Mutant: the ready bit is the busy bit.
ReadyBitBusy == state # "IDLE"

\* STATUS.ready_for_word
ReadyBit == state = "WAIT_DATA" /\ ~data_pending

\* The key registers are shift registers.
Shift(reg, w) == Append(Tail(reg), w)

Init ==
    /\ ShaInit
    /\ state = "IDLE" /\ sha_len = 0 /\ msg_len = 0
    /\ sha_fed = 0 /\ blk_ptr = 0 /\ idx = 0
    /\ r_reg = [i \in 1 .. KeyWords |-> Zero] /\ s_reg = r_reg /\ pubkey = r_reg
    /\ hash = <<>>
    /\ data_in = Zero /\ data_pending = FALSE
    /\ start_latch = FALSE /\ boot_q = TRUE
    /\ ed_start = FALSE /\ estate = "IDLE" /\ ed_regs = <<>> /\ ed_valid = FALSE
    /\ fpc = "R" /\ fcount = 0 /\ attempt = 1 /\ clean = TRUE
-------------------------------------------------------------------------------
(* The main FSM, one operator per state.  sv is start_verify_i. *)

Quiet == port' = [port EXCEPT !.wen = FALSE]

\* Feeds word w into the next slot of the SHA block.
Feed(w) ==
    /\ port' = Port("word", blk_ptr, TRUE, w)
    /\ sha_fed' = sha_fed + 1

StIdle(start) ==
    /\ state = "IDLE"
    /\ IF start
       THEN /\ state' = "SHA_CFG_LEN"
            /\ sha_len' = msg_len
            /\ sha_fed' = 0 /\ blk_ptr' = 0 /\ idx' = 0
       ELSE UNCHANGED <<state, sha_len, sha_fed, blk_ptr, idx>>
    /\ Quiet
    /\ UNCHANGED <<pubkey, hash>>

StShaCfgLen ==
    /\ state = "SHA_CFG_LEN" /\ state' = "SHA_CFG_CTRL"
    /\ port' = Port("len", 0, TRUE, Length(sha_len))
    /\ UNCHANGED <<sha_len, sha_fed, blk_ptr, idx, pubkey, hash>>

StShaCfgCtrl ==
    /\ state = "SHA_CFG_CTRL" /\ state' = "SHA_POLL"
    /\ port' = Port("ctrl", 0, TRUE, Zero)
    /\ UNCHANGED <<sha_len, sha_fed, blk_ptr, idx, pubkey, hash>>

\* Mutant: the status is read once and not waited for.
StPollOnce(from, to) ==
    /\ state = from
    /\ state' = IF port.kind = "status" THEN to ELSE from
    /\ port' = Port("status", 0, FALSE, Zero)
    /\ UNCHANGED <<sha_len, sha_fed, blk_ptr, idx, pubkey, hash>>

\* ST_SHA_POLL and ST_BLK_POLL: read the SHA status until it is ready.
StPoll(from, to) ==
    /\ state = from
    /\ state' = IF port.kind = "status" /\ Ready THEN to ELSE from
    /\ port' = Port("status", 0, FALSE, Zero)
    /\ UNCHANGED <<sha_len, sha_fed, blk_ptr, idx, pubkey, hash>>

StFeedR ==
    /\ state = "FEED_R"
    /\ Feed(r_reg[idx + 1])
    /\ blk_ptr' = blk_ptr + 1
    /\ idx' = (idx + 1) % KeyWords
    /\ state' = IF idx = KeyWords - 1 THEN "OTP_REQ" ELSE "FEED_R"
    /\ UNCHANGED <<sha_len, pubkey, hash>>

StOtpReq ==
    /\ state = "OTP_REQ" /\ state' = "OTP_LATCH"
    /\ Quiet
    /\ UNCHANGED <<sha_len, sha_fed, blk_ptr, idx, pubkey, hash>>

StOtpLatch ==
    /\ state = "OTP_LATCH"
    /\ Feed(OtpData)
    /\ pubkey' = Shift(pubkey, OtpData)
    /\ blk_ptr' = blk_ptr + 1
    /\ IF idx = KeyWords - 1
       THEN /\ idx' = idx
            /\ state' = IF sha_fed + 1 = sha_len THEN "WAIT_INTR" ELSE "WAIT_DATA"
       ELSE idx' = idx + 1 /\ state' = "OTP_REQ"
    /\ UNCHANGED <<sha_len, hash>>

StWaitData ==
    /\ state = "WAIT_DATA"
    /\ IF data_pending
       THEN /\ Feed(data_in)
            /\ blk_ptr' = (blk_ptr + 1) % Blk
            /\ state' = IF sha_fed + 1 = sha_len THEN "WAIT_INTR"
                        ELSE IF blk_ptr = Blk - 1 THEN "BLK_POLL" ELSE "WAIT_DATA"
       ELSE Quiet /\ UNCHANGED <<state, sha_fed, blk_ptr>>
    /\ UNCHANGED <<sha_len, idx, pubkey, hash>>

StWaitIntr ==
    /\ state = "WAIT_INTR"
    /\ state' = IF intr THEN "READ_HASH" ELSE "WAIT_INTR"
    /\ Quiet
    /\ UNCHANGED <<sha_len, sha_fed, blk_ptr, idx, pubkey, hash>>

StReadHash ==
    /\ state = "READ_HASH" /\ state' = "LOAD_REGS"
    /\ hash' = digest
    /\ Quiet
    /\ UNCHANGED <<sha_len, sha_fed, blk_ptr, idx, pubkey>>

\* LOAD_REGS, ED_START: to the next state; the Ed25519 unit sees them too.
StMove(from, to) ==
    /\ state = from /\ state' = to
    /\ Quiet
    /\ UNCHANGED <<sha_len, sha_fed, blk_ptr, idx, pubkey, hash>>

\* WAIT_START, ED_WAIT, DONE: wait until go.
StWait(from, to, go) ==
    /\ state = from
    /\ state' = IF go THEN to ELSE from
    /\ Quiet
    /\ UNCHANGED <<sha_len, sha_fed, blk_ptr, idx, pubkey, hash>>

\* An abort or a soft reset walks back to IDLE and drops the counters.
StAbort ==
    /\ state' = "IDLE"
    /\ sha_fed' = 0 /\ blk_ptr' = 0 /\ idx' = 0
    /\ Quiet
    /\ UNCHANGED <<sha_len, pubkey, hash>>

FsmEdge(w, sv) ==
    /\ IF w = "abort" THEN StAbort
       ELSE \/ StIdle(w = "start")
            \/ StShaCfgLen
            \/ StShaCfgCtrl
            \/ StPoll("SHA_POLL", "FEED_R")
            \/ StFeedR
            \/ StOtpReq
            \/ StOtpLatch
            \/ StWaitData
            \/ StPoll("BLK_POLL", "WAIT_DATA")
            \/ StWaitIntr
            \/ StReadHash
            \/ StMove("LOAD_REGS", "WAIT_START")
            \/ StWait("WAIT_START", "ED_START", start_latch \/ sv)
            \/ StMove("ED_START", "ED_WAIT")
            \/ StWait("ED_WAIT", "DONE", ed_done)
            \/ StWait("DONE", "DONE", FALSE)
    /\ start_latch' = IF w # "abort" /\ state = "WAIT_START" THEN FALSE ELSE start_latch \/ sv
    /\ boot_q' = (boot_q /\ ~ed_done)
    /\ ed_start' = (w # "abort" /\ state = "ED_START")
-------------------------------------------------------------------------------
(* CSR writes, the Ed25519 unit, and the firmware *)

CsrEdge(w, n) ==
    /\ msg_len' = IF w = "len" THEN n ELSE msg_len
    /\ r_reg' = IF w = "rin" THEN Shift(r_reg, Word("R", fcount)) ELSE r_reg
    /\ s_reg' = IF w = "sin" THEN Shift(s_reg, Word("S", fcount)) ELSE s_reg
    /\ data_in' = IF w = "data" THEN Word("M", fcount) ELSE data_in
    /\ data_pending' = (w = "data" \/ (data_pending /\ state # "WAIT_DATA"))

\* Mutant: operands that were loaded before are not loaded again.
EdEdgeLoadOnce(w, finish) ==
    /\ ed_regs' = IF w # "abort" /\ state = "LOAD_REGS" /\ ed_regs = <<>>
                  THEN <<s_reg, r_reg, pubkey, hash>> ELSE ed_regs
    /\ CASE estate = "IDLE" /\ ed_start  -> estate' = "BUSY" /\ UNCHANGED ed_valid
         [] estate = "BUSY" /\ finish    -> estate' = "DONE" /\ ed_valid' \in BOOLEAN
         [] OTHER                        -> UNCHANGED <<estate, ed_valid>>

\* The unit takes its operands only while it is idle, and it never leaves DONE.
\* The verdict is left open.
EdEdge(w, finish) ==
    /\ ed_regs' = IF w # "abort" /\ state = "LOAD_REGS" /\ estate = "IDLE"
                  THEN <<s_reg, r_reg, pubkey, hash>> ELSE ed_regs
    /\ CASE estate = "IDLE" /\ ed_start  -> estate' = "BUSY" /\ UNCHANGED ed_valid
         [] estate = "BUSY" /\ finish    -> estate' = "DONE" /\ ed_valid' \in BOOLEAN
         [] OTHER                        -> UNCHANGED <<estate, ed_valid>>

\* The units an attempt uses are at rest: a retry from here is like the first.
AtRest ==
    /\ sstate = "IDLE" /\ pstate = "IDLE" /\ ~intr /\ ~port.wen
    /\ ~data_pending
    /\ estate = "IDLE" /\ ~ed_start /\ boot_q

\* What firmware writes in this cycle, and its own progress.
Firmware(w, n) ==
    \/ /\ w = "none"
       /\ UNCHANGED fw
    \/ /\ w = "rin" /\ fpc = "R"
       /\ fcount' = (fcount + 1) % KeyWords
       /\ fpc' = IF fcount = KeyWords - 1 THEN "S" ELSE "R"
       /\ UNCHANGED <<attempt, clean>>
    \/ /\ w = "sin" /\ fpc = "S"
       /\ fcount' = (fcount + 1) % KeyWords
       /\ fpc' = IF fcount = KeyWords - 1 THEN "LEN" ELSE "S"
       /\ UNCHANGED <<attempt, clean>>
    \/ /\ w = "len" /\ fpc = "LEN" /\ n \in Lens
       /\ fpc' = "START" /\ fcount' = 2 * KeyWords
       /\ UNCHANGED <<attempt, clean>>
    \/ /\ w = "start" /\ fpc = "START"
       /\ fpc' = IF fcount = msg_len THEN "FINISH" ELSE "POLL"
       /\ clean' = AtRest
       /\ UNCHANGED <<fcount, attempt>>
    \/ /\ w = "read" /\ fpc = "POLL" /\ ReadyBit
       /\ fpc' = "WRITE"
       /\ UNCHANGED <<fcount, attempt, clean>>
    \/ /\ w = "data" /\ fpc = "WRITE"
       /\ fcount' = fcount + 1
       /\ fpc' = IF fcount + 1 = msg_len THEN "FINISH" ELSE "POLL"
       /\ UNCHANGED <<attempt, clean>>
    \/ /\ w = "abort" /\ attempt < MaxAttempts
       /\ attempt' = attempt + 1
       /\ fpc' = "R" /\ fcount' = 0
       /\ UNCHANGED clean

Cycle(w, n, sv, finish) ==
    /\ Firmware(w, n)
    /\ FsmEdge(w, sv)
    /\ CsrEdge(w, n)
    /\ EdEdge(w, finish)
    /\ ShaEdge

\* A cycle in which firmware follows its program.
Access(sv, finish) ==
    \/ \E w \in {"rin", "sin", "start", "read", "data"} : Cycle(w, 0, sv, finish)
    \/ \E n \in Lens : Cycle("len", n, sv, finish)

Next ==
    \E sv, finish \in BOOLEAN :
        \/ Cycle("none", 0, sv, finish)
        \/ Access(sv, finish)
        \/ Cycle("abort", 0, sv, finish)

Spec == Init /\ [][Next]_vars

\* The clock runs, firmware follows its program, and the Ed25519 unit finishes
\* what it starts.  Nothing is assumed of start_verify_i.
Fairness ==
    /\ WF_vars(Next)
    /\ WF_vars(\E sv, finish \in BOOLEAN : Access(sv, finish))
    /\ WF_vars(estate = "BUSY" /\ \E sv \in BOOLEAN : Cycle("none", 0, sv, TRUE))

FairSpec == Spec /\ Fairness
-------------------------------------------------------------------------------
(* Properties *)

States == {"IDLE", "SHA_CFG_LEN", "SHA_CFG_CTRL", "SHA_POLL", "FEED_R", "OTP_REQ",
           "OTP_LATCH", "WAIT_DATA", "BLK_POLL", "WAIT_INTR", "READ_HASH", "LOAD_REGS",
           "WAIT_START", "ED_START", "ED_WAIT", "DONE"}

\* Type correctness: the FSMs are in their states and the pointers in range.
TypeOK ==
    /\ state \in States
    /\ sstate \in {"IDLE", "RECV", "PAD", "WORK", "ACCUM", "DONE"}
    /\ pstate \in {"IDLE", "SEND80", "SEND00", "SENDLEN0", "SENDLEN1"}
    /\ blk_ptr \in Slots /\ idx \in 0 .. KeyWords - 1
    /\ word_count \in 0 .. Blk /\ round_count \in 0 .. Rounds + 1
    /\ C_cnt \in 0 .. 2 * Blk - 1
    /\ estate \in {"IDLE", "BUSY", "DONE"}

\* The message of this attempt: R, the key, and what firmware has written.
Sent ==    [i \in 1 .. KeyWords |-> Word("R", i - 1)]
        \o [i \in 1 .. KeyWords |-> KeyWord(i - 1)]
        \o [i \in 1 .. sha_len - 2 * KeyWords |-> Word("M", 2 * KeyWords + i - 1)]

\* The states after the digest was read.
Hashed == state \in {"LOAD_REGS", "WAIT_START", "ED_START", "ED_WAIT", "DONE"}

\* The attempt is under way, and it found every unit at rest.
Running == clean /\ fpc \in {"POLL", "WRITE", "FINISH"}

\* Orchestrator and SHA engine stay in step although neither sees the other's
\* pointer: a message word reaches the engine only while it receives, in the
\* slot the engine expects next.
WordsLand ==
    Running /\ port.wen /\ port.kind = "word" =>
        sstate = "RECV" /\ port.slot = word_count

\* The digest that is checked is the SHA-512 digest of R, the public key and
\* the message words, in the order firmware wrote them, padded as it should.
DigestOfMessage == Running /\ Hashed => hash = Blocks(Padded(Sent))

\* The verdict is about this attempt: the unit works on the signature, key and
\* digest of the attempt whose result firmware polls.
VerdictOfAttempt ==
    Running /\ state = "DONE" =>
        ed_regs = << [i \in 1 .. KeyWords |-> Word("S", i - 1)],
                     [i \in 1 .. KeyWords |-> Word("R", i - 1)],
                     [i \in 1 .. KeyWords |-> KeyWord(i - 1)],
                     Blocks(Padded(Sent)) >>

\* Firmware that follows STATUS never overwrites a word that was not consumed,
\* not even after an abort.
NoWordOverwritten == [][data_in' # data_in => ~data_pending]_vars

\* The operands are loaded and only start_verify_i is missing.
AwaitsStart == state = "WAIT_START" /\ ~start_latch

\* An attempt that found every unit at rest comes to a verdict unless it is
\* aborted or not started: the SHA interrupt is not missed, and neither is a
\* one-cycle pulse of start_verify_i, however early it comes.
AttemptEnds ==
    /\ Running ~> state = "DONE" \/ fpc = "R" \/ AwaitsStart
    /\ Running /\ (start_latch \/ state \in {"ED_START", "ED_WAIT"})
          ~> state = "DONE" \/ fpc = "R"
===============================================================================
