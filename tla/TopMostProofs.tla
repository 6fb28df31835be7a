----------------------------- MODULE TopMostProofs -----------------------------
(***************************************************************************)
(* The orchestrator and the SHA engine stay in step, the digest is that of *)
(* the padded message and the verdict is about the attempt, for every size *)
(* of a block and a key, every message length, number of rounds and number *)
(* of attempts, with an abort in any cycle.                                *)
(***************************************************************************)
EXTENDS TopMost, SequenceTheorems, TLAPS

(* What holds in every attempt *)

Tokens == {"00", "80", "len", "stale", "R", "S", "M", "key"} \X Nat \X Nat

Keys == [1 .. KeyWords -> Tokens]

PortType ==
    /\ port = Port(port.kind, port.slot, port.wen, port.data)
    /\ port.kind \in {"none", "len", "ctrl", "status", "word"}
    /\ port.slot \in Slots /\ port.wen \in BOOLEAN /\ port.data \in Tokens

\* The engine by itself: its counters stay in range whatever it is sent.
Engine ==
    /\ sstate \in {"IDLE", "RECV", "PAD", "WORK", "ACCUM", "DONE"}
    /\ pstate \in {"IDLE", "SEND80", "SEND00", "SENDLEN0", "SENDLEN1"}
    /\ word_count \in 0 .. Blk /\ (sstate \in {"RECV", "PAD"} => word_count < Blk)
    /\ round_count \in 0 .. Rounds + 1 /\ (sstate = "WORK" => round_count <= Rounds)
    /\ is_last_block \in BOOLEAN /\ intr \in BOOLEAN
    /\ msg_length \in Nat /\ N_cnt \in Nat /\ C_cnt \in 0 .. 2 * Blk - 1
    /\ sched \in [Slots -> Tokens] /\ digest \in Seq([Slots -> Tokens])

\* The orchestrator by itself: its three pointers move together.
Pointers ==
    /\ state \in States /\ blk_ptr \in Slots /\ idx \in 0 .. KeyWords - 1
    /\ sha_fed \in Nat /\ sha_len \in Nat
    /\ state # "IDLE" => sha_len = msg_len
    /\ state \in {"SHA_CFG_LEN", "SHA_CFG_CTRL", "SHA_POLL"} => sha_fed = 0 /\ blk_ptr = 0 /\ idx = 0
    /\ state = "FEED_R" => sha_fed = idx /\ blk_ptr = idx
    /\ state \in {"OTP_REQ", "OTP_LATCH"} => sha_fed = KeyWords + idx /\ blk_ptr = sha_fed
    /\ state \in {"WAIT_DATA", "BLK_POLL"} => 2 * KeyWords <= sha_fed /\ sha_fed < sha_len

Units ==
    /\ r_reg \in Keys /\ s_reg \in Keys /\ pubkey \in Keys
    /\ data_in \in Tokens /\ data_pending \in BOOLEAN
    /\ start_latch \in BOOLEAN /\ boot_q \in BOOLEAN /\ ed_start \in BOOLEAN
    /\ estate \in {"IDLE", "BUSY", "DONE"}

\* Firmware: how far it is, and that it writes a word only when the
\* orchestrator waits for one.
Driver ==
    /\ fpc \in {"R", "S", "LEN", "START", "POLL", "WRITE", "FINISH"}
    /\ attempt \in Nat /\ clean \in BOOLEAN /\ fcount \in Nat /\ msg_len \in Nat
    /\ (state = "IDLE") = (fpc \in {"R", "S", "LEN", "START"})
    /\ fpc \in {"R", "S"} => fcount < KeyWords
    /\ fpc = "LEN" => fcount = 0
    /\ fpc = "START" => fcount = 2 * KeyWords
    /\ fpc \in {"START", "POLL", "WRITE", "FINISH"} => msg_len \in Lens
    /\ fpc \in {"POLL", "WRITE"} => 2 * KeyWords <= fcount /\ fcount < msg_len
    /\ fpc = "FINISH" => fcount = msg_len
    /\ fpc = "WRITE" => state = "WAIT_DATA" /\ ~data_pending

\* The last n words of a key register are the first n that attempt a wrote.
Shifted(kind, a, reg, n) == \A i \in 1 .. n : reg[KeyWords - n + i] = <<kind, a, i - 1>>

Signature ==
    /\ Shifted("R", attempt, r_reg, IF fpc = "R" THEN fcount ELSE KeyWords)
    /\ fpc # "R" => Shifted("S", attempt, s_reg, IF fpc = "S" THEN fcount ELSE KeyWords)

Always == PortType /\ Engine /\ Pointers /\ Units /\ Driver /\ Signature
-------------------------------------------------------------------------------
(* What holds in an attempt that found every unit at rest *)

\* The length of a padded message of n words, and word p of the message of
\* attempt a, padded; counted from 0.
Fill(n)  == IF n % Blk >= Blk - 4 THEN 2 * Blk - 3 - (n % Blk) ELSE Blk - 3 - (n % Blk)
Total(n) == n + 3 + Fill(n)
Tok(a, n, p) ==
    IF p < KeyWords THEN <<"R", a, p>>
    ELSE IF p < 2 * KeyWords THEN KeyWord(p - KeyWords)
    ELSE IF p < n THEN <<"M", a, p>>
    ELSE IF p = n THEN End
    ELSE IF p < Total(n) - 1 THEN Zero
    ELSE Length(n)

\* A digest is that of the first blocks of the padded message, or of all.
Hashes(a, n, h) ==
    /\ h \in Seq([Slots -> Tokens])
    /\ \A b \in 1 .. Len(h) : \A i \in Slots : h[b][i] = Tok(a, n, (b - 1) * Blk + i)
HashesAll(a, n, h) == Hashes(a, n, h) /\ Len(h) * Blk = Total(n)

\* The first k words of block s, which follows digest h.
InBlock(a, n, h, s, k) == \A i \in 0 .. k - 1 : s[i] = Tok(a, n, Len(h) * Blk + i)

\* The words that the engine has taken in, each in its place, and the word
\* that is on its way.
Taken  == Len(digest) * Blk + word_count
Holds  == Hashes(attempt, sha_len, digest) /\ InBlock(attempt, sha_len, digest, sched, word_count)
OnPort == IF port.wen THEN 1 ELSE 0

EngineAtRest == sstate = "IDLE" /\ pstate = "IDLE" /\ ~intr

\* The engine has every word that was fed, but for the one on the port, which
\* is for the slot it fills next.
Fed ==
    /\ pstate = "IDLE" /\ ~is_last_block /\ ~intr /\ msg_length = sha_len /\ C_cnt = 0
    /\ Holds /\ N_cnt = Taken /\ sha_fed = Taken + OnPort
    /\ port.wen => /\ port.kind = "word" /\ port.slot = word_count
                   /\ port.data = Tok(attempt, sha_len, Taken)

\* The engine pads: what the preprocessor sends next depends on how far it is.
Pads ==
    /\ sstate \in {"RECV", "PAD", "WORK", "ACCUM"}
    /\ sstate \in {"WORK", "ACCUM"} => word_count = Blk
    /\ sstate = "RECV" => pstate = "SEND80"
    /\ Holds /\ is_last_block = (pstate = "IDLE")
    /\ pstate = "SEND80"   => Taken = sha_len /\ C_cnt = 0
    /\ pstate = "SEND00"   => Taken = sha_len + 1 + C_cnt /\ C_cnt < Fill(sha_len)
    /\ pstate = "SENDLEN0" => Taken = Total(sha_len) - 2
    /\ pstate = "SENDLEN1" => Taken = Total(sha_len) - 1
    /\ pstate = "IDLE"     => Taken = Total(sha_len) /\ sstate \in {"WORK", "ACCUM"}

\* The last block is hashed, and the interrupt is next or now.
Ends ==
    /\ pstate = "IDLE" /\ HashesAll(attempt, sha_len, digest)
    /\ (sstate = "DONE" /\ ~intr) \/ (sstate = "IDLE" /\ intr)

Padding == ~port.wen /\ msg_length = sha_len /\ ((Pads /\ ~intr) \/ Ends)

Starting == {"SHA_CFG_LEN", "SHA_CFG_CTRL", "SHA_POLL"}
FeedsKey == {"FEED_R", "OTP_REQ", "OTP_LATCH"}

\* Orchestrator and engine.
InStep ==
    /\ state = "SHA_CFG_LEN" => EngineAtRest /\ ~port.wen
    /\ state = "SHA_CFG_CTRL" => EngineAtRest /\ port = Port("len", 0, TRUE, Length(sha_len))
    /\ state = "SHA_POLL" =>
         \/ EngineAtRest /\ port = Port("ctrl", 0, TRUE, Zero) /\ msg_length = sha_len
         \/ sstate = "RECV" /\ Fed /\ ~port.wen
    /\ state \in FeedsKey \cup {"WAIT_DATA"} =>
         sstate = "RECV" /\ Fed /\ blk_ptr = word_count + OnPort
    /\ state = "BLK_POLL" =>
         /\ Fed /\ blk_ptr = 0
         /\ \/ sstate = "RECV" /\ port.wen /\ word_count = Blk - 1
            \/ sstate \in {"WORK", "ACCUM"} /\ ~port.wen /\ word_count = Blk
            \/ sstate = "RECV" /\ ~port.wen /\ word_count = 0
    /\ state = "WAIT_INTR" =>
         (sstate = "RECV" /\ Fed /\ port.wen /\ sha_fed = sha_len) \/ Padding
    /\ state = "READ_HASH" => sstate = "IDLE" /\ HashesAll(attempt, sha_len, digest)
    /\ state = "READ_HASH" \/ Hashed => ~port.wen

\* Firmware and orchestrator: the words that are not fed yet.
Handshake ==
    /\ data_pending => state \in {"WAIT_DATA", "BLK_POLL"} /\ data_in = Word("M", sha_fed)
    /\ fcount = IF state \in Starting \cup FeedsKey THEN 2 * KeyWords
                ELSE sha_fed + (IF data_pending THEN 1 ELSE 0)
    /\ state \notin Starting \cup FeedsKey \cup {"WAIT_DATA", "BLK_POLL"} => sha_fed = sha_len

\* The operands of the Ed25519 unit.
Operands ==
    /\ state \notin {"ED_WAIT", "DONE"} => estate = "IDLE" /\ boot_q /\ ~ed_start
    /\ state \in {"OTP_REQ", "OTP_LATCH"} => Shifted("key", 0, pubkey, idx)
    /\ state \notin Starting \cup FeedsKey => Shifted("key", 0, pubkey, KeyWords)
    /\ Hashed => HashesAll(attempt, sha_len, hash)
    /\ Hashed /\ state # "LOAD_REGS" => ed_regs = <<s_reg, r_reg, pubkey, hash>>

Attempt == Running => InStep /\ Handshake /\ Operands

IInv == Always /\ Attempt
-------------------------------------------------------------------------------
(* Numbers *)

\* Division by the size of a block, and that it is unique.
LEMMA Division ==
    ASSUME NEW n \in Nat
    PROVE  /\ n % Blk \in Slots /\ n \div Blk \in Nat
           /\ n = (n \div Blk) * Blk + (n % Blk)
<1>1. Blk \in Nat /\ Blk > 0
  BY ShaAssumption
<1>. QED
  BY <1>1 DEF Slots

\* Multiples of the size of a block are a block apart.
LEMMA Multiples ==
    ASSUME NEW q \in Nat, NEW m \in Nat
    PROVE  /\ q * Blk \in Nat
           /\ (q + 1) * Blk = q * Blk + Blk
           /\ q < m => q * Blk + Blk <= m * Blk
<1>1. Blk \in Nat /\ Blk > 0
  BY ShaAssumption
<1>2. q * Blk \in Nat /\ (q + 1) * Blk = q * Blk + Blk
  BY <1>1
<1>3. ASSUME q < m PROVE q * Blk + Blk <= m * Blk
  <2>1. PICK k \in Nat : m = q + 1 + k
    <3>1. m - q - 1 \in Nat /\ m = q + 1 + (m - q - 1)
      BY <1>3
    <3>. QED
      BY <3>1
  <2>2. m * Blk = q * Blk + Blk + k * Blk
    BY <1>1, <2>1
  <2>3. k * Blk \in Nat
    BY <1>1
  <2>. QED
    BY <1>1, <1>2, <2>2, <2>3
<1>. QED
  BY <1>2, <1>3

\* A number has one quotient and one remainder.
LEMMA DivisionUnique ==
    ASSUME NEW q \in Nat, NEW m \in Nat, NEW r \in Slots, NEW s \in Slots,
           q * Blk + r = m * Blk + s
    PROVE  q = m /\ r = s
<1>1. Blk \in Nat /\ r \in 0 .. Blk - 1 /\ s \in 0 .. Blk - 1
  BY ShaAssumption DEF Slots
<1>2. q * Blk \in Nat /\ m * Blk \in Nat
  BY Multiples
<1>3. ~(q < m)
  BY <1>1, <1>2, Multiples
<1>4. ~(m < q)
  BY <1>1, <1>2, Multiples
<1>5. q = m
  BY <1>3, <1>4
<1>. QED
  BY <1>1, <1>2, <1>5

\* The padding ends a block.
LEMMA FillFacts ==
    ASSUME NEW n \in Nat
    PROVE  /\ Fill(n) \in 2 .. 2 * Blk - 1
           /\ \E m \in Nat : Total(n) = m * Blk + Blk
<1>1. Blk \in Nat /\ Blk >= 8
  BY ShaAssumption
<1>2. n % Blk \in 0 .. Blk - 1 /\ n \div Blk \in Nat /\ n = (n \div Blk) * Blk + (n % Blk)
  BY Division DEF Slots
<1>3. (n \div Blk) * Blk \in Nat /\ (n \div Blk + 1) * Blk = (n \div Blk) * Blk + Blk
  BY <1>2, Multiples
<1>4. Fill(n) \in 2 .. 2 * Blk - 1
  BY <1>1, <1>2 DEF Fill
<1>5. CASE n % Blk >= Blk - 4
  <2>1. Total(n) = (n \div Blk + 1) * Blk + Blk
    BY <1>1, <1>2, <1>3, <1>5 DEF Total, Fill
  <2>. QED
    BY <1>2, <1>4, <2>1
<1>6. CASE ~(n % Blk >= Blk - 4)
  <2>1. Total(n) = (n \div Blk) * Blk + Blk
    BY <1>1, <1>2, <1>3, <1>6 DEF Total, Fill
  <2>. QED
    BY <1>2, <1>4, <2>1
<1>. QED
  BY <1>5, <1>6
-------------------------------------------------------------------------------
(* Every unit by itself *)

\* Every word is a token.
LEMMA TokenFacts ==
    /\ Zero \in Tokens /\ End \in Tokens /\ Stale \in Tokens
    /\ \A n \in Nat : Length(n) \in Tokens /\ Length(n)[2] = n /\ KeyWord(n) \in Tokens
    /\ \A t \in Tokens : t[2] \in Nat
    /\ \A a, i \in Nat : <<"R", a, i>> \in Tokens /\ <<"S", a, i>> \in Tokens /\ <<"M", a, i>> \in Tokens
  BY DEF Tokens, Zero, End, Stale, Length, KeyWord

\* The engine's counters stay in range in every state and whatever it is sent.
LEMMA EngineStep ==
    ASSUME PortType, Engine, ShaEdge
    PROVE  Engine'
<1>. USE ShaAssumption
<1>1. /\ sstate' \in {"IDLE", "RECV", "PAD", "WORK", "ACCUM", "DONE"}
      /\ word_count' \in 0 .. Blk /\ (sstate' \in {"RECV", "PAD"} => word_count' < Blk)
      /\ round_count' \in 0 .. Rounds + 1 /\ (sstate' = "WORK" => round_count' <= Rounds)
  <2>1. CASE ShaIdle
    BY <2>1 DEF Engine, ShaIdle
  <2>2. CASE ShaRecv
    BY <2>2 DEF Engine, ShaRecv
  <2>3. CASE ShaPad
    BY <2>3 DEF Engine, ShaPad
  <2>4. CASE ShaWork
    BY <2>4 DEF Engine, ShaWork
  <2>5. CASE ShaAccum
    BY <2>5 DEF Engine, ShaAccum
  <2>6. CASE ShaDone
    BY <2>6 DEF Engine, ShaDone
  <2>. QED
    BY <2>1, <2>2, <2>3, <2>4, <2>5, <2>6 DEF ShaEdge
<1>2. is_last_block' \in BOOLEAN /\ intr' \in BOOLEAN
  <2>1. PrepDone \in BOOLEAN
    BY DEF PrepDone
  <2>2. is_last_block \in BOOLEAN /\ intr \in BOOLEAN
    BY DEF Engine
  <2>3. CASE ShaPad
    BY <2>1, <2>2, <2>3, Zenon DEF ShaPad
  <2>4. CASE ~ShaPad
    BY <2>2, <2>4 DEF ShaEdge, ShaIdle, ShaRecv, ShaWork, ShaAccum, ShaDone
  <2>. QED
    BY <2>3, <2>4
<1>3. pstate' \in {"IDLE", "SEND80", "SEND00", "SENDLEN0", "SENDLEN1"}
  <2>. DEFINE a1 == pstate = "IDLE" /\ PrepStart /\ msg_length = 0
              a2 == pstate = "IDLE" /\ SchedWr /\ N_cnt + 1 = msg_length
  <2>1. ~(a1 /\ a2)
    BY DEF Engine
  <2>. QED
    BY <2>1 DEF ShaEdge, PrepEdge, Engine
<1>4. N_cnt' \in Nat /\ C_cnt' \in 0 .. 2 * Blk - 1
  <2>1. (C_cnt + 1) % (2 * Blk) \in 0 .. 2 * Blk - 1
    <3>1. 2 * Blk \in Nat /\ 2 * Blk > 0 /\ C_cnt + 1 \in Nat
      BY DEF Engine
    <3>. QED
      BY <3>1
  <2>. QED
    BY <2>1 DEF ShaEdge, PrepEdge, Engine
<1>5. msg_length' \in Nat
  BY TokenFacts DEF ShaEdge, Engine, PortType
<1>6. sched' \in [Slots -> Tokens]
  <2>1. PrepData \in Tokens
    BY TokenFacts DEF PrepData, Engine
  <2>2. [i \in Slots |-> Stale] \in [Slots -> Tokens]
    BY TokenFacts
  <2>. QED
    BY <2>1, <2>2 DEF ShaEdge, SchedEdge, Engine, PortType, SchedWr
<1>7. digest' \in Seq([Slots -> Tokens])
  <2>1. digest \in Seq([Slots -> Tokens]) /\ sched \in [Slots -> Tokens]
    BY DEF Engine
  <2>2. Append(digest, sched) \in Seq([Slots -> Tokens]) /\ <<>> \in Seq([Slots -> Tokens])
    BY <2>1
  <2>. QED
    BY <2>1, <2>2 DEF ShaEdge, ShaIdle, ShaRecv, ShaPad, ShaWork, ShaAccum, ShaDone
<1>. QED
  BY <1>1, <1>2, <1>3, <1>4, <1>5, <1>6, <1>7 DEF Engine

Writes == {"none", "rin", "sin", "len", "start", "read", "data", "abort"}

\* Every step is a clock cycle with at most one CSR write.
LEMMA NextIsCycle ==
    ASSUME Next
    PROVE  \E w \in Writes, n \in Nat, sv, finish \in BOOLEAN : Cycle(w, n, sv, finish)
<1>1. Lens \subseteq Nat /\ 0 \in Nat
  BY TopAssumption
<1>. QED
  BY <1>1 DEF Next, Access, Writes

\* What the sizes of keys and blocks are.
LEMMA Sizes ==
    /\ Blk \in Nat /\ KeyWords \in Nat /\ KeyWords > 0 /\ 2 * KeyWords < Blk /\ Blk >= 8
    /\ Slots = 0 .. Blk - 1
    /\ \A n \in Lens : n \in Nat /\ n >= 2 * KeyWords
    /\ \A i \in 0 .. KeyWords - 1 :
          (i + 1) % KeyWords = (IF i = KeyWords - 1 THEN 0 ELSE i + 1)
    /\ \A i \in Slots : (i + 1) % Blk = (IF i = Blk - 1 THEN 0 ELSE i + 1)
<1>1. /\ Blk \in Nat /\ KeyWords \in Nat /\ KeyWords > 0 /\ 2 * KeyWords < Blk /\ Blk >= 8
      /\ \A n \in Lens : n \in Nat /\ n >= 2 * KeyWords
  BY ShaAssumption, TopAssumption
<1>2. ASSUME NEW k \in Nat, k > 0, NEW i \in 0 .. k - 1
      PROVE  (i + 1) % k = (IF i = k - 1 THEN 0 ELSE i + 1)
  BY <1>2
<1>. QED
  BY <1>1, <1>2 DEF Slots

\* The orchestrator is in one state: what it does there.
LEMMA FsmCases ==
    ASSUME NEW w, NEW sv, FsmEdge(w, sv), w # "abort"
    PROVE  /\ state = "IDLE" => StIdle(w = "start")
           /\ state = "SHA_CFG_LEN" => StShaCfgLen
           /\ state = "SHA_CFG_CTRL" => StShaCfgCtrl
           /\ state = "SHA_POLL" => StPoll("SHA_POLL", "FEED_R")
           /\ state = "FEED_R" => StFeedR
           /\ state = "OTP_REQ" => StOtpReq
           /\ state = "OTP_LATCH" => StOtpLatch
           /\ state = "WAIT_DATA" => StWaitData
           /\ state = "BLK_POLL" => StPoll("BLK_POLL", "WAIT_DATA")
           /\ state = "WAIT_INTR" => StWaitIntr
           /\ state = "READ_HASH" => StReadHash
           /\ state = "LOAD_REGS" => StMove("LOAD_REGS", "WAIT_START")
           /\ state = "WAIT_START" => StWait("WAIT_START", "ED_START", start_latch \/ sv)
           /\ state = "ED_START" => StMove("ED_START", "ED_WAIT")
           /\ state = "ED_WAIT" => StWait("ED_WAIT", "DONE", ed_done)
           /\ state = "DONE" => StWait("DONE", "DONE", FALSE)
<1>1. \/ StIdle(w = "start") \/ StShaCfgLen \/ StShaCfgCtrl \/ StPoll("SHA_POLL", "FEED_R")
      \/ StFeedR \/ StOtpReq \/ StOtpLatch \/ StWaitData \/ StPoll("BLK_POLL", "WAIT_DATA")
      \/ StWaitIntr \/ StReadHash \/ StMove("LOAD_REGS", "WAIT_START")
      \/ StWait("WAIT_START", "ED_START", start_latch \/ sv) \/ StMove("ED_START", "ED_WAIT")
      \/ StWait("ED_WAIT", "DONE", ed_done) \/ StWait("DONE", "DONE", FALSE)
  BY Zenon DEF FsmEdge
<1>2. /\ StIdle(w = "start") => state = "IDLE"
      /\ StShaCfgLen => state = "SHA_CFG_LEN"
      /\ StShaCfgCtrl => state = "SHA_CFG_CTRL"
      /\ StPoll("SHA_POLL", "FEED_R") => state = "SHA_POLL"
      /\ StFeedR => state = "FEED_R"
      /\ StOtpReq => state = "OTP_REQ"
      /\ StOtpLatch => state = "OTP_LATCH"
      /\ StWaitData => state = "WAIT_DATA"
  BY DEF StIdle, StShaCfgLen, StShaCfgCtrl, StPoll, StFeedR, StOtpReq, StOtpLatch, StWaitData
<1>3. /\ StPoll("BLK_POLL", "WAIT_DATA") => state = "BLK_POLL"
      /\ StWaitIntr => state = "WAIT_INTR"
      /\ StReadHash => state = "READ_HASH"
      /\ StMove("LOAD_REGS", "WAIT_START") => state = "LOAD_REGS"
      /\ StWait("WAIT_START", "ED_START", start_latch \/ sv) => state = "WAIT_START"
      /\ StMove("ED_START", "ED_WAIT") => state = "ED_START"
      /\ StWait("ED_WAIT", "DONE", ed_done) => state = "ED_WAIT"
      /\ StWait("DONE", "DONE", FALSE) => state = "DONE"
  BY DEF StPoll, StWaitIntr, StReadHash, StMove, StWait
<1>. QED
  BY <1>1, <1>2, <1>3

\* Aborts, and the words of firmware, by what firmware does.
LEMMA FirmwareCases ==
    ASSUME Driver, NEW w \in Writes, NEW n, Firmware(w, n)
    PROVE  /\ w = "start" <=> (fpc = "START" /\ fpc' \in {"POLL", "FINISH"})
           /\ w = "len" => fpc = "LEN" /\ n \in Lens
           /\ w = "data" => fpc = "WRITE"
           /\ w = "rin" => fpc = "R"
           /\ w = "sin" => fpc = "S"
           /\ w = "abort" => fpc' = "R" /\ fcount' = 0 /\ attempt' = attempt + 1
           /\ w # "abort" => UNCHANGED attempt
           /\ w = "read" => ReadyBit
           /\ w \notin {"abort", "start"} =>
                (fpc \in {"POLL", "WRITE", "FINISH"}) = (fpc' \in {"POLL", "WRITE", "FINISH"})
           /\ w # "start" => UNCHANGED clean
  BY DEF Driver, Writes, Firmware, fw

\* The states of an attempt that is under way.
Active == States \ {"IDLE"}

\* Firmware waits exactly while the orchestrator works, on the length it wrote.
LEMMA ActiveFacts ==
    ASSUME Pointers, Driver
    PROVE  /\ state \in Active => sha_len = msg_len /\ sha_len \in Lens /\ sha_len \in Nat
                                  /\ sha_len >= 2 * KeyWords
           /\ state \in Active <=> fpc \in {"POLL", "WRITE", "FINISH"}
  BY Sizes DEF Pointers, Driver, Active, States

\* A cycle of the orchestrator: pointers and port.
LEMMA PointersStep ==
    ASSUME Always, NEW w \in Writes, NEW n \in Nat, NEW sv \in BOOLEAN,
           Firmware(w, n), FsmEdge(w, sv), CsrEdge(w, n)
    PROVE  /\ Pointers' /\ PortType'
           /\ w = "abort" => state' = "IDLE"
           /\ w = "start" => state = "IDLE" /\ state' = "SHA_CFG_LEN"
           /\ w \notin {"start", "abort"} => (state = "IDLE") = (state' = "IDLE")
<1>. USE Sizes
<1>1. /\ PortType /\ Pointers /\ Driver /\ Units /\ msg_len \in Nat
      /\ r_reg \in Keys /\ data_in \in Tokens
  BY DEF Always, Driver, Units
<1>2. ASSUME state # "IDLE" \/ w = "start" PROVE msg_len' = msg_len
  BY <1>1, <1>2, FirmwareCases DEF CsrEdge, Driver, Writes
<1>3. ASSUME w = "start" PROVE state = "IDLE"
  BY <1>1, <1>3, FirmwareCases DEF Driver
<1>4. ASSUME Quiet PROVE PortType'
  <2>1. port' = Port(port.kind, port.slot, FALSE, port.data)
    BY <1>1, <1>4 DEF Quiet, PortType, Port
  <2>. QED
    BY <1>1, <2>1 DEF PortType, Port
<1>5. CASE w = "abort"
  BY <1>4, <1>5, <1>1 DEF FsmEdge, StAbort, Pointers, States
<1>6. CASE w # "abort" /\ state = "IDLE"
  <2>1. StIdle(w = "start")
    BY <1>6, FsmCases
  <2>2. CASE w = "start"
    BY <1>1, <1>2, <1>4, <2>1, <2>2 DEF StIdle, Pointers, States
  <2>3. CASE w # "start"
    BY <1>1, <1>4, <2>1, <2>3 DEF StIdle, Pointers, States
  <2>. QED
    BY <2>2, <2>3
<1>. DEFINE on(s) == w # "abort" /\ state = s
<1>7. CASE on("SHA_CFG_LEN")
  <2>1. StShaCfgLen /\ msg_len' = msg_len
    BY <1>2, <1>7, FsmCases
  <2>. QED
    BY <1>1, <1>3, <1>7, <2>1, TokenFacts DEF StShaCfgLen, Pointers, States, PortType, Port
<1>8. CASE on("SHA_CFG_CTRL")
  <2>1. StShaCfgCtrl /\ msg_len' = msg_len
    BY <1>2, <1>8, FsmCases
  <2>. QED
    BY <1>1, <1>3, <1>8, <2>1, TokenFacts DEF StShaCfgCtrl, Pointers, States, PortType, Port
<1>9. CASE on("SHA_POLL")
  <2>1. StPoll("SHA_POLL", "FEED_R") /\ msg_len' = msg_len
    BY <1>2, <1>9, FsmCases
  <2>. QED
    BY <1>1, <1>3, <1>9, <2>1, TokenFacts DEF StPoll, Pointers, States, PortType, Port
<1>10. CASE on("FEED_R")
  <2>1. StFeedR /\ msg_len' = msg_len
    BY <1>2, <1>10, FsmCases
  <2>2. r_reg[idx + 1] \in Tokens
    BY <1>1 DEF Pointers, Keys
  <2>3. Pointers'
    BY <1>1, <1>10, <2>1 DEF StFeedR, Feed, Pointers, States
  <2>4. PortType'
    BY <1>1, <2>1, <2>2 DEF StFeedR, Feed, Pointers, PortType, Port
  <2>. QED
    BY <1>3, <1>10, <2>1, <2>3, <2>4 DEF StFeedR
<1>11. CASE on("OTP_REQ")
  <2>1. StOtpReq /\ msg_len' = msg_len
    BY <1>2, <1>11, FsmCases
  <2>. QED
    BY <1>1, <1>3, <1>4, <1>11, <2>1 DEF StOtpReq, Pointers, States
<1>12. CASE on("OTP_LATCH")
  <2>1. StOtpLatch /\ msg_len' = msg_len
    BY <1>2, <1>12, FsmCases
  <2>2. OtpData \in Tokens
    BY <1>1, TokenFacts DEF OtpData, Pointers
  <2>3. sha_len >= 2 * KeyWords
    BY <1>1, <1>12, ActiveFacts DEF Active, States
  <2>4. Pointers'
    BY <1>1, <1>12, <2>1, <2>3 DEF StOtpLatch, Feed, Pointers, States
  <2>5. PortType'
    BY <1>1, <2>1, <2>2 DEF StOtpLatch, Feed, Pointers, PortType, Port
  <2>. QED
    BY <1>3, <1>12, <2>1, <2>4, <2>5 DEF StOtpLatch
<1>13. CASE on("WAIT_DATA")
  <2>1. StWaitData /\ msg_len' = msg_len
    BY <1>2, <1>13, FsmCases
  <2>2. CASE data_pending
    <3>1. Pointers'
      BY <1>1, <1>13, <2>1, <2>2 DEF StWaitData, Feed, Pointers, States
    <3>2. PortType'
      <4>1. port' = Port("word", blk_ptr, TRUE, data_in) /\ blk_ptr \in Slots
        BY <1>1, <2>1, <2>2 DEF StWaitData, Feed, Pointers
      <4>. QED
        BY <1>1, <4>1 DEF PortType, Port
    <3>. QED
      BY <1>3, <1>13, <2>1, <2>2, <3>1, <3>2 DEF StWaitData
  <2>3. CASE ~data_pending
    BY <1>1, <1>3, <1>4, <1>13, <2>1, <2>3 DEF StWaitData, Pointers, States
  <2>. QED
    BY <2>2, <2>3
<1>14. CASE on("BLK_POLL")
  <2>1. StPoll("BLK_POLL", "WAIT_DATA") /\ msg_len' = msg_len
    BY <1>2, <1>14, FsmCases
  <2>. QED
    BY <1>1, <1>3, <1>14, <2>1, TokenFacts DEF StPoll, Pointers, States, PortType, Port
<1>15. CASE w # "abort" /\ state \in {"WAIT_INTR", "READ_HASH", "LOAD_REGS", "WAIT_START",
                                     "ED_START", "ED_WAIT", "DONE"}
  <2>1. /\ Quiet /\ UNCHANGED <<sha_len, sha_fed, blk_ptr, idx>> /\ msg_len' = msg_len
        /\ state' \in {"WAIT_INTR", "READ_HASH", "LOAD_REGS", "WAIT_START",
                       "ED_START", "ED_WAIT", "DONE"}
    BY <1>2, <1>15, FsmCases DEF StWaitIntr, StReadHash, StMove, StWait
  <2>. QED
    BY <1>1, <1>3, <1>4, <1>15, <2>1 DEF Pointers, States
<1>. QED
  BY <1>1, <1>5, <1>6, <1>7, <1>8, <1>9, <1>10, <1>11, <1>12, <1>13, <1>14, <1>15
     DEF Pointers, States

\* A key register that takes a word in.
LEMMA ShiftFacts ==
    ASSUME NEW reg \in Keys, NEW x \in Tokens
    PROVE  /\ Shift(reg, x) \in Keys /\ Shift(reg, x)[KeyWords] = x
           /\ \A i \in 1 .. KeyWords - 1 : Shift(reg, x)[i] = reg[i + 1]
<1>. USE Sizes
<1>1. reg \in Seq(Tokens) /\ Len(reg) = KeyWords /\ reg # <<>>
  <2>1. reg \in [1 .. KeyWords -> Tokens]
    BY DEF Keys
  <2>2. reg \in Seq(Tokens)
    BY <2>1, SeqDef, Zenon
  <2>. QED
    BY <2>1, <2>2
<1>2. /\ Tail(reg) \in Seq(Tokens) /\ Len(Tail(reg)) = KeyWords - 1
      /\ \A i \in 1 .. KeyWords - 1 : Tail(reg)[i] = reg[i + 1]
  BY <1>1
<1>. DEFINE t == Tail(reg)
<1>. HIDE DEF t
<1>3. /\ Append(t, x) \in Seq(Tokens) /\ Len(Append(t, x)) = KeyWords
      /\ Append(t, x)[KeyWords] = x
      /\ \A i \in 1 .. KeyWords - 1 : Append(t, x)[i] = t[i]
  BY <1>2 DEF t
<1>4. Append(t, x) \in [1 .. KeyWords -> Tokens]
  <2>. DEFINE u == Append(t, x)
  <2>1. u \in Seq(Tokens) /\ Len(u) = KeyWords
    BY <1>3
  <2>. HIDE DEF u
  <2>2. u \in [1 .. Len(u) -> Tokens]
    BY <2>1, LenProperties
  <2>. QED
    BY <2>1, <2>2 DEF u
<1>. QED
  BY <1>2, <1>3, <1>4 DEF Shift, Keys, t

\* The registers keep their types.
LEMMA UnitsStep ==
    ASSUME Always, NEW w \in Writes, NEW n \in Nat, NEW sv \in BOOLEAN, NEW finish \in BOOLEAN,
           Cycle(w, n, sv, finish)
    PROVE  Units'
<1>1. /\ Units /\ Driver /\ Pointers /\ FsmEdge(w, sv) /\ CsrEdge(w, n) /\ EdEdge(w, finish)
  BY DEF Always, Cycle
<1>2. Word("R", fcount) \in Tokens /\ Word("S", fcount) \in Tokens /\ Word("M", fcount) \in Tokens
  BY <1>1, TokenFacts DEF Word, Driver
<1>3. r_reg' \in Keys /\ s_reg' \in Keys /\ data_in' \in Tokens
  BY <1>1, <1>2, ShiftFacts DEF CsrEdge, Units
<1>4. pubkey' \in Keys
  <2>1. OtpData \in Tokens
    BY <1>1, TokenFacts, Sizes DEF OtpData, Pointers
  <2>2. pubkey' = pubkey \/ pubkey' = Shift(pubkey, OtpData)
    <3>1. CASE w = "abort"
      BY <1>1, <3>1 DEF FsmEdge, StAbort
    <3>2. CASE w # "abort"
      BY <1>1, <3>2, FsmCases DEF Pointers, States, StIdle, StShaCfgLen, StShaCfgCtrl, StPoll,
         StFeedR, StOtpReq, StOtpLatch, StWaitData, StWaitIntr, StReadHash, StMove, StWait
    <3>. QED
      BY <3>1, <3>2
  <2>. QED
    BY <1>1, <2>1, <2>2, ShiftFacts DEF Units
<1>5. data_pending' \in BOOLEAN
  <2>1. data_pending' = (w = "data" \/ (data_pending /\ state # "WAIT_DATA"))
    BY <1>1 DEF CsrEdge
  <2>. QED
    BY <2>1, Zenon
<1>6. start_latch' \in BOOLEAN
  <2>1. start_latch' = FALSE \/ start_latch' = (start_latch \/ sv)
    BY <1>1 DEF FsmEdge
  <2>. QED
    BY <2>1, Zenon
<1>7. boot_q' \in BOOLEAN /\ ed_start' \in BOOLEAN
  <2>1. boot_q' = (boot_q /\ ~ed_done) /\ ed_start' = (w # "abort" /\ state = "ED_START")
    BY <1>1 DEF FsmEdge
  <2>. QED
    BY <2>1, Zenon
<1>8. estate' \in {"IDLE", "BUSY", "DONE"}
  BY <1>1 DEF EdEdge, Units
<1>. QED
  BY <1>3, <1>4, <1>5, <1>6, <1>7, <1>8 DEF Units

\* Firmware follows its program, and the orchestrator waits for the word that
\* STATUS promised.
LEMMA DriverStep ==
    ASSUME Always, NEW w \in Writes, NEW n \in Nat, NEW sv \in BOOLEAN,
           Firmware(w, n), FsmEdge(w, sv), CsrEdge(w, n)
    PROVE  Driver'
<1>. USE Sizes
<1>1. Driver /\ Units /\ Pointers
  BY DEF Always
<1>2. /\ w = "abort" => state' = "IDLE"
      /\ w = "start" => state = "IDLE" /\ state' = "SHA_CFG_LEN"
      /\ w \notin {"start", "abort"} => (state = "IDLE") = (state' = "IDLE")
  BY PointersStep
<1>3. msg_len' = IF w = "len" THEN n ELSE msg_len
  BY DEF CsrEdge
<1>4. data_pending' = (w = "data" \/ (data_pending /\ state # "WAIT_DATA"))
  BY DEF CsrEdge
<1>5. ASSUME w # "abort", state = "WAIT_DATA", ~data_pending
      PROVE  state' = "WAIT_DATA"
  BY <1>5, FsmCases DEF StWaitData
<1>6. AtRest \in BOOLEAN /\ attempt + 1 \in Nat
  BY <1>1 DEF AtRest, Driver
<1>7. CASE w = "none"
  BY <1>1, <1>2, <1>3, <1>4, <1>5, <1>7 DEF Firmware, fw, Driver
<1>8. CASE w = "rin"
  BY <1>1, <1>2, <1>3, <1>4, <1>8 DEF Firmware, Driver
<1>9. CASE w = "sin"
  BY <1>1, <1>2, <1>3, <1>4, <1>9 DEF Firmware, Driver
<1>10. CASE w = "len"
  BY <1>1, <1>2, <1>3, <1>4, <1>10 DEF Firmware, Driver
<1>11. CASE w = "start"
  <2>1. clean' \in BOOLEAN
    BY <1>6, <1>11 DEF Firmware
  <2>. QED
    BY <1>1, <1>2, <1>3, <1>4, <1>11, <2>1 DEF Firmware, Driver
<1>12. CASE w = "read"
  <2>1. /\ fpc = "POLL" /\ fpc' = "WRITE" /\ UNCHANGED <<fcount, attempt, clean>>
        /\ state = "WAIT_DATA" /\ ~data_pending
    BY <1>12 DEF Firmware, ReadyBit
  <2>2. state' = "WAIT_DATA" /\ ~data_pending' /\ msg_len' = msg_len
    BY <1>3, <1>4, <1>5, <1>12, <2>1
  <2>. QED
    BY <1>1, <2>1, <2>2 DEF Driver
<1>13. CASE w = "data"
  BY <1>1, <1>2, <1>3, <1>4, <1>13 DEF Firmware, Driver
<1>14. CASE w = "abort"
  BY <1>1, <1>2, <1>3, <1>4, <1>6, <1>14 DEF Firmware, Driver
<1>. QED
  BY <1>7, <1>8, <1>9, <1>10, <1>11, <1>12, <1>13, <1>14 DEF Writes

\* A key register that takes in the next word.
LEMMA ShiftIn ==
    ASSUME NEW reg \in Keys, NEW a, NEW kind, NEW n \in 0 .. KeyWords - 1,
           <<kind, a, n>> \in Tokens, Shifted(kind, a, reg, n)
    PROVE  Shifted(kind, a, Shift(reg, <<kind, a, n>>), n + 1)
<1>. DEFINE x == <<kind, a, n>>
<1>. SUFFICES ASSUME NEW i \in 1 .. n + 1
              PROVE  Shift(reg, x)[KeyWords - (n + 1) + i] = <<kind, a, i - 1>>
  BY DEF Shifted
<1>. USE Sizes
<1>0. x \in Tokens
  OBVIOUS
<1>. HIDE DEF x
<1>1. CASE i = n + 1
  <2>1. KeyWords - (n + 1) + i = KeyWords /\ i - 1 = n
    BY <1>1
  <2>2. Shift(reg, x)[KeyWords] = x
    BY <1>0, ShiftFacts
  <2>3. x = <<kind, a, i - 1>>
    BY <2>1 DEF x
  <2>. QED
    BY <2>1, <2>2, <2>3
<1>2. CASE i # n + 1
  <2>. DEFINE j == KeyWords - (n + 1) + i
  <2>1. j \in 1 .. KeyWords - 1 /\ j + 1 = KeyWords - n + i /\ i \in 1 .. n
    BY <1>2
  <2>2. Shift(reg, x)[j] = reg[j + 1]
    <3>. HIDE DEF j
    <3>. QED
      BY <1>0, <2>1, ShiftFacts
  <2>. QED
    BY <2>1, <2>2 DEF Shifted
<1>. QED
  BY <1>1, <1>2

\* R and S are those that firmware has written in this attempt.
LEMMA SignatureStep ==
    ASSUME Always, NEW w \in Writes, NEW n \in Nat, Firmware(w, n), CsrEdge(w, n)
    PROVE  Signature'
<1>1. Driver /\ r_reg \in Keys /\ s_reg \in Keys /\ Signature
  BY DEF Always, Units
<1>2. /\ attempt \in Nat /\ fcount \in Nat
      /\ fpc \in {"R", "S"} => fcount \in 0 .. KeyWords - 1
  BY <1>1, Sizes DEF Driver
<1>3. CASE w = "rin"
  <2>1. /\ fpc = "R" /\ attempt' = attempt /\ fcount' = (fcount + 1) % KeyWords
        /\ r_reg' = Shift(r_reg, <<"R", attempt, fcount>>)
        /\ fpc' = IF fcount = KeyWords - 1 THEN "S" ELSE "R"
    BY <1>3 DEF Firmware, CsrEdge, Word
  <2>2. Shifted("R", attempt, r_reg, fcount) /\ fcount \in 0 .. KeyWords - 1
    BY <1>1, <1>2, <2>1 DEF Signature
  <2>3. fcount' = IF fcount = KeyWords - 1 THEN 0 ELSE fcount + 1
    BY <2>1, <2>2, Sizes
  <2>4. Shifted("R", attempt, r_reg', fcount + 1)
    BY <1>1, <1>2, <2>1, <2>2, ShiftIn, TokenFacts
  <2>5. (IF fpc' = "R" THEN fcount' ELSE KeyWords) = fcount + 1
    BY <2>1, <2>2, <2>3, Sizes
  <2>6. fpc' # "R" => fpc' = "S" /\ fcount' = 0
    BY <2>1, <2>3
  <2>7. Shifted("S", attempt, s_reg', 0)
    BY DEF Shifted
  <2>. QED
    BY <2>1, <2>4, <2>5, <2>6, <2>7 DEF Signature
<1>4. CASE w = "sin"
  <2>1. /\ fpc = "S" /\ attempt' = attempt /\ fcount' = (fcount + 1) % KeyWords
        /\ s_reg' = Shift(s_reg, <<"S", attempt, fcount>>) /\ r_reg' = r_reg
        /\ fpc' = IF fcount = KeyWords - 1 THEN "LEN" ELSE "S"
    BY <1>4 DEF Firmware, CsrEdge, Word
  <2>2. /\ Shifted("S", attempt, s_reg, fcount) /\ fcount \in 0 .. KeyWords - 1
        /\ Shifted("R", attempt, r_reg, KeyWords)
    BY <1>1, <1>2, <2>1 DEF Signature
  <2>3. fcount' = IF fcount = KeyWords - 1 THEN 0 ELSE fcount + 1
    BY <2>1, <2>2, Sizes
  <2>4. Shifted("S", attempt, s_reg', fcount + 1)
    BY <1>1, <1>2, <2>1, <2>2, ShiftIn, TokenFacts
  <2>5. (IF fpc' = "S" THEN fcount' ELSE KeyWords) = fcount + 1
    BY <2>1, <2>2, <2>3, Sizes
  <2>. QED
    BY <2>1, <2>2, <2>4, <2>5 DEF Signature
<1>5. CASE w = "abort"
  <2>1. Shifted("R", attempt', r_reg', 0)
    BY DEF Shifted
  <2>. QED
    BY <1>1, <1>5, <2>1, FirmwareCases DEF Signature
<1>6. CASE w \notin {"rin", "sin", "abort"}
  <2>1. /\ r_reg' = r_reg /\ s_reg' = s_reg /\ attempt' = attempt
        /\ (fpc = "R") = (fpc' = "R") /\ (fpc = "S") = (fpc' = "S")
        /\ fpc \in {"R", "S"} => fcount' = fcount
    BY <1>1, <1>6 DEF Firmware, CsrEdge, fw, Driver, Writes
  <2>. QED
    BY <1>1, <2>1 DEF Signature
<1>. QED
  BY <1>3, <1>4, <1>5, <1>6

\* After reset every unit is as the invariant says.
LEMMA InitAlways ==
    ASSUME Init
    PROVE  Always
<1>. USE Sizes, TokenFacts
<1>1. PortType /\ port.wen = FALSE
  BY DEF Init, ShaInit, Idle, Port, PortType
<1>2. Engine
  <2>1. <<>> \in Seq([Slots -> Tokens]) /\ [i \in Slots |-> Stale] \in [Slots -> Tokens]
    OBVIOUS
  <2>2. sched \in [Slots -> Tokens] /\ digest \in Seq([Slots -> Tokens])
    BY <2>1 DEF Init, ShaInit
  <2>3. /\ sstate = "IDLE" /\ word_count = 0 /\ round_count = 0 /\ is_last_block = FALSE
        /\ msg_length = 0 /\ intr = FALSE /\ pstate = "IDLE" /\ N_cnt = 0 /\ C_cnt = 0
    BY DEF Init, ShaInit
  <2>4. 0 \in 0 .. Blk /\ 0 \in 0 .. Rounds + 1 /\ 0 \in 0 .. 2 * Blk - 1
    BY ShaAssumption
  <2>. QED
    BY <2>2, <2>3, <2>4 DEF Engine
<1>3. Pointers
  BY DEF Init, Pointers, States
<1>4. Units
  BY DEF Init, Units, Keys
<1>5. Driver
  BY DEF Init, Driver
<1>6. Signature
  <2>1. Shifted("R", attempt, r_reg, 0)
    BY DEF Shifted
  <2>. QED
    BY <2>1 DEF Init, Signature
<1>. QED
  BY <1>1, <1>2, <1>3, <1>4, <1>5, <1>6 DEF Always

\* Every cycle keeps what holds in every attempt.
LEMMA AlwaysStep ==
    ASSUME Always, NEW w \in Writes, NEW n \in Nat, NEW sv \in BOOLEAN, NEW finish \in BOOLEAN,
           Cycle(w, n, sv, finish)
    PROVE  Always'
<1>1. Firmware(w, n) /\ FsmEdge(w, sv) /\ CsrEdge(w, n) /\ ShaEdge
  BY DEF Cycle
<1>2. PortType /\ Engine
  BY DEF Always
<1>. QED
  BY <1>1, <1>2, EngineStep, PointersStep, UnitsStep, DriverStep, SignatureStep DEF Always

\* So does a step that changes nothing.
LEMMA SameAlways ==
    ASSUME Always, UNCHANGED vars
    PROVE  Always'
<1>1. UNCHANGED <<port, sstate, word_count, round_count, is_last_block, msg_length, sched,
                  digest, intr, pstate, N_cnt, C_cnt>>
  BY DEF vars, sha
<1>2. UNCHANGED <<state, sha_len, sha_fed, blk_ptr, idx, pubkey, hash, start_latch, boot_q, ed_start>>
  BY DEF vars, fsm
<1>3. UNCHANGED <<msg_len, r_reg, s_reg, data_in, data_pending, estate, fpc, fcount, attempt, clean>>
  BY DEF vars, csrs, ed, fw
<1>4. PortType' /\ Engine'
  BY <1>1 DEF Always, PortType, Engine
<1>5. Pointers' /\ Units'
  BY <1>2, <1>3 DEF Always, Pointers, Units
<1>6. Driver' /\ Signature'
  BY <1>2, <1>3 DEF Always, Driver, Signature
<1>. QED
  BY <1>4, <1>5, <1>6 DEF Always
-------------------------------------------------------------------------------
(* The engine in an attempt *)

\* The words of a padded message of n words, by their place.
LEMMA TokValues ==
    ASSUME NEW a, NEW n \in Nat, n >= 2 * KeyWords, NEW p \in Nat
    PROVE  /\ Total(n) \in Nat /\ Total(n) > n + 4
           /\ p < KeyWords => Tok(a, n, p) = <<"R", a, p>>
           /\ p >= KeyWords /\ p < 2 * KeyWords => Tok(a, n, p) = KeyWord(p - KeyWords)
           /\ p >= 2 * KeyWords /\ p < n => Tok(a, n, p) = <<"M", a, p>>
           /\ p = n => Tok(a, n, p) = End
           /\ p > n /\ p < Total(n) - 1 => Tok(a, n, p) = Zero
           /\ p = Total(n) - 1 => Tok(a, n, p) = Length(n)
<1>1. Total(n) \in Nat /\ Total(n) > n + 4
  <2>1. Fill(n) \in 2 .. 2 * Blk - 1 /\ Blk \in Nat
    BY FillFacts, Sizes
  <2>. QED
    BY <2>1 DEF Total
<1>. QED
  BY <1>1, Sizes DEF Tok

\* A word that is written into the next slot of a block.
LEMMA BlockGrows ==
    ASSUME NEW a, NEW n, NEW h, NEW s \in [Slots -> Tokens], NEW k \in Slots,
           InBlock(a, n, h, s, k)
    PROVE  InBlock(a, n, h, [s EXCEPT ![k] = Tok(a, n, Len(h) * Blk + k)], k + 1)
<1>. DEFINE x == Tok(a, n, Len(h) * Blk + k)
<1>. SUFFICES ASSUME NEW i \in 0 .. (k + 1) - 1
              PROVE  [s EXCEPT ![k] = x][i] = Tok(a, n, Len(h) * Blk + i)
  BY DEF InBlock
<1>1. i \in Slots /\ (i = k \/ i \in 0 .. k - 1)
  BY Sizes
<1>2. CASE i = k
  <2>1. x = Tok(a, n, Len(h) * Blk + i)
    BY <1>2
  <2>. HIDE DEF x
  <2>. QED
    BY <1>1, <1>2, <2>1
<1>3. CASE i # k
  <2>1. s[i] = Tok(a, n, Len(h) * Blk + i)
    BY <1>1, <1>3 DEF InBlock
  <2>. HIDE DEF x
  <2>. QED
    BY <1>1, <1>3, <2>1
<1>. QED
  BY <1>2, <1>3

\* An engine at rest stays so until it is told to start.
LEMMA EngineRests ==
    ASSUME Always, EngineAtRest, ~PrepStart, ShaEdge
    PROVE  EngineAtRest'
<1>1. ~SchedWr
  BY DEF EngineAtRest, SchedWr
<1>2. pstate' = "IDLE"
  BY <1>1 DEF EngineAtRest, ShaEdge, PrepEdge
<1>3. sstate' = "IDLE" /\ intr' = FALSE
  BY DEF EngineAtRest, ShaEdge, ShaIdle, ShaRecv, ShaPad, ShaWork, ShaAccum, ShaDone
<1>. QED
  BY <1>2, <1>3 DEF EngineAtRest

\* The start of a message: nothing is taken yet.
LEMMA EngineStarts ==
    ASSUME Always, EngineAtRest, PrepStart, msg_length > 0, ShaEdge
    PROVE  /\ sstate' = "RECV" /\ pstate' = "IDLE" /\ digest' = <<>> /\ word_count' = 0
           /\ ~is_last_block' /\ ~intr' /\ N_cnt' = 0 /\ C_cnt' = 0 /\ msg_length' = msg_length
<1>1. ~SchedWr /\ msg_length \in Nat
  BY DEF EngineAtRest, SchedWr, Always, Engine
<1>2. pstate' = "IDLE" /\ N_cnt' = 0 /\ C_cnt' = 0
  BY <1>1 DEF EngineAtRest, ShaEdge, PrepEdge
<1>3. /\ sstate' = "RECV" /\ digest' = <<>> /\ intr' = FALSE /\ word_count' = 0
      /\ is_last_block' = FALSE
  BY DEF EngineAtRest, ShaEdge, ShaIdle, ShaRecv, ShaPad, ShaWork, ShaAccum, ShaDone
<1>4. msg_length' = msg_length
  BY DEF ShaEdge, PrepStart
<1>. QED
  BY <1>2, <1>3, <1>4

\* While nothing arrives the engine waits.
LEMMA EngineHolds ==
    ASSUME Always, Fed, sstate = "RECV", ~port.wen, ShaEdge
    PROVE  UNCHANGED <<sstate, word_count, sched, digest, is_last_block, intr, msg_length,
                       pstate, N_cnt, C_cnt>>
<1>1. ~SchedWr /\ ~PrepStart /\ ~MuxSel /\ word_count # Blk
  BY Sizes DEF SchedWr, PrepStart, MuxSel, Fed, Always, Engine
<1>2. UNCHANGED <<pstate, N_cnt, C_cnt, sched, msg_length>>
  BY <1>1 DEF Fed, ShaEdge, PrepEdge, SchedEdge
<1>3. ShaRecv
  BY DEF ShaEdge, ShaIdle, ShaPad, ShaWork, ShaAccum, ShaDone
<1>4. UNCHANGED <<sstate, word_count, digest, is_last_block, intr>>
  BY <1>1, <1>3 DEF ShaRecv
<1>. QED
  BY <1>2, <1>4

\* A word is taken into the slot that the engine fills next.
LEMMA EngineTakes ==
    ASSUME Always, state \in Active, Fed, sstate = "RECV", port.wen, ShaEdge
    PROVE  /\ word_count' = word_count + 1 /\ N_cnt' = N_cnt + 1
           /\ UNCHANGED <<digest, is_last_block, intr, msg_length, C_cnt>>
           /\ sstate' = (IF word_count = Blk - 1 THEN "WORK" ELSE "RECV")
           /\ pstate' = (IF N_cnt + 1 = msg_length THEN "SEND80" ELSE "IDLE")
           /\ Hashes(attempt, sha_len, digest')
           /\ InBlock(attempt, sha_len, digest', sched', word_count')
<1>1. SchedWr /\ ~PrepStart /\ ~MuxSel /\ port.kind = "word" /\ port.slot = word_count
  BY DEF Fed, SchedWr, PrepStart, MuxSel
<1>2. /\ word_count \in 0 .. Blk - 1 /\ word_count # Blk /\ sched \in [Slots -> Tokens]
      /\ N_cnt \in Nat /\ digest \in Seq([Slots -> Tokens])
  BY Sizes DEF Always, Engine
<1>3. /\ N_cnt' = N_cnt + 1 /\ C_cnt' = C_cnt /\ msg_length' = msg_length
      /\ pstate' = IF N_cnt + 1 = msg_length THEN "SEND80" ELSE "IDLE"
  BY <1>1 DEF Fed, ShaEdge, PrepEdge
<1>4. sched' = [sched EXCEPT ![word_count] = Tok(attempt, sha_len, Taken)]
  BY <1>1 DEF Fed, ShaEdge, SchedEdge
<1>5. ShaRecv
  BY DEF ShaEdge, ShaIdle, ShaPad, ShaWork, ShaAccum, ShaDone
<1>6. /\ word_count' = word_count + 1 /\ UNCHANGED <<digest, is_last_block, intr>>
      /\ sstate' = IF word_count = Blk - 1 THEN "WORK" ELSE "RECV"
  BY <1>1, <1>2, <1>5 DEF ShaRecv
<1>7. Hashes(attempt, sha_len, digest) /\ InBlock(attempt, sha_len, digest, sched, word_count)
  BY DEF Fed, Holds
<1>8. InBlock(attempt, sha_len, digest, sched', word_count + 1)
  BY <1>2, <1>4, <1>7, BlockGrows, Sizes DEF Taken
<1>. QED
  BY <1>3, <1>6, <1>7, <1>8

\* The rounds leave everything else alone.
LEMMA EngineWorks ==
    ASSUME Always, sstate = "WORK", ~port.wen, ShaEdge
    PROVE  /\ UNCHANGED <<word_count, sched, digest, is_last_block, intr, msg_length, pstate,
                          N_cnt, C_cnt>>
           /\ sstate' \in {"WORK", "ACCUM"}
<1>1. ~SchedWr /\ ~PrepStart
  BY DEF SchedWr, PrepStart
<1>2. UNCHANGED <<N_cnt, C_cnt, sched, msg_length>>
  BY <1>1 DEF ShaEdge, PrepEdge, SchedEdge
<1>3. pstate' = pstate
  BY <1>1 DEF ShaEdge, PrepEdge
<1>4. ShaWork
  BY DEF ShaEdge, ShaIdle, ShaRecv, ShaPad, ShaAccum, ShaDone
<1>. QED
  BY <1>2, <1>3, <1>4 DEF ShaWork

\* A full block goes into the digest, and the place of the next word is the
\* first of the next block.
LEMMA EngineAccumulates ==
    ASSUME Always, Holds, word_count = Blk, sstate = "ACCUM", ~port.wen, ShaEdge
    PROVE  /\ UNCHANGED <<is_last_block, intr, msg_length, pstate, N_cnt, C_cnt>>
           /\ word_count' = 0 /\ Len(digest') = Len(digest) + 1
           /\ Len(digest) \in Nat /\ Len(digest') * Blk = Len(digest) * Blk + Blk
           /\ Hashes(attempt, sha_len, digest')
           /\ InBlock(attempt, sha_len, digest', sched', 0)
           /\ sstate' = (IF is_last_block THEN "DONE" ELSE IF pstate # "IDLE" THEN "PAD" ELSE "RECV")
<1>1. ~SchedWr /\ ~PrepStart
  BY DEF SchedWr, PrepStart
<1>2. UNCHANGED <<N_cnt, C_cnt, msg_length>>
  BY <1>1 DEF ShaEdge, PrepEdge
<1>3. pstate' = pstate
  BY <1>1 DEF ShaEdge, PrepEdge
<1>4. ShaAccum
  BY DEF ShaEdge, ShaIdle, ShaRecv, ShaPad, ShaWork, ShaDone
<1>. DEFINE h == digest
            S == [Slots -> Tokens]
            g == Append(h, sched)
<1>5. h \in Seq(S) /\ sched \in S /\ digest' = g
  BY <1>4 DEF ShaAccum, Always, Engine
<1>6. /\ g \in Seq(S) /\ Len(g) = Len(h) + 1 /\ Len(h) \in Nat /\ g[Len(h) + 1] = sched
      /\ \A b \in 1 .. Len(h) : g[b] = h[b]
  <2>. HIDE DEF S, h
  <2>. QED
    BY <1>5
<1>7. /\ \A b \in 1 .. Len(h) : \A i \in Slots : h[b][i] = Tok(attempt, sha_len, (b - 1) * Blk + i)
      /\ \A i \in Slots : sched[i] = Tok(attempt, sha_len, Len(h) * Blk + i)
  BY Sizes DEF Holds, Hashes, InBlock
<1>8. Hashes(attempt, sha_len, g)
  <2>. SUFFICES ASSUME NEW b \in 1 .. Len(g), NEW i \in Slots
                PROVE  g[b][i] = Tok(attempt, sha_len, (b - 1) * Blk + i)
    BY <1>6 DEF Hashes
  <2>. HIDE DEF g, h, S
  <2>1. CASE b = Len(h) + 1
    <3>1. b - 1 = Len(h)
      BY <1>6, <2>1
    <3>. QED
      BY <1>6, <1>7, <2>1, <3>1
  <2>2. CASE b # Len(h) + 1
    <3>1. b \in 1 .. Len(h)
      BY <1>6, <2>2
    <3>. QED
      BY <1>6, <1>7, <3>1
  <2>. QED
    BY <2>1, <2>2
<1>9. Len(g) * Blk = Len(h) * Blk + Blk
  <2>. HIDE DEF g, h
  <2>. QED
    BY <1>6, Multiples
<1>10. InBlock(attempt, sha_len, digest', sched', 0)
  BY DEF InBlock
<1>11. /\ word_count' = 0 /\ UNCHANGED <<is_last_block, intr>>
       /\ sstate' = IF is_last_block THEN "DONE" ELSE IF pstate # "IDLE" THEN "PAD" ELSE "RECV"
  BY <1>4 DEF ShaAccum, MuxSel
<1>. HIDE DEF g
<1>. QED
  BY <1>2, <1>3, <1>5, <1>6, <1>8, <1>9, <1>10, <1>11

\* The preprocessor's word is the next of the padded message, and the length
\* is the last word of a block.
LEMMA PrepWord ==
    ASSUME Always, state \in Active, Pads, msg_length = sha_len, sstate = "PAD"
    PROVE  /\ PrepData = Tok(attempt, sha_len, Taken)
           /\ C = Fill(sha_len) /\ C \in 2 .. 2 * Blk - 1
           /\ pstate \in {"SEND80", "SEND00", "SENDLEN0", "SENDLEN1"}
           /\ pstate = "SENDLEN1" => word_count = Blk - 1
<1>1. /\ sha_len \in Nat /\ sha_len >= 2 * KeyWords
  BY ActiveFacts DEF Always
<1>2. /\ word_count \in Slots /\ Len(digest) \in Nat /\ C_cnt \in Nat
      /\ pstate \in {"SEND80", "SEND00", "SENDLEN0", "SENDLEN1"}
  <2>1. digest \in Seq([Slots -> Tokens])
    BY DEF Always, Engine
  <2>2. Len(digest) \in Nat
    BY <2>1, LenProperties
  <2>. QED
    BY <2>2, Sizes DEF Always, Engine, Pads
<1>3. C = Fill(sha_len)
  BY DEF C, K, Fill
<1>4. Fill(sha_len) \in 2 .. 2 * Blk - 1
  BY <1>1, FillFacts
<1>5. Len(digest) * Blk \in Nat /\ Taken \in Nat
  BY <1>2, Multiples, Sizes DEF Taken
<1>6. /\ Total(sha_len) \in Nat /\ Total(sha_len) > sha_len + 4
      /\ Taken = sha_len => Tok(attempt, sha_len, Taken) = End
      /\ Taken > sha_len /\ Taken < Total(sha_len) - 1 => Tok(attempt, sha_len, Taken) = Zero
      /\ Taken = Total(sha_len) - 1 => Tok(attempt, sha_len, Taken) = Length(sha_len)
  BY <1>1, <1>5, TokValues
<1>7. PrepData = Tok(attempt, sha_len, Taken)
  <2>1. CASE pstate = "SEND80"
    BY <1>6, <2>1 DEF PrepData, Pads
  <2>2. CASE pstate = "SEND00"
    <3>1. Taken > sha_len /\ Taken < Total(sha_len) - 1
      BY <1>1, <1>2, <1>4, <2>2, Sizes DEF Pads, Total
    <3>. QED
      BY <1>6, <2>2, <3>1 DEF PrepData
  <2>3. CASE pstate = "SENDLEN0"
    <3>1. Taken > sha_len /\ Taken < Total(sha_len) - 1
      BY <1>1, <1>6, <2>3 DEF Pads
    <3>. QED
      BY <1>6, <2>3, <3>1 DEF PrepData
  <2>4. CASE pstate = "SENDLEN1"
    BY <1>6, <2>4 DEF PrepData, Pads
  <2>. QED
    BY <1>2, <2>1, <2>2, <2>3, <2>4
<1>8. ASSUME pstate = "SENDLEN1" PROVE word_count = Blk - 1
  <2>1. PICK m \in Nat : Total(sha_len) = m * Blk + Blk
    BY <1>1, FillFacts
  <2>2. m * Blk \in Nat
    BY Multiples
  <2>3. Len(digest) * Blk + word_count = m * Blk + (Blk - 1)
    BY <1>2, <1>5, <1>8, <2>1, <2>2, Sizes DEF Pads, Taken
  <2>4. Blk - 1 \in Slots
    BY Sizes
  <2>. HIDE DEF Slots
  <2>. QED
    BY <1>2, <2>3, <2>4, DivisionUnique
<1>. QED
  BY <1>2, <1>3, <1>4, <1>7, <1>8

\* A cycle of padding.
LEMMA EnginePads ==
    ASSUME Always, state \in Active, Pads, msg_length = sha_len, ~intr, ~port.wen, ShaEdge,
           sstate = "PAD", UNCHANGED <<attempt, sha_len>>
    PROVE  Pads' /\ ~intr' /\ msg_length' = msg_length
<1>1. SchedWr /\ ~PrepStart
  BY DEF SchedWr, PrepStart
<1>2. ShaPad
  BY DEF ShaEdge, ShaIdle, ShaRecv, ShaWork, ShaAccum, ShaDone
<1>3. /\ PrepData = Tok(attempt, sha_len, Taken)
      /\ C = Fill(sha_len) /\ C \in 2 .. 2 * Blk - 1
      /\ pstate \in {"SEND80", "SEND00", "SENDLEN0", "SENDLEN1"}
      /\ pstate = "SENDLEN1" => word_count = Blk - 1
  BY PrepWord
<1>4. /\ word_count \in Slots /\ sched \in [Slots -> Tokens] /\ digest \in Seq([Slots -> Tokens])
      /\ C_cnt \in 0 .. 2 * Blk - 1 /\ sha_len \in Nat
  BY Sizes DEF Always, Engine, Pointers
<1>5. Len(digest) \in Nat /\ Len(digest) * Blk \in Nat /\ Taken \in Nat
  <2>1. Len(digest) \in Nat
    BY <1>4, LenProperties
  <2>2. Len(digest) * Blk \in Nat /\ word_count \in Nat
    BY <1>4, <2>1, Multiples, Sizes
  <2>. QED
    BY <2>1, <2>2 DEF Taken
<1>6. /\ word_count' = word_count + 1 /\ UNCHANGED <<digest, intr>>
      /\ sstate' = IF word_count = Blk - 1 THEN "WORK" ELSE "PAD"
      /\ is_last_block' = (is_last_block \/ PrepDone)
  BY <1>2 DEF ShaPad
<1>7. Taken' = Taken + 1
  BY <1>4, <1>5, <1>6, Sizes DEF Taken
<1>8. Holds'
  <2>1. word_count % Blk = word_count
    <3>1. Blk \in Nat /\ Blk > 0 /\ word_count \in 0 .. Blk - 1
      BY <1>4, Sizes
    <3>. QED
      BY <3>1
  <2>2. sched' = [sched EXCEPT ![word_count] = Tok(attempt, sha_len, Len(digest) * Blk + word_count)]
    BY <1>3, <2>1 DEF ShaEdge, SchedEdge, Taken
  <2>3. InBlock(attempt, sha_len, digest, sched, word_count) /\ Hashes(attempt, sha_len, digest)
    BY DEF Pads, Holds
  <2>4. InBlock(attempt, sha_len, digest, sched', word_count + 1)
    BY <1>4, <2>2, <2>3, BlockGrows
  <2>. QED
    BY <1>6, <2>3, <2>4 DEF Holds
<1>9. msg_length' = msg_length
  BY DEF ShaEdge
<1>10. is_last_block' = (pstate' = "IDLE")
  <2>1. is_last_block = FALSE
    BY <1>3 DEF Pads
  <2>2. (pstate' = "IDLE") = (pstate = "SENDLEN1")
    BY <1>1, <1>3 DEF ShaEdge, PrepEdge
  <2>3. PrepDone = (pstate = "SENDLEN1")
    BY <1>1 DEF PrepDone
  <2>. QED
    BY <1>6, <2>1, <2>2, <2>3, Zenon
<1>. DEFINE Place(p, c, t, n) ==
              /\ p = "SEND80"   => t = n /\ c = 0
              /\ p = "SEND00"   => t = n + 1 + c /\ c < Fill(n)
              /\ p = "SENDLEN0" => t = Total(n) - 2
              /\ p = "SENDLEN1" => t = Total(n) - 1
              /\ p = "IDLE"     => t = Total(n)
<1>11. Place(pstate', C_cnt', Taken + 1, sha_len)
  <2>1. CASE pstate = "SEND80"
    <3>1. pstate' = "SEND00" /\ C_cnt' = C_cnt
      BY <1>1, <1>3, <2>1, Sizes DEF ShaEdge, PrepEdge
    <3>. QED
      BY <1>3, <1>4, <2>1, <3>1, Sizes DEF Pads
  <2>2. CASE pstate = "SEND00"
    <3>1. Taken = sha_len + 1 + C_cnt /\ C_cnt < Fill(sha_len)
      BY <2>2 DEF Pads
    <3>2. (C_cnt + 1) % (2 * Blk) = C_cnt + 1
      <4>1. C_cnt + 1 \in 0 .. 2 * Blk - 1 /\ 2 * Blk \in Nat
        BY <1>3, <1>4, <3>1, Sizes
      <4>. QED
        BY <4>1
    <3>3. /\ pstate' = IF C_cnt + 1 = C THEN "SENDLEN0" ELSE "SEND00"
          /\ C_cnt' = C_cnt + 1
      BY <1>1, <2>2, <3>2 DEF ShaEdge, PrepEdge
    <3>4. /\ C_cnt \in Nat /\ Fill(sha_len) \in Nat /\ sha_len \in Nat
          /\ Taken + 1 = sha_len + 1 + C_cnt'
      BY <1>3, <1>4, <3>1, <3>3, Sizes
    <3>5. CASE C_cnt + 1 = Fill(sha_len)
      <4>1. pstate' = "SENDLEN0" /\ Taken + 1 = Total(sha_len) - 2
        BY <1>3, <3>3, <3>4, <3>5 DEF Total
      <4>. QED
        BY <4>1
    <3>6. CASE C_cnt + 1 # Fill(sha_len)
      <4>1. pstate' = "SEND00" /\ C_cnt' < Fill(sha_len)
        BY <1>3, <3>1, <3>3, <3>4, <3>6
      <4>. QED
        BY <3>4, <4>1
    <3>. QED
      BY <3>5, <3>6
  <2>3. CASE pstate = "SENDLEN0"
    <3>1. pstate' = "SENDLEN1"
      BY <1>1, <2>3 DEF ShaEdge, PrepEdge
    <3>. QED
      BY <1>3, <1>4, <1>5, <2>3, <3>1, Sizes DEF Pads, Total
  <2>4. CASE pstate = "SENDLEN1"
    <3>1. pstate' = "IDLE"
      BY <1>1, <2>4 DEF ShaEdge, PrepEdge
    <3>. QED
      BY <1>3, <1>4, <1>5, <2>4, <3>1, Sizes DEF Pads, Total
  <2>. QED
    BY <1>3, <2>1, <2>2, <2>3, <2>4
<1>12. pstate' = "IDLE" => sstate' = "WORK"
  BY <1>1, <1>3, <1>6 DEF ShaEdge, PrepEdge
<1>13. sstate' \in {"PAD", "WORK"} /\ (sstate' = "WORK" => word_count' = Blk)
  BY <1>4, <1>6, Sizes
<1>. QED
  BY <1>6, <1>7, <1>8, <1>9, <1>10, <1>11, <1>12, <1>13 DEF Pads

\* Padding goes on until the interrupt.
LEMMA PaddingStep ==
    ASSUME Always, state \in Active, Padding, ~intr, ShaEdge, UNCHANGED <<attempt, sha_len>>,
           ~port'.wen
    PROVE  Padding'
<1>1. ~port.wen /\ msg_length = sha_len /\ (Pads \/ Ends)
  BY DEF Padding
<1>2. ~PrepStart /\ msg_length' = msg_length
  BY <1>1 DEF PrepStart, ShaEdge
<1>3. CASE Pads /\ sstate = "PAD"
  BY <1>1, <1>2, <1>3, EnginePads DEF Padding
<1>4. CASE Pads /\ sstate = "RECV"
  <2>1. ~SchedWr /\ MuxSel /\ word_count \in 0 .. Blk - 1 /\ word_count # Blk
    BY <1>1, <1>4, Sizes DEF SchedWr, MuxSel, Pads, Always, Engine
  <2>2. ShaRecv
    BY <1>4 DEF ShaEdge, ShaIdle, ShaPad, ShaWork, ShaAccum, ShaDone
  <2>3. sstate' = "PAD" /\ UNCHANGED <<word_count, is_last_block, digest, intr>>
    BY <2>1, <2>2 DEF ShaRecv
  <2>4. UNCHANGED <<sched, C_cnt, pstate>>
    BY <1>2, <1>4, <2>1 DEF ShaEdge, SchedEdge, PrepEdge, Pads
  <2>5. Pads'
    BY <1>4, <2>3, <2>4 DEF Pads, Holds, Taken
  <2>. QED
    BY <1>1, <1>2, <2>3, <2>5 DEF Padding
<1>5. CASE Pads /\ sstate = "WORK"
  <2>1. /\ UNCHANGED <<word_count, sched, digest, is_last_block, intr, pstate, C_cnt>>
        /\ sstate' \in {"WORK", "ACCUM"}
    BY <1>1, <1>5, EngineWorks
  <2>2. Pads'
    BY <1>5, <2>1 DEF Pads, Holds, Taken
  <2>. QED
    BY <1>1, <1>2, <2>1, <2>2 DEF Padding
<1>6. CASE Pads /\ sstate = "ACCUM"
  <2>1. Holds /\ word_count = Blk
    BY <1>6 DEF Pads
  <2>2. /\ UNCHANGED <<is_last_block, intr, pstate, C_cnt>> /\ word_count' = 0
        /\ Len(digest) \in Nat /\ Len(digest') * Blk = Len(digest) * Blk + Blk
        /\ Hashes(attempt, sha_len, digest') /\ InBlock(attempt, sha_len, digest', sched', 0)
        /\ sstate' = IF is_last_block THEN "DONE" ELSE IF pstate # "IDLE" THEN "PAD" ELSE "RECV"
    BY <1>1, <1>6, <2>1, EngineAccumulates
  <2>3. Len(digest) * Blk \in Nat
    BY <2>2, Multiples
  <2>4. Len(digest') * Blk = Taken /\ Taken' = Taken
    BY <2>1, <2>2, <2>3, Sizes DEF Taken
  <2>5. is_last_block = (pstate = "IDLE")
    BY <1>6 DEF Pads
  <2>6. CASE pstate = "IDLE"
    <3>1. sstate' = "DONE" /\ Taken = Total(sha_len)
      BY <1>6, <2>2, <2>5, <2>6 DEF Pads
    <3>2. Ends'
      BY <2>2, <2>4, <2>6, <3>1 DEF Ends, HashesAll
    <3>. QED
      BY <1>1, <1>2, <3>2 DEF Padding
  <2>7. CASE pstate # "IDLE"
    <3>1. sstate' = "PAD"
      BY <2>2, <2>5, <2>7
    <3>2. Holds'
      BY <2>2 DEF Holds
    <3>3. Pads'
      BY <1>6, <2>2, <2>4, <2>7, <3>1, <3>2 DEF Pads
    <3>. QED
      BY <1>1, <1>2, <2>2, <3>3 DEF Padding
  <2>. QED
    BY <2>6, <2>7
<1>7. CASE Ends
  <2>1. sstate = "DONE" /\ ~SchedWr
    BY <1>1, <1>7 DEF Ends, SchedWr
  <2>2. ShaDone
    BY <2>1 DEF ShaEdge, ShaIdle, ShaRecv, ShaPad, ShaWork, ShaAccum
  <2>3. pstate' = "IDLE"
    BY <1>2, <1>7, <2>1 DEF ShaEdge, PrepEdge, Ends
  <2>4. Ends'
    BY <1>7, <2>2, <2>3 DEF Ends, ShaDone
  <2>. QED
    BY <1>1, <1>2, <2>4 DEF Padding
<1>. QED
  BY <1>1, <1>3, <1>4, <1>5, <1>6, <1>7 DEF Pads

\* An engine that has finished keeps its digest.
LEMMA EngineKeeps ==
    ASSUME Always, sstate = "IDLE", ~port.wen, ShaEdge
    PROVE  sstate' = "IDLE" /\ digest' = digest
<1>1. ~PrepStart
  BY DEF PrepStart
<1>2. ShaIdle
  BY DEF ShaEdge, ShaRecv, ShaPad, ShaWork, ShaAccum, ShaDone
<1>. QED
  BY <1>1, <1>2 DEF ShaIdle
-------------------------------------------------------------------------------
(* An attempt that goes on *)

\* Firmware neither starts nor aborts: what every such cycle has in common.
LEMMA Ongoing ==
    ASSUME IInv, Running, NEW w \in Writes, w \notin {"start", "abort"}, NEW n \in Nat,
           NEW sv \in BOOLEAN, NEW finish \in BOOLEAN, Cycle(w, n, sv, finish)
    PROVE  /\ Always /\ InStep /\ Handshake /\ Operands
           /\ FsmEdge(w, sv) /\ CsrEdge(w, n) /\ EdEdge(w, finish) /\ ShaEdge
           /\ state \in Active /\ sha_len \in Nat /\ sha_len >= 2 * KeyWords
           /\ UNCHANGED <<attempt, sha_len, r_reg, s_reg>>
           /\ w = "data" => state = "WAIT_DATA" /\ ~data_pending
           /\ fcount' = IF w = "data" THEN fcount + 1 ELSE fcount
           /\ data_in' = IF w = "data" THEN Word("M", fcount) ELSE data_in
           /\ data_pending' = (w = "data" \/ (data_pending /\ state # "WAIT_DATA"))
<1>1. /\ Always /\ InStep /\ Handshake /\ Operands
      /\ Firmware(w, n) /\ FsmEdge(w, sv) /\ CsrEdge(w, n) /\ EdEdge(w, finish) /\ ShaEdge
  BY DEF IInv, Attempt, Cycle
<1>2. Pointers /\ Driver /\ fpc \in {"POLL", "WRITE", "FINISH"}
  BY <1>1 DEF Always, Running
<1>3. state \in Active /\ sha_len \in Nat /\ sha_len >= 2 * KeyWords
  BY <1>2, ActiveFacts
<1>4. w \in {"none", "read", "data"} /\ attempt' = attempt
  BY <1>1, <1>2, FirmwareCases DEF Writes
<1>5. r_reg' = r_reg /\ s_reg' = s_reg
  BY <1>1, <1>4 DEF CsrEdge
<1>6. sha_len' = sha_len
  BY <1>1, <1>3, FsmCases DEF Active, States, StShaCfgLen, StShaCfgCtrl, StPoll, StFeedR,
     StOtpReq, StOtpLatch, StWaitData, StWaitIntr, StReadHash, StMove, StWait
<1>7. w = "data" => fpc = "WRITE" /\ state = "WAIT_DATA" /\ ~data_pending
  BY <1>1, <1>2, FirmwareCases DEF Driver
<1>8. fcount' = IF w = "data" THEN fcount + 1 ELSE fcount
  BY <1>1, <1>4 DEF Firmware, fw
<1>9. /\ data_in' = IF w = "data" THEN Word("M", fcount) ELSE data_in
      /\ data_pending' = (w = "data" \/ (data_pending /\ state # "WAIT_DATA"))
  BY <1>1 DEF CsrEdge
<1>. QED
  BY <1>1, <1>3, <1>4, <1>5, <1>6, <1>7, <1>8, <1>9

\* No word is lost or written twice between firmware and the orchestrator.
LEMMA HandshakeStep ==
    ASSUME IInv, Running, NEW w \in Writes, w \notin {"start", "abort"}, NEW n \in Nat,
           NEW sv \in BOOLEAN, NEW finish \in BOOLEAN, Cycle(w, n, sv, finish)
    PROVE  Handshake'
<1>. USE Sizes
<1>1. /\ FsmEdge(w, sv) /\ state \in Active /\ Handshake /\ attempt' = attempt /\ sha_len' = sha_len
      /\ w = "data" => state = "WAIT_DATA" /\ ~data_pending
      /\ fcount' = IF w = "data" THEN fcount + 1 ELSE fcount
      /\ data_in' = IF w = "data" THEN Word("M", fcount) ELSE data_in
      /\ data_pending' = (w = "data" \/ (data_pending /\ state # "WAIT_DATA"))
  BY Ongoing
<1>2. /\ Pointers /\ fcount \in Nat /\ sha_fed \in Nat /\ idx \in 0 .. KeyWords - 1
      /\ data_pending \in BOOLEAN
  BY DEF IInv, Always, Driver, Pointers, Units
<1>3. CASE state \in {"SHA_CFG_LEN", "SHA_CFG_CTRL", "SHA_POLL", "FEED_R", "OTP_REQ"}
  <2>1. ~data_pending /\ fcount = 2 * KeyWords /\ w # "data"
    BY <1>1, <1>3 DEF Handshake, Starting, FeedsKey
  <2>2. state' \in Starting \cup FeedsKey
    BY <1>1, <1>3, FsmCases DEF StShaCfgLen, StShaCfgCtrl, StPoll, StFeedR, StOtpReq,
       Starting, FeedsKey
  <2>. QED
    BY <1>1, <2>1, <2>2 DEF Handshake, Starting, FeedsKey
<1>4. CASE state = "OTP_LATCH"
  <2>1. ~data_pending /\ fcount = 2 * KeyWords /\ w # "data"
    BY <1>1, <1>4 DEF Handshake, Starting, FeedsKey
  <2>2. StOtpLatch /\ sha_fed = KeyWords + idx
    BY <1>1, <1>2, <1>4, FsmCases DEF Pointers
  <2>3. ~data_pending' /\ fcount' = 2 * KeyWords
    BY <1>1, <2>1
  <2>4. CASE idx = KeyWords - 1
    <3>1. /\ sha_fed' = 2 * KeyWords
          /\ state' = IF sha_fed + 1 = sha_len THEN "WAIT_INTR" ELSE "WAIT_DATA"
      BY <2>2, <2>4 DEF StOtpLatch, Feed
    <3>. QED
      BY <1>1, <1>2, <2>2, <2>3, <2>4, <3>1 DEF Handshake, Starting, FeedsKey
  <2>5. CASE idx # KeyWords - 1
    <3>1. state' = "OTP_REQ"
      BY <2>2, <2>5 DEF StOtpLatch
    <3>. QED
      BY <2>3, <3>1 DEF Handshake, Starting, FeedsKey
  <2>. QED
    BY <2>4, <2>5
<1>5. CASE state = "WAIT_DATA"
  <2>1. StWaitData /\ fcount = sha_fed + (IF data_pending THEN 1 ELSE 0)
    BY <1>1, <1>5, FsmCases DEF Handshake, Starting, FeedsKey
  <2>2. CASE data_pending
    <3>1. /\ ~data_pending' /\ fcount' = sha_fed + 1 /\ sha_fed' = sha_fed + 1
          /\ state' = IF sha_fed + 1 = sha_len THEN "WAIT_INTR"
                      ELSE IF blk_ptr = Blk - 1 THEN "BLK_POLL" ELSE "WAIT_DATA"
      BY <1>1, <1>5, <2>1, <2>2 DEF StWaitData, Feed
    <3>. QED
      BY <1>1, <1>2, <3>1 DEF Handshake, Starting, FeedsKey
  <2>3. CASE ~data_pending
    <3>1. fcount = sha_fed /\ sha_fed' = sha_fed /\ state' = "WAIT_DATA" /\ data_pending' = (w = "data")
      BY <1>1, <1>2, <1>5, <2>1, <2>3 DEF StWaitData
    <3>2. data_pending' => data_in' = Word("M", sha_fed)'
      BY <1>1, <3>1 DEF Word
    <3>3. fcount' = sha_fed' + (IF data_pending' THEN 1 ELSE 0)
      <4>1. CASE w = "data"
        BY <1>1, <3>1, <4>1
      <4>2. CASE w # "data"
        <5>1. fcount' = fcount /\ fcount' = sha_fed' /\ fcount' = fcount' + 0
          BY <1>1, <1>2, <3>1, <4>2
        <5>2. ~data_pending'
          BY <3>1, <4>2, Zenon
        <5>3. (IF data_pending' THEN 1 ELSE 0) = 0
          BY <5>2, Zenon
        <5>. QED
          BY <5>1, <5>3
      <4>. QED
        BY <4>1, <4>2
    <3>. QED
      BY <3>1, <3>2, <3>3 DEF Handshake, Starting, FeedsKey
  <2>. QED
    BY <2>2, <2>3
<1>6. CASE state = "BLK_POLL"
  <2>1. state' \in {"BLK_POLL", "WAIT_DATA"} /\ sha_fed' = sha_fed
    BY <1>1, <1>6, FsmCases DEF StPoll
  <2>2. data_pending' = data_pending /\ data_in' = data_in /\ fcount' = fcount
    BY <1>1, <1>2, <1>6
  <2>3. /\ data_pending => data_in = Word("M", sha_fed)
        /\ fcount = sha_fed + (IF data_pending THEN 1 ELSE 0)
    BY <1>1, <1>6 DEF Handshake, Starting, FeedsKey
  <2>4. data_pending' => data_in' = Word("M", sha_fed)'
    BY <1>1, <2>1, <2>2, <2>3 DEF Word
  <2>. QED
    BY <2>1, <2>2, <2>3, <2>4 DEF Handshake, Starting, FeedsKey
<1>7. CASE state \in {"WAIT_INTR", "READ_HASH", "LOAD_REGS", "WAIT_START",
                     "ED_START", "ED_WAIT", "DONE"}
  <2>1. ~data_pending /\ sha_fed = sha_len /\ fcount = sha_len /\ w # "data"
    BY <1>1, <1>2, <1>7 DEF Handshake, Starting, FeedsKey
  <2>2. /\ state' \in {"WAIT_INTR", "READ_HASH", "LOAD_REGS", "WAIT_START",
                       "ED_START", "ED_WAIT", "DONE"}
        /\ sha_fed' = sha_fed
    BY <1>1, <1>7, FsmCases DEF StWaitIntr, StReadHash, StMove, StWait
  <2>. QED
    BY <1>1, <1>2, <2>1, <2>2 DEF Handshake, Starting, FeedsKey
<1>. QED
  BY <1>1, <1>3, <1>4, <1>5, <1>6, <1>7 DEF Active, States

\* The operands that the Ed25519 unit works on are those of the attempt.
LEMMA OperandsStep ==
    ASSUME IInv, Running, NEW w \in Writes, w \notin {"start", "abort"}, NEW n \in Nat,
           NEW sv \in BOOLEAN, NEW finish \in BOOLEAN, Cycle(w, n, sv, finish)
    PROVE  Operands'
<1>. USE Sizes
<1>1. /\ FsmEdge(w, sv) /\ EdEdge(w, finish) /\ state \in Active /\ Operands /\ InStep
      /\ UNCHANGED <<attempt, sha_len, r_reg, s_reg>>
  BY Ongoing
<1>2. idx \in 0 .. KeyWords - 1 /\ pubkey \in Keys
  BY DEF IInv, Always, Pointers, Units
<1>3. /\ boot_q' = (boot_q /\ ~ed_done) /\ ed_start' = (w # "abort" /\ state = "ED_START")
  BY <1>1 DEF FsmEdge
<1>. DEFINE Early == {"SHA_CFG_LEN", "SHA_CFG_CTRL", "SHA_POLL", "FEED_R", "OTP_REQ", "OTP_LATCH",
                      "WAIT_DATA", "BLK_POLL", "WAIT_INTR", "READ_HASH", "LOAD_REGS", "WAIT_START"}
\* The unit stays idle until it is started.
<1>4. ASSUME state \in Early PROVE estate' = "IDLE" /\ boot_q' /\ ~ed_start' /\ boot_q /\ estate = "IDLE"
  <2>1. estate = "IDLE" /\ boot_q /\ ~ed_start
    BY <1>1, <1>4 DEF Operands
  <2>2. estate' = "IDLE"
    BY <1>1, <2>1 DEF EdEdge
  <2>3. boot_q' /\ ~ed_start'
    BY <1>3, <1>4, <2>1 DEF ed_done
  <2>. QED
    BY <2>1, <2>2, <2>3
<1>5. CASE state \in {"SHA_CFG_LEN", "SHA_CFG_CTRL", "SHA_POLL"}
  <2>1. state' \in {"SHA_CFG_LEN", "SHA_CFG_CTRL", "SHA_POLL", "FEED_R"}
    BY <1>1, <1>5, FsmCases DEF StShaCfgLen, StShaCfgCtrl, StPoll
  <2>. QED
    BY <1>4, <1>5, <2>1 DEF Operands, Hashed, Starting, FeedsKey
<1>6. CASE state \in {"FEED_R", "OTP_REQ"}
  <2>1. /\ state' \in {"FEED_R", "OTP_REQ", "OTP_LATCH"} /\ pubkey' = pubkey
        /\ state' \in {"OTP_REQ", "OTP_LATCH"} => idx' = IF state = "FEED_R" THEN 0 ELSE idx
    BY <1>1, <1>2, <1>6, FsmCases DEF StFeedR, StOtpReq
  <2>2. Shifted("key", 0, pubkey, 0)
    BY DEF Shifted
  <2>3. state = "OTP_REQ" => Shifted("key", 0, pubkey, idx)
    BY <1>1 DEF Operands
  <2>4. state' \in {"OTP_REQ", "OTP_LATCH"} => Shifted("key", 0, pubkey', idx')
    BY <1>6, <2>1, <2>2, <2>3
  <2>. QED
    BY <1>4, <1>6, <2>1, <2>4 DEF Operands, Hashed, Starting, FeedsKey
<1>7. CASE state = "OTP_LATCH"
  <2>1. StOtpLatch /\ Shifted("key", 0, pubkey, idx)
    BY <1>1, <1>7, FsmCases DEF Operands
  <2>2. OtpData = <<"key", 0, idx>> /\ OtpData \in Tokens
    BY <1>2, <1>4, <1>7, TokenFacts DEF OtpData, ed_done, KeyWord
  <2>3. Shifted("key", 0, pubkey', idx + 1)
    BY <1>2, <2>1, <2>2, ShiftIn DEF StOtpLatch
  <2>4. CASE idx = KeyWords - 1
    <3>1. state' \in {"WAIT_INTR", "WAIT_DATA"} /\ idx + 1 = KeyWords
      BY <2>1, <2>4 DEF StOtpLatch
    <3>. QED
      BY <1>4, <1>7, <2>3, <3>1 DEF Operands, Hashed, Starting, FeedsKey
  <2>5. CASE idx # KeyWords - 1
    <3>1. state' = "OTP_REQ" /\ idx' = idx + 1
      BY <2>1, <2>5 DEF StOtpLatch
    <3>. QED
      BY <1>4, <1>7, <2>3, <3>1 DEF Operands, Hashed, Starting, FeedsKey
  <2>. QED
    BY <2>4, <2>5
<1>8. CASE state \in {"WAIT_DATA", "BLK_POLL", "WAIT_INTR"}
  <2>1. state' \in {"WAIT_DATA", "BLK_POLL", "WAIT_INTR", "READ_HASH"} /\ pubkey' = pubkey
    BY <1>1, <1>8, FsmCases DEF StWaitData, StPoll, StWaitIntr
  <2>2. Shifted("key", 0, pubkey', KeyWords)
    BY <1>1, <1>8, <2>1 DEF Operands, Starting, FeedsKey
  <2>. QED
    BY <1>4, <1>8, <2>1, <2>2 DEF Operands, Hashed, Starting, FeedsKey
<1>9. CASE state = "READ_HASH"
  <2>1. state' = "LOAD_REGS" /\ pubkey' = pubkey /\ hash' = digest
    BY <1>1, <1>9, FsmCases DEF StReadHash
  <2>2. Shifted("key", 0, pubkey', KeyWords)
    BY <1>1, <1>9, <2>1 DEF Operands, Starting, FeedsKey
  <2>3. HashesAll(attempt', sha_len', hash')
    BY <1>1, <1>9, <2>1 DEF InStep
  <2>. QED
    BY <1>4, <1>9, <2>1, <2>2, <2>3 DEF Operands, Hashed, Starting, FeedsKey
<1>10. CASE state \in {"LOAD_REGS", "WAIT_START", "ED_START", "ED_WAIT", "DONE"}
  <2>1. /\ state' \in {"WAIT_START", "ED_START", "ED_WAIT", "DONE"}
        /\ state' \notin {"ED_WAIT", "DONE"} => state \in Early
        /\ UNCHANGED <<pubkey, hash>>
    BY <1>1, <1>10, FsmCases DEF StMove, StWait
  <2>2. /\ Shifted("key", 0, pubkey, KeyWords) /\ HashesAll(attempt, sha_len, hash)
        /\ state # "LOAD_REGS" => ed_regs = <<s_reg, r_reg, pubkey, hash>>
    BY <1>1, <1>10 DEF Operands, Hashed, Starting, FeedsKey
  <2>3. ed_regs' = <<s_reg, r_reg, pubkey, hash>>
    <3>1. CASE state = "LOAD_REGS"
      BY <1>1, <1>4, <3>1 DEF EdEdge
    <3>2. CASE state # "LOAD_REGS"
      BY <1>1, <2>2, <3>2 DEF EdEdge
    <3>. QED
      BY <3>1, <3>2
  <2>4. /\ Shifted("key", 0, pubkey', KeyWords) /\ HashesAll(attempt', sha_len', hash')
        /\ ed_regs' = <<s_reg', r_reg', pubkey', hash'>>
    BY <1>1, <2>1, <2>2, <2>3
  <2>5. state' \notin {"ED_WAIT", "DONE"} => estate' = "IDLE" /\ boot_q' /\ ~ed_start'
    BY <1>4, <2>1
  <2>. QED
    BY <2>1, <2>4, <2>5 DEF Operands, Hashed, Starting, FeedsKey
<1>. QED
  BY <1>1, <1>5, <1>6, <1>7, <1>8, <1>9, <1>10 DEF Active, States

\* A cycle in which the engine receives: it takes the word that is on the
\* port, if there is one, and then has every word that was fed.
LEMMA EngineReceives ==
    ASSUME Always, state \in Active, Fed, sstate = "RECV", ShaEdge, UNCHANGED <<attempt, sha_len>>
    PROVE  /\ Holds' /\ msg_length' = sha_len /\ C_cnt' = 0 /\ ~is_last_block' /\ ~intr'
           /\ N_cnt' = sha_fed /\ Taken' = sha_fed /\ word_count' = word_count + OnPort
           /\ sstate' = (IF port.wen /\ word_count = Blk - 1 THEN "WORK" ELSE "RECV")
           /\ pstate' = (IF port.wen /\ sha_fed = sha_len THEN "SEND80" ELSE "IDLE")
<1>1. /\ pstate = "IDLE" /\ ~is_last_block /\ ~intr /\ msg_length = sha_len /\ C_cnt = 0
      /\ Holds /\ N_cnt = Taken /\ sha_fed = Taken + OnPort
  BY DEF Fed
<1>2. /\ word_count \in Nat /\ Len(digest) \in Nat /\ Len(digest) * Blk \in Nat
  <2>1. digest \in Seq([Slots -> Tokens]) /\ word_count \in 0 .. Blk
    BY DEF Always, Engine
  <2>2. Len(digest) \in Nat
    BY <2>1, LenProperties
  <2>. QED
    BY <2>1, <2>2, Multiples, Sizes
<1>3. CASE ~port.wen
  <2>1. UNCHANGED <<sstate, word_count, sched, digest, is_last_block, intr, msg_length,
                    pstate, N_cnt, C_cnt>>
    BY <1>3, EngineHolds
  <2>2. OnPort = 0
    BY <1>3 DEF OnPort
  <2>3. Taken' = Taken /\ Taken = sha_fed /\ word_count' = word_count + OnPort
    BY <1>1, <1>2, <2>1, <2>2 DEF Taken
  <2>4. Holds'
    BY <1>1, <2>1 DEF Holds
  <2>. QED
    BY <1>1, <1>3, <2>1, <2>3, <2>4
<1>4. CASE port.wen
  <2>1. /\ word_count' = word_count + 1 /\ N_cnt' = N_cnt + 1
        /\ UNCHANGED <<digest, is_last_block, intr, msg_length, C_cnt>>
        /\ sstate' = (IF word_count = Blk - 1 THEN "WORK" ELSE "RECV")
        /\ pstate' = (IF N_cnt + 1 = msg_length THEN "SEND80" ELSE "IDLE")
        /\ Hashes(attempt, sha_len, digest')
        /\ InBlock(attempt, sha_len, digest', sched', word_count')
    BY <1>4, EngineTakes
  <2>2. OnPort = 1
    BY <1>4 DEF OnPort
  <2>3. Taken' = Taken + 1 /\ N_cnt + 1 = sha_fed /\ Taken' = sha_fed
    BY <1>1, <1>2, <2>1, <2>2 DEF Taken
  <2>4. Holds'
    BY <2>1 DEF Holds
  <2>. QED
    BY <1>1, <1>4, <2>1, <2>2, <2>3, <2>4
<1>. QED
  BY <1>3, <1>4

\* After such a cycle the orchestrator either feeds the next word or none.
LEMMA FedStep ==
    ASSUME Always, state \in Active, Fed, sstate = "RECV", ShaEdge, UNCHANGED <<attempt, sha_len>>,
           ~(port.wen /\ sha_fed = sha_len), sha_fed \in Nat
    PROVE  /\ ~port'.wen /\ sha_fed' = sha_fed => Fed' /\ OnPort' = 0
           /\ /\ port' = Port("word", word_count + OnPort, TRUE, Tok(attempt, sha_len, sha_fed))
              /\ sha_fed' = sha_fed + 1
              => Fed' /\ port'.wen /\ OnPort' = 1
<1>1. /\ Holds' /\ msg_length' = sha_len /\ C_cnt' = 0 /\ ~is_last_block' /\ ~intr'
      /\ N_cnt' = sha_fed /\ Taken' = sha_fed /\ word_count' = word_count + OnPort
      /\ pstate' = "IDLE"
  BY EngineReceives
<1>2. ASSUME ~port'.wen, sha_fed' = sha_fed PROVE Fed' /\ OnPort' = 0
  <2>1. OnPort' = 0
    BY <1>2 DEF OnPort
  <2>. QED
    BY <1>1, <1>2, <2>1 DEF Fed
<1>. DEFINE x == Tok(attempt, sha_len, sha_fed)
<1>3. ASSUME port' = Port("word", word_count + OnPort, TRUE, x), sha_fed' = sha_fed + 1
      PROVE  Fed' /\ port'.wen /\ OnPort' = 1
  <2>1. /\ port'.wen /\ port'.kind = "word" /\ port'.slot = word_count' /\ port'.data = x
    BY <1>1, <1>3 DEF Port
  <2>2. OnPort' = 1
    BY <2>1 DEF OnPort
  <2>3. x = Tok(attempt', sha_len', Taken')
    BY <1>1, <1>3
  <2>. QED
    BY <1>1, <1>3, <2>1, <2>2, <2>3 DEF Fed
<1>. QED
  BY <1>2, <1>3

\* A feeding cycle: the word that goes onto the port is the next of the
\* message, for the slot the engine fills next.
LEMMA FeedStep ==
    ASSUME Always, state \in Active, InStep, ShaEdge, UNCHANGED <<attempt, sha_len>>,
           state \in FeedsKey \cup {"WAIT_DATA"}, sha_fed < sha_len
    PROVE  /\ sstate' = "RECV" /\ word_count' = blk_ptr
           /\ ~port'.wen /\ sha_fed' = sha_fed => Fed' /\ OnPort' = 0
           /\ /\ port' = Port("word", blk_ptr, TRUE, Tok(attempt, sha_len, sha_fed))
              /\ sha_fed' = sha_fed + 1
              => Fed' /\ port'.wen /\ OnPort' = 1
<1>1. sstate = "RECV" /\ Fed /\ blk_ptr = word_count + OnPort
  BY DEF InStep
<1>2. blk_ptr \in Slots /\ sha_fed \in Nat /\ sha_len \in Nat /\ word_count \in Nat
  BY Sizes DEF Always, Pointers, Engine
<1>3. /\ word_count' = word_count + OnPort
      /\ sstate' = (IF port.wen /\ word_count = Blk - 1 THEN "WORK" ELSE "RECV")
  BY <1>1, EngineReceives
<1>4. sstate' = "RECV"
  BY <1>1, <1>2, <1>3, Sizes DEF OnPort
<1>5. ~(port.wen /\ sha_fed = sha_len)
  BY <1>2
<1>. QED
  BY <1>1, <1>2, <1>3, <1>4, <1>5, FedStep

\* Orchestrator and engine stay in step.
LEMMA InStepStep ==
    ASSUME IInv, Running, NEW w \in Writes, w \notin {"start", "abort"}, NEW n \in Nat,
           NEW sv \in BOOLEAN, NEW finish \in BOOLEAN, Cycle(w, n, sv, finish)
    PROVE  InStep'
<1>. USE Sizes
<1>1. /\ Always /\ FsmEdge(w, sv) /\ ShaEdge /\ state \in Active /\ InStep /\ Handshake /\ Operands
      /\ UNCHANGED <<attempt, sha_len>> /\ sha_len \in Nat /\ sha_len >= 2 * KeyWords
  BY Ongoing
<1>2. /\ idx \in 0 .. KeyWords - 1 /\ Pointers /\ sha_fed \in Nat /\ blk_ptr \in Slots
      /\ msg_length \in Nat
  BY <1>1 DEF Always, Pointers, Engine
<1>3. ASSUME Quiet PROVE ~port'.wen
  <2>1. port = Port(port.kind, port.slot, port.wen, port.data)
    BY <1>1 DEF Always, PortType
  <2>2. port' = Port(port.kind, port.slot, FALSE, port.data)
    BY <1>3, <2>1 DEF Quiet, Port
  <2>. QED
    BY <2>2 DEF Port
<1>4. CASE state = "SHA_CFG_LEN"
  <2>1. EngineAtRest /\ ~port.wen /\ StShaCfgLen
    BY <1>1, <1>4, FsmCases DEF InStep
  <2>2. EngineAtRest'
    BY <1>1, <2>1, EngineRests DEF PrepStart
  <2>3. state' = "SHA_CFG_CTRL" /\ port' = Port("len", 0, TRUE, Length(sha_len'))
    BY <1>1, <2>1 DEF StShaCfgLen, Length
  <2>. QED
    BY <2>2, <2>3 DEF InStep, FeedsKey, Hashed, Length
<1>5. CASE state = "SHA_CFG_CTRL"
  <2>1. EngineAtRest /\ port = Port("len", 0, TRUE, Length(sha_len)) /\ StShaCfgCtrl
    BY <1>1, <1>5, FsmCases DEF InStep
  <2>2. port.wen /\ port.kind = "len" /\ port.data[2] = sha_len
    BY <1>1, <2>1, TokenFacts DEF Port
  <2>3. EngineAtRest'
    BY <1>1, <2>1, <2>2, EngineRests DEF PrepStart
  <2>4. msg_length' = sha_len'
    BY <1>1, <2>2 DEF ShaEdge
  <2>5. state' = "SHA_POLL" /\ port' = Port("ctrl", 0, TRUE, Zero)
    BY <2>1 DEF StShaCfgCtrl
  <2>. QED
    BY <2>3, <2>4, <2>5 DEF InStep, FeedsKey, Hashed, Zero
<1>6. CASE state = "SHA_POLL"
  <2>1. /\ sha_fed' = 0 /\ sha_fed = 0 /\ blk_ptr' = 0 /\ port' = Port("status", 0, FALSE, Zero)
        /\ state' = IF port.kind = "status" /\ Ready THEN "FEED_R" ELSE "SHA_POLL"
    BY <1>1, <1>2, <1>6, FsmCases DEF StPoll, Pointers
  <2>2. ~port'.wen
    BY <2>1 DEF Port
  <2>3. CASE EngineAtRest /\ port = Port("ctrl", 0, TRUE, Zero) /\ msg_length = sha_len
    <3>1. PrepStart /\ port.kind = "ctrl"
      BY <2>3 DEF PrepStart, Port
    <3>2. /\ sstate' = "RECV" /\ pstate' = "IDLE" /\ digest' = <<>> /\ word_count' = 0
          /\ ~is_last_block' /\ ~intr' /\ N_cnt' = 0 /\ C_cnt' = 0 /\ msg_length' = msg_length
      BY <1>1, <1>2, <2>3, <3>1, EngineStarts
    <3>3. Len(digest') = 0 /\ Taken' = 0
      BY <3>2 DEF Taken
    <3>4. Holds'
      <4>1. <<>> \in Seq([Slots -> Tokens])
        OBVIOUS
      <4>2. Hashes(attempt', sha_len', digest')
        BY <3>2, <3>3, <4>1 DEF Hashes
      <4>3. InBlock(attempt', sha_len', digest', sched', word_count')
        BY <3>2 DEF InBlock
      <4>. QED
        BY <4>2, <4>3 DEF Holds
    <3>5. OnPort' = 0
      BY <2>2 DEF OnPort
    <3>6. Fed'
      <4>1. msg_length' = sha_len' /\ sha_fed' = Taken' + OnPort' /\ N_cnt' = Taken'
        BY <1>1, <2>1, <2>3, <3>2, <3>3, <3>5
      <4>. QED
        BY <2>2, <3>2, <3>4, <4>1 DEF Fed
    <3>7. state' = "SHA_POLL"
      BY <2>1, <3>1
    <3>. QED
      BY <2>2, <3>2, <3>6, <3>7 DEF InStep, FeedsKey, Hashed
  <2>4. CASE sstate = "RECV" /\ Fed /\ ~port.wen
    <3>1. Fed' /\ OnPort' = 0
      BY <1>1, <1>2, <2>1, <2>2, <2>4, FedStep
    <3>2. sstate' = "RECV" /\ Taken' = 0
      BY <1>1, <2>1, <2>4, EngineReceives
    <3>3. word_count' = 0
      <4>1. digest' \in Seq([Slots -> Tokens]) /\ word_count' \in Nat
        BY <1>1, EngineStep DEF Always, Engine
      <4>2. Len(digest') \in Nat
        BY <4>1, LenProperties
      <4>3. Len(digest') * Blk \in Nat
        BY <4>2, Multiples
      <4>. QED
        BY <3>2, <4>1, <4>3 DEF Taken
    <3>4. state' \in {"SHA_POLL", "FEED_R"} /\ blk_ptr' = word_count' + OnPort'
      BY <2>1, <3>1, <3>3
    <3>. QED
      BY <2>2, <3>1, <3>2, <3>4 DEF InStep, FeedsKey, Hashed
  <2>. QED
    BY <1>1, <1>6, <2>3, <2>4 DEF InStep
<1>7. ASSUME state \in FeedsKey \cup {"WAIT_DATA"}
      PROVE  /\ sha_fed < sha_len /\ sstate' = "RECV" /\ word_count' = blk_ptr
             /\ ~port'.wen /\ sha_fed' = sha_fed => Fed' /\ OnPort' = 0
             /\ /\ port' = Port("word", blk_ptr, TRUE, Tok(attempt, sha_len, sha_fed))
                /\ sha_fed' = sha_fed + 1
                => Fed' /\ port'.wen /\ OnPort' = 1
  <2>1. sha_fed < sha_len
    BY <1>1, <1>2, <1>7 DEF Pointers, FeedsKey
  <2>. QED
    BY <1>1, <1>7, <2>1, FeedStep
<1>8. CASE state = "FEED_R"
  <2>1. StFeedR /\ sha_fed = idx /\ blk_ptr = idx
    BY <1>1, <1>2, <1>8, FsmCases DEF Pointers
  <2>2. r_reg[idx + 1] = Tok(attempt, sha_len, sha_fed)
    <3>1. Shifted("R", attempt, r_reg, KeyWords)
      BY <1>1 DEF Always, Signature, Running
    <3>2. r_reg[KeyWords - KeyWords + (idx + 1)] = <<"R", attempt, (idx + 1) - 1>>
      <4>1. idx + 1 \in 1 .. KeyWords
        BY <1>2
      <4>. QED
        BY <3>1, <4>1 DEF Shifted
    <3>3. r_reg[idx + 1] = <<"R", attempt, idx>>
      <4>1. KeyWords - KeyWords + (idx + 1) = idx + 1 /\ (idx + 1) - 1 = idx
        BY <1>2
      <4>. QED
        BY <3>2, <4>1
    <3>. QED
      BY <1>1, <1>2, <2>1, <3>3, TokValues
  <2>3. /\ port' = Port("word", blk_ptr, TRUE, Tok(attempt, sha_len, sha_fed))
        /\ sha_fed' = sha_fed + 1 /\ blk_ptr' = blk_ptr + 1 /\ state' \in {"OTP_REQ", "FEED_R"}
    BY <2>1, <2>2 DEF StFeedR, Feed
  <2>4. sstate' = "RECV" /\ Fed' /\ blk_ptr' = word_count' + OnPort'
    BY <1>7, <1>8, <2>3 DEF FeedsKey
  <2>. QED
    BY <2>3, <2>4 DEF InStep, FeedsKey, Hashed
<1>9. CASE state = "OTP_REQ"
  <2>1. StOtpReq
    BY <1>1, <1>9, FsmCases
  <2>2. ~port'.wen /\ sha_fed' = sha_fed /\ blk_ptr' = blk_ptr /\ state' = "OTP_LATCH"
    BY <1>3, <2>1 DEF StOtpReq
  <2>3. sstate' = "RECV" /\ Fed' /\ word_count' = blk_ptr /\ OnPort' = 0
    BY <1>7, <1>9, <2>2 DEF FeedsKey
  <2>4. blk_ptr' = word_count' + OnPort'
    BY <1>2, <2>2, <2>3
  <2>. QED
    BY <2>2, <2>3, <2>4 DEF InStep, FeedsKey, Hashed
<1>10. CASE state = "OTP_LATCH"
  <2>1. StOtpLatch /\ sha_fed = KeyWords + idx /\ blk_ptr = sha_fed
    BY <1>1, <1>2, <1>10, FsmCases DEF Pointers
  <2>2. OtpData = Tok(attempt, sha_len, sha_fed)
    <3>1. OtpData = KeyWord(idx)
      BY <1>1, <1>10 DEF OtpData, ed_done, Operands
    <3>2. Tok(attempt, sha_len, sha_fed) = KeyWord(sha_fed - KeyWords) /\ sha_fed - KeyWords = idx
      BY <1>1, <1>2, <2>1, TokValues
    <3>. QED
      BY <3>1, <3>2
  <2>3. /\ port' = Port("word", blk_ptr, TRUE, Tok(attempt, sha_len, sha_fed))
        /\ sha_fed' = sha_fed + 1 /\ blk_ptr' = blk_ptr + 1
        /\ state' \in {"OTP_REQ", "WAIT_INTR", "WAIT_DATA"}
        /\ state' = "WAIT_INTR" => sha_fed + 1 = sha_len
    BY <2>1, <2>2 DEF StOtpLatch, Feed
  <2>4. sstate' = "RECV" /\ Fed' /\ port'.wen /\ blk_ptr' = word_count' + OnPort'
    BY <1>7, <1>10, <2>3 DEF FeedsKey
  <2>5. state' = "WAIT_INTR" => sha_fed' = sha_len'
    BY <1>1, <2>3
  <2>. QED
    BY <2>3, <2>4, <2>5 DEF InStep, FeedsKey, Hashed
<1>11. CASE state = "WAIT_DATA"
  <2>1. StWaitData /\ 2 * KeyWords <= sha_fed
    BY <1>1, <1>2, <1>11, FsmCases DEF Pointers
  <2>2. CASE data_pending
    <3>1. data_in = Tok(attempt, sha_len, sha_fed)
      <4>1. data_in = <<"M", attempt, sha_fed>> /\ sha_fed < sha_len
        BY <1>1, <1>7, <1>11, <2>2 DEF Handshake, Word
      <4>. QED
        BY <1>1, <1>2, <2>1, <4>1, TokValues
    <3>2. /\ port' = Port("word", blk_ptr, TRUE, Tok(attempt, sha_len, sha_fed))
          /\ sha_fed' = sha_fed + 1 /\ blk_ptr' = IF blk_ptr = Blk - 1 THEN 0 ELSE blk_ptr + 1
          /\ state' = IF sha_fed + 1 = sha_len THEN "WAIT_INTR"
                      ELSE IF blk_ptr = Blk - 1 THEN "BLK_POLL" ELSE "WAIT_DATA"
      BY <1>2, <2>1, <2>2, <3>1 DEF StWaitData, Feed
    <3>3. sstate' = "RECV" /\ Fed' /\ port'.wen /\ word_count' = blk_ptr /\ OnPort' = 1
      BY <1>7, <1>11, <3>2
    <3>4. CASE sha_fed + 1 = sha_len
      BY <1>1, <3>2, <3>3, <3>4 DEF InStep, FeedsKey, Hashed
    <3>5. CASE sha_fed + 1 # sha_len /\ blk_ptr = Blk - 1
      BY <3>2, <3>3, <3>5 DEF InStep, FeedsKey, Hashed
    <3>6. CASE sha_fed + 1 # sha_len /\ blk_ptr # Blk - 1
      BY <3>2, <3>3, <3>6 DEF InStep, FeedsKey, Hashed
    <3>. QED
      BY <3>4, <3>5, <3>6
  <2>3. CASE ~data_pending
    <3>1. ~port'.wen /\ sha_fed' = sha_fed /\ blk_ptr' = blk_ptr /\ state' = "WAIT_DATA"
      BY <1>3, <1>11, <2>1, <2>3 DEF StWaitData
    <3>2. sstate' = "RECV" /\ Fed' /\ word_count' = blk_ptr /\ OnPort' = 0
      BY <1>7, <1>11, <3>1
    <3>3. blk_ptr' = word_count' + OnPort'
      BY <1>2, <3>1, <3>2
    <3>. QED
      BY <3>1, <3>2, <3>3 DEF InStep, FeedsKey, Hashed
  <2>. QED
    BY <2>2, <2>3
<1>12. CASE state = "BLK_POLL"
  <2>1. /\ sha_fed' = sha_fed /\ blk_ptr' = blk_ptr /\ port' = Port("status", 0, FALSE, Zero)
        /\ state' = IF port.kind = "status" /\ Ready THEN "WAIT_DATA" ELSE "BLK_POLL"
        /\ Fed /\ blk_ptr = 0 /\ sha_fed < sha_len
    BY <1>1, <1>2, <1>12, FsmCases DEF StPoll, Pointers, InStep
  <2>2. ~port'.wen
    BY <2>1 DEF Port
  <2>3. OnPort' = 0
    BY <2>2 DEF OnPort
  <2>4. CASE sstate = "RECV" /\ port.wen /\ word_count = Blk - 1
    <3>1. Fed'
      <4>1. ~(port.wen /\ sha_fed = sha_len)
        BY <1>1, <1>2, <2>1
      <4>. QED
        BY <1>1, <1>2, <2>1, <2>2, <2>4, <4>1, FedStep
    <3>2. sstate' = "WORK" /\ word_count' = word_count + OnPort
      BY <1>1, <2>1, <2>4, EngineReceives
    <3>3. word_count' = Blk
      BY <2>4, <3>2 DEF OnPort
    <3>4. state' = "BLK_POLL"
      BY <2>1, <2>4 DEF Fed
    <3>. QED
      BY <2>1, <2>2, <3>1, <3>2, <3>3, <3>4 DEF InStep, FeedsKey, Hashed
  <2>5. CASE sstate = "WORK" /\ ~port.wen /\ word_count = Blk
    <3>1. /\ UNCHANGED <<word_count, sched, digest, is_last_block, intr, msg_length, pstate,
                         N_cnt, C_cnt>>
          /\ sstate' \in {"WORK", "ACCUM"}
      BY <1>1, <2>5, EngineWorks
    <3>2. Holds' /\ Taken' = Taken
      BY <1>1, <2>1, <3>1 DEF Fed, Holds, Taken
    <3>3. OnPort = 0
      BY <2>5 DEF OnPort
    <3>4. Fed'
      BY <1>1, <2>1, <2>2, <2>3, <3>1, <3>2, <3>3 DEF Fed
    <3>5. state' = "BLK_POLL"
      BY <2>1, <2>5 DEF Ready
    <3>. QED
      BY <2>1, <2>2, <2>5, <3>1, <3>4, <3>5 DEF InStep, FeedsKey, Hashed
  <2>6. CASE sstate = "ACCUM" /\ ~port.wen /\ word_count = Blk
    <3>1. Holds /\ pstate = "IDLE" /\ ~is_last_block
      BY <2>1 DEF Fed
    <3>2. /\ UNCHANGED <<is_last_block, intr, msg_length, pstate, N_cnt, C_cnt>>
          /\ word_count' = 0
          /\ Len(digest) \in Nat /\ Len(digest') * Blk = Len(digest) * Blk + Blk
          /\ Hashes(attempt, sha_len, digest') /\ InBlock(attempt, sha_len, digest', sched', 0)
          /\ sstate' = "RECV"
      BY <1>1, <2>6, <3>1, EngineAccumulates
    <3>3. Len(digest) * Blk \in Nat
      BY <3>2, Multiples
    <3>4. Taken' = Taken
      BY <2>6, <3>2, <3>3 DEF Taken
    <3>5. Holds'
      BY <1>1, <3>2 DEF Holds
    <3>6. OnPort = 0
      BY <2>6 DEF OnPort
    <3>7. Fed'
      BY <1>1, <2>1, <2>2, <2>3, <3>2, <3>4, <3>5, <3>6 DEF Fed
    <3>8. state' = "BLK_POLL"
      BY <2>1, <2>6 DEF Ready
    <3>. QED
      BY <2>1, <2>2, <3>2, <3>7, <3>8 DEF InStep, FeedsKey, Hashed
  <2>7. CASE sstate = "RECV" /\ ~port.wen /\ word_count = 0
    <3>1. Fed'
      BY <1>1, <1>2, <2>1, <2>2, <2>7, FedStep
    <3>2. sstate' = "RECV" /\ word_count' = word_count + OnPort
      BY <1>1, <2>1, <2>7, EngineReceives
    <3>3. word_count' = 0
      BY <2>7, <3>2 DEF OnPort
    <3>4. state' \in {"BLK_POLL", "WAIT_DATA"} /\ blk_ptr' = word_count' + OnPort'
      BY <2>1, <2>3, <3>3
    <3>. QED
      BY <2>1, <2>2, <3>1, <3>2, <3>3, <3>4 DEF InStep, FeedsKey, Hashed
  <2>. QED
    BY <1>1, <1>12, <2>4, <2>5, <2>6, <2>7 DEF InStep
<1>13. CASE state = "WAIT_INTR"
  <2>1. StWaitIntr
    BY <1>1, <1>13, FsmCases
  <2>2. state' = (IF intr THEN "READ_HASH" ELSE "WAIT_INTR") /\ ~port'.wen
    BY <1>3, <2>1 DEF StWaitIntr
  <2>3. CASE sstate = "RECV" /\ Fed /\ port.wen /\ sha_fed = sha_len
    <3>1. /\ Holds' /\ msg_length' = sha_len /\ C_cnt' = 0 /\ ~is_last_block' /\ ~intr'
          /\ Taken' = sha_fed /\ word_count' = word_count + OnPort
          /\ sstate' = (IF word_count = Blk - 1 THEN "WORK" ELSE "RECV")
          /\ pstate' = "SEND80"
      BY <1>1, <2>3, EngineReceives
    <3>2. sstate' = "WORK" => word_count' = Blk
      BY <2>3, <3>1 DEF OnPort
    <3>3. is_last_block' \in BOOLEAN
      BY <1>1, EngineStep DEF Always, Engine
    <3>4. is_last_block' = (pstate' = "IDLE")
      BY <3>1, <3>3
    <3>5. Pads'
      BY <1>1, <2>3, <3>1, <3>2, <3>4 DEF Pads
    <3>6. Padding' /\ state' = "WAIT_INTR"
      BY <1>1, <2>2, <2>3, <3>1, <3>5 DEF Padding, Fed
    <3>. QED
      BY <3>6 DEF InStep, FeedsKey, Hashed
  <2>4. CASE Padding /\ ~intr
    <3>1. Padding' /\ state' = "WAIT_INTR"
      BY <1>1, <2>2, <2>4, PaddingStep
    <3>. QED
      BY <3>1 DEF InStep, FeedsKey, Hashed
  <2>5. CASE Padding /\ intr
    <3>1. Ends /\ sstate = "IDLE" /\ ~port.wen
      BY <2>5 DEF Padding, Ends
    <3>2. sstate' = "IDLE" /\ digest' = digest
      BY <1>1, <3>1, EngineKeeps
    <3>3. HashesAll(attempt', sha_len', digest') /\ state' = "READ_HASH"
      BY <1>1, <2>2, <2>5, <3>1, <3>2 DEF Ends
    <3>. QED
      BY <2>2, <3>2, <3>3 DEF InStep, FeedsKey, Hashed
  <2>. QED
    BY <1>1, <1>13, <2>3, <2>4, <2>5 DEF InStep
<1>14. CASE state \in {"READ_HASH", "LOAD_REGS", "WAIT_START", "ED_START", "ED_WAIT", "DONE"}
  <2>1. Quiet /\ state' \in {"LOAD_REGS", "WAIT_START", "ED_START", "ED_WAIT", "DONE"}
    BY <1>1, <1>14, FsmCases DEF StReadHash, StMove, StWait
  <2>2. ~port'.wen
    BY <1>3, <2>1
  <2>. QED
    BY <2>1, <2>2 DEF InStep, FeedsKey, Hashed
<1>. QED
  BY <1>1, <1>4, <1>5, <1>6, <1>8, <1>9, <1>10, <1>11, <1>12, <1>13, <1>14 DEF Active, States

\* An attempt that finds every unit at rest starts as the invariant says.
LEMMA StartStep ==
    ASSUME IInv, NEW n \in Nat, NEW sv \in BOOLEAN, NEW finish \in BOOLEAN,
           Cycle("start", n, sv, finish)
    PROVE  Attempt'
<1>1. /\ Always /\ Firmware("start", n) /\ FsmEdge("start", sv) /\ CsrEdge("start", n)
      /\ EdEdge("start", finish) /\ ShaEdge
  BY DEF IInv, Cycle
<1>2. SUFFICES ASSUME clean' PROVE (InStep /\ Handshake /\ Operands)'
  BY DEF Attempt, Running
<1>3. AtRest /\ fpc = "START" /\ fcount' = fcount
  BY <1>1, <1>2 DEF Firmware
<1>4. fcount = 2 * KeyWords /\ state = "IDLE" /\ PortType
  BY <1>1, <1>3 DEF Always, Driver
<1>5. StIdle(TRUE)
  <2>1. StIdle("start" = "start")
    BY <1>1, <1>4, FsmCases
  <2>2. ("start" = "start") = TRUE
    OBVIOUS
  <2>. QED
    BY <2>1, <2>2
<1>6. state' = "SHA_CFG_LEN" /\ port' = [port EXCEPT !.wen = FALSE]
  BY <1>5 DEF StIdle, Quiet
<1>7. ~port'.wen
  <2>1. port' = Port(port.kind, port.slot, FALSE, port.data)
    BY <1>4, <1>6 DEF PortType, Port
  <2>. QED
    BY <2>1 DEF Port
<1>8. EngineAtRest'
  <2>1. EngineAtRest /\ ~PrepStart
    BY <1>3 DEF AtRest, EngineAtRest, PrepStart
  <2>. QED
    BY <1>1, <2>1, EngineRests
<1>9. InStep'
  BY <1>6, <1>7, <1>8 DEF InStep, FeedsKey, Hashed
<1>10. ~data_pending'
  BY <1>1, <1>3 DEF CsrEdge, AtRest
<1>11. Handshake'
  BY <1>3, <1>4, <1>6, <1>10 DEF Handshake, Starting, FeedsKey
<1>12. estate' = "IDLE" /\ boot_q' /\ ~ed_start'
  <2>1. estate = "IDLE" /\ ~ed_start /\ boot_q
    BY <1>3 DEF AtRest
  <2>2. estate' = "IDLE"
    BY <1>1, <2>1 DEF EdEdge
  <2>3. boot_q' = (boot_q /\ ~ed_done) /\ ed_start' = ("start" # "abort" /\ state = "ED_START")
    BY <1>1 DEF FsmEdge
  <2>. QED
    BY <1>4, <2>1, <2>2, <2>3 DEF ed_done
<1>13. Operands'
  BY <1>6, <1>12 DEF Operands, Starting, FeedsKey, Hashed
<1>. QED
  BY <1>9, <1>11, <1>13

\* Every cycle keeps what holds in an attempt.
LEMMA AttemptStep ==
    ASSUME IInv, NEW w \in Writes, NEW n \in Nat, NEW sv \in BOOLEAN, NEW finish \in BOOLEAN,
           Cycle(w, n, sv, finish)
    PROVE  Attempt'
<1>1. Driver /\ Firmware(w, n)
  BY DEF IInv, Always, Cycle
<1>2. CASE w = "abort"
  BY <1>1, <1>2, FirmwareCases DEF Attempt, Running
<1>3. CASE w = "start"
  BY <1>3, StartStep
<1>4. CASE w \notin {"start", "abort"}
  <2>1. Running' => Running
    BY <1>1, <1>4, FirmwareCases DEF Running
  <2>. QED
    BY <1>4, <2>1, InStepStep, HandshakeStep, OperandsStep DEF Attempt
<1>. QED
  BY <1>2, <1>3, <1>4

\* Nothing of the invariant depends on anything but the variables.
LEMMA SameAttempt ==
    ASSUME Attempt, UNCHANGED vars
    PROVE  Attempt'
<1>1. UNCHANGED <<port, sstate, word_count, round_count, is_last_block, msg_length, sched,
                  digest, intr, pstate, N_cnt, C_cnt>>
  BY DEF vars, sha
<1>2. UNCHANGED <<state, sha_len, sha_fed, blk_ptr, idx, pubkey, hash, start_latch, boot_q, ed_start>>
  BY DEF vars, fsm
<1>3. UNCHANGED <<r_reg, s_reg, data_in, data_pending, estate, ed_regs, fpc, fcount, attempt, clean>>
  BY DEF vars, csrs, ed, fw
<1>4. Running' = Running /\ Hashed' = Hashed
  BY <1>2, <1>3 DEF Running, Hashed
<1>5. Taken' = Taken /\ OnPort' = OnPort /\ Holds' = Holds
  BY <1>1, <1>2, <1>3 DEF Taken, OnPort, Holds
<1>6. /\ Fed' = Fed /\ EngineAtRest' = EngineAtRest
  BY <1>1, <1>2, <1>3, <1>5 DEF Fed, EngineAtRest
<1>7. Pads' = Pads /\ Ends' = Ends
  BY <1>1, <1>2, <1>3, <1>5 DEF Pads, Ends
<1>8. Padding' = Padding
  BY <1>1, <1>2, <1>7 DEF Padding
<1>9. InStep => InStep'
  BY <1>1, <1>2, <1>3, <1>4, <1>5, <1>6, <1>8 DEF InStep
<1>10. Handshake => Handshake'
  BY <1>2, <1>3 DEF Handshake, Word
<1>11. Operands => Operands'
  BY <1>2, <1>3, <1>4 DEF Operands
<1>. QED
  BY <1>4, <1>9, <1>10, <1>11 DEF Attempt

\* The invariant is inductive.
THEOREM Inductive == Spec => []IInv
<1>1. Init => IInv
  <2>1. Init => ~Running
    BY DEF Init, Running
  <2>. QED
    BY <2>1, InitAlways DEF IInv, Attempt
<1>2. IInv /\ [Next]_vars => IInv'
  <2>. SUFFICES ASSUME IInv, [Next]_vars PROVE IInv'
    OBVIOUS
  <2>1. CASE Next
    BY <2>1, NextIsCycle, AlwaysStep, AttemptStep DEF IInv
  <2>2. CASE UNCHANGED vars
    BY <2>2, SameAlways, SameAttempt DEF IInv
  <2>. QED
    BY <2>1, <2>2
<1>. QED
  BY <1>1, <1>2, PTL DEF Spec
-------------------------------------------------------------------------------
(* The reference: what SHA-512 hashes *)

\* A function on 1 .. n is a sequence.
LEMMA SeqOf ==
    ASSUME NEW S, NEW n \in Nat, NEW f \in [1 .. n -> S]
    PROVE  f \in Seq(S) /\ Len(f) = n
<1>1. f \in Seq(S)
  BY SeqDef, Zenon
<1>. QED
  BY <1>1

\* u is s, of p words, followed by t, of q words.
Joins(u, s, p, t, q) ==
    /\ u \in Seq(Tokens) /\ Len(u) = p + q
    /\ \A i \in 1 .. p + q : u[i] = IF i <= p THEN s[i] ELSE t[i - p]

\* What concatenation does, in these terms.
LEMMA Joined ==
    ASSUME NEW s \in Seq(Tokens), NEW t \in Seq(Tokens), NEW p \in Nat, NEW q \in Nat,
           Len(s) = p, Len(t) = q
    PROVE  Joins(s \o t, s, p, t, q)
<1>. DEFINE u == s \o t
<1>1. /\ u \in Seq(Tokens) /\ Len(u) = Len(s) + Len(t)
      /\ \A i \in 1 .. Len(s) + Len(t) : u[i] = IF i <= Len(s) THEN s[i] ELSE t[i - Len(s)]
  BY ConcatProperties, Zenon
<1>. HIDE DEF u
<1>2. Joins(u, s, p, t, q)
  BY <1>1 DEF Joins
<1>. QED
  BY <1>2 DEF u

\* The hardware's number of zeros is the reference's: one word fewer than the
\* reference's zeros and the three upper words of the length.
LEMMA ZerosAreFill ==
    ASSUME NEW n \in Nat
    PROVE  Zeros(n) = Fill(n) - 2
<1>. DEFINE z0 == Fill(n) - 2
            Fits(z) == (n + 1 + z + 4) % Blk = 0
<1>1. Blk \in Nat /\ Blk >= 8 /\ 0 \in Slots
  BY Sizes
<1>2. z0 \in 0 .. Blk - 1 /\ n + 1 + z0 + 4 = Total(n)
  <2>1. n % Blk \in 0 .. Blk - 1
    BY Division DEF Slots
  <2>2. Fill(n) \in Nat /\ Fill(n) >= 2 /\ Fill(n) <= Blk + 1
    BY <1>1, <2>1 DEF Fill
  <2>. QED
    BY <1>1, <2>2 DEF Total
<1>3. ASSUME NEW t \in Nat, t % Blk = 0 PROVE \E q \in Nat : t = q * Blk
  <2>1. t \div Blk \in Nat /\ t = (t \div Blk) * Blk + 0
    BY <1>3, Division
  <2>2. (t \div Blk) * Blk \in Nat
    BY <2>1, Multiples
  <2>. QED
    BY <2>1, <2>2
<1>4. PICK m \in Nat : Total(n) = m * Blk
  <2>1. PICK k \in Nat : Total(n) = k * Blk + Blk
    BY FillFacts
  <2>2. Total(n) = (k + 1) * Blk /\ k + 1 \in Nat
    BY <2>1, Multiples
  <2>. QED
    BY <2>2
<1>5. Fits(z0)
  <2>1. Total(n) \in Nat
    BY <1>4, Multiples
  <2>. DEFINE q == Total(n) \div Blk
              r == Total(n) % Blk
  <2>2. r \in Slots /\ q \in Nat /\ q * Blk + r = m * Blk + 0
    <3>1. m * Blk + 0 = m * Blk
      BY <1>4, Multiples
    <3>. QED
      BY <1>4, <2>1, <3>1, Division
  <2>3. r = 0
    <3>. HIDE DEF q, r
    <3>. QED
      BY <1>1, <2>2, DivisionUnique
  <2>. QED
    BY <1>2, <2>3
<1>6. ASSUME NEW z \in 0 .. Blk - 1, Fits(z) PROVE z = z0
  <2>1. n + 1 + z + 4 \in Nat
    BY <1>1
  <2>2. PICK q \in Nat : n + 1 + z + 4 = q * Blk
    BY <1>3, <1>6, <2>1
  <2>3. q * Blk \in Nat /\ m * Blk \in Nat
    BY Multiples
  <2>. DEFINE d == z0 - z
  <2>4. d \in Int /\ d < Blk /\ -d < Blk /\ m * Blk = q * Blk + d
    BY <1>1, <1>2, <1>4, <2>2, <2>3
  <2>. HIDE DEF d
  <2>5. CASE d >= 0
    <3>1. d \in Slots /\ q * Blk + d = m * Blk + 0
      BY <1>1, <2>3, <2>4, <2>5 DEF Slots
    <3>2. d = 0
      BY <1>1, <3>1, DivisionUnique
    <3>. QED
      BY <1>1, <1>2, <3>2 DEF d
  <2>6. CASE d < 0
    <3>1. -d \in Slots /\ m * Blk + (-d) = q * Blk + 0 /\ -d # 0
      BY <1>1, <2>3, <2>4, <2>6 DEF Slots
    <3>. DEFINE e == -d
    <3>2. e \in Slots /\ m * Blk + e = q * Blk + 0 /\ e # 0
      BY <3>1
    <3>. HIDE DEF e
    <3>3. e = 0
      BY <1>1, <3>2, DivisionUnique
    <3>. QED
      BY <3>2, <3>3
  <2>. QED
    BY <2>4, <2>5, <2>6
<1>. HIDE DEF z0
<1>7. (CHOOSE z \in 0 .. Blk - 1 : Fits(z)) = z0
  BY <1>2, <1>5, <1>6
<1>. QED
  BY <1>7 DEF Zeros, z0

\* The message of an attempt, word by word.
LEMMA SentWords ==
    ASSUME attempt \in Nat, sha_len \in Nat, sha_len >= 2 * KeyWords
    PROVE  /\ Sent \in Seq(Tokens) /\ Len(Sent) = sha_len
           /\ \A i \in 1 .. sha_len : Sent[i] = Tok(attempt, sha_len, i - 1)
<1>. DEFINE r == [i \in 1 .. KeyWords |-> Word("R", i - 1)]
            k == [i \in 1 .. KeyWords |-> KeyWord(i - 1)]
            c == sha_len - 2 * KeyWords
            m == [i \in 1 .. c |-> Word("M", 2 * KeyWords + i - 1)]
<1>1. KeyWords \in Nat /\ c \in Nat /\ sha_len = KeyWords + KeyWords + c
  BY Sizes
<1>2. r \in Seq(Tokens) /\ Len(r) = KeyWords
  <2>1. ASSUME NEW i \in 1 .. KeyWords PROVE Word("R", i - 1) \in Tokens
    <3>1. i - 1 \in Nat
      BY <1>1
    <3>. QED
      BY <3>1, TokenFacts DEF Word
  <2>2. r \in [1 .. KeyWords -> Tokens]
    BY <2>1
  <2>. HIDE DEF r
  <2>. QED
    BY <1>1, <2>2, SeqOf
<1>3. k \in Seq(Tokens) /\ Len(k) = KeyWords
  <2>1. k \in [1 .. KeyWords -> Tokens]
    BY <1>1, TokenFacts
  <2>. HIDE DEF k
  <2>. QED
    BY <1>1, <2>1, SeqOf
<1>4. m \in Seq(Tokens) /\ Len(m) = c
  <2>1. ASSUME NEW i \in 1 .. c PROVE Word("M", 2 * KeyWords + i - 1) \in Tokens
    <3>1. 2 * KeyWords + i - 1 \in Nat
      BY <1>1
    <3>. QED
      BY <3>1, TokenFacts DEF Word
  <2>2. m \in [1 .. c -> Tokens]
    BY <2>1
  <2>. HIDE DEF m, c
  <2>. QED
    BY <1>1, <2>2, SeqOf
<1>5. Sent = r \o k \o m
  BY DEF Sent
<1>6. /\ \A i \in 1 .. KeyWords : r[i] = <<"R", attempt, i - 1>> /\ k[i] = KeyWord(i - 1)
      /\ \A i \in 1 .. c : m[i] = <<"M", attempt, 2 * KeyWords + i - 1>>
  BY DEF Word
<1>. HIDE DEF r, k, m, c
<1>. DEFINE rk == r \o k
<1>7. /\ rk \in Seq(Tokens) /\ Len(rk) = KeyWords + KeyWords
      /\ \A i \in 1 .. KeyWords + KeyWords : rk[i] = IF i <= KeyWords THEN r[i] ELSE k[i - KeyWords]
  <2>1. Joins(rk, r, KeyWords, k, KeyWords)
    BY <1>1, <1>2, <1>3, Joined, Zenon
  <2>. HIDE DEF rk
  <2>. QED
    BY <2>1 DEF Joins
<1>. HIDE DEF rk
<1>. DEFINE d == KeyWords + KeyWords
<1>8. /\ rk \o m \in Seq(Tokens) /\ Len(rk \o m) = d + c
      /\ \A i \in 1 .. d + c : (rk \o m)[i] = IF i <= d THEN rk[i] ELSE m[i - d]
  <2>1. d \in Nat /\ rk \in Seq(Tokens) /\ Len(rk) = d
    BY <1>1, <1>7
  <2>. DEFINE u == rk \o m
  <2>. HIDE DEF d
  <2>2. Joins(u, rk, d, m, c)
    BY <1>1, <1>4, <2>1, Joined, Zenon
  <2>. HIDE DEF u
  <2>3. /\ u \in Seq(Tokens) /\ Len(u) = d + c
        /\ \A i \in 1 .. d + c : u[i] = IF i <= d THEN rk[i] ELSE m[i - d]
    BY <2>2 DEF Joins
  <2>. QED
    BY <2>3 DEF u
<1>9. Sent = rk \o m
  BY <1>5 DEF rk
<1>10. ASSUME NEW i \in 1 .. sha_len PROVE Sent[i] = Tok(attempt, sha_len, i - 1)
  <2>0. i - 1 \in Nat /\ i \in 1 .. KeyWords + KeyWords + c
    BY <1>1
  <2>1. CASE i <= KeyWords
    <3>1. Sent[i] = r[i] /\ i \in 1 .. KeyWords /\ i - 1 < KeyWords
      BY <1>1, <1>7, <1>8, <1>9, <2>0, <2>1
    <3>. QED
      BY <1>6, <2>0, <3>1, TokValues
  <2>2. CASE i > KeyWords /\ i <= 2 * KeyWords
    <3>1. /\ Sent[i] = k[i - KeyWords] /\ i - KeyWords \in 1 .. KeyWords
          /\ i - 1 >= KeyWords /\ i - 1 < 2 * KeyWords /\ (i - KeyWords) - 1 = (i - 1) - KeyWords
      BY <1>1, <1>7, <1>8, <1>9, <2>0, <2>2
    <3>2. k[i - KeyWords] = KeyWord((i - 1) - KeyWords)
      BY <1>6, <3>1
    <3>3. Tok(attempt, sha_len, i - 1) = KeyWord((i - 1) - KeyWords)
      BY <2>0, <3>1, TokValues
    <3>. QED
      BY <3>1, <3>2, <3>3
  <2>3. CASE i > 2 * KeyWords
    <3>. DEFINE j == i - d
    <3>1. /\ j \in 1 .. c /\ 2 * KeyWords + j - 1 = i - 1 /\ ~(i <= d) /\ i \in 1 .. d + c
          /\ i - 1 >= 2 * KeyWords /\ i - 1 < sha_len
      BY <1>1, <2>0, <2>3
    <3>2. Sent[i] = m[j]
      <4>. HIDE DEF d
      <4>. QED
        BY <1>8, <1>9, <3>1
    <3>3. m[j] = <<"M", attempt, i - 1>>
      <4>. HIDE DEF j
      <4>. QED
        BY <1>6, <3>1
    <3>. QED
      BY <2>0, <3>1, <3>2, <3>3, TokValues
  <2>. QED
    BY <1>1, <2>1, <2>2, <2>3
<1>. QED
  BY <1>1, <1>8, <1>9, <1>10

\* The padded message, word by word.
LEMMA PaddedWords ==
    ASSUME NEW a \in Nat, NEW n \in Nat, n >= 2 * KeyWords,
           NEW msg \in Seq(Tokens), Len(msg) = n,
           \A i \in 1 .. n : msg[i] = Tok(a, n, i - 1)
    PROVE  /\ Padded(msg) \in Seq(Tokens) /\ Len(Padded(msg)) = Total(n)
           /\ \A i \in 1 .. Total(n) : Padded(msg)[i] = Tok(a, n, i - 1)
<1>. DEFINE c == Fill(n) + 1
            e == <<End>>
            z == [i \in 1 .. c |-> Zero]
            l == <<Length(n)>>
            me == msg \o e
            mez == me \o z
            mezl == mez \o l
<1>1. Fill(n) \in Nat /\ Fill(n) >= 2 /\ c \in Nat /\ c = Zeros(n) + 3
  <2>1. Fill(n) \in 2 .. 2 * Blk - 1 /\ Zeros(n) = Fill(n) - 2
    BY FillFacts, ZerosAreFill
  <2>. QED
    BY <2>1, Sizes
<1>2. e \in Seq(Tokens) /\ Len(e) = 1 /\ e[1] = End
  BY TokenFacts
<1>3. l \in Seq(Tokens) /\ Len(l) = 1 /\ l[1] = Length(n)
  BY TokenFacts
<1>4. z \in Seq(Tokens) /\ Len(z) = c /\ \A i \in 1 .. c : z[i] = Zero
  <2>1. z \in [1 .. c -> Tokens] /\ \A i \in 1 .. c : z[i] = Zero
    BY TokenFacts
  <2>. HIDE DEF z, c
  <2>. QED
    BY <1>1, <2>1, SeqOf
<1>5. Padded(msg) = mezl
  <2>1. [i \in 1 .. Zeros(Len(msg)) + 3 |-> Zero] = z
    <3>1. Zeros(Len(msg)) + 3 = c
      BY <1>1
    <3>. HIDE DEF c
    <3>. QED
      BY <3>1
  <2>. HIDE DEF z
  <2>. QED
    BY <2>1 DEF Padded
<1>. HIDE DEF e, z, l
<1>6. /\ me \in Seq(Tokens) /\ Len(me) = n + 1
      /\ \A i \in 1 .. n + 1 : me[i] = IF i <= n THEN msg[i] ELSE e[i - n]
  <2>1. 1 \in Nat
    OBVIOUS
  <2>2. Joins(me, msg, n, e, 1)
    BY <1>2, <2>1, Joined, Zenon
  <2>. HIDE DEF me
  <2>. QED
    BY <2>2 DEF Joins
<1>. HIDE DEF me, c
<1>7. /\ mez \in Seq(Tokens) /\ Len(mez) = (n + 1) + c
      /\ \A i \in 1 .. (n + 1) + c : mez[i] = IF i <= n + 1 THEN me[i] ELSE z[i - (n + 1)]
  <2>. DEFINE p == n + 1
  <2>1. p \in Nat /\ Len(me) = p
    BY <1>6
  <2>2. /\ mez \in Seq(Tokens) /\ Len(mez) = p + c
        /\ \A i \in 1 .. p + c : mez[i] = IF i <= p THEN me[i] ELSE z[i - p]
    <3>. HIDE DEF p
    <3>1. Joins(mez, me, p, z, c)
      BY <1>1, <1>4, <1>6, <2>1, Joined, Zenon
    <3>. HIDE DEF mez
    <3>. QED
      BY <3>1 DEF Joins
  <2>. QED
    BY <2>2
<1>. HIDE DEF mez
<1>. DEFINE q == Total(n) - 1
<1>8. q \in Nat /\ q = (n + 1) + c /\ q + 1 = Total(n)
  <2>1. \A f \in Nat : /\ (n + 3 + f) - 1 \in Nat /\ (n + 3 + f) - 1 = (n + 1) + (f + 1)
                        /\ ((n + 3 + f) - 1) + 1 = n + 3 + f
    OBVIOUS
  <2>. QED
    BY <1>1, <2>1, Zenon DEF Total, c
<1>9. /\ mezl \in Seq(Tokens) /\ Len(mezl) = q + 1
      /\ \A i \in 1 .. q + 1 : mezl[i] = IF i <= q THEN mez[i] ELSE l[i - q]
  <2>1. Len(mez) = q
    BY <1>7, <1>8
  <2>2. 1 \in Nat
    OBVIOUS
  <2>. HIDE DEF q
  <2>3. Joins(mezl, mez, q, l, 1)
    BY <1>3, <1>7, <1>8, <2>1, <2>2, Joined, Zenon
  <2>. HIDE DEF mezl
  <2>. QED
    BY <2>3 DEF Joins
<1>. HIDE DEF mezl, q
<1>10. ASSUME NEW i \in 1 .. Total(n) PROVE mezl[i] = Tok(a, n, i - 1)
  <2>0. /\ i - 1 \in Nat /\ i \in 1 .. q + 1 /\ q \in Nat /\ q = (n + 1) + c /\ c \in Nat
        /\ q = Total(n) - 1
    BY <1>1, <1>8 DEF q
  <2>1. CASE i <= n
    <3>1. i <= q /\ i \in 1 .. (n + 1) + c /\ i \in 1 .. n + 1 /\ i <= n + 1 /\ i \in 1 .. n
      BY <2>0, <2>1
    <3>2. mezl[i] = mez[i] /\ mez[i] = me[i] /\ me[i] = msg[i]
      BY <1>6, <1>7, <1>9, <2>0, <2>1, <3>1
    <3>. QED
      BY <3>1, <3>2
  <2>2. CASE i = n + 1
    <3>1. i <= q /\ i \in 1 .. (n + 1) + c /\ i \in 1 .. n + 1 /\ ~(i <= n) /\ i - n = 1 /\ i - 1 = n
      BY <2>0, <2>2
    <3>2. mezl[i] = mez[i] /\ mez[i] = me[i] /\ me[i] = End
      BY <1>2, <1>6, <1>7, <1>9, <2>0, <2>2, <3>1
    <3>3. Tok(a, n, i - 1) = End
      BY <2>0, <3>1, TokValues
    <3>. QED
      BY <3>2, <3>3
  <2>3. CASE i > n + 1 /\ i <= q
    <3>1. /\ i \in 1 .. (n + 1) + c /\ ~(i <= n + 1) /\ i - (n + 1) \in 1 .. c
          /\ i - 1 > n /\ i - 1 < Total(n) - 1
      BY <2>0, <2>3
    <3>2. mezl[i] = mez[i] /\ mez[i] = z[i - (n + 1)]
      BY <1>7, <1>9, <2>0, <2>3, <3>1
    <3>3. z[i - (n + 1)] = Zero
      BY <1>4, <3>1
    <3>4. Tok(a, n, i - 1) = Zero
      BY <2>0, <3>1, TokValues
    <3>. QED
      BY <3>2, <3>3, <3>4
  <2>4. CASE i = q + 1
    <3>1. ~(i <= q) /\ i - q = 1 /\ i - 1 = Total(n) - 1
      BY <2>0, <2>4
    <3>2. mezl[i] = Length(n)
      BY <1>3, <1>9, <2>0, <3>1
    <3>3. Tok(a, n, i - 1) = Length(n)
      BY <2>0, <3>1, TokValues
    <3>. QED
      BY <3>2, <3>3
  <2>. QED
    BY <2>0, <2>1, <2>2, <2>3, <2>4
<1>11. Len(mezl) = Total(n)
  BY <1>8, <1>9 DEF q
<1>. QED
  BY <1>5, <1>9, <1>10, <1>11

\* A digest of all the blocks is that of the padded message.
LEMMA DigestIs ==
    ASSUME NEW a \in Nat, NEW n \in Nat, NEW h, HashesAll(a, n, h),
           NEW words \in Seq(Tokens), Len(words) = Total(n),
           \A i \in 1 .. Total(n) : words[i] = Tok(a, n, i - 1)
    PROVE  h = Blocks(words)
<1>1. /\ h \in Seq([Slots -> Tokens]) /\ Len(h) * Blk = Total(n)
      /\ \A b \in 1 .. Len(h) : \A i \in Slots : h[b][i] = Tok(a, n, (b - 1) * Blk + i)
  BY DEF HashesAll, Hashes
<1>. DEFINE B == [Slots -> Tokens]
            m == Len(h)
<1>2. m \in Nat /\ h \in [1 .. m -> B]
  <2>1. h \in Seq(B)
    BY <1>1
  <2>. HIDE DEF B
  <2>. QED
    BY <2>1, LenProperties
<1>3. Len(words) \div Blk = m
  <2>. DEFINE q == Total(n) \div Blk
              r == Total(n) % Blk
  <2>1. Total(n) \in Nat /\ 0 \in Slots /\ Total(n) = m * Blk + 0
    <3>1. m * Blk \in Nat
      BY <1>2, Multiples
    <3>. QED
      BY <1>1, <3>1, Sizes
  <2>2. q \in Nat /\ r \in Slots /\ q * Blk + r = m * Blk + 0
    BY <2>1, Division
  <2>3. q = m
    <3>. HIDE DEF q, r, m
    <3>. QED
      BY <1>2, <2>1, <2>2, DivisionUnique
  <2>. QED
    BY <2>3
<1>4. ASSUME NEW b \in 1 .. m
      PROVE  h[b] = [i \in Slots |-> words[(b - 1) * Blk + i + 1]]
  <2>1. h[b] \in [Slots -> Tokens]
    BY <1>2
  <2>2. ASSUME NEW i \in Slots PROVE h[b][i] = words[(b - 1) * Blk + i + 1]
    <3>. DEFINE k == b - 1
                p == k * Blk
    <3>1. k \in Nat /\ k < m
      BY <1>2
    <3>2. p \in Nat /\ p + Blk <= m * Blk
      <4>. HIDE DEF k
      <4>. QED
        BY <1>2, <3>1, Multiples
    <3>. HIDE DEF p
    <3>3. p + i + 1 \in 1 .. Total(n) /\ (p + i + 1) - 1 = p + i
      <4>1. i \in Nat /\ i < Blk /\ Blk \in Nat
        BY Sizes
      <4>. DEFINE t == Total(n)
      <4>2. t \in Nat /\ p + Blk <= t
        <5>1. m * Blk \in Nat
          BY <1>2, Multiples
        <5>. QED
          BY <1>1, <3>2, <5>1
      <4>. HIDE DEF t
      <4>3. p + i + 1 \in 1 .. t /\ (p + i + 1) - 1 = p + i
        BY <3>2, <4>1, <4>2
      <4>. QED
        BY <4>3 DEF t
    <3>4. words[p + i + 1] = Tok(a, n, p + i)
      BY <3>3
    <3>5. h[b][i] = Tok(a, n, p + i)
      BY <1>1 DEF p
    <3>6. p = (b - 1) * Blk
      BY DEF p
    <3>. QED
      BY <3>4, <3>5, <3>6
  <2>. QED
    BY <2>1, <2>2
<1>5. h = [b \in 1 .. m |-> [i \in Slots |-> words[(b - 1) * Blk + i + 1]]]
  <2>. HIDE DEF m, B
  <2>. QED
    BY <1>2, <1>4
<1>. QED
  BY <1>3, <1>5 DEF Blocks
-------------------------------------------------------------------------------
(* Theorems *)

\* The FSMs stay in their states and the pointers and counters in range, also
\* when an abort leaves the SHA engine in the middle of a block.
THEOREM TypeCorrect == Spec => []TypeOK
<1>1. IInv => TypeOK
  BY DEF IInv, Always, Engine, Pointers, Units, TypeOK
<1>. QED
  BY <1>1, Inductive, PTL

\* Orchestrator and SHA engine stay in step: a message word arrives only while
\* the engine receives, for the slot that it fills next.
THEOREM WordsLandAlways == Spec => []WordsLand
<1>1. ASSUME IInv, Running, port.wen, port.kind = "word"
      PROVE  sstate = "RECV" /\ port.slot = word_count
  <2>1. InStep /\ Pointers /\ Driver
    BY <1>1 DEF IInv, Attempt, Always
  <2>2. state \in Active
    BY <1>1, <2>1, ActiveFacts DEF Running
  <2>3. CASE state \in FeedsKey \cup {"WAIT_DATA"}
    BY <1>1, <2>1, <2>3 DEF InStep, Fed
  <2>4. CASE state \in {"SHA_CFG_LEN", "SHA_CFG_CTRL", "SHA_POLL"}
    BY <1>1, <2>1, <2>4 DEF InStep, Port
  <2>5. CASE state = "BLK_POLL"
    BY <1>1, <2>1, <2>5 DEF InStep, Fed
  <2>6. CASE state = "WAIT_INTR"
    BY <1>1, <2>1, <2>6 DEF InStep, Fed, Padding
  <2>7. CASE state \in {"READ_HASH", "LOAD_REGS", "WAIT_START", "ED_START", "ED_WAIT", "DONE"}
    BY <1>1, <2>1, <2>7 DEF InStep, Hashed
  <2>. QED
    BY <2>2, <2>3, <2>4, <2>5, <2>6, <2>7 DEF Active, States, FeedsKey
<1>2. IInv => WordsLand
  BY <1>1 DEF WordsLand
<1>. QED
  BY <1>2, Inductive, PTL

\* Firmware that follows STATUS never overwrites a word that was not consumed.
THEOREM WordsKept == Spec => NoWordOverwritten
<1>1. ASSUME IInv, [Next]_vars PROVE [data_in' # data_in => ~data_pending]_vars
  <2>1. CASE Next
    <3>1. PICK w \in Writes, n \in Nat, sv \in BOOLEAN, finish \in BOOLEAN :
              Cycle(w, n, sv, finish)
      BY <2>1, NextIsCycle
    <3>2. Driver /\ Firmware(w, n) /\ CsrEdge(w, n)
      BY <1>1, <3>1 DEF Cycle, IInv, Always
    <3>3. w # "data" => data_in' = data_in
      BY <3>2 DEF CsrEdge
    <3>4. w = "data" => ~data_pending
      BY <3>2, FirmwareCases DEF Driver
    <3>. QED
      BY <3>3, <3>4
  <2>2. CASE UNCHANGED vars
    BY <2>2
  <2>. QED
    BY <1>1, <2>1, <2>2
<1>. QED
  BY <1>1, Inductive, PTL DEF Spec, NoWordOverwritten

\* In an attempt that found every unit at rest, a digest of all the blocks of
\* the message is the reference's.
LEMMA ReferenceDigest ==
    ASSUME IInv, Running, Hashed
    PROVE  hash = Blocks(Padded(Sent))
<1>1. /\ attempt \in Nat /\ sha_len \in Nat /\ sha_len >= 2 * KeyWords
      /\ HashesAll(attempt, sha_len, hash)
  <2>1. Pointers /\ Driver /\ Operands
    BY DEF IInv, Attempt, Always
  <2>2. state \in Active
    BY <2>1, ActiveFacts DEF Running
  <2>. QED
    BY <2>1, <2>2, ActiveFacts DEF Operands, Driver
<1>. DEFINE msg == Sent
            pad == Padded(msg)
<1>2. /\ msg \in Seq(Tokens) /\ Len(msg) = sha_len
      /\ \A i \in 1 .. sha_len : msg[i] = Tok(attempt, sha_len, i - 1)
  BY <1>1, SentWords
<1>. HIDE DEF msg
<1>3. /\ pad \in Seq(Tokens) /\ Len(pad) = Total(sha_len)
      /\ \A i \in 1 .. Total(sha_len) : pad[i] = Tok(attempt, sha_len, i - 1)
  BY <1>1, <1>2, PaddedWords
<1>. HIDE DEF pad
<1>4. hash = Blocks(pad)
  BY <1>1, <1>3, DigestIs
<1>. QED
  BY <1>4 DEF pad, msg

\* The digest is that of R, the key and the message words, padded as SHA-512
\* says, for every message length.
THEOREM DigestCorrect == Spec => []DigestOfMessage
<1>1. IInv => DigestOfMessage
  BY ReferenceDigest DEF DigestOfMessage
<1>. QED
  BY <1>1, Inductive, PTL

\* A key register that has taken in all its words holds them in order.
LEMMA WholeKey ==
    ASSUME NEW reg \in Keys, NEW kind, NEW a, Shifted(kind, a, reg, KeyWords)
    PROVE  reg = [i \in 1 .. KeyWords |-> <<kind, a, i - 1>>]
<1>1. ASSUME NEW i \in 1 .. KeyWords PROVE reg[i] = <<kind, a, i - 1>>
  <2>1. KeyWords - KeyWords + i = i
    BY Sizes
  <2>2. reg[KeyWords - KeyWords + i] = <<kind, a, i - 1>>
    BY DEF Shifted
  <2>. QED
    BY <2>1, <2>2
<1>2. reg \in [1 .. KeyWords -> Tokens]
  BY DEF Keys
<1>. QED
  BY <1>1, <1>2

\* The verdict that firmware polls is about the signature, key and digest of
\* the attempt that it started.
THEOREM VerdictCorrect == Spec => []VerdictOfAttempt
<1>1. ASSUME IInv, Running, state = "DONE"
      PROVE  ed_regs = << [i \in 1 .. KeyWords |-> Word("S", i - 1)],
                          [i \in 1 .. KeyWords |-> Word("R", i - 1)],
                          [i \in 1 .. KeyWords |-> KeyWord(i - 1)],
                          Blocks(Padded(Sent)) >>
  <2>1. /\ r_reg \in Keys /\ s_reg \in Keys /\ pubkey \in Keys
        /\ Shifted("R", attempt, r_reg, KeyWords) /\ Shifted("S", attempt, s_reg, KeyWords)
    BY <1>1 DEF IInv, Always, Units, Signature, Running
  <2>2. Shifted("key", 0, pubkey, KeyWords) /\ ed_regs = <<s_reg, r_reg, pubkey, hash>>
    BY <1>1 DEF IInv, Attempt, Operands, Hashed, Starting, FeedsKey
  <2>3. s_reg = [i \in 1 .. KeyWords |-> Word("S", i - 1)]
    BY <2>1, WholeKey DEF Word
  <2>4. r_reg = [i \in 1 .. KeyWords |-> Word("R", i - 1)]
    BY <2>1, WholeKey DEF Word
  <2>5. pubkey = [i \in 1 .. KeyWords |-> KeyWord(i - 1)]
    BY <2>1, <2>2, WholeKey DEF KeyWord
  <2>6. hash = Blocks(Padded(Sent))
    BY <1>1, ReferenceDigest DEF Hashed
  <2>. QED
    BY <2>2, <2>3, <2>4, <2>5, <2>6, Zenon
<1>2. IInv => VerdictOfAttempt
  BY <1>1, Zenon DEF VerdictOfAttempt
<1>. QED
  BY <1>2, Inductive, PTL
===============================================================================
