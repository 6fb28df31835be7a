------------------------------ MODULE PlicProofs ------------------------------
(***************************************************************************)
(* What holds of the interrupt controller for every number of sources and  *)
(* every width of the priority fields.  The inductive invariant adds to    *)
(* OneAtATime that the registered arbiter output is still pending unless   *)
(* the last cycle was a claim: this is why two consecutive claim reads     *)
(* have to be excluded.                                                    *)
(***************************************************************************)
EXTENDS Plic, WellFoundedInduction, TLAPS

\* The source in the claim register is pending unless it has just been claimed.
ClaimIsPending == last # "claim" /\ irq_id # 0 => irq_id \in ip

IInv == TypeOK /\ OneAtATime /\ ClaimIsPending

\* A nonempty set of natural numbers has a least element.
LEMMA LeastNat ==
    ASSUME NEW T, T \subseteq Nat, T # {}
    PROVE  \E x \in T : \A y \in T : x <= y
<1>1. PICK x \in T : \A y \in T : ~(<<y, x>> \in OpToRel(<, Nat))
  BY NatLessThanWellFounded, WFMin
<1>2. \A y \in T : ~(y < x)
  BY <1>1 DEF OpToRel
<1>. QED
  BY <1>2

\* The arbiter names a candidate, or nobody.
LEMMA WinnerIsCandidate ==
    ASSUME TypeOK
    PROVE  /\ Winner \in Candidates \cup {0}
           /\ Winner \in 0 .. N_SOURCE
<1>1. ASSUME Candidates # {}
      PROVE  \E s \in Candidates : \A t \in Candidates \ {s} : Beats(s, t)
  <2>. DEFINE D  == {PrioMod - prio[s] : s \in Candidates}
  <2>0. \A s \in Candidates : s \in Nat /\ prio[s] \in Nat /\ PrioMod - prio[s] \in Nat
    <3>1. \A s \in Candidates : s \in 1 .. N_SOURCE /\ prio[s] \in 0 .. PrioMod - 1
      BY DEF TypeOK, Candidates, Sources, Prio
    <3>2. N_SOURCE \in Nat /\ PrioMod \in Nat
      BY PlicAssumption
    <3>. QED
      BY <3>1, <3>2
  <2>1. D \subseteq Nat /\ D # {}
    BY <1>1, <2>0
  <2>2. PICK d \in D : \A e \in D : d <= e
    BY <2>1, LeastNat
  <2>. DEFINE T == {s \in Candidates : PrioMod - prio[s] = d}
  <2>3. T \subseteq Nat /\ T # {}
    BY <2>0, <2>2
  <2>4. PICK s \in T : \A t \in T : s <= t
    BY <2>3, LeastNat
  <2>5. ASSUME NEW t \in Candidates \ {s} PROVE Beats(s, t)
    <3>1. PrioMod - prio[s] <= PrioMod - prio[t]
      BY <2>2, <2>4
    <3>2. PrioMod \in Nat /\ prio[s] \in Nat /\ prio[t] \in Nat /\ s \in Nat /\ t \in Nat
      BY <2>0, <2>4, PlicAssumption
    <3>3. CASE prio[s] = prio[t]
      BY <2>4, <3>2, <3>3 DEF Beats
    <3>4. CASE prio[s] # prio[t]
      BY <3>1, <3>2, <3>4 DEF Beats
    <3>. QED
      BY <3>3, <3>4
  <2>. QED
    BY <2>4, <2>5
<1>2. Winner \in Candidates \cup {0}
  BY <1>1 DEF Winner
<1>3. Candidates \subseteq Sources
  BY DEF TypeOK, Candidates
<1>. QED
  BY <1>2, <1>3, PlicAssumption DEF Sources

\* Initially nothing is pending.
LEMMA InitIInv == Init => IInv
BY PlicAssumption DEF Init, IInv, TypeOK, OneAtATime, ClaimIsPending, Prio, Sources

\* A cycle without a claim keeps what was pending, and its arbiter output is
\* pending afterwards; every cycle keeps the types of what it touches.
LEMMA CycleFacts ==
    ASSUME IInv, NEW kind, NEW claim, NEW complete, Cycle(kind, claim, complete)
    PROVE  /\ ip' = (ip \cup (Set \ ia)) \ claim /\ ia' = (ia \cup Set) \ complete
           /\ ip' \subseteq Sources /\ ia' \subseteq Sources
           /\ src' \subseteq Sources /\ src_d' \subseteq Sources
           /\ irq_id' \in 0 .. N_SOURCE
           /\ irq_id' \in ip \cup {0}
           /\ last' = kind
           /\ Set \subseteq Sources
<1>1. TypeOK
  BY DEF IInv
<1>2. irq_id' \in 0 .. N_SOURCE /\ irq_id' \in ip \cup {0}
  BY <1>1, WinnerIsCandidate DEF Cycle, TargetEdge, Candidates
<1>. QED
  BY <1>1, <1>2 DEF TypeOK, Cycle, GatewayEdge, Set

\* Every step preserves the invariant, if claims are not back to back.
LEMMA StepIInv ==
    ASSUME ~BackToBack, IInv, [Next]_vars
    PROVE  IInv'
<1>. USE DEF IInv, TypeOK, OneAtATime, ClaimIsPending
<1>1. CASE Idle
  <2>1. Cycle("idle", {}, {})
    BY <1>1 DEF Idle
  <2>2. UNCHANGED <<config, held>>
    BY <1>1 DEF Idle
  <2>. QED
    BY <2>1, <2>2, CycleFacts DEF config
<1>2. CASE Claim
  <2>1. /\ Cycle("claim", {irq_id} \ {0}, {})
        /\ last # "claim"
        /\ held' = held \cup ({irq_id} \ {0})
        /\ UNCHANGED config
    BY <1>2 DEF Claim
  <2>2. {irq_id} \ {0} \subseteq ip
    BY <2>1
  <2>3. /\ ip' = (ip \cup (Set \ ia)) \ ({irq_id} \ {0}) /\ ia' = (ia \cup Set) \ {}
        /\ ip' \subseteq Sources /\ ia' \subseteq Sources
        /\ src' \subseteq Sources /\ src_d' \subseteq Sources
        /\ irq_id' \in 0 .. N_SOURCE /\ last' = "claim"
    BY <2>1, CycleFacts
  <2>4. OneAtATime'
    BY <2>1, <2>2, <2>3
  <2>5. TypeOK'
    BY <2>1, <2>2, <2>3 DEF config
  <2>. QED
    BY <2>3, <2>4, <2>5
<1>3. ASSUME NEW s \in Sources, Complete(s)
      PROVE  IInv'
  <2>1. /\ Cycle("complete", {}, {s})
        /\ s \in held /\ held' = held \ {s}
        /\ UNCHANGED config
    BY <1>3 DEF Complete
  <2>. QED
    BY <2>1, CycleFacts DEF config
<1>4. ASSUME NEW s \in Sources, NEW p \in Prios, WritePrio(s, p)
      PROVE  IInv'
  <2>1. Cycle("config", {}, {})
    BY <1>4 DEF WritePrio
  <2>2. prio' \in [Sources -> Prio] /\ UNCHANGED <<ie, threshold, held>>
    BY <1>4, PlicAssumption DEF WritePrio
  <2>. QED
    BY <2>1, <2>2, CycleFacts
<1>5. ASSUME NEW mask \in Masks, WriteIE(mask)
      PROVE  IInv'
  <2>1. Cycle("config", {}, {})
    BY <1>5 DEF WriteIE
  <2>2. ie' \subseteq Sources /\ UNCHANGED <<prio, threshold, held>>
    BY <1>5, PlicAssumption DEF WriteIE
  <2>. QED
    BY <2>1, <2>2, CycleFacts
<1>6. ASSUME NEW p \in Prios, WriteThreshold(p)
      PROVE  IInv'
  <2>1. Cycle("config", {}, {})
    BY <1>6 DEF WriteThreshold
  <2>2. threshold' \in Prio /\ UNCHANGED <<prio, ie, held>>
    BY <1>6, PlicAssumption DEF WriteThreshold
  <2>. QED
    BY <2>1, <2>2, CycleFacts
<1>7. CASE UNCHANGED vars
  BY <1>7 DEF vars, lines, gateway, config
<1>. QED
  BY <1>1, <1>2, <1>3, <1>4, <1>5, <1>6, <1>7 DEF Next

\* The gateway lets a source through once: an active source is pending or in
\* service, never both.
THEOREM SourcesServedOnce ==
    ASSUME ~BackToBack
    PROVE  Spec => [](TypeOK /\ OneAtATime)
<1>1. IInv /\ [Next]_vars => IInv'
  BY StepIInv
<1>. QED
  BY <1>1, InitIInv, PTL DEF Spec, IInv

\* The claim register never hands out a source that is in service.
THEOREM ClaimsAreFresh ==
    ASSUME ~BackToBack
    PROVE  Spec => ClaimDropsSource
<1>1. IInv /\ [Next]_vars => IInv'
  BY StepIInv
<1>2. IInv /\ [Next]_vars => [last' = "claim" => irq_id \notin held]_vars
  <2>. SUFFICES ASSUME IInv, Next, last' = "claim" PROVE irq_id \notin held
    OBVIOUS
  <2>1. Claim
    BY DEF Next, Idle, Claim, Complete, WritePrio, WriteIE, WriteThreshold, Cycle
  <2>. QED
    BY <2>1 DEF Claim, IInv, TypeOK, OneAtATime, ClaimIsPending, Sources
<1>. QED
  BY <1>1, <1>2, InitIInv, PTL DEF Spec, ClaimDropsSource

\* A remainder below the modulus is the number itself.
LEMMA SmallMod ==
    ASSUME NEW a \in Nat, NEW b \in Nat, a < b
    PROVE  a % b = a
OBVIOUS

\* One quiet cycle after the last claim and configuration write, the source in
\* the claim register is pending, enabled and above the threshold.
THEOREM ClaimsAreEligible ==
    ASSUME ~BackToBack
    PROVE  Spec => []ClaimIsEligible
<1>1. Init => ClaimIsEligible
  BY DEF Init, ClaimIsEligible, irq
<1>2. IInv /\ [Next]_vars => IInv'
  BY StepIInv
<1>3. IInv /\ ClaimIsEligible /\ [Next]_vars => ClaimIsEligible'
  <2>. SUFFICES ASSUME IInv, ClaimIsEligible, [Next]_vars PROVE ClaimIsEligible'
    OBVIOUS
  <2>1. ASSUME NEW kind, NEW complete, Cycle(kind, {}, complete), UNCHANGED config
        PROVE  ClaimIsEligible'
    <3>1. irq_id' \in Candidates \cup {0} /\ ip \subseteq ip'
      BY <2>1, WinnerIsCandidate DEF IInv, Cycle, TargetEdge, GatewayEdge
    <3>2. ASSUME irq_id' # 0, threshold + 1 < PrioMod
          PROVE  prio[irq_id'] > threshold
      <4>1. Floor = threshold + 1
        BY <3>2, SmallMod, PlicAssumption DEF IInv, TypeOK, Prio, Floor
      <4>2. prio[irq_id'] >= threshold + 1 /\ prio[irq_id'] \in 0 .. PrioMod - 1
        BY <3>1, <3>2, <4>1 DEF Candidates, IInv, TypeOK, Prio
      <4>. QED
        BY <4>2, PlicAssumption DEF IInv, TypeOK, Prio
    <3>. QED
      BY <2>1, <3>1, <3>2 DEF ClaimIsEligible, irq, Candidates, config
  <2>2. ASSUME last' \in {"claim", "config"}
        PROVE  ClaimIsEligible'
    BY <2>2 DEF ClaimIsEligible
  <2>3. CASE Idle
    BY <2>1, <2>3 DEF Idle
  <2>4. ASSUME NEW s \in Sources, Complete(s) PROVE ClaimIsEligible'
    BY <2>1, <2>4 DEF Complete
  <2>5. CASE UNCHANGED vars
    BY <2>5 DEF vars, gateway, config, ClaimIsEligible, irq
  <2>. QED
    BY <2>2, <2>3, <2>4, <2>5 DEF Next, Claim, WritePrio, WriteIE, WriteThreshold, Cycle
<1>. QED
  BY <1>1, <1>2, <1>3, InitIInv, PTL DEF Spec

\* The wrap of threshold + 1 is the only way for a source of priority 0 to
\* interrupt: it never does as long as the threshold is below its highest value.
THEOREM PriorityZeroSilentBelow ==
    ASSUME ~BackToBack
    PROVE  Spec /\ [](threshold + 1 < PrioMod) => []PriorityZeroIsSilent
<1>1. /\ TypeOK /\ OneAtATime /\ ClaimIsEligible
      /\ threshold + 1 < PrioMod
      => PriorityZeroIsSilent
  <2>. SUFFICES ASSUME TypeOK, ClaimIsEligible, threshold + 1 < PrioMod,
                       irq, last \notin {"claim", "config"}
                PROVE  prio[irq_id] # 0
    BY DEF PriorityZeroIsSilent
  <2>1. irq_id \in Sources /\ prio[irq_id] > threshold
    BY DEF ClaimIsEligible, TypeOK
  <2>2. prio[irq_id] \in Nat /\ threshold \in Nat
    BY <2>1, PlicAssumption DEF TypeOK, Prio
  <2>. QED
    BY <2>1, <2>2
<1>. QED
  BY <1>1, SourcesServedOnce, ClaimsAreEligible, PTL
-------------------------------------------------------------------------------
(* Type correctness does not need the exclusion of back to back claims. *)

\* The registers keep their types, however software claims.
THEOREM TypeCorrect == Spec => []TypeOK
<1>1. Init => TypeOK
  BY PlicAssumption DEF Init, TypeOK, Prio, Sources
<1>2. TypeOK /\ [Next]_vars => TypeOK'
  <2>. SUFFICES ASSUME TypeOK, [Next]_vars PROVE TypeOK'
    OBVIOUS
  <2>1. ASSUME NEW kind \in {"idle", "claim", "complete", "config"}, NEW claim, NEW complete,
               Cycle(kind, claim, complete),
               prio' \in [Sources -> Prio], ie' \subseteq Sources, threshold' \in Prio,
               held' \subseteq Sources
        PROVE  TypeOK'
    <3>1. irq_id' \in 0 .. N_SOURCE
      BY <2>1, WinnerIsCandidate DEF Cycle, TargetEdge
    <3>2. /\ ip' \subseteq Sources /\ ia' \subseteq Sources
          /\ src' \subseteq Sources /\ src_d' \subseteq Sources /\ last' = kind
      BY <2>1 DEF TypeOK, Cycle, GatewayEdge, Set
    <3>. QED
      BY <2>1, <3>1, <3>2 DEF TypeOK
  <2>2. CASE Idle
    BY <2>1, <2>2 DEF Idle, config, TypeOK
  <2>3. CASE Claim
    <3>1. held' \subseteq Sources
      BY <2>3 DEF Claim, TypeOK, Sources
    <3>2. Cycle("claim", {irq_id} \ {0}, {}) /\ UNCHANGED config
      BY <2>3 DEF Claim
    <3>. QED
      BY <2>1, <3>1, <3>2 DEF config, TypeOK
  <2>4. ASSUME NEW s \in Sources, Complete(s) PROVE TypeOK'
    BY <2>1, <2>4 DEF Complete, config, TypeOK
  <2>5. ASSUME NEW s \in Sources, NEW p \in Prios, WritePrio(s, p) PROVE TypeOK'
    <3>1. prio' \in [Sources -> Prio]
      BY <2>5, PlicAssumption DEF WritePrio, TypeOK
    <3>. QED
      BY <2>1, <2>5, <3>1 DEF WritePrio, TypeOK
  <2>6. ASSUME NEW mask \in Masks, WriteIE(mask) PROVE TypeOK'
    BY <2>1, <2>6, PlicAssumption DEF WriteIE, TypeOK
  <2>7. ASSUME NEW p \in Prios, WriteThreshold(p) PROVE TypeOK'
    BY <2>1, <2>7, PlicAssumption DEF WriteThreshold, TypeOK
  <2>8. CASE UNCHANGED vars
    BY <2>8 DEF vars, lines, gateway, config, TypeOK
  <2>. QED
    BY <2>2, <2>3, <2>4, <2>5, <2>6, <2>7, <2>8 DEF Next
<1>. QED
  BY <1>1, <1>2, PTL DEF Spec
-------------------------------------------------------------------------------
(* The arbiter's loop *)

\* Of two candidates at most one beats the other.
LEMMA BeatsOneWay ==
    ASSUME TypeOK, NEW s \in Sources, NEW t \in Sources
    PROVE  ~(Beats(s, t) /\ Beats(t, s))
<1>1. s \in Nat /\ t \in Nat /\ prio[s] \in Nat /\ prio[t] \in Nat
  BY PlicAssumption DEF TypeOK, Sources, Prio
<1>. QED
  BY <1>1 DEF Beats

\* The loop over the sources, from the highest id down, ends with the winner.
LEMMA ScanIsWinner ==
    ASSUME TypeOK
    PROVE  Scan = Winner
<1>. DEFINE Body(g, i) == IF i = N_SOURCE THEN [max_prio |-> Floor, id |-> 0]
                          ELSE IF i + 1 \in ip \cap ie /\ prio[i + 1] >= g[i + 1].max_prio
                               THEN [max_prio |-> prio[i + 1], id |-> i + 1]
                               ELSE g[i + 1]
            Part(g, k) == g = [i \in k .. N_SOURCE |-> Body(g, i)]
            loop == CHOOSE g : Part(g, 0)
            Above(i) == {s \in Candidates : s > i}
            Best(r, i) == IF Above(i) = {} THEN r = [max_prio |-> Floor, id |-> 0]
                          ELSE /\ r.id \in Above(i) /\ r.max_prio = prio[r.id]
                               /\ \A t \in Above(i) \ {r.id} : Beats(r.id, t)
<1>1. N_SOURCE \in Nat \ {0} /\ Floor \in Nat
      /\ \A s \in Sources : s \in Nat /\ prio[s] \in Nat
  BY PlicAssumption DEF TypeOK, Sources, Prio, Floor
<1>2. Scan = loop[0].id
  BY DEF Scan
<1>. HIDE DEF Body, Part, loop, Best
\* The loop exists: it is defined from the top down.
<1>3. \A n \in 0 .. N_SOURCE : \E g : Part(g, N_SOURCE - n)
  <2>. DEFINE Bad == {n \in 0 .. N_SOURCE : ~\E g : Part(g, N_SOURCE - n)}
  <2>. SUFFICES ASSUME Bad # {} PROVE FALSE
    OBVIOUS
  <2>1. Bad \subseteq Nat
    OBVIOUS
  <2>. HIDE DEF Bad
  <2>2. PICK n \in Bad : \A m \in Bad : n <= m
    BY <2>1, LeastNat
  <2>3. n \in 0 .. N_SOURCE /\ ~\E g : Part(g, N_SOURCE - n)
    BY DEF Bad
  <2>4. n # 0
    <3>1. \A i \in N_SOURCE - 0 .. N_SOURCE : i = N_SOURCE
      BY <1>1
    <3>2. Part([i \in N_SOURCE - 0 .. N_SOURCE |-> [max_prio |-> Floor, id |-> 0]], N_SOURCE - 0)
      BY <3>1 DEF Part, Body
    <3>. QED
      BY <3>2, <2>3
  <2>5. n - 1 \in 0 .. N_SOURCE /\ n - 1 \notin Bad
    BY <2>2, <2>3, <2>4, <1>1
  <2>. DEFINE k == N_SOURCE - n
  <2>6. PICK g : Part(g, k + 1)
    <3>1. N_SOURCE - (n - 1) = k + 1
      BY <2>3, <1>1
    <3>. QED
      BY <2>5, <3>1 DEF Bad
  <2>10. k \in Nat /\ k < N_SOURCE
    BY <2>3, <2>4, <1>1
  <2>11. ~\E h : Part(h, k)
    BY <2>3
  <2>. HIDE DEF k
  <2>. DEFINE h == [i \in k .. N_SOURCE |-> Body(g, i)]
  <2>7. \A i \in k + 1 .. N_SOURCE : h[i] = g[i]
    <3>1. \A i \in k + 1 .. N_SOURCE : i \in k .. N_SOURCE /\ g[i] = Body(g, i)
      BY <1>1, <2>10, <2>6 DEF Part
    <3>. QED
      BY <3>1
  <2>8. \A i \in k .. N_SOURCE : Body(h, i) = Body(g, i)
    <3>. SUFFICES ASSUME NEW i \in k .. N_SOURCE PROVE Body(h, i) = Body(g, i)
      OBVIOUS
    <3>1. CASE i = N_SOURCE
      BY <3>1 DEF Body
    <3>2. CASE i # N_SOURCE
      <4>1. i + 1 \in k + 1 .. N_SOURCE
        BY <3>2, <2>10, <1>1
      <4>2. h[i + 1] = g[i + 1]
        BY <4>1, <2>7
      <4>. HIDE DEF h
      <4>. QED
        BY <4>2 DEF Body
    <3>. QED
      BY <3>1, <3>2
  <2>9. Part(h, k)
    <3>1. h = [i \in k .. N_SOURCE |-> Body(h, i)]
      BY <2>8
    <3>. HIDE DEF h
    <3>. QED
      BY <3>1 DEF Part
  <2>. HIDE DEF h
  <2>. QED
    BY <2>9, <2>11
<1>4. \A i \in 0 .. N_SOURCE : loop[i] = Body(loop, i)
  <2>1. N_SOURCE \in 0 .. N_SOURCE /\ N_SOURCE - N_SOURCE = 0
    BY <1>1
  <2>2. \E g : Part(g, 0)
    BY <2>1, <1>3
  <2>3. Part(loop, 0)
    BY <2>2 DEF loop
  <2>4. loop = [i \in 0 .. N_SOURCE |-> Body(loop, i)]
    BY <2>3 DEF Part
  <2>. QED
    BY <2>4
\* One iteration keeps the best source.
<1>5. ASSUME NEW i \in 0 .. N_SOURCE - 1, NEW r, Best(r, i + 1)
      PROVE  Best(IF i + 1 \in ip \cap ie /\ prio[i + 1] >= r.max_prio
                  THEN [max_prio |-> prio[i + 1], id |-> i + 1] ELSE r, i)
  <2>. DEFINE s == i + 1
              new == [max_prio |-> prio[i + 1], id |-> i + 1]
  <2>1. s \in Sources /\ s \in Nat /\ prio[s] \in Nat /\ i \in Nat /\ Candidates \subseteq Sources
    <3>1. s \in Sources /\ i \in Nat
      BY <1>1 DEF Sources
    <3>. QED
      BY <3>1, <1>1 DEF Candidates, TypeOK
  <2>2. Above(i) = Above(i + 1) \cup ({s} \cap Candidates)
    <3>1. \A t \in Candidates : t > i <=> t > i + 1 \/ t = i + 1
      BY <2>1, <1>1
    <3>. QED
      BY <3>1
  <2>3. \A t \in Above(i + 1) : t \in Candidates /\ t \in Sources /\ t > s /\ t \in Nat /\ prio[t] \in Nat /\ prio[t] >= Floor
    BY <2>1, <1>1 DEF Candidates
  <2>4. s \in Candidates <=> s \in ip \cap ie /\ prio[s] >= Floor
    BY DEF Candidates
  <2>. HIDE DEF s
  <2>5. s = i + 1
    BY DEF s
  <2>. HIDE DEF Above
  <2>6. CASE Above(i + 1) = {}
    <3>1. r = [max_prio |-> Floor, id |-> 0]
      BY <2>6, <1>5 DEF Best
    <3>2. r.max_prio = Floor
      BY <3>1
    <3>3. CASE s \in Candidates
      <4>1. Above(i) = {s}
        BY <2>2, <2>6, <3>3
      <4>2. Best(new, i)
        BY <4>1, <2>5 DEF Best
      <4>. QED
        BY <4>2, <3>2, <3>3, <2>4, <2>5
    <3>4. CASE s \notin Candidates
      <4>1. Above(i) = {}
        BY <2>2, <2>6, <3>4
      <4>2. Best(r, i)
        BY <4>1, <3>1 DEF Best
      <4>. QED
        BY <4>2, <3>2, <3>4, <2>4, <2>5
    <3>. QED
      BY <3>3, <3>4
  <2>7. CASE Above(i + 1) # {}
    <3>1. /\ r.id \in Above(i + 1) /\ r.max_prio = prio[r.id]
          /\ \A t \in Above(i + 1) \ {r.id} : Beats(r.id, t)
      BY <2>7, <1>5 DEF Best
    <3>2. r.id \in Candidates /\ r.id > s /\ r.id \in Nat /\ prio[r.id] \in Nat /\ prio[r.id] >= Floor
      BY <3>1, <2>3
    <3>3. CASE s \in ip \cap ie /\ prio[s] >= r.max_prio
      <4>1. s \in Candidates /\ prio[s] >= prio[r.id]
        BY <3>1, <3>2, <3>3, <2>1, <2>4, <1>1
      <4>2. s \in Above(i) /\ Above(i) \ {s} \subseteq Above(i + 1)
        BY <4>1, <2>2
      <4>3. \A t \in Above(i + 1) : prio[r.id] >= prio[t]
        <5>1. ASSUME NEW t \in Above(i + 1) PROVE prio[r.id] >= prio[t]
          <6>1. t \in Nat /\ prio[t] \in Nat
            BY <2>3
          <6>. QED
            BY <6>1, <3>1, <3>2 DEF Beats
        <5>. QED
          BY <5>1
      <4>4. \A t \in Above(i + 1) : Beats(s, t)
        <5>1. ASSUME NEW t \in Above(i + 1) PROVE Beats(s, t)
          <6>1. t \in Nat /\ prio[t] \in Nat /\ t > s /\ prio[r.id] >= prio[t]
            BY <2>3, <4>3
          <6>. QED
            BY <6>1, <4>1, <3>2, <2>1 DEF Beats
        <5>. QED
          BY <5>1
      <4>5. Best(new, i)
        BY <4>2, <4>4, <2>5 DEF Best
      <4>. QED
        BY <4>5, <3>3, <2>5
    <3>4. CASE ~(s \in ip \cap ie /\ prio[s] >= r.max_prio)
      <4>1. s \in Candidates => prio[s] < prio[r.id]
        BY <3>1, <3>2, <3>4, <2>1, <2>4
      <4>2. r.id \in Above(i) /\ Above(i) \subseteq Above(i + 1) \cup {s}
        BY <3>1, <2>2
      <4>3. \A t \in Above(i) \ {r.id} : Beats(r.id, t)
        <5>1. s \in Candidates => Beats(r.id, s)
          BY <4>1, <3>2, <2>1 DEF Beats
        <5>. QED
          BY <5>1, <3>1, <2>2
      <4>4. Best(r, i)
        BY <4>2, <4>3, <3>1 DEF Best
      <4>. QED
        BY <4>4, <3>4, <2>5
    <3>. QED
      BY <3>3, <3>4
  <2>. QED
    BY <2>6, <2>7
<1>6. \A n \in 0 .. N_SOURCE : Best(loop[N_SOURCE - n], N_SOURCE - n)
  <2>. DEFINE Bad == {n \in 0 .. N_SOURCE : ~Best(loop[N_SOURCE - n], N_SOURCE - n)}
  <2>. SUFFICES ASSUME Bad # {} PROVE FALSE
    OBVIOUS
  <2>1. Bad \subseteq Nat
    OBVIOUS
  <2>. HIDE DEF Bad
  <2>2. PICK n \in Bad : \A m \in Bad : n <= m
    BY <2>1, LeastNat
  <2>3. n \in 0 .. N_SOURCE /\ ~Best(loop[N_SOURCE - n], N_SOURCE - n)
    BY DEF Bad
  <2>4. n # 0
    <3>1. N_SOURCE - 0 = N_SOURCE /\ N_SOURCE \in 0 .. N_SOURCE
      BY <1>1
    <3>2. loop[N_SOURCE] = [max_prio |-> Floor, id |-> 0]
      BY <3>1, <1>4 DEF Body
    <3>3. Above(N_SOURCE) = {}
      <4>1. \A s \in Candidates : s \in 1 .. N_SOURCE
        BY DEF Candidates, TypeOK, Sources
      <4>. QED
        BY <4>1, <1>1
    <3>4. Best(loop[N_SOURCE], N_SOURCE)
      BY <3>2, <3>3 DEF Best
    <3>. QED
      BY <3>1, <3>4, <2>3
  <2>5. n - 1 \in 0 .. N_SOURCE /\ n - 1 \notin Bad
    BY <2>2, <2>3, <2>4, <1>1
  <2>. DEFINE i == N_SOURCE - n
  <2>6. i \in 0 .. N_SOURCE - 1 /\ i \in 0 .. N_SOURCE /\ i # N_SOURCE /\ N_SOURCE - (n - 1) = i + 1
    BY <2>3, <2>4, <1>1
  <2>7. Best(loop[i + 1], i + 1)
    <3>1. Best(loop[N_SOURCE - (n - 1)], N_SOURCE - (n - 1))
      BY <2>5 DEF Bad
    <3>. QED
      BY <3>1, <2>6
  <2>9. ~Best(loop[i], i)
    BY <2>3
  <2>. HIDE DEF i
  <2>8. loop[i] = IF i + 1 \in ip \cap ie /\ prio[i + 1] >= loop[i + 1].max_prio
                  THEN [max_prio |-> prio[i + 1], id |-> i + 1] ELSE loop[i + 1]
    BY <2>6, <1>4 DEF Body
  <2>. QED
    BY <2>6, <2>7, <2>8, <2>9, <1>5
<1>7. Best(loop[0], 0)
  <2>1. N_SOURCE \in 0 .. N_SOURCE /\ N_SOURCE - N_SOURCE = 0
    BY <1>1
  <2>. QED
    BY <2>1, <1>6
<1>8. Above(0) = Candidates /\ Candidates \subseteq Sources
  <2>1. Candidates \subseteq Sources
    BY DEF Candidates, TypeOK
  <2>2. \A s \in Candidates : s > 0
    BY <2>1, <1>1 DEF Sources
  <2>. QED
    BY <2>1, <2>2
<1>. HIDE DEF Above
<1>9. CASE Candidates = {}
  <2>1. loop[0] = [max_prio |-> Floor, id |-> 0]
    BY <1>7, <1>8, <1>9 DEF Best
  <2>. QED
    BY <2>1, <1>2, <1>9 DEF Winner
<1>10. CASE Candidates # {}
  <2>. DEFINE w == loop[0].id
  <2>1. w \in Candidates /\ \A t \in Candidates \ {w} : Beats(w, t)
    BY <1>7, <1>8, <1>10 DEF Best
  <2>. HIDE DEF w
  <2>2. \A s \in Candidates : (\A t \in Candidates \ {s} : Beats(s, t)) => s = w
    <3>. SUFFICES ASSUME NEW s \in Candidates, \A t \in Candidates \ {s} : Beats(s, t), s # w
                  PROVE  FALSE
      OBVIOUS
    <3>1. Beats(s, w) /\ Beats(w, s)
      BY <2>1
    <3>. QED
      BY <3>1, <2>1, <1>8, BeatsOneWay
  <2>3. (CHOOSE s \in Candidates : \A t \in Candidates \ {s} : Beats(s, t)) = w
    BY <2>1, <2>2
  <2>4. Winner = w
    BY <2>3, <1>10 DEF Winner
  <2>. QED
    BY <2>4, <1>2 DEF w
<1>. QED
  BY <1>9, <1>10

\* For every number of sources and every setting, the loop of the arbiter finds
\* the pending, enabled source of the highest priority and the lowest id.
THEOREM LoopFindsWinner == Spec => []ScanFindsWinner
<1>1. TypeOK => ScanFindsWinner
  BY ScanIsWinner DEF ScanFindsWinner
<1>. QED
  BY <1>1, TypeCorrect, PTL
===============================================================================
