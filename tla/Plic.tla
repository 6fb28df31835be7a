--------------------------------- MODULE Plic ---------------------------------
(***************************************************************************)
(* The platform-level interrupt controller with one target: the gateway    *)
(* (rv_plic_gateway), the arbiter (rv_plic_target), the registers          *)
(* (plic_top, plic_regmap) and the software that claims, services and      *)
(* completes interrupts through them.                                      *)
(*                                                                         *)
(* Every step is one clock edge.  During a cycle at most one request is on *)
(* the register bus: a claim read, a completion, a configuration write, or *)
(* nothing that changes state (Idle: no request, any other read, an        *)
(* unmapped address).  The interrupt lines move freely from cycle to       *)
(* cycle.  The arbiter's output is registered, so that the claim register  *)
(* shows what was pending one cycle ago.                                   *)
(***************************************************************************)
EXTENDS Naturals, FiniteSets

CONSTANTS N_SOURCE,     \* number of sources; source ids are 1 .. N_SOURCE
          PrioMod,      \* 2^PRIOW: a priority field holds 0 .. PrioMod - 1
          Edge,         \* sources with le = 1, the others are level-triggered
          Prios, Masks, \* priorities, thresholds and enable masks software writes
          BackToBack    \* software may read the claim register in two
                        \* consecutive cycles (Ibex with WritebackStage = 1)

Sources == 1 .. N_SOURCE
Prio    == 0 .. PrioMod - 1

ASSUME PlicAssumption ==
    /\ N_SOURCE \in Nat \ {0} /\ PrioMod \in Nat \ {0}
    /\ Edge \subseteq Sources
    /\ Prios \subseteq Prio /\ Masks \subseteq SUBSET Sources
    /\ BackToBack \in BOOLEAN

VARIABLES
    src, src_d,             \* interrupt lines now, and one cycle ago
    ip, ia,                 \* gateway: interrupt pending, interrupt active
    prio, ie, threshold,    \* configuration registers
    irq_id,                 \* arbiter output, 0 for none: the claim register
    held,                   \* history: claimed by software, not completed
    last                    \* history: what the last cycle's request was

lines   == <<src, src_d>>
gateway == <<ip, ia>>
config  == <<prio, ie, threshold>>
vars    == <<lines, gateway, config, irq_id, held, last>>
-------------------------------------------------------------------------------
(* The arbiter *)

\* threshold + 1 in PRIOW bits.
Floor == (threshold + 1) % PrioMod

\* Mutant: a priority equal to the threshold is enough.
CandidatesAtThreshold == {s \in ip \cap ie : prio[s] >= threshold}

Candidates == {s \in ip \cap ie : prio[s] >= Floor}

Beats(s, t) == prio[s] > prio[t] \/ (prio[s] = prio[t] /\ s < t)

\* Mutant: the id is incremented twice.
WinnerOffByOne ==
    IF Candidates = {} THEN 0
    ELSE 1 + CHOOSE s \in Candidates : \A t \in Candidates \ {s} : Beats(s, t)

\* Mutant: the lowest id wins, whatever its priority.
WinnerLowestId ==
    IF Candidates = {} THEN 0
    ELSE CHOOSE s \in Candidates : \A t \in Candidates : s <= t

\* The candidate with the highest priority, of those the lowest id.
Winner ==
    IF Candidates = {} THEN 0
    ELSE CHOOSE s \in Candidates : \A t \in Candidates \ {s} : Beats(s, t)

\* Mutant: the loop replaces the best source by one of equal priority from
\* the lowest id upwards.
ScanUpwards ==
    LET loop[i \in 0 .. N_SOURCE] ==
          IF i = 0 THEN [max_prio |-> Floor, id |-> 0]
          ELSE IF i \in ip \cap ie /\ prio[i] >= loop[i - 1].max_prio
               THEN [max_prio |-> prio[i], id |-> i]
               ELSE loop[i - 1]
    IN  loop[N_SOURCE].id

\* The same by the sequential loop of the code: loop[i] is its state after the
\* iterations for N_SOURCE down to i + 1.
Scan ==
    LET loop[i \in 0 .. N_SOURCE] ==
          IF i = N_SOURCE THEN [max_prio |-> Floor, id |-> 0]
          ELSE IF i + 1 \in ip \cap ie /\ prio[i + 1] >= loop[i + 1].max_prio
               THEN [max_prio |-> prio[i + 1], id |-> i + 1]
               ELSE loop[i + 1]
    IN  loop[0].id

\* eip_targets_o, registered together with the id.
irq == irq_id # 0
-------------------------------------------------------------------------------
(* Clock edges *)

\* The sources that the lines ask to set in this cycle.
Set == {s \in src : s \in Edge => s \notin src_d}

\* Mutant: an active source can become pending again.
GatewayEdgeReentrant(claim, complete) ==
    /\ ip' = (ip \cup Set) \ claim
    /\ ia' = (ia \cup Set) \ complete
    /\ src_d' = src
    /\ src' \in SUBSET Sources

GatewayEdge(claim, complete) ==
    /\ ip' = (ip \cup (Set \ ia)) \ claim
    /\ ia' = (ia \cup Set) \ complete
    /\ src_d' = src
    /\ src' \in SUBSET Sources

TargetEdge == irq_id' = Winner

\* One cycle with a request of the given kind.
Cycle(kind, claim, complete) ==
    /\ GatewayEdge(claim, complete)
    /\ TargetEdge
    /\ last' = kind

Init ==
    /\ src = {} /\ src_d = {}
    /\ ip = {} /\ ia = {}
    /\ prio = [s \in Sources |-> 0] /\ ie = {} /\ threshold = 0
    /\ irq_id = 0
    /\ held = {} /\ last = "idle"

Idle ==
    /\ Cycle("idle", {}, {})
    /\ UNCHANGED <<config, held>>

\* Mutant: the claim does not clear the pending bit.
ClaimKeepsPending ==
    /\ BackToBack \/ last # "claim"
    /\ Cycle("claim", {}, {})
    /\ held' = held \cup ({irq_id} \ {0})
    /\ UNCHANGED config

\* A read of the claim register returns irq_id and clears its pending bit.
Claim ==
    /\ BackToBack \/ last # "claim"
    /\ Cycle("claim", {irq_id} \ {0}, {})
    /\ held' = held \cup ({irq_id} \ {0})
    /\ UNCHANGED config

\* Software writes back an id that it has claimed.
Complete(s) ==
    /\ s \in held
    /\ Cycle("complete", {}, {s})
    /\ held' = held \ {s}
    /\ UNCHANGED config

WritePrio(s, p) ==
    /\ Cycle("config", {}, {})
    /\ prio' = [prio EXCEPT ![s] = p]
    /\ UNCHANGED <<ie, threshold, held>>

WriteIE(mask) ==
    /\ Cycle("config", {}, {})
    /\ ie' = mask
    /\ UNCHANGED <<prio, threshold, held>>

WriteThreshold(p) ==
    /\ Cycle("config", {}, {})
    /\ threshold' = p
    /\ UNCHANGED <<prio, ie, held>>

Next ==
    \/ Idle
    \/ Claim
    \/ \E s \in Sources : Complete(s)
    \/ \E s \in Sources, p \in Prios : WritePrio(s, p)
    \/ \E mask \in Masks : WriteIE(mask)
    \/ \E p \in Prios : WriteThreshold(p)

Spec == Init /\ [][Next]_vars

\* The clock runs; software that keeps being interrupted claims, and it
\* completes what it has claimed.
Fairness ==
    /\ WF_vars(Next)
    /\ WF_vars(irq /\ Claim)
    /\ \A s \in Sources : WF_vars(Complete(s))

FairSpec == Spec /\ Fairness
-------------------------------------------------------------------------------
(* Properties *)

\* Type correctness of the registers and of the history.
TypeOK ==
    /\ src \subseteq Sources /\ src_d \subseteq Sources
    /\ ip \subseteq Sources /\ ia \subseteq Sources
    /\ prio \in [Sources -> Prio] /\ ie \subseteq Sources /\ threshold \in Prio
    /\ irq_id \in 0 .. N_SOURCE
    /\ held \subseteq Sources /\ last \in {"idle", "claim", "complete", "config"}

\* The gateway lets a source through once: an active source is either pending
\* or in service, never both, and an idle one is neither.
OneAtATime == ip \cap held = {} /\ ia = ip \cup held

\* Although the claim register lags by a cycle, it never hands out a source
\* that is already in service.
ClaimDropsSource == [][last' = "claim" => irq_id \notin held]_vars

\* One quiet cycle after the last claim and the last configuration write, the
\* source in the claim register is pending, enabled and, unless the threshold
\* has its highest value, strictly above the threshold.
ClaimIsEligible ==
    irq /\ last \notin {"claim", "config"} =>
        /\ irq_id \in ip \cap ie
        /\ threshold + 1 < PrioMod => prio[irq_id] > threshold

\* The arbiter's sequential loop finds the highest priority, lowest id source.
ScanFindsWinner == Scan = Winner

\* Source s is preferred to every other enabled source.
IsTop(s) ==
    /\ s \in ie /\ prio[s] > threshold
    /\ \A t \in ie \ {s} : Beats(s, t)

\* A source that asks for service while idle is claimed, as long as no other
\* enabled source is preferred to it.
TopIsServed ==
    \A s \in Sources :
        s \in Set \ ia /\ IsTop(s) ~> s \in held \/ ~IsTop(s)

\* A source of priority 0 never interrupts.
PriorityZeroIsSilent ==
    irq /\ last \notin {"claim", "config"} => prio[irq_id] # 0
===============================================================================
