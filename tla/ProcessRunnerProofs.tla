-------------------------- MODULE ProcessRunnerProofs --------------------------
(***************************************************************************)
(* What every step of the process scheduler preserves, for any number of   *)
(* commands, any memory and any number of CPUs.                            *)
(***************************************************************************)
EXTENDS ProcessRunner, SequenceTheorems, FiniteSetTheorems, WellFoundedInduction, TLAPS

(* Sequences *)

\* A nonempty set of natural numbers has a least element.
LEMMA LeastNumber ==
    ASSUME NEW T, T \subseteq Nat, T # {}
    PROVE  \E x \in T : \A y \in T : x <= y
<1>1. PICK x \in T : \A y \in T : ~(<<y, x>> \in OpToRel(<, Nat))
  BY NatLessThanWellFounded, WFMin
<1>2. \A y \in T : ~(y < x)
  BY <1>1 DEF OpToRel
<1>. QED
  BY <1>2

\* What the prefix of a nonempty sequence keeps, and what it loses.
LEMMA FrontLast ==
    ASSUME NEW D, NEW s \in Seq(D), s # <<>>
    PROVE  /\ Last(s) \in D /\ Last(s) \in Range(s)
           /\ Front(s) \in Seq(D) /\ Len(Front(s)) = Len(s) - 1 /\ Len(s) \in Nat \ {0}
           /\ Range(s) = Range(Front(s)) \cup {Last(s)}
           /\ IsInjective(s) => IsInjective(Front(s)) /\ Last(s) \notin Range(Front(s))
<1>1. Len(s) \in Nat \ {0} /\ DOMAIN s = 1 .. Len(s) /\ \A i \in 1 .. Len(s) : s[i] \in D
  BY EmptySeq, LenProperties, ElementOfSeq
<1>2. /\ Front(s) \in Seq(D) /\ Len(Front(s)) = Len(s) - 1
      /\ \A i \in 1 .. Len(s) - 1 : Front(s)[i] = s[i]
  <2>1. \A i \in 1 .. Len(s) - 1 : s[i] \in D
    BY <1>1
  <2>2. /\ SubSeq(s, 1, Len(s) - 1) \in Seq(D)
        /\ Len(SubSeq(s, 1, Len(s) - 1)) = IF 1 <= Len(s) - 1 THEN Len(s) - 1 - 1 + 1 ELSE 0
        /\ \A i \in 1 .. Len(s) - 1 - 1 + 1 : SubSeq(s, 1, Len(s) - 1)[i] = s[1 + i - 1]
    <3>1. 1 \in Int /\ Len(s) - 1 \in Int
      BY <1>1
    <3>. QED
      BY <2>1, <3>1, SubSeqProperties
  <2>. QED
    BY <2>2, <1>1 DEF Front
<1>3. DOMAIN Front(s) = 1 .. Len(s) - 1
  BY <1>2, LenProperties
<1>. QED
  BY <1>1, <1>2, <1>3 DEF Last, Range, IsInjective

\* Appending an element that is not in an injective sequence.
LEMMA AppendNew ==
    ASSUME NEW D, NEW s \in Seq(D), NEW e \in D
    PROVE  /\ Append(s, e) \in Seq(D) /\ Len(Append(s, e)) = Len(s) + 1 /\ Len(s) \in Nat
           /\ Range(Append(s, e)) = Range(s) \cup {e}
           /\ IsInjective(s) /\ e \notin Range(s) => IsInjective(Append(s, e))
<1>1. /\ Append(s, e) \in Seq(D) /\ Len(Append(s, e)) = Len(s) + 1
      /\ \A i \in 1 .. Len(s) : Append(s, e)[i] = s[i]
      /\ Append(s, e)[Len(s) + 1] = e
  BY AppendProperties
<1>2. Len(s) \in Nat /\ DOMAIN s = 1 .. Len(s) /\ DOMAIN Append(s, e) = 1 .. Len(s) + 1
  BY <1>1, LenProperties
<1>. QED
  BY <1>1, <1>2 DEF Range, IsInjective

\* Putting it at the front.
LEMMA PrependNew ==
    ASSUME NEW D, NEW s \in Seq(D), NEW e \in D
    PROVE  /\ <<e>> \o s \in Seq(D)
           /\ Range(<<e>> \o s) = Range(s) \cup {e}
           /\ IsInjective(s) /\ e \notin Range(s) => IsInjective(<<e>> \o s)
<1>0. <<e>> \in Seq(D) /\ Len(<<e>>) = 1 /\ <<e>>[1] = e
  OBVIOUS
<1>1. /\ <<e>> \o s \in Seq(D) /\ Len(<<e>> \o s) = 1 + Len(s)
      /\ \A i \in 1 .. 1 + Len(s) : (<<e>> \o s)[i] = IF i <= 1 THEN <<e>>[i] ELSE s[i - 1]
  BY <1>0, ConcatProperties
<1>2. Len(s) \in Nat /\ DOMAIN s = 1 .. Len(s) /\ DOMAIN (<<e>> \o s) = 1 .. 1 + Len(s)
  BY <1>1, LenProperties
<1>. DEFINE r == <<e>> \o s
<1>3. r[1] = e /\ \A i \in 2 .. 1 + Len(s) : r[i] = s[i - 1]
  BY <1>0, <1>1, <1>2
<1>4. Range(r) = Range(s) \cup {e}
  <2>1. Range(r) \subseteq Range(s) \cup {e}
    BY <1>2, <1>3 DEF Range
  <2>2. \A j \in 1 .. Len(s) : r[j + 1] = s[j] /\ j + 1 \in DOMAIN r
    BY <1>2, <1>3
  <2>3. 1 \in DOMAIN r
    BY <1>2
  <2>. HIDE DEF r
  <2>4. Range(s) \subseteq Range(r)
    BY <2>2, <1>2 DEF Range
  <2>5. e \in Range(r)
    BY <2>3, <1>3 DEF Range
  <2>. QED
    BY <2>1, <2>4, <2>5
<1>5. IsInjective(s) /\ e \notin Range(s) => IsInjective(r)
  BY <1>2, <1>3 DEF Range, IsInjective
<1>. QED
  BY <1>1, <1>4, <1>5

\* Turning an injective sequence round.
LEMMA ReverseInjective ==
    ASSUME NEW D, NEW s \in Seq(D), IsInjective(s)
    PROVE  Reverse(s) \in Seq(D) /\ Range(Reverse(s)) = Range(s) /\ IsInjective(Reverse(s))
<1>1. Len(s) \in Nat /\ DOMAIN s = 1 .. Len(s) /\ \A i \in 1 .. Len(s) : s[i] \in D
  BY LenProperties, ElementOfSeq
<1>2. DOMAIN Reverse(s) = 1 .. Len(s) /\ \A i \in 1 .. Len(s) : Reverse(s)[i] = s[Len(s) - i + 1]
  BY DEF Reverse
<1>3. \A i \in 1 .. Len(s) : Len(s) - i + 1 \in 1 .. Len(s)
  BY <1>1
<1>4. Reverse(s) \in Seq(D)
  <2>1. Reverse(s) \in [1 .. Len(s) -> D]
    BY <1>1, <1>3 DEF Reverse
  <2>. QED
    BY <2>1, <1>1
<1>5. Range(Reverse(s)) = Range(s)
  <2>1. \A i \in 1 .. Len(s) : s[i] = Reverse(s)[Len(s) - i + 1]
    <3>1. \A i \in 1 .. Len(s) : Len(s) - (Len(s) - i + 1) + 1 = i
      BY <1>1
    <3>. QED
      BY <1>2, <1>3, <3>1
  <2>. QED
    BY <1>1, <1>2, <1>3, <2>1 DEF Range
<1>6. IsInjective(Reverse(s))
  <2>. SUFFICES ASSUME NEW a \in 1 .. Len(s), NEW b \in 1 .. Len(s), Reverse(s)[a] = Reverse(s)[b]
                PROVE  a = b
    BY <1>2 DEF IsInjective
  <2>1. Len(s) - a + 1 = Len(s) - b + 1
    BY <1>1, <1>2, <1>3 DEF IsInjective
  <2>. QED
    BY <2>1, <1>1
<1>. QED
  BY <1>4, <1>5, <1>6

\* The loop over running leaves the elements that have not ended, in order.
LEMMA SurvivorsFacts ==
    ASSUME NEW D, NEW s \in Seq(D), NEW E, IsInjective(s)
    PROVE  /\ Survivors(s, E) \in Seq(D) /\ Len(Survivors(s, E)) <= Len(s)
           /\ Range(Survivors(s, E)) = Range(s) \ E /\ IsInjective(Survivors(s, E))
<1>. DEFINE Body(g, i) == IF i = 0 THEN <<>>
                          ELSE IF s[i] \in E THEN g[i - 1] ELSE Append(g[i - 1], s[i])
            Part(g, n) == g = [i \in 0 .. n |-> Body(g, i)]
            kept == CHOOSE g : Part(g, Len(s))
            Good(i) == /\ kept[i] \in Seq(D) /\ Len(kept[i]) <= i
                       /\ Range(kept[i]) = {s[j] : j \in 1 .. i} \ E
                       /\ IsInjective(kept[i])
<1>1. Len(s) \in Nat /\ DOMAIN s = 1 .. Len(s) /\ \A i \in 1 .. Len(s) : s[i] \in D
  BY LenProperties, ElementOfSeq
<1>4. Survivors(s, E) = kept[Len(s)]
  BY DEF Survivors
<1>. HIDE DEF Body, Part, kept, Good
<1>2. \A n \in 0 .. Len(s) : \E g : Part(g, n)
  <2>. DEFINE Bad == {n \in 0 .. Len(s) : ~\E g : Part(g, n)}
  <2>. SUFFICES ASSUME Bad # {} PROVE FALSE
    OBVIOUS
  <2>1. Bad \subseteq Nat
    OBVIOUS
  <2>. HIDE DEF Bad
  <2>2. PICK n \in Bad : \A m \in Bad : n <= m
    BY <2>1, LeastNumber
  <2>3. n \in 0 .. Len(s) /\ ~\E g : Part(g, n)
    BY DEF Bad
  <2>4. n # 0
    <3>1. Part([i \in 0 .. 0 |-> <<>>], 0)
      BY DEF Part, Body
    <3>. QED
      BY <3>1, <2>3
  <2>5. n - 1 \in 0 .. Len(s) /\ n - 1 \notin Bad
    BY <2>2, <2>3, <2>4, <1>1
  <2>6. PICK g : Part(g, n - 1)
    BY <2>5 DEF Bad
  <2>. DEFINE h == [i \in 0 .. n |-> Body(g, i)]
  <2>7. \A i \in 0 .. n - 1 : h[i] = g[i]
    <3>1. \A i \in 0 .. n - 1 : i \in 0 .. n /\ g[i] = Body(g, i)
      BY <2>3, <2>6 DEF Part
    <3>. QED
      BY <3>1
  <2>8. \A i \in 0 .. n : Body(h, i) = Body(g, i)
    <3>. SUFFICES ASSUME NEW i \in 0 .. n PROVE Body(h, i) = Body(g, i)
      OBVIOUS
    <3>1. CASE i = 0
      BY <3>1 DEF Body
    <3>2. CASE i # 0
      <4>1. i - 1 \in 0 .. n - 1
        BY <3>2, <2>3
      <4>2. h[i - 1] = g[i - 1]
        BY <4>1, <2>7
      <4>. HIDE DEF h
      <4>. QED
        BY <4>2 DEF Body
    <3>. QED
      BY <3>1, <3>2
  <2>9. Part(h, n)
    BY <2>8 DEF Part
  <2>. QED
    BY <2>3, <2>9
<1>3. Part(kept, Len(s))
  <2>1. \E g : Part(g, Len(s))
    BY <1>1, <1>2
  <2>. QED
    BY <2>1 DEF kept
<1>5. kept[0] = <<>> /\ \A i \in 1 .. Len(s) : kept[i] = Body(kept, i)
  <2>1. \A i \in 0 .. Len(s) : kept[i] = Body(kept, i)
    BY <1>3 DEF Part
  <2>2. Body(kept, 0) = <<>>
    BY DEF Body
  <2>. QED
    BY <2>1, <2>2, <1>1
<1>6. \A i \in 0 .. Len(s) : Good(i)
  <2>. DEFINE Bad == {i \in 0 .. Len(s) : ~Good(i)}
  <2>. SUFFICES ASSUME Bad # {} PROVE FALSE
    OBVIOUS
  <2>1. Bad \subseteq Nat
    OBVIOUS
  <2>. HIDE DEF Bad
  <2>2. PICK n \in Bad : \A m \in Bad : n <= m
    BY <2>1, LeastNumber
  <2>3. Good(0)
    BY <1>5 DEF Range, IsInjective, Good
  <2>4. n \in 1 .. Len(s) /\ ~Good(n)
    BY <2>3, <1>1 DEF Bad
  <2>5. Good(n - 1)
    <3>1. n - 1 \in 0 .. Len(s) /\ n - 1 \notin Bad
      BY <2>2, <2>4, <1>1
    <3>. QED
      BY <3>1 DEF Bad
  <2>6. {s[j] : j \in 1 .. n} = {s[j] : j \in 1 .. n - 1} \cup {s[n]}
    BY <2>4, <1>1
  <2>7. CASE s[n] \in E
    <3>1. kept[n] = kept[n - 1]
      BY <2>4, <2>7, <1>5 DEF Body
    <3>. QED
      BY <3>1, <2>4, <2>5, <2>6, <2>7, LenProperties DEF Good
  <2>8. CASE s[n] \notin E
    <3>1. kept[n] = Append(kept[n - 1], s[n])
      <4>1. kept[n] = Body(kept, n) /\ n # 0
        BY <2>4, <1>5
      <4>. QED
        BY <4>1, <2>8, Zenon DEF Body
    <3>2. s[n] \in D /\ s[n] \notin Range(kept[n - 1])
      <4>1. \A j \in 1 .. n - 1 : s[j] # s[n]
        BY <2>4, <1>1 DEF IsInjective
      <4>. QED
        BY <4>1, <2>4, <2>5, <1>1 DEF Good
    <3>3. /\ kept[n] \in Seq(D) /\ Len(kept[n]) = Len(kept[n - 1]) + 1 /\ Len(kept[n - 1]) \in Nat
          /\ Range(kept[n]) = Range(kept[n - 1]) \cup {s[n]} /\ IsInjective(kept[n])
      BY <3>1, <3>2, <2>5, AppendNew DEF Good
    <3>. QED
      BY <3>3, <2>4, <2>5, <2>6, <2>8 DEF Good
  <2>. QED
    BY <2>7, <2>8
<1>7. Good(Len(s))
  BY <1>1, <1>6
<1>8. {s[j] : j \in 1 .. Len(s)} = Range(s)
  BY <1>1 DEF Range
<1>. QED
  BY <1>4, <1>7, <1>8 DEF Good

\* A sum of natural numbers over a finite set is a natural number.
LEMMA SumIsNat ==
    ASSUME NEW S, IsFiniteSet(S), NEW f, \A x \in S : f[x] \in Nat
    PROVE  SumOver(f, S) \in Nat
<1>. DEFINE pick(t) == CHOOSE x \in t : TRUE
            Body(g, t) == IF t = {} THEN 0 ELSE f[pick(t)] + g[t \ {pick(t)}]
            Small(n) == {t \in SUBSET S : Cardinality(t) <= n}
            Part(g, n) == g = [t \in Small(n) |-> Body(g, t)]
            iter == CHOOSE g : g = [t \in SUBSET S |-> Body(g, t)]
<1>1. SumOver(f, S) = iter[S]
  BY DEF SumOver, FoldFunctionOnSet, MapThenFoldSet
<1>2. \A t \in SUBSET S : t # {} =>
        /\ pick(t) \in t /\ t \ {pick(t)} \in SUBSET S
        /\ Cardinality(t) \in Nat \ {0} /\ Cardinality(t \ {pick(t)}) = Cardinality(t) - 1
  <2>. SUFFICES ASSUME NEW t \in SUBSET S, t # {}
                PROVE  /\ pick(t) \in t /\ t \ {pick(t)} \in SUBSET S
                       /\ Cardinality(t) \in Nat \ {0}
                       /\ Cardinality(t \ {pick(t)}) = Cardinality(t) - 1
    OBVIOUS
  <2>1. pick(t) \in t
    OBVIOUS
  <2>. HIDE DEF pick
  <2>2. IsFiniteSet(t)
    BY FS_Subset
  <2>3. Cardinality(t) \in Nat /\ Cardinality(t) # 0
    BY <2>2, FS_CardinalityType, FS_EmptySet
  <2>4. Cardinality(t \ {pick(t)}) = Cardinality(t) - 1
    BY <2>1, <2>2, FS_RemoveElement
  <2>. QED
    BY <2>1, <2>3, <2>4
<1>3. Cardinality(S) \in Nat /\ Small(Cardinality(S)) = SUBSET S
  <2>1. \A t \in SUBSET S : Cardinality(t) <= Cardinality(S)
    BY FS_Subset
  <2>. QED
    BY <2>1, FS_CardinalityType
<1>. HIDE DEF pick, Body, Small, Part
<1>4. \A n \in Nat : \E g : Part(g, n)
  <2>. DEFINE Bad == {n \in Nat : ~\E g : Part(g, n)}
  <2>. SUFFICES ASSUME Bad # {} PROVE FALSE
    OBVIOUS
  <2>1. Bad \subseteq Nat
    OBVIOUS
  <2>. HIDE DEF Bad
  <2>2. PICK n \in Bad : \A m \in Bad : n <= m
    BY <2>1, LeastNumber
  <2>3. n \in Nat /\ ~\E g : Part(g, n)
    BY DEF Bad
  <2>4. n # 0
    <3>1. ASSUME NEW t \in Small(0) PROVE t = {}
      <4>1. t \in SUBSET S /\ Cardinality(t) <= 0
        BY DEF Small
      <4>2. t # {} => Cardinality(t) \in Nat \ {0}
        BY <4>1, <1>2
      <4>. QED
        BY <4>1, <4>2
    <3>2. Part([t \in Small(0) |-> 0], 0)
      BY <3>1 DEF Part, Body
    <3>. QED
      BY <3>2, <2>3
  <2>5. n - 1 \in Nat /\ n - 1 \notin Bad
    BY <2>2, <2>3, <2>4
  <2>6. PICK g : Part(g, n - 1)
    BY <2>5 DEF Bad
  <2>. DEFINE h == [t \in Small(n) |-> Body(g, t)]
  <2>7. \A t \in Small(n - 1) : h[t] = g[t]
    <3>1. \A t \in Small(n - 1) : t \in Small(n)
      <4>. SUFFICES ASSUME NEW t \in SUBSET S, Cardinality(t) <= n - 1 PROVE Cardinality(t) <= n
        BY DEF Small
      <4>1. Cardinality(t) \in Nat
        BY FS_Subset, FS_CardinalityType
      <4>. QED
        BY <4>1, <2>3
    <3>2. \A t \in Small(n - 1) : g[t] = Body(g, t)
      BY <2>6 DEF Part
    <3>. QED
      BY <3>1, <3>2
  <2>8. \A t \in Small(n) : Body(h, t) = Body(g, t)
    <3>. SUFFICES ASSUME NEW t \in Small(n) PROVE Body(h, t) = Body(g, t)
      OBVIOUS
    <3>1. CASE t = {}
      BY <3>1 DEF Body
    <3>2. CASE t # {}
      <4>1. t \ {pick(t)} \in Small(n - 1)
        BY <3>2, <1>2, <2>3 DEF Small
      <4>2. h[t \ {pick(t)}] = g[t \ {pick(t)}]
        BY <4>1, <2>7
      <4>. HIDE DEF h
      <4>. QED
        BY <4>2 DEF Body
    <3>. QED
      BY <3>1, <3>2
  <2>9. Part(h, n)
    BY <2>8 DEF Part
  <2>. QED
    BY <2>3, <2>9
<1>5. \A t \in SUBSET S : iter[t] = Body(iter, t)
  <2>1. \E g : g = [t \in SUBSET S |-> Body(g, t)]
    BY <1>3, <1>4 DEF Part
  <2>2. iter = [t \in SUBSET S |-> Body(iter, t)]
    BY <2>1
  <2>. HIDE DEF iter
  <2>. QED
    BY <2>2
<1>. HIDE DEF iter
<1>6. \A t \in SUBSET S : iter[t] \in Nat
  <2>. DEFINE Bad == {Cardinality(t) : t \in {u \in SUBSET S : iter[u] \notin Nat}}
  <2>. SUFFICES ASSUME Bad # {} PROVE FALSE
    OBVIOUS
  <2>1. Bad \subseteq Nat
    BY FS_Subset, FS_CardinalityType
  <2>2. PICK n \in Bad : \A m \in Bad : n <= m
    BY <2>1, LeastNumber
  <2>3. PICK t \in SUBSET S : iter[t] \notin Nat /\ Cardinality(t) = n
    OBVIOUS
  <2>. HIDE DEF Bad
  <2>0. iter[t] = Body(iter, t)
    BY <1>5
  <2>4. t # {}
    <3>1. t = {} => Body(iter, t) = 0
      BY DEF Body
    <3>. QED
      BY <2>0, <2>3, <3>1
  <2>5. iter[t \ {pick(t)}] \in Nat
    <3>1. Cardinality(t \ {pick(t)}) \notin Bad
      BY <2>2, <2>3, <2>4, <1>2
    <3>. QED
      BY <3>1, <2>4, <1>2 DEF Bad
  <2>6. f[pick(t)] \in Nat
    BY <2>4, <1>2
  <2>7. iter[t] = f[pick(t)] + iter[t \ {pick(t)}]
    BY <2>0, <2>4 DEF Body
  <2>. QED
    BY <2>3, <2>5, <2>6, <2>7
<1>. QED
  BY <1>1, <1>6
-------------------------------------------------------------------------------
(* The invariant of the scheduler *)

Listed == Range(pending) \cup Range(running)

\* Every command is in the lists at most once, all that are awaited are in one,
\* none that was answered is, and exactly those in running have a process.
Lists ==
    /\ IsInjective(pending) /\ IsInjective(running)
    /\ Range(pending) \cap Range(running) = {}
    /\ running # <<>> => Len(running) <= MAX_RUNNING
    /\ \A p \in DOMAIN proc :
         /\ proc[p].future = "waiting" => p \in Listed
         /\ proc[p].future = "done" => p \notin Listed
         /\ proc[p].os # "none" <=> p \in Range(running)

\* What the scheduler will answer: an exit code of the command, or None after
\* a timeout.  Only a cancelled command is to be killed.
Answers ==
    \A p \in DOMAIN proc :
      /\ proc[p].os = "exited" => proc[p].code \in Codes[p[2]]
      /\ proc[p].late => proc[p].timed
      /\ proc[p].kill # "restart"
      /\ proc[p].kill = "kill" => proc[p].future = "cancelled"

RInv == RunnerTypeOK /\ IsFiniteSet(DOMAIN proc) /\ Lists /\ Answers

\* What the coroutines may see of a step: some awaited commands are answered.
Settles ==
    /\ DOMAIN proc' = DOMAIN proc
    /\ \A p \in DOMAIN proc :
         /\ proc'[p].timed = proc[p].timed
         /\ \/ proc'[p].future = proc[p].future /\ proc'[p].result = proc[p].result
            \/ /\ proc[p].future = "waiting" /\ proc'[p].future = "done"
               /\ \/ proc'[p].result \in Codes[p[2]]
                  \/ proc'[p].result = NoCode /\ proc[p].timed

\* A command that is in no list was answered or cancelled, and one that is in
\* the lists is there once.
LEMMA ListsGiveQueuedOnce == RInv => QueuedOnce
<1>. SUFFICES ASSUME RInv PROVE QueuedOnce
  OBVIOUS
<1>1. /\ pending \in Seq(DOMAIN proc) /\ running \in Seq(DOMAIN proc)
      /\ DOMAIN pending = 1 .. Len(pending) /\ DOMAIN running = 1 .. Len(running)
  BY LenProperties DEF RInv, RunnerTypeOK
<1>2. ASSUME NEW p \in DOMAIN proc
      PROVE  LET places == {i \in 1 .. Len(pending) : pending[i] = p}
                 turns  == {i \in 1 .. Len(running) : running[i] = p}
             IN /\ proc[p].future = "waiting" => Cardinality(places) + Cardinality(turns) = 1
                /\ proc[p].future = "done" => places = {} /\ turns = {}
                /\ proc[p].os # "none" <=> turns # {}
  <2>. DEFINE places == {i \in 1 .. Len(pending) : pending[i] = p}
              turns  == {i \in 1 .. Len(running) : running[i] = p}
  <2>1. (places # {} <=> p \in Range(pending)) /\ (turns # {} <=> p \in Range(running))
    BY <1>1 DEF Range
  <2>2. (places # {} => \E i : places = {i}) /\ (turns # {} => \E i : turns = {i})
    <3>1. IsInjective(pending) /\ IsInjective(running)
      BY DEF RInv, Lists
    <3>2. (\A i, j \in places : i = j) /\ (\A i, j \in turns : i = j)
      BY <1>1, <3>1 DEF IsInjective
    <3>. HIDE DEF places, turns
    <3>. QED
      BY <3>2
  <2>3. /\ p \in Range(pending) => p \notin Range(running)
        /\ proc[p].future = "waiting" => p \in Range(pending) \/ p \in Range(running)
        /\ proc[p].future = "done" => p \notin Range(pending) /\ p \notin Range(running)
        /\ proc[p].os # "none" <=> p \in Range(running)
    BY DEF RInv, Lists, Listed
  <2>. HIDE DEF places, turns
  <2>4. /\ Cardinality({}) = 0
        /\ \A i : Cardinality({i}) = 1
    BY FS_EmptySet, FS_Singleton
  <2>5. proc[p].future = "waiting" => Cardinality(places) + Cardinality(turns) = 1
    <3>1. CASE p \in Range(pending)
      <4>1. turns = {} /\ \E i : places = {i}
        BY <3>1, <2>1, <2>2, <2>3
      <4>2. Cardinality(turns) = 0 /\ Cardinality(places) = 1
        BY <4>1, <2>4
      <4>. QED
        BY <4>2
    <3>2. CASE p \in Range(running)
      <4>1. places = {} /\ \E i : turns = {i}
        BY <3>2, <2>1, <2>2, <2>3
      <4>2. Cardinality(turns) = 1 /\ Cardinality(places) = 0
        BY <4>1, <2>4
      <4>. QED
        BY <4>2
    <3>. QED
      BY <3>1, <3>2, <2>3
  <2>. QED
    BY <2>1, <2>3, <2>5 DEF places, turns
<1>. QED
  BY <1>2 DEF QueuedOnce, RInv, Lists

\* ProcessRunner.__init__.
LEMMA RunnerInitRInv == RunnerInit => RInv
<1>. SUFFICES ASSUME RunnerInit PROVE RInv
  OBVIOUS
<1>1. DOMAIN proc = {} /\ Range(pending) = {} /\ Range(running) = {}
  BY DEF RunnerInit, Range
<1>. QED
  BY <1>1, FS_EmptySet, EmptySeq
     DEF RunnerInit, RInv, RunnerTypeOK, Lists, Answers, IsInjective

\* Start, sample, restart and cancel keep the type of a Process and the answer
\* of its future.
LEMMA RecordFacts ==
    ASSUME NEW k \in Kinds, NEW r \in ProcessType(k)
    PROVE  /\ Started(r) \in ProcessType(k) /\ Sampled(r) \in ProcessType(k)
           /\ Gone(r) \in ProcessType(k) /\ Cancelled(r) \in ProcessType(k)
           /\ Started(r).os = "live" /\ ~Started(r).late
           /\ Started(r).future = r.future /\ Started(r).result = r.result
           /\ Started(r).timed = r.timed /\ Started(r).kill = r.kill
           /\ Cancelled(r).os = r.os /\ Cancelled(r).code = r.code
           /\ Cancelled(r).late = r.late /\ Cancelled(r).timed = r.timed
           /\ Cancelled(r).result = r.result
           /\ r.future = "waiting" => Cancelled(r).future = "cancelled" /\ Cancelled(r).kill = "kill"
           /\ r.future # "waiting" => Cancelled(r) = r
<1>1. Peak[k] \in Nat
  BY RunnerAssumption
<1>2. r.rss \in Nat /\ r.max_memory \in Nat
  BY <1>1 DEF ProcessType
<1>3. Larger(r.rss, r.max_memory) \in Nat
  BY <1>2 DEF Larger
<1>4. Sampled(r) \in ProcessType(k)
  BY <1>3 DEF Sampled, ProcessType
<1>5. /\ Started(r) \in ProcessType(k)
      /\ Started(r).os = "live" /\ ~Started(r).late
      /\ Started(r).future = r.future /\ Started(r).result = r.result
      /\ Started(r).timed = r.timed /\ Started(r).kill = r.kill
  BY DEF ProcessType, Started
<1>6. Gone(r) \in ProcessType(k)
  BY DEF ProcessType, Gone
<1>7. CASE r.future = "waiting"
  <2>1. /\ Cancelled(r) \in ProcessType(k)
        /\ Cancelled(r).os = r.os /\ Cancelled(r).code = r.code
        /\ Cancelled(r).late = r.late /\ Cancelled(r).timed = r.timed
        /\ Cancelled(r).result = r.result
        /\ Cancelled(r).future = "cancelled" /\ Cancelled(r).kill = "kill"
    BY <1>7 DEF ProcessType, Cancelled
  <2>. QED
    BY <1>4, <1>5, <1>6, <1>7, <2>1
<1>8. CASE r.future # "waiting"
  <2>1. Cancelled(r) = r
    BY <1>8 DEF Cancelled
  <2>. QED
    BY <1>4, <1>5, <1>6, <1>8, <2>1
<1>. QED
  BY <1>7, <1>8

\* poll() with kill_ = "restart": the process is gone, the future untouched.
LEMMA RestartFacts ==
    ASSUME NEW k \in Kinds, NEW r \in ProcessType(k)
    PROVE  LET q == Polled([r EXCEPT !.kill = "restart"])
           IN /\ q \in ProcessType(k) /\ q.os = "none" /\ q.kill = "None" /\ ~q.late
              /\ q.future = r.future /\ q.result = r.result /\ q.timed = r.timed
<1>. DEFINE t == [r EXCEPT !.kill = "restart"]
            m == Sampled(t).max_memory
<1>1. t \in ProcessType(k) /\ t.kill = "restart" /\ t.future = r.future /\ t.result = r.result
      /\ t.timed = r.timed /\ t.expected = r.expected
  BY DEF ProcessType
<1>. HIDE DEF t
<1>2. Sampled(t) \in ProcessType(k)
  BY <1>1, RecordFacts
<1>3. Larger(t.expected, m) \in Nat
  BY <1>1, <1>2 DEF ProcessType, Larger
<1>4. Polled(t) = Restarted(t)
  BY <1>1 DEF Polled
<1>5. Sampled(t).future = t.future /\ Sampled(t).result = t.result /\ Sampled(t).timed = t.timed
  BY <1>1 DEF Sampled, ProcessType
<1>. HIDE DEF m
<1>. DEFINE u == [Sampled(t) EXCEPT !.kill = "None", !.expected = Larger(t.expected, m)]
<1>6. Restarted(t) = Gone(u)
  BY DEF Restarted, m
<1>7. u \in ProcessType(k) /\ u.kill = "None" /\ u.future = t.future /\ u.result = t.result
      /\ u.timed = t.timed
  BY <1>2, <1>3, <1>5 DEF ProcessType
<1>. HIDE DEF u
<1>8. /\ Gone(u) \in ProcessType(k) /\ Gone(u).os = "none" /\ ~Gone(u).late
      /\ Gone(u).kill = u.kill /\ Gone(u).future = u.future /\ Gone(u).result = u.result
      /\ Gone(u).timed = u.timed
  BY <1>7 DEF Gone, ProcessType
<1>. QED
  BY <1>1, <1>4, <1>6, <1>7, <1>8 DEF t

\* poll() otherwise: it ends with an answer, unless nobody awaits one, or it
\* only samples the memory.
LEMMA PolledFacts ==
    ASSUME NEW k \in Kinds, NEW r \in ProcessType(k),
           r.kill # "restart", r.os = "exited" => r.code \in Codes[k],
           r.late => r.timed, r.kill = "kill" => r.future = "cancelled"
    PROVE  /\ Polled(r) \in ProcessType(k)
           /\ Polled(r).timed = r.timed /\ Polled(r).kill = r.kill
           /\ Polled(r).late => r.late
           /\ Ends(r) => Polled(r).os = "none"
           /\ Ends(r) /\ r.future = "cancelled" =>
                Polled(r).future = "cancelled" /\ Polled(r).result = r.result
           /\ Ends(r) /\ r.future # "cancelled" =>
                /\ Polled(r).future = "done"
                /\ Polled(r).result \in Codes[k] \/ (Polled(r).result = NoCode /\ r.timed)
           /\ ~Ends(r) => /\ Polled(r).os = r.os /\ Polled(r).code = r.code
                          /\ Polled(r).future = r.future /\ Polled(r).result = r.result
<1>. DEFINE q == Sampled(r)
<1>1. /\ q \in ProcessType(k) /\ q.kill = r.kill /\ q.future = r.future /\ q.result = r.result
      /\ q.timed = r.timed /\ q.os = r.os /\ q.code = r.code /\ q.late = r.late
  BY RecordFacts DEF Sampled, ProcessType
<1>. HIDE DEF q
<1>2. ASSUME NEW c \in Codes[k] \cup {NoCode}
      PROVE  LET g == Gone(Resolved(q, c))
             IN /\ g \in ProcessType(k) /\ g.os = "none" /\ ~g.late
                /\ g.timed = r.timed /\ g.kill = r.kill
                /\ r.future = "cancelled" => g.future = "cancelled" /\ g.result = r.result
                /\ r.future # "cancelled" => g.future = "done" /\ g.result = c
  BY <1>1 DEF Gone, Resolved, ProcessType
<1>3. CASE r.os = "exited" /\ r.kill = "None"
  <2>1. Polled(r) = Gone(Resolved(q, r.code)) /\ Ends(r) /\ r.code \in Codes[k]
    BY <1>3 DEF Polled, Ends, q
  <2>. QED
    BY <2>1, <1>2
<1>4. CASE ~(r.os = "exited" /\ r.kill = "None") /\ (r.late \/ r.kill = "kill")
  <2>1. Polled(r) = Gone(Resolved(q, NoCode)) /\ Ends(r)
    BY <1>4 DEF Polled, Ends, q
  <2>2. r.future # "cancelled" => r.timed
    BY <1>4
  <2>. QED
    BY <2>1, <2>2, <1>2
<1>5. CASE ~(r.os = "exited" /\ r.kill = "None") /\ ~(r.late \/ r.kill = "kill")
  <2>1. Polled(r) = q /\ ~Ends(r)
    BY <1>5 DEF Polled, Ends, q, ProcessType
  <2>. QED
    BY <2>1, <1>1
<1>. QED
  BY <1>3, <1>4, <1>5

\* What the invariant says of one command.
LEMMA OneCommand ==
    ASSUME RInv, NEW p \in DOMAIN proc
    PROVE  /\ p[2] \in Kinds /\ proc[p] \in ProcessType(p[2])
           /\ proc[p].os = "exited" => proc[p].code \in Codes[p[2]]
           /\ proc[p].late => proc[p].timed
           /\ proc[p].kill # "restart"
           /\ proc[p].kill = "kill" => proc[p].future = "cancelled"
           /\ proc[p].future = "waiting" => p \in Listed
           /\ proc[p].future = "done" => p \notin Listed
           /\ proc[p].os # "none" <=> p \in Range(running)
  BY DEF RInv, RunnerTypeOK, Answers, Lists

\* The loop that kills: the process started last goes back to the queue, where
\* it is the next to be started; its future is untouched.
LEMMA KillLastStep ==
    ASSUME RInv, NEW no_kill, KillLast(no_kill)
    PROVE  RInv' /\ Settles
<1>. DEFINE last == Last(running)
            q == Polled([proc[last] EXCEPT !.kill = "restart"])
<1>1. /\ pending \in Seq(DOMAIN proc) /\ running \in Seq(DOMAIN proc) /\ free \in Nat
      /\ IsInjective(pending) /\ IsInjective(running)
      /\ Range(pending) \cap Range(running) = {} /\ Len(running) <= MAX_RUNNING
      /\ running # <<>> /\ MAX_RUNNING \in Int
  BY RunnerAssumption, EmptySeq DEF RInv, RunnerTypeOK, Lists, KillLast, MemoryIsLow
<1>2. /\ last \in DOMAIN proc /\ last \in Range(running)
      /\ running' \in Seq(DOMAIN proc) /\ Len(running') <= MAX_RUNNING
      /\ Range(running) = Range(running') \cup {last} /\ last \notin Range(running')
      /\ IsInjective(running')
  BY <1>1, FrontLast DEF KillLast
<1>3. last[2] \in Kinds /\ proc[last] \in ProcessType(last[2])
  BY <1>2, OneCommand
<1>4. /\ q \in ProcessType(last[2]) /\ q.os = "none" /\ q.kill = "None" /\ ~q.late
      /\ q.future = proc[last].future /\ q.result = proc[last].result
      /\ q.timed = proc[last].timed
  BY <1>3, RestartFacts
<1>5. /\ pending' \in Seq(DOMAIN proc) /\ IsInjective(pending')
      /\ Range(pending') = Range(pending) \cup {last}
  BY <1>1, <1>2, AppendNew DEF KillLast
<1>6. /\ DOMAIN proc' = DOMAIN proc /\ proc'[last] = q
      /\ \A p \in DOMAIN proc : p # last => proc'[p] = proc[p]
  BY <1>2 DEF KillLast
<1>7. phase' \in {"wait", "kill", "start"} /\ free' \in Nat
  <2>1. Larger(proc[last].max_memory, MinCharge) \in Nat
    BY <1>3 DEF ProcessType, Larger, MinCharge
  <2>. QED
    BY <2>1, <1>1 DEF KillLast, RInv, RunnerTypeOK
<1>8. /\ Range(pending') \cap Range(running') = {} /\ Listed' = Listed
  BY <1>1, <1>2, <1>5 DEF Listed
<1>. HIDE DEF last, q
<1>9. RunnerTypeOK'
  <2>1. \A p \in DOMAIN proc : p[2] \in Kinds /\ proc'[p] \in ProcessType(p[2])
    BY <1>3, <1>4, <1>6, OneCommand
  <2>. QED
    BY <2>1, <1>2, <1>5, <1>6, <1>7 DEF RunnerTypeOK, ProcessType
<1>10. Lists'
  <2>1. \A p \in DOMAIN proc : /\ proc'[p].future = proc[p].future
                               /\ proc'[p].os # "none" <=> p \in Range(running')
    BY <1>2, <1>4, <1>6, OneCommand
  <2>2. \A p \in DOMAIN proc : /\ proc[p].future = "waiting" => p \in Listed
                               /\ proc[p].future = "done" => p \notin Listed
    BY OneCommand
  <2>. QED
    BY <2>1, <2>2, <1>2, <1>5, <1>6, <1>8 DEF Lists
<1>11. Answers'
  <2>1. \A p \in DOMAIN proc :
          /\ proc'[p].os = "exited" => proc'[p].code \in Codes[p[2]]
          /\ proc'[p].late => proc'[p].timed
          /\ proc'[p].kill # "restart"
          /\ proc'[p].kill = "kill" => proc'[p].future = "cancelled"
    BY <1>4, <1>6, OneCommand
  <2>. QED
    BY <2>1, <1>6 DEF Answers
<1>12. Settles
  BY <1>4, <1>6 DEF Settles
<1>. QED
  BY <1>6, <1>9, <1>10, <1>11, <1>12 DEF RInv

\* The loop that starts: the end of the queue goes to the end of running, and
\* what it is charged is free.
LEMMA StartLastStep ==
    ASSUME RInv, NEW no_kill, StartLast(no_kill)
    PROVE  RInv' /\ Settles
<1>. DEFINE last == Last(pending)
            q == Started(proc[last])
<1>1. /\ pending \in Seq(DOMAIN proc) /\ running \in Seq(DOMAIN proc) /\ free \in Nat
      /\ IsInjective(pending) /\ IsInjective(running)
      /\ Range(pending) \cap Range(running) = {} /\ Len(running) < MAX_RUNNING
      /\ pending # <<>> /\ MAX_RUNNING \in Int
  BY RunnerAssumption DEF RInv, RunnerTypeOK, Lists, StartLast, CanStart
<1>2. /\ last \in DOMAIN proc /\ last \in Range(pending)
      /\ pending' \in Seq(DOMAIN proc) /\ IsInjective(pending')
      /\ Range(pending) = Range(pending') \cup {last} /\ last \notin Range(pending')
  BY <1>1, FrontLast DEF StartLast
<1>3. last[2] \in Kinds /\ proc[last] \in ProcessType(last[2])
  BY <1>2, OneCommand
<1>4. /\ q \in ProcessType(last[2]) /\ q.os = "live" /\ ~q.late
      /\ q.kill = proc[last].kill
      /\ q.future = proc[last].future /\ q.result = proc[last].result
      /\ q.timed = proc[last].timed
  BY <1>3, RecordFacts
<1>5. /\ running' \in Seq(DOMAIN proc) /\ IsInjective(running')
      /\ Range(running') = Range(running) \cup {last} /\ Len(running') <= MAX_RUNNING
  BY <1>1, <1>2, AppendNew DEF StartLast
<1>6. /\ DOMAIN proc' = DOMAIN proc /\ proc'[last] = q
      /\ \A p \in DOMAIN proc : p # last => proc'[p] = proc[p]
  BY <1>2 DEF StartLast
<1>7. phase' \in {"wait", "kill", "start"} /\ free' \in Nat
  <2>1. proc[last].expected \in Nat
    BY <1>3 DEF ProcessType
  <2>. DEFINE e == proc[last].expected
  <2>2. /\ phase' = "start" /\ free' = free - Larger(e, MinCharge)
        /\ free > e + GLOBAL_MEMORY_BUFFER
    BY DEF StartLast, CanStart
  <2>3. free \in Nat
    BY <1>1
  <2>4. e \in Nat
    BY <2>1
  <2>. HIDE DEF e
  <2>. QED
    BY <2>2, <2>3, <2>4 DEF Larger, MinCharge, GLOBAL_MEMORY_BUFFER
<1>8. /\ Range(pending') \cap Range(running') = {} /\ Listed' = Listed
  BY <1>1, <1>2, <1>5 DEF Listed
<1>. HIDE DEF last, q
<1>9. RunnerTypeOK'
  <2>1. \A p \in DOMAIN proc : p[2] \in Kinds /\ proc'[p] \in ProcessType(p[2])
    BY <1>3, <1>4, <1>6, OneCommand
  <2>. QED
    BY <2>1, <1>2, <1>5, <1>6, <1>7 DEF RunnerTypeOK, ProcessType
<1>10. Lists'
  <2>1. \A p \in DOMAIN proc : /\ proc'[p].future = proc[p].future
                               /\ proc'[p].os # "none" <=> p \in Range(running')
    BY <1>4, <1>5, <1>6, OneCommand
  <2>2. \A p \in DOMAIN proc : /\ proc[p].future = "waiting" => p \in Listed
                               /\ proc[p].future = "done" => p \notin Listed
    BY OneCommand
  <2>. QED
    BY <2>1, <2>2, <1>2, <1>5, <1>6, <1>8 DEF Lists
<1>11. Answers'
  <2>1. \A p \in DOMAIN proc :
          /\ proc'[p].os = "exited" => proc'[p].code \in Codes[p[2]]
          /\ proc'[p].late => proc'[p].timed
          /\ proc'[p].kill # "restart"
          /\ proc'[p].kill = "kill" => proc'[p].future = "cancelled"
    BY <1>2, <1>4, <1>6, OneCommand
  <2>. QED
    BY <2>1, <1>6 DEF Answers
<1>12. Settles
  BY <1>4, <1>6 DEF Settles
<1>. QED
  BY <1>6, <1>9, <1>10, <1>11, <1>12 DEF RInv

\* The last loop: what has ended is answered, unless it was cancelled, and
\* leaves running.
LEMMA DropStep ==
    ASSUME RInv, NEW no_kill, Drop(no_kill)
    PROVE  RInv' /\ Settles
<1>. DEFINE ended == {p \in Range(running) : Ends(proc[p])}
<1>1. /\ pending \in Seq(DOMAIN proc) /\ running \in Seq(DOMAIN proc)
      /\ IsInjective(pending) /\ IsInjective(running)
      /\ Range(pending) \cap Range(running) = {}
      /\ running # <<>> => Len(running) <= MAX_RUNNING
      /\ MAX_RUNNING \in Int /\ IsFiniteSet(DOMAIN proc)
  BY RunnerAssumption DEF RInv, RunnerTypeOK, Lists
<1>2. /\ running' \in Seq(DOMAIN proc) /\ Len(running') <= Len(running)
      /\ Range(running') = Range(running) \ ended /\ IsInjective(running')
      /\ pending' = pending
  BY <1>1, SurvivorsFacts DEF Drop
<1>3. running' # <<>> => Len(running') <= MAX_RUNNING
  <2>1. Len(running) \in Nat /\ Len(running') \in Nat
    BY <1>1, <1>2, LenProperties
  <2>2. running = <<>> => running' = <<>>
    <3>1. running = <<>> => Len(running) = 0
      OBVIOUS
    <3>2. Len(running') = 0 => running' = <<>>
      BY <1>2, EmptySeq
    <3>. QED
      BY <3>1, <3>2, <2>1, <1>2
  <2>. QED
    BY <2>1, <2>2, <1>1, <1>2
<1>4. /\ DOMAIN proc' = DOMAIN proc
      /\ \A p \in Range(running) : p \in DOMAIN proc /\ proc'[p] = Polled(proc[p])
      /\ \A p \in DOMAIN proc : p \notin Range(running) => proc'[p] = proc[p]
  <2>1. \A p \in Range(running) : p \in DOMAIN proc
    BY <1>1, ElementOfSeq, LenProperties DEF Range
  <2>. QED
    BY <2>1 DEF Drop
<1>5. \A p \in Range(running) :
        /\ p[2] \in Kinds /\ proc'[p] \in ProcessType(p[2])
        /\ proc'[p].timed = proc[p].timed /\ proc'[p].kill = proc[p].kill
        /\ proc'[p].late => proc[p].late
        /\ p \in ended => proc'[p].os = "none"
        /\ p \in ended /\ proc[p].future = "cancelled" =>
             proc'[p].future = "cancelled" /\ proc'[p].result = proc[p].result
        /\ p \in ended /\ proc[p].future # "cancelled" =>
             /\ proc'[p].future = "done"
             /\ proc'[p].result \in Codes[p[2]] \/ (proc'[p].result = NoCode /\ proc[p].timed)
        /\ p \notin ended => /\ proc'[p].os = proc[p].os /\ proc'[p].code = proc[p].code
                             /\ proc'[p].future = proc[p].future
                             /\ proc'[p].result = proc[p].result
  <2>. SUFFICES ASSUME NEW p \in Range(running)
                PROVE  /\ p[2] \in Kinds /\ proc'[p] \in ProcessType(p[2])
                       /\ proc'[p].timed = proc[p].timed /\ proc'[p].kill = proc[p].kill
                       /\ proc'[p].late => proc[p].late
                       /\ p \in ended => proc'[p].os = "none"
                       /\ p \in ended /\ proc[p].future = "cancelled" =>
                            proc'[p].future = "cancelled" /\ proc'[p].result = proc[p].result
                       /\ p \in ended /\ proc[p].future # "cancelled" =>
                            /\ proc'[p].future = "done"
                            /\ proc'[p].result \in Codes[p[2]]
                               \/ (proc'[p].result = NoCode /\ proc[p].timed)
                       /\ p \notin ended => /\ proc'[p].os = proc[p].os
                                            /\ proc'[p].code = proc[p].code
                                            /\ proc'[p].future = proc[p].future
                                            /\ proc'[p].result = proc[p].result
    OBVIOUS
  <2>1. p \in DOMAIN proc /\ proc'[p] = Polled(proc[p])
    BY <1>4
  <2>2. /\ p[2] \in Kinds /\ proc[p] \in ProcessType(p[2])
        /\ proc[p].os = "exited" => proc[p].code \in Codes[p[2]]
        /\ proc[p].late => proc[p].timed
        /\ proc[p].kill # "restart"
        /\ proc[p].kill = "kill" => proc[p].future = "cancelled"
    BY <2>1, OneCommand
  <2>3. p \in ended <=> Ends(proc[p])
    OBVIOUS
  <2>. HIDE DEF ended
  <2>. QED
    BY <2>1, <2>2, <2>3, PolledFacts
<1>6. \A p \in DOMAIN proc : proc[p].future \in {"waiting", "done", "cancelled"}
  BY OneCommand DEF ProcessType
<1>7. ended \subseteq Range(running)
  OBVIOUS
<1>. HIDE DEF ended
<1>9. RunnerTypeOK'
  <2>1. \A p \in DOMAIN proc : p[2] \in Kinds /\ proc'[p] \in ProcessType(p[2])
    BY <1>4, <1>5, OneCommand
  <2>. QED
    BY <2>1, <1>1, <1>2, <1>4 DEF RunnerTypeOK, ProcessType, Drop
<1>10. Lists'
  <2>. SUFFICES ASSUME NEW p \in DOMAIN proc
                PROVE  /\ proc'[p].future = "waiting" => p \in Listed'
                       /\ proc'[p].future = "done" => p \notin Listed'
                       /\ proc'[p].os # "none" <=> p \in Range(running')
    BY <1>1, <1>2, <1>3, <1>4 DEF Lists
  <2>1. CASE p \in ended
    BY <2>1, <1>1, <1>2, <1>5, <1>6, <1>7, OneCommand DEF Listed
  <2>2. CASE p \in Range(running) \ ended
    BY <2>2, <1>1, <1>2, <1>5, OneCommand DEF Listed
  <2>3. CASE p \notin Range(running)
    BY <2>3, <1>2, <1>4, <1>7, OneCommand DEF Listed
  <2>. QED
    BY <2>1, <2>2, <2>3
<1>11. Answers'
  <2>1. \A p \in DOMAIN proc :
          /\ proc'[p].os = "exited" => proc'[p].code \in Codes[p[2]]
          /\ proc'[p].late => proc'[p].timed
          /\ proc'[p].kill # "restart"
          /\ proc'[p].kill = "kill" => proc'[p].future = "cancelled"
    BY <1>4, <1>5, OneCommand
  <2>. QED
    BY <2>1, <1>4 DEF Answers
<1>12. Settles
  <2>1. \A p \in ended : proc[p].future # "done"
    BY <1>4, <1>7, OneCommand DEF Listed
  <2>. QED
    BY <2>1, <1>4, <1>5, <1>6, <1>7 DEF Settles
<1>. QED
  BY <1>1, <1>4, <1>9, <1>10, <1>11, <1>12 DEF RInv

\* mem_avail: the estimate that a poll starts from is not negative.
LEMMA PollBeginStep ==
    ASSUME RInv, NEW max_mem \in Nat, PollBegin(max_mem)
    PROVE  RInv' /\ Settles
<1>1. /\ IsFiniteSet(DOMAIN proc) /\ running \in Seq(DOMAIN proc) /\ Total \in Nat
      /\ UNCHANGED <<proc, pending, running>> /\ phase' = "kill"
  BY RunnerAssumption DEF RInv, RunnerTypeOK, PollBegin
<1>2. \A p \in DOMAIN proc : proc[p].rss \in Nat /\ proc[p].max_memory \in Nat
  <2>. SUFFICES ASSUME NEW p \in DOMAIN proc
                PROVE  proc[p].rss \in Nat /\ proc[p].max_memory \in Nat
    OBVIOUS
  <2>1. p[2] \in Kinds /\ proc[p] \in ProcessType(p[2])
    BY OneCommand
  <2>2. Peak[p[2]] \in Nat
    BY <2>1, RunnerAssumption
  <2>. QED
    BY <2>1, <2>2 DEF ProcessType
<1>3. global_memory_free \in Nat
  <2>. DEFINE f == [p \in DOMAIN proc |-> proc[p].rss]
  <2>1. SumOver(f, DOMAIN proc) \in Nat
    <3>1. \A p \in DOMAIN proc : f[p] \in Nat
      BY <1>2
    <3>. HIDE DEF f
    <3>. QED
      BY <3>1, <1>1, SumIsNat
  <2>. QED
    BY <2>1, <1>1 DEF global_memory_free, Larger
<1>4. children_used_mem \in Nat
  <2>. DEFINE f == [p \in DOMAIN proc |-> proc[p].max_memory]
  <2>1. Range(running) \subseteq DOMAIN proc
    BY <1>1, ElementOfSeq, LenProperties DEF Range
  <2>2. IsFiniteSet(Range(running))
    BY <1>1, <2>1, FS_Subset
  <2>3. \A p \in Range(running) : f[p] \in Nat
    BY <2>1, <1>2
  <2>. HIDE DEF f
  <2>4. SumOver(f, Range(running)) \in Nat
    BY <2>2, <2>3, SumIsNat
  <2>. QED
    BY <2>4 DEF children_used_mem, f
<1>5. free' \in Nat
  BY <1>3, <1>4 DEF PollBegin, mem_avail, Larger
<1>6. RunnerTypeOK' /\ Lists' /\ Answers'
  BY <1>1, <1>5 DEF RInv, RunnerTypeOK, Lists, Answers, Listed, ProcessType
<1>. QED
  BY <1>1, <1>6 DEF RInv, Settles

\* Every turn of poll() keeps the invariant, and is seen by the coroutines as
\* nothing or as the answer of commands they await.
LEMMA PollStep ==
    ASSUME RInv, NEW max_mem \in Nat, NEW no_kill, Poll(max_mem, no_kill)
    PROVE  RInv' /\ Settles
  BY PollBeginStep, KillLastStep, StartLastStep, DropStep DEF Poll

\* A process grows, exits or expires while poll() may be anywhere: neither the
\* lists nor the futures change.
LEMMA OSStep ==
    ASSUME RInv, OS
    PROVE  RInv' /\ Settles /\ UNCHANGED <<pending, running, phase, free>>
<1>1. PICK p \in DOMAIN proc : Grow(p) \/ Exit(p) \/ Expire(p)
  BY DEF OS
<1>. DEFINE r == proc[p]
<1>2. UNCHANGED <<pending, running, phase, free>>
  BY <1>1 DEF Grow, Exit, Expire
<1>3. p[2] \in Kinds /\ r \in ProcessType(p[2])
  BY OneCommand
<1>4. /\ DOMAIN proc' = DOMAIN proc /\ proc'[p] \in ProcessType(p[2])
      /\ \A q \in DOMAIN proc : q # p => proc'[q] = proc[q]
      /\ proc'[p].future = r.future /\ proc'[p].result = r.result
      /\ proc'[p].timed = r.timed /\ proc'[p].kill = r.kill
      /\ proc'[p].os # "none" <=> r.os # "none"
      /\ proc'[p].os = "exited" => proc'[p].code \in Codes[p[2]]
      /\ proc'[p].late => proc'[p].timed
  <2>0. (r.os = "exited" => r.code \in Codes[p[2]]) /\ (r.late => r.timed)
    BY OneCommand
  <2>1. CASE Grow(p)
    BY <2>0, <2>1, <1>3 DEF Grow, ProcessType
  <2>2. CASE Exit(p)
    <3>1. PICK c \in Codes[p[2]] :
            proc' = [proc EXCEPT ![p].os = "exited", ![p].code = c, ![p].rss = 0]
      BY <2>2 DEF Exit
    <3>2. proc'[p] = [r EXCEPT !.os = "exited", !.code = c, !.rss = 0]
      BY <3>1
    <3>3. DOMAIN proc' = DOMAIN proc /\ \A q \in DOMAIN proc : q # p => proc'[q] = proc[q]
      BY <3>1
    <3>4. r.os = "live"
      BY <2>2 DEF Exit
    <3>. QED
      BY <3>2, <3>3, <3>4, <2>0, <1>3 DEF ProcessType
  <2>3. CASE Expire(p)
    BY <2>0, <2>3, <1>3 DEF Expire, ProcessType
  <2>. QED
    BY <1>1, <2>1, <2>2, <2>3
<1>. HIDE DEF r
<1>5. RunnerTypeOK'
  <2>1. \A q \in DOMAIN proc : q[2] \in Kinds /\ proc'[q] \in ProcessType(q[2])
    BY <1>3, <1>4, OneCommand
  <2>. QED
    BY <2>1, <1>2, <1>4 DEF RInv, RunnerTypeOK, ProcessType
<1>6. Lists'
  <2>1. \A q \in DOMAIN proc : /\ proc'[q].future = proc[q].future
                               /\ proc'[q].os # "none" <=> proc[q].os # "none"
    BY <1>4 DEF r
  <2>. QED
    BY <2>1, <1>2, <1>4 DEF RInv, Lists, Listed
<1>7. Answers'
  <2>1. \A q \in DOMAIN proc :
          /\ proc'[q].os = "exited" => proc'[q].code \in Codes[q[2]]
          /\ proc'[q].late => proc'[q].timed
          /\ proc'[q].kill # "restart"
          /\ proc'[q].kill = "kill" => proc'[q].future = "cancelled"
    BY <1>4, OneCommand DEF r
  <2>. QED
    BY <2>1, <1>4 DEF Answers
<1>. QED
  BY <1>2, <1>4, <1>5, <1>6, <1>7 DEF RInv, Settles, r

\* A new Process object.
LEMMA NewProcess ==
    ASSUME NEW k \in Kinds, NEW m \in Nat, NEW timed \in BOOLEAN
    PROVE  LET r == Process(m, timed)
           IN /\ r \in ProcessType(k) /\ r.future = "waiting" /\ r.kill = "None"
              /\ r.os = "none" /\ r.late = FALSE /\ r.timed = timed /\ r.result = NoCode
  BY DEF Process, ProcessType

\* The commands of a gather are queued when nothing is queued or running.
LEMMA ShellAllStep ==
    ASSUME RInv, running = <<>>, NEW records, NEW procs, ShellAll(records, procs),
           IsFiniteSet(DOMAIN records), procs \in Seq(DOMAIN records), IsInjective(procs),
           Range(procs) = DOMAIN records,
           \A p \in DOMAIN records :
             p[2] \in Kinds /\ \E m \in Nat, timed \in BOOLEAN : records[p] = Process(m, timed)
    PROVE  /\ RInv'
           /\ \A p \in DOMAIN proc' : proc'[p].future = "waiting" /\ proc'[p].result = NoCode
<1>1. /\ proc' = records /\ pending' = Reverse(procs) /\ running' = <<>>
      /\ phase' = phase /\ free' = free
  BY DEF ShellAll
<1>2. /\ pending' \in Seq(DOMAIN records) /\ Range(pending') = DOMAIN records
      /\ IsInjective(pending')
  BY <1>1, ReverseInjective
<1>3. Range(running') = {} /\ IsInjective(running') /\ running' \in Seq(DOMAIN records)
  BY <1>1 DEF Range, IsInjective
<1>4. \A p \in DOMAIN records :
        /\ p[2] \in Kinds /\ records[p] \in ProcessType(p[2])
        /\ records[p].future = "waiting" /\ records[p].kill = "None"
        /\ records[p].os = "none" /\ records[p].late = FALSE /\ records[p].result = NoCode
  <2>. SUFFICES ASSUME NEW p \in DOMAIN records, NEW m \in Nat, NEW timed \in BOOLEAN,
                       records[p] = Process(m, timed)
                PROVE  /\ p[2] \in Kinds /\ records[p] \in ProcessType(p[2])
                       /\ records[p].future = "waiting" /\ records[p].kill = "None"
                       /\ records[p].os = "none" /\ records[p].late = FALSE
                       /\ records[p].result = NoCode
    OBVIOUS
  <2>1. p[2] \in Kinds
    OBVIOUS
  <2>. QED
    BY <2>1 DEF Process, ProcessType
<1>5. RunnerTypeOK'
  BY <1>1, <1>2, <1>3, <1>4 DEF RInv, RunnerTypeOK, ProcessType
<1>6. Lists'
  BY <1>1, <1>2, <1>3, <1>4 DEF Lists, Listed
<1>7. Answers'
  BY <1>1, <1>4 DEF Answers
<1>. QED
  BY <1>1, <1>4, <1>5, <1>6, <1>7 DEF RInv

\* A further command is queued that is not in the lists.
LEMMA ShellStep ==
    ASSUME RInv, NEW p, NEW record, Shell(p, record), p \notin Listed,
           p[2] \in Kinds, record \in ProcessType(p[2]), record.os = "none", record.late = FALSE,
           \/ record.future = "waiting" /\ record.kill = "None"
           \/ record.future = "cancelled" /\ record.kill = "kill"
    PROVE  RInv'
<1>. DEFINE D == DOMAIN proc \cup {p}
<1>1. /\ DOMAIN proc' = D /\ proc'[p] = record
      /\ \A q \in DOMAIN proc : q # p => proc'[q] = proc[q]
      /\ pending' = <<p>> \o pending /\ running' = running /\ phase' = phase /\ free' = free
  BY DEF Shell
<1>2. /\ pending \in Seq(D) /\ running \in Seq(D) /\ p \in D
      /\ IsInjective(pending) /\ IsInjective(running) /\ IsFiniteSet(D)
      /\ Range(pending) \cap Range(running) = {}
  <2>1. pending \in Seq(DOMAIN proc) /\ running \in Seq(DOMAIN proc)
    BY DEF RInv, RunnerTypeOK
  <2>2. pending \in Seq(D) /\ running \in Seq(D)
    <3>1. \A s \in Seq(DOMAIN proc) : s \in Seq(D)
      BY LenProperties, ElementOfSeq
    <3>. QED
      BY <2>1, <3>1
  <2>3. IsFiniteSet(D)
    BY FS_AddElement DEF RInv
  <2>. QED
    BY <2>2, <2>3 DEF RInv, Lists
<1>3. /\ pending' \in Seq(D) /\ IsInjective(pending') /\ Range(pending') = Range(pending) \cup {p}
  BY <1>1, <1>2, PrependNew DEF Listed
<1>4. Listed' = Listed \cup {p} /\ p \notin Range(running)
  BY <1>1, <1>3 DEF Listed
<1>. HIDE DEF D
<1>5. \A q \in D : q = p \/ (q # p /\ q \in DOMAIN proc)
  BY DEF D
<1>6. RunnerTypeOK'
  <2>1. \A q \in D : q[2] \in Kinds /\ proc'[q] \in ProcessType(q[2])
    BY <1>1, <1>5, OneCommand
  <2>. QED
    BY <2>1, <1>1, <1>2, <1>3 DEF RInv, RunnerTypeOK, ProcessType
<1>7. Lists'
  <2>1. \A q \in D : /\ proc'[q].future = "waiting" => q \in Listed'
                     /\ proc'[q].future = "done" => q \notin Listed'
                     /\ proc'[q].os # "none" <=> q \in Range(running')
    BY <1>1, <1>4, <1>5, OneCommand
  <2>. QED
    BY <2>1, <1>1, <1>2, <1>3, <1>4 DEF RInv, Lists
<1>8. Answers'
  <2>1. \A q \in D :
          /\ proc'[q].os = "exited" => proc'[q].code \in Codes[q[2]]
          /\ proc'[q].late => proc'[q].timed
          /\ proc'[q].kill # "restart"
          /\ proc'[q].kill = "kill" => proc'[q].future = "cancelled"
    BY <1>1, <1>5, OneCommand
  <2>. QED
    BY <2>1, <1>1 DEF Answers
<1>. QED
  BY <1>1, <1>2, <1>6, <1>7, <1>8 DEF RInv

\* ProcessFuture.cancel, for every task: the lists are left to the next poll.
LEMMA CancelAllStep ==
    ASSUME RInv, CancelAll
    PROVE  RInv'
<1>1. /\ DOMAIN proc' = DOMAIN proc /\ UNCHANGED <<pending, running, phase, free>>
      /\ \A p \in DOMAIN proc : proc'[p] = Cancelled(proc[p])
  BY DEF CancelAll
<1>2. \A p \in DOMAIN proc :
        /\ p[2] \in Kinds /\ proc'[p] \in ProcessType(p[2])
        /\ proc'[p].os = proc[p].os /\ proc'[p].code = proc[p].code
        /\ proc'[p].late = proc[p].late /\ proc'[p].timed = proc[p].timed
        /\ proc[p].future = "waiting" => proc'[p].future = "cancelled" /\ proc'[p].kill = "kill"
        /\ proc[p].future # "waiting" => proc'[p] = proc[p]
  BY <1>1, OneCommand, RecordFacts
<1>3. RunnerTypeOK'
  BY <1>1, <1>2 DEF RInv, RunnerTypeOK, ProcessType
<1>4. Lists'
  <2>1. \A p \in DOMAIN proc : /\ proc'[p].future = "waiting" => p \in Listed
                               /\ proc'[p].future = "done" => p \notin Listed
                               /\ proc'[p].os # "none" <=> p \in Range(running)
    BY <1>2, OneCommand
  <2>. QED
    BY <2>1, <1>1 DEF RInv, Lists, Listed
<1>5. Answers'
  <2>1. \A p \in DOMAIN proc :
          /\ proc'[p].os = "exited" => proc'[p].code \in Codes[p[2]]
          /\ proc'[p].late => proc'[p].timed
          /\ proc'[p].kill # "restart"
          /\ proc'[p].kill = "kill" => proc'[p].future = "cancelled"
    BY <1>1, <1>2, OneCommand
  <2>. QED
    BY <2>1, <1>1 DEF Answers
<1>. QED
  BY <1>1, <1>3, <1>4, <1>5 DEF RInv
===============================================================================
