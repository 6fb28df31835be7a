---------------------------- MODULE SelectionProofs ----------------------------
(***************************************************************************)
(* A regression runs the tests that its arguments and its configuration    *)
(* select, for every test list, configuration and request.                 *)
(***************************************************************************)
EXTENDS RegressionProofs

(* Lists put together from blocks *)

\* What a list put together from two lists has, and that it has nothing twice
\* if neither of them does and they share nothing.
LEMMA Concatenated ==
    ASSUME NEW S, NEW s \in Seq(S), NEW t \in Seq(S)
    PROVE  /\ s \o t \in Seq(S)
           /\ \A x : x \in Range(s \o t) <=> x \in Range(s) \/ x \in Range(t)
           /\ IsInjective(s) /\ IsInjective(t) /\ Range(s) \cap Range(t) = {} => IsInjective(s \o t)
<1>. DEFINE u == s \o t
<1>1. /\ u \in Seq(S) /\ Len(u) = Len(s) + Len(t)
      /\ \A i \in 1 .. Len(s) : u[i] = s[i]
      /\ \A i \in Len(s) + 1 .. Len(s) + Len(t) : u[i] = t[i - Len(s)]
  BY ConcatProperties
<1>2. /\ Len(s) \in Nat /\ DOMAIN s = 1 .. Len(s)
      /\ Len(t) \in Nat /\ DOMAIN t = 1 .. Len(t)
      /\ DOMAIN u = 1 .. Len(s) + Len(t)
  BY <1>1, LenProperties
<1>. HIDE DEF u
<1>. DEFINE m == Len(s)
            n == Len(t)
<1>3. /\ m \in Nat /\ n \in Nat /\ DOMAIN s = 1 .. m /\ DOMAIN t = 1 .. n /\ DOMAIN u = 1 .. m + n
      /\ \A i \in 1 .. m : u[i] = s[i]
      /\ \A i \in m + 1 .. m + n : u[i] = t[i - m]
  BY <1>1, <1>2
<1>. HIDE DEF m, n
<1>4. \A i \in 1 .. m + n : i \in 1 .. m \/ (i \in m + 1 .. m + n /\ i - m \in 1 .. n)
  BY <1>3
<1>5. \A i \in 1 .. m : i \in 1 .. m + n
  BY <1>3
<1>6. \A j \in 1 .. n : j + m \in m + 1 .. m + n /\ j + m \in 1 .. m + n /\ (j + m) - m = j
  BY <1>3
<1>7. \A x : x \in Range(u) => x \in Range(s) \/ x \in Range(t)
  BY <1>3, <1>4 DEF Range
<1>8. \A x : x \in Range(s) => x \in Range(u)
  BY <1>3, <1>5 DEF Range
<1>9. \A x : x \in Range(t) => x \in Range(u)
  <2>. SUFFICES ASSUME NEW j \in 1 .. n PROVE t[j] \in Range(u)
    BY <1>3 DEF Range
  <2>1. u[j + m] = t[j]
    BY <1>3, <1>6
  <2>. QED
    BY <2>1, <1>3, <1>6 DEF Range
<1>10. ASSUME IsInjective(s), IsInjective(t), Range(s) \cap Range(t) = {}, NEW i \in DOMAIN u,
              NEW j \in DOMAIN u, u[i] = u[j]
       PROVE  i = j
  <2>1. \A a \in 1 .. m, b \in m + 1 .. m + n : u[a] # u[b]
    <3>. SUFFICES ASSUME NEW a \in 1 .. m, NEW b \in m + 1 .. m + n PROVE u[a] # u[b]
      OBVIOUS
    <3>1. u[a] = s[a] /\ u[b] = t[b - m] /\ b - m \in 1 .. n
      BY <1>3
    <3>2. u[a] \in Range(s) /\ u[b] \in Range(t)
      BY <3>1, <1>3 DEF Range
    <3>. QED
      BY <3>2, <1>10
  <2>2. CASE i \in 1 .. m /\ j \in 1 .. m
    BY <2>2, <1>3, <1>10 DEF IsInjective
  <2>3. CASE i \in m + 1 .. m + n /\ j \in m + 1 .. m + n
    <3>1. i - m \in 1 .. n /\ j - m \in 1 .. n /\ t[i - m] = t[j - m]
      BY <2>3, <1>3, <1>10
    <3>2. i - m = j - m
      BY <3>1, <1>3, <1>10 DEF IsInjective
    <3>. QED
      BY <3>2, <2>3, <1>3
  <2>. QED
    BY <2>1, <2>2, <2>3, <1>3, <1>4, <1>10
<1>11. IsInjective(s) /\ IsInjective(t) /\ Range(s) \cap Range(t) = {} => IsInjective(u)
  BY <1>10 DEF IsInjective
<1>. QED
  BY <1>1, <1>7, <1>8, <1>9, <1>11 DEF u

\* FlattenSeq puts the blocks together one after the other.
LEMMA FlattenStep ==
    ASSUME NEW S, NEW s \in Seq(Seq(S)), Len(s) # 0
    PROVE  \E f : /\ FlattenSeq(s) = f[Len(s)]
                  /\ \A i \in 1 .. Len(s) : f[i] = IF i = 1 THEN s[i] ELSE f[i - 1] \o s[i]
<1>. DEFINE N == Len(s)
            Body(g, i) == IF i = 1 THEN s[i] ELSE g[i - 1] \o s[i]
            Part(g, k) == g = [i \in 1 .. k |-> Body(g, i)]
            f == CHOOSE g : Part(g, N)
<1>1. N \in Nat
  BY LenProperties
<1>2. FlattenSeq(s) = f[N]
  BY DEF FlattenSeq
<1>. HIDE DEF Body, Part, f, N
<1>3. \A n \in 0 .. N : \E g : Part(g, n)
  <2>. DEFINE Bad == {n \in 0 .. N : ~\E g : Part(g, n)}
  <2>. SUFFICES ASSUME Bad # {} PROVE FALSE
    OBVIOUS
  <2>1. Bad \subseteq Nat
    OBVIOUS
  <2>. HIDE DEF Bad
  <2>2. PICK n \in Bad : \A m \in Bad : n <= m
    BY <2>1, LeastLine
  <2>3. n \in 0 .. N /\ ~\E g : Part(g, n)
    BY DEF Bad
  <2>4. n # 0
    <3>1. Part([i \in 1 .. 0 |-> 0], 0)
      BY DEF Part
    <3>. QED
      BY <3>1, <2>3
  <2>5. n - 1 \in 0 .. N /\ n - 1 \notin Bad
    BY <2>2, <2>3, <2>4, <1>1
  <2>6. PICK g : Part(g, n - 1)
    BY <2>5 DEF Bad
  <2>. DEFINE h == [i \in 1 .. n |-> Body(g, i)]
  <2>7. \A i \in 1 .. n - 1 : h[i] = g[i]
    <3>1. \A i \in 1 .. n - 1 : i \in 1 .. n
      BY <2>3, <1>1
    <3>. DEFINE k == n - 1
    <3>2. Part(g, k)
      BY <2>6
    <3>. HIDE DEF k
    <3>3. \A i \in 1 .. k : g[i] = Body(g, i)
      BY <3>2 DEF Part
    <3>. QED
      BY <3>1, <3>3 DEF k
  <2>8. \A i \in 1 .. n : Body(h, i) = Body(g, i)
    <3>. SUFFICES ASSUME NEW i \in 1 .. n PROVE Body(h, i) = Body(g, i)
      OBVIOUS
    <3>1. i = 1 \/ h[i - 1] = g[i - 1]
      <4>1. i = 1 \/ i - 1 \in 1 .. n - 1
        BY <2>3, <1>1
      <4>. QED
        BY <4>1, <2>7
    <3>. HIDE DEF h
    <3>. QED
      BY <3>1 DEF Body
  <2>9. Part(h, n)
    <3>1. h = [i \in 1 .. n |-> Body(h, i)]
      BY <2>8
    <3>. HIDE DEF h
    <3>. QED
      BY <3>1 DEF Part
  <2>. HIDE DEF h
  <2>. QED
    BY <2>9, <2>3
<1>4. Part(f, N)
  <2>1. N \in 0 .. N
    BY <1>1
  <2>2. \E g : Part(g, N)
    BY <2>1, <1>3
  <2>. QED
    BY <2>2 DEF f
<1>5. \A i \in 1 .. N : f[i] = Body(f, i)
  BY <1>4 DEF Part
<1>. QED
  BY <1>2, <1>5 DEF Body, N

\* A flattened list has what its blocks have.
LEMMA Flattened ==
    ASSUME NEW S, NEW s \in Seq(Seq(S))
    PROVE  /\ FlattenSeq(s) \in Seq(S)
           /\ \A x : x \in Range(FlattenSeq(s)) <=> \E i \in 1 .. Len(s) : x \in Range(s[i])
           /\ (\A i \in 1 .. Len(s) : IsInjective(s[i]))
              /\ (\A i, j \in 1 .. Len(s) : i # j => Range(s[i]) \cap Range(s[j]) = {})
                => IsInjective(FlattenSeq(s))
<1>1. CASE Len(s) = 0
  <2>1. FlattenSeq(s) = s /\ s = <<>>
    BY <1>1, EmptySeq DEF FlattenSeq
  <2>2. <<>> \in Seq(S) /\ DOMAIN <<>> = {} /\ 1 .. 0 = {}
    BY EmptySeq
  <2>. QED
    BY <2>1, <2>2, <1>1 DEF Range, IsInjective
<1>2. CASE Len(s) # 0
  <2>. DEFINE N == Len(s)
  <2>0. N \in Nat /\ N # 0 /\ \A i \in 1 .. N : s[i] \in Seq(S)
    BY <1>2, LenProperties
  <2>1. PICK f : /\ FlattenSeq(s) = f[N]
                 /\ \A i \in 1 .. N : f[i] = IF i = 1 THEN s[i] ELSE f[i - 1] \o s[i]
    BY <1>2, FlattenStep
  <2>. DEFINE Apart == /\ \A i \in 1 .. N : IsInjective(s[i])
                       /\ \A i, j \in 1 .. N : i # j => Range(s[i]) \cap Range(s[j]) = {}
              Has(k) == \A x : x \in Range(f[k]) <=> \E i \in 1 .. k : x \in Range(s[i])
              Good(k) == f[k] \in Seq(S) /\ Has(k) /\ (Apart => IsInjective(f[k]))
  <2>. HIDE DEF N
  <2>2. Good(1)
    <3>1. f[1] = s[1] /\ 1 \in 1 .. N /\ \A i \in 1 .. 1 : i = 1
      BY <2>0, <2>1
    <3>2. Has(1)
      <4>1. 1 \in 1 .. 1
        OBVIOUS
      <4>. QED
        BY <3>1, <4>1
    <3>. QED
      BY <3>1, <3>2, <2>0
  <2>3. ASSUME NEW k \in 2 .. N, Good(k - 1) PROVE Good(k)
    <3>1. k \in 1 .. N /\ k # 1 /\ \A i \in 1 .. k : i = k \/ i \in 1 .. k - 1
      BY <2>0
    <3>2. f[k] = f[k - 1] \o s[k] /\ s[k] \in Seq(S) /\ f[k - 1] \in Seq(S)
      BY <3>1, <2>0, <2>1, <2>3
    <3>3. /\ f[k] \in Seq(S)
          /\ \A x : x \in Range(f[k]) <=> x \in Range(f[k - 1]) \/ x \in Range(s[k])
          /\ IsInjective(f[k - 1]) /\ IsInjective(s[k]) /\ Range(f[k - 1]) \cap Range(s[k]) = {}
                => IsInjective(f[k])
      BY <3>2, Concatenated
    <3>4. \A i : i \in 1 .. k <=> i = k \/ i \in 1 .. k - 1
      BY <2>0
    <3>5. Has(k)
      BY <3>3, <3>4, <2>3
    <3>6. ASSUME Apart PROVE IsInjective(f[k])
      <4>1. Range(f[k - 1]) \cap Range(s[k]) = {}
        <5>1. \A i \in 1 .. k - 1 : i \in 1 .. N /\ i # k
          BY <2>0
        <5>2. \A i \in 1 .. k - 1 : Range(s[i]) \cap Range(s[k]) = {}
          BY <5>1, <3>1, <3>6
        <5>. QED
          BY <5>2, <2>3
      <4>. QED
        BY <4>1, <3>1, <3>3, <3>6, <2>3
    <3>. QED
      BY <3>3, <3>5, <3>6
  <2>. HIDE DEF Good
  <2>4. Good(N)
    <3>. DEFINE Bad == {k \in 1 .. N : ~Good(k)}
    <3>. SUFFICES ASSUME Bad # {} PROVE FALSE
      BY <2>0
    <3>1. Bad \subseteq Nat
      OBVIOUS
    <3>. HIDE DEF Bad
    <3>2. PICK k \in Bad : \A m \in Bad : k <= m
      BY <3>1, LeastLine
    <3>3. k \in 1 .. N /\ ~Good(k)
      BY DEF Bad
    <3>4. k \in 2 .. N /\ k - 1 \in 1 .. N /\ ~(k <= k - 1)
      BY <3>3, <2>2, <2>0
    <3>5. Good(k - 1)
      BY <3>2, <3>4 DEF Bad
    <3>. QED
      BY <3>3, <3>4, <3>5, <2>3
  <2>. QED
    BY <2>1, <2>4 DEF Good, N
<1>. QED
  BY <1>1, <1>2
-------------------------------------------------------------------------------
(* The lists of tests *)

\* A function on 1 .. n is a list.
LEMMA IsList ==
    ASSUME NEW S, NEW n \in Nat, NEW f, DOMAIN f = 1 .. n, f = [i \in DOMAIN f |-> f[i]],
           \A i \in 1 .. n : f[i] \in S
    PROVE  f \in Seq(S) /\ Len(f) = n
<1>1. f \in [1 .. n -> S]
  OBVIOUS
<1>2. [1 .. n -> S] \in {[1 .. m -> S] : m \in Nat}
  OBVIOUS
<1>3. f \in UNION {[1 .. m -> S] : m \in Nat}
  BY <1>1, <1>2, Zenon
<1>4. f \in Seq(S)
  BY <1>3, SeqDef, Zenon
<1>. QED
  BY <1>4, LenProperties

\* One block for each element of s: the element, if it is in K.
Picks(b, s, K) ==
    /\ DOMAIN b = DOMAIN s /\ b = [i \in DOMAIN b |-> b[i]]
    /\ \A i \in DOMAIN s : b[i] = IF s[i] \in K THEN <<s[i]>> ELSE <<>>

\* The elements of a list that are in a set.
LEMMA Comprehended ==
    ASSUME NEW S, NEW s \in Seq(S), NEW K, NEW b, Picks(b, s, K)
    PROVE  /\ FlattenSeq(b) \in Seq(S)
           /\ \A x : x \in Range(FlattenSeq(b)) <=> x \in Range(s) /\ x \in K
<1>1. Len(s) \in Nat /\ DOMAIN s = 1 .. Len(s) /\ \A i \in 1 .. Len(s) : s[i] \in S
  BY LenProperties
<1>2. \A i \in 1 .. Len(s) : b[i] \in Seq(S)
  <2>1. <<>> \in Seq(S) /\ \A y \in S : <<y>> \in Seq(S)
    OBVIOUS
  <2>. QED
    BY <1>1, <2>1 DEF Picks
<1>3. \A i \in 1 .. Len(s) : \A x : x \in Range(b[i]) <=> x = s[i] /\ s[i] \in K
  <2>. SUFFICES ASSUME NEW i \in 1 .. Len(s)
                PROVE  \A x : x \in Range(b[i]) <=> x = s[i] /\ s[i] \in K
    OBVIOUS
  <2>. DEFINE one == <<s[i]>>
  <2>1. CASE s[i] \in K
    <3>1. b[i] = one
      BY <1>1, <2>1 DEF Picks
    <3>2. DOMAIN one = {1} /\ one[1] = s[i]
      OBVIOUS
    <3>. HIDE DEF one
    <3>3. Range(b[i]) = {s[i]}
      BY <3>1, <3>2 DEF Range
    <3>. QED
      BY <2>1, <3>3
  <2>2. CASE s[i] \notin K
    <3>1. b[i] = <<>>
      BY <1>1, <2>2 DEF Picks
    <3>2. Range(b[i]) = {}
      BY <3>1 DEF Range
    <3>. QED
      BY <2>2, <3>2
  <2>. QED
    BY <2>1, <2>2
<1>4. DOMAIN b = 1 .. Len(s) /\ b = [i \in DOMAIN b |-> b[i]]
  BY <1>1 DEF Picks
<1>5. b \in Seq(Seq(S)) /\ Len(b) = Len(s)
  BY <1>1, <1>2, <1>4, IsList
<1>6. /\ FlattenSeq(b) \in Seq(S)
      /\ \A x : x \in Range(FlattenSeq(b)) <=> \E i \in 1 .. Len(s) : x \in Range(b[i])
  BY <1>5, Flattened
<1>7. \A x : x \in Range(FlattenSeq(b)) <=> \E i \in 1 .. Len(s) : x = s[i] /\ s[i] \in K
  BY <1>3, <1>6
<1>8. \A x : x \in Range(s) <=> \E i \in 1 .. Len(s) : x = s[i]
  BY <1>1 DEF Range
<1>. QED
  BY <1>6, <1>7, <1>8

\* An entry has a name, a count and a list of parameters.
LEMMA EntryFields ==
    ASSUME NEW e \in Entries
    PROVE  /\ e.test \in STRING /\ e.iterations \in Int /\ e.requires \in BOOLEAN
           /\ e.rtl_params \in Seq(STRING \X SUBSET (STRING \X STRING))
BY DEF Entries

\* The entries of a list.
LEMMA EntriesOf ==
    ASSUME NEW S, NEW s \in Seq(S)
    PROVE  Range(s) \subseteq S /\ \A i \in DOMAIN s : s[i] \in Range(s) /\ s[i] \in S
BY LenProperties DEF Range

\* The configurations and the tests of the list of directed tests.
LEMMA ItemsOf ==
    ASSUME NEW items \in Seq(Entries)
    PROVE  /\ ConfigsOf(items) \in Seq(Entries)
           /\ \A x : x \in Range(ConfigsOf(items)) <=> x \in Range(items) /\ x.test = ""
           /\ TestsOf(items) \in Seq(Entries)
           /\ \A x : x \in Range(TestsOf(items)) <=> x \in Range(items) /\ x.test # ""
<1>1. /\ Range(items) \subseteq Entries
      /\ \A i \in DOMAIN items : items[i] \in Range(items) /\ items[i] \in Entries
  BY EntriesOf
<1>. DEFINE C == {e \in Entries : e.test = ""}
            D == {e \in Entries : e.test # ""}
            c == [i \in DOMAIN items |-> IF items[i].test = "" THEN <<items[i]>> ELSE <<>>]
            d == [i \in DOMAIN items |-> IF items[i].test # "" THEN <<items[i]>> ELSE <<>>]
<1>2. \A e \in Entries : (e \in C <=> e.test = "") /\ (e \in D <=> e.test # "")
  BY Zenon
<1>. HIDE DEF C, D
<1>3. /\ DOMAIN c = DOMAIN items /\ c = [i \in DOMAIN c |-> c[i]]
      /\ DOMAIN d = DOMAIN items /\ d = [i \in DOMAIN d |-> d[i]]
  OBVIOUS
<1>4. /\ \A i \in DOMAIN items : c[i] = IF items[i].test = "" THEN <<items[i]>> ELSE <<>>
      /\ \A i \in DOMAIN items : d[i] = IF items[i].test # "" THEN <<items[i]>> ELSE <<>>
  OBVIOUS
<1>5. ConfigsOf(items) = FlattenSeq(c) /\ TestsOf(items) = FlattenSeq(d)
  BY Zenon DEF ConfigsOf, TestsOf, Those
<1>. HIDE DEF c, d
<1>6. /\ FlattenSeq(c) \in Seq(Entries)
      /\ \A x : x \in Range(FlattenSeq(c)) <=> x \in Range(items) /\ x \in C
  <2>1. Picks(c, items, C)
    BY <1>1, <1>2, <1>3, <1>4 DEF Picks
  <2>. QED
    BY <2>1, Comprehended
<1>7. /\ FlattenSeq(d) \in Seq(Entries)
      /\ \A x : x \in Range(FlattenSeq(d)) <=> x \in Range(items) /\ x \in D
  <2>1. Picks(d, items, D)
    BY <1>1, <1>2, <1>3, <1>4 DEF Picks
  <2>. QED
    BY <2>1, Comprehended
<1>8. \A x \in Range(items) : (x \in C <=> x.test = "") /\ (x \in D <=> x.test # "")
  BY <1>1, <1>2
<1>. QED
  BY <1>5, <1>6, <1>7, <1>8

\* How often an entry runs, and the entry with that count.
Counts(r, e) == IF r.iterations = <<>> THEN e.iterations ELSE r.iterations[1]
Times(r, e) == [e EXCEPT !.iterations = Counts(r, e)]
Asked(r, e, all) == e.iterations > 0 /\ (e.test \in r.test \/ all \cap r.test # {})

\* A list has the entries of E that the request asks for, with its counts.
Offers(list, r, E, all) ==
    /\ list \in Seq(Entries)
    /\ \A x : x \in Range(list) <=> \E e \in E : Asked(r, e, all) /\ x = Times(r, e)

\* The iterations of the command line.
LEMMA GivenCounts ==
    ASSUME NEW r \in Requests, r.iterations = <<>> \/ r.iterations[1] > 0, NEW e \in Entries
    PROVE  /\ Times(r, e) \in Entries
           /\ Times(r, e) = IF Given(r.iterations) > 0 THEN Repeated(e, Given(r.iterations)) ELSE e
           /\ Counts(r, e) \in Int /\ (Given(r.iterations) > 0 => Given(r.iterations) = Counts(r, e))
           /\ Given(r.iterations) \in Int /\ (~(Given(r.iterations) > 0) => Counts(r, e) = e.iterations)
<1>1. r.iterations \in Seq(Int)
  BY DEF Requests
<1>2. CASE r.iterations = <<>>
  <2>1. Given(r.iterations) = 0 /\ Counts(r, e) = e.iterations
    BY <1>2 DEF Given, Counts
  <2>. QED
    BY <2>1 DEF Times, Entries
<1>3. CASE r.iterations # <<>>
  <2>1. Given(r.iterations) = r.iterations[1] /\ Counts(r, e) = r.iterations[1]
    BY <1>3 DEF Given, Counts
  <2>2. r.iterations[1] \in Int /\ r.iterations[1] > 0
    BY <1>1, <1>3
  <2>. QED
    BY <2>1, <2>2 DEF Times, Repeated, Entries
<1>. QED
  BY <1>2, <1>3

\* The random tests.
LEMMA RandomMatched ==
    ASSUME NEW r \in Requests, r.iterations = <<>> \/ r.iterations[1] > 0
    PROVE  Offers(process_riscvdv_testlist(r.test, r.iterations), r, Range(Testlist),
                  {"all", "all_riscvdv"})
<1>. DEFINE all == {"all_riscvdv", "all"} \cap r.test # {}
            n == Given(r.iterations)
            a == {"all", "all_riscvdv"}
            Ok(e) == (all \/ e.test \in r.test) /\ e.iterations > 0
            K == {e \in Entries : Ok(e)}
            b == [i \in DOMAIN Testlist |-> IF Ok(Testlist[i]) THEN <<Testlist[i]>> ELSE <<>>]
            match == FlattenSeq(b)
            l == [i \in DOMAIN match |-> IF n > 0 THEN Repeated(match[i], n) ELSE match[i]]
<1>1. process_riscvdv_testlist(r.test, r.iterations) = l
  BY DEF process_riscvdv_testlist, Those
<1>2. \A e : Ok(e) <=> Asked(r, e, a)
  <2>1. all <=> a \cap r.test # {}
    OBVIOUS
  <2>. HIDE DEF all, a
  <2>. QED
    BY <2>1 DEF Asked
<1>. HIDE DEF Ok, a, all
<1>3. \A e \in Entries : e \in K <=> Ok(e)
  OBVIOUS
<1>. HIDE DEF K
<1>4. Testlist \in Seq(Entries) /\ Range(Testlist) \subseteq Entries
      /\ \A i \in DOMAIN Testlist : Testlist[i] \in Entries
  BY TestlistAssumption, EntriesOf
<1>5. Picks(b, Testlist, K)
  <2>1. DOMAIN b = DOMAIN Testlist /\ b = [i \in DOMAIN b |-> b[i]]
    OBVIOUS
  <2>2. \A i \in DOMAIN Testlist : b[i] = IF Ok(Testlist[i]) THEN <<Testlist[i]>> ELSE <<>>
    OBVIOUS
  <2>. HIDE DEF b
  <2>. QED
    BY <2>1, <2>2, <1>3, <1>4 DEF Picks
<1>. HIDE DEF b
<1>6. /\ match \in Seq(Entries)
      /\ \A x : x \in Range(match) <=> x \in Range(Testlist) /\ x \in K
  BY <1>4, <1>5, Comprehended
<1>. HIDE DEF match
<1>7. /\ Len(match) \in Nat /\ DOMAIN match = 1 .. Len(match)
      /\ \A i \in DOMAIN match : match[i] \in Entries
  BY <1>6, LenProperties
<1>8. /\ DOMAIN l = DOMAIN match /\ l = [i \in DOMAIN l |-> l[i]]
      /\ \A i \in DOMAIN match : l[i] = IF n > 0 THEN Repeated(match[i], n) ELSE match[i]
  OBVIOUS
<1>. HIDE DEF l
<1>9. \A i \in DOMAIN match : l[i] = Times(r, match[i]) /\ l[i] \in Entries
  BY <1>7, <1>8, GivenCounts
<1>10. l \in Seq(Entries)
  BY <1>7, <1>8, <1>9, IsList
<1>11. \A x : x \in Range(l) <=> \E e \in Range(match) : x = Times(r, e)
  BY <1>8, <1>9 DEF Range
<1>12. \A e : e \in Range(match) <=> e \in Range(Testlist) /\ Asked(r, e, a)
  BY <1>2, <1>3, <1>4, <1>6
<1>13. \A x : x \in Range(l) <=> \E e \in Range(Testlist) : Asked(r, e, a) /\ x = Times(r, e)
  BY <1>11, <1>12
<1>. QED
  BY <1>1, <1>10, <1>13 DEF Offers, a

\* A test of the directed list takes the keys of its configuration and keeps
\* its own.
LEMMA JoinedEntry ==
    ASSUME NEW items \in Seq(Entries), ~ImportRaises(items), NEW t \in Range(TestsOf(items))
    PROVE  /\ t \in Entries /\ Joined(items, t) \in Entries
           /\ Joined(items, t).test = t.test /\ Joined(items, t).iterations = t.iterations
           /\ t.iterations > 0
           /\ \A n \in Int : Joined(items, Repeated(t, n)) = Repeated(Joined(items, t), n)
<1>. DEFINE Cs == ConfigsOf(items)
            Of(cf) == FlattenSeq([i \in DOMAIN Cs |-> IF Cs[i].config = cf THEN <<Cs[i]>> ELSE <<>>])
            c == Of(t.config)[1]
            Join(u, d) == [u EXCEPT !.requires = d.requires, !.rtl_params = d.rtl_params]
<1>1. /\ Cs \in Seq(Entries) /\ TestsOf(items) \in Seq(Entries)
      /\ t \in Entries
  BY ItemsOf, EntriesOf
<1>2. t.iterations > 0 /\ \E d \in Range(Cs) : d.config = t.config
  <2>1. t.config \in {d.config : d \in Range(Cs)} /\ ~(t.iterations <= 0)
    BY DEF ImportRaises
  <2>2. t.iterations \in Int
    BY <1>1, EntryFields
  <2>. HIDE DEF Cs
  <2>. QED
    BY <2>1, <2>2
<1>3. \A u : Joined(items, u) = IF u.requires THEN u ELSE Join(u, Of(u.config)[1])
  BY DEF Joined, Those
<1>. HIDE DEF Cs
<1>4. c \in Entries
  <2>. DEFINE K == {d \in Entries : d.config = t.config}
              b == [i \in DOMAIN Cs |-> IF Cs[i].config = t.config THEN <<Cs[i]>> ELSE <<>>]
              first == FlattenSeq(b)
  <2>1. \A d \in Entries : d \in K <=> d.config = t.config
    OBVIOUS
  <2>. HIDE DEF K
  <2>2. /\ Range(Cs) \subseteq Entries
        /\ \A i \in DOMAIN Cs : Cs[i] \in Entries
    BY <1>1, EntriesOf
  <2>3. DOMAIN b = DOMAIN Cs /\ b = [i \in DOMAIN b |-> b[i]]
    OBVIOUS
  <2>4. \A i \in DOMAIN Cs : b[i] = IF Cs[i].config = t.config THEN <<Cs[i]>> ELSE <<>>
    OBVIOUS
  <2>5. c = first[1]
    OBVIOUS
  <2>. HIDE DEF b, c
  <2>6. Picks(b, Cs, K)
    BY <2>1, <2>2, <2>3, <2>4 DEF Picks
  <2>7. first \in Seq(Entries) /\ \A x : x \in Range(first) <=> x \in Range(Cs) /\ x \in K
    BY <1>1, <2>6, Comprehended
  <2>. HIDE DEF first
  <2>8. \E d : d \in Range(first)
    BY <1>2, <2>1, <2>2, <2>7
  <2>9. /\ Len(first) \in Nat /\ DOMAIN first = 1 .. Len(first)
        /\ \A i \in 1 .. Len(first) : first[i] \in Entries
    BY <2>7, LenProperties
  <2>10. 1 \in 1 .. Len(first)
    <3>1. \E i : i \in 1 .. Len(first)
      BY <2>8, <2>9 DEF Range
    <3>. QED
      BY <3>1, <2>9
  <2>. QED
    BY <2>5, <2>9, <2>10
<1>. HIDE DEF Of, c
<1>5. Joined(items, t) = IF t.requires THEN t ELSE Join(t, c)
  BY <1>3 DEF c
<1>6. \A n \in Int : Joined(items, Repeated(t, n))
                         = IF t.requires THEN Repeated(t, n) ELSE Join(Repeated(t, n), c)
  <2>. SUFFICES ASSUME NEW n \in Int
                PROVE  Joined(items, Repeated(t, n))
                         = IF t.requires THEN Repeated(t, n) ELSE Join(Repeated(t, n), c)
    OBVIOUS
  <2>. DEFINE u == Repeated(t, n)
  <2>1. u.requires = t.requires /\ u.config = t.config
    BY <1>1 DEF Repeated, Entries
  <2>. HIDE DEF u
  <2>2. Joined(items, u) = IF u.requires THEN u ELSE Join(u, Of(u.config)[1])
    BY <1>3
  <2>3. Joined(items, u) = IF t.requires THEN u ELSE Join(u, c)
    BY <2>1, <2>2, Zenon DEF c
  <2>. QED
    BY <2>3 DEF u
<1>7. CASE t.requires
  <2>1. Joined(items, t) = t /\ \A n \in Int : Joined(items, Repeated(t, n)) = Repeated(t, n)
    BY <1>5, <1>6, <1>7
  <2>. QED
    BY <2>1, <1>1, <1>2
<1>8. CASE ~t.requires
  <2>1. /\ Joined(items, t) = Join(t, c)
        /\ \A n \in Int : Joined(items, Repeated(t, n)) = Join(Repeated(t, n), c)
    BY <1>5, <1>6, <1>8
  <2>2. Join(t, c) \in Entries /\ Join(t, c).test = t.test /\ Join(t, c).iterations = t.iterations
    BY <1>1, <1>4 DEF Entries
  <2>3. \A n \in Int : Join(Repeated(t, n), c) = Repeated(Join(t, c), n)
    BY <1>1, <1>4 DEF Entries, Repeated
  <2>. QED
    BY <2>1, <2>2, <2>3, <1>1, <1>2
<1>. QED
  BY <1>7, <1>8

\* The directed tests.
LEMMA DirectedMatched ==
    ASSUME NEW r \in Requests, r.iterations = <<>> \/ r.iterations[1] > 0,
           NEW items \in Seq(Entries), ~ImportRaises(items)
    PROVE  Offers(process_directed_testlist(r.test, r.iterations, items), r,
                  {Joined(items, t) : t \in Range(TestsOf(items))}, {"all_directed"})
<1>. DEFINE n == Given(r.iterations)
            Ts == TestsOf(items)
            E == {Joined(items, t) : t \in Range(Ts)}
            a == {"all_directed"}
            Ok(e) == "all_directed" \in r.test \/ e.test \in r.test
            K == {e \in Entries : Ok(e)}
            b == [i \in DOMAIN Ts |-> IF Ok(Ts[i]) THEN <<Ts[i]>> ELSE <<>>]
            match == FlattenSeq(b)
            Made(t) == Joined(items, IF n > 0 THEN Repeated(t, n) ELSE t)
            l == [i \in DOMAIN match |-> Made(match[i])]
<1>1. process_directed_testlist(r.test, r.iterations, items) = l
  BY DEF process_directed_testlist, Those
<1>2. Ts \in Seq(Entries) /\ Range(Ts) \subseteq Entries /\ \A i \in DOMAIN Ts : Ts[i] \in Entries
  BY ItemsOf, EntriesOf
<1>3. \A t \in Range(Ts) : /\ Joined(items, t) \in Entries
                           /\ Asked(r, Joined(items, t), a) <=> Ok(t)
                           /\ Made(t) = Times(r, Joined(items, t)) /\ Made(t) \in Entries
  <2>. SUFFICES ASSUME NEW t \in Range(Ts)
                PROVE  /\ Joined(items, t) \in Entries
                       /\ Asked(r, Joined(items, t), a) <=> Ok(t)
                       /\ Made(t) = Times(r, Joined(items, t)) /\ Made(t) \in Entries
    OBVIOUS
  <2>. DEFINE j == Joined(items, t)
  <2>1. /\ j \in Entries /\ j.test = t.test /\ j.iterations > 0
        /\ \A m \in Int : Joined(items, Repeated(t, m)) = Repeated(j, m)
    BY JoinedEntry
  <2>2. Made(t) = IF n > 0 THEN Joined(items, Repeated(t, n)) ELSE j
    OBVIOUS
  <2>. HIDE DEF j, Made, n
  <2>3. /\ Times(r, j) \in Entries /\ n \in Int
        /\ Times(r, j) = IF n > 0 THEN Repeated(j, n) ELSE j
    BY <2>1, GivenCounts DEF n
  <2>4. Made(t) = Times(r, j)
    BY <2>1, <2>2, <2>3
  <2>5. Asked(r, j, a) <=> Ok(t)
    BY <2>1 DEF Asked
  <2>. QED
    BY <2>1, <2>3, <2>4, <2>5 DEF j
<1>. HIDE DEF Ts, Ok, Made, n, a
<1>4. \A e \in Entries : e \in K <=> Ok(e)
  OBVIOUS
<1>. HIDE DEF K
<1>5. Picks(b, Ts, K)
  <2>1. DOMAIN b = DOMAIN Ts /\ b = [i \in DOMAIN b |-> b[i]]
    OBVIOUS
  <2>2. \A i \in DOMAIN Ts : b[i] = IF Ok(Ts[i]) THEN <<Ts[i]>> ELSE <<>>
    OBVIOUS
  <2>. HIDE DEF b
  <2>. QED
    BY <2>1, <2>2, <1>2, <1>4 DEF Picks
<1>. HIDE DEF b
<1>6. /\ match \in Seq(Entries)
      /\ \A x : x \in Range(match) <=> x \in Range(Ts) /\ x \in K
  BY <1>2, <1>5, Comprehended
<1>. HIDE DEF match
<1>7. /\ Len(match) \in Nat /\ DOMAIN match = 1 .. Len(match)
      /\ \A i \in DOMAIN match : match[i] \in Range(match)
  BY <1>6, LenProperties DEF Range
<1>8. /\ DOMAIN l = DOMAIN match /\ l = [i \in DOMAIN l |-> l[i]]
      /\ \A i \in DOMAIN match : l[i] = Made(match[i])
  OBVIOUS
<1>. HIDE DEF l
<1>9. \A i \in DOMAIN match : l[i] \in Entries
  BY <1>3, <1>6, <1>7, <1>8
<1>10. l \in Seq(Entries)
  BY <1>7, <1>8, <1>9, IsList
<1>11. \A x : x \in Range(l) <=> \E t \in Range(match) : x = Made(t)
  BY <1>8 DEF Range
<1>12. \A t : t \in Range(match) <=> t \in Range(Ts) /\ Ok(t)
  BY <1>2, <1>4, <1>6
<1>13. \A x : x \in Range(l) <=>
          \E t \in Range(Ts) : Asked(r, Joined(items, t), a) /\ x = Times(r, Joined(items, t))
  BY <1>3, <1>11, <1>12
<1>14. \A x : x \in Range(l) <=> \E e \in E : Asked(r, e, a) /\ x = Times(r, e)
  BY <1>13
<1>. QED
  BY <1>1, <1>10, <1>14 DEF Offers, a, Ts
-------------------------------------------------------------------------------
(* The filter *)

\* The loop over the parameters of an entry stops at a first one that does not
\* fit, or at the end: then it has kept the entry for each.
LEMMA LoopStops ==
    ASSUME NEW cfg, NEW e \in Entries
    PROVE  /\ Accepted(cfg, e) \in 0 .. Len(e.rtl_params)
           /\ \A i \in 1 .. Accepted(cfg, e) : Allows(cfg, e.rtl_params[i])
           /\ Accepted(cfg, e) < Len(e.rtl_params) => ~Allows(cfg, e.rtl_params[Accepted(cfg, e) + 1])
<1>. DEFINE ps == e.rtl_params
            N == Len(ps)
            Stops(k) == /\ \A i \in 1 .. k : Allows(cfg, ps[i])
                        /\ k < N => ~Allows(cfg, ps[k + 1])
<1>1. ps \in Seq(STRING \X SUBSET (STRING \X STRING))
  BY EntryFields
<1>2. N \in Nat
  BY <1>1, LenProperties
<1>3. Accepted(cfg, e) = CHOOSE k \in 0 .. N : Stops(k)
  BY Zenon DEF Accepted
<1>. HIDE DEF N
<1>4. \E k \in 0 .. N : Stops(k)
  <2>. DEFINE Out == {i \in 1 .. N : ~Allows(cfg, ps[i])}
  <2>1. CASE Out = {}
    <3>1. N \in 0 .. N /\ ~(N < N)
      BY <1>2
    <3>2. Stops(N)
      BY <2>1, <3>1
    <3>. QED
      BY <3>1, <3>2
  <2>2. CASE Out # {}
    <3>1. Out \subseteq Nat
      OBVIOUS
    <3>. HIDE DEF Out
    <3>2. PICK i \in Out : \A j \in Out : i <= j
      BY <2>2, <3>1, LeastLine
    <3>3. i \in 1 .. N /\ ~Allows(cfg, ps[i])
      BY <3>2 DEF Out
    <3>4. i - 1 \in 0 .. N /\ (i - 1) + 1 = i /\ \A j \in 1 .. i - 1 : j \in 1 .. N /\ ~(i <= j)
      BY <1>2, <3>3
    <3>5. \A j \in 1 .. i - 1 : Allows(cfg, ps[j])
      BY <3>2, <3>4 DEF Out
    <3>6. Stops(i - 1)
      BY <3>3, <3>4, <3>5
    <3>. QED
      BY <3>4, <3>6
  <2>. QED
    BY <2>1, <2>2
<1>. HIDE DEF Stops
<1>5. Accepted(cfg, e) \in 0 .. N /\ Stops(Accepted(cfg, e))
  BY <1>3, <1>4
<1>. QED
  BY <1>5 DEF Stops, N

\* An entry that fits is kept.  One without a second parameter is kept once if
\* it fits, and not at all otherwise.
LEMMA KeptIfFits ==
    ASSUME NEW cfg, NEW e \in Entries
    PROVE  /\ Copies(cfg, e) \in Nat
           /\ Compatible(cfg, e) => Copies(cfg, e) # 0
           /\ Plain(e) => Copies(cfg, e) = IF Compatible(cfg, e) THEN 1 ELSE 0
<1>. DEFINE ps == e.rtl_params
            k == Accepted(cfg, e)
<1>1. ps \in Seq(STRING \X SUBSET (STRING \X STRING)) /\ e.requires \in BOOLEAN
  BY EntryFields
<1>2. Len(ps) \in Nat /\ DOMAIN ps = 1 .. Len(ps) /\ (ps = <<>> <=> Len(ps) = 0)
  BY <1>1, LenProperties, EmptySeq
<1>3. CASE ~e.requires
  <2>1. Copies(cfg, e) = 1
    BY <1>3 DEF Copies
  <2>2. ASSUME Plain(e) PROVE Compatible(cfg, e)
    <3>1. Len(ps) = 0
      BY <1>3, <2>2 DEF Plain
    <3>2. Range(ps) = {}
      BY <1>2, <3>1 DEF Range
    <3>. QED
      BY <1>3, <3>2 DEF Compatible
  <2>. QED
    BY <2>1, <2>2
<1>4. CASE e.requires
  <2>1. Copies(cfg, e) = k
    BY <1>4 DEF Copies
  <2>2. /\ k \in 0 .. Len(ps)
        /\ \A i \in 1 .. k : Allows(cfg, ps[i])
        /\ k < Len(ps) => ~Allows(cfg, ps[k + 1])
    BY LoopStops
  <2>. HIDE DEF k
  <2>3. k \in Nat
    BY <1>2, <2>2
  <2>4. ASSUME Compatible(cfg, e) PROVE k = Len(ps) /\ k # 0
    <3>1. \A i \in 1 .. Len(ps) : Allows(cfg, ps[i])
      BY <1>2, <2>4 DEF Compatible, Range
    <3>2. k < Len(ps) => k + 1 \in 1 .. Len(ps)
      BY <1>2, <2>3
    <3>3. ~(k < Len(ps))
      BY <2>2, <3>1, <3>2
    <3>4. Len(ps) # 0
      BY <1>2, <1>4, <2>4 DEF Compatible
    <3>. QED
      BY <1>2, <2>2, <2>3, <3>3, <3>4
  <2>5. ASSUME Plain(e) PROVE k = IF Compatible(cfg, e) THEN 1 ELSE 0
    <3>1. Len(ps) = 1
      BY <1>4, <2>5 DEF Plain
    <3>2. CASE Compatible(cfg, e)
      BY <2>4, <3>1, <3>2
    <3>3. CASE ~Compatible(cfg, e)
      <4>1. \E p \in Range(ps) : ~Allows(cfg, p)
        BY <1>2, <3>1, <3>3 DEF Compatible
      <4>2. \A i \in 1 .. 1 : i = 1
        OBVIOUS
      <4>3. ~Allows(cfg, ps[1])
        BY <1>2, <3>1, <4>1, <4>2 DEF Range
      <4>4. k # 1
        BY <2>2, <4>3
      <4>. QED
        BY <2>2, <3>1, <3>3, <4>4
    <3>. QED
      BY <3>2, <3>3
  <2>. QED
    BY <2>1, <2>3, <2>4, <2>5
<1>. QED
  BY <1>1, <1>3, <1>4

\* What is kept of a list.
LEMMA Filtered ==
    ASSUME NEW cfg, NEW list \in Seq(Entries)
    PROVE  LET l == filter_tests_by_config(cfg, list)
           IN /\ l \in Seq(Entries)
              /\ \A x : x \in Range(l) <=> x \in Range(list) /\ Copies(cfg, x) # 0
              /\ (\A e \in Range(list) : Plain(e)) /\ Distinct(list) => Distinct(l)
<1>. DEFINE N == Len(list)
            b == [i \in DOMAIN list |-> [j \in 1 .. Copies(cfg, list[i]) |-> list[i]]]
            l == FlattenSeq(b)
<1>1. N \in Nat /\ DOMAIN list = 1 .. N /\ \A i \in 1 .. N : list[i] \in Entries /\ list[i] \in Range(list)
  BY LenProperties DEF Range
<1>. HIDE DEF N
<1>2. /\ DOMAIN b = 1 .. N /\ b = [i \in DOMAIN b |-> b[i]]
      /\ \A i \in 1 .. N : b[i] = [j \in 1 .. Copies(cfg, list[i]) |-> list[i]]
  BY <1>1
<1>3. filter_tests_by_config(cfg, list) = l
  BY Zenon DEF filter_tests_by_config
<1>. HIDE DEF b
<1>4. \A i \in 1 .. N : /\ b[i] \in Seq(Entries) /\ (Plain(list[i]) => IsInjective(b[i]))
                        /\ \A x : x \in Range(b[i]) <=> x = list[i] /\ Copies(cfg, list[i]) # 0
  <2>. SUFFICES ASSUME NEW i \in 1 .. N
                PROVE  /\ b[i] \in Seq(Entries) /\ (Plain(list[i]) => IsInjective(b[i]))
                       /\ \A x : x \in Range(b[i]) <=> x = list[i] /\ Copies(cfg, list[i]) # 0
    OBVIOUS
  <2>. DEFINE e == list[i]
              k == Copies(cfg, e)
              s == [j \in 1 .. k |-> e]
  <2>1. e \in Entries /\ b[i] = s
    BY <1>1, <1>2
  <2>2. k \in Nat /\ (Plain(e) => k \in {0, 1})
    BY <2>1, KeptIfFits
  <2>3. DOMAIN s = 1 .. k /\ s = [j \in DOMAIN s |-> s[j]] /\ \A j \in 1 .. k : s[j] = e
    OBVIOUS
  <2>. HIDE DEF k, e, s
  <2>4. s \in Seq(Entries)
    BY <2>1, <2>2, <2>3, IsList
  <2>5. ASSUME Plain(e) PROVE IsInjective(s)
    <3>1. \A j, m \in 1 .. k : j = m
      BY <2>2, <2>5
    <3>. QED
      BY <2>3, <3>1 DEF IsInjective
  <2>6. \A x : x \in Range(s) <=> x = e /\ k # 0
    <3>1. k # 0 => 1 \in 1 .. k
      BY <2>2
    <3>2. k = 0 => 1 .. k = {}
      BY <2>2
    <3>. QED
      BY <2>3, <3>1, <3>2 DEF Range
  <2>. QED
    BY <2>1, <2>4, <2>5, <2>6 DEF e, k
<1>5. b \in Seq(Seq(Entries)) /\ Len(b) = N
  BY <1>1, <1>2, <1>4, IsList
<1>6. /\ l \in Seq(Entries)
      /\ \A x : x \in Range(l) <=> \E i \in 1 .. N : x \in Range(b[i])
      /\ (\A i \in 1 .. N : IsInjective(b[i]))
         /\ (\A i, j \in 1 .. N : i # j => Range(b[i]) \cap Range(b[j]) = {}) => IsInjective(l)
  BY <1>5, Flattened
<1>. HIDE DEF l
<1>7. \A x : x \in Range(l) <=> x \in Range(list) /\ Copies(cfg, x) # 0
  <2>1. \A x : x \in Range(list) <=> \E i \in 1 .. N : x = list[i]
    BY <1>1 DEF Range
  <2>2. \A x : x \in Range(l) <=> \E i \in 1 .. N : x = list[i] /\ Copies(cfg, list[i]) # 0
    <3>1. \A i \in 1 .. N : \A x : x \in Range(b[i]) <=> x = list[i] /\ Copies(cfg, list[i]) # 0
      BY <1>4
    <3>2. \A x : x \in Range(l) <=> \E i \in 1 .. N : x \in Range(b[i])
      BY <1>6
    <3>. QED
      BY <3>1, <3>2, Zenon
  <2>3. ASSUME NEW x, x \in Range(l) PROVE x \in Range(list) /\ Copies(cfg, x) # 0
    <3>1. PICK i \in 1 .. N : x = list[i] /\ Copies(cfg, list[i]) # 0
      BY <2>2, <2>3
    <3>. QED
      BY <2>1, <3>1
  <2>4. ASSUME NEW x, x \in Range(list), Copies(cfg, x) # 0 PROVE x \in Range(l)
    <3>1. PICK i \in 1 .. N : x = list[i]
      BY <2>1, <2>4
    <3>. QED
      BY <2>2, <2>4, <3>1
  <2>. QED
    BY <2>3, <2>4
<1>8. ASSUME \A e \in Range(list) : Plain(e), Distinct(list) PROVE Distinct(l)
  <2>1. \A i, j \in 1 .. N : list[i].test = list[j].test => i = j
    BY <1>1, <1>8 DEF Distinct
  <2>2. \A i, j \in 1 .. N : i # j => Range(b[i]) \cap Range(b[j]) = {}
    <3>. SUFFICES ASSUME NEW i \in 1 .. N, NEW j \in 1 .. N, i # j, NEW x,
                         x \in Range(b[i]), x \in Range(b[j])
                  PROVE  FALSE
      OBVIOUS
    <3>1. x = list[i] /\ x = list[j]
      BY <1>4
    <3>. QED
      BY <3>1, <2>1
  <2>3. IsInjective(l)
    <3>1. \A i \in 1 .. N : IsInjective(b[i])
      BY <1>1, <1>4, <1>8
    <3>. QED
      BY <1>6, <2>2, <3>1
  <2>4. ASSUME NEW i \in DOMAIN l, NEW j \in DOMAIN l, l[i].test = l[j].test PROVE i = j
    <3>1. l[i] \in Range(list) /\ l[j] \in Range(list)
      BY <1>7 DEF Range
    <3>2. PICK u \in 1 .. N : l[i] = list[u]
      BY <1>1, <3>1 DEF Range
    <3>3. PICK v \in 1 .. N : l[j] = list[v]
      BY <1>1, <3>1 DEF Range
    <3>4. l[i] = l[j]
      BY <2>1, <2>4, <3>2, <3>3
    <3>. QED
      BY <2>3, <3>4 DEF IsInjective
  <2>. QED
    BY <2>4 DEF Distinct
<1>. QED
  BY <1>3, <1>6, <1>7, <1>8
-------------------------------------------------------------------------------
(* The tests of a regression *)

\* A name, how many seeds of it run, and the list it comes from.
Counteds == [test : STRING, count : Int, type : {"RISCVDV", "DIRECTED"}]
NamedOnce(tc) == \A i, j \in DOMAIN tc : tc[i].test = tc[j].test /\ tc[i].type = tc[j].type => i = j

\* get_tests_and_counts keeps what the filter kept of the two lists.
LEMMA CountedLists ==
    ASSUME NEW A \in Seq(Entries), NEW B \in Seq(Entries)
    PROVE  LET tc == Counted(A, "RISCVDV") \o Counted(B, "DIRECTED")
           IN /\ tc \in Seq(Counteds)
              /\ \A x : x \in Range(tc) <=>
                   \/ \E e \in Range(A) : x = [test |-> e.test, count |-> e.iterations, type |-> "RISCVDV"]
                   \/ \E e \in Range(B) : x = [test |-> e.test, count |-> e.iterations, type |-> "DIRECTED"]
              /\ Distinct(A) /\ Distinct(B) => NamedOnce(tc)
<1>. DEFINE Rec(e, ty) == [test |-> e.test, count |-> e.iterations, type |-> ty]
            a == Counted(A, "RISCVDV")
            b == Counted(B, "DIRECTED")
            tc == a \o b
            Of(c, C, ty) == \A x : x \in Range(c) <=> \E e \in Range(C) : x = Rec(e, ty)
<1>1. ASSUME NEW C \in Seq(Entries), NEW ty \in {"RISCVDV", "DIRECTED"}
      PROVE  /\ Counted(C, ty) \in Seq(Counteds) /\ Of(Counted(C, ty), C, ty)
             /\ DOMAIN Counted(C, ty) = DOMAIN C
             /\ \A i \in DOMAIN C : Counted(C, ty)[i].test = C[i].test /\ Counted(C, ty)[i].type = ty
  <2>. DEFINE c == Counted(C, ty)
  <2>1. /\ Len(C) \in Nat /\ DOMAIN C = 1 .. Len(C)
        /\ \A i \in 1 .. Len(C) : C[i] \in Entries
    BY LenProperties
  <2>2. DOMAIN c = DOMAIN C /\ c = [i \in DOMAIN c |-> c[i]] /\ \A i \in DOMAIN C : c[i] = Rec(C[i], ty)
    BY DEF Counted
  <2>3. \A e \in Entries : Rec(e, ty) \in Counteds /\ Rec(e, ty).test = e.test /\ Rec(e, ty).type = ty
    BY EntryFields DEF Counteds
  <2>. HIDE DEF c, Rec
  <2>4. c \in Seq(Counteds)
    BY <2>1, <2>2, <2>3, IsList
  <2>5. Of(c, C, ty)
    BY <2>2 DEF Range
  <2>. QED
    BY <2>1, <2>2, <2>3, <2>4, <2>5 DEF c
<1>2. /\ a \in Seq(Counteds) /\ Of(a, A, "RISCVDV") /\ DOMAIN a = DOMAIN A
      /\ \A i \in DOMAIN A : a[i].test = A[i].test /\ a[i].type = "RISCVDV"
  BY <1>1
<1>3. /\ b \in Seq(Counteds) /\ Of(b, B, "DIRECTED") /\ DOMAIN b = DOMAIN B
      /\ \A i \in DOMAIN B : b[i].test = B[i].test /\ b[i].type = "DIRECTED"
  BY <1>1
<1>. HIDE DEF a, b, Rec
<1>4. /\ tc \in Seq(Counteds)
      /\ \A x : x \in Range(tc) <=> x \in Range(a) \/ x \in Range(b)
      /\ IsInjective(a) /\ IsInjective(b) /\ Range(a) \cap Range(b) = {} => IsInjective(tc)
  BY <1>2, <1>3, Concatenated
<1>. HIDE DEF tc
<1>5. \A x : x \in Range(tc) <=> \/ \E e \in Range(A) : x = Rec(e, "RISCVDV")
                                 \/ \E e \in Range(B) : x = Rec(e, "DIRECTED")
  BY <1>2, <1>3, <1>4
<1>6. ASSUME Distinct(A), Distinct(B) PROVE NamedOnce(tc)
  <2>1. \A x \in Range(a) : x.type = "RISCVDV"
    BY <1>2 DEF Range
  <2>2. \A x \in Range(b) : x.type = "DIRECTED"
    BY <1>3 DEF Range
  <2>3. \A i, j \in DOMAIN a : a[i].test = a[j].test => i = j
    BY <1>2, <1>6 DEF Distinct
  <2>4. \A i, j \in DOMAIN b : b[i].test = b[j].test => i = j
    BY <1>3, <1>6 DEF Distinct
  <2>5. IsInjective(a) /\ IsInjective(b)
    BY <2>3, <2>4 DEF IsInjective
  <2>6. Range(a) \cap Range(b) = {}
    BY <2>1, <2>2
  <2>7. IsInjective(tc)
    BY <1>4, <2>5, <2>6
  <2>8. \A x, y \in Range(a) : x.test = y.test => x = y
    BY <2>3 DEF Range
  <2>9. \A x, y \in Range(b) : x.test = y.test => x = y
    BY <2>4 DEF Range
  <2>10. \A x, y \in Range(tc) : x.test = y.test /\ x.type = y.type => x = y
    BY <1>4, <2>1, <2>2, <2>8, <2>9
  <2>11. \A i \in DOMAIN tc : tc[i] \in Range(tc)
    BY DEF Range
  <2>. QED
    BY <2>7, <2>10, <2>11 DEF NamedOnce, IsInjective
<1>. QED
  BY <1>4, <1>5, <1>6 DEF tc, a, b, Rec

\* The list that TestDotSeeds makes of them.
SeedList(tc, seed) ==
    FlattenSeq([i \in DOMAIN tc |->
        [j \in 1 .. tc[i].count |-> [name |-> tc[i].test, seed |-> seed + j - 1, type |-> tc[i].type]]])

\* One test for each seed.
LEMMA SeedsOfTests ==
    ASSUME NEW tc \in Seq(Counteds), NEW seed \in Int
    PROVE  /\ \A x : x \in Range(SeedList(tc, seed)) <=>
                \E c \in Range(tc) : \E s \in seed .. seed + c.count - 1 :
                    x = [name |-> c.test, seed |-> s, type |-> c.type]
           /\ NamedOnce(tc) => IsInjective(SeedList(tc, seed))
<1>. DEFINE Rec(c, s) == [name |-> c.test, seed |-> s, type |-> c.type]
            S == {Rec(c, s) : c \in Counteds, s \in Int}
            Block(c) == [j \in 1 .. c.count |-> Rec(c, seed + j - 1)]
            b == [i \in DOMAIN tc |-> Block(tc[i])]
            l == FlattenSeq(b)
<1>1. /\ Len(tc) \in Nat /\ DOMAIN tc = 1 .. Len(tc)
      /\ \A i \in 1 .. Len(tc) : tc[i] \in Counteds
  BY LenProperties
<1>2. ASSUME NEW c \in Counteds
      PROVE  /\ Block(c) \in Seq(S) /\ IsInjective(Block(c))
             /\ \A x : x \in Range(Block(c)) <=> \E s \in seed .. seed + c.count - 1 : x = Rec(c, s)
  <2>. DEFINE f == Block(c)
              n == c.count
  <2>1. n \in Int
    BY DEF Counteds
  <2>2. \A s : Rec(c, s).seed = s
    OBVIOUS
  <2>3. \A s \in Int : Rec(c, s) \in S
    OBVIOUS
  <2>4. DOMAIN f = 1 .. n /\ f = [j \in DOMAIN f |-> f[j]] /\ \A j \in 1 .. n : f[j] = Rec(c, seed + j - 1)
    OBVIOUS
  <2>. HIDE DEF f, n, S, Rec
  <2>5. f \in Seq(S)
    <3>. DEFINE m == IF n < 0 THEN 0 ELSE n
    <3>1. m \in Nat /\ 1 .. n = 1 .. m
      BY <2>1
    <3>. HIDE DEF m
    <3>2. \A j \in 1 .. m : seed + j - 1 \in Int
      BY <3>1
    <3>3. \A j \in 1 .. m : f[j] \in S
      BY <2>3, <2>4, <3>1, <3>2
    <3>. QED
      BY <2>4, <3>1, <3>3, IsList
  <2>6. IsInjective(f)
    <3>. SUFFICES ASSUME NEW i \in 1 .. n, NEW j \in 1 .. n, f[i] = f[j] PROVE i = j
      BY <2>4 DEF IsInjective
    <3>1. seed + i - 1 = seed + j - 1
      BY <2>2, <2>4
    <3>. QED
      BY <2>1, <3>1
  <2>7. \A x : x \in Range(f) <=> \E s \in seed .. seed + n - 1 : x = Rec(c, s)
    <3>1. \A j \in 1 .. n : seed + j - 1 \in seed .. seed + n - 1
      BY <2>1
    <3>2. \A s \in seed .. seed + n - 1 : \E j \in 1 .. n : s = seed + j - 1
      <4>1. \A s \in seed .. seed + n - 1 : s - seed + 1 \in 1 .. n /\ s = seed + (s - seed + 1) - 1
        BY <2>1
      <4>. QED
        BY <4>1
    <3>3. \A x : x \in Range(f) <=> \E j \in 1 .. n : x = Rec(c, seed + j - 1)
      BY <2>4 DEF Range
    <3>. QED
      BY <3>1, <3>2, <3>3
  <2>. QED
    BY <2>5, <2>6, <2>7 DEF f, n
<1>3. DOMAIN b = 1 .. Len(tc) /\ b = [i \in DOMAIN b |-> b[i]] /\ \A i \in 1 .. Len(tc) : b[i] = Block(tc[i])
  BY <1>1
<1>4. SeedList(tc, seed) = l
  BY Zenon DEF SeedList
<1>. HIDE DEF Block, b, S, Rec
<1>5. b \in Seq(Seq(S)) /\ Len(b) = Len(tc)
  <2>1. \A i \in 1 .. Len(tc) : b[i] \in Seq(S)
    BY <1>1, <1>2, <1>3
  <2>. QED
    BY <1>1, <1>3, <2>1, IsList
<1>6. /\ \A x : x \in Range(l) <=> \E i \in 1 .. Len(tc) : x \in Range(b[i])
      /\ (\A i \in 1 .. Len(tc) : IsInjective(b[i]))
         /\ (\A i, j \in 1 .. Len(tc) : i # j => Range(b[i]) \cap Range(b[j]) = {}) => IsInjective(l)
  BY <1>5, Flattened
<1>. HIDE DEF l
<1>7. \A i \in 1 .. Len(tc) : \A x : x \in Range(b[i]) <=>
          \E s \in seed .. seed + tc[i].count - 1 : x = Rec(tc[i], s)
  BY <1>1, <1>2, <1>3
<1>8. \A x : x \in Range(l) <=> \E c \in Range(tc) : \E s \in seed .. seed + c.count - 1 : x = Rec(c, s)
  <2>1. \A c : c \in Range(tc) <=> \E i \in 1 .. Len(tc) : c = tc[i]
    BY <1>1 DEF Range
  <2>2. \A x : x \in Range(l) <=>
            \E i \in 1 .. Len(tc) : \E s \in seed .. seed + tc[i].count - 1 : x = Rec(tc[i], s)
    <3>1. \A x : x \in Range(l) <=> \E i \in 1 .. Len(tc) : x \in Range(b[i])
      BY <1>6
    <3>. DEFINE Has(i, x) == \E s \in seed .. seed + tc[i].count - 1 : x = Rec(tc[i], s)
    <3>2. \A i \in 1 .. Len(tc) : \A x : x \in Range(b[i]) <=> Has(i, x)
      BY <1>7
    <3>. HIDE DEF Has
    <3>3. \A x : x \in Range(l) <=> \E i \in 1 .. Len(tc) : Has(i, x)
      BY <3>1, <3>2
    <3>. QED
      BY <3>3 DEF Has
  <2>. QED
    BY <2>1, <2>2
<1>9. ASSUME NamedOnce(tc) PROVE IsInjective(l)
  <2>1. \A i, j \in 1 .. Len(tc) : i # j => Range(b[i]) \cap Range(b[j]) = {}
    <3>. SUFFICES ASSUME NEW i \in 1 .. Len(tc), NEW j \in 1 .. Len(tc), NEW x,
                         x \in Range(b[i]), x \in Range(b[j])
                  PROVE  i = j
      OBVIOUS
    <3>1. PICK s : x = Rec(tc[i], s)
      BY <1>7
    <3>2. PICK t : x = Rec(tc[j], t)
      BY <1>7
    <3>3. Rec(tc[i], s) = Rec(tc[j], t)
      BY <3>1, <3>2
    <3>4. tc[i].test = tc[j].test /\ tc[i].type = tc[j].type
      BY <3>3 DEF Rec
    <3>. QED
      BY <1>1, <1>9, <3>4 DEF NamedOnce
  <2>2. \A i \in 1 .. Len(tc) : IsInjective(b[i])
    BY <1>1, <1>2, <1>3
  <2>. QED
    BY <1>6, <2>1, <2>2
<1>. QED
  BY <1>4, <1>8, <1>9 DEF Rec

\* The filter keeps, of one of the lists, what is wanted, and nothing else if
\* no entry has a second parameter.
LEMMA WantedOfList ==
    ASSUME NEW r \in Requests, NEW E \in SUBSET Entries, NEW all, NEW type, NEW list,
           Offers(list, r, E, all)
    PROVE  LET IsRun(x) ==
                 \E e \in Range(filter_tests_by_config(ConfigFile[r.config], list)) :
                     \E s \in r.seed .. r.seed + e.iterations - 1 :
                         x = [name |-> e.test, seed |-> s, type |-> type]
           IN /\ \A x \in Wanted(r, E, type, all) : IsRun(x)
              /\ (\A e \in Range(list) : Plain(e)) => \A x : IsRun(x) => x \in Wanted(r, E, type, all)
<1>. DEFINE cfg == ConfigFile[r.config]
            kept == filter_tests_by_config(cfg, list)
            Rec(e, s) == [name |-> e.test, seed |-> s, type |-> type]
            Seeded(e) == {Rec(e, s) : s \in Seeds(r, e)}
            Fits == {e \in E : Asked(r, e, all) /\ Compatible(cfg, e)}
            Has(x, e) == \E s \in r.seed .. r.seed + e.iterations - 1 : x = Rec(e, s)
<1>1. Wanted(r, E, type, all) = UNION {Seeded(e) : e \in Fits}
  BY DEF Wanted, Asked
<1>2. /\ list \in Seq(Entries) /\ Range(list) \subseteq Entries
      /\ \A x : x \in Range(kept) <=> x \in Range(list) /\ Copies(cfg, x) # 0
  <2>1. list \in Seq(Entries)
    BY DEF Offers
  <2>. QED
    BY <2>1, Filtered, EntriesOf
<1>3. \A e \in Entries : /\ Compatible(cfg, Times(r, e)) <=> Compatible(cfg, e)
                         /\ \A x : Has(x, Times(r, e)) <=> x \in Seeded(e)
  <2>. SUFFICES ASSUME NEW e \in Entries
                PROVE  /\ Compatible(cfg, Times(r, e)) <=> Compatible(cfg, e)
                       /\ \A x : Has(x, Times(r, e)) <=> x \in Seeded(e)
    OBVIOUS
  <2>. DEFINE u == Times(r, e)
  <2>1. /\ u.rtl_params = e.rtl_params /\ u.test = e.test /\ u.iterations = Counts(r, e)
        /\ u.requires = e.requires
    BY DEF Times, Entries
  <2>2. Seeds(r, e) = r.seed .. r.seed + Counts(r, e) - 1
    BY DEF Seeds, Counts
  <2>. HIDE DEF u
  <2>3. Compatible(cfg, u) <=> Compatible(cfg, e)
    BY <2>1 DEF Compatible
  <2>4. \A x : Has(x, u) <=> x \in Seeded(e)
    BY <2>1, <2>2
  <2>. QED
    BY <2>3, <2>4 DEF u
<1>4. \A y : y \in Range(list) <=> \E e \in E : Asked(r, e, all) /\ y = Times(r, e)
  BY DEF Offers
<1>5. \A y \in Range(list) : /\ Compatible(cfg, y) => Copies(cfg, y) # 0
                             /\ Plain(y) /\ Copies(cfg, y) # 0 => Compatible(cfg, y)
  BY <1>2, KeptIfFits
<1>. HIDE DEF cfg, kept, Seeded, Has
<1>6. \A e \in Fits : Times(r, e) \in Range(kept)
  <2>. SUFFICES ASSUME NEW e \in Fits PROVE Times(r, e) \in Range(kept)
    OBVIOUS
  <2>1. Times(r, e) \in Range(list) /\ Compatible(cfg, Times(r, e))
    BY <1>3, <1>4
  <2>. QED
    BY <1>2, <1>5, <2>1
<1>7. ASSUME \A e \in Range(list) : Plain(e), NEW y \in Range(kept)
      PROVE  \E e \in Fits : y = Times(r, e)
  <2>1. y \in Range(list) /\ Compatible(cfg, y)
    BY <1>2, <1>5, <1>7
  <2>2. PICK e \in E : Asked(r, e, all) /\ y = Times(r, e)
    BY <1>4, <2>1
  <2>. QED
    BY <1>3, <2>1, <2>2
<1>8. \A x : x \in UNION {Seeded(e) : e \in Fits} <=> \E e \in Fits : x \in Seeded(e)
  OBVIOUS
<1>9. \A e \in Fits : \A x : x \in Seeded(e) <=> Has(x, Times(r, e))
  BY <1>3
<1>. HIDE DEF Fits
<1>10. \A x \in Wanted(r, E, type, all) : \E y \in Range(kept) : Has(x, y)
  BY <1>1, <1>6, <1>8, <1>9
<1>11. ASSUME \A e \in Range(list) : Plain(e), NEW x, NEW y \in Range(kept), Has(x, y)
       PROVE  x \in Wanted(r, E, type, all)
  BY <1>1, <1>7, <1>8, <1>9, <1>11
<1>. QED
  BY <1>10, <1>11 DEF Has, kept, cfg

\* What TestDotSeeds returns for a request that metadata.py accepts.
LEMMA Exact ==
    ASSUME NEW r \in Requests, NEW items \in Seq(Entries), ~CreateRaises(r, items)
    PROVE  LET random == process_riscvdv_testlist(r.test, r.iterations)
               directed == process_directed_testlist(r.test, r.iterations, items)
               joined == {Joined(items, t) : t \in Range(TestsOf(items))}
               wanted == Wanted(r, Range(Testlist), "RISCVDV", {"all", "all_riscvdv"})
                             \cup Wanted(r, joined, "DIRECTED", {"all_directed"})
               l == TestDotSeeds(r, items)
           IN /\ wanted \subseteq Range(l)
              /\ (\A e \in Range(Matched(r, items)) : Plain(e)) =>
                    /\ Range(l) \subseteq wanted
                    /\ Distinct(random) /\ Distinct(directed) => IsInjective(l)
<1>. DEFINE random == process_riscvdv_testlist(r.test, r.iterations)
            directed == process_directed_testlist(r.test, r.iterations, items)
            joined == {Joined(items, t) : t \in Range(TestsOf(items))}
            cfg == ConfigFile[r.config]
            A == filter_tests_by_config(cfg, random)
            B == filter_tests_by_config(cfg, directed)
            tc == Counted(A, "RISCVDV") \o Counted(B, "DIRECTED")
            l == TestDotSeeds(r, items)
            a == {"all", "all_riscvdv"}
            d == {"all_directed"}
            WR == Wanted(r, Range(Testlist), "RISCVDV", a)
            WD == Wanted(r, joined, "DIRECTED", d)
            AllPlain == \A e \in Range(Matched(r, items)) : Plain(e)
            IsRun(x, list, type) == \E e \in Range(list) : \E s \in r.seed .. r.seed + e.iterations - 1 :
                                        x = [name |-> e.test, seed |-> s, type |-> type]
<1>1. r.seed \in Int /\ r.iterations \in Seq(Int)
  BY DEF Requests
<1>2. (r.iterations = <<>> \/ r.iterations[1] > 0) /\ ~ImportRaises(items)
  <2>1. ~(r.iterations # <<>> /\ r.iterations[1] <= 0) /\ ~ImportRaises(items)
    BY DEF CreateRaises
  <2>2. r.iterations # <<>> => r.iterations[1] \in Int
    BY <1>1
  <2>. QED
    BY <2>1, <2>2
<1>3. Offers(random, r, Range(Testlist), a)
  BY <1>2, RandomMatched
<1>4. Offers(directed, r, joined, d)
  BY <1>2, DirectedMatched
<1>5. Range(Testlist) \in SUBSET Entries
  BY TestlistAssumption, EntriesOf
<1>6. joined \in SUBSET Entries
  BY <1>2, JoinedEntry
<1>7. Matched(r, items) = random \o directed
  BY DEF Matched
<1>8. l = SeedList(tc, r.seed)
  BY DEF TestDotSeeds, get_tests_and_counts, SeedList
<1>. HIDE DEF random, directed, joined, cfg, l, a, d
<1>9. random \in Seq(Entries) /\ directed \in Seq(Entries)
  BY <1>3, <1>4 DEF Offers
<1>10. AllPlain => (\A e \in Range(random) : Plain(e)) /\ (\A e \in Range(directed) : Plain(e))
  <2>1. \A x : x \in Range(random \o directed) <=> x \in Range(random) \/ x \in Range(directed)
    BY <1>9, Concatenated
  <2>. QED
    BY <1>7, <2>1
<1>. HIDE DEF AllPlain
<1>11. /\ A \in Seq(Entries) /\ B \in Seq(Entries)
       /\ AllPlain /\ Distinct(random) => Distinct(A)
       /\ AllPlain /\ Distinct(directed) => Distinct(B)
  BY <1>9, <1>10, Filtered
<1>12. (\A x \in WR : IsRun(x, A, "RISCVDV")) /\ (AllPlain => \A x : IsRun(x, A, "RISCVDV") => x \in WR)
  BY <1>3, <1>5, <1>10, WantedOfList DEF cfg
<1>13. (\A x \in WD : IsRun(x, B, "DIRECTED")) /\ (AllPlain => \A x : IsRun(x, B, "DIRECTED") => x \in WD)
  BY <1>4, <1>6, <1>10, WantedOfList DEF cfg
<1>. HIDE DEF A, B, WR, WD
<1>. DEFINE Count(e, type) == [test |-> e.test, count |-> e.iterations, type |-> type]
            Has(x, c) == \E s \in r.seed .. r.seed + c.count - 1 :
                             x = [name |-> c.test, seed |-> s, type |-> c.type]
<1>14. /\ tc \in Seq(Counteds)
       /\ \A c : c \in Range(tc) <=> \/ \E e \in Range(A) : c = Count(e, "RISCVDV")
                                     \/ \E e \in Range(B) : c = Count(e, "DIRECTED")
       /\ Distinct(A) /\ Distinct(B) => NamedOnce(tc)
  BY <1>11, CountedLists
<1>. HIDE DEF tc
<1>15. /\ \A x : x \in Range(l) <=> \E c \in Range(tc) : Has(x, c)
       /\ NamedOnce(tc) => IsInjective(l)
  BY <1>1, <1>8, <1>14, SeedsOfTests
<1>16. \A x, list, type : IsRun(x, list, type) <=> \E e \in Range(list) : Has(x, Count(e, type))
  OBVIOUS
<1>. HIDE DEF Has, Count, IsRun
<1>17. \A x : x \in Range(l) <=> \/ \E e \in Range(A) : Has(x, Count(e, "RISCVDV"))
                                 \/ \E e \in Range(B) : Has(x, Count(e, "DIRECTED"))
  BY <1>14, <1>15
<1>18. \A x : x \in Range(l) <=> IsRun(x, A, "RISCVDV") \/ IsRun(x, B, "DIRECTED")
  BY <1>16, <1>17
<1>19. WR \cup WD \subseteq Range(l)
  BY <1>12, <1>13, <1>18
<1>20. AllPlain => Range(l) \subseteq WR \cup WD
  BY <1>12, <1>13, <1>18
<1>21. AllPlain /\ Distinct(random) /\ Distinct(directed) => IsInjective(l)
  BY <1>11, <1>14, <1>15
<1>. QED
  BY <1>19, <1>20, <1>21 DEF random, directed, joined, l, a, d, WR, WD, AllPlain
-------------------------------------------------------------------------------
(* The metadata *)

\* The lists keep the shape of the schema, and the metadata holds the tests of
\* the arguments and of the list that it was created from.
Selected ==
    /\ dlist \in Seq(Entries)
    /\ gen \in Seq(DOMAIN Lists) /\ (phase = "gen" => gen # <<>>)
    /\ plan \in PlanState
    /\ md.st # "absent" =>
          /\ md.req \in Requests /\ md.items \in Seq(Entries)
          /\ ~CreateRaises(md.req, md.items)
          /\ md.tests = TestDotSeeds(md.req, md.items)

\* A step that leaves the lists and what the metadata was created from alone.
LEMMA SelectedKept ==
    ASSUME Selected, dlist' = dlist, gen' = gen, plan' = plan, phase' = "gen" => phase = "gen",
           md'.st # "absent" => /\ md.st # "absent" /\ md'.req = md.req /\ md'.items = md.items
                                /\ md'.tests = md.tests
    PROVE  Selected'
<1>1. ASSUME md'.st # "absent"
      PROVE  /\ md'.req \in Requests /\ md'.items \in Seq(Entries)
             /\ ~CreateRaises(md'.req, md'.items)
             /\ md'.tests = TestDotSeeds(md'.req, md'.items)
  <2>1. /\ md.st # "absent" /\ md'.req = md.req /\ md'.items = md.items /\ md'.tests = md.tests
    BY <1>1
  <2>2. /\ md.req \in Requests /\ md.items \in Seq(Entries)
        /\ ~CreateRaises(md.req, md.items)
        /\ md.tests = TestDotSeeds(md.req, md.items)
    BY <2>1 DEF Selected
  <2>. QED
    BY <2>1, <2>2
<1>. QED
  BY <1>1 DEF Selected

\* The user spends one of what is left.
LEMMA SpendPlan ==
    ASSUME plan \in PlanState, NEW what \in {"edits", "kills", "gens"}, Spend(what)
    PROVE  plan' \in PlanState
<1>1. plan[what] \in Nat /\ plan[what] > 0
  BY DEF PlanState, Spend
<1>2. plan[what] - 1 \in Nat
  BY <1>1
<1>. QED
  BY <1>2 DEF PlanState, Spend

\* gen_testlist.py writes lists of the schema.
LEMMA GenSelected ==
    ASSUME Selected, GenStart \/ append_directed_testlist
    PROVE  Selected'
<1>1. md' = md
  BY DEF GenStart, append_directed_testlist, files
<1>2. CASE GenStart
  <2>1. PICK suites \in GenArgs : gen' = <<"base">> \o suites
    BY <1>2 DEF GenStart
  <2>2. suites \in Seq(DOMAIN Lists) /\ <<"base">> \in Seq(DOMAIN Lists) /\ <<"base">> # <<>>
    BY ListsAssumption
  <2>3. gen' \in Seq(DOMAIN Lists) /\ gen' # <<>>
    BY <2>1, <2>2, ConcatProperties, ConcatEqualIffEmpty
  <2>4. dlist' = <<>> /\ plan' \in PlanState
    BY <1>2, SpendPlan DEF GenStart, Selected
  <2>5. dlist' \in Seq(Entries)
    BY <2>4, EmptySeq
  <2>. QED
    BY <1>1, <2>3, <2>4, <2>5 DEF Selected
<1>3. CASE append_directed_testlist
  <2>1. /\ phase = "gen" /\ dlist' = dlist \o Lists[Head(gen)] /\ gen' = Tail(gen) /\ plan' = plan
        /\ phase' = IF Len(gen) = 1 THEN "idle" ELSE "gen"
    BY <1>3 DEF append_directed_testlist
  <2>2. gen \in Seq(DOMAIN Lists) /\ gen # <<>> /\ dlist \in Seq(Entries)
    BY <2>1 DEF Selected
  <2>3. /\ Head(gen) \in DOMAIN Lists /\ Tail(gen) \in Seq(DOMAIN Lists)
        /\ Len(Tail(gen)) = Len(gen) - 1 /\ Len(gen) \in Nat
    BY <2>2, HeadTailProperties
  <2>4. Lists[Head(gen)] \in Seq(Entries)
    BY <2>3, ListsAssumption
  <2>5. dlist' \in Seq(Entries)
    BY <2>1, <2>2, <2>4, ConcatProperties
  <2>6. phase' = "gen" => gen' # <<>>
    <3>1. Len(<<>>) = 0
      BY EmptySeq
    <3>2. phase' = "gen" => Len(gen) # 1
      BY <2>1
    <3>3. Len(gen) # 1 => Len(Tail(gen)) # 0
      BY <2>3
    <3>. QED
      BY <2>1, <3>1, <3>2, <3>3, Zenon
  <2>. QED
    BY <1>1, <2>1, <2>3, <2>5, <2>6 DEF Selected
<1>. QED
  BY <1>2, <1>3

\* make is called, and creates the metadata from its arguments and the list.
LEMMA BeginSelected ==
    ASSUME Selected, Begin
    PROVE  Selected'
<1>. DEFINE q == Head(plan.calls)
<1>1. /\ phase = "idle" /\ plan.calls # <<>> /\ plan' = [plan EXCEPT !.calls = Tail(plan.calls)]
      /\ dlist' = dlist /\ gen' = gen
  BY DEF Begin, MoreCalls
<1>2. plan \in PlanState /\ plan.calls \in Seq(Requests)
  BY DEF Selected, PlanState
<1>3. q \in Requests /\ Tail(plan.calls) \in Seq(Requests)
  BY <1>1, <1>2, HeadTailProperties
<1>4. plan' \in PlanState
  BY <1>1, <1>2, <1>3 DEF PlanState
<1>5. phase' # "gen"
  BY <1>1 DEF Begin
<1>. HIDE DEF q
<1>6. dlist' \in Seq(Entries) /\ gen' \in Seq(DOMAIN Lists)
  BY <1>1 DEF Selected
<1>7. CASE md' = md
  BY <1>4, <1>5, <1>6, <1>7 DEF Selected
<1>8. CASE md' # md
  <2>1. /\ ~CreateRaises(q, dlist)
        /\ md' = [st |-> "torn", req |-> q, items |-> dlist, tests |-> NewTests(q), fields |-> {}]
    BY <1>8 DEF Begin, q, files
  <2>2. md'.req = q /\ md'.items = dlist /\ md'.tests = TestDotSeeds(q, dlist)
    BY <2>1 DEF NewTests
  <2>3. dlist \in Seq(Entries)
    BY DEF Selected
  <2>4. /\ md'.req \in Requests /\ md'.items \in Seq(Entries)
        /\ ~CreateRaises(md'.req, md'.items)
        /\ md'.tests = TestDotSeeds(md'.req, md'.items)
    BY <1>3, <2>1, <2>2, <2>3
  <2>. QED
    BY <1>4, <1>5, <1>6, <2>4 DEF Selected
<1>. QED
  BY <1>7, <1>8

\* Every step of make, of a script or of the user keeps the selection.
LEMMA StepSelected ==
    ASSUME IInv, Selected, [Next]_vars
    PROVE  Selected'
<1>0. DOMAIN md = {"st", "req", "items", "tests", "fields"}
  BY DEF IInv, Records
<1>1. CASE UNCHANGED vars
  BY <1>1, SelectedKept DEF vars, files
<1>2. CASE append_directed_testlist \/ GenStart
  BY <1>2, GenSelected
<1>3. CASE Created
  <2>1. /\ phase = "create" /\ md' = [md EXCEPT !.st = "good"] /\ phase' = "parse"
        /\ dlist' = dlist /\ gen' = gen /\ plan' = plan
    BY <1>3 DEF Created
  <2>2. md.st # "absent" /\ md'.req = md.req /\ md'.items = md.items /\ md'.tests = md.tests
    BY <1>0, <2>1 DEF IInv, Phases
  <2>. QED
    BY <2>1, <2>2, SelectedKept
<1>4. CASE Parse \/ End
  <2>1. /\ md' = md /\ dlist' = dlist /\ gen' = gen /\ plan' = plan /\ phase' # "gen"
    BY <1>4 DEF Parse, End, files
  <2>. QED
    BY <2>1, SelectedKept
<1>5. CASE \E g \in todo : Touch(g) \/ StartLocked(g) \/ StartTest(g)
  <2>1. md' = md /\ UNCHANGED quiet
    BY <1>5 DEF Touch, StartLocked, StartTest
  <2>. QED
    BY <2>1, SelectedKept DEF quiet
<1>6. CASE \E g \in DOMAIN job : Script(g)
  <2>1. PICK g \in DOMAIN job : Script(g)
    BY <1>6
  <2>2. UNCHANGED quiet
    BY <2>1 DEF Script, LockedEnter, LockTimeout, ExportMd, LockedExit, RunTool, RunInstrGen,
                CompileTest, RunRtl, CheckLogs
  <2>3. md.st # "absent"
    BY <2>1, InMake
  <2>4. CASE ExportMd(g)
    <3>1. md' = [md EXCEPT !.st = "torn"]
      BY <2>4 DEF ExportMd
    <3>2. md'.req = md.req /\ md'.items = md.items /\ md'.tests = md.tests
      BY <1>0, <3>1
    <3>. QED
      BY <2>2, <2>3, <3>2, SelectedKept DEF quiet
  <2>5. CASE LockedExit(g)
    <3>1. md' = [md EXCEPT !.st = "good", !.fields = job[g].snap \cup Sets(g)]
      BY <2>5 DEF LockedExit
    <3>2. md'.req = md.req /\ md'.items = md.items /\ md'.tests = md.tests
      BY <1>0, <3>1
    <3>. QED
      BY <2>2, <2>3, <3>2, SelectedKept DEF quiet
  <2>6. CASE \/ LockedEnter(g) \/ LockTimeout(g) \/ RunTool(g) \/ RunInstrGen(g) \/ CompileTest(g)
             \/ RunRtl(g) \/ CheckLogs(g)
    <3>1. md' = md
      BY <2>6 DEF LockedEnter, LockTimeout, RunTool, RunInstrGen, CompileTest, RunRtl, CheckLogs
    <3>. QED
      BY <2>2, <3>1, SelectedKept DEF quiet
  <2>. QED
    BY <2>1, <2>4, <2>5, <2>6 DEF Script
<1>7. CASE Begin
  BY <1>7, BeginSelected
<1>8. CASE Kill
  <2>1. md' = md /\ dlist' = dlist /\ gen' = <<>> /\ phase' = "idle" /\ plan' \in PlanState
    BY <1>8, SpendPlan DEF Kill, Selected
  <2>2. gen' \in Seq(DOMAIN Lists)
    BY <2>1, EmptySeq
  <2>. QED
    BY <2>1, <2>2 DEF Selected
<1>9. CASE Clean
  <2>1. /\ md'.st = "absent" /\ dlist' = dlist /\ gen' = gen /\ plan' = plan /\ phase' = phase
    BY <1>9 DEF Clean, NoMd
  <2>. QED
    BY <2>1, SelectedKept
<1>10. CASE \E kind \in {"gen", "tb"} : Edit(kind)
  <2>1. md' = md /\ dlist' = dlist /\ gen' = gen /\ phase' = phase /\ plan' \in PlanState
    BY <1>10, SpendPlan DEF Edit, Selected
  <2>. QED
    BY <2>1 DEF Selected
<1>11. CASE Halted
  BY <1>1, <1>11 DEF Halted
<1>. QED
  BY <1>1, <1>2, <1>3, <1>4, <1>5, <1>6, <1>7, <1>8, <1>9, <1>10, <1>11 DEF Next, Make, User

\* The metadata holds the tests of the arguments it was created from.
THEOREM SelectionKept == Spec => []Selected
<1>1. Init => Selected
  <2>1. NoMd.st = "absent"
    BY DEF NoMd
  <2>2. <<>> \in Seq(DOMAIN Lists)
    BY EmptySeq
  <2>. QED
    BY <2>1, <2>2, DirectedAssumption, PlansAssumption DEF Init, Selected
<1>2. IInv /\ Selected /\ [Next]_vars => Selected'
  BY StepSelected
<1>. QED
  BY <1>1, <1>2, Inductive, PTL DEF Spec

\* The two names for all the directed tests ask for what each of them asks for.
LEMMA WantedByEither ==
    ASSUME NEW r, NEW E
    PROVE  Wanted(r, E, "DIRECTED", {"all", "all_directed"})
             = Wanted(r, E, "DIRECTED", {"all"}) \cup Wanted(r, E, "DIRECTED", {"all_directed"})
<1>. DEFINE Seeded(e) == {[name |-> e.test, seed |-> s, type |-> "DIRECTED"] : s \in Seeds(r, e)}
            Entered(all) == {e \in E : /\ e.iterations > 0
                                       /\ e.test \in r.test \/ all \cap r.test # {}
                                       /\ Compatible(ConfigFile[r.config], e)}
            both == {"all", "all_directed"}
            one == {"all"}
            other == {"all_directed"}
<1>1. \A all : Wanted(r, E, "DIRECTED", all) = UNION {Seeded(e) : e \in Entered(all)}
  BY DEF Wanted
<1>2. both \cap r.test # {} <=> one \cap r.test # {} \/ other \cap r.test # {}
  OBVIOUS
<1>. HIDE DEF both, one, other
<1>3. Entered(both) = Entered(one) \cup Entered(other)
  BY <1>2
<1>. HIDE DEF Seeded, Entered
<1>4. \A F, H : UNION {Seeded(e) : e \in F \cup H}
                  = (UNION {Seeded(e) : e \in F}) \cup (UNION {Seeded(e) : e \in H})
  OBVIOUS
<1>5. UNION {Seeded(e) : e \in Entered(both)}
        = (UNION {Seeded(e) : e \in Entered(one)}) \cup (UNION {Seeded(e) : e \in Entered(other)})
  BY <1>3, <1>4
<1>6. /\ Wanted(r, E, "DIRECTED", both) = UNION {Seeded(e) : e \in Entered(both)}
      /\ Wanted(r, E, "DIRECTED", one) = UNION {Seeded(e) : e \in Entered(one)}
      /\ Wanted(r, E, "DIRECTED", other) = UNION {Seeded(e) : e \in Entered(other)}
  BY <1>1, Zenon
<1>7. Wanted(r, E, "DIRECTED", both) = Wanted(r, E, "DIRECTED", one) \cup Wanted(r, E, "DIRECTED", other)
  BY <1>5, <1>6, Zenon
<1>. QED
  BY <1>7, Zenon DEF both, one, other

\* filter_tests_by_config loses no test that was asked for and that the
\* configuration supports, but the directed tests that only "all" asks for;
\* for test lists without an entry of two parameters it keeps no other and
\* every seed runs once.
THEOREM SelectionIsExact == Spec => []SelectionExact
<1>1. ASSUME Selected PROVE SelectionExact
  <2>. DEFINE q == md.req
              items == md.items
              l == TestDotSeeds(q, items)
              random == process_riscvdv_testlist(q.test, q.iterations)
              directed == process_directed_testlist(q.test, q.iterations, items)
              D == DirectedEntries(items)
              known == Wanted(q, Range(Testlist), "RISCVDV", {"all", "all_riscvdv"})
                           \cup Wanted(q, D, "DIRECTED", {"all_directed"})
              AllPlain == \A e \in Range(Matched(q, items)) : Plain(e)
              Once == Distinct(random) /\ Distinct(directed)
  <2>. SUFFICES ASSUME md.st = "good"
                PROVE  /\ AskedFor(q, items) \ OnlyByAll(q, items) \subseteq Tests
                       /\ AllPlain => /\ Tests \subseteq AskedFor(q, items)
                                      /\ Once => IsInjective(md.tests)
    BY Zenon DEF SelectionExact
  <2>1. /\ q \in Requests /\ items \in Seq(Entries) /\ ~CreateRaises(q, items)
        /\ md.tests = l
    BY <1>1 DEF Selected
  <2>2. Tests = Range(l)
    BY <2>1 DEF Tests
  <2>. HIDE DEF q, items
  <2>3. /\ known \subseteq Range(l)
        /\ AllPlain => Range(l) \subseteq known /\ (Once => IsInjective(l))
    BY <2>1, Exact DEF DirectedEntries
  <2>4. Wanted(q, D, "DIRECTED", {"all", "all_directed"})
          = Wanted(q, D, "DIRECTED", {"all"}) \cup Wanted(q, D, "DIRECTED", {"all_directed"})
    BY WantedByEither
  <2>5. known \subseteq AskedFor(q, items) /\ AskedFor(q, items) \ OnlyByAll(q, items) \subseteq known
    BY <2>4 DEF AskedFor, OnlyByAll
  <2>. HIDE DEF l, known, AllPlain, Once
  <2>. QED
    BY <2>1, <2>2, <2>3, <2>5
<1>. QED
  BY <1>1, SelectionKept, PTL
===============================================================================
