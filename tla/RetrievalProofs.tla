-------------------------- MODULE RetrievalProofs --------------------------
(***************************************************************************)
(* Proofs about Retrieval, for any documents, nodes, call graphs and       *)
(* limits: the type invariant, AgreementWins, SourcesShareTop,             *)
(* ExpansionIsSound and ContextFits.                                       *)
(*                                                                         *)
(* What RRF, GetCodeNeighbors and BuildContext compute is shown first: the *)
(* first orders by scores that are exact, as Scale is a common multiple of *)
(* the denominators (Fuses), the second finds the ends of walks            *)
(* (Neighbors), the third takes the longest beginning that fits            *)
(* (ContextIsLongest).  The invariant says which of these results the      *)
(* lists of a query are, and, while entry points are being expanded, what  *)
(* has been found for those that were (Expanding).                         *)
(***************************************************************************)
EXTENDS Retrieval, RecursionLemmas, FiniteSetTheorems

-----------------------------------------------------------------------------
\* The invariant.

\* A list of elements of S, none of them twice.
List(S, list) == list \in Seq(S) /\ IsInjective(list)

Lists ==
    /\ List(Docs, dense) /\ List(Docs, sparse) /\ List(Docs, docResults)
    /\ List(Nodes, entries) /\ List(Nodes, expanded)
    /\ List(Items, merged) /\ List(Items, context)

Others ==
    /\ kind \in {"doc", "code", "both"}
    /\ step \in {"dense", "sparse", "fuse", "code", "expand", "merge", "prompt", "done"}
    /\ graph \in Graphs /\ depth \in Depths
    /\ at \in 0 .. Len(entries) + 1
    /\ failed \in BOOLEAN

\* The documents are the fusion of two searches, which are then forgotten or
\* not.
Searched ==
    /\ Len(dense) <= TopK /\ Len(sparse) <= TopK
    /\ step \in {"code", "merge"} =>
          \/ dense = <<>> /\ sparse = <<>>
          \/ \E order \in Orders : docResults = RRF(<<dense, sparse>>, order)
    /\ step = "expand" => dense = <<>> /\ sparse = <<>>

\* What GetCodeNeighbors finds for x, and what it finds for all entry points.
Near(x) == Within(graph, x, IF depth = 0 THEN 1 ELSE depth)
Found == ToSet(entries) \cup UNION {Near(x) : x \in ToSet(entries)}

\* The entry points before the next one are among the results, and so is what
\* is near the first of them.
Expanding ==
    /\ step \in {"dense", "sparse", "fuse", "code"} => expanded = <<>> /\ entries = <<>> /\ ~failed
    /\ step = "expand" =>
          /\ at \in 1 .. Len(entries) /\ ~failed
          /\ at = 1 => expanded = <<>>
          /\ \A i \in 1 .. (at - 1) : entries[i] \in ToSet(expanded)
          /\ at # 1 => Near(entries[1]) \subseteq ToSet(expanded)
    /\ step = "merge" /\ entries # <<>> =>
          /\ ToSet(entries) \subseteq ToSet(expanded)
          /\ ~failed => Near(entries[1]) \subseteq ToSet(expanded)
    /\ ToSet(expanded) \subseteq Found

Answering ==
    /\ step \in {"prompt", "done"} =>
          \E order \in Orders : merged = RRF(<<docResults, expanded>>, order)
    /\ step = "done" => context = BuildContext(merged)

Inv ==
    /\ Lists
    /\ Others
    /\ Searched
    /\ Expanding
    /\ Answering

-----------------------------------------------------------------------------
\* What Arrange returns.

\* before is a strict total order of S.
Ordering(S, before) ==
    /\ before \in [S -> SUBSET S]
    /\ \A x \in S : x \notin before[x]
    /\ \A x, y \in S : x \in before[y] => before[x] \subseteq before[y]
    /\ \A x, y \in S : x = y \/ x \in before[y] \/ y \in before[x]

\* a has each element of S once, in this order.
Arranged(a, S, before) ==
    /\ a \in [1 .. Cardinality(S) -> S]
    /\ \A x \in S : \E i \in 1 .. Cardinality(S) : a[i] = x
    /\ \A i \in 1 .. Cardinality(S) : Cardinality(before[a[i]]) = i - 1
    /\ \A i, j \in 1 .. Cardinality(S) : a[i] \in before[a[j]] <=> i < j

LEMMA ArrangeOrders ==
    ASSUME NEW S, IsFiniteSet(S), NEW before, Ordering(S, before)
    PROVE  Cardinality(S) \in Nat /\ Arranged(Arrange(S, before), S, before)
  <1> DEFINE n == Cardinality(S)
             c == [x \in S |-> Cardinality(before[x])]
             rank == [x \in S |-> c[x] + 1]
             a == Arrange(S, before)
  <1>n. n \in Nat
    BY FS_CardinalityType
  <1>1. ASSUME NEW x \in S PROVE IsFiniteSet(before[x]) /\ c[x] \in Nat /\ c[x] < n
    <2>1. before[x] \in SUBSET S /\ x \notin before[x]
      BY DEF Ordering
    <2>2. IsFiniteSet(before[x]) /\ Cardinality(before[x]) <= n /\ (n = Cardinality(before[x]) => S = before[x])
      BY <2>1, FS_Subset
    <2>3. Cardinality(before[x]) \in Nat
      BY <2>2, FS_CardinalityType
    <2> QED
      BY <1>n, <2>1, <2>2, <2>3
  <1>2. ASSUME NEW x \in S, NEW y \in S, x \in before[y] PROVE c[x] < c[y]
    <2>1. before[x] \cup {x} \in SUBSET before[y] /\ x \notin before[x]
      BY <1>2 DEF Ordering
    <2>2. Cardinality(before[x] \cup {x}) = Cardinality(before[x]) + 1
      BY <1>1, <2>1, FS_AddElement
    <2>3. Cardinality(before[x] \cup {x}) <= Cardinality(before[y])
      BY <1>1, <2>1, FS_Subset
    <2>4. c[x] \in Nat /\ c[y] \in Nat
      BY <1>1
    <2> QED
      BY <2>2, <2>3, <2>4
  <1>3. \A x, y \in S : c[x] = c[y] => x = y
    <2>1. \A x, y \in S : x = y \/ c[x] < c[y] \/ c[y] < c[x]
      BY <1>2 DEF Ordering
    <2> HIDE DEF c
    <2> QED
      BY <1>1, <2>1
  <1> HIDE DEF c
  <1>4. rank \in Injection(S, 1 .. n)
    <2>1. \A x \in S : rank[x] \in 1 .. n
      BY <1>n, <1>1
    <2>2. \A x, y \in S : rank[x] = rank[y] => x = y
      BY <1>1, <1>3
    <2> QED
      BY <2>1, <2>2 DEF Injection, IsInjective
  <1>5. rank \in Surjection(S, 1 .. n)
    <2>1. IsFiniteSet(1 .. n) /\ Cardinality(1 .. n) = n
      BY <1>n, FS_Interval
    <2> HIDE DEF rank
    <2> QED
      BY <1>4, <2>1, FS_Injection
  <1>6. ASSUME NEW i \in 1 .. n PROVE a[i] \in S /\ c[a[i]] = i - 1
    <2>1. PICK x \in S : rank[x] = i
      BY <1>5 DEF Surjection
    <2>2. c[x] = i - 1
      BY <1>1, <2>1
    <2>3. \E y \in S : Cardinality(before[y]) = i - 1
      BY <2>2 DEF c
    <2>4. a[i] = CHOOSE y \in S : Cardinality(before[y]) = i - 1
      BY DEF Arrange
    <2>5. a[i] \in S /\ Cardinality(before[a[i]]) = i - 1
      BY <2>3, <2>4
    <2> QED
      BY <2>5 DEF c
  <1>7. a \in [1 .. n -> S]
    <2>1. a = [i \in 1 .. n |-> a[i]]
      BY DEF Arrange
    <2> HIDE DEF a
    <2> QED
      BY <1>6, <2>1
  <1> HIDE DEF a
  <1>8. ASSUME NEW x \in S PROVE \E i \in 1 .. n : a[i] = x
    <2>1. c[x] + 1 \in 1 .. n
      BY <1>n, <1>1
    <2>2. c[a[c[x] + 1]] = c[x] /\ a[c[x] + 1] \in S
      BY <1>1, <1>6, <2>1
    <2> QED
      BY <1>3, <2>1, <2>2
  <1>9. ASSUME NEW i \in 1 .. n, NEW j \in 1 .. n PROVE a[i] \in before[a[j]] <=> i < j
    <2>1. a[i] \in S /\ a[j] \in S /\ c[a[i]] = i - 1 /\ c[a[j]] = j - 1
      BY <1>6
    <2>2. a[i] = a[j] \/ a[i] \in before[a[j]] \/ a[j] \in before[a[i]]
      BY <2>1 DEF Ordering
    <2>3. a[i] \in before[a[j]] => i - 1 < j - 1
      BY <1>2, <2>1
    <2>4. a[j] \in before[a[i]] => j - 1 < i - 1
      BY <1>2, <2>1
    <2>5. a[i] = a[j] => i - 1 = j - 1
      BY <2>1
    <2> QED
      BY <2>2, <2>3, <2>4, <2>5
  <1>10. \A i \in 1 .. n : Cardinality(before[a[i]]) = i - 1
    BY <1>6 DEF c
  <1> QED
    BY <1>n, <1>7, <1>8, <1>9, <1>10 DEF Arranged, a

\* An arrangement is a list with each element of S once.
LEMMA ArrangedList ==
    ASSUME NEW S, IsFiniteSet(S), NEW before, Ordering(S, before)
    PROVE  LET a == Arrange(S, before)
           IN  a \in Seq(S) /\ Len(a) = Cardinality(S) /\ IsInjective(a) /\ ToSet(a) = S
  <1> DEFINE a == Arrange(S, before)
             n == Cardinality(S)
  <1>1. n \in Nat /\ Arranged(a, S, before)
    BY ArrangeOrders
  <1> HIDE DEF a, n
  <1>2. /\ a \in [1 .. n -> S] /\ \A x \in S : \E i \in 1 .. n : a[i] = x
        /\ \A i \in 1 .. n : Cardinality(before[a[i]]) = i - 1
    BY <1>1 DEF Arranged, n
  <1>3. a \in Seq(S) /\ Len(a) = n /\ DOMAIN a = 1 .. n
    BY <1>1, <1>2
  <1>4. IsInjective(a)
    <2>1. \A i, j \in 1 .. n : a[i] = a[j] => i - 1 = j - 1
      BY <1>2
    <2>2. \A i, j \in 1 .. n : a[i] = a[j] => i = j
      BY <2>1
    <2> QED
      BY <1>3, <2>2 DEF IsInjective
  <1>5. ToSet(a) = S
    BY <1>2, <1>3 DEF ToSet
  <1> QED
    BY <1>3, <1>4, <1>5 DEF a, n

\* Rows without an order come as a list of them.
LEMMA InOrderList ==
    ASSUME NEW S, S \subseteq Items, NEW order \in Orders
    PROVE  LET a == InOrder(S, order)
           IN  a \in Seq(S) /\ Len(a) = Cardinality(S) /\ IsInjective(a) /\ ToSet(a) = S
  <1> DEFINE before == [x \in S |-> {y \in S : order[y] < order[x]}]
  <1>1. order \in [Items -> Nat] /\ \A x, y \in Items : order[x] = order[y] => x = y
    BY RetrievalAssumption
  <1>2. Ordering(S, before)
    <2>1. \A x \in S : order[x] \in Nat
      BY <1>1
    <2>2. \A x, y \in S : x = y \/ order[x] < order[y] \/ order[y] < order[x]
      BY <1>1, <2>1
    <2>3. \A x, y \in S : x \in before[y] <=> order[x] < order[y]
      OBVIOUS
    <2>4. \A x \in S : x \notin before[x]
      BY <2>1, <2>3
    <2>5. ASSUME NEW x \in S, NEW y \in S, x \in before[y] PROVE before[x] \subseteq before[y]
      <3>1. \A z \in S : order[z] < order[x] => order[z] < order[y]
        BY <2>1, <2>3, <2>5
      <3> QED
        BY <3>1
    <2>6. before \in [S -> SUBSET S]
      OBVIOUS
    <2> HIDE DEF before
    <2> QED
      BY <2>2, <2>3, <2>4, <2>5, <2>6 DEF Ordering
  <1>3. IsFiniteSet(S)
    BY FS_Subset, RetrievalAssumption
  <1>4. InOrder(S, order) = Arrange(S, before)
    BY DEF InOrder
  <1> HIDE DEF before
  <1> QED
    BY <1>2, <1>3, <1>4, ArrangedList

-----------------------------------------------------------------------------
\* Scores.

\* What a place in a list adds to the score.
Part(i) == Scale \div (rrfK + i)

\* The product that Scale is, factor by factor.
Products(p) ==
    /\ p \in [0 .. MaxRank -> Nat \ {0}]
    /\ p[0] = 1
    /\ \A n \in 1 .. MaxRank : p[n] = p[n - 1] * (rrfK + n)
    /\ Scale = p[MaxRank]

LEMMA ScaleIsProduct == \E p : Products(p)
  <1> DEFINE N == MaxRank
             T == Nat \ {0}
             G == [n \in 1 .. N |-> [r \in T |-> r * (rrfK + n)]]
             Round(f) == [n \in 0 .. N |-> IF n = 0 THEN 1 ELSE f[n - 1] * (rrfK + n)]
             p == CHOOSE f : f = Round(f)
  <1>n. N \in Nat
    BY RetrievalAssumption
  <1>1. G \in [1 .. N -> [T -> T]]
    <2>1. ASSUME NEW n \in 1 .. N, NEW r \in T PROVE r * (rrfK + n) \in T
      <3>1. rrfK + n \in Nat \ {0}
        BY DEF rrfK
      <3> QED
        BY <3>1
    <2> QED
      BY <2>1
  <1>2. PICK f : Run(f, T, 1, N, G)
    <2>1. 1 \in T
      OBVIOUS
    <2> HIDE DEF G, N, T
    <2> QED
      BY <1>n, <1>1, <2>1, LoopRuns
  <1>3. \A i \in 0 .. N : i = 0 \/ (i \in 1 .. N /\ i - 1 \in 0 .. N)
    BY <1>n
  <1>4. f = Round(f)
    BY <1>2, <1>3 DEF Run
  <1>5. p = Round(p)
    BY <1>4
  <1>6. Scale = p[N]
    BY DEF Scale
  <1> HIDE DEF p
  <1>7. DOMAIN p = 0 .. N /\ p[0] = 1
    BY <1>5, <1>n
  <1>8. \A i \in 1 .. N : i - 1 \in 0 .. N /\ i \in 0 .. N /\ i # 0
    BY <1>n
  <1> HIDE DEF N
  <1>9. ASSUME NEW i \in 1 .. N PROVE p[i] = p[i - 1] * (rrfK + i)
    <2>1. p[i] = Round(p)[i]
      BY <1>5
    <2> HIDE <1>5
    <2> QED
      BY <2>1, <1>8
  <1>10. p \in [0 .. N -> T]
    <2> DEFINE A == {i \in 0 .. N : p[i] \in T}
    <2>1. 0 \in A
      BY <1>7, <1>n
    <2>2. ASSUME NEW i \in 1 .. N, i - 1 \in A PROVE i \in A
      <3>1. p[i - 1] \in T /\ rrfK + i \in T
        BY <2>2, <1>n DEF rrfK
      <3>2. p[i - 1] * (rrfK + i) \in T
        BY <3>1
      <3> QED
        BY <1>8, <1>9, <3>2
    <2> HIDE DEF A
    <2>3. 0 .. N \subseteq A
      BY <1>n, <2>1, <2>2, Induct
    <2>4. p = [i \in 0 .. N |-> p[i]]
      BY <1>5
    <2> QED
      BY <2>3, <2>4 DEF A
  <1> QED
    BY <1>6, <1>7, <1>9, <1>10 DEF Products, N

\* Scale is a common multiple of the denominators.
LEMMA Parts ==
    ASSUME NEW i \in 1 .. MaxRank
    PROVE  Scale \in Nat \ {0} /\ Part(i) \in Nat \ {0} /\ Part(i) * (rrfK + i) = Scale
  <1>1. PICK p : Products(p)
    BY ScaleIsProduct
  <1>n. MaxRank \in Nat /\ rrfK + i \in Nat \ {0}
    BY RetrievalAssumption DEF rrfK
  <1>2. /\ p \in [0 .. MaxRank -> Nat \ {0}] /\ Scale = p[MaxRank]
        /\ \A n \in 1 .. MaxRank : p[n] = p[n - 1] * (rrfK + n)
    BY <1>1 DEF Products
  <1> DEFINE k == rrfK + i
             A == {n \in 0 .. MaxRank : n < i \/ \E q \in Nat : p[n] = q * k}
  <1>3. 0 \in A
    BY <1>n
  <1>4. ASSUME NEW n \in 1 .. MaxRank, n - 1 \in A PROVE n \in A
    <2>1. n - 1 \in 0 .. MaxRank /\ n \in 0 .. MaxRank /\ rrfK + n \in Nat /\ p[n - 1] \in Nat
      BY <1>n, <1>2 DEF rrfK
    <2>2. CASE n < i
      BY <2>1, <2>2
    <2>3. CASE n = i
      BY <1>2, <2>1, <2>3
    <2>4. CASE n > i
      <3>1. PICK q \in Nat : p[n - 1] = q * k
        BY <1>4, <2>1, <2>4
      <3> DEFINE m == rrfK + n
      <3>2. p[n] = p[n - 1] * m /\ m \in Nat /\ k \in Nat
        BY <1>2, <1>n, <2>1
      <3> HIDE DEF m, k
      <3>3. p[n] = (q * m) * k /\ q * m \in Nat
        BY <3>1, <3>2
      <3>4. \E r \in Nat : p[n] = r * k
        BY <3>3
      <3> QED
        BY <2>1, <3>4
    <2> QED
      BY <2>1, <2>2, <2>3, <2>4
  <1>5. MaxRank \in A
    <2>1. 0 .. MaxRank \subseteq A
      <3> HIDE DEF A
      <3> QED
        BY <1>n, <1>3, <1>4, Induct
    <2> QED
      BY <1>n, <2>1
  <1>6. PICK q \in Nat : Scale = q * k
    BY <1>2, <1>5, <1>n
  <1>7. Scale \in Nat \ {0}
    BY <1>2, <1>n
  <1> HIDE DEF k
  <1>8. k \in Nat \ {0}
    BY <1>n DEF k
  <1>9. Scale \div k = q
    <2>1. (q * k) \div k = q
      BY <1>8
    <2> QED
      BY <1>6, <2>1
  <1>10. q # 0
    BY <1>6, <1>7, <1>8
  <1> QED
    BY <1>6, <1>7, <1>9, <1>10 DEF Part, k

LEMMA PartsFall ==
    ASSUME NEW i \in 1 .. MaxRank, NEW j \in 1 .. MaxRank, i < j PROVE Part(j) < Part(i)
  <1> DEFINE p == Part(i)
             q == Part(j)
             k == rrfK + i
             l == rrfK + j
  <1>1. p \in Nat \ {0} /\ q \in Nat \ {0} /\ p * k = q * l
    BY Parts
  <1>2. k \in Nat /\ l \in Nat /\ k < l
    BY RetrievalAssumption DEF rrfK
  <1> HIDE DEF p, q, k, l
  <1>3. ASSUME p <= q PROVE FALSE
    <2>1. p * k <= q * k
      BY <1>1, <1>2, <1>3
    <2>2. q * k < q * l
      BY <1>1, <1>2
    <2>3. p * k \in Nat /\ q * k \in Nat /\ q * l \in Nat
      BY <1>1, <1>2
    <2> QED
      BY <1>1, <2>1, <2>2, <2>3
  <1>4. q < p
    BY <1>1, <1>3
  <1> QED
    BY <1>4 DEF p, q

\* Two places near the top are worth more than any single one.
LEMMA TwoBeatOne ==
    ASSUME TopK <= rrfK + 1, NEW i \in 1 .. TopK, NEW j \in 1 .. TopK, NEW h \in 1 .. MaxRank,
           i <= MaxRank, j <= MaxRank
    PROVE  Part(h) < Part(i) + Part(j)
  <1>1. ASSUME NEW n \in 1 .. TopK, n <= MaxRank PROVE Part(h) < 2 * Part(n)
    <2> DEFINE p == Part(n)
               q == Part(h)
               k == rrfK + n
               l == rrfK + h
    <2>1. p \in Nat \ {0} /\ q \in Nat \ {0} /\ p * k = q * l
      BY <1>1, Parts
    <2>2. k \in Nat /\ l \in Nat /\ k < 2 * l
      BY RetrievalAssumption DEF rrfK
    <2> HIDE DEF p, q, k, l
    <2>3. ASSUME 2 * p <= q PROVE FALSE
      <3>1. (2 * p) * l <= q * l
        BY <2>1, <2>2, <2>3
      <3>2. p * k < p * (2 * l)
        BY <2>1, <2>2
      <3>3. p * (2 * l) = (2 * p) * l
        BY <2>1, <2>2
      <3>4. p * k \in Nat /\ q * l \in Nat /\ (2 * p) * l \in Nat
        BY <2>1, <2>2
      <3> QED
        BY <2>1, <3>1, <3>2, <3>3, <3>4
    <2>4. q < 2 * p
      BY <2>1, <2>3
    <2> QED
      BY <2>4 DEF p, q
  <1>2. i \in 1 .. MaxRank /\ j \in 1 .. MaxRank
    BY RetrievalAssumption
  <1>3. Part(h) \in Nat /\ Part(i) \in Nat /\ Part(j) \in Nat
    BY <1>2, Parts
  <1>4. Part(h) < 2 * Part(i) /\ Part(h) < 2 * Part(j)
    BY <1>1, <1>2
  <1> QED
    BY <1>3, <1>4

Sum(places) == MapThenSumSet(LAMBDA place : Scale \div (rrfK + place[2]), places)

LEMMA SumOfTwo ==
    ASSUME NEW u, NEW v, Part(u[2]) \in Nat, Part(v[2]) \in Nat
    PROVE  /\ u = v => Sum({u, v}) = Part(u[2])
           /\ u # v => Sum({u, v}) = Part(u[2]) + Part(v[2])
  <1> DEFINE P == {u, v}
             any(s) == CHOOSE x \in s : TRUE
             Round(f) == [s \in SUBSET P |-> IF s = {} THEN 0 ELSE Part(any(s)[2]) + f[s \ {any(s)}]]
             g == [s \in SUBSET P |->
                      IF s = {} THEN 0
                      ELSE IF s = {u} THEN Part(u[2])
                      ELSE IF s = {v} THEN Part(v[2])
                      ELSE Part(u[2]) + Part(v[2])]
             iter == CHOOSE f : f = Round(f)
  <1>1. Sum(P) = iter[P]
    BY DEF Sum, MapThenSumSet, MapThenFoldSet, Part
  <1>2. g = Round(g)
    <2>1. ASSUME NEW s \in SUBSET P PROVE g[s] = Round(g)[s]
      <3>1. CASE s = {}
        BY <3>1
      <3>2. CASE s = {u}
        <4>1. any(s) = u /\ s \ {u} = {} /\ {} \in SUBSET P /\ s # {}
          BY <3>2
        <4> QED
          BY <3>2, <4>1
      <3>3. CASE s = {v}
        <4>1. any(s) = v /\ s \ {v} = {} /\ {} \in SUBSET P /\ s # {}
          BY <3>3
        <4>2. g[s] = Part(v[2])
          BY <3>3, <4>1
        <4> QED
          BY <4>1, <4>2
      <3>4. CASE s # {} /\ s # {u} /\ s # {v}
        <4>1. s = {u, v} /\ u # v
          BY <3>4
        <4>2. any(s) \in {u, v}
          BY <3>4
        <4>3. CASE any(s) = u
          <5>1. s \ {any(s)} = {v} /\ {v} \in SUBSET P /\ {v} # {u} /\ {v} # {}
            BY <4>1, <4>3
          <5> QED
            BY <3>4, <4>3, <5>1
        <4>4. CASE any(s) = v
          <5>1. s \ {any(s)} = {u} /\ {u} \in SUBSET P /\ {u} # {}
            BY <4>1, <4>4
          <5> QED
            BY <3>4, <4>4, <5>1
        <4> QED
          BY <4>2, <4>3, <4>4
      <3> QED
        BY <3>1, <3>2, <3>3, <3>4
    <2> QED
      BY <2>1
  <1>3. iter = Round(iter)
    BY <1>2
  <1> HIDE DEF iter
  <1>4. iter[{}] = 0
    <2>1. {} \in SUBSET P
      OBVIOUS
    <2> QED
      BY <1>3, <2>1
  <1>5. ASSUME NEW w \in P PROVE iter[{w}] = Part(w[2])
    <2>1. {w} \in SUBSET P /\ any({w}) = w /\ {w} \ {w} = {} /\ {w} # {}
      OBVIOUS
    <2>2. iter[{w}] = Part(any({w})[2]) + iter[{w} \ {any({w})}]
      BY <1>3, <2>1
    <2>3. iter[{w}] = Part(w[2]) + iter[{}]
      BY <2>1, <2>2
    <2> QED
      BY <1>4, <2>3
  <1>6. ASSUME u # v PROVE iter[P] = Part(u[2]) + Part(v[2])
    <2>1. P \in SUBSET P /\ P # {} /\ any(P) \in {u, v}
      OBVIOUS
    <2>2. iter[P] = Part(any(P)[2]) + iter[P \ {any(P)}]
      BY <1>3, <2>1
    <2>3. CASE any(P) = u
      <3>1. P \ {any(P)} = {v}
        BY <1>6, <2>3
      <3> QED
        BY <1>5, <2>2, <2>3, <3>1
    <2>4. CASE any(P) = v
      <3>1. P \ {any(P)} = {u}
        BY <1>6, <2>4
      <3> QED
        BY <1>5, <2>2, <2>4, <3>1
    <2> QED
      BY <2>1, <2>3, <2>4
  <1>7. u = v => P = {u}
    OBVIOUS
  <1> QED
    BY <1>1, <1>5, <1>6, <1>7

\* The score of an item by its places.
LEMMA Scores ==
    ASSUME NEW a \in Seq(Items), NEW b \in Seq(Items), IsInjective(a), IsInjective(b),
           Len(a) <= MaxRank, Len(b) <= MaxRank, NEW x
    PROVE  /\ \A i \in DOMAIN a : a[i] = x /\ x \notin ToSet(b) => Score(<<a, b>>, x) = Part(i)
           /\ \A j \in DOMAIN b : b[j] = x /\ x \notin ToSet(a) => Score(<<a, b>>, x) = Part(j)
           /\ \A i \in DOMAIN a, j \in DOMAIN b :
                 a[i] = x /\ b[j] = x => Score(<<a, b>>, x) = Part(i) + Part(j)
  <1> DEFINE lists == <<a, b>>
             A == {<<1, i>> : i \in {i \in DOMAIN a : a[i] = x}}
             B == {<<2, j>> : j \in {j \in DOMAIN b : b[j] = x}}
  <1>1. Places(lists, x) = A \cup B
    <2>1. DOMAIN lists = {1, 2} /\ lists[1] = a /\ lists[2] = b
      OBVIOUS
    <2> HIDE DEF lists
    <2> QED
      BY <2>1 DEF Places
  <1>2. Score(lists, x) = Sum(A \cup B)
    BY <1>1 DEF Score, Sum
  <1>3. \A i \in DOMAIN a : Part(i) \in Nat
    <2>1. \A i \in DOMAIN a : i \in 1 .. MaxRank
      BY RetrievalAssumption
    <2> QED
      BY <2>1, Parts
  <1>4. \A j \in DOMAIN b : Part(j) \in Nat
    <2>1. \A j \in DOMAIN b : j \in 1 .. MaxRank
      BY RetrievalAssumption
    <2> QED
      BY <2>1, Parts
  <1>5. \A i \in DOMAIN a : a[i] = x => A = {<<1, i>>}
    BY DEF IsInjective
  <1>6. \A j \in DOMAIN b : b[j] = x => B = {<<2, j>>}
    BY DEF IsInjective
  <1>7. (x \notin ToSet(a) => A = {}) /\ (x \notin ToSet(b) => B = {})
    BY DEF ToSet
  <1> HIDE DEF A, B, lists
  <1>8. ASSUME NEW i \in DOMAIN a, a[i] = x, x \notin ToSet(b) PROVE Score(lists, x) = Part(i)
    <2> DEFINE u == <<1, i>>
    <2>1. A \cup B = {u, u} /\ u[2] = i
      BY <1>5, <1>7, <1>8
    <2> HIDE DEF u
    <2> QED
      BY <1>2, <1>3, <2>1, SumOfTwo
  <1>9. ASSUME NEW j \in DOMAIN b, b[j] = x, x \notin ToSet(a) PROVE Score(lists, x) = Part(j)
    <2> DEFINE u == <<2, j>>
    <2>1. A \cup B = {u, u} /\ u[2] = j
      BY <1>6, <1>7, <1>9
    <2> HIDE DEF u
    <2> QED
      BY <1>2, <1>4, <2>1, SumOfTwo
  <1>10. ASSUME NEW i \in DOMAIN a, NEW j \in DOMAIN b, a[i] = x, b[j] = x
         PROVE  Score(lists, x) = Part(i) + Part(j)
    <2> DEFINE u == <<1, i>>
               v == <<2, j>>
    <2>1. A \cup B = {u, v} /\ u[2] = i /\ v[2] = j /\ u # v
      BY <1>5, <1>6, <1>10
    <2> HIDE DEF u, v
    <2> QED
      BY <1>2, <1>3, <1>4, <2>1, SumOfTwo
  <1> QED
    BY <1>8, <1>9, <1>10 DEF lists

-----------------------------------------------------------------------------
\* What RRF returns for two lists.

\* A list of documents or of nodes has no more than there are.
LEMMA ShortLists ==
    ASSUME NEW S \in {Docs, Nodes}, NEW list \in Seq(S), IsInjective(list)
    PROVE  Len(list) <= MaxRank /\ list \in Seq(Items) /\ Cardinality(S) \in Nat
  <1>1. IsFiniteSet(S) /\ S \subseteq Items
    <2>1. S \in SUBSET Items
      BY DEF Items
    <2> QED
      BY <2>1, FS_Subset, RetrievalAssumption
  <1>2. Cardinality(S) \in Nat /\ Cardinality(S) <= MaxRank /\ MaxRank \in Nat
    BY <1>1, FS_CardinalityType, RetrievalAssumption
  <1>3. Len(list) \in Nat /\ DOMAIN list = 1 .. Len(list)
    OBVIOUS
  <1>4. list \in Injection(DOMAIN list, S)
    BY DEF Injection
  <1>5. Cardinality(DOMAIN list) <= Cardinality(S)
    BY <1>1, <1>4, FS_Injection
  <1>6. Cardinality(DOMAIN list) = Len(list)
    BY <1>3, FS_Interval
  <1> QED
    BY <1>1, <1>2, <1>3, <1>5, <1>6

\* RRF orders the items of the lists by score.
Fusion(list, a, b, order) ==
    /\ list \in Seq(ToSet(a) \cup ToSet(b))
    /\ IsInjective(list)
    /\ ToSet(list) = ToSet(a) \cup ToSet(b)
    /\ \A i, j \in DOMAIN list : Score(<<a, b>>, list[i]) > Score(<<a, b>>, list[j]) => i < j

LEMMA Fuses ==
    ASSUME NEW a \in Seq(Items), NEW b \in Seq(Items), IsInjective(a), IsInjective(b),
           Len(a) <= MaxRank, Len(b) <= MaxRank, NEW order \in Orders
    PROVE  Fusion(RRF(<<a, b>>, order), a, b, order)
  <1> DEFINE lists == <<a, b>>
             S == Ranked(lists)
             score == [x \in S |-> Score(lists, x)]
             before == [x \in S |-> {y \in S : \/ score[y] > score[x]
                                               \/ score[y] = score[x] /\ order[y] < order[x]}]
             r == RRF(lists, order)
  <1>1. S = ToSet(a) \cup ToSet(b)
    <2>1. DOMAIN lists = {1, 2} /\ lists[1] = a /\ lists[2] = b
      OBVIOUS
    <2> HIDE DEF lists
    <2> QED
      BY <2>1 DEF Ranked
  <1>2. S \subseteq Items /\ IsFiniteSet(S)
    <2>1. ToSet(a) \subseteq Items /\ ToSet(b) \subseteq Items
      BY DEF ToSet
    <2>2. S \in SUBSET Items
      BY <1>1, <2>1
    <2> QED
      BY <2>2, FS_Subset, RetrievalAssumption
  <1>3. r = Arrange(S, before)
    BY DEF RRF
  <1>4. \A x \in S : score[x] \in Nat
    <2>1. ASSUME NEW x \in S PROVE Score(lists, x) \in Nat
      <3>1. \A i \in DOMAIN a : Part(i) \in Nat
        <4>1. \A i \in DOMAIN a : i \in 1 .. MaxRank
          BY RetrievalAssumption
        <4> QED
          BY <4>1, Parts
      <3>2. \A j \in DOMAIN b : Part(j) \in Nat
        <4>1. \A j \in DOMAIN b : j \in 1 .. MaxRank
          BY RetrievalAssumption
        <4> QED
          BY <4>1, Parts
      <3>3. (x \in ToSet(a) => \E i \in DOMAIN a : a[i] = x) /\ (x \in ToSet(b) => \E j \in DOMAIN b : b[j] = x)
        BY DEF ToSet
      <3>4. x \in ToSet(a) \/ x \in ToSet(b)
        BY <1>1
      <3>5. CASE x \in ToSet(a) /\ x \in ToSet(b)
        <4>1. PICK i \in DOMAIN a, j \in DOMAIN b : a[i] = x /\ b[j] = x
          BY <3>3, <3>5
        <4>2. Score(lists, x) = Part(i) + Part(j)
          BY <4>1, Scores
        <4>3. Part(i) \in Nat /\ Part(j) \in Nat
          BY <3>1, <3>2
        <4> HIDE DEF lists
        <4> QED
          BY <4>2, <4>3
      <3>6. CASE x \notin ToSet(b)
        <4>1. PICK i \in DOMAIN a : a[i] = x
          BY <3>3, <3>4, <3>6
        <4>2. Score(lists, x) = Part(i)
          BY <3>6, <4>1, Scores
        <4> QED
          BY <3>1, <4>2
      <3>7. CASE x \notin ToSet(a)
        <4>1. PICK j \in DOMAIN b : b[j] = x
          BY <3>3, <3>4, <3>7
        <4>2. Score(lists, x) = Part(j)
          BY <3>7, <4>1, Scores
        <4> QED
          BY <3>2, <4>2
      <3> QED
        BY <3>5, <3>6, <3>7
    <2> QED
      BY <2>1
  <1>5. order \in [Items -> Nat] /\ \A x, y \in Items : order[x] = order[y] => x = y
    BY RetrievalAssumption
  <1> HIDE DEF S, lists
  <1>s. \A x \in S : score[x] = Score(lists, x)
    OBVIOUS
  <1> HIDE DEF score
  <1>6. Ordering(S, before)
    <2>1. \A x \in S : order[x] \in Nat
      BY <1>2, <1>5
    <2>2. \A x, y \in S : y \in before[x] <=>
              score[y] > score[x] \/ (score[y] = score[x] /\ order[y] < order[x])
      OBVIOUS
    <2>3. before \in [S -> SUBSET S]
      OBVIOUS
    <2> HIDE DEF before
    <2>4. \A x \in S : x \notin before[x]
      BY <1>4, <2>1, <2>2
    <2>5. ASSUME NEW x \in S, NEW y \in S PROVE x = y \/ x \in before[y] \/ y \in before[x]
      <3>1. order[x] = order[y] => x = y
        BY <1>2, <1>5
      <3>2. score[x] \in Nat /\ score[y] \in Nat /\ order[x] \in Nat /\ order[y] \in Nat
        BY <1>4, <2>1
      <3> QED
        BY <2>2, <3>1, <3>2
    <2>6. ASSUME NEW x \in S, NEW y \in S, x \in before[y] PROVE before[x] \subseteq before[y]
      <3>1. ASSUME NEW z \in S, z \in before[x] PROVE z \in before[y]
        BY <1>4, <2>1, <2>2, <2>6, <3>1
      <3> QED
        BY <2>3, <3>1
    <2> QED
      BY <2>3, <2>4, <2>5, <2>6 DEF Ordering
  <1>b. \A x, y \in S : score[y] > score[x] => y \in before[x]
    OBVIOUS
  <1> HIDE DEF before, r
  <1>7. r \in Seq(S) /\ Len(r) = Cardinality(S) /\ IsInjective(r) /\ ToSet(r) = S
    BY <1>2, <1>3, <1>6, ArrangedList
  <1>8. Cardinality(S) \in Nat /\ Arranged(r, S, before)
    BY <1>2, <1>3, <1>6, ArrangeOrders
  <1>9. ASSUME NEW i \in DOMAIN r, NEW j \in DOMAIN r, Score(lists, r[i]) > Score(lists, r[j])
        PROVE  i < j
    <2>1. DOMAIN r = 1 .. Cardinality(S) /\ r[i] \in S /\ r[j] \in S
      BY <1>7
    <2>2. score[r[i]] > score[r[j]]
      BY <1>9, <1>s, <2>1
    <2>3. r[i] \in before[r[j]]
      BY <1>b, <2>1, <2>2
    <2> QED
      BY <1>8, <2>1, <2>3 DEF Arranged
  <1> QED
    BY <1>1, <1>7, <1>9 DEF Fusion, r, lists

\* What both lists have is before what only one of them has.
LEMMA BothFirst ==
    ASSUME TopK <= rrfK + 1, NEW a \in Seq(Docs), NEW b \in Seq(Docs), IsInjective(a), IsInjective(b),
           Len(a) <= TopK, Len(b) <= TopK, NEW list, NEW order, Fusion(list, a, b, order),
           NEW i \in DOMAIN list, NEW j \in DOMAIN list,
           list[i] \in ToSet(a) \cap ToSet(b), list[j] \notin ToSet(a) \cap ToSet(b)
    PROVE  i < j
  <1>1. /\ a \in Seq(Items) /\ Len(a) <= MaxRank /\ b \in Seq(Items) /\ Len(b) <= MaxRank
        /\ TopK \in Nat /\ MaxRank \in Nat
    BY ShortLists, RetrievalAssumption
  <1> DEFINE x == list[i]
             y == list[j]
             S == Score(<<a, b>>, x)
             R == Score(<<a, b>>, y)
  <1>2. y \in ToSet(a) \cup ToSet(b)
    BY DEF Fusion
  <1>3. PICK p \in DOMAIN a, q \in DOMAIN b : a[p] = x /\ b[q] = x
    BY DEF ToSet
  <1>4. S = Part(p) + Part(q)
    BY <1>1, <1>3, Scores
  <1>5. PICK h \in 1 .. MaxRank : R = Part(h)
    <2>1. CASE y \in ToSet(a)
      <3>1. PICK h \in DOMAIN a : a[h] = y
        BY <2>1 DEF ToSet
      <3>2. y \notin ToSet(b) /\ h \in 1 .. MaxRank
        BY <1>1, <2>1
      <3> QED
        BY <1>1, <3>1, <3>2, Scores
    <2>2. CASE y \in ToSet(b)
      <3>1. PICK h \in DOMAIN b : b[h] = y
        BY <2>2 DEF ToSet
      <3>2. y \notin ToSet(a) /\ h \in 1 .. MaxRank
        BY <1>1, <2>2
      <3> QED
        BY <1>1, <3>1, <3>2, Scores
    <2> QED
      BY <1>2, <2>1, <2>2
  <1>6. p \in 1 .. TopK /\ q \in 1 .. TopK /\ p \in 1 .. MaxRank /\ q \in 1 .. MaxRank
    BY <1>1
  <1>7. R < S
    <2>1. Part(h) < Part(p) + Part(q)
      BY <1>6, TwoBeatOne
    <2> QED
      BY <1>4, <1>5, <2>1
  <1>8. Part(h) \in Nat /\ Part(p) \in Nat /\ Part(q) \in Nat
    BY <1>6, Parts
  <1>9. S > R
    BY <1>4, <1>5, <1>7, <1>8
  <1> QED
    BY <1>9 DEF Fusion

\* A function that is one-to-one on a finite set keeps its size.
LEMMA ImageSize ==
    ASSUME NEW P, IsFiniteSet(P), NEW f, \A i, j \in P : f[i] = f[j] => i = j
    PROVE  LET T == {f[i] : i \in P}
           IN  IsFiniteSet(T) /\ Cardinality(T) = Cardinality(P)
  <1> DEFINE T == {f[i] : i \in P}
             g == [i \in P |-> f[i]]
  <1>1. g \in Bijection(P, T)
    BY DEF Bijection, Injection, Surjection, IsInjective
  <1>2. ExistsBijection(P, T)
    BY <1>1 DEF ExistsBijection
  <1> QED
    BY <1>2, FS_Bijection

\* Positions of which none is left out are the first ones.
LEMMA FirstPositions ==
    ASSUME NEW n \in Nat, NEW P, P \subseteq 1 .. n, \A i \in P, j \in 1 .. n : j <= i => j \in P
    PROVE  IsFiniteSet(P) /\ Cardinality(P) \in 0 .. n /\ P = 1 .. Cardinality(P)
  <1> DEFINE Z == P \cup {0}
             h == Max(Z)
  <1>1. h \in Z /\ \A m \in Z : m <= h
    <2>1. Z \subseteq 0 .. n /\ Z # {}
      OBVIOUS
    <2> HIDE DEF Z
    <2> QED
      BY <2>1, GreatestOf
  <1> HIDE DEF h
  <1>2. h \in 0 .. n
    BY <1>1
  <1>3. P = 1 .. h
    <2>1. ASSUME NEW i \in P PROVE i \in 1 .. h
      BY <1>1, <1>2
    <2>2. ASSUME NEW i \in 1 .. h PROVE i \in P
      <3>1. h # 0 /\ i \in 1 .. n /\ i <= h
        BY <1>2
      <3>2. h \in P
        BY <1>1, <3>1
      <3> QED
        BY <3>1, <3>2
    <2> QED
      BY <2>1, <2>2
  <1>4. IsFiniteSet(1 .. h) /\ Cardinality(1 .. h) = h
    BY <1>2, FS_Interval
  <1> QED
    BY <1>2, <1>3, <1>4

LEMMA TopSize ==
    ASSUME NEW S, NEW list \in Seq(S), IsInjective(list), NEW k \in 0 .. Len(list)
    PROVE  /\ Top(list, k) = {list[i] : i \in 1 .. k}
           /\ IsFiniteSet(Top(list, k)) /\ Cardinality(Top(list, k)) = k
  <1>1. k \in Nat /\ DOMAIN list = 1 .. Len(list) /\ Len(list) \in Nat /\ 1 .. k \subseteq 1 .. Len(list)
    OBVIOUS
  <1>2. Top(list, k) = {list[i] : i \in 1 .. k}
    BY <1>1 DEF Top
  <1>3. \A i, j \in 1 .. k : list[i] = list[j] => i = j
    BY <1>1 DEF IsInjective
  <1>4. IsFiniteSet(1 .. k) /\ Cardinality(1 .. k) = k
    BY <1>1, FS_Interval
  <1> QED
    BY <1>2, <1>3, <1>4, ImageSize

\* The first 2k of two lists without a common item are the first k of each.
LEMMA TopShared ==
    ASSUME NEW a \in Seq(Docs), NEW b \in Seq(Nodes), IsInjective(a), IsInjective(b),
           NEW list, NEW order, Fusion(list, a, b, order),
           NEW k \in Nat, k <= Len(a), k <= Len(b)
    PROVE  Top(list, 2 * k) = Top(a, k) \cup Top(b, k)
  <1> DEFINE T == Top(a, k) \cup Top(b, k)
             n == Len(list)
             P == {i \in 1 .. n : list[i] \in T}
             score(x) == Score(<<a, b>>, x)
  <1>1. /\ a \in Seq(Items) /\ Len(a) <= MaxRank /\ b \in Seq(Items) /\ Len(b) <= MaxRank
        /\ MaxRank \in Nat /\ Len(a) \in Nat /\ Len(b) \in Nat
    BY ShortLists, RetrievalAssumption
  <1>2. list \in Seq(ToSet(a) \cup ToSet(b)) /\ IsInjective(list) /\ ToSet(list) = ToSet(a) \cup ToSet(b)
    BY DEF Fusion
  <1>3. n \in Nat /\ DOMAIN list = 1 .. n
    BY <1>2
  <1>4. ToSet(a) \cap ToSet(b) = {}
    BY RetrievalAssumption DEF ToSet
  <1>5. /\ Top(a, k) = {a[i] : i \in 1 .. k} /\ Top(b, k) = {b[i] : i \in 1 .. k}
        /\ IsFiniteSet(Top(a, k)) /\ Cardinality(Top(a, k)) = k
        /\ IsFiniteSet(Top(b, k)) /\ Cardinality(Top(b, k)) = k
    BY TopSize
  <1>6. \A i \in 1 .. k : i \in DOMAIN a /\ i \in DOMAIN b /\ i \in 1 .. MaxRank
    BY <1>1
  <1>7. T \subseteq ToSet(list) /\ Top(a, k) \cap Top(b, k) = {}
    BY <1>2, <1>4, <1>5, <1>6 DEF ToSet
  <1>8. IsFiniteSet(T) /\ Cardinality(T) = 2 * k
    <2>1. Cardinality({}) = 0
      BY FS_EmptySet
    <2> DEFINE A == Top(a, k)
               B == Top(b, k)
    <2>2. /\ IsFiniteSet(A) /\ Cardinality(A) = k /\ IsFiniteSet(B) /\ Cardinality(B) = k
          /\ Cardinality(A \cap B) = 0
      BY <1>5, <1>7, <2>1
    <2> HIDE DEF A, B
    <2>3. /\ IsFiniteSet(A \cup B)
          /\ Cardinality(A \cup B) = Cardinality(A) + Cardinality(B) - Cardinality(A \cap B)
      BY <2>2, FS_Union
    <2> QED
      BY <2>2, <2>3 DEF A, B
  <1>9. ASSUME NEW i \in 1 .. n, NEW j \in 1 .. n, list[i] \in T, list[j] \notin T PROVE i < j
    <2>1. PICK p \in 1 .. k : score(list[i]) = Part(p)
      <3>1. CASE list[i] \in Top(a, k)
        <4>1. PICK p \in 1 .. k : a[p] = list[i]
          BY <1>5, <3>1
        <4>2. p \in DOMAIN a /\ list[i] \notin ToSet(b)
          BY <1>4, <1>6, <4>1 DEF ToSet
        <4> QED
          BY <1>1, <4>1, <4>2, Scores
      <3>2. CASE list[i] \in Top(b, k)
        <4>1. PICK p \in 1 .. k : b[p] = list[i]
          BY <1>5, <3>2
        <4>2. p \in DOMAIN b /\ list[i] \notin ToSet(a)
          BY <1>4, <1>6, <4>1 DEF ToSet
        <4> QED
          BY <1>1, <4>1, <4>2, Scores
      <3> QED
        BY <1>9, <3>1, <3>2
    <2>2. PICK q \in 1 .. MaxRank : q > k /\ score(list[j]) = Part(q)
      <3>0. list[j] \in ToSet(a) \cup ToSet(b)
        BY <1>2
      <3>1. CASE list[j] \in ToSet(a)
        <4>1. PICK q \in DOMAIN a : a[q] = list[j]
          BY <3>1 DEF ToSet
        <4>2. list[j] \notin ToSet(b) /\ q \in 1 .. MaxRank /\ q \notin 1 .. k
          BY <1>1, <1>4, <1>5, <1>9, <3>1, <4>1
        <4> QED
          BY <1>1, <4>1, <4>2, Scores
      <3>2. CASE list[j] \in ToSet(b)
        <4>1. PICK q \in DOMAIN b : b[q] = list[j]
          BY <3>2 DEF ToSet
        <4>2. list[j] \notin ToSet(a) /\ q \in 1 .. MaxRank /\ q \notin 1 .. k
          BY <1>1, <1>4, <1>5, <1>9, <3>2, <4>1
        <4> QED
          BY <1>1, <4>1, <4>2, Scores
      <3> QED
        BY <3>0, <3>1, <3>2
    <2>3. p \in 1 .. MaxRank /\ p < q
      BY <1>6, <2>1, <2>2
    <2>4. Part(q) < Part(p)
      BY <2>3, PartsFall
    <2>5. Part(q) \in Nat /\ Part(p) \in Nat
      BY <2>3, Parts
    <2>6. score(list[i]) > score(list[j])
      BY <2>1, <2>2, <2>4, <2>5
    <2> QED
      BY <1>3, <2>6 DEF Fusion
  <1> HIDE DEF T, score
  <1>10. P = 1 .. (2 * k)
    <2>1. \A i \in P, j \in 1 .. n : j <= i => j \in P
      <3>1. ASSUME NEW i \in P, NEW j \in 1 .. n, j <= i, j \notin P PROVE FALSE
        <4>1. i < j
          BY <1>9, <3>1
        <4> QED
          BY <1>3, <3>1, <4>1
      <3> QED
        BY <3>1
    <2>2. {list[i] : i \in P} = T
      BY <1>3, <1>7 DEF ToSet
    <2>3. \A i, j \in P : list[i] = list[j] => i = j
      BY <1>2, <1>3 DEF IsInjective
    <2> HIDE DEF P
    <2>4. IsFiniteSet(P) /\ P = 1 .. Cardinality(P)
      <3>1. P \subseteq 1 .. n
        BY DEF P
      <3> QED
        BY <1>3, <2>1, <3>1, FirstPositions
    <2>5. Cardinality(P) = 2 * k
      BY <1>8, <2>2, <2>3, <2>4, ImageSize
    <2> QED
      BY <2>4, <2>5
  <1>11. Top(list, 2 * k) = {list[i] : i \in P}
    <2>1. (1 .. n) \cap (1 .. (2 * k)) = P
      BY <1>10
    <2> HIDE DEF P
    <2> QED
      BY <1>3, <2>1 DEF Top
  <1>12. {list[i] : i \in P} = T
    BY <1>3, <1>7 DEF ToSet
  <1> QED
    BY <1>11, <1>12 DEF T

-----------------------------------------------------------------------------
\* The neighbours of a node.

\* What there is h hops away.
Reached(node, h) ==
    {x \in Nodes : \E walk \in [0 .. h -> Nodes] :
        walk[0] = node /\ walk[h] = x /\ \A i \in 1 .. h : <<walk[i - 1], walk[i]>> \in graph}

LEMMA OneHop ==
    ASSUME graph \subseteq Nodes \X Nodes, NEW node \in Nodes, NEW h \in Nat \ {0}
    PROVE  Reached(node, h) = Callees(graph, Reached(node, h - 1))
  <1>n. /\ h - 1 \in Nat /\ h \in 0 .. h /\ 0 \in 0 .. h /\ h - 1 \in 0 .. h - 1
        /\ h \in 1 .. h /\ 0 \in 0 .. h - 1 /\ h # 0
        /\ \A i \in 0 .. h : i = h \/ i \in 0 .. h - 1
        /\ \A i \in 1 .. h : i = h \/ (i \in 1 .. h - 1 /\ i # h /\ i - 1 # h)
        /\ \A i \in 0 .. h - 1 : i \in 0 .. h /\ i # h
        /\ \A i \in 1 .. h - 1 : i \in 1 .. h /\ i \in 0 .. h - 1 /\ i - 1 \in 0 .. h - 1
    OBVIOUS
  <1>1. ASSUME NEW x \in Reached(node, h) PROVE x \in Callees(graph, Reached(node, h - 1))
    <2>1. PICK walk \in [0 .. h -> Nodes] :
              walk[0] = node /\ walk[h] = x /\ \A i \in 1 .. h : <<walk[i - 1], walk[i]>> \in graph
      BY DEF Reached
    <2> DEFINE w == [i \in 0 .. h - 1 |-> walk[i]]
    <2>2. w \in [0 .. h - 1 -> Nodes]
      BY <1>n, <2>1
    <2>3. w[0] = node /\ w[h - 1] = walk[h - 1]
      BY <1>n, <2>1
    <2>4. \A i \in 1 .. h - 1 : <<w[i - 1], w[i]>> \in graph
      BY <1>n, <2>1
    <2> HIDE DEF w
    <2>5. walk[h - 1] \in Reached(node, h - 1)
      <3>1. walk[h - 1] \in Nodes
        BY <1>n, <2>1
      <3> QED
        BY <2>2, <2>3, <2>4, <3>1 DEF Reached
    <2>6. <<walk[h - 1], x>> \in graph
      BY <1>n, <2>1
    <2> DEFINE e == <<walk[h - 1], x>>
    <2>7. e \in graph /\ e[1] \in Reached(node, h - 1) /\ e[2] = x
      BY <2>5, <2>6
    <2> HIDE DEF e
    <2> QED
      BY <2>7 DEF Callees
  <1>2. ASSUME NEW x \in Callees(graph, Reached(node, h - 1)) PROVE x \in Reached(node, h)
    <2>1. PICK e \in graph : e[1] \in Reached(node, h - 1) /\ e[2] = x
      BY <1>2 DEF Callees
    <2>2. PICK walk \in [0 .. h - 1 -> Nodes] :
              /\ walk[0] = node /\ walk[h - 1] = e[1]
              /\ \A i \in 1 .. h - 1 : <<walk[i - 1], walk[i]>> \in graph
      BY <2>1 DEF Reached
    <2>3. e = <<e[1], e[2]>> /\ x \in Nodes
      BY <2>1
    <2> DEFINE w == [i \in 0 .. h |-> IF i = h THEN x ELSE walk[i]]
    <2>4. w \in [0 .. h -> Nodes]
      BY <1>n, <2>2, <2>3
    <2>5. w[h] = x /\ w[0] = node /\ \A i \in 0 .. h - 1 : w[i] = walk[i]
      BY <1>n, <2>2
    <2> HIDE DEF w
    <2>6. ASSUME NEW i \in 1 .. h PROVE <<w[i - 1], w[i]>> \in graph
      <3>1. CASE i = h
        BY <1>n, <2>1, <2>2, <2>3, <2>5, <3>1
      <3>2. CASE i # h
        <4>1. i \in 1 .. h - 1
          BY <1>n, <3>2
        <4> QED
          BY <1>n, <2>2, <2>5, <4>1
      <3> QED
        BY <3>1, <3>2
    <2> QED
      BY <2>3, <2>4, <2>5, <2>6 DEF Reached
  <1> QED
    BY <1>1, <1>2

\* The levels of the recursive query.
Levels(level, node, hops) ==
    /\ DOMAIN level = 1 .. hops + 1
    /\ \A h \in 1 .. hops + 1 :
           level[h] = Callees(graph, IF h = 1 THEN {node} ELSE level[h - 1])
    /\ GetCodeNeighbors(graph, node, hops) =
           UNION {level[h] : h \in 1 .. (IF hops = 0 THEN 1 ELSE hops)}

LEMMA QueryLevels ==
    ASSUME graph \subseteq Nodes \X Nodes, NEW node \in Nodes, NEW hops \in Nat
    PROVE  \E level : Levels(level, node, hops)
  <1> DEFINE N == hops + 1
             G == [h \in 1 .. N |-> [S \in SUBSET Nodes |-> Callees(graph, S)]]
             Round(f) == [h \in 1 .. N |-> Callees(graph, IF h = 1 THEN {node} ELSE f[h - 1])]
             level == CHOOSE f : f = Round(f)
  <1>n. N \in Nat /\ \A h \in 1 .. N : h = 1 \/ h - 1 \in 1 .. N
    OBVIOUS
  <1>1. G \in [1 .. N -> [SUBSET Nodes -> SUBSET Nodes]]
    <2>1. \A S \in SUBSET Nodes : Callees(graph, S) \in SUBSET Nodes
      BY DEF Callees
    <2> QED
      BY <2>1
  <1>2. PICK f : Run(f, SUBSET Nodes, {node}, N, G)
    <2>1. {node} \in SUBSET Nodes
      OBVIOUS
    <2> HIDE DEF G, N
    <2> QED
      BY <1>n, <1>1, <2>1, LoopRuns
  <1> DEFINE g == [h \in 1 .. N |-> f[h]]
  <1>3. g = Round(g)
    <2>1. ASSUME NEW h \in 1 .. N PROVE f[h] = Callees(graph, IF h = 1 THEN {node} ELSE g[h - 1])
      <3>0. h - 1 \in 0 .. N /\ (h # 1 => h - 1 \in 1 .. N) /\ (h = 1 => h - 1 = 0)
        OBVIOUS
      <3>1. f[h] = G[h][f[h - 1]] /\ f[h - 1] \in SUBSET Nodes /\ f[0] = {node}
        <4> HIDE DEF N, G
        <4> QED
          BY <1>2, <3>0 DEF Run
      <3>2. f[h] = Callees(graph, f[h - 1])
        BY <3>1
      <3>3. h # 1 => g[h - 1] = f[h - 1]
        BY <3>0
      <3>4. (IF h = 1 THEN {node} ELSE g[h - 1]) = f[h - 1]
        <4> HIDE DEF g, G, N
        <4> QED
          BY <3>0, <3>1, <3>3
      <3> HIDE DEF g, G, N
      <3> QED
        BY <3>2, <3>4
    <2> QED
      BY <2>1
  <1>4. level = Round(level)
    BY <1>3
  <1>5. GetCodeNeighbors(graph, node, hops) = UNION {level[h] : h \in 1 .. (IF hops = 0 THEN 1 ELSE hops)}
    BY DEF GetCodeNeighbors
  <1> HIDE DEF level
  <1>6. DOMAIN level = 1 .. N
    BY <1>4
  <1>7. ASSUME NEW h \in 1 .. N
        PROVE  level[h] = Callees(graph, IF h = 1 THEN {node} ELSE level[h - 1])
    <2>1. level[h] = Round(level)[h]
      BY <1>4
    <2> HIDE <1>4
    <2> QED
      BY <2>1
  <1>8. Levels(level, node, hops)
    BY <1>5, <1>6, <1>7, Zenon DEF Levels
  <1> QED
    BY <1>8

\* The recursive query finds what walks of so many hops reach.
LEMMA Neighbors ==
    ASSUME graph \subseteq Nodes \X Nodes, NEW node \in Nodes, NEW hops \in Nat
    PROVE  GetCodeNeighbors(graph, node, hops) = Within(graph, node, IF hops = 0 THEN 1 ELSE hops)
  <1> DEFINE N == hops + 1
             depths == 1 .. (IF hops = 0 THEN 1 ELSE hops)
  <1>n. /\ N \in Nat /\ depths \subseteq 1 .. N
        /\ \A h \in 1 .. N : h \in 0 .. N /\ h \in Nat \ {0} /\ h - 1 \in 0 .. N /\ (h - 1 = 0 <=> h = 1)
    OBVIOUS
  <1>1. PICK level : Levels(level, node, hops)
    BY QueryLevels
  <1>2. Reached(node, 0) = {node}
    <2>1. ASSUME NEW x \in Reached(node, 0) PROVE x = node
      BY DEF Reached
    <2> DEFINE w == [i \in 0 .. 0 |-> node]
    <2>2. w \in [0 .. 0 -> Nodes] /\ w[0] = node /\ \A i \in 1 .. 0 : <<w[i - 1], w[i]>> \in graph
      OBVIOUS
    <2> HIDE DEF w
    <2>3. node \in Reached(node, 0)
      BY <2>2 DEF Reached
    <2> QED
      BY <2>1, <2>3
  <1> DEFINE A == {h \in 0 .. N : h = 0 \/ level[h] = Reached(node, h)}
  <1>3. 0 \in A
    BY <1>n
  <1>4. ASSUME NEW h \in 1 .. N, h - 1 \in A PROVE h \in A
    <2>1. level[h] = Callees(graph, IF h = 1 THEN {node} ELSE level[h - 1])
      BY <1>1 DEF Levels
    <2>2. (IF h = 1 THEN {node} ELSE level[h - 1]) = Reached(node, h - 1)
      <3>1. CASE h = 1
        BY <1>2, <3>1
      <3>2. CASE h # 1
        BY <1>n, <1>4, <3>2
      <3> QED
        BY <3>1, <3>2
    <2>3. Reached(node, h) = Callees(graph, Reached(node, h - 1))
      BY <1>n, OneHop
    <2>4. level[h] = Reached(node, h)
      BY <2>1, <2>2, <2>3
    <2> QED
      BY <1>n, <2>4
  <1>5. \A h \in 1 .. N : level[h] = Reached(node, h)
    <2>1. 0 .. N \subseteq A
      <3> HIDE DEF A, N
      <3> QED
        BY <1>n, <1>3, <1>4, Induct
    <2> QED
      BY <1>n, <2>1
  <1>6. GetCodeNeighbors(graph, node, hops) = UNION {level[h] : h \in depths}
    BY <1>1 DEF Levels
  <1>7. Within(graph, node, IF hops = 0 THEN 1 ELSE hops) = UNION {Reached(node, h) : h \in depths}
    BY DEF Within, Reached
  <1> HIDE DEF depths, N
  <1> QED
    BY <1>n, <1>5, <1>6, <1>7

-----------------------------------------------------------------------------
\* The prompt.

\* t[i] is the runes of the first i entries.
Totals(t, list) ==
    /\ t \in [0 .. Len(list) -> Nat]
    /\ t[0] = 0
    /\ \A i \in 1 .. Len(list) : t[i] = t[i - 1] + Size[list[i]]
    /\ BuildContext(list) = SubSeq(list, 1, Cardinality({i \in DOMAIN list : t[i] <= MaxRunes}))

LEMMA ContextTotals == ASSUME NEW list \in Seq(Items) PROVE \E t : Totals(t, list)
  <1> DEFINE N == Len(list)
             G == [i \in 1 .. N |-> [r \in Nat |-> r + Size[list[i]]]]
             Round(f) == [i \in 0 .. N |-> IF i = 0 THEN 0 ELSE f[i - 1] + Size[list[i]]]
             t == CHOOSE f : f = Round(f)
  <1>n. N \in Nat /\ \A i \in 1 .. N : Size[list[i]] \in Nat
    BY RetrievalAssumption
  <1>1. G \in [1 .. N -> [Nat -> Nat]]
    BY <1>n
  <1>2. PICK f : Run(f, Nat, 0, N, G)
    <2> HIDE DEF G, N
    <2> QED
      BY <1>n, <1>1, LoopRuns
  <1>3. \A i \in 0 .. N : i = 0 \/ (i \in 1 .. N /\ i - 1 \in 0 .. N)
    BY <1>n
  <1>4. f = Round(f)
    BY <1>2, <1>3 DEF Run
  <1>5. t = Round(t)
    BY <1>4
  <1>6. BuildContext(list) = SubSeq(list, 1, Cardinality({i \in DOMAIN list : t[i] <= MaxRunes}))
    BY DEF BuildContext
  <1> HIDE DEF t
  <1>7. DOMAIN t = 0 .. N /\ t[0] = 0
    BY <1>5, <1>n
  <1>8. \A i \in 1 .. N : i - 1 \in 0 .. N /\ i \in 0 .. N /\ i # 0
    BY <1>n
  <1> HIDE DEF N
  <1>9. ASSUME NEW i \in 1 .. N PROVE t[i] = t[i - 1] + Size[list[i]]
    <2>1. t[i] = Round(t)[i]
      BY <1>5
    <2> HIDE <1>5
    <2> QED
      BY <2>1, <1>8
  <1>10. t \in [0 .. N -> Nat]
    <2> DEFINE A == {i \in 0 .. N : t[i] \in Nat}
    <2>1. 0 \in A
      BY <1>7, <1>n
    <2>2. ASSUME NEW i \in 1 .. N, i - 1 \in A PROVE i \in A
      BY <1>8, <1>9, <1>n, <2>2
    <2> HIDE DEF A
    <2>3. 0 .. N \subseteq A
      BY <1>n, <2>1, <2>2, Induct
    <2>4. t = [i \in 0 .. N |-> t[i]]
      BY <1>5
    <2> QED
      BY <2>3, <2>4 DEF A
  <1> QED
    BY <1>6, <1>7, <1>9, <1>10 DEF Totals, N

\* The first l entries have t[l] runes.
LEMMA RunesOfPrefix ==
    ASSUME NEW list \in Seq(Items), NEW t, Totals(t, list), NEW l \in 0 .. Len(list)
    PROVE  Cardinality(PromptRunes(SubSeq(list, 1, l))) = t[l]
  <1> DEFINE N == Len(list)
             piece(i) == {i} \X (1 .. Size[list[i]])
             R(i) == UNION {piece(j) : j \in 1 .. i}
             A == {i \in 0 .. N : IsFiniteSet(R(i)) /\ Cardinality(R(i)) = t[i]}
  <1>n. /\ N \in Nat /\ \A i \in 1 .. N : Size[list[i]] \in Nat /\ i - 1 \in 0 .. N /\ i \in 0 .. N
        /\ l \in 0 .. N
    BY RetrievalAssumption
  <1>t. t \in [0 .. N -> Nat] /\ t[0] = 0 /\ \A i \in 1 .. N : t[i] = t[i - 1] + Size[list[i]]
    BY DEF Totals
  <1>1. 0 \in A
    <2>1. R(0) = {}
      OBVIOUS
    <2>2. IsFiniteSet(R(0)) /\ Cardinality(R(0)) = 0
      BY <2>1, FS_EmptySet
    <2> HIDE DEF R
    <2> QED
      BY <1>n, <1>t, <2>2
  <1>2. ASSUME NEW i \in 1 .. N, i - 1 \in A PROVE i \in A
    <2> DEFINE Q == R(i - 1)
               s == Size[list[i]]
    <2>1. R(i) = Q \cup piece(i) /\ Q \cap piece(i) = {}
      <3>1. \A j \in 1 .. i : j \in 1 .. i - 1 \/ j = i
        OBVIOUS
      <3>2. i \in 1 .. i /\ i \notin 1 .. i - 1 /\ \A j \in 1 .. i - 1 : j \in 1 .. i
        OBVIOUS
      <3> QED
        BY <3>1, <3>2
    <2>2. IsFiniteSet(piece(i)) /\ Cardinality(piece(i)) = s
      <3>1. IsFiniteSet({i}) /\ Cardinality({i}) = 1
        BY FS_Singleton
      <3>2. s \in Nat
        BY <1>n
      <3> HIDE DEF s
      <3>3. IsFiniteSet(1 .. s) /\ Cardinality(1 .. s) = s
        BY <3>2, FS_Interval
      <3>4. IsFiniteSet({i} \X (1 .. s)) /\ Cardinality({i} \X (1 .. s)) = 1 * s
        BY <3>1, <3>3, FS_Product
      <3> QED
        BY <3>2, <3>4 DEF s
    <2>3. IsFiniteSet(Q) /\ Cardinality(Q) = t[i - 1] /\ t[i - 1] \in Nat
      BY <1>2, <1>n, <1>t
    <2> HIDE DEF R, piece, Q
    <2>4. /\ IsFiniteSet(Q \cup piece(i))
          /\ Cardinality(Q \cup piece(i)) = Cardinality(Q) + Cardinality(piece(i)) - Cardinality(Q \cap piece(i))
      BY <2>2, <2>3, FS_Union
    <2>5. Cardinality(Q \cap piece(i)) = 0
      BY <2>1, FS_EmptySet
    <2>6. Cardinality(R(i)) = t[i]
      BY <1>n, <1>t, <2>1, <2>2, <2>3, <2>4, <2>5
    <2> QED
      BY <1>n, <2>1, <2>4, <2>6
  <1>3. l \in A
    <2>1. 0 .. N \subseteq A
      <3> HIDE DEF A, N
      <3> QED
        BY <1>n, <1>1, <1>2, Induct
    <2> QED
      BY <1>n, <2>1
  <1>4. PromptRunes(SubSeq(list, 1, l)) = R(l)
    <2>1. DOMAIN SubSeq(list, 1, l) = 1 .. l /\ \A i \in 1 .. l : SubSeq(list, 1, l)[i] = list[i]
      BY <1>n
    <2> QED
      BY <2>1 DEF PromptRunes
  <1> QED
    BY <1>3, <1>4

\* The prompt is the longest beginning of a list that fits.
LEMMA ContextIsLongest ==
    ASSUME NEW list \in Seq(Items)
    PROVE  /\ \E m \in 0 .. Len(list) : BuildContext(list) = SubSeq(list, 1, m)
           /\ \A p \in Prefixes(list) :
                 Cardinality(PromptRunes(p)) <= MaxRunes <=> IsPrefix(p, BuildContext(list))
  <1> DEFINE N == Len(list)
             c == BuildContext(list)
  <1>0. PICK t : Totals(t, list)
    BY ContextTotals
  <1>n. N \in Nat /\ DOMAIN list = 1 .. N /\ MaxRunes \in Nat
    BY RetrievalAssumption
  <1> DEFINE P == {i \in 1 .. N : t[i] <= MaxRunes}
             m == Cardinality(P)
  <1>t. /\ t \in [0 .. N -> Nat] /\ t[0] = 0 /\ \A i \in 1 .. N : t[i] = t[i - 1] + Size[list[i]]
        /\ c = SubSeq(list, 1, m)
    BY <1>n, <1>0 DEF Totals
  <1>1. \A i \in 0 .. N, j \in 0 .. N : i <= j => t[i] <= t[j]
    <2>1. SUFFICES ASSUME NEW i \in 0 .. N PROVE \A j \in 0 .. N : i <= j => t[i] <= t[j]
      OBVIOUS
    <2> DEFINE A == {j \in 0 .. N : i <= j => t[i] <= t[j]}
    <2>2. 0 \in A
      BY <1>n, <1>t
    <2>3. ASSUME NEW j \in 1 .. N, j - 1 \in A PROVE j \in A
      <3>1. j \in 0 .. N /\ j - 1 \in 0 .. N /\ (i <= j => i = j \/ i <= j - 1)
        BY <1>n
      <3>2. Size[list[j]] \in Nat /\ t[j] \in Nat /\ t[j - 1] \in Nat /\ t[i] \in Nat
        <4>1. list[j] \in Items
          BY <1>n
        <4>2. Size[list[j]] \in Nat
          BY <4>1, RetrievalAssumption
        <4> QED
          BY <1>t, <3>1, <4>2
      <3>3. t[j] = t[j - 1] + Size[list[j]]
        BY <1>t
      <3>4. i <= j - 1 => t[i] <= t[j - 1]
        BY <2>3
      <3> QED
        BY <3>1, <3>2, <3>3, <3>4
    <2>4. 0 .. N \subseteq A
      <3> HIDE DEF A, N
      <3> QED
        BY <1>n, <2>2, <2>3, Induct
    <2> QED
      BY <2>4
  <1>2. m \in 0 .. N /\ P = 1 .. m
    <2>1. \A i \in P, j \in 1 .. N : j <= i => j \in P
      <3>1. ASSUME NEW i \in P, NEW j \in 1 .. N, j <= i PROVE j \in P
        <4>1. i \in 0 .. N /\ j \in 0 .. N
          BY <1>n
        <4>2. t[j] <= t[i] /\ t[i] <= MaxRunes /\ t[i] \in Nat /\ t[j] \in Nat
          BY <1>1, <1>t, <3>1, <4>1
        <4> QED
          BY <1>n, <4>2
      <3> QED
        BY <3>1
    <2>2. P \subseteq 1 .. N
      OBVIOUS
    <2> HIDE DEF P, N
    <2> QED
      BY <1>n, <2>1, <2>2, FirstPositions
  <1> HIDE DEF m, c
  <1>3. ASSUME NEW p \in Prefixes(list)
        PROVE  Cardinality(PromptRunes(p)) <= MaxRunes <=> IsPrefix(p, c)
    <2>1. PICK l \in 0 .. N : p = SubSeq(list, 1, l)
      BY <1>n DEF Prefixes
    <2>2. Cardinality(PromptRunes(p)) = t[l]
      BY <1>0, <2>1, RunesOfPrefix
    <2>3. t[l] <= MaxRunes <=> l <= m
      <3>1. CASE l = 0
        BY <1>n, <1>t, <1>2, <3>1
      <3>2. CASE l # 0
        <4>1. l \in 1 .. N /\ l \in Nat /\ m \in Nat
          BY <1>n, <1>2, <3>2
        <4>2. t[l] <= MaxRunes <=> l \in P
          BY <4>1
        <4>3. l \in 1 .. m <=> l <= m
          BY <4>1
        <4> QED
          BY <1>2, <4>2, <4>3
      <3> QED
        BY <3>1, <3>2
    <2>4. IsPrefix(p, c) <=> l <= m
      <3>1. Len(p) = l /\ Len(c) = m /\ l \in Nat /\ m \in Nat
        BY <1>n, <1>t, <1>2, <2>1
      <3>2. p \in Seq(Items) /\ c \in Seq(Items)
        BY <1>n, <1>t, <1>2, <2>1
      <3>3. /\ \A i \in 1 .. l : p[i] = list[i]
            /\ \A i \in 1 .. m : c[i] = list[i]
        BY <1>n, <1>t, <1>2, <2>1
      <3>4. ASSUME l <= m PROVE SubSeq(p, 1, l) = SubSeq(c, 1, l)
        <4>1. /\ SubSeq(p, 1, l) = [i \in 1 .. l |-> p[i]]
              /\ SubSeq(c, 1, l) = [i \in 1 .. l |-> c[i]]
          BY <3>1, <3>2, <3>4
        <4>2. \A i \in 1 .. l : p[i] = c[i]
          BY <3>1, <3>3, <3>4
        <4> QED
          BY <4>1, <4>2
      <3> QED
        BY <3>1, <3>4 DEF IsPrefix
    <2> QED
      BY <2>2, <2>3, <2>4
  <1> QED
    BY <1>2, <1>3, <1>t DEF c

-----------------------------------------------------------------------------
\* The steps of a query.

LEMMA EmptyList == ASSUME NEW S PROVE List(S, <<>>) /\ ToSet(<<>>) = {} /\ Len(<<>>) = 0
  BY DEF List, IsInjective, ToSet

\* What a search returns.
LEMMA ResultLists ==
    ASSUME NEW S, NEW r \in Results(S) PROVE List(S, r) /\ Len(r) <= TopK
  <1>1. PICK n \in 0 .. TopK : r \in [1 .. n -> S]
    BY DEF Results
  <1>2. r \in Seq(S) /\ Len(r) = n
    BY <1>1, RetrievalAssumption
  <1>3. IsInjective(r) /\ n <= TopK
    BY RetrievalAssumption DEF Results
  <1> QED
    BY <1>2, <1>3 DEF List

LEMMA SameNear ==
    ASSUME UNCHANGED <<graph, depth>> PROVE \A x : Near(x)' = Near(x)
  BY DEF Near, Within

LEMMA InitInv == RetrievalInit => Inv
  <1> SUFFICES ASSUME RetrievalInit PROVE Inv
    OBVIOUS
  <1>1. Lists
    BY EmptyList DEF RetrievalInit, Lists
  <1>2. Others
    <2>1. Len(entries) = 0 /\ at = 0
      BY DEF RetrievalInit
    <2>2. at \in 0 .. Len(entries) + 1
      BY <2>1
    <2> QED
      BY <2>2 DEF RetrievalInit, Others
  <1>3. Searched
    BY EmptyList, RetrievalAssumption DEF RetrievalInit, Searched
  <1>4. Expanding
    BY EmptyList DEF RetrievalInit, Expanding
  <1>5. Answering
    BY DEF RetrievalInit, Answering
  <1> QED
    BY <1>1, <1>2, <1>3, <1>4, <1>5 DEF Inv

LEMMA SearchDocsInv == ASSUME Inv, SearchDocsDense \/ SearchDocsSparse PROVE Inv'
  <1>1. /\ UNCHANGED <<kind, docResults, code, merged, context>>
        /\ step' \in {"sparse", "fuse"} /\ step \in {"dense", "sparse"}
    BY DEF SearchDocsDense, SearchDocsSparse
  <1>u. UNCHANGED <<kind, docResults, graph, depth, entries, at, expanded, failed, merged, context>>
    BY <1>1 DEF code
  <1>2. List(Docs, dense') /\ Len(dense') <= TopK /\ List(Docs, sparse') /\ Len(sparse') <= TopK
    <2>1. CASE SearchDocsDense
      BY <2>1, ResultLists DEF SearchDocsDense, Inv, Lists, Searched
    <2>2. CASE SearchDocsSparse
      BY <2>2, ResultLists DEF SearchDocsSparse, Inv, Lists, Searched
    <2> QED
      BY <2>1, <2>2
  <1>3. Lists'
    BY <1>u, <1>2 DEF Inv, Lists, List
  <1>4. Others'
    BY <1>1, <1>u DEF Inv, Others
  <1>5. Searched'
    BY <1>1, <1>2 DEF Searched
  <1>6. Expanding'
    BY <1>1, <1>u, SameNear DEF Inv, Expanding, Found
  <1>7. Answering'
    BY <1>1 DEF Answering
  <1> QED
    BY <1>3, <1>4, <1>5, <1>6, <1>7 DEF Inv

\* RRF of two lists of documents, or of documents and nodes, is a list.
LEMMA FusedLists ==
    ASSUME NEW S \in {Docs, Nodes}, NEW T \in {Docs, Nodes}, NEW a, NEW b, List(S, a), List(T, b),
           NEW order \in Orders
    PROVE  List(S \cup T, RRF(<<a, b>>, order)) /\ Fusion(RRF(<<a, b>>, order), a, b, order)
  <1>1. /\ a \in Seq(Items) /\ Len(a) <= MaxRank /\ IsInjective(a)
        /\ b \in Seq(Items) /\ Len(b) <= MaxRank /\ IsInjective(b)
    BY ShortLists DEF List
  <1>2. Fusion(RRF(<<a, b>>, order), a, b, order)
    BY <1>1, Fuses
  <1>3. ToSet(a) \cup ToSet(b) \subseteq S \cup T
    <2>1. a \in Seq(S) /\ b \in Seq(T)
      BY DEF List
    <2>2. ToSet(a) \subseteq S /\ ToSet(b) \subseteq T
      BY <2>1 DEF ToSet
    <2> QED
      BY <2>2
  <1> DEFINE r == RRF(<<a, b>>, order)
             U == ToSet(a) \cup ToSet(b)
  <1>4. r \in Seq(U) /\ IsInjective(r)
    BY <1>2 DEF Fusion
  <1> HIDE DEF r, U
  <1>5. r \in Seq(S \cup T)
    BY <1>3, <1>4 DEF U
  <1> QED
    BY <1>2, <1>4, <1>5 DEF List, r

LEMMA FuseDocsInv == ASSUME Inv, NEW order \in Orders, FuseDocs(order) PROVE Inv'
  <1>1. /\ UNCHANGED <<kind, dense, sparse, graph, depth, entries, at, expanded, failed, merged, context>>
        /\ docResults' = RRF(<<dense, sparse>>, order)
        /\ step' \in {"code", "merge"} /\ step = "fuse"
    BY DEF FuseDocs, code
  <1>2. List(Docs, docResults')
    <2>1. List(Docs \cup Docs, docResults')
      BY <1>1, FusedLists DEF Inv, Lists
    <2> QED
      BY <2>1
  <1>3. Lists'
    BY <1>1, <1>2 DEF Inv, Lists, List
  <1>4. Others'
    BY <1>1 DEF Inv, Others
  <1>5. Searched'
    BY <1>1 DEF Inv, Searched
  <1>6. Expanding'
    BY <1>1, SameNear DEF Inv, Expanding, Found
  <1>7. Answering'
    BY <1>1 DEF Answering
  <1> QED
    BY <1>3, <1>4, <1>5, <1>6, <1>7 DEF Inv

LEMMA SearchCodeInv == ASSUME Inv, SearchCodeDense PROVE Inv'
  <1>1. /\ UNCHANGED <<kind, docResults, graph, depth, expanded, failed, merged, context>>
        /\ entries' \in Results(Nodes) /\ at' = 1
        /\ step' = IF entries' = <<>> THEN "merge" ELSE "expand"
        /\ dense' = <<>> /\ sparse' = <<>> /\ step = "code"
    BY DEF SearchCodeDense
  <1>2. List(Nodes, entries') /\ expanded = <<>> /\ ~failed
    BY <1>1, ResultLists DEF Inv, Expanding
  <1>3. Lists'
    BY <1>1, <1>2, EmptyList DEF Inv, Lists, List
  <1>n. Len(entries') \in Nat /\ (entries' # <<>> => Len(entries') # 0)
    BY <1>2 DEF List
  <1>4. Others'
    BY <1>1, <1>n DEF Inv, Others
  <1>5. Searched'
    BY <1>1, EmptyList, RetrievalAssumption DEF Searched
  <1>6. Expanding'
    BY <1>1, <1>2, <1>n, EmptyList DEF Expanding
  <1>7. Answering'
    BY <1>1 DEF Answering
  <1> QED
    BY <1>3, <1>4, <1>5, <1>6, <1>7 DEF Inv

\* p and q without a common element, and the list of the elements of both.
Apart(p, q) == \A x \in ToSet(p) : x \notin ToSet(q)
Joins(S, r, p, q) == List(S, r) /\ ToSet(r) = ToSet(p) \cup ToSet(q)

LEMMA Joined ==
    ASSUME NEW S, NEW p, NEW q, List(S, p), List(S, q), Apart(p, q)
    PROVE  Joins(S, p \o q, p, q)
  <1> DEFINE m == Len(p)
             n == Len(q)
             r == p \o q
  <1>1. /\ m \in Nat /\ n \in Nat /\ DOMAIN p = 1 .. m /\ DOMAIN q = 1 .. n
        /\ r \in Seq(S) /\ Len(r) = m + n /\ DOMAIN r = 1 .. m + n
        /\ \A i \in 1 .. m : r[i] = p[i]
        /\ \A i \in 1 .. n : r[m + i] = q[i]
    BY DEF List
  <1> HIDE DEF m, n, r
  <1>2. ASSUME NEW i \in 1 .. m + n
        PROVE  (i \in 1 .. m /\ r[i] = p[i]) \/ (i - m \in 1 .. n /\ r[i] = q[i - m])
    <2>1. CASE i <= m
      <3>1. i \in 1 .. m
        BY <1>1, <2>1
      <3> QED
        BY <1>1, <3>1
    <2>2. CASE i > m
      <3>1. i - m \in 1 .. n /\ m + (i - m) = i
        BY <1>1, <2>2
      <3> QED
        BY <1>1, <3>1
    <2> QED
      BY <1>1, <2>1, <2>2
  <1>3. /\ \A i \in 1 .. m : i \in 1 .. m + n
        /\ \A i \in 1 .. n : m + i \in 1 .. m + n
    BY <1>1
  <1>4. ToSet(r) = ToSet(p) \cup ToSet(q)
    <2>1. \A i \in 1 .. m + n : r[i] \in ToSet(p) \cup ToSet(q)
      BY <1>1, <1>2 DEF ToSet
    <2>2. \A i \in 1 .. m : p[i] \in ToSet(r)
      BY <1>1, <1>3 DEF ToSet
    <2>3. \A i \in 1 .. n : q[i] \in ToSet(r)
      BY <1>1, <1>3 DEF ToSet
    <2>4. /\ ToSet(r) = {r[i] : i \in 1 .. m + n} /\ ToSet(p) = {p[i] : i \in 1 .. m}
          /\ ToSet(q) = {q[i] : i \in 1 .. n}
      BY <1>1 DEF ToSet
    <2> QED
      BY <2>1, <2>2, <2>3, <2>4
  <1>5. ASSUME NEW i \in 1 .. m + n, NEW j \in 1 .. m + n, r[i] = r[j] PROVE i = j
    <2>1. /\ \A k \in 1 .. m : p[k] \in ToSet(p)
          /\ \A k \in 1 .. n : q[k] \in ToSet(q)
      BY <1>1 DEF ToSet
    <2>2. /\ \A k, h \in 1 .. m : p[k] = p[h] => k = h
          /\ \A k, h \in 1 .. n : q[k] = q[h] => k = h
      BY <1>1 DEF List, IsInjective
    <2>3. CASE i \in 1 .. m /\ r[i] = p[i]
      <3>1. j \in 1 .. m /\ r[j] = p[j]
        BY <1>2, <1>5, <2>1, <2>3 DEF Apart
      <3> QED
        BY <1>5, <2>2, <2>3, <3>1
    <2>4. CASE i - m \in 1 .. n /\ r[i] = q[i - m]
      <3>1. j - m \in 1 .. n /\ r[j] = q[j - m]
        BY <1>2, <1>5, <2>1, <2>4 DEF Apart
      <3>2. i - m = j - m
        BY <1>5, <2>2, <2>4, <3>1
      <3> QED
        BY <1>1, <3>2
    <2> QED
      BY <1>2, <2>3, <2>4
  <1> QED
    BY <1>1, <1>4, <1>5 DEF Joins, List, IsInjective, r

\* A round of the expansion adds the entry point, unless it is there, and what
\* is near it.
LEMMA Expands ==
    ASSUME Inv, NEW order \in Orders, ExpandEntry(order)
    PROVE  /\ List(Nodes, expanded')
           /\ ToSet(expanded) \cup {entries[at]} \subseteq ToSet(expanded')
           /\ ToSet(expanded') \subseteq ToSet(expanded) \cup {entries[at]} \cup Near(entries[at])
           /\ expanded = <<>> => Near(entries[at]) \subseteq ToSet(expanded')
  <1> DEFINE entry == entries[at]
             near == GetCodeNeighbors(graph, entry, depth)
             seen == ToSet(expanded) \cup {entry}
             more == InOrder(near \ seen, order)
  <1>1. /\ step = "expand"
        /\ expanded' = IF Contains(expanded, entry) THEN expanded
                       ELSE (expanded \o <<entry>>) \o more
    BY DEF ExpandEntry
  <1>2. at \in 1 .. Len(entries) /\ List(Nodes, entries) /\ List(Nodes, expanded)
    BY <1>1 DEF Inv, Lists, Expanding
  <1>3. entry \in Nodes /\ expanded \in Seq(Nodes)
    BY <1>2 DEF List
  <1>4. graph \subseteq Nodes \X Nodes /\ depth \in Nat
    BY RetrievalAssumption DEF Inv, Others
  <1>5. near = Near(entry)
    BY <1>3, <1>4, Neighbors DEF Near
  <1>6. near \subseteq Nodes
    BY <1>5 DEF Near, Within
  <1> HIDE DEF near, entry
  <1>7. Contains(expanded, entry) <=> entry \in ToSet(expanded)
    BY <1>3 DEF Contains, ToSet
  <1>8. CASE Contains(expanded, entry)
    <2>1. expanded # <<>>
      BY <1>7, <1>8, EmptyList
    <2> QED
      BY <1>1, <1>2, <1>7, <1>8, <2>1 DEF entry
  <1>9. CASE ~Contains(expanded, entry)
    <2> DEFINE one == <<entry>>
    <2>1. List(Nodes, one) /\ ToSet(one) = {entry}
      BY <1>3 DEF List, IsInjective, ToSet
    <2>2. List(Nodes, expanded \o one) /\ ToSet(expanded \o one) = ToSet(expanded) \cup {entry}
      <3> HIDE DEF one
      <3>1. Apart(expanded, one)
        BY <1>7, <1>9, <2>1 DEF Apart
      <3>2. Joins(Nodes, expanded \o one, expanded, one)
        BY <1>2, <2>1, <3>1, Joined
      <3> QED
        BY <2>1, <3>2 DEF Joins
    <2>3. List(Nodes, more) /\ ToSet(more) = near \ seen
      <3>1. near \ seen \subseteq Items
        BY <1>6 DEF Items
      <3>2. more \in Seq(near \ seen) /\ IsInjective(more) /\ ToSet(more) = near \ seen
        BY <3>1, InOrderList
      <3> HIDE DEF more, seen
      <3>3. more \in Seq(Nodes)
        BY <1>6, <3>2
      <3> QED
        BY <3>2, <3>3 DEF List
    <2> DEFINE first == expanded \o one
    <2>4. Apart(first, more)
      BY <2>2, <2>3 DEF Apart
    <2>5. expanded' = first \o more
      BY <1>1, <1>9
    <2>6. ToSet(first) = seen
      BY <2>2
    <2> HIDE DEF first, more, seen
    <2>7. List(Nodes, expanded') /\ ToSet(expanded') = seen \cup (near \ seen)
      <3>1. List(Nodes, first)
        BY <2>2 DEF first
      <3>2. Joins(Nodes, first \o more, first, more)
        BY <2>3, <2>4, <3>1, Joined
      <3> QED
        BY <2>3, <2>5, <2>6, <3>2 DEF Joins
    <2> QED
      BY <1>5, <2>7 DEF seen, entry
  <1> QED
    BY <1>8, <1>9

LEMMA ExpandEntryInv == ASSUME Inv, NEW order \in Orders, ExpandEntry(order) PROVE Inv'
  <1>1. /\ UNCHANGED <<kind, dense, sparse, docResults, graph, depth, entries, failed, merged, context>>
        /\ step = "expand" /\ at' = at + 1
        /\ step' = IF at = Len(entries) THEN "merge" ELSE "expand"
    BY DEF ExpandEntry, docs
  <1>2. /\ List(Nodes, expanded')
        /\ ToSet(expanded) \cup {entries[at]} \subseteq ToSet(expanded')
        /\ ToSet(expanded') \subseteq ToSet(expanded) \cup {entries[at]} \cup Near(entries[at])
        /\ expanded = <<>> => Near(entries[at]) \subseteq ToSet(expanded')
    BY Expands
  <1>3. /\ at \in 1 .. Len(entries) /\ Len(entries) \in Nat /\ ~failed
        /\ DOMAIN entries = 1 .. Len(entries)
        /\ at = 1 => expanded = <<>>
        /\ \A i \in 1 .. (at - 1) : entries[i] \in ToSet(expanded)
        /\ at # 1 => Near(entries[1]) \subseteq ToSet(expanded)
        /\ ToSet(expanded) \subseteq Found
    BY <1>1 DEF Inv, Lists, List, Expanding
  <1>a. /\ at' \in 2 .. Len(entries) + 1 /\ at' - 1 = at
        /\ at # Len(entries) => at' \in 1 .. Len(entries)
    <2>1. at \in 1 .. Len(entries) /\ Len(entries) \in Nat /\ at' = at + 1
      BY <1>1, <1>3
    <2> QED
      BY <2>1
  <1>4. Lists'
    BY <1>1, <1>2 DEF Inv, Lists, List
  <1>5. Others'
    <2>1. at' \in 0 .. Len(entries') + 1
      <3>1. Len(entries') = Len(entries)
        BY <1>1
      <3>2. at' \in 0 .. Len(entries) + 1
        <4> DEFINE n == Len(entries)
        <4>1. n \in Nat /\ at' \in 2 .. n + 1
          BY <1>3, <1>a
        <4> HIDE DEF n
        <4>2. at' \in 0 .. n + 1
          BY <4>1
        <4> QED
          BY <4>2 DEF n
      <3> QED
        BY <3>1, <3>2
    <2> QED
      BY <1>1, <2>1 DEF Inv, Others
  <1>6. Searched'
    BY <1>1 DEF Inv, Searched
  <1>7. Expanding'
    <2>1. \A i \in 1 .. at : entries[i] \in ToSet(expanded')
      <3>1. \A i \in 1 .. at : i = at \/ i \in 1 .. (at - 1)
        BY <1>3
      <3> QED
        BY <1>2, <1>3, <3>1
    <2>2. Near(entries[1]) \subseteq ToSet(expanded')
      BY <1>2, <1>3
    <2>3. ToSet(expanded') \subseteq Found
      <3>1. entries[at] \in ToSet(entries)
        BY <1>3 DEF ToSet
      <3> QED
        BY <1>2, <1>3, <3>1 DEF Found
    <2>4. at = Len(entries) => ToSet(entries) \subseteq ToSet(expanded')
      BY <1>3, <2>1 DEF ToSet
    <2>5. Found' = Found /\ \A x : Near(x)' = Near(x)
      BY <1>1, SameNear DEF Found
    <2>6. at' - 1 = at /\ at' # 1 /\ (at # Len(entries) => at' \in 1 .. Len(entries))
      BY <1>a
    <2> QED
      BY <1>1, <1>3, <2>1, <2>2, <2>3, <2>4, <2>5, <2>6 DEF Expanding
  <1>8. Answering'
    BY <1>1 DEF Answering
  <1> QED
    BY <1>4, <1>5, <1>6, <1>7, <1>8 DEF Inv

LEMMA ExpandFailsInv == ASSUME Inv, ExpandFails PROVE Inv'
  <1>1. /\ UNCHANGED <<kind, dense, sparse, docResults, graph, depth, entries, at, merged, context>>
        /\ expanded' = entries /\ failed' = TRUE /\ step = "expand" /\ step' = "merge"
    BY DEF ExpandFails, docs
  <1>2. Lists'
    BY <1>1 DEF Inv, Lists, List
  <1>3. Others'
    BY <1>1 DEF Inv, Others
  <1>4. Searched'
    BY <1>1 DEF Inv, Searched
  <1>5. Expanding'
    BY <1>1 DEF Expanding, Found
  <1>6. Answering'
    BY <1>1 DEF Answering
  <1> QED
    BY <1>2, <1>3, <1>4, <1>5, <1>6 DEF Inv

LEMMA MergeInv == ASSUME Inv, NEW order \in Orders, Merge(order) PROVE Inv'
  <1>1. /\ UNCHANGED <<kind, dense, sparse, docResults, graph, depth, entries, at, expanded, failed, context>>
        /\ merged' = RRF(<<docResults, expanded>>, order) /\ step = "merge" /\ step' = "prompt"
    BY DEF Merge, docs, code
  <1>2. List(Items, merged')
    BY <1>1, FusedLists DEF Inv, Lists, Items
  <1>3. Lists'
    BY <1>1, <1>2 DEF Inv, Lists, List
  <1>4. Others'
    BY <1>1 DEF Inv, Others
  <1>5. Searched'
    BY <1>1 DEF Inv, Searched
  <1>6. Expanding'
    BY <1>1, SameNear DEF Inv, Expanding, Found
  <1>7. Answering'
    BY <1>1 DEF Answering
  <1> QED
    BY <1>3, <1>4, <1>5, <1>6, <1>7 DEF Inv

LEMMA PromptInv == ASSUME Inv, Prompt PROVE Inv'
  <1>1. /\ UNCHANGED <<kind, dense, sparse, docResults, graph, depth, entries, at, expanded, failed, merged>>
        /\ context' = BuildContext(merged) /\ step = "prompt" /\ step' = "done"
    BY DEF Prompt, docs, code
  <1>2. List(Items, context')
    <2>1. merged \in Seq(Items) /\ IsInjective(merged)
      BY DEF Inv, Lists, List
    <2>2. PICK m \in 0 .. Len(merged) : context' = SubSeq(merged, 1, m)
      BY <1>1, <2>1, ContextIsLongest
    <2>3. /\ context' \in Seq(Items) /\ DOMAIN context' = 1 .. m
          /\ \A i \in 1 .. m : context'[i] = merged[i] /\ i \in DOMAIN merged
      BY <2>1, <2>2
    <2> QED
      BY <2>1, <2>3 DEF List, IsInjective
  <1>3. Lists'
    BY <1>1, <1>2 DEF Inv, Lists, List
  <1>4. Others'
    BY <1>1 DEF Inv, Others
  <1>5. Searched'
    BY <1>1 DEF Inv, Searched
  <1>6. Expanding'
    BY <1>1, SameNear DEF Inv, Expanding, Found
  <1>7. Answering'
    BY <1>1 DEF Inv, Answering
  <1> QED
    BY <1>3, <1>4, <1>5, <1>6, <1>7 DEF Inv

LEMMA NextInv == Inv /\ [RetrievalNext]_retrievalVars => Inv'
  <1> SUFFICES ASSUME Inv, [RetrievalNext]_retrievalVars PROVE Inv'
    OBVIOUS
  <1>1. CASE RetrievalNext
    BY <1>1, SearchDocsInv, FuseDocsInv, SearchCodeInv, ExpandEntryInv, ExpandFailsInv, MergeInv, PromptInv
    DEF RetrievalNext
  <1>2. CASE UNCHANGED retrievalVars
    BY <1>2, SameNear DEF retrievalVars, Inv, Lists, List, Others, Searched, Expanding, Found, Answering
  <1> QED
    BY <1>1, <1>2

-----------------------------------------------------------------------------

\* Queries keep the invariant.
THEOREM Invariance == RetrievalSpec => []Inv
  BY InitInv, NextInv, PTL DEF RetrievalSpec

\* No list of handleQuery, of RRF or of ExpandCodeGraph has an item twice, and
\* the cursor of the expansion stays within the entry points.
THEOREM TypeCorrect == RetrievalSpec => []RetrievalTypeOK
  <1>1. ASSUME Inv PROVE RetrievalTypeOK
    <2>1. \A S \in {Docs, Nodes} : \A list : List(S, list) => Len(list) <= MaxRank
      BY ShortLists DEF List
    <2>2. \A list \in {dense, sparse, docResults, expanded} : Len(list) <= MaxRank
      BY <1>1, <2>1 DEF Inv, Lists
    <2>3. \A list \in {dense, sparse, docResults, entries, expanded, merged, context} : IsInjective(list)
      BY <1>1 DEF Inv, Lists, List
    <2> QED
      BY <1>1, <2>2, <2>3 DEF Inv, Lists, List, Others, RetrievalTypeOK
  <1> QED
    BY <1>1, Invariance, PTL

\* A chunk that both searches find comes before every chunk that only one of
\* them finds, whenever the searches return at most rrfK + 1 rows: the code's
\* limit is 10, its k is 60.
THEOREM Agreement == ASSUME TopK <= rrfK + 1 PROVE RetrievalSpec => []AgreementWins
  <1>1. ASSUME Inv PROVE AgreementWins
    <2>1. SUFFICES ASSUME step \in {"code", "merge"},
                          NEW i \in DOMAIN docResults, NEW j \in DOMAIN docResults,
                          Contains(dense, docResults[i]) /\ Contains(sparse, docResults[i]),
                          ~(Contains(dense, docResults[j]) /\ Contains(sparse, docResults[j]))
                   PROVE  i < j
      BY DEF AgreementWins
    <2>2. /\ dense \in Seq(Docs) /\ sparse \in Seq(Docs) /\ IsInjective(dense) /\ IsInjective(sparse)
          /\ Len(dense) <= TopK /\ Len(sparse) <= TopK
      BY <1>1 DEF Inv, Lists, List, Searched
    <2>3. /\ \A x : Contains(dense, x) <=> x \in ToSet(dense)
          /\ \A x : Contains(sparse, x) <=> x \in ToSet(sparse)
      BY <2>2 DEF Contains, ToSet
    <2>4. dense # <<>>
      BY <2>1, <2>3, EmptyList
    <2>5. PICK order \in Orders : docResults = RRF(<<dense, sparse>>, order)
      BY <1>1, <2>1, <2>4 DEF Inv, Searched
    <2>6. Fusion(docResults, dense, sparse, order)
      BY <1>1, <2>5, FusedLists DEF Inv, Lists
    <2> QED
      BY <2>1, <2>2, <2>3, <2>6, BothFirst
  <1> QED
    BY <1>1, Invariance, PTL

\* The first 2k results are the first k documents and the first k of the code,
\* however long the two lists that handleQuery merges are.
THEOREM Sharing == RetrievalSpec => []SourcesShareTop
  <1>1. ASSUME Inv PROVE SourcesShareTop
    <2>1. SUFFICES ASSUME step \in {"prompt", "done"}, NEW k \in 0 .. Len(merged),
                          k <= Len(docResults) /\ k <= Len(expanded)
                   PROVE  Top(merged, 2 * k) = Top(docResults, k) \cup Top(expanded, k)
      BY DEF SourcesShareTop
    <2>2. PICK order \in Orders : merged = RRF(<<docResults, expanded>>, order)
      BY <1>1, <2>1 DEF Inv, Answering
    <2>3. Fusion(merged, docResults, expanded, order)
      BY <1>1, <2>2, FusedLists DEF Inv, Lists
    <2>4. k \in Nat
      BY <1>1 DEF Inv, Lists, List
    <2> QED
      BY <1>1, <2>1, <2>3, <2>4, TopShared DEF Inv, Lists, List
  <1> QED
    BY <1>1, Invariance, PTL

\* What is within so many hops along calls is around, and within more hops.
LEMMA NearIsAround ==
    ASSUME depth \in Nat, NEW x
    PROVE  /\ Within(graph, x, depth) \subseteq Near(x)
           /\ depth # 0 => Near(x) \subseteq Around(x, depth)
  <1>1. 1 .. 0 = {}
    OBVIOUS
  <1>2. Within(graph, x, depth) \subseteq Near(x)
    BY <1>1 DEF Near, Within
  <1>3. ASSUME depth # 0 PROVE Near(x) \subseteq Around(x, depth)
    <2> DEFINE both == graph \cup {<<e[2], e[1]>> : e \in graph}
    <2>1. Near(x) = Within(graph, x, depth)
      BY <1>3 DEF Near
    <2>2. graph \subseteq both
      OBVIOUS
    <2> HIDE DEF both
    <2>3. Within(graph, x, depth) \subseteq Within(both, x, depth)
      BY <2>2 DEF Within
    <2> QED
      BY <2>1, <2>3 DEF Around, both
  <1> QED
    BY <1>2, <1>3

\* ExpandCodeGraph returns every entry point, what the first one calls within
\* the depth unless it failed, and nothing further than a depth of a hop or
\* more from all of them.
THEOREM Expansion == RetrievalSpec => []ExpansionIsSound
  <1>1. ASSUME Inv PROVE ExpansionIsSound
    <2>1. depth \in Nat
      BY <1>1, RetrievalAssumption DEF Inv, Others
    <2>2. SUFFICES ASSUME step = "merge", entries # <<>>
                   PROVE  /\ ToSet(entries) \subseteq ToSet(expanded)
                          /\ ~failed => Within(graph, entries[1], depth) \subseteq ToSet(expanded)
                          /\ depth # 0 => ToSet(expanded) \subseteq
                                ToSet(entries) \cup UNION {Around(x, depth) : x \in ToSet(entries)}
      BY DEF ExpansionIsSound
    <2>3. /\ ToSet(entries) \subseteq ToSet(expanded)
          /\ ~failed => Near(entries[1]) \subseteq ToSet(expanded)
          /\ ToSet(expanded) \subseteq ToSet(entries) \cup UNION {Near(x) : x \in ToSet(entries)}
      BY <1>1, <2>2 DEF Inv, Expanding, Found
    <2>4. /\ Within(graph, entries[1], depth) \subseteq Near(entries[1])
          /\ depth # 0 => \A x \in ToSet(entries) : Near(x) \subseteq Around(x, depth)
      BY <2>1, NearIsAround
    <2> QED
      BY <2>3, <2>4
  <1> QED
    BY <1>1, Invariance, PTL

\* The prompt is the longest beginning of the results that fits into it.
THEOREM Prompting == RetrievalSpec => []ContextFits
  <1>1. ASSUME Inv PROVE ContextFits
    <2>1. SUFFICES ASSUME step = "done"
                   PROVE  /\ IsPrefix(context, merged)
                          /\ \A list \in Prefixes(merged) :
                                Cardinality(PromptRunes(list)) <= MaxRunes <=> IsPrefix(list, context)
      BY DEF ContextFits
    <2>2. merged \in Seq(Items) /\ context = BuildContext(merged)
      BY <1>1, <2>1 DEF Inv, Lists, List, Answering
    <2>3. PICK m \in 0 .. Len(merged) : context = SubSeq(merged, 1, m)
      BY <2>2, ContextIsLongest
    <2>4. IsPrefix(context, merged)
      <3>1. Len(context) = m /\ m <= Len(merged)
        BY <2>2, <2>3
      <3>2. SubSeq(context, 1, m) = context
        BY <2>2, <2>3
      <3> QED
        BY <2>3, <3>1, <3>2 DEF IsPrefix
    <2> QED
      BY <2>2, <2>4, ContextIsLongest
  <1> QED
    BY <1>1, Invariance, PTL
=============================================================================
