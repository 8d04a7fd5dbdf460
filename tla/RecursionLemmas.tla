-------------------------- MODULE RecursionLemmas --------------------------
(***************************************************************************)
(* Induction without a parameter: what is true of all numbers is stated of *)
(* a set of numbers.  From it follow that a loop which carries a state of  *)
(* a known type through its rounds has a run, and what Select returns.     *)
(***************************************************************************)
EXTENDS Selection, FiniteSetsExt, TLAPS, WellFoundedInduction, SequenceTheorems

LEMMA Least == ASSUME NEW T, T \subseteq Nat, T # {} PROVE \E n \in T : \A m \in T : n <= m
  <1> DEFINE R == OpToRel(<, Nat)
  <1>1. \A m, n \in Nat : <<m, n>> \in R <=> m < n
    BY DEF OpToRel
  <1>2. IsWellFoundedOn(R, Nat)
    BY NatLessThanWellFounded
  <1> HIDE DEF R
  <1>3. PICK n \in T : \A m \in T : ~(<<m, n>> \in R)
    BY <1>2, WFMin
  <1>4. \A m \in T : m \in Nat /\ n \in Nat /\ ~(m < n)
    BY <1>1, <1>3
  <1> QED
    BY <1>4

LEMMA LeastOf ==
    ASSUME NEW T, T \subseteq Nat, T # {}
    PROVE  Min(T) \in T /\ \A m \in T : Min(T) <= m
  <1>1. \E n \in T : \A m \in T : n <= m
    BY Least
  <1> QED
    BY <1>1 DEF Min

LEMMA GreatestOf ==
    ASSUME NEW N \in Nat, NEW T, T \subseteq 0 .. N, T # {}
    PROVE  Max(T) \in T /\ \A m \in T : m <= Max(T)
  <1> DEFINE C == {N - m : m \in T}
  <1>1. C \subseteq Nat /\ C # {}
    <2>1. \A m \in T : N - m \in Nat
      OBVIOUS
    <2>2. PICK m \in T : TRUE
      OBVIOUS
    <2>3. N - m \in C
      OBVIOUS
    <2> QED
      BY <2>1, <2>3
  <1>2. PICK c \in C : \A d \in C : c <= d
    <2> HIDE DEF C
    <2> QED
      BY <1>1, Least
  <1>3. PICK n \in T : c = N - n
    OBVIOUS
  <1>4. ASSUME NEW m \in T PROVE n >= m
    <2>1. N - n <= N - m
      BY <1>2, <1>3
    <2>2. m \in Nat /\ n \in Nat
      OBVIOUS
    <2> QED
      BY <2>1, <2>2
  <1>5. Max(T) \in T /\ \A m \in T : Max(T) >= m
    BY <1>4 DEF Max
  <1>6. \A m \in T : m \in Nat
    OBVIOUS
  <1> QED
    BY <1>5, <1>6

LEMMA Induct ==
    ASSUME NEW N \in Nat, NEW T, 0 \in T, \A i \in 1 .. N : i - 1 \in T => i \in T
    PROVE  0 .. N \subseteq T
  <1> DEFINE D == (0 .. N) \ T
  <1> SUFFICES ASSUME D # {} PROVE FALSE
    OBVIOUS
  <1>1. PICK n \in D : \A m \in D : n <= m
    <2>1. D \subseteq Nat
      OBVIOUS
    <2> HIDE DEF D
    <2> QED
      BY <2>1, Least
  <1>2. n \in 1 .. N /\ n - 1 \in 0 .. N /\ ~(n <= n - 1)
    OBVIOUS
  <1>3. n - 1 \in T
    BY <1>1, <1>2
  <1> QED
    BY <1>2, <1>3

\* f is the state before the first and after each of N rounds, and G[i] what
\* round i makes of a state.
Run(f, S, s0, N, G) ==
    /\ f \in [0 .. N -> S]
    /\ f[0] = s0
    /\ \A i \in 1 .. N : f[i] = G[i][f[i - 1]]

\* A loop over N rounds has a run.
LEMMA LoopRuns ==
    ASSUME NEW S, NEW s0 \in S, NEW N \in Nat, NEW G \in [1 .. N -> [S -> S]]
    PROVE  \E f : Run(f, S, s0, N, G)
  <1> DEFINE T == {n \in 0 .. N : \E f : Run(f, S, s0, n, G)}
  <1>1. 0 \in T
    <2> DEFINE f == [i \in 0 .. 0 |-> s0]
    <2>1. Run(f, S, s0, 0, G) /\ 0 \in 0 .. N
      BY DEF Run
    <2> HIDE DEF f
    <2> QED
      BY <2>1
  <1>2. ASSUME NEW n \in 1 .. N, n - 1 \in T PROVE n \in T
    <2>1. PICK f : Run(f, S, s0, n - 1, G)
      BY <1>2
    <2>2. f \in [0 .. n - 1 -> S] /\ f[0] = s0 /\ \A i \in 1 .. n - 1 : f[i] = G[i][f[i - 1]]
      BY <2>1 DEF Run
    <2> DEFINE g == [i \in 0 .. n |-> IF i = n THEN G[n][f[n - 1]] ELSE f[i]]
    <2>3. n \in Nat \ {0} /\ n - 1 \in 0 .. n - 1 /\ \A i \in 0 .. n : i = n \/ i \in 0 .. n - 1
      OBVIOUS
    <2>4. G[n][f[n - 1]] \in S
      BY <2>2, <2>3
    <2>5. g \in [0 .. n -> S]
      BY <2>2, <2>3, <2>4
    <2>6. g[0] = s0
      BY <2>2, <2>3
    <2>7. ASSUME NEW i \in 1 .. n PROVE g[i] = G[i][g[i - 1]]
      <3>1. i \in 0 .. n /\ i - 1 \in 0 .. n /\ i - 1 # n /\ g[i - 1] = f[i - 1]
        BY <2>3
      <3>2. CASE i = n
        BY <3>1, <3>2
      <3>3. CASE i # n
        <4>1. i \in 1 .. n - 1
          BY <3>3
        <4> QED
          BY <2>2, <3>1, <3>3, <4>1
      <3> QED
        BY <3>2, <3>3
    <2> HIDE DEF g
    <2>8. Run(g, S, s0, n, G)
      BY <2>5, <2>6, <2>7 DEF Run
    <2> QED
      BY <2>8
  <1> HIDE DEF T
  <1>3. N \in T
    <2>1. 0 .. N \subseteq T
      BY <1>1, <1>2, Induct
    <2> QED
      BY <2>1
  <1> QED
    BY <1>3 DEF T

-----------------------------------------------------------------------------
\* Select

\* After i rounds: the kept elements so far, by their places.
Kept(s, S, i, r, at) ==
    /\ at \in [1 .. Len(r) -> 1 .. i]
    /\ \A k \in 1 .. Len(r) : r[k] = s[at[k]] /\ s[at[k]] \in S
    /\ \A j, k \in 1 .. Len(r) : j < k => at[j] < at[k]
    /\ \A h \in 1 .. i : s[h] \in S => \E k \in 1 .. Len(r) : at[k] = h

\* The rounds of Select.
Rounds(kept, T, s, S) ==
    /\ kept \in [0 .. Len(s) -> Seq(T)]
    /\ kept[0] = <<>>
    /\ \A i \in 1 .. Len(s) :
           kept[i] = IF s[i] \in S THEN Append(kept[i - 1], s[i]) ELSE kept[i - 1]
    /\ Select(s, S) = kept[Len(s)]

LEMMA SelectRounds ==
    ASSUME NEW T, NEW s \in Seq(T), NEW S PROVE \E kept : Rounds(kept, T, s, S)
  <1> DEFINE N == Len(s)
             G == [i \in 1 .. N |-> [r \in Seq(T) |-> IF s[i] \in S THEN Append(r, s[i]) ELSE r]]
             Step(f) == [i \in 0 .. N |->
                            IF i = 0 THEN <<>>
                            ELSE IF s[i] \in S THEN Append(f[i - 1], s[i]) ELSE f[i - 1]]
             kept == CHOOSE f : f = Step(f)
  <1>1. N \in Nat /\ \A i \in 1 .. N : s[i] \in T
    OBVIOUS
  <1>2. G \in [1 .. N -> [Seq(T) -> Seq(T)]]
    BY <1>1
  <1>3. PICK f : Run(f, Seq(T), <<>>, N, G)
    <2>1. <<>> \in Seq(T)
      OBVIOUS
    <2> HIDE DEF G, N
    <2> QED
      BY <1>1, <1>2, <2>1, LoopRuns
  <1>4. \A i \in 0 .. N : i = 0 \/ (i \in 1 .. N /\ i - 1 \in 0 .. N)
    BY <1>1
  <1>5. f = Step(f)
    BY <1>3, <1>4 DEF Run
  <1>6. kept = Step(kept)
    BY <1>5
  <1>7. Select(s, S) = kept[N]
    BY DEF Select
  <1> HIDE DEF kept
  <1>8. DOMAIN kept = 0 .. N /\ kept[0] = <<>>
    BY <1>6, <1>1
  <1>c. \A i \in 1 .. N : i - 1 \in 0 .. N /\ i \in 0 .. N /\ i # 0
    BY <1>1
  <1> HIDE DEF N
  <1>9. ASSUME NEW i \in 1 .. N
        PROVE  kept[i] = IF s[i] \in S THEN Append(kept[i - 1], s[i]) ELSE kept[i - 1]
    <2>1. kept[i] = Step(kept)[i]
      BY <1>6
    <2> HIDE <1>6
    <2> QED
      BY <2>1, <1>c
  <1>10. kept \in [0 .. N -> Seq(T)]
    <2> DEFINE A == {i \in 0 .. N : kept[i] \in Seq(T)}
    <2>1. 0 \in A
      BY <1>8, <1>1
    <2>2. ASSUME NEW i \in 1 .. N, i - 1 \in A PROVE i \in A
      <3>1. kept[i - 1] \in Seq(T) /\ s[i] \in T
        BY <1>1, <2>2 DEF N
      <3>2. kept[i] \in {kept[i - 1], Append(kept[i - 1], s[i])}
        BY <1>9
      <3>3. Append(kept[i - 1], s[i]) \in Seq(T)
        BY <3>1
      <3> QED
        BY <3>1, <3>2, <3>3, <1>c
    <2> HIDE DEF A
    <2>3. 0 .. N \subseteq A
      BY <1>1, <2>1, <2>2, Induct
    <2>4. kept = [i \in 0 .. N |-> kept[i]]
      BY <1>6
    <2> QED
      BY <2>3, <2>4 DEF A
  <1> QED
    BY <1>7, <1>8, <1>9, <1>10 DEF Rounds, N

\* What is kept is all there is of S in s, in its order.
LEMMA SelectKeeps ==
    ASSUME NEW T, NEW s \in Seq(T), NEW S
    PROVE  /\ Select(s, S) \in Seq(T)
           /\ \E at : Kept(s, S, Len(s), Select(s, S), at)
  <1>0. PICK kept : Rounds(kept, T, s, S)
    BY SelectRounds
  <1>1. /\ kept \in [0 .. Len(s) -> Seq(T)] /\ kept[0] = <<>>
        /\ \A i \in 1 .. Len(s) :
               kept[i] = IF s[i] \in S THEN Append(kept[i - 1], s[i]) ELSE kept[i - 1]
        /\ Select(s, S) = kept[Len(s)]
    BY <1>0 DEF Rounds
  <1>n. Len(s) \in Nat /\ \A i \in 1 .. Len(s) : s[i] \in T
    OBVIOUS
  <1> DEFINE A == {i \in 0 .. Len(s) : \E at : Kept(s, S, i, kept[i], at)}
  <1>2. 0 \in A
    <2>1. Kept(s, S, 0, <<>>, <<>>)
      BY DEF Kept
    <2> QED
      BY <1>1, <1>n, <2>1
  <1>3. ASSUME NEW i \in 1 .. Len(s), i - 1 \in A PROVE i \in A
    <2> DEFINE r == kept[i - 1]
    <2>1. PICK at : Kept(s, S, i - 1, r, at)
      BY <1>3
    <2>r. i - 1 \in 0 .. Len(s)
      BY <1>n
    <2>2. r \in Seq(T) /\ Len(r) \in Nat /\ i \in Nat \ {0} /\ i - 1 \in Nat
      BY <1>1, <1>n, <2>r
    <2>3. CASE s[i] \notin S
      <3>1. kept[i] = r
        BY <1>1, <2>3
      <3>2. \A h \in 1 .. i : h \in 1 .. i - 1 \/ h = i
        BY <2>2
      <3>3. 1 .. i - 1 \subseteq 1 .. i
        BY <2>2
      <3> HIDE DEF r
      <3>4. Kept(s, S, i, r, at)
        BY <2>1, <2>3, <3>2, <3>3 DEF Kept
      <3> QED
        BY <3>1, <3>4
    <2>4. CASE s[i] \in S
      <3>1. kept[i] = Append(r, s[i])
        BY <1>1, <2>4
      <3> HIDE DEF r
      <3> DEFINE q == Append(r, s[i])
                 n == Len(r) + 1
                 to == [k \in 1 .. n |-> IF k = n THEN i ELSE at[k]]
      <3>2. Len(q) = n /\ q[n] = s[i] /\ \A k \in 1 .. Len(r) : q[k] = r[k]
        BY <2>2, <1>n
      <3>3. \A k \in 1 .. n : k = n \/ k \in 1 .. Len(r)
        BY <2>2
      <3>4. n \in 1 .. n /\ \A k \in 1 .. Len(r) : k \in 1 .. n /\ k # n /\ k < n
        BY <2>2
      <3>5. at \in [1 .. Len(r) -> 1 .. i - 1]
        BY <2>1 DEF Kept
      <3>6. to[n] = i /\ \A k \in 1 .. Len(r) : to[k] = at[k]
        BY <3>4
      <3>7. \A h \in 1 .. i - 1 : h \in 1 .. i /\ h < i
        BY <2>2
      <3>8. to \in [1 .. n -> 1 .. i]
        BY <3>3, <3>5, <3>7, <2>2
      <3>9. \A h \in 1 .. i : h \in 1 .. i - 1 \/ h = i
        BY <2>2
      <3> HIDE DEF q, n, to
      <3>10. \A k \in 1 .. n : q[k] = s[to[k]] /\ s[to[k]] \in S
        BY <2>1, <2>4, <3>2, <3>3, <3>6 DEF Kept
      <3>11. ASSUME NEW j \in 1 .. n, NEW k \in 1 .. n, j < k PROVE to[j] < to[k]
        <4>1. j \in 1 .. Len(r)
          BY <3>3, <3>4, <3>11, <2>2 DEF n
        <4>2. CASE k \in 1 .. Len(r)
          BY <2>1, <3>6, <3>11, <4>1, <4>2 DEF Kept
        <4>3. CASE k = n
          BY <3>5, <3>6, <3>7, <4>1, <4>3
        <4> QED
          BY <3>3, <4>2, <4>3
      <3>12. ASSUME NEW h \in 1 .. i, s[h] \in S PROVE \E k \in 1 .. n : to[k] = h
        <4>1. CASE h \in 1 .. i - 1
          <5>1. PICK k \in 1 .. Len(r) : at[k] = h
            BY <2>1, <3>12, <4>1 DEF Kept
          <5> QED
            BY <3>4, <3>6, <5>1
        <4>2. CASE h = i
          BY <3>4, <3>6, <4>2
        <4> QED
          BY <3>9, <4>1, <4>2
      <3>13. Kept(s, S, i, q, to)
        BY <3>2, <3>8, <3>10, <3>11, <3>12 DEF Kept
      <3>14. kept[i] = q
        BY <3>1 DEF q
      <3> QED
        BY <3>13, <3>14
    <2> QED
      BY <2>3, <2>4
  <1>4. 0 .. Len(s) \subseteq A
    <2> HIDE DEF A
    <2> QED
      BY <1>2, <1>3, <1>n, Induct
  <1>5. Len(s) \in 0 .. Len(s)
    BY <1>n
  <1> QED
    BY <1>1, <1>4, <1>5
=============================================================================
