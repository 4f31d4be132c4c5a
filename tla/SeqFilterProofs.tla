--------------------------- MODULE SeqFilterProofs ---------------------------
(***************************************************************************)
(* What Keep does to a sequence of any length: the increasing enumeration  *)
(* InOrder chooses exists, so the result is a sequence of exactly the      *)
(* entries at the kept positions, in their old order.  And what Total does *)
(* when an entry joins, leaves or has no size.                             *)
(***************************************************************************)
EXTENDS SeqFilter, FiniteSetTheorems, WellFoundedInduction, TLAPS

\* Induction on a set of numbers, from the least element outside it.
LEMMA NatSetInduction ==
  ASSUME NEW S, 0 \in S, \A n \in Nat : n \in S => n + 1 \in S
  PROVE  Nat \subseteq S
<1> SUFFICES ASSUME Nat \ S # {} PROVE FALSE
  OBVIOUS
<1>1. PICK x \in Nat \ S : \A y \in Nat \ S : ~(<<y, x>> \in OpToRel(<, Nat))
  BY WFMin, NatLessThanWellFounded
<1>2. \A y \in Nat \ S : ~(y < x)
  BY <1>1 DEF OpToRel
<1>3. x # 0 /\ x - 1 \in Nat
  OBVIOUS
<1>4. x - 1 \in S
  BY <1>2, <1>3
<1> QED
  BY <1>3, <1>4

\* Some function enumerates I in increasing order.
Enumerable(I) ==
  /\ IsFiniteSet(I) /\ Cardinality(I) \in Nat
  /\ \E f \in [1..Cardinality(I) -> I] :
       Increasing(f, Cardinality(I)) /\ Covers(f, Cardinality(I), I)

LEMMA EnumerableStep ==
  ASSUME NEW n \in Nat, NEW I \in SUBSET (1 .. n + 1), n + 1 \in I,
         Enumerable(I \ {n + 1})
  PROVE  Enumerable(I)
<1> DEFINE J == I \ {n + 1}
           c == Cardinality(J)
<1>1. IsFiniteSet(I) /\ Cardinality(I) = c + 1 /\ c \in Nat
  <2>1. IsFiniteSet(J) /\ c \in Nat
    BY DEF Enumerable
  <2>2. I = J \cup {n + 1} /\ n + 1 \notin J
    OBVIOUS
  <2> HIDE DEF J
  <2>3. IsFiniteSet(J \cup {n + 1}) /\ Cardinality(J \cup {n + 1}) = c + 1
    BY <2>1, <2>2, FS_AddElement
  <2> QED
    BY <2>1, <2>2, <2>3
<1>2. PICK f \in [1..c -> J] : Increasing(f, c) /\ Covers(f, c, J)
  BY DEF Enumerable
<1> HIDE DEF c
<1> DEFINE g == [a \in 1 .. c + 1 |-> IF a = c + 1 THEN n + 1 ELSE f[a]]
<1>3. \A a \in 1..c : a \in 1 .. c + 1 /\ g[a] = f[a] /\ f[a] \in J
  BY <1>1, <1>2
<1>4. g[c + 1] = n + 1
  BY <1>1
<1>5. g \in [1 .. c + 1 -> I]
  BY <1>1, <1>2
<1>6. Increasing(g, c + 1)
  <2> SUFFICES ASSUME NEW a \in 1 .. c + 1, NEW b \in 1 .. c + 1, a < b
               PROVE  g[a] < g[b]
    BY DEF Increasing
  <2>1. a \in 1..c
    BY <1>1
  <2>2. CASE b \in 1..c
    <3>1. f[a] < f[b]
      BY <1>2, <2>1, <2>2 DEF Increasing
    <3> QED
      BY <1>3, <2>1, <2>2, <3>1
  <2>3. CASE b = c + 1
    <3>1. g[a] \in J
      BY <1>3, <2>1
    <3>2. \A x \in J : x \in 1..n
      OBVIOUS
    <3> HIDE DEF g, J
    <3> QED
      BY <1>4, <2>3, <3>1, <3>2
  <2> QED
    BY <1>1, <2>2, <2>3
<1>7. Covers(g, c + 1, I)
  <2> SUFFICES ASSUME NEW i \in I PROVE \E a \in 1 .. c + 1 : g[a] = i
    BY DEF Covers
  <2>1. CASE i = n + 1
    BY <1>1, <1>4, <2>1
  <2>2. CASE i # n + 1
    <3>1. PICK a \in 1..c : f[a] = i
      BY <1>2, <2>2 DEF Covers
    <3> QED
      BY <1>3, <3>1
  <2> QED
    BY <2>1, <2>2
<1> HIDE DEF g
<1> QED
  BY <1>1, <1>5, <1>6, <1>7 DEF Enumerable

LEMMA PositionsEnumerable ==
  ASSUME NEW n \in Nat, NEW I \in SUBSET (1..n)
  PROVE  Enumerable(I)
<1> DEFINE S == {m \in Nat : \A K \in SUBSET (1..m) : Enumerable(K)}
<1>1. 0 \in S
  <2> SUFFICES ASSUME NEW K \in SUBSET (1..0) PROVE Enumerable(K)
    OBVIOUS
  <2>1. K = {}
    OBVIOUS
  <2>2. IsFiniteSet({}) /\ Cardinality({}) = 0
    BY FS_EmptySet
  <2> DEFINE e == [a \in 1..0 |-> a]
  <2>3. e \in [1..0 -> {}] /\ Increasing(e, 0) /\ Covers(e, 0, {})
    BY DEF Increasing, Covers
  <2> HIDE DEF e
  <2>4. Cardinality(K) = 0 /\ IsFiniteSet(K)
    BY <2>1, <2>2
  <2>5. e \in [1..Cardinality(K) -> K] /\ Increasing(e, Cardinality(K))
        /\ Covers(e, Cardinality(K), K)
    BY ONLY <2>1, <2>3, <2>4, Zenon
  <2>6. Cardinality(K) \in Nat
    BY <2>4
  <2> QED
    BY <2>4, <2>5, <2>6, Zenon DEF Enumerable
<1>2. ASSUME NEW m \in Nat, m \in S PROVE m + 1 \in S
  <2> SUFFICES ASSUME NEW K \in SUBSET (1 .. m + 1) PROVE Enumerable(K)
    OBVIOUS
  <2>1. CASE m + 1 \in K
    <3>1. K \ {m + 1} \in SUBSET (1..m)
      OBVIOUS
    <3>2. Enumerable(K \ {m + 1})
      BY <1>2, <3>1
    <3> QED
      BY <2>1, <3>2, EnumerableStep
  <2>2. CASE m + 1 \notin K
    <3>1. K \in SUBSET (1..m)
      BY <2>2
    <3> QED
      BY <1>2, <3>1
  <2> QED
    BY <2>1, <2>2
<1> HIDE DEF S
<1>3. Nat \subseteq S
  BY <1>1, <1>2, NatSetInduction
<1> QED
  BY <1>3 DEF S

\* Keep returns a sequence over the same values, whose entries are exactly the
\* ones at the kept positions, in order: what on_tick() and
\* drop_pending_frames() leave in their queues.
THEOREM KeepCorrect ==
  ASSUME NEW S, NEW q \in Seq(S), NEW I \in SUBSET (1..Len(q))
  PROVE  /\ Keep(q, I) \in Seq(S) /\ Len(Keep(q, I)) = Cardinality(I)
         /\ \A j \in 1..Len(Keep(q, I)) :
              InOrder(I)[j] \in I /\ Keep(q, I)[j] = q[InOrder(I)[j]]
         /\ \A i \in I : \E j \in 1..Len(Keep(q, I)) :
              InOrder(I)[j] = i /\ Keep(q, I)[j] = q[i]
         /\ \A a, b \in 1..Len(Keep(q, I)) : a < b => InOrder(I)[a] < InOrder(I)[b]
<1> DEFINE c == Cardinality(I)
           f == InOrder(I)
<1>1. Enumerable(I)
  <2>1. Len(q) \in Nat
    OBVIOUS
  <2> QED
    BY <2>1, PositionsEnumerable
<1>2. c \in Nat /\ f \in [1..c -> I] /\ Increasing(f, c) /\ Covers(f, c, I)
  BY <1>1 DEF Enumerable, InOrder
<1>3. Keep(q, I) = [j \in 1..c |-> q[f[j]]]
  BY DEF Keep
<1> HIDE DEF c, f
<1>4. \A j \in 1..c : f[j] \in I /\ q[f[j]] \in S
  <2>1. \A i \in I : i \in 1..Len(q) /\ q[i] \in S
    OBVIOUS
  <2> QED
    BY <1>2, <2>1
<1>5. Keep(q, I) \in Seq(S) /\ Len(Keep(q, I)) = c
  BY <1>2, <1>3, <1>4
<1>6. \A j \in 1..c : f[j] \in I /\ Keep(q, I)[j] = q[f[j]]
  BY <1>3, <1>4
<1>7. \A i \in I : \E j \in 1..c : f[j] = i /\ Keep(q, I)[j] = q[i]
  BY <1>2, <1>6 DEF Covers
<1>8. \A a, b \in 1..c : a < b => f[a] < f[b]
  BY <1>2 DEF Increasing
<1> QED
  BY <1>5, <1>6, <1>7, <1>8 DEF c, f

-----------------------------------------------------------------------------
\* The partial sums exist: the recursion defines them.
LEMMA PartialSumsDef ==
  ASSUME NEW w \in Seq(Int)
  PROVE  /\ PartialSums(w) \in [0..Len(w) -> Int]
         /\ PartialSums(w)[0] = 0
         /\ \A i \in 1..Len(w) : PartialSums(w)[i] = PartialSums(w)[i - 1] + w[i]
<1> DEFINE Sums(f, n) == \A i \in 0..n : f[i] = IF i = 0 THEN 0 ELSE f[i - 1] + w[i]
           Summed(n) == \E f \in [0..n -> Int] : Sums(f, n)
           S == {n \in Nat : n <= Len(w) => Summed(n)}
<1>1. 0 \in S
  <2>1. [i \in 0..0 |-> 0] \in [0..0 -> Int] /\ Sums([i \in 0..0 |-> 0], 0)
    OBVIOUS
  <2> QED
    BY <2>1
<1>2. ASSUME NEW n \in Nat, n \in S PROVE n + 1 \in S
  <2> SUFFICES ASSUME n + 1 <= Len(w), Summed(n) PROVE Summed(n + 1)
    <3> HIDE DEF Summed
    <3> QED
      BY <1>2
  <2>1. PICK f \in [0..n -> Int] : Sums(f, n)
    OBVIOUS
  <2>2. w[n + 1] \in Int
    OBVIOUS
  <2> DEFINE g == [i \in 0..n + 1 |-> IF i <= n THEN f[i] ELSE f[n] + w[n + 1]]
  <2>3. g \in [0..n + 1 -> Int]
    BY <2>2
  <2>4. Sums(g, n + 1)
    <3> SUFFICES ASSUME NEW i \in 0..n + 1
                 PROVE  g[i] = IF i = 0 THEN 0 ELSE g[i - 1] + w[i]
      OBVIOUS
    <3>1. CASE i <= n
      BY <2>1, <3>1
    <3>2. CASE i = n + 1
      BY <3>2
    <3> QED
      BY <3>1, <3>2
  <2> QED
    BY <2>3, <2>4
<1> HIDE DEF Summed
<1>3. Len(w) \in S
  <2> HIDE DEF S
  <2> QED
    BY <1>1, <1>2, NatSetInduction
<1>4. PICK f \in [0..Len(w) -> Int] : Sums(f, Len(w))
  BY <1>3 DEF Summed
<1>5. f = [i \in 0..Len(w) |-> IF i = 0 THEN 0 ELSE f[i - 1] + w[i]]
  BY <1>4
<1>6. PartialSums(w) = [i \in 0..Len(w) |-> IF i = 0 THEN 0 ELSE PartialSums(w)[i - 1] + w[i]]
  BY <1>5 DEF PartialSums
<1> DEFINE P == PartialSums(w)
<1> HIDE DEF P
<1>7. P = [i \in 0..Len(w) |-> IF i = 0 THEN 0 ELSE P[i - 1] + w[i]]
  BY <1>6 DEF P
<1>8. P[0] = 0 /\ \A i \in 1..Len(w) : P[i] = P[i - 1] + w[i]
  <2>1. \A i \in 0..Len(w) : P[i] = IF i = 0 THEN 0 ELSE P[i - 1] + w[i]
    BY <1>7, Zenon
  <2> QED
    BY <2>1
<1> DEFINE T == {n \in Nat : n <= Len(w) => P[n] \in Int}
<1>9. 0 \in T
  BY <1>8
<1>10. ASSUME NEW n \in Nat, n \in T PROVE n + 1 \in T
  BY <1>8, <1>10
<1>11. Nat \subseteq T
  <2> HIDE DEF T
  <2> QED
    BY <1>9, <1>10, NatSetInduction
<1>12. P \in [0..Len(w) -> Int]
  BY <1>7, <1>11
<1> QED
  BY <1>8, <1>12 DEF P

\* The sum is a number.
LEMMA TotalInt ==
  ASSUME NEW w \in Seq(Int)
  PROVE  Total(w) \in Int
  BY PartialSumsDef DEF Total

\* An entry behind adds its size.
LEMMA TotalAppend ==
  ASSUME NEW w \in Seq(Int), NEW x \in Int
  PROVE  Total(Append(w, x)) = Total(w) + x
<1> DEFINE v == Append(w, x)
           P == PartialSums(v)
           Q == PartialSums(w)
<1>1. /\ v \in Seq(Int) /\ Len(v) = Len(w) + 1 /\ v[Len(w) + 1] = x
      /\ Len(w) \in Nat /\ \A i \in 1..Len(w) : v[i] = w[i]
  OBVIOUS
<1> HIDE DEF v
<1>2. P[0] = 0 /\ \A i \in 1..Len(v) : P[i] = P[i - 1] + v[i]
  BY <1>1, PartialSumsDef
<1>3. Q \in [0..Len(w) -> Int] /\ Q[0] = 0 /\ \A i \in 1..Len(w) : Q[i] = Q[i - 1] + w[i]
  BY PartialSumsDef
<1> HIDE DEF P, Q
<1> DEFINE S == {n \in Nat : n <= Len(w) => P[n] = Q[n]}
<1>4. 0 \in S
  BY <1>2, <1>3
<1>5. ASSUME NEW n \in Nat, n \in S PROVE n + 1 \in S
  BY <1>1, <1>2, <1>3, <1>5
<1>6. Nat \subseteq S
  <2> HIDE DEF S
  <2> QED
    BY <1>4, <1>5, NatSetInduction
<1>7. P[Len(w)] = Q[Len(w)] /\ P[Len(v)] = P[Len(w)] + x
  BY <1>1, <1>2, <1>6
<1> QED
  BY <1>7 DEF Total, v, P, Q

\* Taking the head subtracts its size.
LEMMA TotalTail ==
  ASSUME NEW w \in Seq(Int), w # <<>>
  PROVE  Total(Tail(w)) = Total(w) - Head(w)
<1> DEFINE v == Tail(w)
           P == PartialSums(v)
           Q == PartialSums(w)
<1>1. /\ v \in Seq(Int) /\ Len(v) = Len(w) - 1 /\ Head(w) = w[1] /\ w[1] \in Int
      /\ Len(w) \in Nat \ {0} /\ \A i \in 1..Len(v) : v[i] = w[i + 1] /\ w[i + 1] \in Int
  OBVIOUS
<1> HIDE DEF v
<1>2. P[0] = 0 /\ \A i \in 1..Len(v) : P[i] = P[i - 1] + v[i]
  BY <1>1, PartialSumsDef
<1>3. Q \in [0..Len(w) -> Int] /\ Q[0] = 0 /\ \A i \in 1..Len(w) : Q[i] = Q[i - 1] + w[i]
  BY PartialSumsDef
<1> HIDE DEF P, Q
<1> DEFINE S == {n \in Nat : n <= Len(v) => P[n] = Q[n + 1] - w[1]}
<1>4. 0 \in S
  BY <1>1, <1>2, <1>3
<1>5. ASSUME NEW n \in Nat, n \in S PROVE n + 1 \in S
  <2> SUFFICES ASSUME n + 1 <= Len(v) PROVE P[n + 1] = Q[(n + 1) + 1] - w[1]
    OBVIOUS
  <2>0. n + 1 \in 0..Len(w) /\ n <= Len(v)
    BY <1>1
  <2>1. P[n] = Q[n + 1] - w[1] /\ Q[n + 1] \in Int
    BY <1>3, <1>5, <2>0
  <2>2. P[n + 1] = P[n] + v[n + 1]
    BY <1>2
  <2>3. v[n + 1] = w[(n + 1) + 1] /\ w[(n + 1) + 1] \in Int
    BY <1>1
  <2>4. Q[(n + 1) + 1] = Q[n + 1] + w[(n + 1) + 1]
    BY <1>1, <1>3
  <2> QED
    BY <1>1, <2>1, <2>2, <2>3, <2>4
<1>6. Nat \subseteq S
  <2> HIDE DEF S
  <2> QED
    BY <1>4, <1>5, NatSetInduction
<1>7. P[Len(v)] = Q[Len(w)] - w[1]
  BY <1>1, <1>6
<1> QED
  BY <1>1, <1>7 DEF Total, v, P, Q

\* Entries without a size amount to nothing.
LEMMA TotalZero ==
  ASSUME NEW w \in Seq(Int), \A i \in 1..Len(w) : w[i] = 0
  PROVE  Total(w) = 0
<1> DEFINE Q == PartialSums(w)
<1>1. Q[0] = 0 /\ \A i \in 1..Len(w) : Q[i] = Q[i - 1] + w[i]
  BY PartialSumsDef
<1> HIDE DEF Q
<1> DEFINE S == {n \in Nat : n <= Len(w) => Q[n] = 0}
<1>2. 0 \in S
  BY <1>1
<1>3. ASSUME NEW n \in Nat, n \in S PROVE n + 1 \in S
  BY <1>1, <1>3
<1>4. Nat \subseteq S
  <2> HIDE DEF S
  <2> QED
    BY <1>2, <1>3, NatSetInduction
<1> QED
  BY <1>4 DEF Total, Q

=============================================================================
