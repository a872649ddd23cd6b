------------------------------ MODULE Ordering ------------------------------
(***************************************************************************)
(* Induction on the natural numbers stated for a set instead of a          *)
(* predicate, and facts about finite sets and sequences that the proofs of *)
(* the other modules cite.                                                 *)
(***************************************************************************)
EXTENDS Integers, Sequences, FiniteSets, TLAPS, FiniteSetTheorems,
        WellFoundedInduction, SequenceTheorems

\* A set of natural numbers that contains 0 and is closed under successor is
\* Nat: the least number outside it can be neither 0 nor a successor.
LEMMA SetInduction ==
  ASSUME NEW S \in SUBSET Nat, 0 \in S, \A n \in S : n + 1 \in S
  PROVE  S = Nat
<1>1. SUFFICES ASSUME Nat \ S # {} PROVE FALSE
  OBVIOUS
<1>2. PICK m \in Nat \ S : \A k \in Nat \ S : <<k, m>> \notin OpToRel(<, Nat)
  BY <1>1, WFMin, NatLessThanWellFounded, Zenon
<1>3. \A k \in Nat \ S : ~(k < m)
  BY <1>2, Zenon DEF OpToRel
<1>4. m # 0 /\ m - 1 \in Nat
  OBVIOUS
<1>5. m - 1 \in S
  BY <1>3, <1>4
<1>6. m = (m - 1) + 1
  BY <1>4
<1>7. m \in S
  BY <1>5, <1>6
<1> QED BY <1>7

\* The course f of a loop that changes a value of D from a on, in m steps t[i].
IsCourse(f, D, a, m, t) ==
  /\ f \in [0 .. m -> D] /\ f[0] = a
  /\ \A i \in 1 .. m : f[i] = t[i][f[i - 1]]

LEMMA LoopExists ==
  ASSUME NEW D, NEW a \in D, NEW m \in Nat, NEW t \in [1 .. m -> [D -> D]]
  PROVE  \E f : IsCourse(f, D, a, m, t)
<1> DEFINE Course(f, n) ==
             /\ f \in [0 .. n -> D] /\ f[0] = a
             /\ \A i \in 1 .. n : f[i] = t[i][f[i - 1]]
           S == {n \in Nat : n <= m => \E f : Course(f, n)}
<1>1. 0 \in S
  <2>1. Course([i \in 0 .. 0 |-> a], 0)
    OBVIOUS
  <2> QED BY <2>1
<1>2. ASSUME NEW n \in S PROVE n + 1 \in S
  <2> SUFFICES ASSUME n + 1 <= m PROVE \E f : Course(f, n + 1)
    OBVIOUS
  <2>1. n \in Nat /\ n <= m /\ n + 1 \in 1 .. m
    OBVIOUS
  <2>2. PICK f : Course(f, n)
    BY <2>1
  <2> DEFINE g == [i \in 0 .. n + 1 |-> IF i = n + 1 THEN t[n + 1][f[n]] ELSE f[i]]
  <2>3. /\ f \in [0 .. n -> D] /\ f[0] = a
        /\ \A i \in 1 .. n : f[i] = t[i][f[i - 1]]
    BY <2>2
  <2>4. t[n + 1] \in [D -> D] /\ f[n] \in D
    BY <2>1, <2>3
  <2>5. t[n + 1][f[n]] \in D
    BY <2>4
  <2>6. \A i \in 0 .. n + 1 : i # n + 1 => i \in 0 .. n
    BY <2>1
  <2>7. g \in [0 .. n + 1 -> D]
    BY <2>3, <2>5, <2>6
  <2>8. g[0] = a
    BY <2>1, <2>3
  <2>9. ASSUME NEW i \in 1 .. n + 1 PROVE g[i] = t[i][g[i - 1]]
    <3>1. i - 1 \in 0 .. n + 1 /\ i - 1 # n + 1 /\ i \in 0 .. n + 1
      BY <2>1
    <3>2. g[i - 1] = f[i - 1]
      BY <3>1
    <3>3. CASE i = n + 1
      <4>1. i - 1 = n
        BY <2>1, <3>3
      <4> QED BY <3>1, <3>2, <3>3, <4>1
    <3>4. CASE i # n + 1
      <4>1. i \in 1 .. n
        BY <2>1, <3>4
      <4>2. g[i] = f[i]
        BY <3>1, <3>4
      <4> QED BY <2>3, <3>2, <4>1, <4>2
    <3> QED BY <3>3, <3>4
  <2> HIDE DEF g
  <2> QED BY <2>7, <2>8, <2>9
<1>3. S \in SUBSET Nat
  OBVIOUS
<1> HIDE DEF S
<1>4. S = Nat
  BY <1>1, <1>2, <1>3, SetInduction
<1>5. m \in S
  BY <1>4
<1> QED BY <1>5 DEF S, IsCourse

\* Every finite set of numbers has an ascending enumeration.
LEMMA AscendingExists ==
  ASSUME NEW n \in Nat, NEW K \in SUBSET (1 .. n)
  PROVE  \E f \in [1 .. Cardinality(K) -> K] :
           \A i, j \in 1 .. Cardinality(K) : i < j => f[i] < f[j]
<1> DEFINE Enum(L) == \E f \in [1 .. Cardinality(L) -> L] :
                        \A i, j \in 1 .. Cardinality(L) : i < j => f[i] < f[j]
           S == {k \in Nat : \A L \in SUBSET (1 .. k) : Enum(L)}
<1>1. 0 \in S
  <2>1. SUFFICES ASSUME NEW L \in SUBSET (1 .. 0) PROVE Enum(L)
    OBVIOUS
  <2>2. L = {} /\ Cardinality(L) = 0
    <3>1. L = {}
      OBVIOUS
    <3> QED BY <3>1, FS_EmptySet
  <2>3. [i \in {} |-> i] \in [1 .. Cardinality(L) -> L]
    BY <2>2
  <2> QED BY <2>2, <2>3
<1>2. ASSUME NEW k \in S PROVE k + 1 \in S
  <2>1. SUFFICES ASSUME NEW L \in SUBSET (1 .. k + 1) PROVE Enum(L)
    OBVIOUS
  <2>2. CASE k + 1 \notin L
    <3>1. L \in SUBSET (1 .. k)
      BY <2>2
    <3> QED BY <3>1
  <2>3. CASE k + 1 \in L
    <3> DEFINE M == L \ {k + 1}
               c == Cardinality(M)
    <3>1. M \in SUBSET (1 .. k)
      OBVIOUS
    <3>2. PICK f \in [1 .. c -> M] : \A i, j \in 1 .. c : i < j => f[i] < f[j]
      BY <3>1
    <3>3. IsFiniteSet(M) /\ c \in Nat /\ k \in Nat
      <4>1. IsFiniteSet(1 .. k)
        BY FS_Interval
      <4>2. IsFiniteSet(M)
        BY <3>1, <4>1, FS_Subset
      <4> QED BY <4>2, FS_CardinalityType
    <3>4. M \cup {k + 1} = L /\ k + 1 \notin M
      BY <2>3
    <3>5. Cardinality(L) = c + 1
      BY <3>3, <3>4, FS_AddElement DEF c
    <3> HIDE DEF M, c
    <3> DEFINE g == [i \in 1 .. c + 1 |-> IF i = c + 1 THEN k + 1 ELSE f[i]]
    <3>6. g \in [1 .. c + 1 -> L]
      BY <3>3, <3>4
    <3>7. \A i, j \in 1 .. c + 1 : i < j => g[i] < g[j]
      <4>1. TAKE i, j \in 1 .. c + 1
      <4>2. HAVE i < j
      <4>3. i \in 1 .. c /\ g[i] = f[i] /\ f[i] \in 1 .. k
        <5>1. i \in 1 .. c
          BY <3>3, <4>2
        <5>2. i # c + 1 /\ f[i] \in M
          BY <3>3, <5>1
        <5>3. g[i] = f[i]
          BY <5>2
        <5> QED BY <3>1, <5>1, <5>2, <5>3
      <4>4. CASE j = c + 1
        BY <4>3, <4>4
      <4>5. CASE j # c + 1
        <5>1. j \in 1 .. c /\ g[j] = f[j]
          BY <3>3, <4>5
        <5> QED BY <3>2, <4>2, <4>3, <5>1
      <4> QED BY <4>4, <4>5
    <3> QED BY <3>5, <3>6, <3>7
  <2> QED BY <2>2, <2>3
<1> HIDE DEF S
<1>3. S = Nat
  <2>1. S \in SUBSET Nat
    BY DEF S
  <2> QED BY <1>1, <1>2, <2>1, SetInduction
<1> QED BY <1>3 DEF S

LEMMA AppendType ==
  ASSUME NEW S, NEW q \in Seq(S), NEW e \in S
  PROVE  Append(q, e) \in Seq(S) /\ Append(q, e) # <<>>
<1>1. Append(q, e) \in Seq(S) /\ Len(Append(q, e)) = Len(q) + 1 /\ Len(q) \in Nat
  OBVIOUS
<1>2. Len(<<>>) = 0
  OBVIOUS
<1> QED BY <1>1, <1>2

LEMMA TailType ==
  ASSUME NEW S, NEW q \in Seq(S), q # <<>>
  PROVE  /\ Tail(q) \in Seq(S) /\ Head(q) \in S
         /\ Len(q) # 1 => Tail(q) # <<>>
<1>1. Tail(q) \in Seq(S) /\ Head(q) \in S /\ Len(Tail(q)) = Len(q) - 1
  BY HeadTailProperties
<1>2. Len(<<>>) = 0 /\ Len(q) \in Nat
  OBVIOUS
<1> QED BY <1>1, <1>2
=============================================================================
