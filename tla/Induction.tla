------------------------------ MODULE Induction ------------------------------
(***************************************************************************)
(* Induction for the proofs about recursive functions.  The library states *)
(* it for an operator; here it is about a set of naturals, and recursion   *)
(* along 0 .. len about a function that makes the steps, so that a proof   *)
(* can cite it: the set is that of the numbers that have the property.     *)
(***************************************************************************)
EXTENDS FiniteSetTheorems, TLAPS

\* A set with 0 and the successors of its naturals has every natural: of the
\* naturals outside it there would be a least one.
LEMMA SetInduction ==
    ASSUME NEW T, 0 \in T, \A n \in Nat : n \in T => n + 1 \in T
    PROVE  Nat \subseteq T
  <1> DEFINE lessThan == OpToRel(<, Nat)
             outside == Nat \ T
  <1>1. IsWellFoundedOn(lessThan, Nat)
    BY NatLessThanWellFounded DEF OpToRel
  <1>2. SUFFICES ASSUME outside # {}
                 PROVE  FALSE
    OBVIOUS
  <1> HIDE DEF lessThan
  <1>3. PICK n \in outside : \A m \in outside : <<m, n>> \notin lessThan
    BY <1>1, <1>2, WFMin
  <1>4. n \in Nat /\ n # 0 /\ n - 1 \in Nat /\ n - 1 < n
    BY <1>3
  <1>5. <<n - 1, n>> \in lessThan
    BY <1>4 DEF lessThan, OpToRel
  <1>6. n - 1 \in T
    BY <1>3, <1>4, <1>5
  <1>7. (n - 1) + 1 \in T
    BY <1>4, <1>6
  <1> QED
    BY <1>3, <1>4, <1>7

\* The same up to a bound.
LEMMA BoundedInduction ==
    ASSUME NEW len \in Nat, NEW T, 0 \in T,
           \A n \in 0 .. len - 1 : n \in T => n + 1 \in T
    PROVE  0 .. len \subseteq T
  <1> DEFINE U == T \cup {n \in Nat : n > len}
  <1>1. 0 \in U
    OBVIOUS
  <1>2. ASSUME NEW n \in Nat, n \in U
        PROVE  n + 1 \in U
    <2>1. CASE n < len
      BY <1>2, <2>1
    <2>2. CASE n >= len
      BY <2>2
    <2> QED
      BY <2>1, <2>2
  <1>3. Nat \subseteq U
    <2> HIDE DEF U
    <2> QED
      BY <1>1, <1>2, SetInduction
  <1> QED
    BY <1>3

\* Induction over the subsets of a finite set by their size.
LEMMA SizeInduction ==
    ASSUME NEW P, IsFiniteSet(P), NEW G,
           \A S \in SUBSET P :
               (\A R \in SUBSET P : Cardinality(R) < Cardinality(S) => R \in G)
                   => S \in G
    PROVE  SUBSET P \subseteq G
  <1> DEFINE Size(S) == Cardinality(S)
             Sub == SUBSET P
             T == {n \in Nat : \A S \in Sub : Size(S) < n => S \in G}
  <1>1. \A S \in Sub : Size(S) \in Nat
    BY FS_Subset, FS_CardinalityType
  <1>2. \A S \in Sub : (\A R \in Sub : Size(R) < Size(S) => R \in G) => S \in G
    OBVIOUS
  <1> HIDE DEF Size, Sub
  <1>3. 0 \in T
    BY <1>1
  <1>4. ASSUME NEW n \in Nat, n \in T
        PROVE  n + 1 \in T
    <2>1. ASSUME NEW S \in Sub, Size(S) < n + 1
          PROVE  S \in G
      <3>1. \A R \in Sub : Size(R) < Size(S) => Size(R) < n
        BY <1>1, <2>1
      <3> QED
        BY <1>2, <1>4, <3>1
    <2> QED
      BY <2>1
  <1>5. Nat \subseteq T
    <2> HIDE DEF T
    <2> QED
      BY <1>3, <1>4, SetInduction
  <1>6. ASSUME NEW S \in Sub
        PROVE  S \in G
    <2>1. Size(S) + 1 \in T /\ Size(S) < Size(S) + 1
      BY <1>1, <1>5
    <2> QED
      BY <2>1
  <1> QED
    BY <1>6 DEF Sub

\* A set of naturals has a least one.
LEMMA LeastExists ==
    ASSUME NEW S \in SUBSET Nat, S # {}
    PROVE  \E n \in S : \A m \in S : n <= m
  <1> DEFINE lessThan == OpToRel(<, Nat)
  <1>1. IsWellFoundedOn(lessThan, Nat)
    BY NatLessThanWellFounded DEF OpToRel
  <1> HIDE DEF lessThan
  <1>2. PICK n \in S : \A m \in S : <<m, n>> \notin lessThan
    BY <1>1, WFMin
  <1>3. \A m \in S : ~(m < n)
    BY <1>2 DEF lessThan, OpToRel
  <1> QED
    BY <1>3

\* A first value in S, and steps from S to S numbered 1 .. len.
Recursion(len, S, base, step) ==
    /\ len \in Nat /\ base \in S
    /\ \A n \in 1 .. len : \A x \in S : step[n][x] \in S

\* The values that f runs through.
RunOf(f, len, S, base, step) ==
    /\ f \in [0 .. len -> S]
    /\ f[0] = base
    /\ \A n \in 1 .. len : f[n] = step[n][f[n - 1]]

\* Every recursion has a run.
LEMMA RecursionExists ==
    ASSUME NEW len, NEW S, NEW base, NEW step, Recursion(len, S, base, step)
    PROVE  \E f : RunOf(f, len, S, base, step)
  <1> USE DEF Recursion
  <1> DEFINE T == {k \in 0 .. len : \E f : RunOf(f, k, S, base, step)}
  <1>1. 0 \in T
    <2> DEFINE f == [n \in 0 .. 0 |-> base]
    <2>1. f \in [0 .. 0 -> S] /\ f[0] = base /\ 1 .. 0 = {}
      OBVIOUS
    <2> HIDE DEF f
    <2>2. RunOf(f, 0, S, base, step)
      BY <2>1 DEF RunOf
    <2> QED
      BY <2>2
  <1>2. ASSUME NEW k \in 0 .. len - 1, k \in T
        PROVE  k + 1 \in T
    <2>1. PICK f : RunOf(f, k, S, base, step)
      BY <1>2
    <2> DEFINE g == [n \in 0 .. k + 1 |-> IF n <= k THEN f[n]
                                          ELSE step[k + 1][f[k]]]
    <2>2. g \in [0 .. k + 1 -> S]
      <3>1. f \in [0 .. k -> S] /\ f[k] \in S
        BY <2>1 DEF RunOf
      <3>2. step[k + 1][f[k]] \in S
        BY <3>1
      <3> QED
        BY <3>1, <3>2
    <2>3. g[0] = base
      BY <2>1 DEF RunOf
    <2>4. ASSUME NEW n \in 1 .. k + 1
          PROVE  g[n] = step[n][g[n - 1]]
      <3>1. CASE n <= k
        BY <2>1, <3>1 DEF RunOf
      <3>2. CASE n = k + 1
        BY <3>2
      <3> QED
        BY <3>1, <3>2
    <2> HIDE DEF g
    <2>5. RunOf(g, k + 1, S, base, step)
      BY <2>2, <2>3, <2>4 DEF RunOf
    <2> QED
      BY <2>5
  <1>3. 0 .. len \subseteq T
    <2> HIDE DEF T
    <2> QED
      BY <1>1, <1>2, BoundedInduction
  <1>4. len \in T
    BY <1>3
  <1> QED
    BY <1>4
=============================================================================
