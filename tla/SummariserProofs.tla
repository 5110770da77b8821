-------------------------- MODULE SummariserProofs --------------------------
(***************************************************************************)
(* Proofs about Summariser, for any number of arguments, threads, files    *)
(* and lines:                                                              *)
(*   - workers are started only for a command line that has a file for     *)
(*     each of them, and their strides never give a file to two of them;   *)
(*   - the summary of a file is the totals of its accepted lines, and      *)
(*     between two critical sections netSummary is the totals of exactly   *)
(*     the files combined: no update is lost;                              *)
(*   - what is printed covers every file that could be opened, so that the *)
(*     program implements SumFiles.                                        *)
(* The sums are over sets of lines in no order; the recursive definitions  *)
(* behind them are reasoned about by the lemmas of Induction.              *)
(***************************************************************************)
EXTENDS Summariser, Induction, FiniteSetTheorems

-----------------------------------------------------------------------------
(* Sums over a set of lines. *)

\* Places in the files: <<f, n>> is line n of file f.
LineAt(p) == Lines[p[1]][p[2]]
Value(p) == LineAt(p).value
Tag(p) == LineAt(p).tag

\* A finite set of lines that have a tag and a value.
Readable(P) == IsFiniteSet(P) /\ \A p \in P : Tag(p) \in Nat /\ Value(p) \in Int

First(S) == CHOOSE x \in S : TRUE
SumOver(P) == MapThenSumSet(LAMBDA p : Value(p), P)

\* A function that sums up the values of every subset of P, in the order that
\* First chooses.
SumsOf(run, P) ==
    /\ run \in [SUBSET P -> Int]
    /\ run[{}] = 0
    /\ \A S \in SUBSET P :
           S # {} => run[S] = Value(First(S)) + run[S \ {First(S)}]

\* A subset has no more elements than the set, and one less without its first.
LEMMA FirstRemoved ==
    ASSUME NEW P, Readable(P), NEW S \in SUBSET P
    PROVE  /\ Readable(S) /\ Cardinality(S) \in Nat
           /\ Cardinality(S) <= Cardinality(P) /\ Cardinality(P) \in Nat
           /\ Cardinality(S) = 0 <=> S = {}
           /\ S # {} => /\ First(S) \in S
                        /\ S \ {First(S)} \in SUBSET P
                        /\ Cardinality(S \ {First(S)}) = Cardinality(S) - 1
  <1>1. Readable(S) /\ Cardinality(S) <= Cardinality(P)
    BY FS_Subset DEF Readable
  <1>2. Cardinality(S) \in Nat /\ Cardinality(P) \in Nat
    BY <1>1, FS_CardinalityType DEF Readable
  <1>3. Cardinality(S) = 0 <=> S = {}
    BY <1>1, FS_EmptySet DEF Readable
  <1>4. S # {} => First(S) \in S
    BY DEF First
  <1>5. S # {} => Cardinality(S \ {First(S)}) = Cardinality(S) - 1
    BY <1>1, <1>4, FS_RemoveElement DEF Readable
  <1> QED
    BY <1>1, <1>2, <1>3, <1>4, <1>5

\* What SumOver computes.
LEMMA SumRun ==
    ASSUME NEW P, Readable(P)
    PROVE  \E run : SumsOf(run, P) /\ SumOver(P) = run[P]
  <1> DEFINE Sub == SUBSET P
             Size(S) == Cardinality(S)
             Less(S) == S \ {First(S)}
             Steps(f) == [S \in Sub |->
                             IF S = {} THEN 0
                             ELSE Value(First(S)) + f[Less(S)]]
             iter == CHOOSE f : f = Steps(f)
             c == Cardinality(P)
             Funs == [Sub -> Int]
             zero == [S \in Sub |-> 0]
             step == [n \in 1 .. c + 1 |-> [f \in Funs |-> Steps(f)]]
  <1>1. c \in Nat /\ \A S \in Sub : Size(S) \in Nat /\ Size(S) <= c
    BY FirstRemoved, FS_CardinalityType DEF Readable
  <1>14. \A S \in Sub : Size(S) <= 0 => S = {}
    <2>1. ASSUME NEW S \in Sub, Size(S) <= 0
          PROVE  S = {}
      <3>1. Size(S) = 0
        BY <1>1, <2>1
      <3> QED
        BY <3>1, FirstRemoved
    <2> QED
      BY <2>1
  <1>15. \A S \in Sub : S # {} => /\ Less(S) \in Sub /\ Size(Less(S)) = Size(S) - 1
                                  /\ Value(First(S)) \in Int
    BY FirstRemoved DEF Readable
  <1>2. {} \in Sub /\ P \in Sub
    OBVIOUS
  <1> HIDE DEF Sub, c, Size, Less
  <1>3. \A f \in Funs : Steps(f) \in Funs
    BY <1>1, <1>14, <1>15
  <1>4. \A f : \A S \in Sub : Steps(f)[S] = IF S = {} THEN 0
                              ELSE Value(First(S)) + f[Less(S)]
    OBVIOUS
  <1>5. zero \in Funs
    OBVIOUS
  <1> HIDE DEF Steps, zero
  <1>6. \A n \in 1 .. c + 1 : \A f \in Funs : step[n][f] = Steps(f)
    OBVIOUS
  <1> HIDE DEF step
  <1>7. PICK g : RunOf(g, c + 1, Funs, zero, step)
    <2>1. Recursion(c + 1, Funs, zero, step)
      BY <1>1, <1>14, <1>15, <1>3, <1>5, <1>6 DEF Recursion
    <2> QED
      BY <2>1, RecursionExists
  <1>8. /\ g \in [0 .. c + 1 -> Funs]
        /\ \A n \in 0 .. c : g[n + 1] = Steps(g[n])
        /\ g[0] = zero
    <2>1. \A n \in 0 .. c : n + 1 \in 1 .. c + 1 /\ n \in 0 .. c + 1 /\ (n + 1) - 1 = n
      BY <1>1, <1>14, <1>15
    <2> QED
      BY <1>6, <1>7, <2>1 DEF RunOf
  <1>9. \E f \in Funs : f = Steps(f)
    <2> DEFINE T == {n \in 0 .. c : \A S \in Sub :
                        Size(S) <= n => g[n + 1][S] = g[n][S]}
    <2>1. 0 \in T
      <3>1. 0 \in 0 .. c /\ 0 + 1 = 1 /\ \A S \in Sub : Size(S) <= 0 => S = {}
        BY <1>1, <1>14, <1>15
      <3>2. g[1] = Steps(g[0]) /\ g[0][{}] = 0
        BY <1>1, <1>14, <1>15, <1>2, <1>8, <3>1 DEF zero
      <3>3. g[1][{}] = 0
        BY <1>2, <1>4, <3>2
      <3> QED
        BY <3>1, <3>2, <3>3
    <2>2. ASSUME NEW n \in 0 .. c - 1, n \in T
          PROVE  n + 1 \in T
      <3>1. n + 1 \in 0 .. c /\ n \in 0 .. c
        BY <1>1, <1>14, <1>15
      <3>2. g[(n + 1) + 1] = Steps(g[n + 1]) /\ g[n + 1] = Steps(g[n])
        BY <1>8, <3>1
      <3>3. ASSUME NEW S \in Sub, Size(S) <= n + 1
            PROVE  g[(n + 1) + 1][S] = g[n + 1][S]
        <4>1. CASE S = {}
          BY <1>4, <3>2, <4>1
        <4>2. CASE S # {}
          <5> DEFINE R == Less(S)
          <5>1. R \in Sub /\ Size(R) <= n
            BY <1>1, <1>14, <1>15, <3>3, <4>2
          <5> HIDE DEF R
          <5>2. g[n + 1][R] = g[n][R]
            BY <2>2, <5>1
          <5>3. /\ g[(n + 1) + 1][S] = Value(First(S)) + g[n + 1][R]
                /\ g[n + 1][S] = Value(First(S)) + g[n][R]
            BY <1>4, <3>2, <4>2 DEF R
          <5> QED
            BY <5>2, <5>3
        <4> QED
          BY <4>1, <4>2
      <3> QED
        BY <3>1, <3>3
    <2>3. 0 .. c \subseteq T
      <3> HIDE DEF T
      <3> QED
        BY <1>1, <1>14, <1>15, <2>1, <2>2, BoundedInduction
    <2>4. c \in 0 .. c /\ c \in T
      <3>1. c \in 0 .. c
        BY <1>1, <1>14, <1>15
      <3> QED
        BY <2>3, <3>1, Zenon
    <2>5. \A S \in Sub : g[c + 1][S] = g[c][S]
      BY <1>1, <1>14, <1>15, <2>4
    <2>6. g[c + 1] = Steps(g[c]) /\ g[c] \in Funs /\ g[c + 1] \in Funs
      <3>1. c \in 0 .. c + 1 /\ c + 1 \in 0 .. c + 1
        BY <1>1, <1>14, <1>15
      <3> QED
        BY <1>8, <2>4, <3>1
    <2>7. g[c + 1] = g[c]
      BY <2>5, <2>6
    <2> QED
      BY <2>6, <2>7
  <1>10. iter = Steps(iter)
    BY <1>9
  <1> HIDE DEF iter
  <1>11. /\ iter[{}] = 0
         /\ \A S \in Sub : S # {} =>
                iter[S] = Value(First(S)) + iter[Less(S)]
    BY <1>2, <1>4, <1>10
  <1>12. iter \in Funs
    <2> DEFINE T == {n \in 0 .. c : \A S \in Sub : Size(S) <= n => iter[S] \in Int}
    <2>1. 0 \in T
      <3>1. ASSUME NEW S \in Sub, Size(S) <= 0
            PROVE  iter[S] \in Int
        <4>1. S = {}
          BY <1>14, <3>1
        <4> QED
          BY <1>11, <4>1
      <3>2. 0 \in 0 .. c
        BY <1>1
      <3> QED
        BY <3>1, <3>2
    <2>2. ASSUME NEW n \in 0 .. c - 1, n \in T
          PROVE  n + 1 \in T
      <3>1. ASSUME NEW S \in Sub, Size(S) <= n + 1
            PROVE  iter[S] \in Int
        <4>1. CASE S = {}
          BY <1>11, <4>1
        <4>2. CASE S # {}
          <5> DEFINE R == Less(S)
          <5>1. R \in Sub /\ Size(R) <= n
            BY <1>1, <1>14, <1>15, <3>1, <4>2
          <5>2. iter[R] \in Int
            <6> HIDE DEF R
            <6> QED
              BY <2>2, <5>1
          <5> QED
            BY <1>1, <1>14, <1>15, <1>11, <4>2, <5>2
        <4> QED
          BY <4>1, <4>2
      <3> QED
        BY <1>1, <1>14, <1>15, <3>1
    <2>3. 0 .. c \subseteq T
      <3> HIDE DEF T
      <3> QED
        BY <1>1, <1>14, <1>15, <2>1, <2>2, BoundedInduction
    <2>4. c \in T
      <3>1. c \in 0 .. c
        BY <1>1, <1>14, <1>15
      <3> QED
        BY <2>3, <3>1, Zenon
    <2>5. \A S \in Sub : iter[S] \in Int
      BY <1>1, <1>14, <1>15, <2>4
    <2>6. iter = [S \in Sub |-> iter[S]]
      BY <1>10 DEF Steps
    <2> QED
      BY <2>5, <2>6
  <1>13. SumOver(P) = iter[P]
    BY DEF SumOver, MapThenSumSet, MapThenFoldSet, iter, Steps, First, Sub, Less
  <1> QED
    BY <1>2, <1>11, <1>12, <1>13 DEF SumsOf, Sub, Less

\* Two such functions agree where they are both defined.
LEMMA SumsAgree ==
    ASSUME NEW P, Readable(P), NEW Q, Readable(Q), NEW r, NEW q,
           SumsOf(r, P), SumsOf(q, Q), Q \subseteq P
    PROVE  \A S \in SUBSET Q : r[S] = q[S]
  <1> DEFINE G == {S \in SUBSET Q : r[S] = q[S]}
  <1>1. ASSUME NEW S \in SUBSET Q,
               \A R \in SUBSET Q : Cardinality(R) < Cardinality(S) => R \in G
        PROVE  S \in G
    <2>1. CASE S = {}
      BY <2>1 DEF SumsOf
    <2>2. CASE S # {}
      <3> DEFINE R == S \ {First(S)}
      <3>1. R \in SUBSET Q /\ Cardinality(R) < Cardinality(S)
        <4>1. R \in SUBSET Q /\ Cardinality(R) = Cardinality(S) - 1
              /\ Cardinality(S) \in Nat
          BY <2>2, FirstRemoved
        <4> HIDE DEF R
        <4> QED
          BY <4>1
      <3>2. r[R] = q[R]
        <4> HIDE DEF R
        <4> QED
          BY <1>1, <3>1
      <3>3. r[S] = Value(First(S)) + r[R] /\ q[S] = Value(First(S)) + q[R]
        <4>1. S \in SUBSET P
          OBVIOUS
        <4> QED
          BY <2>2, <4>1 DEF SumsOf
      <3> QED
        BY <3>2, <3>3
    <2> QED
      BY <2>1, <2>2
  <1>2. SUBSET Q \subseteq G
    <2> HIDE DEF G
    <2>1. IsFiniteSet(Q)
      BY DEF Readable
    <2> QED
      BY <1>1, <2>1, SizeInduction
  <1> QED
    BY <1>2

\* The sum is an integer, and that of some line and the rest.
LEMMA SumFirst ==
    ASSUME NEW P, Readable(P)
    PROVE  /\ SumOver(P) \in Int
           /\ P = {} => SumOver(P) = 0
           /\ P # {} => SumOver(P) = Value(First(P)) + SumOver(P \ {First(P)})
  <1>1. PICK run : SumsOf(run, P) /\ SumOver(P) = run[P]
    BY SumRun
  <1>2. SumOver(P) \in Int /\ (P = {} => SumOver(P) = 0)
    BY <1>1 DEF SumsOf
  <1>3. ASSUME P # {}
        PROVE  SumOver(P) = Value(First(P)) + SumOver(P \ {First(P)})
    <2> DEFINE R == P \ {First(P)}
    <2>1. Readable(R) /\ R \subseteq P
      BY FS_RemoveElement DEF Readable
    <2>2. run[P] = Value(First(P)) + run[R]
      BY <1>1, <1>3 DEF SumsOf
    <2> HIDE DEF R
    <2>3. PICK q : SumsOf(q, R) /\ SumOver(R) = q[R]
      BY <2>1, SumRun
    <2>4. run[R] = q[R]
      BY <1>1, <2>1, <2>3, SumsAgree
    <2> QED
      BY <1>1, <2>2, <2>3, <2>4 DEF R
  <1> QED
    BY <1>2, <1>3

\* The order does not matter: any element can be taken first.
LEMMA SumRemove ==
    ASSUME NEW P, Readable(P), NEW x \in P
    PROVE  SumOver(P) = Value(x) + SumOver(P \ {x})
  <1> DEFINE G == {S \in SUBSET P : \A y \in S : SumOver(S) = Value(y) + SumOver(S \ {y})}
  <1>1. ASSUME NEW S \in SUBSET P,
               \A R \in SUBSET P : Cardinality(R) < Cardinality(S) => R \in G
        PROVE  S \in G
    <2> SUFFICES ASSUME NEW y \in S
                 PROVE  SumOver(S) = Value(y) + SumOver(S \ {y})
      OBVIOUS
    <2> DEFINE f == First(S)
               Sf == S \ {f}
               Sy == S \ {y}
               Sfy == S \ {f, y}
    <2>1. f \in S /\ IsFiniteSet(S) /\ Cardinality(S) \in Nat
      BY FirstRemoved DEF Readable
    <2>2. Readable(S) /\ Readable(Sf) /\ Readable(Sy) /\ Readable(Sfy)
      BY <2>1, FS_Subset DEF Readable
    <2>3. SumOver(S) = Value(f) + SumOver(Sf)
      BY <2>2, SumFirst
    <2>4. CASE y = f
      BY <2>3, <2>4
    <2>5. CASE y # f
      <3>1. Sf \in SUBSET P /\ Sy \in SUBSET P /\ y \in Sf /\ f \in Sy
            /\ Sf \ {y} = Sfy /\ Sy \ {f} = Sfy
        BY <2>1, <2>5
      <3>2. Cardinality(Sf) < Cardinality(S) /\ Cardinality(Sy) < Cardinality(S)
        <4>1. Cardinality(Sf) = Cardinality(S) - 1 /\ Cardinality(Sy) = Cardinality(S) - 1
          BY <2>1, FS_RemoveElement
        <4> HIDE DEF Sf, Sy
        <4> QED
          BY <2>1, <4>1
      <3> HIDE DEF Sf, Sy, Sfy, f
      <3>3. /\ SumOver(Sf) = Value(y) + SumOver(Sfy)
            /\ SumOver(Sy) = Value(f) + SumOver(Sfy)
        <4>1. Sf \in G /\ Sy \in G
          <5> HIDE DEF G
          <5> QED
            BY <1>1, <3>1, <3>2
        <4> QED
          BY <3>1, <4>1
      <3>4. Value(y) \in Int /\ Value(f) \in Int /\ SumOver(Sfy) \in Int
        BY <2>1, <2>2, SumFirst DEF Readable
      <3>5. SumOver(S) = Value(y) + SumOver(Sy)
        BY <2>3, <3>3, <3>4
      <3> QED
        BY <3>5 DEF Sy
    <2> QED
      BY <2>4, <2>5
  <1>2. SUBSET P \subseteq G
    <2> HIDE DEF G
    <2>1. IsFiniteSet(P)
      BY DEF Readable
    <2> QED
      BY <1>1, <2>1, SizeInduction
  <1>3. P \in G
    BY <1>2
  <1> QED
    BY <1>3

\* The sum over two disjoint sets of lines, and how many they are.
LEMMA SumUnion ==
    ASSUME NEW P, NEW Q, Readable(P), Readable(Q), P \cap Q = {}
    PROVE  /\ Readable(P \cup Q)
           /\ SumOver(P \cup Q) = SumOver(P) + SumOver(Q)
           /\ Cardinality(P \cup Q) = Cardinality(P) + Cardinality(Q)
  <1> DEFINE G == {S \in SUBSET Q :
                      /\ Readable(P \cup S)
                      /\ SumOver(P \cup S) = SumOver(P) + SumOver(S)
                      /\ Cardinality(P \cup S) = Cardinality(P) + Cardinality(S)}
  <1>1. /\ SumOver(P) \in Int /\ Cardinality(P) \in Nat /\ IsFiniteSet(P)
        /\ IsFiniteSet(Q)
    BY SumFirst, FS_CardinalityType DEF Readable
  <1>2. ASSUME NEW S \in SUBSET Q,
               \A R \in SUBSET Q : Cardinality(R) < Cardinality(S) => R \in G
        PROVE  S \in G
    <2>1. CASE S = {}
      <3>1. P \cup S = P
        BY <2>1
      <3>2. SumOver(S) = 0 /\ Cardinality(S) = 0
        <4>1. Readable(S)
          BY FirstRemoved
        <4> QED
          BY <2>1, <4>1, SumFirst, FS_EmptySet
      <3>3. SumOver(P) = SumOver(P) + SumOver(S)
            /\ Cardinality(P) = Cardinality(P) + Cardinality(S)
        BY <1>1, <3>2
      <3> QED
        BY <3>1, <3>3
    <2>2. CASE S # {}
      <3> DEFINE f == First(S)
                 R == S \ {f}
                 U == P \cup S
                 V == P \cup R
      <3>1. /\ f \in S /\ R \in SUBSET Q /\ Cardinality(S) \in Nat
            /\ Cardinality(R) = Cardinality(S) - 1
            /\ Readable(S)
        BY <2>2, FirstRemoved
      <3>2. Readable(R)
        <4> HIDE DEF R
        <4> QED
          BY <3>1, FirstRemoved
      <3>3. R \in G
        <4>1. Cardinality(R) < Cardinality(S)
          <5> HIDE DEF R
          <5> QED
            BY <3>1
        <4> HIDE DEF G, R
        <4> QED
          BY <1>2, <3>1, <4>1
      <3>4. /\ Readable(V)
            /\ SumOver(V) = SumOver(P) + SumOver(R)
            /\ Cardinality(V) = Cardinality(P) + Cardinality(R)
        BY <3>3
      <3>5. U = V \cup {f} /\ f \notin V /\ f \in U /\ V = U \ {f}
        BY <3>1
      <3>6. IsFiniteSet(V)
        BY <3>4 DEF Readable
      <3>7. IsFiniteSet(U) /\ Cardinality(U) = Cardinality(V) + 1
        <4> HIDE DEF U, V
        <4> QED
          BY <3>5, <3>6, FS_AddElement
      <3>8. Readable(U)
        BY <3>1, <3>7 DEF Readable
      <3>9. SumOver(U) = Value(f) + SumOver(V) /\ SumOver(S) = Value(f) + SumOver(R)
        <4>1. SumOver(S) = Value(f) + SumOver(R)
          BY <3>1, SumRemove
        <4>2. SumOver(U) = Value(f) + SumOver(V)
          <5> HIDE DEF U, V
          <5> QED
            BY <3>5, <3>8, SumRemove
        <4> QED
          BY <4>1, <4>2
      <3>10. Value(f) \in Int /\ SumOver(R) \in Int
        BY <3>1, <3>2, SumFirst DEF Readable
      <3> HIDE DEF U, V, R, f
      <3>11. SumOver(U) = SumOver(P) + SumOver(S)
             /\ Cardinality(U) = Cardinality(P) + Cardinality(S)
        BY <1>1, <3>1, <3>4, <3>7, <3>9, <3>10
      <3> QED
        BY <3>8, <3>11 DEF U
    <2> QED
      BY <2>1, <2>2
  <1>3. SUBSET Q \subseteq G
    <2> HIDE DEF G
    <2> QED
      BY <1>1, <1>2, SizeInduction
  <1>4. Q \in G
    BY <1>3
  <1> QED
    BY <1>4

-----------------------------------------------------------------------------
(* The totals over a set of lines. *)

Tags(P) == {Tag(p) : p \in P}
Tagged(P, tag) == {p \in P : Tag(p) = tag}
EntryOf(P) == [count |-> Cardinality(P), sum |-> SumOver(P)]
TotalsOf(P) == [tag \in Tags(P) |-> EntryOf(Tagged(P, tag))]

\* The entry of a tag that a summary may not have.
EntryOrZero(summary, tag) ==
    IF tag \in DOMAIN summary THEN summary[tag] ELSE Zero

\* Totals are a summary, with an entry for each tag that occurs.
LEMMA TotalsTyped ==
    ASSUME NEW P, Readable(P)
    PROVE  /\ IsSummary(TotalsOf(P))
           /\ DOMAIN TotalsOf(P) = Tags(P) /\ Tags(P) \subseteq Nat
           /\ \A tag : EntryOf(Tagged(P, tag)) \in Entries
  <1>1. ASSUME NEW tag
        PROVE  EntryOf(Tagged(P, tag)) \in Entries
    <2> DEFINE T == Tagged(P, tag)
    <2>1. Readable(T)
      BY FS_Subset DEF Readable, Tagged
    <2> HIDE DEF T
    <2>2. Cardinality(T) \in Nat /\ SumOver(T) \in Int
      BY <2>1, SumFirst, FS_CardinalityType DEF Readable
    <2> QED
      BY <2>2 DEF EntryOf, Entries, T
  <1>2. DOMAIN TotalsOf(P) = Tags(P) /\ Tags(P) \subseteq Nat
    BY DEF TotalsOf, Tags, Readable
  <1>3. \A tag \in Tags(P) : TotalsOf(P)[tag] = EntryOf(Tagged(P, tag))
    BY DEF TotalsOf
  <1> QED
    BY <1>1, <1>2, <1>3 DEF IsSummary

\* More lines with the same tag are added to the entry of that tag.
LEMMA TotalsPut ==
    ASSUME NEW P, NEW Q, Readable(P), Readable(Q), P \cap Q = {}, Q # {},
           NEW tag, \A q \in Q : Tag(q) = tag
    PROVE  TotalsOf(P \cup Q) =
               Put(TotalsOf(P), tag,
                   AddEntry(EntryOrZero(TotalsOf(P), tag), EntryOf(Q)))
  <1> DEFINE new == AddEntry(EntryOrZero(TotalsOf(P), tag), EntryOf(Q))
             U == P \cup Q
             Tg == Tagged(P, tag)
  <1>1. Tags(U) = Tags(P) \cup {tag}
    BY DEF Tags
  <1>2. \A t : t # tag => Tagged(U, t) = Tagged(P, t)
    BY DEF Tagged
  <1>3. Tagged(U, tag) = Tg \cup Q
    BY DEF Tagged
  <1>4. EntryOf(Tagged(U, tag)) = new
    <2>1. Readable(Tg) /\ Tg \cap Q = {}
      BY FS_Subset DEF Readable, Tagged
    <2>2. /\ SumOver(Tg) \in Int /\ SumOver(Q) \in Int
          /\ Cardinality(Tg) \in Nat /\ Cardinality(Q) \in Nat
          /\ Tg = {} => SumOver(Tg) = 0 /\ Cardinality(Tg) = 0
      BY <2>1, SumFirst, FS_CardinalityType, FS_EmptySet DEF Readable
    <2>3. /\ SumOver(Tg \cup Q) = SumOver(Tg) + SumOver(Q)
          /\ Cardinality(Tg \cup Q) = Cardinality(Tg) + Cardinality(Q)
      <3> HIDE DEF Tg
      <3> QED
        BY <2>1, SumUnion
    <2>4. CASE tag \in Tags(P)
      <3>1. EntryOrZero(TotalsOf(P), tag) = EntryOf(Tg)
        BY <2>4 DEF EntryOrZero, TotalsOf
      <3> HIDE DEF Tg
      <3> QED
        BY <1>3, <2>3, <3>1 DEF AddEntry, EntryOf
    <2>5. CASE tag \notin Tags(P)
      <3>1. EntryOrZero(TotalsOf(P), tag) = Zero
        BY <2>5 DEF EntryOrZero, TotalsOf
      <3>2. Tg = {}
        BY <2>5 DEF Tags, Tagged
      <3> HIDE DEF Tg
      <3>3. SumOver(Tg \cup Q) = 0 + SumOver(Q)
            /\ Cardinality(Tg \cup Q) = 0 + Cardinality(Q)
        BY <2>2, <2>3, <3>2
      <3>4. new = [count |-> 0 + Cardinality(Q), sum |-> 0 + SumOver(Q)]
        <4>1. Zero.count = 0 /\ Zero.sum = 0
          BY DEF Zero
        <4>2. EntryOf(Q).count = Cardinality(Q) /\ EntryOf(Q).sum = SumOver(Q)
          BY DEF EntryOf
        <4> QED
          BY <3>1, <4>1, <4>2, Zenon DEF AddEntry
      <3> QED
        BY <1>3, <3>3, <3>4, Zenon DEF EntryOf
    <2> QED
      BY <2>4, <2>5
  <1>5. \A t \in Tags(U) : TotalsOf(U)[t] = IF t = tag THEN new ELSE TotalsOf(P)[t]
    <2> HIDE DEF new, U
    <2>1. ASSUME NEW t \in Tags(U)
          PROVE  TotalsOf(U)[t] = IF t = tag THEN new ELSE TotalsOf(P)[t]
      <3>1. TotalsOf(U)[t] = EntryOf(Tagged(U, t))
        BY DEF TotalsOf
      <3>2. CASE t = tag
        BY <1>4, <3>1, <3>2
      <3>3. CASE t # tag
        <4>1. t \in Tags(P)
          BY <1>1, <3>3
        <4>2. TotalsOf(P)[t] = EntryOf(Tagged(P, t))
          BY <4>1 DEF TotalsOf
        <4> QED
          BY <1>2, <3>1, <3>3, <4>2
      <3> QED
        BY <3>2, <3>3
    <2> QED
      BY <2>1
  <1>6. DOMAIN TotalsOf(U) = Tags(U) /\ DOMAIN TotalsOf(P) = Tags(P)
        /\ TotalsOf(U) = [t \in Tags(U) |-> TotalsOf(U)[t]]
    BY DEF TotalsOf
  <1> HIDE DEF new, U
  <1>7. TotalsOf(U) = Put(TotalsOf(P), tag, new)
    BY <1>1, <1>5, <1>6 DEF Put
  <1> QED
    BY <1>7 DEF new, U

-----------------------------------------------------------------------------
(* The lines of the files. *)

Files == 0 .. MaxArgs - 3
AcceptedIn(f) == {n \in DOMAIN Lines[f] : Accepted(Lines[f][n])}
PlacesOf(F) == UNION {{f} \X AcceptedIn(f) : f \in F}

\* A place is a file and the number of an accepted line in it.
LEMMA PlaceOfFile ==
    ASSUME NEW F
    PROVE  \A p : p \in PlacesOf(F) <=>
                      \E f \in F : \E n \in AcceptedIn(f) : p = <<f, n>>
  BY DEF PlacesOf

\* The lines of different files are different lines.
LEMMA PlacesUnion ==
    ASSUME NEW F, NEW E
    PROVE  /\ PlacesOf(F \cup E) = PlacesOf(F) \cup PlacesOf(E)
           /\ F \cap E = {} => PlacesOf(F) \cap PlacesOf(E) = {}
  <1>1. PlacesOf(F \cup E) = PlacesOf(F) \cup PlacesOf(E)
    BY DEF PlacesOf
  <1>2. ASSUME NEW p, p \in PlacesOf(F), p \in PlacesOf(E)
        PROVE  F \cap E # {}
    <2>1. PICK f \in F : \E n \in AcceptedIn(f) : p = <<f, n>>
      BY <1>2, PlaceOfFile
    <2>2. PICK e \in E : \E n \in AcceptedIn(e) : p = <<e, n>>
      BY <1>2, PlaceOfFile
    <2>3. e = f
      BY <2>1, <2>2
    <2> QED
      BY <2>3
  <1> QED
    BY <1>1, <1>2

\* A file has finitely many lines, each of them readable if accepted.
LEMMA FileReadable ==
    ASSUME NEW f \in Files
    PROVE  /\ Len(Lines[f]) \in Nat
           /\ AcceptedIn(f) \subseteq 1 .. Len(Lines[f])
           /\ Readable(PlacesOf({f}))
           /\ \A n \in 1 .. Len(Lines[f]) : Lines[f][n] \in LineType
  <1>1. /\ Lines[f] \in Seq(LineType) /\ Len(Lines[f]) \in Nat
        /\ DOMAIN Lines[f] = 1 .. Len(Lines[f])
        /\ \A n \in 1 .. Len(Lines[f]) : Lines[f][n] \in LineType
    BY LinesAssumption DEF Files
  <1>2. AcceptedIn(f) \subseteq 1 .. Len(Lines[f])
    BY <1>1 DEF AcceptedIn
  <1>3. IsFiniteSet(AcceptedIn(f)) /\ IsFiniteSet({f})
    <2>1. IsFiniteSet(1 .. Len(Lines[f]))
      BY <1>1, FS_Interval
    <2> QED
      BY <1>2, <2>1, FS_Subset, FS_Singleton
  <1>4. PlacesOf({f}) = {f} \X AcceptedIn(f)
    BY DEF PlacesOf
  <1>5. IsFiniteSet(PlacesOf({f}))
    BY <1>3, <1>4, FS_Product
  <1>6. ASSUME NEW n \in AcceptedIn(f)
        PROVE  Tag(<<f, n>>) \in Nat /\ Value(<<f, n>>) \in Int
    <2>1. Lines[f][n] \in LineType /\ Accepted(Lines[f][n])
      BY <1>1, <1>2 DEF AcceptedIn
    <2> QED
      BY <2>1 DEF LineType, Accepted, WellFormed, Tag, Value, LineAt
  <1>7. \A p \in PlacesOf({f}) : Tag(p) \in Nat /\ Value(p) \in Int
    <2>1. ASSUME NEW p \in PlacesOf({f})
          PROVE  Tag(p) \in Nat /\ Value(p) \in Int
      <3>1. PICK n \in AcceptedIn(f) : p = <<f, n>>
        BY PlaceOfFile
      <3> QED
        BY <1>6, <3>1
    <2> QED
      BY <2>1
  <1> QED
    BY <1>1, <1>2, <1>5, <1>7 DEF Readable

\* So have several files together.
LEMMA PlacesReadable ==
    ASSUME NEW F \in SUBSET Files
    PROVE  Readable(PlacesOf(F))
  <1> DEFINE G == {S \in SUBSET Files : Readable(PlacesOf(S))}
  <1>1. IsFiniteSet(Files)
    BY FS_Interval, SummariserAssumption DEF Files
  <1>2. ASSUME NEW S \in SUBSET Files,
               \A R \in SUBSET Files : Cardinality(R) < Cardinality(S) => R \in G
        PROVE  S \in G
    <2>1. CASE S = {}
      <3>1. PlacesOf(S) = {}
        BY <2>1 DEF PlacesOf
      <3> QED
        BY <3>1, FS_EmptySet DEF Readable
    <2>2. CASE S # {}
      <3>1. PICK f \in S : TRUE
        BY <2>2
      <3> DEFINE R == S \ {f}
      <3>2. R \in SUBSET Files /\ Cardinality(R) < Cardinality(S)
        <4>1. IsFiniteSet(S) /\ Cardinality(S) \in Nat
          BY <1>1, FS_Subset, FS_CardinalityType
        <4>2. R \in SUBSET Files /\ Cardinality(R) = Cardinality(S) - 1
          BY <3>1, <4>1, FS_RemoveElement
        <4> HIDE DEF R
        <4> QED
          BY <4>1, <4>2
      <3>3. Readable(PlacesOf(R)) /\ Readable(PlacesOf({f}))
        <4>1. R \in G
          <5> HIDE DEF R, G
          <5> QED
            BY <1>2, <3>2
        <4> QED
          BY <4>1, FileReadable
      <3>4. PlacesOf(S) = PlacesOf(R) \cup PlacesOf({f})
        <4>1. S = R \cup {f}
          BY <3>1
        <4> HIDE DEF R
        <4> QED
          BY <4>1, PlacesUnion
      <3>5. IsFiniteSet(PlacesOf(S))
        BY <3>3, <3>4, FS_Union DEF Readable
      <3> QED
        BY <3>3, <3>4, <3>5 DEF Readable
    <2> QED
      BY <2>1, <2>2
  <1>3. SUBSET Files \subseteq G
    <2> HIDE DEF G
    <2> QED
      BY <1>1, <1>2, SizeInduction
  <1> QED
    BY <1>3

\* The reference totals of files are the totals over their lines.
LEMMA TotalsOfFiles ==
    ASSUME NEW F
    PROVE  Totals(F, Accepted) = TotalsOf(PlacesOf(F))
  BY DEF Totals, TotalsOf, EntryOf, PlacesOf, AcceptedIn, Tagged, Tags,
         SumOver, Tag, Value, LineAt

\* parseLine accepts what the reference accepts, with the tag and the value
\* that stand in the line.
LEMMA ParseAccepts ==
    ASSUME NEW line \in LineType
    PROVE  /\ Accepted(line) => /\ parseLine(line) = [tag |-> line.tag,
                                                      value |-> line.value]
                                /\ ~(line.tag < 0)
           /\ ~Accepted(line) => parseLine(line).tag < 0
  <1>1. /\ line.comma \in BOOLEAN /\ line.tagEnds \in BOOLEAN
        /\ line.valueEnds \in BOOLEAN
        /\ line.tag \in Int \cup {NotANumber}
    BY DEF LineType
  <1>2. CASE Accepted(line)
    <2>1. line.tag \in Int /\ line.tag >= 0 /\ line.tag <= INT_MAX
      BY <1>1, <1>2 DEF Accepted, WellFormed
    <2>2. line.tag \in -INT_MAX - 1 .. INT_MAX
      BY <2>1, LinesAssumption
    <2> QED
      BY <1>2, <2>1, <2>2 DEF Accepted, WellFormed, parseLine
  <1>3. CASE ~Accepted(line)
    <2>1. CASE /\ line.comma
               /\ line.tag # NotANumber
               /\ line.tag \in -INT_MAX - 1 .. INT_MAX
               /\ line.tagEnds
               /\ line.value # NotANumber
               /\ line.valueEnds
      <3>1. parseLine(line).tag = line.tag
        BY <2>1 DEF parseLine
      <3>2. line.tag \in Int /\ line.tag <= INT_MAX
        BY <2>1, LinesAssumption
      <3>3. ~(line.tag >= 0)
        <4>1. line.tag <= UINT_MAX
          BY <3>2, LinesAssumption DEF UINT_MAX
        <4> QED
          BY <1>3, <2>1, <3>2, <4>1 DEF Accepted, WellFormed
      <3>4. parseLine(line).tag < 0
        BY <3>1, <3>2, <3>3
      <3> QED
        BY <1>3, <3>4
    <2>2. CASE ~ /\ line.comma
                 /\ line.tag # NotANumber
                 /\ line.tag \in -INT_MAX - 1 .. INT_MAX
                 /\ line.tagEnds
                 /\ line.value # NotANumber
                 /\ line.valueEnds
      BY <1>3, <2>2 DEF parseLine
    <2> QED
      BY <2>1, <2>2
  <1> QED
    BY <1>2, <1>3

\* What one more line does to the summary of those before it.
LEMMA LineAdded ==
    ASSUME NEW P, Readable(P), NEW p, p \notin P, LineAt(p) \in LineType
    PROVE  /\ Accepted(LineAt(p)) => AddLine(TotalsOf(P), LineAt(p)) = TotalsOf(P \cup {p})
           /\ ~Accepted(LineAt(p)) => AddLine(TotalsOf(P), LineAt(p)) = TotalsOf(P)
  <1>1. CASE ~Accepted(LineAt(p))
    BY <1>1, ParseAccepts DEF AddLine
  <1>2. CASE Accepted(LineAt(p))
    <2> DEFINE one == [count |-> 1, sum |-> Value(p)]
               T == TotalsOf(P)
               Q == {p}
    <2>1. Tag(p) \in Nat /\ Value(p) \in Int
      BY <1>2 DEF LineType, Accepted, WellFormed, Tag, Value
    <2>2. Readable(Q) /\ P \cap Q = {} /\ Q # {} /\ \A q \in Q : Tag(q) = Tag(p)
      BY <2>1, FS_Singleton DEF Readable
    <2>3. Cardinality(Q) = 1
      BY FS_Singleton
    <2>4. SumOver(Q) = Value(p)
      <3>1. SumOver(Q) = Value(p) + SumOver(Q \ {p})
        BY <2>2, SumRemove
      <3>2. Q \ {p} = {} /\ Readable({})
        BY FS_EmptySet DEF Readable
      <3>3. SumOver({}) = 0
        BY <3>2, SumFirst
      <3> QED
        BY <2>1, <3>1, <3>2, <3>3
    <2>5. EntryOf(Q) = one
      BY <2>3, <2>4 DEF EntryOf
    <2>6. TotalsOf(P \cup Q) =
              Put(T, Tag(p), AddEntry(EntryOrZero(T, Tag(p)), EntryOf(Q)))
      <3> HIDE DEF Q
      <3> QED
        BY <2>2, TotalsPut
    <2>7. AddEntry(EntryOrZero(T, Tag(p)), one) =
              IF Tag(p) \in DOMAIN T THEN AddEntry(T[Tag(p)], one) ELSE one
      <3>1. CASE Tag(p) \in DOMAIN T
        BY <3>1 DEF EntryOrZero
      <3>2. CASE Tag(p) \notin DOMAIN T
        <4>1. Zero.count = 0 /\ Zero.sum = 0 /\ one.count = 1 /\ one.sum = Value(p)
          BY DEF Zero
        <4>2. AddEntry(Zero, one) = one
          <5>1. AddEntry(Zero, one) = [count |-> 0 + 1, sum |-> 0 + Value(p)]
            BY <4>1, Zenon DEF AddEntry
          <5> QED
            BY <2>1, <5>1
        <4> QED
          BY <3>2, <4>2 DEF EntryOrZero
      <3> QED
        BY <3>1, <3>2
    <2>8. AddLine(T, LineAt(p)) =
              Put(T, Tag(p),
                  IF Tag(p) \in DOMAIN T THEN AddEntry(T[Tag(p)], one) ELSE one)
      <3>1. parseLine(LineAt(p)) = [tag |-> Tag(p), value |-> Value(p)] /\ ~(Tag(p) < 0)
        BY <1>2, ParseAccepts DEF Tag, Value
      <3>2. parseLine(LineAt(p)).tag = Tag(p) /\ parseLine(LineAt(p)).value = Value(p)
        BY <3>1
      <3> QED
        BY <3>1, <3>2, Zenon DEF AddLine
    <2> HIDE DEF T, one, Q
    <2>9. AddLine(T, LineAt(p)) = TotalsOf(P \cup Q)
      BY <2>5, <2>6, <2>7, <2>8
    <2> QED
      BY <1>2, <2>9 DEF T, Q
  <1> QED
    BY <1>1, <1>2

\* The summary of one file: its lines are counted and summed up by tag.
LEMMA SummaryOfFile ==
    ASSUME NEW f \in Files
    PROVE  getSummary(Lines[f]) = TotalsOf(PlacesOf({f}))
  <1> DEFINE len == Len(Lines[f])
             UpTo(n) == {p \in PlacesOf({f}) : p[2] <= n}
             Steps(g) == [n \in 0 .. len |-> IF n = 0 THEN NoSummary
                                             ELSE AddLine(g[n - 1], Lines[f][n])]
             upTo == CHOOSE g : g = Steps(g)
             s == [n \in 0 .. len |-> TotalsOf(UpTo(n))]
  <1>1. /\ len \in Nat /\ AcceptedIn(f) \subseteq 1 .. len
        /\ Readable(PlacesOf({f}))
        /\ \A n \in 1 .. len : Lines[f][n] \in LineType
    BY FileReadable, Zenon
  <1>2. AcceptedIn(f) = {n \in 1 .. len : Accepted(Lines[f][n])}
    BY LinesAssumption DEF AcceptedIn, Files
  <1> HIDE DEF len
  <1>3. \A n : Readable(UpTo(n))
    BY <1>1, FS_Subset DEF Readable
  <1>4. TotalsOf(UpTo(0)) = NoSummary
    <2>1. UpTo(0) = {}
      <3>1. SUFFICES ASSUME NEW p \in PlacesOf({f}), p[2] <= 0
                     PROVE  FALSE
        OBVIOUS
      <3>2. PICK n \in AcceptedIn(f) : p = <<f, n>>
        BY PlaceOfFile
      <3> QED
        BY <1>1, <3>1, <3>2
    <2>2. TotalsOf({}) = NoSummary
      <3>1. Tags({}) = {}
        BY DEF Tags
      <3> QED
        BY <3>1 DEF TotalsOf, NoSummary
    <2> QED
      BY <2>1, <2>2
  <1>5. ASSUME NEW n \in 1 .. len
        PROVE  TotalsOf(UpTo(n)) = AddLine(TotalsOf(UpTo(n - 1)), Lines[f][n])
    <2> DEFINE p == <<f, n>>
               P == UpTo(n - 1)
    <2>1. LineAt(p) = Lines[f][n] /\ LineAt(p) \in LineType
      BY <1>1 DEF LineAt
    <2>2. p \notin P
      BY <1>1
    <2>3. \A q \in PlacesOf({f}) : q[2] <= n <=> q[2] <= n - 1 \/ q = p
      <3>1. SUFFICES ASSUME NEW q \in PlacesOf({f})
                     PROVE  q[2] <= n <=> q[2] <= n - 1 \/ q = p
        OBVIOUS
      <3>2. PICK m \in AcceptedIn(f) : q = <<f, m>>
        BY PlaceOfFile
      <3>3. m \in Int /\ n \in Int /\ q[2] = m
        BY <1>1, <3>2
      <3> QED
        BY <3>2, <3>3
    <2>4. p \in PlacesOf({f}) <=> Accepted(Lines[f][n])
      BY <1>2, PlaceOfFile
    <2>5. UpTo(n) = IF Accepted(Lines[f][n]) THEN P \cup {p} ELSE P
      <3>1. CASE Accepted(Lines[f][n])
        BY <2>3, <2>4, <3>1
      <3>2. CASE ~Accepted(Lines[f][n])
        BY <2>3, <2>4, <3>2
      <3> QED
        BY <3>1, <3>2
    <2>6. Readable(P)
      BY <1>3
    <2> HIDE DEF P, UpTo, p
    <2>7. TotalsOf(UpTo(n)) = AddLine(TotalsOf(P), Lines[f][n])
      BY <2>1, <2>2, <2>5, <2>6, LineAdded
    <2> QED
      BY <2>7 DEF P
  <1>6. s = Steps(s)
    <2> HIDE DEF UpTo
    <2>1. \A n \in 0 .. len : s[n] = IF n = 0 THEN NoSummary
                                     ELSE AddLine(s[n - 1], Lines[f][n])
      BY <1>1, <1>4, <1>5
    <2> QED
      BY <2>1
  <1>7. upTo = Steps(upTo)
    <2> HIDE DEF Steps
    <2> QED
      BY <1>6
  <1> HIDE DEF upTo
  <1>8. /\ upTo[0] = NoSummary
        /\ \A n \in 1 .. len : upTo[n] = AddLine(upTo[n - 1], Lines[f][n])
    BY <1>1, <1>7
  <1>9. upTo[len] = TotalsOf(UpTo(len))
    <2> DEFINE T == {n \in 0 .. len : upTo[n] = TotalsOf(UpTo(n))}
    <2>1. 0 \in T
      BY <1>1, <1>4, <1>8
    <2>2. ASSUME NEW n \in 0 .. len - 1, n \in T
          PROVE  n + 1 \in T
      <3>1. n + 1 \in 1 .. len /\ (n + 1) - 1 = n /\ n + 1 \in 0 .. len
        BY <1>1
      <3> HIDE DEF UpTo
      <3>2. upTo[n + 1] = TotalsOf(UpTo(n + 1))
        BY <1>5, <1>8, <2>2, <3>1
      <3> QED
        BY <3>1, <3>2
    <2>3. 0 .. len \subseteq T
      <3> HIDE DEF T
      <3> QED
        BY <1>1, <2>1, <2>2, BoundedInduction
    <2>4. len \in 0 .. len
      BY <1>1
    <2>5. len \in T
      BY <2>3, <2>4, Zenon
    <2> QED
      BY <2>5
  <1>10. UpTo(len) = PlacesOf({f})
    <2>1. ASSUME NEW p \in PlacesOf({f})
          PROVE  p[2] <= len
      <3>1. PICK n \in AcceptedIn(f) : p = <<f, n>>
        BY PlaceOfFile
      <3> QED
        BY <1>1, <3>1
    <2> QED
      BY <2>1
  <1>11. getSummary(Lines[f]) = upTo[len]
    BY DEF getSummary, upTo, Steps, len
  <1> QED
    BY <1>9, <1>10, <1>11

-----------------------------------------------------------------------------
(* Where the workers are. *)

\* A worker has a file in hand that it has opened and not yet combined.
InHand == {"parse", "lock", "find", "store"}
Places == {"none", "loop", "open", "exit"} \cup InHand

\* The indices that worker w goes through.
FilesOf(w) == {w + k * numThreads : k \in Nat}

-----------------------------------------------------------------------------
(* The inductive invariant. *)

ArgsInv ==
    /\ argc \in 1 .. MaxArgs
    /\ argv1 \in (-1 .. MaxThreads) \cup {NotANumber}
    /\ numThreads \in -1 .. MaxThreads
    /\ main = "args" => started = 0
    /\ StartedWithFiles

WorkersInv ==
    /\ pc \in [Workers -> Places]
    /\ index \in [Workers -> Nat]
    /\ started \in Nat
    /\ started > 0 => started <= numThreads
    /\ \A w \in Workers :
           pc[w] # "none" => w < started /\ index[w] \in FilesOf(w)
    /\ \A w \in Workers : pc[w] \in InHand => index[w] \in counted

\* What was combined lies behind the worker whose file it was.
BehindInv ==
    \A i \in combined : \E v \in Workers :
        pc[v] # "none" /\ i \in FilesOf(v) /\ i < index[v]

StridesInv == ArgsInv /\ WorkersInv /\ BehindInv

-----------------------------------------------------------------------------
\* Workers with different numbers have no index in common.
LEMMA StridesDisjoint ==
    ASSUME NEW n \in Nat, NEW a \in 0 .. n - 1, NEW b \in 0 .. n - 1,
           NEW j \in Nat, NEW k \in Nat, a + j * n = b + k * n
    PROVE  a = b
  <1>1. ASSUME NEW x \in 0 .. n - 1, NEW y \in 0 .. n - 1,
               NEW p \in Nat, NEW q \in Nat, x + p * n = y + q * n
        PROVE  p >= q
    <2>1. SUFFICES ASSUME p < q
                   PROVE  FALSE
      OBVIOUS
    <2>2. PICK d \in Nat : q = p + 1 + d
      <3>1. q - p - 1 \in Nat /\ q = p + 1 + (q - p - 1)
        BY <2>1
      <3> QED
        BY <3>1
    <2>3. q * n = p * n + n + d * n
      BY <2>2
    <2>4. d * n \in Nat /\ p * n \in Nat
      OBVIOUS
    <2>5. x = y + n + d * n
      BY <1>1, <2>3, <2>4
    <2> QED
      BY <2>4, <2>5
  <1>2. j = k
    BY <1>1
  <1> QED
    BY <1>2

\* What the strides of two workers have in common makes them one.
LEMMA OneOwner ==
    ASSUME StridesInv, NEW v \in Workers, NEW w \in Workers,
           pc[v] # "none", pc[w] # "none",
           NEW i, i \in FilesOf(v), i \in FilesOf(w)
    PROVE  v = w
  <1>1. /\ v < started /\ w < started /\ started <= numThreads
        /\ numThreads \in Int /\ started \in Nat
    BY SummariserAssumption DEF StridesInv, WorkersInv, ArgsInv, Workers
  <1>2. numThreads \in Nat /\ v \in 0 .. numThreads - 1 /\ w \in 0 .. numThreads - 1
    BY <1>1 DEF Workers
  <1>3. PICK j \in Nat, k \in Nat :
            v + j * numThreads = w + k * numThreads
    BY DEF FilesOf
  <1> QED
    BY <1>2, <1>3, StridesDisjoint

\* Strides that have nothing in common give every file one owner.
LEMMA PartitionedByStrides == StridesInv => FilesPartitioned
  <1>1. SUFFICES ASSUME StridesInv, NEW w \in Workers, pc[w] \in InHand
                 PROVE  /\ index[w] \in counted \ combined
                        /\ \A v \in Workers \ {w} :
                               pc[v] \in {"open"} \cup InHand => index[v] # index[w]
    BY DEF FilesPartitioned, InHand
  <1>2. pc[w] # "none" /\ index[w] \in FilesOf(w) /\ index[w] \in counted
    BY <1>1 DEF StridesInv, WorkersInv, InHand
  <1>3. index[w] \notin combined
    <2>1. SUFFICES ASSUME index[w] \in combined
                   PROVE  FALSE
      OBVIOUS
    <2>2. PICK v \in Workers :
              pc[v] # "none" /\ index[w] \in FilesOf(v) /\ index[w] < index[v]
      BY <1>1, <2>1 DEF StridesInv, BehindInv
    <2>3. v = w
      BY <1>1, <1>2, <2>2, OneOwner
    <2>4. index[w] \in Nat
      BY <1>1 DEF StridesInv, WorkersInv
    <2> QED
      BY <2>2, <2>3, <2>4
  <1>4. ASSUME NEW v \in Workers \ {w}, pc[v] \in {"open"} \cup InHand
        PROVE  index[v] # index[w]
    <2>1. pc[v] # "none" /\ index[v] \in FilesOf(v)
      BY <1>1, <1>4 DEF StridesInv, WorkersInv, InHand
    <2> QED
      BY <1>1, <1>2, <2>1, OneOwner
  <1> QED
    BY <1>2, <1>3, <1>4

-----------------------------------------------------------------------------
(* The steps of the main thread. *)

\* No worker is anywhere yet.
LEMMA StridesInitially == Init => StridesInv
  <1> SUFFICES ASSUME Init
               PROVE  StridesInv
    OBVIOUS
  <1>1. ArgsInv
    BY SummariserAssumption DEF Init, ArgsInv, StartedWithFiles
  <1>2. /\ started = 0 /\ \A w \in Workers : pc[w] = "none"
        /\ pc \in [Workers -> Places] /\ index \in [Workers -> Nat]
    BY DEF Init, Places
  <1>3. WorkersInv
    BY <1>2 DEF WorkersInv, InHand
  <1>4. BehindInv
    BY DEF Init, BehindInv
  <1> QED
    BY <1>1, <1>3, <1>4 DEF StridesInv

\* The early returns of the constructor leave fileNames 0, so that isValid
\* rejects whatever numThreads holds.
LEMMA ParseStep ==
    ASSUME StridesInv, ParseArgs
    PROVE  StridesInv'
  <1>1. /\ main = "args" /\ started = 0 /\ \A w \in Workers : pc[w] = "none"
        /\ combined = {}
    <2>1. main = "args" /\ started = 0
      BY DEF ParseArgs, StridesInv, ArgsInv
    <2>2. \A w \in Workers : pc[w] = "none"
      BY <2>1, SummariserAssumption DEF StridesInv, WorkersInv, Workers
    <2> QED
      BY <2>1, <2>2 DEF StridesInv, BehindInv
  <1>2. ArgsInv'
    <2>1. numThreads' \in -1 .. MaxThreads
      BY SummariserAssumption
      DEF ParseArgs, args, stoiThrows, StridesInv, ArgsInv
    <2>2. main' \in {"start", "join"} =>
              /\ numThreads' > 0 /\ numThreads' <= fileNames'
              /\ validNumberArgs(argc) /\ setThreads(argc, argv1)
      <3>1. ASSUME main' \in {"start", "join"}
            PROVE  isValid(args(argc, argv1, numThreads))
        BY <3>1 DEF ParseArgs
      <3>2. ASSUME isValid(args(argc, argv1, numThreads))
            PROVE  validNumberArgs(argc) /\ setThreads(argc, argv1)
        BY <2>1, <3>2 DEF ParseArgs, isValid, args
      <3> QED
        BY <3>1, <3>2 DEF isValid, ParseArgs
    <2>3. main' \in {"start", "join"} =>
              /\ numThreads' = argv1' /\ fileNames' = argc' - 2
      BY <2>2 DEF ParseArgs, args, setThreads
    <2>4. StartedWithFiles'
      BY <2>1, <2>2, <2>3 DEF StartedWithFiles, StridesInv, ArgsInv
    <2> QED
      BY <1>1, <2>1, <2>4 DEF StridesInv, ArgsInv, ParseArgs
  <1>3. WorkersInv'
    BY <1>1 DEF ParseArgs, workerVars, history, StridesInv, WorkersInv, InHand
  <1>4. BehindInv'
    BY <1>1 DEF ParseArgs, history, BehindInv
  <1> QED
    BY <1>2, <1>3, <1>4 DEF StridesInv

\* A new worker starts at the first index of its stride.
LEMMA StartStep ==
    ASSUME StridesInv, StartThread
    PROVE  StridesInv'
  <1>1. /\ main = "start" /\ numThreads \in 1 .. MaxThreads
        /\ started \in Nat /\ started < numThreads /\ started \in Workers
    BY SummariserAssumption
    DEF StartThread, StridesInv, ArgsInv, WorkersInv, StartedWithFiles, Workers
  <1>2. ArgsInv'
    BY <1>1 DEF StartThread, StridesInv, ArgsInv, StartedWithFiles
  <1>3. pc[started] = "none"
    BY <1>1 DEF StridesInv, WorkersInv
  <1>4. started \in FilesOf(started)
    <2>1. started = started + 0 * numThreads
      BY <1>1
    <2> QED
      BY <2>1 DEF FilesOf
  <1>5. \A v \in Workers : FilesOf(v)' = FilesOf(v)
    BY DEF StartThread, FilesOf
  <1>6. WorkersInv'
    <2>1. /\ pc' \in [Workers -> Places] /\ index' \in [Workers -> Nat]
          /\ started' \in Nat /\ started' <= numThreads'
      BY <1>1 DEF StartThread, StridesInv, WorkersInv, Places
    <2>2. ASSUME NEW w \in Workers, pc'[w] # "none"
          PROVE  w < started' /\ index'[w] \in FilesOf(w)'
      <3>1. CASE w = started
        BY <1>1, <1>4, <1>5, <3>1 DEF StartThread, StridesInv, WorkersInv
      <3>2. CASE w # started
        BY <1>1, <1>5, <2>2, <3>2, SummariserAssumption
        DEF StartThread, StridesInv, WorkersInv, Workers
      <3> QED
        BY <3>1, <3>2
    <2>3. ASSUME NEW w \in Workers, pc'[w] \in InHand
          PROVE  index'[w] \in counted'
      BY <1>1, <2>3 DEF StartThread, history, StridesInv, WorkersInv, InHand
    <2> QED
      BY <2>1, <2>2, <2>3 DEF WorkersInv
  <1>7. BehindInv'
    BY <1>1, <1>3, <1>5 DEF StartThread, history, StridesInv, WorkersInv, BehindInv
  <1> QED
    BY <1>2, <1>6, <1>7 DEF StridesInv

\* The other steps of main change nothing that the invariant speaks of but
\* main itself, which never becomes "start" again.
LEMMA MainStep ==
    ASSUME StridesInv,
           UNCHANGED <<argc, argv1, numThreads, fileNames, started, pc, index,
                       counted, combined>>,
           \/ main' = main
           \/ main' \in {"done", "terminated"}
           \/ main = "start" /\ main' = "join"
    PROVE  StridesInv'
  <1>1. \A v \in Workers : FilesOf(v)' = FilesOf(v)
    BY DEF FilesOf
  <1>2. ArgsInv'
    BY DEF StridesInv, ArgsInv, StartedWithFiles
  <1>3. WorkersInv'
    BY <1>1 DEF StridesInv, WorkersInv
  <1>4. BehindInv'
    BY <1>1 DEF StridesInv, BehindInv
  <1> QED
    BY <1>2, <1>3, <1>4 DEF StridesInv

-----------------------------------------------------------------------------
(* The steps of a worker. *)

\* A worker that goes on with the file at its index; only what it has opened
\* does it take in hand.
LEMMA SameFileStep ==
    ASSUME StridesInv, NEW w \in Workers, NEW place \in Places,
           pc[w] # "none", place # "none",
           pc' = [pc EXCEPT ![w] = place],
           counted \subseteq counted',
           place \in InHand => index[w] \in counted',
           UNCHANGED <<main, argc, argv1, numThreads, fileNames, started,
                       index, combined>>
    PROVE  StridesInv'
  <1>1. \A v \in Workers : FilesOf(v)' = FilesOf(v)
    BY DEF FilesOf
  <1>2. \A v \in Workers : pc'[v] # "none" <=> pc[v] # "none"
    BY DEF StridesInv, WorkersInv
  <1>3. ArgsInv'
    BY DEF StridesInv, ArgsInv, StartedWithFiles
  <1>4. WorkersInv'
    <2>1. pc' \in [Workers -> Places]
      BY DEF StridesInv, WorkersInv
    <2>2. ASSUME NEW v \in Workers, pc'[v] \in InHand
          PROVE  index'[v] \in counted'
      BY <2>2 DEF StridesInv, WorkersInv
    <2> QED
      BY <1>1, <1>2, <2>1, <2>2 DEF StridesInv, WorkersInv
  <1>5. BehindInv'
    BY <1>1, <1>2 DEF StridesInv, BehindInv
  <1> QED
    BY <1>3, <1>4, <1>5 DEF StridesInv

\* A worker that goes on to its next file leaves the one at its index behind,
\* whether it has combined it or could not open it.
LEMMA NextFileStep ==
    ASSUME StridesInv, NEW w \in Workers,
           pc[w] # "none", NextIndex(w),
           pc' = [pc EXCEPT ![w] = "loop"],
           counted' = counted,
           combined' \subseteq combined \cup {index[w]},
           UNCHANGED <<main, argc, argv1, numThreads, fileNames, started>>
    PROVE  StridesInv'
  <1>1. \A v \in Workers : FilesOf(v)' = FilesOf(v)
    BY DEF FilesOf
  <1>2. \A v \in Workers : pc'[v] # "none" <=> pc[v] # "none"
    BY DEF StridesInv, WorkersInv
  <1>3. /\ index[w] \in Nat /\ numThreads \in Nat \ {0}
        /\ index[w] \in FilesOf(w)
        /\ index' = [index EXCEPT ![w] = index[w] + numThreads]
    <2>1. w \in Nat /\ w < started /\ started <= numThreads /\ started \in Nat
      BY SummariserAssumption DEF StridesInv, WorkersInv, Workers
    <2>2. numThreads \in Nat \ {0}
      BY <2>1, SummariserAssumption DEF StridesInv, ArgsInv
    <2> QED
      BY <2>2 DEF StridesInv, WorkersInv, NextIndex
  <1>4. index[w] + numThreads \in FilesOf(w)
    <2>1. PICK k \in Nat : index[w] = w + k * numThreads
      BY <1>3 DEF FilesOf
    <2>2. index[w] + numThreads = w + (k + 1) * numThreads
      BY <1>3, <2>1, SummariserAssumption DEF Workers
    <2> QED
      BY <2>2 DEF FilesOf
  <1>5. /\ index' \in [Workers -> Nat]
        /\ \A v \in Workers : index[v] <= index'[v]
        /\ index[w] < index'[w]
    BY <1>3 DEF StridesInv, WorkersInv
  <1>6. ArgsInv'
    BY DEF StridesInv, ArgsInv, StartedWithFiles
  <1>7. WorkersInv'
    <2>1. pc' \in [Workers -> Places]
      BY DEF StridesInv, WorkersInv, Places
    <2>2. ASSUME NEW v \in Workers, pc'[v] # "none"
          PROVE  v < started' /\ index'[v] \in FilesOf(v)'
      BY <1>1, <1>2, <1>3, <1>4, <2>2 DEF StridesInv, WorkersInv
    <2>3. ASSUME NEW v \in Workers, pc'[v] \in InHand
          PROVE  index'[v] \in counted'
      BY <1>3, <2>3 DEF StridesInv, WorkersInv, InHand
    <2> QED
      BY <1>5, <2>1, <2>2, <2>3 DEF StridesInv, WorkersInv
  <1>8. BehindInv'
    <2>1. SUFFICES ASSUME NEW i \in combined'
                   PROVE  \E v \in Workers :
                              pc'[v] # "none" /\ i \in FilesOf(v)' /\ i < index'[v]
      BY DEF BehindInv
    <2>2. CASE i = index[w]
      BY <1>1, <1>2, <1>3, <1>5, <2>2
    <2>3. CASE i \in combined
      <3>1. PICK v \in Workers : pc[v] # "none" /\ i \in FilesOf(v) /\ i < index[v]
        BY <2>3 DEF StridesInv, BehindInv
      <3>2. i \in Int
        BY <3>1, SummariserAssumption DEF FilesOf, Workers, StridesInv, ArgsInv
      <3>3. index[v] \in Nat /\ index'[v] \in Nat /\ index[v] <= index'[v]
        BY <1>5 DEF StridesInv, WorkersInv
      <3>4. i < index'[v]
        BY <3>1, <3>2, <3>3
      <3> QED
        BY <1>1, <1>2, <3>1, <3>4
    <2> QED
      BY <2>1, <2>2, <2>3
  <1> QED
    BY <1>6, <1>7, <1>8 DEF StridesInv

\* Every step of a worker stays at a file or goes to the next one.
LEMMA WorkerStep ==
    ASSUME StridesInv, NEW w \in Workers, summariserFunc(w)
    PROVE  StridesInv'
  <1> USE DEF mainVars, workerVars, history, Places, InHand
  <1>1. CASE LockNames(w)
    BY <1>1, SameFileStep DEF LockNames
  <1>2. ASSUME NEW isOpen \in BOOLEAN, openFile(w, isOpen)
        PROVE  StridesInv'
    <2>1. CASE isOpen
      <3>1. pc[w] = "open" /\ pc' = [pc EXCEPT ![w] = "parse"]
            /\ counted' = counted \cup {index[w]}
            /\ UNCHANGED <<main, mainVars, index, combined>>
        BY <1>2, <2>1 DEF openFile
      <3> QED
        BY <3>1, SameFileStep
    <2>2. CASE ~isOpen
      <3>1. pc[w] = "open" /\ NextIndex(w) /\ pc' = [pc EXCEPT ![w] = "loop"]
            /\ UNCHANGED <<main, mainVars, counted, combined>>
        BY <1>2, <2>2 DEF openFile
      <3> QED
        BY <3>1, NextFileStep
    <2> QED
      BY <2>1, <2>2
  <1>3. CASE SummariseFile(w)
    BY <1>3, SameFileStep DEF SummariseFile, StridesInv, WorkersInv
  <1>4. CASE LockNet(w)
    BY <1>4, SameFileStep DEF LockNet, StridesInv, WorkersInv
  <1>5. CASE FindTag(w)
    BY <1>5, SameFileStep DEF FindTag, StridesInv, WorkersInv
  <1>6. CASE StoreTag(w)
    BY <1>6, SameFileStep DEF StoreTag, StridesInv, WorkersInv
  <1>7. CASE UnlockNet(w)
    <2>1. pc[w] = "find" /\ NextIndex(w) /\ pc' = [pc EXCEPT ![w] = "loop"]
          /\ combined' = combined \cup {index[w]}
          /\ UNCHANGED <<main, mainVars, counted>>
      BY <1>7 DEF UnlockNet
    <2> QED
      BY <2>1, NextFileStep
  <1>8. CASE Return(w)
    BY <1>8, SameFileStep DEF Return
  <1> QED
    BY <1>1, <1>2, <1>3, <1>4, <1>5, <1>6, <1>7, <1>8 DEF summariserFunc

-----------------------------------------------------------------------------
\* The inductive invariant holds: numThreads has its value before a worker
\* starts and keeps it, so that each stays in its own stride and only ever
\* moves forward in it.
THEOREM StridesCorrect == Spec => []StridesInv
  <1>1. ASSUME StridesInv, [Next]_vars
        PROVE  StridesInv'
    <2>1. CASE ParseArgs
      BY <1>1, <2>1, ParseStep
    <2>2. CASE StartThread
      BY <1>1, <2>2, StartStep
    <2>3. CASE StartThreadThrows
      BY <1>1, <2>3, MainStep
      DEF StartThreadThrows, mainVars, workerVars, history
    <2>4. CASE AllStarted
      BY <1>1, <2>4, MainStep DEF AllStarted, mainVars, workerVars, history
    <2>5. CASE JoinThread
      BY <1>1, <2>5, MainStep DEF JoinThread, workerVars, history
    <2>6. CASE printSummary
      BY <1>1, <2>6, MainStep DEF printSummary, mainVars, workerVars, history
    <2>7. ASSUME NEW w \in Workers, summariserFunc(w)
          PROVE  StridesInv'
      BY <1>1, <2>7, WorkerStep
    <2>8. CASE UNCHANGED vars
      BY <1>1, <2>8, MainStep DEF vars, mainVars, workerVars, history
    <2> QED
      BY <1>1, <2>1, <2>2, <2>3, <2>4, <2>5, <2>6, <2>7, <2>8
      DEF Next, Main, Ended
  <1> QED
    BY StridesInitially, <1>1, PTL DEF Spec

\* Whatever the uninitialised numThreads held, the workers are started for a
\* command line that has at least one file for each of them.
THEOREM EveryWorkerHasAFile == Spec => []StartedWithFiles
  <1>1. StridesInv => StartedWithFiles
    BY DEF StridesInv, ArgsInv
  <1> QED
    BY <1>1, StridesCorrect, PTL

\* No file is in two hands, and none is taken up again after it was combined,
\* for any number of threads and files.
THEOREM FilesShared == Spec => []FilesPartitioned
  BY PartitionedByStrides, StridesCorrect, PTL

-----------------------------------------------------------------------------
(* The inductive invariant of the totals. *)

\* The lines of the file of worker w whose tags it has combined.
Combined(w) == {p \in PlacesOf({index[w]}) : Tag(p) \notin rest[w]}
NetMutexHeld == {"find", "store"}

FilesInv ==
    /\ fileNames \in 0 .. MaxArgs - 2 \cup {0}
    /\ taken \subseteq FileIndex /\ counted \subseteq taken /\ combined \subseteq counted
    /\ main = "args" => fileNames = 0 /\ taken = {}
    /\ \A w \in Workers : pc[w] \in {"open"} \cup InHand => index[w] < fileNames

PartsInv ==
    /\ part = [w \in Workers |-> part[w]]
    /\ \A w \in Workers : IsSummary(part[w])
    /\ cell \in [Workers -> Entries]
    /\ rest \in [Workers -> SUBSET Nat]
    /\ \A w \in Workers :
           /\ rest[w] \subseteq DOMAIN part[w]
           /\ pc[w] \notin NetMutexHeld => rest[w] = {}
           /\ pc[w] \in {"lock"} \cup NetMutexHeld =>
                  part[w] = TotalsOf(PlacesOf({index[w]}))

NetInv ==
    /\ netSummaryMutex \in Workers \cup {NoWorker}
    /\ \A w \in Workers : pc[w] \in NetMutexHeld <=> netSummaryMutex = w
    /\ netSummaryMutex = NoWorker => netSummary = TotalsOf(PlacesOf(combined))
    /\ \A w \in Workers :
           /\ netSummaryMutex = w =>
                  netSummary = TotalsOf(PlacesOf(combined) \cup Combined(w))
           /\ pc[w] = "store" =>
                  /\ rest[w] # {}
                  /\ cell[w] = EntryOrZero(netSummary, NextTag(w))

SumsInv == FilesInv /\ PartsInv /\ NetInv

\* The file that a worker has to do with is one of those named.
LEMMA FilesKnown ==
    ASSUME StridesInv, FilesInv
    PROVE  /\ FileIndex \subseteq Files
           /\ combined \subseteq FileIndex
           /\ \A w \in Workers : pc[w] \in {"open"} \cup InHand =>
                  index[w] \in FileIndex /\ index[w] \in Files
  <1>1. FileIndex \subseteq Files
    BY SummariserAssumption DEF FilesInv, FileIndex, Files
  <1>2. combined \subseteq FileIndex
    BY DEF FilesInv
  <1>3. ASSUME NEW w \in Workers, pc[w] \in {"open"} \cup InHand
        PROVE  index[w] \in FileIndex
    <2>1. index[w] \in Nat /\ index[w] < fileNames /\ fileNames \in Int
      BY <1>3, SummariserAssumption DEF StridesInv, WorkersInv, FilesInv
    <2> QED
      BY <2>1 DEF FileIndex
  <1> QED
    BY <1>1, <1>2, <1>3

\* What the net summary may be the totals of.
LEMMA NetReadable ==
    ASSUME StridesInv, SumsInv
    PROVE  /\ Readable(PlacesOf(combined))
           /\ \A w \in Workers : pc[w] \in NetMutexHeld =>
                  /\ Readable(PlacesOf(combined) \cup Combined(w))
                  /\ Readable(PlacesOf({index[w]}))
                  /\ PlacesOf(combined) \cap PlacesOf({index[w]}) = {}
  <1>1. Readable(PlacesOf(combined))
    BY FilesKnown, PlacesReadable DEF SumsInv
  <1>2. ASSUME NEW w \in Workers, pc[w] \in NetMutexHeld
        PROVE  /\ Readable(PlacesOf(combined) \cup Combined(w))
               /\ Readable(PlacesOf({index[w]}))
               /\ PlacesOf(combined) \cap PlacesOf({index[w]}) = {}
    <2>1. index[w] \in Files /\ index[w] \notin combined
      <3>1. pc[w] \in InHand
        BY <1>2 DEF NetMutexHeld, InHand
      <3> QED
        BY <3>1, FilesKnown, PartitionedByStrides
        DEF SumsInv, FilesPartitioned, InHand
    <2>2. Readable(PlacesOf({index[w]}))
      BY <2>1, FileReadable
    <2>3. PlacesOf(combined) \cap PlacesOf({index[w]}) = {}
      <3>1. combined \cap {index[w]} = {}
        BY <2>1
      <3> QED
        BY <3>1, PlacesUnion
    <2>4. Combined(w) \subseteq PlacesOf({index[w]}) /\ Readable(Combined(w))
      BY <2>2, FS_Subset DEF Combined, Readable
    <2>5. Readable(PlacesOf(combined) \cup Combined(w))
      BY <1>1, <2>3, <2>4, SumUnion
    <2> QED
      BY <2>2, <2>3, <2>5
  <1> QED
    BY <1>1, <1>2

\* A worker between two places where it has no part of the net summary.
LEMMA ElsewhereStep ==
    ASSUME StridesInv, SumsInv, NEW w \in Workers, NEW place,
           pc[w] \notin {"lock"} \cup NetMutexHeld,
           place \notin {"lock"} \cup NetMutexHeld,
           pc' = [pc EXCEPT ![w] = place],
           \A v \in Workers \ {w} : index'[v] = index[v],
           UNCHANGED <<part, rest, cell, netSummary, netSummaryMutex, combined>>
    PROVE  PartsInv' /\ NetInv'
  <1>1. /\ pc'[w] = place
        /\ \A v \in Workers \ {w} : pc'[v] = pc[v]
    BY DEF StridesInv, WorkersInv
  <1>2. PartsInv'
    <2>1. ASSUME NEW v \in Workers
          PROVE  /\ rest'[v] \subseteq DOMAIN part'[v]
                 /\ pc'[v] \notin NetMutexHeld => rest'[v] = {}
                 /\ pc'[v] \in {"lock"} \cup NetMutexHeld =>
                        part'[v] = TotalsOf(PlacesOf({index'[v]}))
      <3>1. CASE v = w
        BY <1>1, <3>1 DEF SumsInv, PartsInv
      <3>2. CASE v # w
        BY <1>1, <3>2 DEF SumsInv, PartsInv
      <3> QED
        BY <3>1, <3>2
    <2> QED
      BY <2>1 DEF SumsInv, PartsInv
  <1>3. NetInv'
    <2>1. \A v \in Workers : pc'[v] \in NetMutexHeld <=> netSummaryMutex' = v
      BY <1>1 DEF SumsInv, NetInv
    <2>2. ASSUME NEW v \in Workers
          PROVE  /\ netSummaryMutex' = v =>
                        netSummary' = TotalsOf(PlacesOf(combined') \cup Combined(v)')
                 /\ pc'[v] = "store" =>
                        /\ rest'[v] # {}
                        /\ cell'[v] = EntryOrZero(netSummary', NextTag(v)')
      <3>1. CASE v = w
        BY <1>1, <2>1, <3>1 DEF NetMutexHeld
      <3>2. CASE v # w
        <4>1. Combined(v)' = Combined(v)
          BY <3>2 DEF Combined
        <4>2. NextTag(v)' = NextTag(v)
          BY DEF NextTag
        <4> QED
          BY <1>1, <3>2, <4>1, <4>2 DEF SumsInv, NetInv
      <3> QED
        BY <3>1, <3>2
    <2> QED
      BY <2>1, <2>2 DEF SumsInv, NetInv
  <1> QED
    BY <1>2, <1>3

\* What getSummary returns is the totals of the file.
LEMMA SummariseStep ==
    ASSUME StridesInv, SumsInv, NEW w \in Workers, SummariseFile(w)
    PROVE  PartsInv' /\ NetInv'
  <1> DEFINE sum == TotalsOf(PlacesOf({index[w]}))
  <1>1. /\ pc[w] = "parse" /\ pc'[w] = "lock" /\ part'[w] = getSummary(Lines[index[w]])
        /\ \A v \in Workers \ {w} : pc'[v] = pc[v] /\ part'[v] = part[v]
        /\ part' = [v \in Workers |-> part'[v]]
        /\ UNCHANGED <<index, rest, cell, netSummary, netSummaryMutex, combined>>
    BY DEF SummariseFile, history, StridesInv, WorkersInv, SumsInv, PartsInv
  <1>2. index[w] \in Files
    BY <1>1, FilesKnown DEF SumsInv, InHand
  <1>3. part'[w] = sum /\ IsSummary(sum)
    BY <1>1, <1>2, SummaryOfFile, FileReadable, TotalsTyped
  <1> HIDE DEF sum
  <1>4. PartsInv'
    <2>1. ASSUME NEW v \in Workers
          PROVE  /\ IsSummary(part'[v])
                 /\ rest'[v] \subseteq DOMAIN part'[v]
                 /\ pc'[v] \notin NetMutexHeld => rest'[v] = {}
                 /\ pc'[v] \in {"lock"} \cup NetMutexHeld =>
                        part'[v] = TotalsOf(PlacesOf({index'[v]}))
      <3>1. CASE v = w
        BY <1>1, <1>3, <3>1 DEF SumsInv, PartsInv, NetMutexHeld, sum
      <3>2. CASE v # w
        BY <1>1, <3>2 DEF SumsInv, PartsInv
      <3> QED
        BY <3>1, <3>2
    <2> QED
      BY <1>1, <2>1 DEF SumsInv, PartsInv
  <1>5. NetInv'
    <2>1. \A v \in Workers : Combined(v)' = Combined(v) /\ NextTag(v)' = NextTag(v)
      BY <1>1 DEF Combined, NextTag
    <2> QED
      BY <1>1, <2>1 DEF SumsInv, NetInv, NetMutexHeld
  <1> QED
    BY <1>4, <1>5

\* The holder of the mutex has combined nothing of its file yet.
LEMMA LockStep ==
    ASSUME StridesInv, SumsInv, NEW w \in Workers, LockNet(w)
    PROVE  PartsInv' /\ NetInv'
  <1> DEFINE P == PlacesOf({index[w]})
  <1>1. /\ pc[w] = "lock" /\ pc'[w] = "find"
        /\ netSummaryMutex = NoWorker /\ netSummaryMutex' = w
        /\ rest'[w] = DOMAIN part[w]
        /\ \A v \in Workers \ {w} : pc'[v] = pc[v] /\ rest'[v] = rest[v]
        /\ UNCHANGED <<index, part, cell, netSummary, combined>>
    BY DEF LockNet, FreeNet, history, StridesInv, WorkersInv, SumsInv, PartsInv
  <1>2. part[w] = TotalsOf(P) /\ IsSummary(part[w])
    BY <1>1 DEF SumsInv, PartsInv
  <1>3. DOMAIN part[w] = Tags(P) /\ Tags(P) \subseteq Nat
    BY <1>2 DEF TotalsOf, IsSummary
  <1> HIDE DEF P
  <1>4. PartsInv'
    <2>1. rest' \in [Workers -> SUBSET Nat]
      BY <1>3 DEF LockNet, SumsInv, PartsInv
    <2>2. ASSUME NEW v \in Workers
          PROVE  /\ rest'[v] \subseteq DOMAIN part'[v]
                 /\ pc'[v] \notin NetMutexHeld => rest'[v] = {}
                 /\ pc'[v] \in {"lock"} \cup NetMutexHeld =>
                        part'[v] = TotalsOf(PlacesOf({index'[v]}))
      <3>1. CASE v = w
        BY <1>1, <1>2, <3>1 DEF NetMutexHeld, P
      <3>2. CASE v # w
        BY <1>1, <3>2 DEF SumsInv, PartsInv
      <3> QED
        BY <3>1, <3>2
    <2> QED
      BY <1>1, <2>1, <2>2 DEF SumsInv, PartsInv
  <1>5. NetInv'
    <2>1. \A v \in Workers : pc[v] \notin NetMutexHeld
      BY <1>1, SummariserAssumption DEF SumsInv, NetInv
    <2>2. \A v \in Workers : pc'[v] \in NetMutexHeld <=> netSummaryMutex' = v
      BY <1>1, <2>1 DEF NetMutexHeld
    <2>3. \A v \in Workers : pc'[v] # "store"
      BY <1>1, <2>1 DEF NetMutexHeld
    <2>4. Combined(w)' = {}
      BY <1>1, <1>3 DEF Combined, Tags, P
    <2>5. netSummary' = TotalsOf(PlacesOf(combined') \cup Combined(w)')
      <3>1. PlacesOf(combined) \cup Combined(w)' = PlacesOf(combined)
        BY <2>4
      <3> QED
        BY <1>1, <3>1 DEF SumsInv, NetInv
    <2> QED
      BY <1>1, <2>2, <2>3, <2>5, SummariserAssumption DEF NetInv
  <1> QED
    BY <1>4, <1>5

\* std::map's first key.
LEMMA NextTagIn ==
    ASSUME PartsInv, NEW w \in Workers, rest[w] # {}
    PROVE  NextTag(w) \in rest[w] /\ rest[w] \subseteq Nat
  <1>1. rest[w] \in SUBSET Nat
    BY DEF PartsInv
  <1>2. \E tag \in rest[w] : \A other \in rest[w] : tag <= other
    BY <1>1, LeastExists
  <1> QED
    BY <1>1, <1>2 DEF NextTag

\* The entry read stays the entry of netSummary: nobody else can write.
LEMMA FindStep ==
    ASSUME StridesInv, SumsInv, NEW w \in Workers, FindTag(w)
    PROVE  PartsInv' /\ NetInv'
  <1> DEFINE entry == EntryOrZero(netSummary, NextTag(w))
  <1>1. /\ pc[w] = "find" /\ rest[w] # {} /\ pc'[w] = "store"
        /\ cell' = [cell EXCEPT ![w] = entry]
        /\ \A v \in Workers \ {w} : pc'[v] = pc[v]
        /\ UNCHANGED <<index, part, rest, netSummary, netSummaryMutex, combined>>
    BY DEF FindTag, EntryOrZero, history, StridesInv, WorkersInv
  <1>2. entry \in Entries
    <2>1. netSummaryMutex = w /\ pc[w] \in NetMutexHeld
      BY <1>1 DEF SumsInv, NetInv, NetMutexHeld
    <2>2. netSummary = TotalsOf(PlacesOf(combined) \cup Combined(w))
      BY <2>1 DEF SumsInv, NetInv
    <2>3. IsSummary(netSummary)
      BY <2>1, <2>2, NetReadable, TotalsTyped
    <2> QED
      BY <2>3 DEF EntryOrZero, IsSummary, Zero, Entries
  <1> HIDE DEF entry
  <1>3. cell' \in [Workers -> Entries] /\ cell'[w] = entry
        /\ \A v \in Workers \ {w} : cell'[v] = cell[v]
    BY <1>1, <1>2 DEF SumsInv, PartsInv
  <1>4. PartsInv'
    <2>1. \A v \in Workers : pc'[v] \in NetMutexHeld <=> pc[v] \in NetMutexHeld
      BY <1>1 DEF NetMutexHeld
    <2>2. \A v \in Workers : pc'[v] \in {"lock"} \cup NetMutexHeld =>
                                 pc[v] \in {"lock"} \cup NetMutexHeld
      BY <1>1 DEF NetMutexHeld
    <2> QED
      BY <1>1, <1>3, <2>1, <2>2 DEF SumsInv, PartsInv
  <1>5. NetInv'
    <2>1. \A v \in Workers : pc'[v] \in NetMutexHeld <=> pc[v] \in NetMutexHeld
      BY <1>1 DEF NetMutexHeld
    <2>2. \A v \in Workers : Combined(v)' = Combined(v) /\ NextTag(v)' = NextTag(v)
      BY <1>1 DEF Combined, NextTag
    <2>3. ASSUME NEW v \in Workers, pc'[v] = "store"
          PROVE  rest'[v] # {} /\ cell'[v] = EntryOrZero(netSummary', NextTag(v)')
      <3>1. CASE v = w
        BY <1>1, <1>3, <2>2, <3>1 DEF entry
      <3>2. CASE v # w
        BY <1>1, <1>3, <2>2, <2>3, <3>2 DEF SumsInv, NetInv
      <3> QED
        BY <3>1, <3>2
    <2> QED
      BY <1>1, <2>1, <2>2, <2>3 DEF SumsInv, NetInv
  <1> QED
    BY <1>4, <1>5

\* The entry written back is that of all the lines combined with the tag.
LEMMA StoreStep ==
    ASSUME StridesInv, SumsInv, NEW w \in Workers, StoreTag(w)
    PROVE  PartsInv' /\ NetInv'
  <1> DEFINE tag == NextTag(w)
             F == PlacesOf({index[w]})
             Q == Tagged(F, tag)
             P == PlacesOf(combined) \cup Combined(w)
  <1>1. /\ pc[w] = "store" /\ pc'[w] = "find"
        /\ netSummary' = Put(netSummary, tag, AddEntry(cell[w], part[w][tag]))
        /\ rest'[w] = rest[w] \ {tag}
        /\ \A v \in Workers \ {w} : pc'[v] = pc[v] /\ rest'[v] = rest[v]
        /\ UNCHANGED <<index, part, cell, netSummaryMutex, combined>>
    BY DEF StoreTag, history, StridesInv, WorkersInv, SumsInv, PartsInv
  <1>2. /\ netSummaryMutex = w /\ pc[w] \in NetMutexHeld
        /\ rest[w] # {} /\ cell[w] = EntryOrZero(netSummary, tag)
        /\ netSummary = TotalsOf(P)
        /\ part[w] = TotalsOf(F) /\ rest[w] \subseteq DOMAIN part[w]
    BY <1>1 DEF SumsInv, NetInv, PartsInv, NetMutexHeld
  <1>3. tag \in rest[w] /\ rest[w] \subseteq Nat
    BY <1>2, NextTagIn DEF SumsInv
  <1>4. tag \in Tags(F) /\ part[w][tag] = EntryOf(Q)
    BY <1>2, <1>3 DEF TotalsOf
  <1>5. Readable(P) /\ Readable(F) /\ PlacesOf(combined) \cap F = {}
    BY <1>2, NetReadable
  <1>6. /\ Readable(Q) /\ P \cap Q = {} /\ Q # {}
        /\ \A q \in Q : Tag(q) = tag
    <2>1. Readable(Q)
      BY <1>5, FS_Subset DEF Readable, Tagged
    <2>2. P \cap Q = {}
      BY <1>3, <1>5 DEF Combined, Tagged
    <2>3. Q # {} /\ \A q \in Q : Tag(q) = tag
      BY <1>4 DEF Tags, Tagged
    <2> QED
      BY <2>1, <2>2, <2>3
  <1>7. netSummary' = TotalsOf(P \cup Q)
    <2> HIDE DEF P, Q, tag
    <2> QED
      BY <1>1, <1>2, <1>4, <1>5, <1>6, TotalsPut
  <1>8. P \cup Q = PlacesOf(combined') \cup Combined(w)'
    <2>1. Combined(w)' = Combined(w) \cup Q
      <3>1. Combined(w)' = {p \in F : Tag(p) \notin rest[w] \ {tag}}
        BY <1>1 DEF Combined
      <3>2. Combined(w) = {p \in F : Tag(p) \notin rest[w]}
        BY DEF Combined
      <3> HIDE DEF F, tag
      <3> QED
        BY <1>3, <3>1, <3>2 DEF Tagged
    <2> QED
      BY <1>1, <2>1
  <1> HIDE DEF P, Q, F, tag
  <1>9. PartsInv'
    <2>1. rest' \in [Workers -> SUBSET Nat]
      BY <1>3 DEF StoreTag, SumsInv, PartsInv
    <2>2. ASSUME NEW v \in Workers
          PROVE  /\ rest'[v] \subseteq DOMAIN part'[v]
                 /\ pc'[v] \notin NetMutexHeld => rest'[v] = {}
                 /\ pc'[v] \in {"lock"} \cup NetMutexHeld =>
                        part'[v] = TotalsOf(PlacesOf({index'[v]}))
      <3>1. CASE v = w
        BY <1>1, <1>2, <3>1 DEF NetMutexHeld, F
      <3>2. CASE v # w
        BY <1>1, <3>2 DEF SumsInv, PartsInv
      <3> QED
        BY <3>1, <3>2
    <2> QED
      BY <1>1, <2>1, <2>2 DEF SumsInv, PartsInv
  <1>10. NetInv'
    <2>1. \A v \in Workers : pc'[v] \in NetMutexHeld <=> netSummaryMutex' = v
      BY <1>1 DEF SumsInv, NetInv, NetMutexHeld
    <2>2. \A v \in Workers : pc'[v] # "store"
      BY <1>1, <1>2 DEF SumsInv, NetInv, NetMutexHeld
    <2>3. netSummary' = TotalsOf(PlacesOf(combined') \cup Combined(w)')
      BY <1>7, <1>8
    <2> QED
      BY <1>1, <1>2, <2>1, <2>2, <2>3, SummariserAssumption DEF NetInv
  <1> QED
    BY <1>9, <1>10

\* All tags combined: the file is.
LEMMA UnlockStep ==
    ASSUME StridesInv, SumsInv, NEW w \in Workers, UnlockNet(w)
    PROVE  PartsInv' /\ NetInv'
  <1>1. /\ pc[w] = "find" /\ pc'[w] = "loop" /\ rest[w] = {}
        /\ netSummaryMutex' = NoWorker
        /\ combined' = combined \cup {index[w]}
        /\ \A v \in Workers \ {w} : pc'[v] = pc[v] /\ index'[v] = index[v]
        /\ UNCHANGED <<part, rest, cell, netSummary>>
    BY DEF UnlockNet, NextIndex, StridesInv, WorkersInv
  <1>2. netSummaryMutex = w /\ \A v \in Workers \ {w} : pc[v] \notin NetMutexHeld
    BY <1>1 DEF SumsInv, NetInv, NetMutexHeld
  <1>3. PartsInv'
    <2>1. ASSUME NEW v \in Workers
          PROVE  /\ rest'[v] \subseteq DOMAIN part'[v]
                 /\ pc'[v] \notin NetMutexHeld => rest'[v] = {}
                 /\ pc'[v] \in {"lock"} \cup NetMutexHeld =>
                        part'[v] = TotalsOf(PlacesOf({index'[v]}))
      <3>1. CASE v = w
        BY <1>1, <3>1 DEF NetMutexHeld
      <3>2. CASE v # w
        BY <1>1, <3>2 DEF SumsInv, PartsInv
      <3> QED
        BY <3>1, <3>2
    <2> QED
      BY <1>1, <2>1 DEF SumsInv, PartsInv
  <1>4. NetInv'
    <2>1. Combined(w) = PlacesOf({index[w]})
      BY <1>1 DEF Combined
    <2>2. netSummary = TotalsOf(PlacesOf(combined'))
      <3>1. PlacesOf(combined) \cup PlacesOf({index[w]}) = PlacesOf(combined')
        BY <1>1, PlacesUnion
      <3> QED
        BY <1>2, <2>1, <3>1 DEF SumsInv, NetInv
    <2>3. \A v \in Workers : pc'[v] \notin NetMutexHeld
      BY <1>1, <1>2 DEF NetMutexHeld
    <2> QED
      BY <1>1, <2>2, <2>3, SummariserAssumption DEF NetInv, NetMutexHeld
  <1> QED
    BY <1>3, <1>4

\* A worker that is somewhere has been started.
LEMMA StartedWorker ==
    ASSUME StridesInv, NEW w \in Workers, pc[w] # "none"
    PROVE  main # "args" /\ numThreads \in Nat \ {0} /\ index[w] \in Nat
  <1>1. w \in Nat /\ w < started /\ started \in Nat /\ started <= numThreads
    BY SummariserAssumption DEF StridesInv, WorkersInv, Workers
  <1>2. numThreads \in Int
    BY SummariserAssumption DEF StridesInv, ArgsInv
  <1> QED
    BY <1>1, <1>2 DEF StridesInv, ArgsInv, WorkersInv

\* While the arguments are parsed there are no workers.
LEMMA BeforeStart ==
    ASSUME StridesInv, main = "args"
    PROVE  \A w \in Workers : pc[w] = "none"
  BY StartedWorker

\* A step within a file or to the next one, for FilesInv.
LEMMA FilesStep ==
    ASSUME StridesInv, FilesInv, NEW w \in Workers, NEW place,
           pc[w] # "none",
           pc' = [pc EXCEPT ![w] = place],
           place \in {"open"} \cup InHand => index[w] < fileNames /\ index'[w] = index[w],
           \A v \in Workers \ {w} : index'[v] = index[v],
           fileNames' = fileNames, main' = main,
           taken' \subseteq FileIndex, counted' \subseteq taken', combined' \subseteq counted'
    PROVE  FilesInv'
  <1>1. \A v \in Workers : pc'[v] = IF v = w THEN place ELSE pc[v]
    BY DEF StridesInv, WorkersInv
  <1>2. main' # "args"
    BY StartedWorker
  <1>3. FileIndex' = FileIndex
    BY DEF FileIndex
  <1> QED
    BY <1>1, <1>2, <1>3 DEF FilesInv

\* Every step of a worker preserves the totals.
LEMMA SumsWorkerStep ==
    ASSUME StridesInv, SumsInv, NEW w \in Workers, summariserFunc(w)
    PROVE  SumsInv'
  <1> USE DEF mainVars, workerVars, history
  <1>1. /\ \A v \in Workers : index[v] \in Nat
        /\ pc \in [Workers -> Places] /\ index \in [Workers -> Nat]
        /\ taken \subseteq FileIndex /\ counted \subseteq taken /\ combined \subseteq counted
        /\ FilesInv
    BY DEF StridesInv, WorkersInv, SumsInv, FilesInv
  <1>2. CASE LockNames(w)
    <2>1. FilesInv'
      BY <1>1, <1>2, FilesStep DEF LockNames, MoreFiles, InHand
    <2>2. PartsInv' /\ NetInv'
      BY <1>2, ElsewhereStep DEF LockNames, NetMutexHeld
    <2> QED
      BY <2>1, <2>2 DEF SumsInv
  <1>3. ASSUME NEW isOpen \in BOOLEAN, openFile(w, isOpen)
        PROVE  SumsInv'
    <2>1. /\ pc[w] = "open" /\ taken' = taken \cup {index[w]}
          /\ UNCHANGED <<main, mainVars, part, rest, cell, netSummary,
                         netSummaryMutex, combined>>
      BY <1>3 DEF openFile
    <2>2. index[w] \in FileIndex /\ index[w] < fileNames
      BY <1>1, <2>1, FilesKnown DEF FilesInv
    <2>3. CASE isOpen
      <3>1. /\ counted' = counted \cup {index[w]} /\ UNCHANGED index
            /\ pc' = [pc EXCEPT ![w] = "parse"]
        BY <1>3, <2>3 DEF openFile
      <3>2. FilesInv'
        BY <1>1, <2>1, <2>2, <3>1, FilesStep DEF InHand
      <3>3. PartsInv' /\ NetInv'
        BY <2>1, <3>1, ElsewhereStep DEF NetMutexHeld
      <3> QED
        BY <3>2, <3>3 DEF SumsInv
    <2>4. CASE ~isOpen
      <3>1. /\ counted' = counted /\ NextIndex(w)
            /\ pc' = [pc EXCEPT ![w] = "loop"]
        BY <1>3, <2>4 DEF openFile
      <3>2. \A v \in Workers \ {w} : index'[v] = index[v]
        BY <1>1, <3>1 DEF NextIndex
      <3>3. FilesInv'
        BY <1>1, <2>1, <2>2, <3>1, <3>2, FilesStep DEF InHand
      <3>4. PartsInv' /\ NetInv'
        BY <2>1, <3>1, <3>2, ElsewhereStep DEF NetMutexHeld
      <3> QED
        BY <3>3, <3>4 DEF SumsInv
    <2> QED
      BY <2>3, <2>4
  <1>4. CASE SummariseFile(w)
    <2>1. FilesInv'
      BY <1>1, <1>4, FilesStep DEF SummariseFile, InHand, FilesInv
    <2> QED
      BY <1>4, <2>1, SummariseStep DEF SumsInv
  <1>5. CASE LockNet(w)
    <2>1. FilesInv'
      BY <1>1, <1>5, FilesStep DEF LockNet, InHand, FilesInv
    <2> QED
      BY <1>5, <2>1, LockStep DEF SumsInv
  <1>6. CASE FindTag(w)
    <2>1. FilesInv'
      BY <1>1, <1>6, FilesStep DEF FindTag, InHand, FilesInv
    <2> QED
      BY <1>6, <2>1, FindStep DEF SumsInv
  <1>7. CASE StoreTag(w)
    <2>1. FilesInv'
      BY <1>1, <1>7, FilesStep DEF StoreTag, InHand, FilesInv
    <2> QED
      BY <1>7, <2>1, StoreStep DEF SumsInv
  <1>8. CASE UnlockNet(w)
    <2>1. /\ pc[w] = "find" /\ pc' = [pc EXCEPT ![w] = "loop"]
          /\ combined' = combined \cup {index[w]}
          /\ UNCHANGED <<main, mainVars, taken, counted>>
      BY <1>8 DEF UnlockNet
    <2>2. \A v \in Workers \ {w} : index'[v] = index[v]
      BY <1>1, <1>8 DEF UnlockNet, NextIndex
    <2>3. index[w] \in counted
      BY <2>1 DEF StridesInv, WorkersInv, InHand
    <2>4. FilesInv'
      BY <1>1, <2>1, <2>2, <2>3, FilesStep DEF InHand
    <2> QED
      BY <1>8, <2>4, UnlockStep DEF SumsInv
  <1>9. CASE Return(w)
    <2>1. FilesInv'
      BY <1>1, <1>9, FilesStep DEF Return, InHand
    <2>2. PartsInv' /\ NetInv'
      BY <1>9, ElsewhereStep DEF Return, NetMutexHeld
    <2> QED
      BY <2>1, <2>2 DEF SumsInv
  <1> QED
    BY <1>2, <1>3, <1>4, <1>5, <1>6, <1>7, <1>8, <1>9 DEF summariserFunc

\* The other steps of main touch nothing that the totals depend on.
LEMMA SumsMainStep ==
    ASSUME StridesInv, SumsInv,
           UNCHANGED <<fileNames, workerVars, netSummary, netSummaryMutex, history>>,
           main' = "args" => main = "args"
    PROVE  SumsInv'
  <1> USE DEF workerVars, history
  <1>1. FilesInv'
    BY DEF SumsInv, FilesInv, FileIndex
  <1>2. PartsInv'
    BY DEF SumsInv, PartsInv
  <1>3. \A v \in Workers : Combined(v)' = Combined(v) /\ NextTag(v)' = NextTag(v)
    BY DEF Combined, NextTag
  <1>4. NetInv'
    BY <1>3 DEF SumsInv, NetInv
  <1> QED
    BY <1>1, <1>2, <1>4 DEF SumsInv

\* The arguments name the files before any is opened.
LEMMA SumsParseStep ==
    ASSUME StridesInv, SumsInv, ParseArgs
    PROVE  SumsInv'
  <1> USE DEF workerVars, history
  <1>1. /\ main = "args" /\ main' # "args" /\ taken = {} /\ fileNames = 0
        /\ \A w \in Workers : pc[w] = "none"
    BY BeforeStart DEF ParseArgs, SumsInv, FilesInv
  <1>2. fileNames' \in (0 .. MaxArgs - 2) \cup {0}
    <2>1. argc \in 1 .. MaxArgs
      BY DEF StridesInv, ArgsInv
    <2>2. fileNames' = args(argc, argv1, numThreads).fileNames
      BY DEF ParseArgs
    <2>3. fileNames' = IF validNumberArgs(argc) /\ setThreads(argc, argv1)
                       THEN argc - 2 ELSE 0
      BY <2>2 DEF args
    <2> QED
      BY <2>1, <2>3, SummariserAssumption DEF validNumberArgs
  <1>3. FilesInv'
    BY <1>1, <1>2 DEF ParseArgs, SumsInv, FilesInv, InHand
  <1>4. PartsInv'
    BY DEF ParseArgs, SumsInv, PartsInv
  <1>5. \A v \in Workers : Combined(v)' = Combined(v) /\ NextTag(v)' = NextTag(v)
    BY DEF Combined, NextTag, ParseArgs
  <1>6. NetInv'
    BY <1>5 DEF ParseArgs, SumsInv, NetInv
  <1> QED
    BY <1>3, <1>4, <1>6 DEF SumsInv

\* A new worker has no part of the totals.
LEMMA SumsStartStep ==
    ASSUME StridesInv, SumsInv, StartThread
    PROVE  SumsInv'
  <1> USE DEF workerVars, history
  <1>1. /\ main = "start" /\ numThreads \in 1 .. MaxThreads
        /\ started \in Nat /\ started < numThreads /\ started \in Workers
    BY SummariserAssumption
    DEF StartThread, StridesInv, ArgsInv, WorkersInv, StartedWithFiles, Workers
  <1>2. pc[started] = "none" /\ pc' = [pc EXCEPT ![started] = "loop"]
        /\ pc \in [Workers -> Places] /\ main' = main
        /\ UNCHANGED <<fileNames, taken, counted, combined>>
    BY <1>1 DEF StridesInv, WorkersInv, StartThread
  <1>3. \A v \in Workers \ {started} : index'[v] = index[v]
    BY <1>1 DEF StartThread, StridesInv, WorkersInv
  <1>4. FilesInv'
    <2>1. \A v \in Workers : pc'[v] \in {"open"} \cup InHand =>
                                 v # started /\ pc'[v] = pc[v]
      BY <1>2 DEF InHand
    <2> QED
      BY <1>1, <1>2, <1>3, <2>1 DEF SumsInv, FilesInv, FileIndex
  <1>5. PartsInv' /\ NetInv'
    BY <1>1, <1>2, <1>3, ElsewhereStep DEF StartThread, NetMutexHeld
  <1> QED
    BY <1>4, <1>5 DEF SumsInv

\* Nothing combined, nothing summed up.
LEMMA SumsInitially == Init => SumsInv
  <1> SUFFICES ASSUME Init
               PROVE  SumsInv
    OBVIOUS
  <1>1. FilesInv
    BY DEF Init, FilesInv, InHand
  <1>2. IsSummary(NoSummary) /\ DOMAIN NoSummary = {} /\ Zero \in Entries
    BY DEF IsSummary, NoSummary, Zero, Entries
  <1>3. PartsInv
    BY <1>2 DEF Init, PartsInv, NetMutexHeld
  <1>4. TotalsOf(PlacesOf({})) = NoSummary
    <2>1. Tags(PlacesOf({})) = {}
      BY DEF Tags, PlacesOf
    <2> QED
      BY <2>1 DEF TotalsOf, NoSummary
  <1>5. NetInv
    BY <1>4, SummariserAssumption DEF Init, NetInv, NetMutexHeld
  <1> QED
    BY <1>1, <1>3, <1>5 DEF SumsInv

\* The net summary is at every moment the totals of the files combined and of
\* the tags that the holder of its mutex has dealt with.
THEOREM SumsCorrect == Spec => []SumsInv
  <1>1. ASSUME StridesInv, SumsInv, [Next]_vars
        PROVE  SumsInv'
    <2> USE DEF mainVars
    <2>1. CASE ParseArgs
      BY <1>1, <2>1, SumsParseStep
    <2>2. CASE StartThread
      BY <1>1, <2>2, SumsStartStep
    <2>3. CASE StartThreadThrows
      BY <1>1, <2>3, SumsMainStep DEF StartThreadThrows
    <2>4. CASE AllStarted
      BY <1>1, <2>4, SumsMainStep DEF AllStarted
    <2>5. CASE JoinThread
      BY <1>1, <2>5, SumsMainStep DEF JoinThread
    <2>6. CASE printSummary
      BY <1>1, <2>6, SumsMainStep DEF printSummary
    <2>7. ASSUME NEW w \in Workers, summariserFunc(w)
          PROVE  SumsInv'
      BY <1>1, <2>7, SumsWorkerStep
    <2>8. CASE UNCHANGED vars
      BY <1>1, <2>8, SumsMainStep DEF vars
    <2> QED
      BY <1>1, <2>1, <2>2, <2>3, <2>4, <2>5, <2>6, <2>7, <2>8
      DEF Next, Main, Ended
  <1> QED
    BY SumsInitially, StridesCorrect, <1>1, PTL DEF Spec

\* Between two critical sections the net summary holds the totals of exactly
\* the files combined so far: no update is lost, for any number of workers,
\* files and lines.
THEOREM NoUpdateLost == Spec => []NetIsTotal
  <1>1. SumsInv => NetIsTotal
    BY TotalsOfFiles DEF SumsInv, NetInv, NetIsTotal
  <1> QED
    BY <1>1, SumsCorrect, PTL

-----------------------------------------------------------------------------
(* How far the workers have come: the invariant behind the printed summary. *)

MainInv ==
    /\ main \in {"args", "start", "join", "done", "terminated"}
    /\ main \in {"args", "start", "join"} => output = NoOutput
    /\ joined \in Nat /\ joined <= started
    /\ main = "join" => started = numThreads
    /\ fileNamesMutex \in Workers \cup {NoWorker}

ExitsInv ==
    \A w \in Workers :
        /\ w < started => pc[w] # "none"
        /\ w < joined => pc[w] = "exit"
        /\ pc[w] = "exit" => index[w] >= fileNames

\* What was tried lies behind the worker whose file it was, or in its hand.
TakenInv ==
    \A i \in taken : \E v \in Workers :
        /\ pc[v] # "none" /\ i \in FilesOf(v)
        /\ i < index[v] \/ (i = index[v] /\ pc[v] \in InHand)

\* No worker leaves out a file of its stride.
ReachedInv ==
    \A v \in Workers : pc[v] # "none" =>
        \A i \in FilesOf(v) : i < index[v] => i \in taken

\* What was opened and not combined is in some hand.
HeldInv ==
    \A i \in counted \ combined : \E v \in Workers :
        pc[v] \in InHand /\ index[v] = i

DoneInv == MainInv /\ ExitsInv /\ TakenInv /\ ReachedInv /\ HeldInv

\* Of two indices in a stride that are less than a step apart, none is later.
LEMMA StridePrevious ==
    ASSUME NEW n \in Nat \ {0}, NEW a \in Int, NEW j \in Nat, NEW k \in Nat,
           a + j * n < a + k * n + n
    PROVE  a + j * n <= a + k * n
  <1>1. CASE j <= k
    <2>1. PICK d \in Nat : k = j + d
      <3>1. k - j \in Nat /\ k = j + (k - j)
        BY <1>1
      <3> QED
        BY <3>1
    <2>2. k * n = j * n + d * n /\ d * n \in Nat /\ j * n \in Nat
      BY <2>1
    <2> QED
      BY <2>2
  <1>2. CASE j > k
    <2>1. PICK d \in Nat : j = k + 1 + d
      <3>1. j - k - 1 \in Nat /\ j = k + 1 + (j - k - 1)
        BY <1>2
      <3> QED
        BY <3>1
    <2>2. j * n = k * n + n + d * n /\ d * n \in Nat /\ k * n \in Nat
      BY <2>1
    <2> QED
      BY <2>2
  <1> QED
    BY <1>1, <1>2

\* Every index is in the stride of one of n workers.
LEMMA StridesCover ==
    ASSUME NEW n \in Nat \ {0}
    PROVE  \A i \in Nat : \E a \in 0 .. n - 1 : i \in {a + k * n : k \in Nat}
  <1> DEFINE Stride(a) == {a + k * n : k \in Nat}
             T == {i \in Nat : \E a \in 0 .. n - 1 : i \in Stride(a)}
  <1>1. 0 \in T
    <2>1. 0 = 0 + 0 * n /\ 0 \in 0 .. n - 1
      OBVIOUS
    <2>2. 0 \in Stride(0)
      BY <2>1
    <2> HIDE DEF Stride
    <2> QED
      BY <2>1, <2>2
  <1>2. ASSUME NEW i \in Nat, i \in T
        PROVE  i + 1 \in T
    <2>1. PICK a \in 0 .. n - 1 : i \in Stride(a)
      BY <1>2
    <2>2. PICK k \in Nat : i = a + k * n
      BY <2>1
    <2>3. k * n \in Nat /\ a \in Nat /\ (k + 1) * n = k * n + n
      OBVIOUS
    <2>4. CASE a + 1 < n
      <3>1. i + 1 = (a + 1) + k * n
        BY <2>2, <2>3
      <3>2. i + 1 \in Stride(a + 1)
        BY <3>1
      <3> HIDE DEF Stride
      <3>3. a + 1 \in 0 .. n - 1
        BY <2>4
      <3> QED
        BY <3>2, <3>3
    <2>5. CASE a + 1 = n
      <3>1. i + 1 = 0 + (k + 1) * n /\ k + 1 \in Nat
        BY <2>2, <2>3, <2>5
      <3>2. i + 1 \in Stride(0)
        BY <3>1, Zenon
      <3> HIDE DEF Stride
      <3>3. 0 \in 0 .. n - 1
        OBVIOUS
      <3> QED
        BY <3>2, <3>3
    <2> QED
      BY <2>1, <2>4, <2>5
  <1>3. Nat \subseteq T
    <2> HIDE DEF T
    <2> QED
      BY <1>1, <1>2, SetInduction
  <1> QED
    BY <1>3

\* A worker that goes on with the file at its index, which it may just have
\* taken in hand.
LEMMA DoneSameFile ==
    ASSUME StridesInv, DoneInv, NEW w \in Workers, NEW place \in Places,
           pc[w] \notin {"none", "exit"}, place # "none",
           pc[w] \in InHand => place \in InHand,
           place = "exit" => index[w] >= fileNames,
           pc' = [pc EXCEPT ![w] = place],
           \/ taken' = taken /\ counted' = counted
           \/ /\ place \in InHand
              /\ taken' = taken \cup {index[w]}
              /\ counted' = counted \cup {index[w]},
           fileNamesMutex' \in Workers \cup {NoWorker},
           UNCHANGED <<main, numThreads, fileNames, started, joined, index,
                       combined, output>>
    PROVE  DoneInv'
  <1>1. /\ \A v \in Workers : FilesOf(v)' = FilesOf(v)
        /\ pc'[w] = place /\ \A v \in Workers \ {w} : pc'[v] = pc[v]
        /\ \A v \in Workers : pc'[v] # "none" <=> pc[v] # "none"
        /\ \A v \in Workers : pc[v] \in InHand => pc'[v] \in InHand
    BY DEF FilesOf, StridesInv, WorkersInv
  <1>2. MainInv'
    BY DEF DoneInv, MainInv
  <1>3. ExitsInv'
    BY <1>1 DEF DoneInv, ExitsInv
  <1>4. TakenInv'
    <2>1. SUFFICES ASSUME NEW i \in taken'
                   PROVE  \E v \in Workers :
                              /\ pc'[v] # "none" /\ i \in FilesOf(v)'
                              /\ i < index'[v] \/ (i = index'[v] /\ pc'[v] \in InHand)
      BY DEF TakenInv
    <2>2. CASE i \in taken
      BY <1>1, <2>2 DEF DoneInv, TakenInv
    <2>3. CASE i = index[w] /\ place \in InHand
      BY <1>1, <2>3 DEF StridesInv, WorkersInv
    <2> QED
      BY <2>1, <2>2, <2>3
  <1>5. ReachedInv'
    BY <1>1 DEF DoneInv, ReachedInv
  <1>6. HeldInv'
    <2>1. SUFFICES ASSUME NEW i \in counted' \ combined'
                   PROVE  \E v \in Workers : pc'[v] \in InHand /\ index'[v] = i
      BY DEF HeldInv
    <2>2. CASE i \in counted
      BY <1>1, <2>1, <2>2 DEF DoneInv, HeldInv
    <2>3. CASE i = index[w] /\ place \in InHand
      BY <1>1, <2>3
    <2> QED
      BY <2>1, <2>2, <2>3
  <1> QED
    BY <1>2, <1>3, <1>4, <1>5, <1>6 DEF DoneInv

\* A worker that goes on to its next file has taken the one at its index, and
\* combined it if it was in its hand.
LEMMA DoneNextFile ==
    ASSUME StridesInv, DoneInv, NEW w \in Workers,
           pc[w] \notin {"none", "exit"},
           pc[w] \in InHand => index[w] \in combined',
           pc' = [pc EXCEPT ![w] = "loop"],
           NextIndex(w),
           taken' = taken \cup {index[w]}, counted' = counted,
           combined \subseteq combined',
           fileNamesMutex' \in Workers \cup {NoWorker},
           UNCHANGED <<main, numThreads, fileNames, started, joined, output>>
    PROVE  DoneInv'
  <1>1. /\ \A v \in Workers : FilesOf(v)' = FilesOf(v)
        /\ pc'[w] = "loop" /\ \A v \in Workers \ {w} : pc'[v] = pc[v]
        /\ \A v \in Workers : pc'[v] # "none" <=> pc[v] # "none"
    BY DEF FilesOf, StridesInv, WorkersInv
  <1>2. /\ numThreads \in Nat \ {0} /\ index[w] \in Nat /\ index[w] \in FilesOf(w)
        /\ index'[w] = index[w] + numThreads
        /\ \A v \in Workers \ {w} : index'[v] = index[v]
    BY StartedWorker DEF NextIndex, StridesInv, WorkersInv
  <1>3. MainInv'
    BY DEF DoneInv, MainInv
  <1>4. ExitsInv'
    BY <1>1, <1>2 DEF DoneInv, ExitsInv
  <1>5. TakenInv'
    <2>1. SUFFICES ASSUME NEW i \in taken'
                   PROVE  \E v \in Workers :
                              /\ pc'[v] # "none" /\ i \in FilesOf(v)'
                              /\ i < index'[v] \/ (i = index'[v] /\ pc'[v] \in InHand)
      BY DEF TakenInv
    <2>2. CASE i \in taken
      <3>1. PICK v \in Workers :
                /\ pc[v] # "none" /\ i \in FilesOf(v)
                /\ i < index[v] \/ (i = index[v] /\ pc[v] \in InHand)
        BY <2>2 DEF DoneInv, TakenInv
      <3>2. CASE v = w
        <4>1. i \in Int
          BY <1>2, <3>1, SummariserAssumption DEF FilesOf, Workers
        <4>2. i < index'[w]
          BY <1>2, <3>1, <3>2, <4>1
        <4> QED
          BY <1>1, <3>1, <3>2, <4>2
      <3>3. CASE v # w
        BY <1>1, <1>2, <3>1, <3>3
      <3> QED
        BY <3>2, <3>3
    <2>3. CASE i = index[w]
      <3>1. i < index'[w]
        BY <1>2, <2>3
      <3> QED
        BY <1>1, <1>2, <2>3, <3>1
    <2> QED
      BY <2>1, <2>2, <2>3
  <1>6. ReachedInv'
    <2>1. SUFFICES ASSUME NEW v \in Workers, pc[v] # "none",
                          NEW i \in FilesOf(v), i < index'[v]
                   PROVE  i \in taken'
      BY <1>1 DEF ReachedInv
    <2>2. CASE v = w
      <3>1. PICK k \in Nat : index[w] = w + k * numThreads
        BY <1>2 DEF FilesOf
      <3>2. PICK j \in Nat : i = w + j * numThreads
        BY <2>1, <2>2 DEF FilesOf
      <3>3. i <= index[w]
        <4>1. w \in Int
          BY SummariserAssumption DEF Workers
        <4>2. w + j * numThreads < w + k * numThreads + numThreads
          BY <1>2, <2>1, <2>2, <3>1, <3>2
        <4> QED
          BY <1>2, <3>1, <3>2, <4>1, <4>2, StridePrevious
      <3>4. i \in Int
        BY <1>2, <3>2, SummariserAssumption DEF Workers
      <3>5. i < index[w] \/ i = index[w]
        BY <1>2, <3>3, <3>4
      <3> QED
        BY <2>1, <2>2, <3>5 DEF DoneInv, ReachedInv
    <2>3. CASE v # w
      BY <1>2, <2>1, <2>3 DEF DoneInv, ReachedInv
    <2> QED
      BY <2>2, <2>3
  <1>7. HeldInv'
    <2>1. SUFFICES ASSUME NEW i \in counted \ combined'
                   PROVE  \E v \in Workers : pc'[v] \in InHand /\ index'[v] = i
      BY DEF HeldInv
    <2>2. PICK v \in Workers : pc[v] \in InHand /\ index[v] = i
      BY <2>1 DEF DoneInv, HeldInv
    <2>3. v # w
      BY <2>1, <2>2
    <2> QED
      BY <1>1, <1>2, <2>2, <2>3
  <1> QED
    BY <1>3, <1>4, <1>5, <1>6, <1>7 DEF DoneInv

\* Every step of a worker keeps account of its files.
LEMMA DoneWorkerStep ==
    ASSUME StridesInv, SumsInv, DoneInv, NEW w \in Workers, summariserFunc(w)
    PROVE  DoneInv'
  <1> USE DEF mainVars, workerVars, history, Places, InHand
  <1>1. fileNamesMutex \in Workers \cup {NoWorker}
    BY DEF DoneInv, MainInv
  <1>2. CASE LockNames(w)
    BY <1>2, DoneSameFile DEF LockNames
  <1>3. ASSUME NEW isOpen \in BOOLEAN, openFile(w, isOpen)
        PROVE  DoneInv'
    <2>1. /\ pc[w] = "open" /\ taken' = taken \cup {index[w]}
          /\ fileNamesMutex' \in Workers \cup {NoWorker}
          /\ UNCHANGED <<main, mainVars, combined, output>>
      BY <1>3 DEF openFile, UnlockNames
    <2>2. CASE isOpen
      <3>1. pc' = [pc EXCEPT ![w] = "parse"] /\ UNCHANGED index
            /\ counted' = counted \cup {index[w]}
        BY <1>3, <2>2 DEF openFile
      <3> QED
        BY <2>1, <3>1, DoneSameFile
    <2>3. CASE ~isOpen
      <3>1. pc' = [pc EXCEPT ![w] = "loop"] /\ NextIndex(w) /\ counted' = counted
        BY <1>3, <2>3 DEF openFile
      <3> QED
        BY <2>1, <3>1, DoneNextFile
    <2> QED
      BY <2>2, <2>3
  <1>4. CASE SummariseFile(w)
    BY <1>1, <1>4, DoneSameFile DEF SummariseFile
  <1>5. CASE LockNet(w)
    BY <1>1, <1>5, DoneSameFile DEF LockNet
  <1>6. CASE FindTag(w)
    BY <1>1, <1>6, DoneSameFile DEF FindTag
  <1>7. CASE StoreTag(w)
    BY <1>1, <1>7, DoneSameFile DEF StoreTag
  <1>8. CASE UnlockNet(w)
    <2>1. /\ pc[w] = "find" /\ NextIndex(w) /\ pc' = [pc EXCEPT ![w] = "loop"]
          /\ combined' = combined \cup {index[w]}
          /\ UNCHANGED <<main, mainVars, fileNamesMutex, taken, counted, output>>
      BY <1>8 DEF UnlockNet
    <2>2. taken' = taken \cup {index[w]}
      <3>1. index[w] \in counted
        BY <2>1 DEF StridesInv, WorkersInv
      <3> QED
        BY <2>1, <3>1 DEF SumsInv, FilesInv
    <2> QED
      BY <1>1, <2>1, <2>2, DoneNextFile
  <1>9. CASE Return(w)
    <2>1. index[w] >= fileNames
      <3>1. ~(index[w] < fileNames)
        BY <1>9 DEF Return, MoreFiles
      <3>2. index[w] \in Int /\ fileNames \in Int
        BY SummariserAssumption DEF StridesInv, WorkersInv, SumsInv, FilesInv
      <3> QED
        BY <3>1, <3>2
    <2> QED
      BY <1>1, <1>9, <2>1, DoneSameFile DEF Return
  <1> QED
    BY <1>2, <1>3, <1>4, <1>5, <1>6, <1>7, <1>8, <1>9 DEF summariserFunc

\* The steps of main that leave the workers alone.
LEMMA DoneMainStep ==
    ASSUME StridesInv, DoneInv,
           UNCHANGED <<numThreads, fileNames, started, pc, index, fileNamesMutex,
                       history>>,
           joined' \in Nat, joined' <= started,
           \A w \in Workers : w < joined' => pc[w] = "exit",
           main' \in {main, "join", "done", "terminated"},
           main' = "join" => started = numThreads,
           main' \in {"args", "start", "join"} => output' = NoOutput
    PROVE  DoneInv'
  <1> USE DEF history
  <1>1. \A v \in Workers : FilesOf(v)' = FilesOf(v)
    BY DEF FilesOf
  <1>2. MainInv'
    BY DEF DoneInv, MainInv
  <1>3. ExitsInv'
    BY DEF DoneInv, ExitsInv
  <1>4. TakenInv' /\ ReachedInv' /\ HeldInv'
    BY <1>1 DEF DoneInv, TakenInv, ReachedInv, HeldInv
  <1> QED
    BY <1>2, <1>3, <1>4 DEF DoneInv

\* The arguments are parsed before any file is tried.
LEMMA DoneParseStep ==
    ASSUME StridesInv, SumsInv, DoneInv, ParseArgs
    PROVE  DoneInv'
  <1> USE DEF workerVars, history
  <1>1. /\ main = "args" /\ main' \in {"start", "done"} /\ started = 0
        /\ taken = {} /\ counted = {} /\ \A w \in Workers : pc[w] = "none"
        /\ joined \in Nat /\ joined <= 0 /\ output = NoOutput
    BY BeforeStart
    DEF ParseArgs, SumsInv, FilesInv, StridesInv, ArgsInv, DoneInv, MainInv
  <1>2. \A w \in Workers : ~(w < 0) /\ ~(w < joined)
    BY <1>1, SummariserAssumption DEF Workers
  <1>3. MainInv'
    BY <1>1 DEF ParseArgs, DoneInv, MainInv
  <1>4. ExitsInv'
    BY <1>1, <1>2 DEF ParseArgs, ExitsInv
  <1>5. TakenInv' /\ ReachedInv' /\ HeldInv'
    BY <1>1 DEF ParseArgs, TakenInv, ReachedInv, HeldInv
  <1> QED
    BY <1>3, <1>4, <1>5 DEF DoneInv

\* A new worker has nothing behind it.
LEMMA DoneStartStep ==
    ASSUME StridesInv, DoneInv, StartThread
    PROVE  DoneInv'
  <1> USE DEF history
  <1>1. /\ main = "start" /\ numThreads \in 1 .. MaxThreads
        /\ started \in Nat /\ started < numThreads /\ started \in Workers
    BY SummariserAssumption
    DEF StartThread, StridesInv, ArgsInv, WorkersInv, StartedWithFiles, Workers
  <1>2. /\ pc[started] = "none"
        /\ pc'[started] = "loop" /\ index'[started] = started
        /\ \A v \in Workers \ {started} : pc'[v] = pc[v] /\ index'[v] = index[v]
        /\ started' = started + 1
        /\ UNCHANGED <<main, numThreads, fileNames, joined, taken, counted,
                       combined, fileNamesMutex, output>>
    BY <1>1 DEF StartThread, StridesInv, WorkersInv
  <1>3. \A v \in Workers : FilesOf(v)' = FilesOf(v)
    BY <1>2 DEF FilesOf
  <1>4. MainInv'
    BY <1>1, <1>2 DEF DoneInv, MainInv
  <1>5. ExitsInv'
    <2>1. joined \in Nat /\ joined <= started
      BY DEF DoneInv, MainInv
    <2>2. \A w \in Workers : w \in Nat
      BY SummariserAssumption DEF Workers
    <2>3. \A w \in Workers : w < started' => w = started \/ w < started
      BY <1>1, <1>2, <2>2
    <2>4. \A w \in Workers : w < joined => w # started
      BY <1>1, <2>1, <2>2
    <2>5. ASSUME NEW w \in Workers
          PROVE  /\ w < started' => pc'[w] # "none"
                 /\ w < joined' => pc'[w] = "exit"
                 /\ pc'[w] = "exit" => index'[w] >= fileNames'
      <3>1. CASE w = started
        BY <1>2, <2>4, <3>1
      <3>2. CASE w # started
        BY <1>2, <2>3, <3>2 DEF DoneInv, ExitsInv
      <3> QED
        BY <3>1, <3>2
    <2> QED
      BY <2>5 DEF ExitsInv
  <1>6. TakenInv'
    BY <1>2, <1>3 DEF DoneInv, TakenInv
  <1>7. ReachedInv'
    <2>1. ASSUME NEW i \in FilesOf(started)
          PROVE  ~(i < started)
      <3>1. PICK k \in Nat : i = started + k * numThreads
        BY <2>1 DEF FilesOf
      <3>2. k * numThreads \in Nat
        BY <1>1
      <3> QED
        BY <1>1, <3>1, <3>2
    <2>2. ASSUME NEW v \in Workers, pc'[v] # "none",
                 NEW i \in FilesOf(v), i < index'[v]
          PROVE  i \in taken'
      <3>1. CASE v = started
        BY <1>2, <2>1, <2>2, <3>1
      <3>2. CASE v # started
        BY <1>2, <2>2, <3>2 DEF DoneInv, ReachedInv
      <3> QED
        BY <3>1, <3>2
    <2> QED
      BY <1>3, <2>2 DEF ReachedInv
  <1>8. HeldInv'
    BY <1>2 DEF DoneInv, HeldInv, InHand
  <1> QED
    BY <1>4, <1>5, <1>6, <1>7, <1>8 DEF DoneInv

\* No worker, no file.
LEMMA DoneInitially == Init => DoneInv
  <1> SUFFICES ASSUME Init
               PROVE  DoneInv
    OBVIOUS
  <1>1. MainInv
    BY DEF Init, MainInv
  <1>2. ExitsInv
    BY SummariserAssumption DEF Init, ExitsInv, Workers
  <1>3. TakenInv /\ ReachedInv /\ HeldInv
    BY DEF Init, TakenInv, ReachedInv, HeldInv
  <1> QED
    BY <1>1, <1>2, <1>3 DEF DoneInv

\* What a worker has behind it was tried, what was opened is in a hand or
\* combined, and what was joined has come to the end of its stride.
THEOREM WorkersProgress == Spec => []DoneInv
  <1>1. ASSUME StridesInv, SumsInv, DoneInv, [Next]_vars
        PROVE  DoneInv'
    <2> USE DEF mainVars, workerVars
    <2>1. CASE ParseArgs
      BY <1>1, <2>1, DoneParseStep
    <2>2. CASE StartThread
      BY <1>1, <2>2, DoneStartStep
    <2>3. joined \in Nat /\ joined <= started
          /\ \A w \in Workers : w < joined => pc[w] = "exit"
      BY <1>1 DEF DoneInv, MainInv, ExitsInv
    <2>4. CASE StartThreadThrows
      BY <1>1, <2>3, <2>4, DoneMainStep DEF StartThreadThrows
    <2>5. CASE AllStarted
      BY <1>1, <2>3, <2>5, DoneMainStep DEF AllStarted, DoneInv, MainInv
    <2>6. CASE JoinThread
      <3>1. /\ main = "join" /\ started = numThreads /\ joined # numThreads
            /\ started \in Nat /\ output = NoOutput
        BY <1>1, <2>6
        DEF JoinThread, JoinedAll, DoneInv, MainInv, StridesInv, WorkersInv
      <3>2. joined + 1 \in Nat /\ joined + 1 <= started
        BY <2>3, <3>1
      <3>3. \A w \in Workers : w < joined + 1 => pc[w] = "exit"
        <4>1. \A w \in Workers : w < joined + 1 => w < joined \/ w = joined
          BY <2>3, SummariserAssumption DEF Workers
        <4> QED
          BY <2>3, <2>6, <4>1 DEF JoinThread
      <3>4. /\ main' = main /\ joined' = joined + 1 /\ output' = output
            /\ UNCHANGED <<numThreads, fileNames, started, pc, index,
                           fileNamesMutex, history>>
        BY <2>6 DEF JoinThread
      <3> QED
        BY <1>1, <3>1, <3>2, <3>3, <3>4, DoneMainStep
    <2>7. CASE printSummary
      BY <1>1, <2>3, <2>7, DoneMainStep DEF printSummary
    <2>8. ASSUME NEW w \in Workers, summariserFunc(w)
          PROVE  DoneInv'
      BY <1>1, <2>8, DoneWorkerStep
    <2>9. CASE UNCHANGED vars
      BY <1>1, <2>3, <2>9, DoneMainStep DEF vars, DoneInv, MainInv
    <2> QED
      BY <1>1, <2>1, <2>2, <2>4, <2>5, <2>6, <2>7, <2>8, <2>9
      DEF Next, Main, Ended
  <1> QED
    BY DoneInitially, StridesCorrect, SumsCorrect, <1>1, PTL DEF Spec

\* When every worker is joined, every file was tried, and what was opened is
\* combined.
LEMMA AllDone ==
    ASSUME StridesInv, SumsInv, DoneInv, main = "join", joined = numThreads
    PROVE  taken = FileIndex /\ combined = counted /\ FileIndex # {}
  <1>1. /\ numThreads \in 1 .. MaxThreads /\ numThreads <= fileNames
        /\ fileNames \in Nat
        /\ \A w \in Workers : w < numThreads => pc[w] = "exit"
    BY SummariserAssumption
    DEF StridesInv, ArgsInv, StartedWithFiles, SumsInv, FilesInv, DoneInv, ExitsInv
  <1>2. ASSUME NEW i \in FileIndex
        PROVE  i \in taken
    <2>1. i \in Nat /\ i < fileNames
      BY <1>1 DEF FileIndex
    <2>2. PICK v \in 0 .. numThreads - 1 : i \in FilesOf(v)
      <3>1. numThreads \in Nat \ {0}
        BY <1>1
      <3>2. \E v \in 0 .. numThreads - 1 : i \in {v + k * numThreads : k \in Nat}
        BY <2>1, <3>1, StridesCover
      <3> QED
        BY <3>2, Zenon DEF FilesOf
    <2>3. v \in Workers /\ v < numThreads
      BY <1>1, SummariserAssumption DEF Workers
    <2>4. pc[v] = "exit" /\ index[v] >= fileNames /\ index[v] \in Nat
      BY <1>1, <2>3 DEF DoneInv, ExitsInv, StridesInv, WorkersInv
    <2>5. i < index[v]
      BY <1>1, <2>1, <2>4
    <2> QED
      BY <2>2, <2>3, <2>4, <2>5 DEF DoneInv, ReachedInv
  <1>3. \A v \in Workers : pc[v] \notin InHand
    <2>1. \A v \in Workers : pc[v] # "none" => v < numThreads
      BY DEF StridesInv, WorkersInv, DoneInv, MainInv
    <2> QED
      BY <1>1, <2>1 DEF InHand
  <1>4. 0 \in FileIndex
    BY <1>1 DEF FileIndex
  <1> QED
    BY <1>2, <1>3, <1>4 DEF SumsInv, FilesInv, DoneInv, HeldInv

\* Every value is of its type, whatever the numbers of arguments and threads.
THEOREM SummariserTypes == Spec => []TypeOK
  <1>1. ASSUME StridesInv, SumsInv, DoneInv
        PROVE  TypeOK
    <2>1. /\ argc \in 1 .. MaxArgs /\ argv1 \in Int \cup {NotANumber}
          /\ numThreads \in Int /\ fileNames \in Nat
      BY <1>1, SummariserAssumption
      DEF StridesInv, ArgsInv, SumsInv, FilesInv
    <2>2. started \in 0 .. MaxThreads /\ joined \in 0 .. MaxThreads
      <3>1. started \in Nat /\ (started > 0 => started <= numThreads)
            /\ numThreads \in -1 .. MaxThreads /\ joined \in Nat /\ joined <= started
        BY <1>1 DEF StridesInv, ArgsInv, WorkersInv, DoneInv, MainInv
      <3> QED
        BY <3>1, SummariserAssumption
    <2>3. /\ pc \in [Workers -> {"none", "loop", "open", "parse", "lock",
                                 "find", "store", "exit"}]
          /\ index \in [Workers -> Nat]
      BY <1>1 DEF StridesInv, WorkersInv, Places, InHand
    <2>4. /\ \A w \in Workers : IsSummary(part[w]) /\ rest[w] \subseteq DOMAIN part[w]
          /\ cell \in [Workers -> Entries]
          /\ netSummaryMutex \in Workers \cup {NoWorker}
      BY <1>1 DEF SumsInv, PartsInv, NetInv
    <2>5. IsSummary(netSummary)
      <3>1. CASE netSummaryMutex = NoWorker
        <4>1. netSummary = TotalsOf(PlacesOf(combined)) /\ Readable(PlacesOf(combined))
          BY <1>1, <3>1, NetReadable DEF SumsInv, NetInv
        <4> QED
          BY <4>1, TotalsTyped
      <3>2. ASSUME NEW w \in Workers, netSummaryMutex = w
            PROVE  IsSummary(netSummary)
        <4> DEFINE P == PlacesOf(combined) \cup Combined(w)
        <4>1. netSummary = TotalsOf(P) /\ Readable(P)
          BY <1>1, <3>2, NetReadable DEF SumsInv, NetInv
        <4> HIDE DEF P
        <4> QED
          BY <4>1, TotalsTyped
      <3> QED
        BY <2>4, <3>1, <3>2
    <2> QED
      BY <1>1, <2>1, <2>2, <2>3, <2>4, <2>5
      DEF TypeOK, SumsInv, FilesInv, DoneInv, MainInv
  <1> QED
    BY <1>1, StridesCorrect, SumsCorrect, WorkersProgress, PTL

-----------------------------------------------------------------------------
(* The program implements SumFiles. *)

\* Steps that SumFiles does not see.
LEMMA UnseenStep ==
    UNCHANGED <<fileNames, taken, counted, output>> => UNCHANGED SF!vars
  BY DEF SF!vars, FileIndex

\* The operators that SumFiles takes from the same modules.
LEMMA SameCardinality == \A S : SF!Cardinality(S) = Cardinality(S)
  BY DEF SF!Cardinality, Cardinality

\* Its totals are those of the program's own module.
LEMMA SameTotals ==
    ASSUME NEW F
    PROVE  SF!Totals(F, SF!Accepted) = Totals(F, Accepted)
  BY DEF Totals, SF!Totals, Accepted, SF!Accepted, WellFormed, SF!WellFormed,
         UINT_MAX, SF!UINT_MAX, SF!Cardinality, Cardinality, SF!MapThenSumSet, MapThenSumSet,
         SF!MapThenFoldSet, MapThenFoldSet

\* No file names yet: SumFiles has not accepted any.
LEMMA InitImplements == Init => SF!Init
  BY DEF Init, SF!Init, FileIndex

\* A valid command line names some files; for another, none is noted.
LEMMA ParseImplements ==
    ASSUME StridesInv, SumsInv, ParseArgs, SumsInv'
    PROVE  SF!Next \/ UNCHANGED SF!vars
  <1>1. /\ fileNames = 0 /\ fileNames' \in Nat
        /\ UNCHANGED <<taken, counted, output>>
    BY SummariserAssumption DEF ParseArgs, SumsInv, FilesInv, history
  <1>2. CASE fileNames' = 0
    BY <1>1, <1>2, UnseenStep
  <1>3. CASE fileNames' # 0
    <2>1. FileIndex' = 0 .. fileNames' - 1
      BY DEF FileIndex
    <2>2. FileIndex = {}
      BY <1>1 DEF FileIndex
    <2>3. 0 \in FileIndex'
      <3>1. \A n \in Nat : n # 0 => 0 \in 0 .. n - 1
        OBVIOUS
      <3> QED
        BY <1>1, <1>3, <2>1, <3>1, Zenon
    <2>4. SF!Cardinality(FileIndex') = fileNames'
      <3>1. Cardinality(0 .. fileNames' - 1) = fileNames'
        BY <1>1, <1>3, FS_Interval
      <3> QED
        BY <2>1, <3>1, SameCardinality
    <2>5. SF!Accept
      BY <1>1, <2>1, <2>2, <2>3, <2>4 DEF SF!Accept
    <2> QED
      BY <2>5 DEF SF!Next
  <1> QED
    BY <1>2, <1>3

\* The file that a worker tries, no worker has tried before.
LEMMA OpenImplements ==
    ASSUME StridesInv, SumsInv, DoneInv, NEW w \in Workers,
           NEW isOpen \in BOOLEAN, openFile(w, isOpen)
    PROVE  SF!Next
  <1>1. /\ pc[w] = "open" /\ taken' = taken \cup {index[w]}
        /\ counted' = IF isOpen THEN counted \cup {index[w]} ELSE counted
        /\ UNCHANGED <<fileNames, output>>
    BY DEF openFile, mainVars
  <1>2. index[w] \in FileIndex
    BY <1>1, FilesKnown DEF SumsInv
  <1>3. index[w] \notin taken
    <2>1. SUFFICES ASSUME index[w] \in taken
                   PROVE  FALSE
      OBVIOUS
    <2>2. PICK v \in Workers :
              /\ pc[v] # "none" /\ index[w] \in FilesOf(v)
              /\ index[w] < index[v] \/ (index[w] = index[v] /\ pc[v] \in InHand)
      BY <2>1 DEF DoneInv, TakenInv
    <2>3. pc[w] # "none" /\ index[w] \in FilesOf(w) /\ index[w] \in Nat
      BY <1>1 DEF StridesInv, WorkersInv
    <2>4. v = w
      BY <2>2, <2>3, OneOwner
    <2> QED
      BY <1>1, <2>2, <2>3, <2>4 DEF InHand
  <1>4. SF!Take(index[w], isOpen)
    BY <1>1, <1>2, <1>3 DEF SF!Take, FileIndex
  <1> QED
    BY <1>2, <1>4 DEF SF!Next

\* What is printed is the totals of every file that could be opened.
LEMMA PrintImplements ==
    ASSUME StridesInv, SumsInv, DoneInv, printSummary
    PROVE  SF!Next
  <1>1. /\ main = "join" /\ joined = numThreads /\ netSummaryMutex = NoWorker
        /\ output' = netSummary
        /\ UNCHANGED <<fileNames, taken, counted>>
    BY DEF printSummary, JoinedAll, mainVars, history
  <1>2. taken = FileIndex /\ combined = counted /\ FileIndex # {}
    BY <1>1, AllDone
  <1>3. netSummary = Totals(counted, Accepted)
    BY <1>1, <1>2, TotalsOfFiles DEF SumsInv, NetInv
  <1>4. Totals(counted, Accepted) = SF!Totals(counted, SF!Accepted)
    BY SameTotals
  <1>5. output = NoOutput
    BY <1>1 DEF DoneInv, MainInv
  <1>6. FileIndex' = FileIndex
    BY <1>1 DEF FileIndex
  <1>7. SF!Report
    BY <1>1, <1>2, <1>3, <1>4, <1>5, <1>6 DEF SF!Report
  <1> QED
    BY <1>7 DEF SF!Next

\* Whatever the interleaving, the printed summary covers every file that could
\* be opened, each once: the program implements SumFiles for any number of
\* threads and files.
THEOREM PrintsTotals == Spec => ImplementsSumFiles
  <1>1. ASSUME StridesInv, SumsInv, SumsInv', DoneInv, [Next]_vars
        PROVE  [SF!Next]_(SF!vars)
    <2> USE DEF mainVars, workerVars, history
    <2>1. CASE ParseArgs
      BY <1>1, <2>1, ParseImplements
    <2>2. CASE StartThread
      BY <2>2, UnseenStep DEF StartThread
    <2>3. CASE StartThreadThrows
      BY <2>3, UnseenStep DEF StartThreadThrows
    <2>4. CASE AllStarted
      BY <2>4, UnseenStep DEF AllStarted
    <2>5. CASE JoinThread
      BY <2>5, UnseenStep DEF JoinThread
    <2>6. CASE printSummary
      BY <1>1, <2>6, PrintImplements
    <2>7. ASSUME NEW w \in Workers, summariserFunc(w)
          PROVE  [SF!Next]_(SF!vars)
      <3>1. CASE LockNames(w)
        BY <3>1, UnseenStep DEF LockNames
      <3>2. ASSUME NEW isOpen \in BOOLEAN, openFile(w, isOpen)
            PROVE  [SF!Next]_(SF!vars)
        BY <1>1, <3>2, OpenImplements
      <3>3. CASE SummariseFile(w)
        BY <3>3, UnseenStep DEF SummariseFile
      <3>4. CASE LockNet(w)
        BY <3>4, UnseenStep DEF LockNet
      <3>5. CASE FindTag(w)
        BY <3>5, UnseenStep DEF FindTag
      <3>6. CASE StoreTag(w)
        BY <3>6, UnseenStep DEF StoreTag
      <3>7. CASE UnlockNet(w)
        BY <3>7, UnseenStep DEF UnlockNet
      <3>8. CASE Return(w)
        BY <3>8, UnseenStep DEF Return
      <3> QED
        BY <2>7, <3>1, <3>2, <3>3, <3>4, <3>5, <3>6, <3>7, <3>8 DEF summariserFunc
    <2>8. CASE UNCHANGED vars
      BY <2>8, UnseenStep DEF vars
    <2> QED
      BY <1>1, <2>1, <2>2, <2>3, <2>4, <2>5, <2>6, <2>7, <2>8 DEF Next, Main, Ended
  <1> QED
    BY InitImplements, StridesCorrect, SumsCorrect, WorkersProgress, <1>1, PTL
    DEF Spec, ImplementsSumFiles, SF!Spec
=============================================================================
