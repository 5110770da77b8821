--------------------------- MODULE DebugInfoProofs ---------------------------
(***************************************************************************)
(* Proofs about DebugInfo, for any executable, any MIN_CAPACITY and any    *)
(* number of allocations and calls of libdwarf that fail.                  *)
(*                                                                         *)
(* The code's loops over attributes and children are folds.  A fold is     *)
(* shown to be the last value of a run, the sequence of the values that    *)
(* the loop goes through, and what holds of a run is shown by induction    *)
(* over its steps.  getTypeEntry calls itself for the type referred to: as *)
(* no chain of references comes back, what it returns is shown by          *)
(* induction over the types that are not settled yet.  On top of this, the *)
(* reader's steps preserve ReaderInv.                                      *)
(*                                                                         *)
(* Of the memory, every string of an entry is named for the handle of a    *)
(* DIE: those of an entry that is kept are strings of the DIE it was read  *)
(* from and of its children.  As no DIE of a unit is in two places, and a  *)
(* unit that is read again is read by new handles, no other entry has      *)
(* them.  This is StoredApart; with Memory, what is allocated at each      *)
(* step, it is OwnInv.  destroyDebugInfo flattens the entries' strings     *)
(* into one list, which is then without repetition.                        *)
(***************************************************************************)
EXTENDS DebugInfo, Induction, SequenceTheorems

\* The steps of all the loops over sequences, so that what is said of a loop
\* is said once; the last one is what FlattenSeq does.
TypeJob(x, t, F, entry) == [loop |-> "type", x |-> x, t |-> t, F |-> F, entry |-> entry]
VariableJob(die, op, F, entry) ==
    [loop |-> "variable", die |-> die, op |-> op, F |-> F, entry |-> entry]
FuncJob(die, F) == [loop |-> "func", die |-> die, F |-> F]
LocalsJob(types, F) == [loop |-> "locals", types |-> types, F |-> F]
KindJob == [loop |-> "kind"]
JoinJob == [loop |-> "join"]

StepOf(job, e, a) ==
    CASE job.loop = "type" -> TypeStep(job.x, job.t, job.F, job.entry, e, a)
      [] job.loop = "variable" ->
             VariableStep(job.die, job.op, job.F, job.entry, e, a)
      [] job.loop = "func" -> FuncStep(job.die, job.F, e, a)
      [] job.loop = "locals" -> LocalStep(job.types, job.F, e, a)
      [] job.loop = "kind" -> KindStep(e, a)
      [] job.loop = "join" -> e \o a

\* The values that a loop runs through.
Run(job, base, s, f) ==
    /\ f[0] = base
    /\ \A n \in 1 .. Len(s) : f[n] = StepOf(job, f[n - 1], s[n])

\* Every loop over a sequence has a run.
LEMMA RunExists ==
    ASSUME NEW job, NEW base, NEW s, Len(s) \in Nat
    PROVE  \E f : f = [n \in 0 .. Len(s) |-> f[n]] /\ Run(job, base, s, f)
  <1> DEFINE len == Len(s)
             Step(e, n) == StepOf(job, e, s[n])
             Runs(f, k) == /\ f = [n \in 0 .. k |-> f[n]]
                           /\ f[0] = base
                           /\ \A n \in 1 .. k : f[n] = Step(f[n - 1], n)
             T == {k \in 0 .. len : \E f : Runs(f, k)}
  <1> HIDE DEF Step
  <1>1. 0 \in T
    <2> DEFINE f == [n \in 0 .. 0 |-> base]
    <2>1. Runs(f, 0)
      OBVIOUS
    <2> HIDE DEF f, Runs
    <2> QED
      BY <2>1
  <1>2. ASSUME NEW k \in 0 .. len - 1, k \in T
        PROVE  k + 1 \in T
    <2>1. PICK f : Runs(f, k)
      BY <1>2
    <2> DEFINE g == [n \in 0 .. k + 1 |-> IF n <= k THEN f[n] ELSE Step(f[k], k + 1)]
    <2>2. g = [n \in 0 .. k + 1 |-> g[n]] /\ g[0] = base
      BY <2>1
    <2>3. ASSUME NEW n \in 1 .. k + 1
          PROVE  g[n] = Step(g[n - 1], n)
      <3>1. CASE n <= k
        BY <2>1, <3>1
      <3>2. CASE n = k + 1
        BY <3>2
      <3> QED
        BY <3>1, <3>2
    <2> HIDE DEF g
    <2>4. Runs(g, k + 1)
      BY <2>2, <2>3
    <2>5. k + 1 \in 0 .. len
      OBVIOUS
    <2> HIDE DEF Runs
    <2> QED
      BY <2>4, <2>5
  <1>3. 0 .. len \subseteq T
    <2> HIDE DEF T
    <2> QED
      BY <1>1, <1>2, BoundedInduction
  <1>4. PICK f : Runs(f, len)
    BY <1>3
  <1> QED
    BY <1>4 DEF Run, Step

\* What a run starts with and every step keeps, it ends with.
LEMMA LastOne ==
    ASSUME NEW len \in Nat, NEW T, 0 \in T,
           \A n \in 1 .. len : n - 1 \in T => n \in T
    PROVE  len \in T
  <1>1. ASSUME NEW n \in 0 .. len - 1, n \in T
        PROVE  n + 1 \in T
    <2>1. n + 1 \in 1 .. len /\ (n + 1) - 1 = n
      OBVIOUS
    <2> QED
      BY <1>1, <2>1
  <1>2. 0 .. len \subseteq T
    BY <1>1, BoundedInduction
  <1> QED
    BY <1>2

\* A loop has one run.
LEMMA RunUnique ==
    ASSUME NEW job, NEW base, NEW s, Len(s) \in Nat,
           NEW f, Run(job, base, s, f), NEW g, Run(job, base, s, g)
    PROVE  f[Len(s)] = g[Len(s)]
  <1> DEFINE T == {n \in 0 .. Len(s) : f[n] = g[n]}
  <1>1. 0 \in T
    BY DEF Run
  <1>2. ASSUME NEW n \in 1 .. Len(s), n - 1 \in T
        PROVE  n \in T
    BY <1>2 DEF Run
  <1>3. Len(s) \in T
    <2> HIDE DEF T
    <2> QED
      BY <1>1, <1>2, LastOne
  <1> QED
    BY <1>3

\* The function that a loop computes, as Loop defines it.
Unrolled(job, base, s, g) ==
    [n \in 0 .. Len(s) |-> IF n = 0 THEN base ELSE StepOf(job, g[n - 1], s[n])]

\* There is one, and it is a run.
LEMMA Unrolls ==
    ASSUME NEW job, NEW base, NEW s, Len(s) \in Nat
    PROVE  /\ \E f : f = Unrolled(job, base, s, f)
           /\ \A f : f = Unrolled(job, base, s, f) => Run(job, base, s, f)
  <1>1. PICK f : f = [n \in 0 .. Len(s) |-> f[n]] /\ Run(job, base, s, f)
    BY RunExists
  <1>2. f = Unrolled(job, base, s, f)
    <2>1. \A n \in 0 .. Len(s) :
              f[n] = IF n = 0 THEN base ELSE StepOf(job, f[n - 1], s[n])
      BY <1>1 DEF Run
    <2>2. Unrolled(job, base, s, f) = [n \in 0 .. Len(s) |-> f[n]]
      BY <2>1, Zenon DEF Unrolled
    <2> QED
      BY <1>1, <2>2
  <1>3. ASSUME NEW g, g = Unrolled(job, base, s, g)
        PROVE  Run(job, base, s, g)
    <2>1. g[0] = base
      BY <1>3 DEF Unrolled
    <2>2. ASSUME NEW n \in 1 .. Len(s)
          PROVE  g[n] = StepOf(job, g[n - 1], s[n])
      BY <1>3 DEF Unrolled
    <2> QED
      BY <2>1, <2>2 DEF Run
  <1> QED
    BY <1>2, <1>3

\* The loop of getTypeEntry ends as its run does.
LEMMA TypeLoopRuns ==
    ASSUME NEW types, NEW x, NEW t, NEW F, NEW entry,
           Len(types[t].attrs) \in Nat
    PROVE  \E f : /\ Run(TypeJob(x, t, F, entry), NoType, types[t].attrs, f)
                  /\ TypeLoop(types, x, t, F, entry) = f[Len(types[t].attrs)]
  <1> DEFINE job == TypeJob(x, t, F, entry)
             Step(e, a) == TypeStep(x, t, F, entry, e, a)
             Steps(g) == [n \in 0 .. Len(types[t].attrs) |->
                             IF n = 0 THEN NoType ELSE Step(g[n - 1], types[t].attrs[n])]
             after == CHOOSE g : g = Steps(g)
  <1>1. TypeLoop(types, x, t, F, entry) = after[Len(types[t].attrs)]
    BY DEF TypeLoop, Loop
  <1>2. \A e, a : StepOf(job, e, a) = Step(e, a)
    BY DEF StepOf, TypeJob
  <1> HIDE DEF Step, job
  <1>3. \A g : Steps(g) = Unrolled(job, NoType, types[t].attrs, g)
    BY <1>2, Zenon DEF Unrolled
  <1> HIDE DEF Steps
  <1>4. after = Steps(after)
    BY <1>3, Unrolls
  <1>5. Run(job, NoType, types[t].attrs, after)
    <2> HIDE DEF after
    <2> QED
      BY <1>3, <1>4, Unrolls
  <1> HIDE DEF after
  <1> QED
    BY <1>1, <1>5 DEF job

\* The loop of getVariable ends as its run does.
LEMMA VariableRuns ==
    ASSUME NEW types, NEW die, NEW op, NEW F,
           Len(die.attrs) \in Nat
    PROVE  \E f : /\ Run(VariableJob(die, op, F, getTypeEntry(types, die.id, F)), Variable, die.attrs, f)
                  /\ getVariable(types, die, op, F) = f[Len(die.attrs)]
  <1> DEFINE job == VariableJob(die, op, F, getTypeEntry(types, die.id, F))
             Step(e, a) == VariableStep(die, op, F, getTypeEntry(types, die.id, F), e, a)
             Steps(g) == [n \in 0 .. Len(die.attrs) |->
                             IF n = 0 THEN Variable ELSE Step(g[n - 1], die.attrs[n])]
             after == CHOOSE g : g = Steps(g)
  <1>1. getVariable(types, die, op, F) = after[Len(die.attrs)]
    BY DEF getVariable, Loop
  <1>2. \A e, a : StepOf(job, e, a) = Step(e, a)
    BY DEF StepOf, VariableJob
  <1> HIDE DEF Step, job
  <1>3. \A g : Steps(g) = Unrolled(job, Variable, die.attrs, g)
    BY <1>2, Zenon DEF Unrolled
  <1> HIDE DEF Steps
  <1>4. after = Steps(after)
    BY <1>3, Unrolls
  <1>5. Run(job, Variable, die.attrs, after)
    <2> HIDE DEF after
    <2> QED
      BY <1>3, <1>4, Unrolls
  <1> HIDE DEF after
  <1> QED
    BY <1>1, <1>5 DEF job

\* The loop of fillFuncNonVars ends as its run does.
LEMMA FuncRuns ==
    ASSUME NEW die, NEW F,
           Len(die.attrs) \in Nat
    PROVE  \E f : /\ Run(FuncJob(die, F), Function, die.attrs, f)
                  /\ fillFuncNonVars(die, F) = f[Len(die.attrs)]
  <1> DEFINE job == FuncJob(die, F)
             Step(e, a) == FuncStep(die, F, e, a)
             Steps(g) == [n \in 0 .. Len(die.attrs) |->
                             IF n = 0 THEN Function ELSE Step(g[n - 1], die.attrs[n])]
             after == CHOOSE g : g = Steps(g)
  <1>1. fillFuncNonVars(die, F) = after[Len(die.attrs)]
    BY DEF fillFuncNonVars, Loop
  <1>2. \A e, a : StepOf(job, e, a) = Step(e, a)
    BY DEF StepOf, FuncJob
  <1> HIDE DEF Step, job
  <1>3. \A g : Steps(g) = Unrolled(job, Function, die.attrs, g)
    BY <1>2, Zenon DEF Unrolled
  <1> HIDE DEF Steps
  <1>4. after = Steps(after)
    BY <1>3, Unrolls
  <1>5. Run(job, Function, die.attrs, after)
    <2> HIDE DEF after
    <2> QED
      BY <1>3, <1>4, Unrolls
  <1> HIDE DEF after
  <1> QED
    BY <1>1, <1>5 DEF job

\* The loop of fillFuncVars ends as its run does.
LEMMA LocalsRuns ==
    ASSUME NEW types, NEW die, NEW F,
           Len(die.children) \in Nat, childOf(die) \notin F
    PROVE  \E f : /\ Run(LocalsJob(types, F), NoLocals, die.children, f)
                  /\ fillFuncVars(types, die, F) = f[Len(die.children)]
  <1> DEFINE job == LocalsJob(types, F)
             Step(e, a) == LocalStep(types, F, e, a)
             Steps(g) == [n \in 0 .. Len(die.children) |->
                             IF n = 0 THEN NoLocals ELSE Step(g[n - 1], die.children[n])]
             after == CHOOSE g : g = Steps(g)
  <1>1. fillFuncVars(types, die, F) = after[Len(die.children)]
    BY DEF fillFuncVars, Loop
  <1>2. \A e, a : StepOf(job, e, a) = Step(e, a)
    BY DEF StepOf, LocalsJob
  <1> HIDE DEF Step, job
  <1>3. \A g : Steps(g) = Unrolled(job, NoLocals, die.children, g)
    BY <1>2, Zenon DEF Unrolled
  <1> HIDE DEF Steps
  <1>4. after = Steps(after)
    BY <1>3, Unrolls
  <1>5. Run(job, NoLocals, die.children, after)
    <2> HIDE DEF after
    <2> QED
      BY <1>3, <1>4, Unrolls
  <1> HIDE DEF after
  <1> QED
    BY <1>1, <1>5 DEF job

\* The loop of getEntryType ends as its run does.
LEMMA KindRuns ==
    ASSUME NEW die, Len(die.attrs) \in Nat
    PROVE  \E f : /\ Run(KindJob, IF die.attrs = <<>> THEN "var" ELSE "error",
                         die.attrs, f)
                  /\ getEntryType(die) = f[Len(die.attrs)]
  <1> DEFINE base == IF die.attrs = <<>> THEN "var" ELSE "error"
             Steps(g) == [n \in 0 .. Len(die.attrs) |->
                             IF n = 0 THEN base ELSE KindStep(g[n - 1], die.attrs[n])]
             after == CHOOSE g : g = Steps(g)
  <1>1. getEntryType(die) = after[Len(die.attrs)]
    BY DEF getEntryType, Loop
  <1>2. \A e, a : StepOf(KindJob, e, a) = KindStep(e, a)
    BY DEF StepOf, KindJob
  <1> HIDE DEF base
  <1>3. \A g : Steps(g) = Unrolled(KindJob, base, die.attrs, g)
    BY <1>2, Zenon DEF Unrolled
  <1> HIDE DEF Steps
  <1>4. after = Steps(after)
    BY <1>3, Unrolls
  <1>5. Run(KindJob, base, die.attrs, after)
    <2> HIDE DEF after
    <2> QED
      BY <1>3, <1>4, Unrolls
  <1> HIDE DEF after
  <1> QED
    BY <1>1, <1>5 DEF base

-----------------------------------------------------------------------------
(* The recursion of getTypeEntry. *)

\* What is found for a type depends on the types that it refers to only.
LEMMA TypeLoopLocal ==
    ASSUME NEW types, NEW t \in DOMAIN types, IsDie(types, types[t]),
           NEW x, NEW F, NEW g, NEW h, \A u \in Targets(types[t]) : g[u] = h[u]
    PROVE  TypeLoop(types, x, t, F, g) = TypeLoop(types, x, t, F, h)
  <1> DEFINE s == types[t].attrs
  <1>1. Len(s) \in Nat
    BY DEF IsDie
  <1>2. PICK f : /\ Run(TypeJob(x, t, F, g), NoType, s, f)
                 /\ TypeLoop(types, x, t, F, g) = f[Len(s)]
    BY <1>1, TypeLoopRuns
  <1>3. PICK k : /\ Run(TypeJob(x, t, F, h), NoType, s, k)
                 /\ TypeLoop(types, x, t, F, h) = k[Len(s)]
    BY <1>1, TypeLoopRuns
  <1>4. ASSUME NEW n \in 1 .. Len(s), NEW e
        PROVE  StepOf(TypeJob(x, t, F, g), e, s[n]) = StepOf(TypeJob(x, t, F, h), e, s[n])
    <2>1. s[n].at = "type" /\ s[n].val # Bad => s[n].val \in Targets(types[t])
      BY DEF Targets
    <2>2. s[n].at = "type" =>
              getAttributeType(g, s[n].val) = getAttributeType(h, s[n].val)
      BY <2>1 DEF getAttributeType
    <2>3. TypeStep(x, t, F, g, e, s[n]) = TypeStep(x, t, F, h, e, s[n])
      BY <2>2, Zenon DEF TypeStep
    <2> QED
      BY <2>3 DEF StepOf, TypeJob
  <1>5. Run(TypeJob(x, t, F, h), NoType, s, f)
    BY <1>2, <1>4, Zenon DEF Run
  <1> QED
    BY <1>1, <1>2, <1>3, <1>5, RunUnique

\* The recursion is sound: getTypeEntry finds for each type what its loop
\* makes of what is found for the others.
LEMMA TypesFound ==
    ASSUME NEW types, AreTypes(types), NEW x, NEW F
    PROVE  /\ DOMAIN getTypeEntry(types, x, F) = DOMAIN types
           /\ \A t \in DOMAIN types :
                  getTypeEntry(types, x, F)[t]
                  = TypeLoop(types, x, t, F, getTypeEntry(types, x, F))
  <1> DEFINE D == DOMAIN types
             To(t) == Targets(types[t])
             Found(h, t) == TypeLoop(types, x, t, F, h)
             Closed(C) == \A t \in C : To(t) \subseteq C
             Solved(h, C) == h = [t \in D |-> h[t]] /\ \A t \in C : h[t] = Found(h, t)
             G == {S \in SUBSET D :
                      Closed(D \ S) /\ (\E h : Solved(h, D \ S)) => \E h : Solved(h, D)}
  <1>1. /\ IsFiniteSet(D)
        /\ \A t \in D : IsDie(types, types[t]) /\ To(t) \subseteq D
        /\ \A S \in SUBSET D : S # {} => \E t \in S : To(t) \cap S = {}
    BY DEF AreTypes, IsDie
  <1>2. \A t \in D : \A g, h : (\A u \in To(t) : g[u] = h[u]) => Found(g, t) = Found(h, t)
    BY <1>1, TypeLoopLocal
  <1> HIDE DEF To, Found
  <1>3. ASSUME NEW S \in SUBSET D,
               \A R \in SUBSET D : Cardinality(R) < Cardinality(S) => R \in G,
               Closed(D \ S), NEW h, Solved(h, D \ S)
        PROVE  \E g : Solved(g, D)
    <2>1. CASE S = {}
      <3>1. Solved(h, D)
        BY <1>3, <2>1
      <3> HIDE DEF Solved
      <3> QED
        BY <3>1
    <2>2. CASE S # {}
      <3>1. PICK t \in S : To(t) \cap S = {}
        BY <1>1, <2>2
      <3> DEFINE R == S \ {t}
                 g == [u \in D |-> IF u = t THEN Found(h, t) ELSE h[u]]
      <3>2. R \in G
        <4>1. IsFiniteSet(S)
          BY <1>1, FS_Subset
        <4>2. Cardinality(R) < Cardinality(S)
          <5>1. Cardinality(R) = Cardinality(S) - 1 /\ Cardinality(S) \in Nat
            BY <4>1, <3>1, FS_RemoveElement, FS_CardinalityType
          <5> HIDE DEF R
          <5> QED
            BY <5>1
        <4> QED
          BY <1>3, <4>2
      <3>3. D \ R = (D \ S) \cup {t}
        OBVIOUS
      <3>4. Closed(D \ R)
        BY <1>1, <1>3, <3>1, <3>3
      <3>5. Solved(g, D \ R)
        <4>1. g = [u \in D |-> g[u]] /\ g[t] = Found(h, t)
              /\ \A u \in D \ S : g[u] = h[u]
          OBVIOUS
        <4>2. \A u \in D \ R : Found(g, u) = Found(h, u)
          <5> HIDE DEF g
          <5>1. \A u \in D \ R : To(u) \subseteq D \ S
            BY <1>1, <1>3, <3>1, <3>3
          <5> QED
            BY <1>2, <4>1, <5>1
        <4> HIDE DEF g
        <4> QED
          BY <1>3, <3>3, <4>1, <4>2
      <3> HIDE DEF Solved, Closed
      <3> QED
        BY <3>2, <3>4, <3>5
    <2> QED
      BY <2>1, <2>2
  <1>4. SUBSET D \subseteq G
    <2>1. ASSUME NEW S \in SUBSET D,
                 \A R \in SUBSET D : Cardinality(R) < Cardinality(S) => R \in G
          PROVE  S \in G
      <3>1. Closed(D \ S) /\ (\E h : Solved(h, D \ S)) => \E h : Solved(h, D)
        <4> HIDE DEF Solved, Closed, G
        <4> QED
          BY <1>3, <2>1
      <3> HIDE DEF Solved, Closed
      <3> QED
        BY <3>1
    <2>2. IsFiniteSet(D)
      BY <1>1
    <2> HIDE DEF G, D
    <2> QED
      BY <2>1, <2>2, SizeInduction
  <1>5. \E h : Solved(h, D)
    <2>1. D \in G
      BY <1>4
    <2>2. Closed(D \ D)
      OBVIOUS
    <2>3. \E h : Solved(h, D \ D)
      <3> DEFINE h == [t \in D |-> NULL]
      <3>1. Solved(h, D \ D)
        OBVIOUS
      <3> HIDE DEF h, Solved
      <3> QED
        BY <3>1
    <2> HIDE DEF Solved, Closed
    <2> QED
      BY <2>1, <2>2, <2>3
  <1> DEFINE Entries(h) == [t \in D |-> Found(h, t)]
             entry == CHOOSE h : h = Entries(h)
  <1>6. \E h : h = Entries(h)
    <2>1. PICK h : Solved(h, D)
      BY <1>5
    <2>2. h = Entries(h)
      BY <2>1
    <2> HIDE DEF Entries
    <2> QED
      BY <2>2
  <1>7. entry = Entries(entry)
    <2> HIDE DEF Entries
    <2> QED
      BY <1>6
  <1>8. getTypeEntry(types, x, F) = entry
    BY DEF getTypeEntry, Found
  <1> HIDE DEF entry
  <1> QED
    BY <1>7, <1>8 DEF Found

-----------------------------------------------------------------------------
(* What the loops make. *)

\* A string in a block of the program's own, or none.
Owned(name, blocks, F) ==
    name # NULL => /\ name = [text |-> name.text, at |-> name.at]
                   /\ name.at \in blocks \ F

\* The blocks of the names of types that DIE x gets.
TypeNames(types, x) == {TypeName(x, t) : t \in DOMAIN types}

\* Some type's name could not be made longer when this was tried.
Short(types, x, F, tried) ==
    \E u \in DOMAIN types : <<x, "star", u>> \in F \cap tried

TypeFound(types, x, F, e) ==
    /\ e = [name |-> e.name, size |-> e.size, mallocs |-> e.mallocs,
            reallocs |-> e.reallocs, crash |-> e.crash]
    /\ e.mallocs \subseteq TypeNames(types, x)
    /\ Owned(e.name, e.mallocs, F)
    /\ e.crash => Short(types, x, F, e.reallocs)

\* A type of which nothing was found is one whose parts are owned.
LEMMA NoTypeFound ==
    ASSUME NEW types, NEW x, NEW F
    PROVE  TypeFound(types, x, F, NoType)
  BY DEF TypeFound, NoType, Owned

\* What an attribute adds to a type.
LEMMA TypeStepFound ==
    ASSUME NEW types, NEW t \in DOMAIN types, NEW x, NEW F, NEW entry,
           NEW e, TypeFound(types, x, F, e), NEW a,
           a.at = "type" /\ a.val # Bad => TypeFound(types, x, F, entry[a.val])
    PROVE  TypeFound(types, x, F, TypeStep(x, t, F, entry, e, a))
  <1> DEFINE new == TypeStep(x, t, F, entry, e, a)
  <1> SUFFICES TypeFound(types, x, F, new)
    OBVIOUS
  <1>1. CASE a.at = "name" /\ Unnamed(e)
    <2>1. new = SetName(e, a.val, TypeName(x, t), F)
      BY <1>1 DEF TypeStep
    <2> HIDE DEF new
    <2>2. TypeName(x, t) \in TypeNames(types, x)
      BY DEF TypeNames
    <2> QED
      BY <2>1, <2>2 DEF SetName, getAttributeString, StringBlock, TypeFound, Owned
  <1>2. CASE a.at = "byte_size"
    <2>1. \E n : new = [e EXCEPT !.size = n]
      BY <1>2 DEF TypeStep
    <2> HIDE DEF new
    <2> QED
      BY <2>1 DEF TypeFound
  <1>3. CASE a.at = "type" /\ Unnamed(e)
    <2> DEFINE type == getAttributeType(entry, a.val)
               block == <<x, "star", t>>
    <2>1. TypeFound(types, x, F, type)
      BY <1>3, NoTypeFound DEF getAttributeType
    <2>2. new = Refer(e, type, block, F)
      BY <1>3 DEF TypeStep
    <2> HIDE DEF new, type
    <2>3. CASE ~Known(type)
      BY <2>1, <2>2, <2>3 DEF Refer, TypeFound, Owned, Short
    <2>4. CASE Known(type)
      <3>1. new.name = [type.name EXCEPT !.text = Starred(type.name.text)]
        BY <2>2, <2>4 DEF Refer, TypeFound
      <3>2. new.name.at = type.name.at
            /\ new.name = [text |-> new.name.text, at |-> new.name.at]
        BY <2>1, <2>4, <3>1 DEF Known, TypeFound, Owned
      <3>3. /\ new = [name |-> new.name, size |-> new.size, mallocs |-> new.mallocs,
                      reallocs |-> new.reallocs, crash |-> new.crash]
            /\ new.mallocs = e.mallocs \cup type.mallocs
            /\ new.reallocs = (e.reallocs \cup type.reallocs) \cup {block}
            /\ new.crash = ((e.crash \/ type.crash) \/ block \in F)
        BY <2>2, <2>4 DEF Refer, TypeFound
      <3>4. new.crash => Short(types, x, F, new.reallocs)
        BY <2>1, <3>3 DEF TypeFound, Short
      <3> QED
        BY <2>1, <2>4, <3>2, <3>3, <3>4 DEF TypeFound, Owned, Known
    <2> QED
      BY <2>3, <2>4
  <1>4. CASE ~(a.at = "name" /\ Unnamed(e)) /\ a.at # "byte_size"
             /\ ~(a.at = "type" /\ Unnamed(e))
    BY <1>4 DEF TypeStep
  <1> QED
    BY <1>1, <1>2, <1>3, <1>4

\* Every type that is found is named by a string of the DIE's own, and found
\* without misuse of memory as long as there is enough of it.
LEMMA TypesOwnTheirNames ==
    ASSUME NEW types, AreTypes(types), NEW x, NEW F, NEW t \in DOMAIN types
    PROVE  TypeFound(types, x, F, getTypeEntry(types, x, F)[t])
  <1> DEFINE entry == getTypeEntry(types, x, F)
             Fine(u) == TypeFound(types, x, F, entry[u])
             S == {u \in DOMAIN types : ~Fine(u)}
  <1>1. SUFFICES ASSUME S # {}
                 PROVE  FALSE
    OBVIOUS
  <1>2. PICK u \in S : Targets(types[u]) \cap S = {}
    BY <1>1 DEF AreTypes
  <1> DEFINE s == types[u].attrs
  <1>3. IsDie(types, types[u]) /\ Len(s) \in Nat /\ Targets(types[u]) \subseteq DOMAIN types
    BY <1>2 DEF AreTypes, IsDie
  <1>4. PICK f : /\ Run(TypeJob(x, u, F, entry), NoType, s, f)
                 /\ TypeLoop(types, x, u, F, entry) = f[Len(s)]
    BY <1>3, TypeLoopRuns
  <1> DEFINE T == {n \in 0 .. Len(s) : TypeFound(types, x, F, f[n])}
  <1>5. 0 \in T
    BY <1>3, <1>4, NoTypeFound DEF Run
  <1>6. ASSUME NEW n \in 1 .. Len(s), n - 1 \in T
        PROVE  n \in T
    <2>1. s[n].at = "type" /\ s[n].val # Bad => Fine(s[n].val)
      BY <1>2, <1>3 DEF Targets
    <2>2. TypeFound(types, x, F, TypeStep(x, u, F, entry, f[n - 1], s[n]))
      BY <1>6, <2>1, TypeStepFound
    <2>3. f[n] = TypeStep(x, u, F, entry, f[n - 1], s[n])
      BY <1>4 DEF Run, StepOf, TypeJob
    <2> QED
      BY <2>2, <2>3
  <1>7. Len(s) \in T
    <2> HIDE DEF T
    <2> QED
      BY <1>3, <1>5, <1>6, LastOne
  <1>8. Fine(u)
    BY <1>4, <1>7, TypesFound
  <1> QED
    BY <1>2, <1>8

VariableFound(types, x, F, e) ==
    /\ e = [name |-> e.name, type |-> e.type, place |-> e.place,
            mallocs |-> e.mallocs, reallocs |-> e.reallocs, crash |-> e.crash]
    /\ e.mallocs \subseteq {<<x, "name">>} \cup TypeNames(types, x)
    /\ Owned(e.name, e.mallocs \cap {<<x, "name">>}, F)
    /\ TypeFound(types, x, F, e.type)
    /\ e.type.mallocs \subseteq e.mallocs
    /\ e.crash => Short(types, x, F, e.reallocs)

\* What an attribute adds to a variable.
LEMMA VariableStepFound ==
    ASSUME NEW types, NEW die, NEW op, NEW F, NEW entry,
           NEW e, VariableFound(types, die.id, F, e), NEW a,
           a.at = "type" /\ a.val # Bad => TypeFound(types, die.id, F, entry[a.val])
    PROVE  VariableFound(types, die.id, F, VariableStep(die, op, F, entry, e, a))
  <1> DEFINE new == VariableStep(die, op, F, entry, e, a)
             x == die.id
  <1> SUFFICES VariableFound(types, x, F, new)
    OBVIOUS
  <1>1. CASE a.at = "name"
    <2>1. new = SetName(e, a.val, <<x, "name">>, F)
      BY <1>1 DEF VariableStep
    <2> HIDE DEF new, x
    <2>2. /\ e = [name |-> e.name, type |-> e.type, place |-> e.place,
                  mallocs |-> e.mallocs, reallocs |-> e.reallocs, crash |-> e.crash]
          /\ e.mallocs \subseteq {<<x, "name">>} \cup TypeNames(types, x)
          /\ TypeFound(types, x, F, e.type)
          /\ e.type.mallocs \subseteq e.mallocs
          /\ e.crash => Short(types, x, F, e.reallocs)
      BY DEF VariableFound, x
    <2>3. /\ new.mallocs = e.mallocs \cup StringBlock(a.val, <<x, "name">>)
          /\ new.name = getAttributeString(a.val, <<x, "name">>, F)
          /\ new = [name |-> new.name, type |-> e.type, place |-> e.place,
                    mallocs |-> new.mallocs, reallocs |-> e.reallocs, crash |-> e.crash]
      BY <2>1, <2>2 DEF SetName
    <2>4. Owned(new.name, new.mallocs \cap {<<x, "name">>}, F)
      BY <2>3 DEF getAttributeString, StringBlock, Owned
    <2> QED
      BY <2>2, <2>3, <2>4 DEF StringBlock, VariableFound
  <1>2. CASE a.at = "type"
    <2> DEFINE type == getAttributeType(entry, a.val)
    <2>1. TypeFound(types, x, F, type)
      BY <1>2, NoTypeFound DEF getAttributeType
    <2>2. new = SetType(e, type)
      BY <1>2 DEF VariableStep
    <2> HIDE DEF new, type, x
    <2>3. VariableFound(types, x, F, e)
      BY DEF x
    <2>4. new = [name |-> e.name, type |-> IF Known(type) THEN type ELSE NoType,
                 place |-> e.place, mallocs |-> e.mallocs \cup type.mallocs,
                 reallocs |-> e.reallocs \cup type.reallocs,
                 crash |-> e.crash \/ type.crash]
      BY <2>2, <2>3 DEF SetType, VariableFound
    <2>5. /\ TypeFound(types, x, F, new.type)
          /\ new.type.mallocs \subseteq new.mallocs
      BY <2>1, <2>4, NoTypeFound DEF NoType
    <2>6. new.mallocs \subseteq {<<x, "name">>} \cup TypeNames(types, x)
      BY <2>1, <2>3, <2>4 DEF VariableFound, TypeFound
    <2>7. Owned(new.name, new.mallocs \cap {<<x, "name">>}, F)
      BY <2>3, <2>4 DEF VariableFound, Owned
    <2>8. new.crash => Short(types, x, F, new.reallocs)
      BY <2>1, <2>3, <2>4 DEF VariableFound, TypeFound, Short
    <2> QED
      BY <2>4, <2>5, <2>6, <2>7, <2>8 DEF VariableFound
  <1>3. CASE a.at = "location"
    <2>1. new = SetPlace(e, a.val, op)
      BY <1>3 DEF VariableStep
    <2>2. new = e \/ \E n : new = [e EXCEPT !.place = n]
      BY <2>1 DEF SetPlace
    <2> HIDE DEF new
    <2> QED
      BY <2>2 DEF VariableFound
  <1>4. CASE a.at \notin {"name", "type", "location"}
    BY <1>4 DEF VariableStep
  <1> QED
    BY <1>1, <1>2, <1>3, <1>4

\* Every variable has strings of its own.
LEMMA VariablesOwnTheirStrings ==
    ASSUME NEW types, AreTypes(types), NEW die, IsDie(types, die), NEW op, NEW F
    PROVE  VariableFound(types, die.id, F, getVariable(types, die, op, F))
  <1> DEFINE s == die.attrs
             entry == getTypeEntry(types, die.id, F)
  <1>1. Len(s) \in Nat /\ Targets(die) \subseteq DOMAIN types
    BY DEF IsDie
  <1>2. PICK f : /\ Run(VariableJob(die, op, F, entry), Variable, s, f)
                 /\ getVariable(types, die, op, F) = f[Len(s)]
    BY <1>1, VariableRuns
  <1> DEFINE T == {n \in 0 .. Len(s) : VariableFound(types, die.id, F, f[n])}
  <1>3. 0 \in T
    <2>1. VariableFound(types, die.id, F, Variable)
      BY NoTypeFound DEF VariableFound, Variable, Owned, NoType
    <2> QED
      BY <1>1, <1>2, <2>1 DEF Run
  <1>4. ASSUME NEW n \in 1 .. Len(s), n - 1 \in T
        PROVE  n \in T
    <2>1. s[n].at = "type" /\ s[n].val # Bad =>
              TypeFound(types, die.id, F, entry[s[n].val])
      BY <1>1, TypesOwnTheirNames DEF Targets
    <2>2. VariableFound(types, die.id, F, VariableStep(die, op, F, entry, f[n - 1], s[n]))
      BY <1>4, <2>1, VariableStepFound
    <2>3. f[n] = VariableStep(die, op, F, entry, f[n - 1], s[n])
      BY <1>2 DEF Run, StepOf, VariableJob
    <2> QED
      BY <2>2, <2>3
  <1>5. Len(s) \in T
    <2> HIDE DEF T
    <2> QED
      BY <1>1, <1>3, <1>4, LastOne
  <1> QED
    BY <1>2, <1>5

FuncFound(x, F, e) ==
    /\ e = [name |-> e.name, lowPC |-> e.lowPC, length |-> e.length,
            mallocs |-> e.mallocs]
    /\ e.mallocs \subseteq {<<x, "name">>}
    /\ Owned(e.name, e.mallocs, F)

\* What an attribute adds to a function.
LEMMA FuncStepFound ==
    ASSUME NEW die, NEW F, NEW e, FuncFound(die.id, F, e), NEW a,
           a.at = "high_pc" /\ a.val # Bad => a.val.form \in {"length", "address"}
    PROVE  FuncFound(die.id, F, FuncStep(die, F, e, a))
  <1> DEFINE new == FuncStep(die, F, e, a)
             x == die.id
  <1> SUFFICES FuncFound(x, F, new)
    OBVIOUS
  <1>1. CASE a.at = "name"
    <2>1. new = SetName(e, a.val, <<x, "name">>, F)
      BY <1>1 DEF FuncStep
    <2>2. FuncFound(x, F, e)
      OBVIOUS
    <2> HIDE DEF new, x
    <2> QED
      BY <2>1, <2>2 DEF SetName, getAttributeString, StringBlock, FuncFound, Owned
  <1>2. CASE a.at # "name"
    <2>1. \/ new = e
          \/ \E n : new = [e EXCEPT !.lowPC = n]
          \/ \E n, m : new = [e EXCEPT !.lowPC = n, !.length = m]
          \/ \E m : new = [e EXCEPT !.length = m]
      <3>1. CASE a.at = "low_pc"
        BY <3>1, Zenon DEF FuncStep, SetLow
      <3>2. CASE a.at # "low_pc" /\ a.at # "high_pc"
        BY <1>2, <3>2 DEF FuncStep
      <3>3. CASE a.at = "high_pc"
        <4>1. new = SetHigh(e, a.val)
          BY <3>3 DEF FuncStep
        <4> QED
          BY <3>3, <4>1 DEF SetHigh
      <3> QED
        BY <3>1, <3>2, <3>3
    <2> HIDE DEF new
    <2> QED
      BY <2>1 DEF FuncFound
  <1> QED
    BY <1>1, <1>2

\* Every function has a name of its own.
LEMMA FuncsOwnTheirNames ==
    ASSUME NEW types, NEW die, IsDie(types, die), NEW F
    PROVE  FuncFound(die.id, F, fillFuncNonVars(die, F))
  <1> DEFINE s == die.attrs
  <1>1. Len(s) \in Nat
    BY DEF IsDie
  <1>2. PICK f : /\ Run(FuncJob(die, F), Function, s, f)
                 /\ fillFuncNonVars(die, F) = f[Len(s)]
    BY <1>1, FuncRuns
  <1> DEFINE T == {n \in 0 .. Len(s) : FuncFound(die.id, F, f[n])}
  <1>3. 0 \in T
    <2>1. FuncFound(die.id, F, Function)
      BY DEF FuncFound, Function, Owned
    <2> QED
      BY <1>1, <1>2, <2>1 DEF Run
  <1>4. ASSUME NEW n \in 1 .. Len(s), n - 1 \in T
        PROVE  n \in T
    <2>1. s[n].at = "high_pc" /\ s[n].val # Bad => s[n].val.form \in {"length", "address"}
      BY DEF IsDie
    <2>2. FuncFound(die.id, F, FuncStep(die, F, f[n - 1], s[n]))
      BY <1>4, <2>1, FuncStepFound
    <2>3. f[n] = FuncStep(die, F, f[n - 1], s[n])
      BY <1>2 DEF Run, StepOf, FuncJob
    <2> QED
      BY <2>2, <2>3
  <1>5. Len(s) \in T
    <2> HIDE DEF T
    <2> QED
      BY <1>1, <1>3, <1>4, LastOne
  <1> QED
    BY <1>2, <1>5

\* What a DIE is taken for.
LEMMA KindTypes ==
    ASSUME NEW types, NEW die, IsDie(types, die)
    PROVE  getEntryType(die) \in Kinds \cup {"error"}
  <1> DEFINE s == die.attrs
             base == IF die.attrs = <<>> THEN "var" ELSE "error"
             K == Kinds \cup {"error"}
  <1>1. Len(s) \in Nat
    BY DEF IsDie
  <1>2. PICK f : Run(KindJob, base, s, f) /\ getEntryType(die) = f[Len(s)]
    BY <1>1, KindRuns
  <1> DEFINE T == {n \in 0 .. Len(s) : f[n] \in K}
  <1>3. 0 \in T
    BY <1>1, <1>2 DEF Run, Kinds
  <1>4. ASSUME NEW n \in 1 .. Len(s), n - 1 \in T
        PROVE  n \in T
    <2>1. f[n] = KindStep(f[n - 1], s[n])
      BY <1>2 DEF Run, StepOf, KindJob
    <2>2. f[n - 1] \in K
      BY <1>4
    <2>3. f[n] \in K
      BY <2>1, <2>2, Zenon DEF KindStep, Kinds
    <2> QED
      BY <2>3
  <1>5. Len(s) \in T
    <2> HIDE DEF T
    <2> QED
      BY <1>1, <1>3, <1>4, LastOne
  <1> QED
    BY <1>2, <1>5

-----------------------------------------------------------------------------
(* Arrays. *)

\* A sequence of something.
Listed(s) == s \in Seq(ToSet(s))

IsArray(array) ==
    /\ array = [items |-> array.items, capacity |-> array.capacity,
                allocated |-> array.allocated]
    /\ Listed(array.items)

\* An array is as long as its capacity says and has room for its entries.
Sound(array) ==
    /\ Listed(array.items)
    /\ array.capacity \in Nat \ {0}
    /\ array.allocated = array.capacity
    /\ Len(array.items) <= array.capacity

\* Append adds its argument at the end.
LEMMA Appended ==
    ASSUME NEW s, Listed(s), NEW entry
    PROVE  /\ Listed(Append(s, entry))
           /\ Len(s) \in Nat /\ Len(Append(s, entry)) = Len(s) + 1
           /\ DOMAIN s = 1 .. Len(s) /\ DOMAIN Append(s, entry) = 1 .. Len(s) + 1
           /\ \A i \in 1 .. Len(s) : Append(s, entry)[i] = s[i]
           /\ Append(s, entry)[Len(s) + 1] = entry
  <1>1. s \in Seq(ToSet(s) \cup {entry}) /\ Len(s) \in Nat
    BY DEF Listed
  <1>2. /\ Append(s, entry) \in Seq(ToSet(s) \cup {entry})
        /\ DOMAIN Append(s, entry) = 1 .. Len(s) + 1
        /\ \A i \in 1 .. Len(s) : Append(s, entry)[i] = s[i]
        /\ Append(s, entry)[Len(s) + 1] = entry
        /\ Len(Append(s, entry)) = Len(s) + 1
    BY <1>1, AppendProperties
  <1>3. DOMAIN s = 1 .. Len(s)
    BY <1>1
  <1>4. ToSet(s) \cup {entry} \subseteq ToSet(Append(s, entry))
    <2>1. ASSUME NEW i \in DOMAIN s
          PROVE  s[i] \in ToSet(Append(s, entry))
      <3>1. i \in 1 .. Len(s) + 1
        BY <1>1, <1>3, <2>1
      <3> QED
        BY <1>2, <1>3, <2>1, <3>1 DEF ToSet
    <2>2. entry \in ToSet(Append(s, entry))
      <3>1. Len(s) + 1 \in 1 .. Len(s) + 1
        BY <1>1
      <3> QED
        BY <1>2, <3>1 DEF ToSet
    <2> QED
      BY <2>1, <2>2, Zenon DEF ToSet
  <1>5. Listed(Append(s, entry))
    BY <1>2, <1>4, SeqMonotonic DEF Listed
  <1> QED
    BY <1>1, <1>2, <1>3, <1>5

\* Unless reallocarray fails, appending keeps an array sound: it grows when
\* it is full, and not only after.
LEMMA AppendSound ==
    ASSUME NEW array, Sound(array), NEW entry
    PROVE  Sound(append(array, entry, FALSE))
  <1> DEFINE n == Len(array.items)
             c == array.capacity
             new == append(array, entry, FALSE)
  <1> SUFFICES Sound(new)
    OBVIOUS
  <1>1. /\ new.items = Append(array.items, entry)
        /\ n = c => new.capacity = 2 * c /\ new.allocated = 2 * c
        /\ n # c => new.capacity = c /\ new.allocated = array.allocated
    BY DEF append, Full
  <1>2. c \in Nat /\ c # 0 /\ n <= c /\ array.allocated = c
    BY DEF Sound
  <1>3. /\ Listed(new.items) /\ n \in Nat /\ Len(new.items) = n + 1
    <2>1. Listed(array.items)
      BY DEF Sound
    <2>2. /\ Listed(Append(array.items, entry)) /\ n \in Nat
          /\ Len(Append(array.items, entry)) = n + 1
      BY <2>1, Appended, Zenon
    <2> QED
      BY <1>1, <2>2, Zenon
  <1> HIDE DEF n, c, new
  <1> QED
    BY <1>1, <1>2, <1>3 DEF Sound

\* Appending to an array leaves its entries, and adds the new one or none.
LEMMA AppendArray ==
    ASSUME NEW array, IsArray(array), NEW entry, NEW fails \in BOOLEAN
    PROVE  /\ IsArray(append(array, entry, fails))
           /\ append(array, entry, fails).items
              \in {array.items, Append(array.items, entry)}
  <1> DEFINE new == append(array, entry, fails)
  <1> SUFFICES IsArray(new) /\ new.items \in {array.items, Append(array.items, entry)}
    OBVIOUS
  <1>1. /\ new = [items |-> new.items, capacity |-> new.capacity,
                  allocated |-> new.allocated]
        /\ new.items \in {array.items, Append(array.items, entry)}
    <2>1. CASE Full(array) /\ fails
      <3>1. new = [array EXCEPT !.capacity = 2 * array.capacity]
        BY <2>1 DEF append
      <3> HIDE DEF new
      <3> QED
        BY <3>1 DEF IsArray
    <2>2. CASE ~(Full(array) /\ fails)
      BY <2>2 DEF append
    <2> QED
      BY <2>1, <2>2
  <1>2. Listed(array.items) /\ Listed(Append(array.items, entry))
    BY Appended DEF IsArray
  <1>3. Listed(new.items)
    <2> HIDE DEF new
    <2> QED
      BY <1>1, <1>2
  <1> HIDE DEF new
  <1> QED
    BY <1>1, <1>3 DEF IsArray

\* An array begins empty, with room for MIN_CAPACITY entries.
LEMMA NewArraySound == IsArray(NewArray) /\ Sound(NewArray) /\ NewArray.items = <<>>
  BY DwarfEntriesAssumption, EmptySeq DEF NewArray, Sound, IsArray, Listed

-----------------------------------------------------------------------------
(* Locals. *)

\* A DIE that is read: the handles in it differ.
IsGiven(types, die) ==
    /\ IsEntry(types, die)
    /\ \A j \in 1 .. Len(die.children) :
           /\ die.children[j].id # die.id
           /\ \A i \in 1 .. j - 1 : die.children[j].id # die.children[i].id

\* The array of a function's locals could not be grown for one of its first n
\* children; the name of a type of one of these could not be made longer.
GrowthsFail(die, F, n, tried) ==
    \E j \in 1 .. n : growth(die.children[j], "local") \in F \cap tried
NamesFail(types, die, F, n, tried) ==
    \E j \in 1 .. n : Short(types, die.children[j].id, F, tried)

\* What the first n children of a function have made of its locals.
LocalsFound(types, die, F, n, e) ==
    /\ e = [vars |-> e.vars, mallocs |-> e.mallocs, reallocs |-> e.reallocs,
            calls |-> e.calls, done |-> e.done, crash |-> e.crash, wild |-> e.wild]
    /\ IsArray(e.vars)
    /\ Sound(e.vars) \/ GrowthsFail(die, F, n, e.reallocs)
    /\ e.crash => NamesFail(types, die, F, n, e.reallocs)
    /\ e.wild => childOf(die) \in F
    /\ e.mallocs \subseteq UNION {{<<die.children[j].id, "name">>}
                                  \cup TypeNames(types, die.children[j].id) : j \in 1 .. n}
    /\ \A i \in DOMAIN e.vars.items :
           LET v == e.vars.items[i]
           IN  /\ HasOffset(v)
               /\ \E j \in 1 .. n : VariableFound(types, die.children[j].id, F, v)
               /\ v.mallocs \subseteq e.mallocs
               /\ \A k \in DOMAIN e.vars.items :
                      k # i => e.vars.items[k].name.at # v.name.at

\* What one more child adds.
LEMMA LocalStepFound ==
    ASSUME NEW types, AreTypes(types), NEW die, IsGiven(types, die), NEW F,
           NEW n \in 1 .. Len(die.children),
           NEW e, LocalsFound(types, die, F, n - 1, e)
    PROVE  LocalsFound(types, die, F, n, LocalStep(types, F, e, die.children[n]))
  <1> DEFINE y == die.children[n]
             v == getVariable(types, y, "fbreg", F)
             fails == growth(y, "local") \in F
             new == LocalStep(types, F, e, y)
             ChildBlocks(j) == {<<die.children[j].id, "name">>}
                          \cup TypeNames(types, die.children[j].id)
             Child(j, w) == VariableFound(types, die.children[j].id, F, w)
  <1> SUFFICES LocalsFound(types, die, F, n, new)
    OBVIOUS
  <1>1. n \in Nat /\ 1 .. n = (1 .. n - 1) \cup {n}
    BY DEF IsGiven, IsEntry, IsDie
  <1>2. Child(n, v) /\ v.mallocs \subseteq ChildBlocks(n)
        /\ (v.crash => Short(types, y.id, F, v.reallocs))
    BY VariablesOwnTheirStrings DEF IsGiven, IsEntry, VariableFound
  <1>3. /\ e = [vars |-> e.vars, mallocs |-> e.mallocs, reallocs |-> e.reallocs,
                calls |-> e.calls, done |-> e.done, crash |-> e.crash, wild |-> e.wild]
        /\ IsArray(e.vars)
        /\ Sound(e.vars) \/ GrowthsFail(die, F, n - 1, e.reallocs)
        /\ e.crash => NamesFail(types, die, F, n - 1, e.reallocs)
        /\ e.wild => childOf(die) \in F
        /\ e.mallocs \subseteq UNION {ChildBlocks(j) : j \in 1 .. n - 1}
        /\ \A i \in DOMAIN e.vars.items :
               /\ HasOffset(e.vars.items[i])
               /\ \E j \in 1 .. n - 1 : Child(j, e.vars.items[i])
               /\ e.vars.items[i].mallocs \subseteq e.mallocs
               /\ \A k \in DOMAIN e.vars.items :
                      k # i => e.vars.items[k].name.at # e.vars.items[i].name.at
    BY DEF LocalsFound
  <1>4. ASSUME NEW j, NEW w, Child(j, w), HasOffset(w)
        PROVE  w.name.at = <<die.children[j].id, "name">>
    BY <1>4 DEF VariableFound, HasOffset, Owned
  <1>5. \A j \in 1 .. n - 1 : <<die.children[j].id, "name">> # <<y.id, "name">>
    BY <1>1 DEF IsGiven, IsEntry
  <1>6. (UNION {ChildBlocks(j) : j \in 1 .. n - 1}) \cup ChildBlocks(n)
        \subseteq UNION {ChildBlocks(j) : j \in 1 .. n}
    <2> HIDE DEF ChildBlocks
    <2> QED
      BY <1>1, Zenon
  <1>9. /\ \A S : GrowthsFail(die, F, n - 1, S) => GrowthsFail(die, F, n, S)
        /\ \A S, R : S \subseteq R /\ GrowthsFail(die, F, n, S)
                         => GrowthsFail(die, F, n, R)
        /\ \A S : NamesFail(types, die, F, n - 1, S) => NamesFail(types, die, F, n, S)
        /\ \A S : Short(types, y.id, F, S) => NamesFail(types, die, F, n, S)
        /\ \A S, R : S \subseteq R /\ NamesFail(types, die, F, n, S)
                         => NamesFail(types, die, F, n, R)
    BY <1>1 DEF GrowthsFail, NamesFail, Short
  <1> HIDE DEF ChildBlocks, Child
  <1>7. CASE e.done \/ e.crash \/ Overrun(e.vars)
    <2>1. new = e
      BY <1>7 DEF LocalStep
    <2> QED
      BY <1>1, <1>3, <1>6, <1>9, <2>1 DEF LocalsFound, ChildBlocks, Child
  <1>8. CASE ~(e.done \/ e.crash \/ Overrun(e.vars))
    <2>1. /\ new = [vars |-> new.vars, mallocs |-> new.mallocs,
                    reallocs |-> new.reallocs, calls |-> new.calls,
                    done |-> new.done, crash |-> new.crash, wild |-> new.wild]
          /\ new.mallocs = e.mallocs \cup v.mallocs
          /\ e.reallocs \subseteq new.reallocs /\ v.reallocs \subseteq new.reallocs
          /\ HasOffset(v) /\ Full(e.vars) => growth(y, "local") \in new.reallocs
          /\ new.crash = v.crash /\ new.wild = FALSE
          /\ HasOffset(v) => new.vars = append(e.vars, v, fails)
          /\ ~HasOffset(v) => new.vars = e.vars
      BY <1>8 DEF LocalStep, AddLocal
    <2> HIDE DEF new, v
    <2>2. /\ IsArray(new.vars)
          /\ \/ new.vars.items = e.vars.items
             \/ HasOffset(v) /\ new.vars.items = Append(e.vars.items, v)
      <3>1. fails \in BOOLEAN
        BY DEF fails
      <3> HIDE DEF fails
      <3>2. /\ IsArray(append(e.vars, v, fails))
            /\ append(e.vars, v, fails).items \in {e.vars.items, Append(e.vars.items, v)}
        BY <1>3, <3>1, AppendArray, Zenon
      <3>3. CASE HasOffset(v)
        BY <2>1, <3>2, <3>3
      <3>4. CASE ~HasOffset(v)
        BY <1>3, <2>1, <3>4
      <3> QED
        BY <3>3, <3>4
    <2>3. Sound(new.vars) \/ GrowthsFail(die, F, n, new.reallocs)
      <3>1. CASE ~Sound(e.vars)
        BY <1>3, <1>9, <2>1, <3>1
      <3>2. CASE HasOffset(v) /\ Full(e.vars) /\ fails
        <4>1. growth(y, "local") \in F \cap new.reallocs
          BY <2>1, <3>2
        <4> QED
          BY <1>1, <4>1 DEF GrowthsFail
      <3>3. CASE Sound(e.vars) /\ ~(HasOffset(v) /\ Full(e.vars) /\ fails)
        <4>1. ~(Full(e.vars) /\ fails) => append(e.vars, v, fails) = append(e.vars, v, FALSE)
          BY DEF append
        <4>2. Sound(append(e.vars, v, FALSE))
          BY <3>3, AppendSound
        <4> HIDE DEF fails
        <4> QED
          BY <2>1, <3>3, <4>1, <4>2
      <3> QED
        BY <3>1, <3>2, <3>3
    <2>6. new.crash => NamesFail(types, die, F, n, new.reallocs)
      <3>1. v.crash => NamesFail(types, die, F, n, v.reallocs)
        BY <1>2, <1>9 DEF v
      <3> QED
        BY <1>9, <2>1, <3>1
    <2>4. new.mallocs \subseteq UNION {ChildBlocks(j) : j \in 1 .. n}
      BY <1>2, <1>3, <1>6, <2>1
    <2>5. ASSUME NEW i \in DOMAIN new.vars.items
          PROVE  /\ HasOffset(new.vars.items[i])
                 /\ \E j \in 1 .. n : Child(j, new.vars.items[i])
                 /\ new.vars.items[i].mallocs \subseteq new.mallocs
                 /\ \A k \in DOMAIN new.vars.items :
                        k # i => new.vars.items[k].name.at # new.vars.items[i].name.at
      <3>1. CASE new.vars.items = e.vars.items
        BY <1>1, <1>3, <2>1, <3>1
      <3>2. CASE HasOffset(v) /\ new.vars.items = Append(e.vars.items, v)
        <4> DEFINE old == e.vars.items
                   len == Len(old)
        <4>1. /\ len \in Nat /\ DOMAIN old = 1 .. len
              /\ DOMAIN new.vars.items = 1 .. len + 1
              /\ \A k \in 1 .. len : new.vars.items[k] = old[k]
              /\ new.vars.items[len + 1] = v
          BY <1>3, <3>2, Appended DEF IsArray
        <4>2. \A k \in DOMAIN old : old[k].name.at # v.name.at
          BY <1>2, <1>3, <1>4, <1>5, <3>2
        <4>3. /\ HasOffset(new.vars.items[i])
              /\ \E j \in 1 .. n : Child(j, new.vars.items[i])
              /\ new.vars.items[i].mallocs \subseteq new.mallocs
          BY <1>1, <1>2, <1>3, <2>1, <2>5, <3>2, <4>1
        <4>4. \A k \in DOMAIN new.vars.items :
                  k # i => new.vars.items[k].name.at # new.vars.items[i].name.at
          <5> DEFINE At(k) == new.vars.items[k].name.at
          <5>1. \A k, m \in 1 .. len : k # m => At(k) # At(m)
            BY <1>3, <4>1
          <5>2. \A k \in 1 .. len : At(k) # At(len + 1)
            BY <4>1, <4>2
          <5>3. i \in 1 .. len + 1 /\ DOMAIN new.vars.items = 1 .. len + 1
                /\ 1 .. len + 1 = 1 .. len \cup {len + 1}
            BY <2>5, <4>1
          <5> HIDE DEF At, len
          <5> QED
            BY <5>1, <5>2, <5>3 DEF At
        <4> QED
          BY <4>3, <4>4
      <3> QED
        BY <2>2, <3>1, <3>2
    <2> QED
      BY <2>1, <2>2, <2>3, <2>4, <2>5, <2>6 DEF LocalsFound, ChildBlocks, Child
  <1> QED
    BY <1>7, <1>8

\* The locals of a function have offsets, and names of their own, and are in
\* their array as long as no allocation fails.
LEMMA LocalsOwnTheirStrings ==
    ASSUME NEW types, AreTypes(types), NEW die, IsGiven(types, die), NEW F
    PROVE  LocalsFound(types, die, F, Len(die.children), fillFuncVars(types, die, F))
  <1> DEFINE s == die.children
  <1>1. ASSUME NEW n, NEW w \in BOOLEAN, w => childOf(die) \in F
        PROVE  LocalsFound(types, die, F, n, EmptyLocals(w))
    <2> DEFINE e == EmptyLocals(w)
    <2>1. /\ e = [vars |-> e.vars, mallocs |-> e.mallocs, reallocs |-> e.reallocs,
                  calls |-> e.calls, done |-> e.done, crash |-> e.crash, wild |-> e.wild]
          /\ e.vars = NewArray /\ e.mallocs = {} /\ e.crash = FALSE /\ e.wild = w
      BY DEF EmptyLocals
    <2>2. DOMAIN NewArray.items = {}
      BY NewArraySound
    <2> HIDE DEF e
    <2>3. LocalsFound(types, die, F, n, e)
      BY <1>1, <2>1, <2>2, NewArraySound DEF LocalsFound
    <2> QED
      BY <2>3 DEF e
  <1>2. CASE childOf(die) \in F
    <2>1. fillFuncVars(types, die, F) = EmptyLocals(TRUE)
      BY <1>2 DEF fillFuncVars
    <2> QED
      BY <1>1, <1>2, <2>1
  <1>3. CASE childOf(die) \notin F
    <2>1. Len(s) \in Nat
      BY DEF IsGiven, IsEntry, IsDie
    <2>2. PICK f : /\ Run(LocalsJob(types, F), NoLocals, s, f)
                   /\ fillFuncVars(types, die, F) = f[Len(s)]
      BY <1>3, <2>1, LocalsRuns
    <2> DEFINE T == {n \in 0 .. Len(s) : LocalsFound(types, die, F, n, f[n])}
    <2>3. 0 \in T
      <3>1. LocalsFound(types, die, F, 0, NoLocals)
        BY <1>1 DEF NoLocals
      <3> QED
        BY <2>1, <2>2, <3>1 DEF Run
    <2>4. ASSUME NEW n \in 1 .. Len(s), n - 1 \in T
          PROVE  n \in T
      <3>1. f[n] = LocalStep(types, F, f[n - 1], s[n])
        BY <2>2 DEF Run, StepOf, LocalsJob
      <3>2. LocalsFound(types, die, F, n - 1, f[n - 1])
        BY <2>4
      <3>3. LocalsFound(types, die, F, n, LocalStep(types, F, f[n - 1], s[n]))
        BY <3>2, LocalStepFound
      <3>4. n \in 0 .. Len(s)
        BY <2>1
      <3> QED
        BY <3>1, <3>3, <3>4
    <2>5. Len(s) \in T
      <3> HIDE DEF T
      <3> QED
        BY <2>1, <2>3, <2>4, LastOne
    <2> QED
      BY <2>2, <2>5
  <1> QED
    BY <1>2, <1>3

-----------------------------------------------------------------------------
(* Entries. *)

\* The causes of what may go wrong while a DIE is read.
Causes(types, die, F, k, r) ==
    /\ r.crash => \E x \in Users(die) : Short(types, x, F, r.reallocs)
    /\ k = "func" /\ r.ok /\ Overrun(r.entry.vars) =>
           GrowthsFail(die, F, Len(die.children), r.reallocs)
    /\ r.wild => childOf(die) \in F \cap r.calls

\* A function that is kept is complete.
LEMMA FuncEntryFound ==
    ASSUME NEW types, AreTypes(types), NEW die, IsGiven(types, die), NEW F
    PROVE  LET r == getFuncEntry(types, die, F)
           IN  /\ r.ok => Whole("func", r.entry)
               /\ Causes(types, die, F, "func", r)
  <1> DEFINE block == <<die.id, "vars">>
             f == fillFuncNonVars(die, F)
             complete == f.name # NULL /\ f.lowPC \notin {NULL, 0} /\ f.length # NULL
             v == fillFuncVars(types, die, F)
             locals == IF complete THEN v ELSE NoLocals
             r == getFuncEntry(types, die, F)
  <1>1. /\ r.ok = (complete /\ block \notin F)
        /\ r.entry.name = f.name /\ r.entry.vars = locals.vars
        /\ r.entry.lowPC = f.lowPC /\ r.entry.length = f.length
        /\ r.crash = (block \notin F /\ locals.crash)
        /\ r.wild = (block \notin F /\ locals.wild)
        /\ block \notin F => r.reallocs = locals.reallocs
        /\ block \notin F /\ complete => childOf(die) \in r.calls
    BY DEF getFuncEntry, FuncEntry
  <1>2. LocalsFound(types, die, F, Len(die.children), v)
    BY LocalsOwnTheirStrings
  <1> HIDE DEF r, v
  <1>3. r.ok => Whole("func", r.entry)
    <2>1. SUFFICES ASSUME r.ok
                   PROVE  Whole("func", r.entry)
      OBVIOUS
    <2>2. /\ r.entry.vars = v.vars
          /\ NULL \notin {r.entry.name, r.entry.lowPC, r.entry.length} /\ r.entry.lowPC # 0
      BY <1>1, <2>1
    <2>3. \A i \in DOMAIN v.vars.items : HasOffset(v.vars.items[i])
      BY <1>2 DEF LocalsFound
    <2>4. \A w \in ToSet(r.entry.vars.items) : HasOffset(w)
      BY <2>2, <2>3, Zenon DEF ToSet
    <2> QED
      BY <2>2, <2>4 DEF Whole
  <1>4. r.crash \/ r.wild => complete
    <2>1. ~NoLocals.crash /\ ~NoLocals.wild
      BY DEF NoLocals, EmptyLocals
    <2> QED
      BY <1>1, <2>1, Zenon
  <1>5. r.crash => \E x \in Users(die) : Short(types, x, F, r.reallocs)
    <2>1. r.crash => NamesFail(types, die, F, Len(die.children), r.reallocs)
      BY <1>1, <1>2, <1>4 DEF LocalsFound
    <2>2. \A i \in 1 .. Len(die.children) : die.children[i].id \in Users(die)
      BY DEF Users
    <2> QED
      BY <2>1, <2>2 DEF NamesFail
  <1>6. r.ok /\ Overrun(r.entry.vars) =>
            GrowthsFail(die, F, Len(die.children), r.reallocs)
    <2>1. SUFFICES ASSUME r.ok, Sound(v.vars)
                   PROVE  ~Overrun(r.entry.vars)
      BY <1>1, <1>2 DEF LocalsFound
    <2>2. Len(v.vars.items) \in Nat
      BY <2>1 DEF Sound, Listed
    <2>3. r.entry.vars = v.vars
      BY <1>1, <2>1
    <2>4. ~Overrun(v.vars)
      BY <2>1, <2>2 DEF Sound, Overrun
    <2> QED
      BY <2>3, <2>4
  <1>7. r.wild => childOf(die) \in F \cap r.calls
    BY <1>1, <1>2, <1>4 DEF LocalsFound
  <1> QED
    BY <1>3, <1>5, <1>6, <1>7 DEF r, Causes

\* Whatever its kind, what is kept of a DIE is complete, and what goes wrong has
\* its cause.
LEMMA EntryFound ==
    ASSUME NEW types, AreTypes(types), NEW die, IsGiven(types, die), NEW F
    PROVE  LET k == getEntryType(die)
               r == getEntry(types, die, F)
           IN  /\ r.ok => k \in Kinds /\ Whole(k, r.entry)
               /\ Causes(types, die, F, k, r)
  <1> DEFINE k == getEntryType(die)
             r == getEntry(types, die, F)
             var == getVariable(types, die, "addr", F)
             type == getTypeEntry(types, die.id, F)[die.off]
  <1>1. k \in {"func", "var", "type", "error"}
    BY KindTypes DEF IsGiven, IsEntry, Kinds
  <1>2. CASE k = "func"
    <2>1. r = getFuncEntry(types, die, F)
      BY <1>2 DEF getEntry
    <2> QED
      BY <1>2, <2>1, FuncEntryFound DEF Kinds
  <1>3. CASE k = "var"
    <2>1. /\ r.ok = HasAddress(var) /\ r.entry = var /\ r.crash = var.crash
          /\ r.reallocs = var.reallocs /\ r.wild = FALSE
      BY <1>3 DEF getEntry
    <2>2. VariableFound(types, die.id, F, var)
      BY VariablesOwnTheirStrings DEF IsGiven, IsEntry
    <2>3. Causes(types, die, F, k, r)
      BY <1>3, <2>1, <2>2 DEF VariableFound, Causes, Users
    <2>4. r.ok => Whole(k, r.entry)
      BY <1>3, <2>1 DEF Whole
    <2> QED
      BY <1>3, <2>3, <2>4 DEF Kinds
  <1>4. CASE k = "type"
    <2>1. /\ r.ok = Known(type) /\ r.entry = type /\ r.crash = type.crash
          /\ r.reallocs = type.reallocs /\ r.wild = FALSE
      BY <1>4 DEF getEntry
    <2>2. TypeFound(types, die.id, F, type)
      BY <1>4, TypesOwnTheirNames DEF IsGiven, IsEntry
    <2>3. Causes(types, die, F, k, r)
      BY <1>4, <2>1, <2>2 DEF TypeFound, Causes, Users
    <2>4. r.ok => Whole(k, r.entry)
      BY <1>4, <2>1 DEF Whole
    <2> QED
      BY <1>4, <2>3, <2>4 DEF Kinds
  <1>5. CASE k = "error"
    <2>1. r.ok = FALSE /\ r.crash = FALSE /\ r.wild = FALSE
      BY <1>5 DEF getEntry, NoType
    <2> QED
      BY <1>5, <2>1 DEF Causes
  <1> QED
    BY <1>1, <1>2, <1>3, <1>4, <1>5

\* A DIE is given with its attributes and its children, under new handles.
LEMMA GivenLists ==
    ASSUME NEW n, NEW die, Len(die.children) \in Nat
    PROVE  LET g == Given(n, die)
           IN  /\ g.id = <<n, die.off>> /\ g.off = die.off /\ g.attrs = die.attrs
               /\ Len(g.children) = Len(die.children)
               /\ \A i \in 1 .. Len(die.children) :
                      g.children[i] = Handle(n, die.children[i])
  <1> DEFINE g == Given(n, die)
             len == Len(die.children)
             c == [i \in 1 .. len |-> Handle(n, die.children[i])]
  <1>1. g.id = <<n, die.off>> /\ g.off = die.off /\ g.attrs = die.attrs /\ g.children = c
    BY DEF Given, Handle
  <1>2. c \in Seq(Range(c)) /\ Len(c) = len
    BY SeqDef DEF Range
  <1> HIDE DEF g
  <1> QED
    BY <1>1, <1>2 DEF g

\* What is given of a DIE of the file is a DIE, with handles that differ.
LEMMA GivenEntry ==
    ASSUME NEW types, NEW n, NEW die, IsEntry(types, die)
    PROVE  IsGiven(types, Given(n, die)) /\ getEntryType(Given(n, die)) = getEntryType(die)
  <1> DEFINE g == Given(n, die)
             len == Len(die.children)
  <1>1. /\ len \in Nat /\ Len(die.attrs) \in Nat
        /\ g.id = <<n, die.off>> /\ g.off = die.off /\ g.attrs = die.attrs
        /\ Len(g.children) = len
        /\ \A i \in 1 .. len : g.children[i] = Handle(n, die.children[i])
    BY GivenLists DEF IsEntry, IsDie
  <1>2. getEntryType(g) = getEntryType(die)
    <2> HIDE DEF g
    <2> QED
      BY <1>1, Zenon DEF getEntryType
  <1>3. \A i \in 1 .. len : /\ g.children[i].id = <<n, die.children[i].off>>
                            /\ g.children[i].off = die.children[i].off
                            /\ IsDie(types, g.children[i])
    <2> SUFFICES ASSUME NEW i \in 1 .. len
                 PROVE  /\ g.children[i].id = <<n, die.children[i].off>>
                        /\ g.children[i].off = die.children[i].off
                        /\ IsDie(types, g.children[i])
      OBVIOUS
    <2>1. IsDie(types, die.children[i])
      BY DEF IsEntry
    <2> HIDE DEF g
    <2>2. g.children[i] = Handle(n, die.children[i])
      BY <1>1
    <2> QED
      BY <2>1, <2>2 DEF Handle, IsDie, Targets
  <1>4. IsDie(types, g)
    <2> HIDE DEF g
    <2> QED
      BY <1>1 DEF IsEntry, IsDie, Targets
  <1> HIDE DEF g
  <1> QED
    BY <1>1, <1>2, <1>3, <1>4 DEF g, IsGiven, IsEntry

-----------------------------------------------------------------------------
(* The inductive invariant. *)

\* An array has room for its entries, or it could not be grown.
ArraysSound == \A k \in Kinds : Sound(info[k]) \/ ~Grew(k)

FailuresInv ==
    /\ IsFiniteSet(lost) /\ Cardinality(lost) \in 0 .. MaxFailures
    /\ IsFiniteSet(unread) /\ Cardinality(unread) \in 0 .. MaxErrors

\* Where the reader is, what is in the arrays, and that they have room for it.
ReaderInv ==
    /\ TypeOK
    /\ FailuresInv
    /\ pc \in {"root", "sibling", "entry"} => cu > 0
    /\ pc = "root" => child = 0
    /\ pc = "entry" => child > 0
    /\ info = [k \in Kinds |-> info[k]]
    /\ \A k \in Kinds : IsArray(info[k])
    /\ ArraysSound
    /\ UndefinedKnown

\* The parts of it that concern the arrays only.
ArraysInv ==
    /\ info = [k \in Kinds |-> info[k]]
    /\ \A k \in Kinds : IsArray(info[k])
    /\ \A k \in Kinds : \A i \in DOMAIN Items(k) : Whole(k, Items(k)[i].e)
    /\ FailuresInv
    /\ ArraysSound

\* What fails is recorded, and never forgotten.
LEMMA FailureKept ==
    ASSUME FailuresInv, NEW F, IsFiniteSet(F), NEW blocks, NEW calls,
           Fail(F, blocks, calls)
    PROVE  /\ FailuresInv'
           /\ lost \subseteq lost' /\ F \cap blocks \subseteq lost'
           /\ unread \subseteq unread' /\ F \cap calls \subseteq unread'
  <1>1. /\ lost' = lost \cup (F \cap blocks) /\ Cardinality(lost') <= MaxFailures
        /\ unread' = unread \cup (F \cap calls) /\ Cardinality(unread') <= MaxErrors
    BY DEF Fail
  <1>2. IsFiniteSet(F \cap blocks) /\ IsFiniteSet(F \cap calls)
    BY FS_Subset
  <1>3. IsFiniteSet(lost') /\ IsFiniteSet(unread')
    BY <1>1, <1>2, FS_Union DEF FailuresInv
  <1>4. Cardinality(lost') \in Nat /\ Cardinality(unread') \in Nat
    BY <1>3, FS_CardinalityType
  <1> QED
    BY <1>1, <1>3, <1>4, DebugInfoAssumption DEF FailuresInv

\* As long as the arrays stay as they are.
LEMMA SameArrays ==
    ASSUME ArraysInv, UNCHANGED info, FailuresInv', lost \subseteq lost'
    PROVE  ArraysInv'
  <1>1. /\ (info = [k \in Kinds |-> info[k]])'
        /\ (\A k \in Kinds : IsArray(info[k]))'
    BY DEF ArraysInv, IsArray, Listed
  <1>2. (\A k \in Kinds : \A i \in DOMAIN Items(k) : Whole(k, Items(k)[i].e))'
    BY DEF ArraysInv, Items
  <1>3. ArraysSound'
    BY DEF ArraysInv, ArraysSound, Sound, Listed, Grew
  <1> QED
    BY <1>1, <1>2, <1>3 DEF ArraysInv

\* The record and the arrays are allocated, or the reading fails.
LEMMA AllocateArrays == ASSUME ArraysInv, allocate PROVE ArraysInv'
  <1> DEFINE blocks == {infoBlock} \cup {arrayBlock(k) : k \in Kinds}
  <1>1. PICK F \in SUBSET blocks : Fail(F, blocks, {})
    BY DEF allocate
  <1>2. IsFiniteSet(blocks)
    <2>1. blocks = {infoBlock, arrayBlock("func"), arrayBlock("var"),
                    arrayBlock("type")}
      BY DEF Kinds
    <2>2. IsFiniteSet({infoBlock})
      BY FS_Singleton
    <2>3. IsFiniteSet({infoBlock} \cup {arrayBlock("func")})
      BY <2>2, FS_AddElement
    <2>4. IsFiniteSet({infoBlock} \cup {arrayBlock("func")} \cup {arrayBlock("var")})
      BY <2>3, FS_AddElement
    <2>5. IsFiniteSet({infoBlock} \cup {arrayBlock("func")} \cup {arrayBlock("var")}
                      \cup {arrayBlock("type")})
      BY <2>4, FS_AddElement
    <2> QED
      BY <2>1, <2>5, Zenon
  <1>3. IsFiniteSet(F)
    BY <1>2, FS_Subset
  <1> HIDE DEF blocks
  <1>4. FailuresInv' /\ lost \subseteq lost'
    BY <1>1, <1>3, FailureKept DEF ArraysInv
  <1>5. UNCHANGED info
    BY DEF allocate
  <1> QED
    BY <1>4, <1>5, SameArrays

\* A call of libdwarf that fails leaves the arrays as they are.
LEMMA CallArrays ==
    ASSUME ArraysInv, UNCHANGED info, NEW call, Fail({call}, {}, {call})
    PROVE  ArraysInv' /\ call \in unread'
  <1>1. IsFiniteSet({call})
    BY FS_Singleton
  <1>2. FailuresInv' /\ lost \subseteq lost' /\ call \in unread'
    BY <1>1, FailureKept DEF ArraysInv
  <1> QED
    BY <1>2, SameArrays

\* What addCU does: the path is allocated, and the first child is found.
RootRead(F, blocks, calls) ==
    /\ F \in SUBSET {pathBlock(Root), childOf(Root)}
    /\ Fail(F, blocks, calls)
    /\ IF PathCrashes(Root) THEN childOf(Root) \notin F ELSE childOf(Root) \in calls
    /\ held' = held \cup (blocks \ F)
    /\ pc' = CASE PathCrashes(Root) -> "crashed"
               [] childOf(Root) \in F -> "wild"
               [] OTHER -> IF Root.children = <<>> THEN "unit" ELSE "sibling"

LEMMA RootReads == ASSUME addCU PROVE \E F, blocks, calls : RootRead(F, blocks, calls)
  <1> DEFINE blocks == IF Root.attrs = <<>> \/ PathCrashes(Root) THEN {}
                                                              ELSE {pathBlock(Root)}
             calls == IF PathCrashes(Root) THEN {} ELSE {childOf(Root)}
  <1>1. PICK F \in SUBSET (blocks \cup calls) :
               /\ Fail(F, blocks, calls)
               /\ held' = held \cup (blocks \ F)
               /\ path' = IF blocks \ F = {} THEN NULL ELSE pathBlock(Root)
               /\ pc' = CASE PathCrashes(Root) -> "crashed"
                          [] childOf(Root) \in F -> "wild"
                          [] OTHER -> IF Root.children = <<>> THEN "unit"
                                                              ELSE "sibling"
    BY DEF addCU
  <1>2. RootRead(F, blocks, calls)
    <2>1. F \in SUBSET {pathBlock(Root), childOf(Root)}
      OBVIOUS
    <2>2. IF PathCrashes(Root) THEN childOf(Root) \notin F ELSE childOf(Root) \in calls
      OBVIOUS
    <2> HIDE DEF blocks, calls
    <2> QED
      BY <1>1, <2>1, <2>2, Zenon DEF RootRead
  <1> QED
    BY <1>2

\* A unit leaves the arrays as they are, and what goes wrong has its cause.
LEMMA UnitArrays ==
    ASSUME ArraysInv, addCU
    PROVE  /\ ArraysInv'
           /\ pc' \in {"crashed", "wild", "unit", "sibling"}
           /\ pc' = "crashed" => PathCrashes(Root)
           /\ pc' = "wild" => childOf(Root) \in unread'
  <1>1. PICK F, blocks, calls : RootRead(F, blocks, calls)
    BY RootReads
  <1>2. IsFiniteSet(F)
    <2>1. IsFiniteSet({pathBlock(Root)} \cup {childOf(Root)})
      BY FS_AddElement, FS_Singleton, Zenon
    <2> QED
      BY <1>1, <2>1, FS_Subset DEF RootRead
  <1>3. /\ FailuresInv' /\ lost \subseteq lost' /\ F \cap calls \subseteq unread'
    BY <1>1, <1>2, FailureKept DEF ArraysInv, RootRead
  <1>4. UNCHANGED info
    BY DEF addCU
  <1>5. /\ pc' \in {"crashed", "wild", "unit", "sibling"}
        /\ pc' = "crashed" => PathCrashes(Root)
        /\ pc' = "wild" => ~PathCrashes(Root) /\ childOf(Root) \in F
    <2>1. pc' = CASE PathCrashes(Root) -> "crashed"
               [] childOf(Root) \in F -> "wild"
               [] OTHER -> IF Root.children = <<>> THEN "unit" ELSE "sibling"
      BY <1>1 DEF RootRead
    <2>2. CASE PathCrashes(Root) /\ childOf(Root) \notin F
      <3>1. pc' = "crashed"
        BY <2>1, <2>2
      <3> QED
        BY <2>2, <3>1
    <2>3. CASE ~PathCrashes(Root) /\ childOf(Root) \in F
      <3>1. pc' = "wild"
        BY <2>1, <2>3
      <3> QED
        BY <2>3, <3>1
    <2>4. CASE ~PathCrashes(Root) /\ childOf(Root) \notin F
      <3>1. pc' \in {"unit", "sibling"}
        BY <2>1, <2>4
      <3> QED
        BY <3>1
    <2>5. PathCrashes(Root) => childOf(Root) \notin F
      BY <1>1, <1>2 DEF RootRead
    <2> QED
      BY <2>2, <2>3, <2>4, <2>5, Zenon
  <1> QED
    BY <1>1, <1>3, <1>4, <1>5, SameArrays DEF RootRead

\* What addEntry does, step by step.
EntryRead(F, k, r, array) ==
    /\ F \in {{}} \cup {{b} : b \in MayFail(Die)}
    /\ k = getEntryType(Die)
    /\ r = getEntry(program.types, Die, F)
    /\ array = append(info[k], [e |-> r.entry, path |-> path], growth(Die, k) \in F)
    /\ \E blocks, calls :
           /\ Fail(F, blocks, calls)
           /\ r.reallocs \subseteq blocks /\ r.calls \subseteq calls
           /\ r.ok /\ ~r.crash /\ ~r.wild /\ Full(info[k]) => growth(Die, k) \in blocks
    /\ held' = held \cup (r.mallocs \ F)
    /\ info' = IF r.ok /\ ~r.crash /\ ~r.wild THEN [info EXCEPT ![k] = array] ELSE info
    /\ pc' = CASE r.crash -> "crashed"
               [] r.wild -> "wild"
               [] r.ok /\ ~r.crash /\ ~r.wild
                  /\ (Overrun(array) \/ (k = "func" /\ Overrun(r.entry.vars))) -> "overrun"
               [] OTHER -> "sibling"

\* addEntry is these steps, for something that fails or nothing.
LEMMA EntryReads ==
    ASSUME addEntry
    PROVE  \E F, k, r, array : EntryRead(F, k, r, array)
  <1>1. PICK F \in {{}} \cup {{b} : b \in MayFail(Die)} :
           LET k == getEntryType(Die)
               r == getEntry(program.types, Die, F)
               grow == growth(Die, k)
               appends == Keep(r) /\ ~r.crash /\ ~r.wild
               grows == appends /\ Full(info[k])
               array == append(info[k], [e |-> r.entry, path |-> path], grow \in F)
               overrun == \/ appends /\ Overrun(array)
                          \/ appends /\ k = "func" /\ Overrun(r.entry.vars)
           IN  /\ Fail(F, r.mallocs \cup r.reallocs
                             \cup (IF grows THEN {grow} ELSE {}), r.calls)
               /\ held' = held \cup (r.mallocs \ F)
               /\ info' = IF appends THEN [info EXCEPT ![k] = array] ELSE info
               /\ pc' = CASE r.crash -> "crashed"
                          [] r.wild -> "wild"
                          [] overrun -> "overrun"
                          [] OTHER -> "sibling"
    BY DEF addEntry, addRead
  <1> DEFINE k == getEntryType(Die)
             r == getEntry(program.types, Die, F)
             array == append(info[k], [e |-> r.entry, path |-> path],
                             growth(Die, k) \in F)
             appends == r.ok /\ ~r.crash /\ ~r.wild
             over == appends /\ (Overrun(array) \/ (k = "func" /\ Overrun(r.entry.vars)))
             blocks == r.mallocs \cup r.reallocs
                           \cup (IF appends /\ Full(info[k]) THEN {growth(Die, k)} ELSE {})
  <1>2. EntryRead(F, k, r, array)
    <2>1. info' = IF appends THEN [info EXCEPT ![k] = array] ELSE info
      BY <1>1 DEF Keep
    <2>2. Fail(F, blocks, r.calls) /\ held' = held \cup (r.mallocs \ F)
      BY <1>1 DEF Keep
    <2>3. pc' = CASE r.crash -> "crashed" [] r.wild -> "wild"
                  [] over -> "overrun" [] OTHER -> "sibling"
      BY <1>1, Zenon DEF Keep
    <2> HIDE DEF k, r, array
    <2>4. r.reallocs \subseteq blocks /\ (appends /\ Full(info[k]) => growth(Die, k) \in blocks)
      OBVIOUS
    <2> HIDE DEF blocks
    <2> QED
      BY <1>1, <2>1, <2>2, <2>3, <2>4 DEF EntryRead, k, r, array
  <1> QED
    BY <1>2

\* The DIE that is read is one of the file.
LEMMA DieIsEntry ==
    ASSUME ReaderInv, pc = "entry"
    PROVE  /\ AreTypes(program.types)
           /\ IsEntry(program.types, Unit.children[child])
           /\ IsGiven(program.types, Die)
  <1>1. /\ program \in Programs
        /\ cu \in 1 .. Len(program.cus)
        /\ child \in 1 .. Len(Unit.children)
    <2>1. program \in Programs /\ cu \in 0 .. Len(program.cus) /\ cu > 0
      BY DEF ReaderInv, TypeOK
    <2>2. child \in 0 .. Len(Unit.children) /\ child > 0
      BY <2>1 DEF ReaderInv, TypeOK
    <2>3. Len(program.cus) \in Nat
      BY <2>1, ProgramsAssumption
    <2>4. cu \in 1 .. Len(program.cus)
      BY <2>1, <2>3
    <2>5. Len(Unit.children) \in Nat
      BY <2>1, <2>4, ProgramsAssumption DEF IsUnit, Unit
    <2> QED
      BY <2>1, <2>2, <2>4, <2>5
  <1>2. /\ AreTypes(program.types)
        /\ IsEntry(program.types, Unit.children[child])
    BY <1>1, ProgramsAssumption DEF IsUnit, Unit
  <1> QED
    BY <1>2, GivenEntry DEF Die

\* What goes wrong in reading a DIE has its cause.
EntryEnds ==
    /\ pc' = "crashed" =>
           \E x \in Users(Die), t \in DOMAIN program.types : <<x, "star", t>> \in lost'
    /\ pc' = "overrun" =>
           \/ ~Grew(getEntryType(Die))'
           \/ \E i \in 1 .. Len(Die.children) : growth(Die.children[i], "local") \in lost'
    /\ pc' = "wild" => childOf(Die) \in unread'

\* A complete entry goes to the array of its kind, which grows if it must.
LEMMA EntryArrays ==
    ASSUME ReaderInv, pc = "entry", UNCHANGED <<program, reading>>,
           NEW F, NEW k, NEW r, NEW array, EntryRead(F, k, r, array)
    PROVE  /\ ArraysInv'
           /\ EntryEnds
           /\ pc' \in {"sibling", "crashed", "wild", "overrun"}
  <1> DEFINE entry == [e |-> r.entry, path |-> path]
             fails == growth(Die, k) \in F
             appends == r.ok /\ ~r.crash /\ ~r.wild
  <1>1. ArraysInv
    BY DEF ReaderInv, TypeOK, ArraysInv
  <1>2. /\ r.ok => k \in Kinds /\ Whole(k, r.entry)
        /\ Causes(program.types, Die, F, k, r)
    BY DieIsEntry, EntryFound DEF EntryRead
  <1>3. PICK blocks, calls :
           /\ Fail(F, blocks, calls)
           /\ r.reallocs \subseteq blocks /\ r.calls \subseteq calls
           /\ appends /\ Full(info[k]) => growth(Die, k) \in blocks
    BY DEF EntryRead
  <1>4. /\ FailuresInv' /\ lost \subseteq lost'
        /\ F \cap blocks \subseteq lost' /\ F \cap calls \subseteq unread'
    <2>1. IsFiniteSet(F)
      BY FS_EmptySet, FS_Singleton DEF EntryRead
    <2> QED
      BY <1>1, <1>3, <2>1, FailureKept DEF ArraysInv
  <1>5. /\ array = append(info[k], entry, fails)
        /\ info' = IF appends THEN [info EXCEPT ![k] = array] ELSE info
        /\ pc' = CASE r.crash -> "crashed"
                   [] r.wild -> "wild"
                   [] appends
                      /\ (Overrun(array) \/ (k = "func" /\ Overrun(r.entry.vars))) -> "overrun"
                   [] OTHER -> "sibling"
    BY DEF EntryRead
  <1>6. \A j \in Kinds : ~Grew(j) => ~Grew(j)'
    BY <1>4 DEF Grew
  <1>7. ASSUME appends
        PROVE  Sound(array) \/ ~Grew(k)'
    <2>1. k \in Kinds
      BY <1>2, <1>7
    <2>2. CASE ~Grew(k)
      BY <1>6, <2>1, <2>2
    <2>3. CASE Full(info[k]) /\ fails
      <3>1. <<Die.id, "grow", k>> \in lost'
        BY <1>3, <1>4, <1>7, <2>3 DEF growth
      <3> QED
        BY <3>1 DEF Grew
    <2>4. CASE Grew(k) /\ ~(Full(info[k]) /\ fails)
      <3>1. Sound(info[k])
        BY <1>1, <2>1, <2>4 DEF ArraysInv, ArraysSound
      <3>2. append(info[k], entry, fails) = append(info[k], entry, FALSE)
        BY <2>4 DEF append
      <3> HIDE DEF entry, fails
      <3>3. Sound(append(info[k], entry, FALSE))
        BY <3>1, AppendSound
      <3> QED
        BY <1>5, <3>2, <3>3
    <2> QED
      BY <2>2, <2>3, <2>4
  <1> HIDE DEF entry, fails
  <1>8. /\ pc' \in {"sibling", "crashed", "wild", "overrun"}
        /\ pc' = "crashed" => r.crash
        /\ pc' = "wild" => r.wild
        /\ pc' = "overrun" =>
               appends /\ (Overrun(array) \/ (k = "func" /\ Overrun(r.entry.vars)))
    <2>1. CASE r.crash
      BY <1>5, <2>1
    <2>2. CASE ~r.crash /\ r.wild
      BY <1>5, <2>2
    <2>3. CASE ~r.crash /\ ~r.wild
      BY <1>5, <2>3
    <2> QED
      BY <2>1, <2>2, <2>3
  <1>9. EntryEnds
    <2>1. pc' = "crashed" => \E x \in Users(Die), t \in DOMAIN program.types :
                                 <<x, "star", t>> \in lost'
      BY <1>2, <1>3, <1>4, <1>8 DEF Causes, Short
    <2>2. pc' = "wild" => childOf(Die) \in unread'
      BY <1>2, <1>3, <1>4, <1>8 DEF Causes
    <2>3. ASSUME pc' = "overrun"
          PROVE  \/ ~Grew(k)'
                 \/ \E i \in 1 .. Len(Die.children) :
                        growth(Die.children[i], "local") \in lost'
      <3>1. CASE Overrun(array)
        <4>1. Sound(array) => ~Overrun(array)
          BY DEF Sound, Overrun, Listed
        <4> QED
          BY <1>7, <1>8, <2>3, <3>1, <4>1
      <3>2. CASE ~Overrun(array)
        <4>1. GrowthsFail(Die, F, Len(Die.children), r.reallocs)
          BY <1>2, <1>8, <2>3, <3>2 DEF Causes
        <4> QED
          BY <1>3, <1>4, <4>1 DEF GrowthsFail
      <3> QED
        BY <3>1, <3>2
    <2>4. k = getEntryType(Die) /\ ~Grew(getEntryType(Die))' = ~Grew(k)'
      <3>1. k = getEntryType(Die)
        BY DEF EntryRead
      <3>2. getEntryType(Die)' = getEntryType(Die)
        BY DEF Die, Given, Handle, Unit, reading
      <3>3. Grew(getEntryType(Die))' = \A b \in lost' : b # <<b[1], "grow", getEntryType(Die)'>>
        BY DEF Grew
      <3> QED
        BY <3>1, <3>2, <3>3 DEF Grew
    <2> QED
      BY <2>1, <2>2, <2>3, <2>4 DEF EntryEnds
  <1>10. CASE ~appends
    <2>1. UNCHANGED info
      BY <1>5, <1>10
    <2> QED
      BY <1>1, <1>4, <1>8, <1>9, <2>1, SameArrays
  <1>11. CASE appends
    <2>1. k \in Kinds /\ Whole(k, entry.e)
      BY <1>2, <1>11 DEF entry
    <2>2. /\ info = [j \in Kinds |-> info[j]]
          /\ \A j \in Kinds : IsArray(info[j])
          /\ \A j \in Kinds : \A i \in DOMAIN info[j].items : Whole(j, info[j].items[i].e)
      BY <1>1 DEF ArraysInv, Items
    <2>3. /\ info' = [j \in Kinds |-> IF j = k THEN array ELSE info[j]]
      BY <1>5, <1>11, <2>2
    <2>4. IsArray(array) /\ array.items \in {info[k].items, Append(info[k].items, entry)}
      <3>1. fails \in BOOLEAN
        BY DEF fails
      <3> QED
        BY <1>5, <2>1, <2>2, <3>1, AppendArray
    <2>5. \A i \in DOMAIN array.items : Whole(k, array.items[i].e)
      <3>1. CASE array.items = info[k].items
        BY <2>1, <2>2, <3>1
      <3>2. CASE array.items = Append(info[k].items, entry)
        <4> DEFINE s == info[k].items
        <4>1. /\ Len(s) \in Nat /\ DOMAIN s = 1 .. Len(s)
              /\ DOMAIN array.items = 1 .. Len(s) + 1
              /\ \A i \in 1 .. Len(s) : array.items[i] = s[i]
              /\ array.items[Len(s) + 1] = entry
          BY <2>1, <2>2, <3>2, Appended DEF IsArray
        <4>2. \A i \in 1 .. Len(s) : Whole(k, s[i].e)
          BY <2>1, <2>2, <4>1
        <4> HIDE DEF s
        <4> QED
          BY <2>1, <4>1, <4>2
      <3> QED
        BY <2>4, <3>1, <3>2
    <2>6. /\ info' = [j \in Kinds |-> info'[j]]
          /\ \A j \in Kinds : IsArray(info'[j])
          /\ \A j \in Kinds : \A i \in DOMAIN info'[j].items : Whole(j, info'[j].items[i].e)
      BY <2>2, <2>3, <2>4, <2>5
    <2>7. \A j \in Kinds : Sound(info'[j]) \/ ~Grew(j)'
      <3>1. \A j \in Kinds : Sound(info[j]) \/ ~Grew(j)
        BY <1>1 DEF ArraysInv, ArraysSound
      <3>2. Sound(array) \/ ~Grew(k)'
        BY <1>7, <1>11
      <3> QED
        BY <1>6, <2>1, <2>3, <3>1, <3>2
    <2>8. ArraysSound'
      BY <2>7 DEF ArraysSound, Sound, Listed
    <2> QED
      BY <1>4, <1>8, <1>9, <2>6, <2>8 DEF ArraysInv, Items, IsArray, Listed
  <1> QED
    BY <1>10, <1>11

-----------------------------------------------------------------------------
(* The steps of the reader. *)

\* What a step has to show of the rest of the invariant.
Place ==
    /\ program \in Programs
    /\ pc \in {"open", "allocate", "unit", "root", "sibling", "entry", "ready", "gone",
               "failed", "crashed", "overrun", "wild"}
    /\ cu \in 0 .. Len(program.cus)
    /\ child \in 0 .. (IF cu = 0 THEN 0 ELSE Len(Unit.children))
    /\ turn \in Nat /\ cu <= turn
    /\ badFree \in BOOLEAN
    /\ pc \in {"root", "sibling", "entry"} => cu > 0
    /\ pc = "root" => child = 0
    /\ pc = "entry" => child > 0

\* The invariant is what is proved of each step: the place, the arrays, and
\* how it ends.
LEMMA Parts == ReaderInv <=> Place /\ ArraysInv /\ UndefinedKnown
  BY DEF ReaderInv, TypeOK, Place, ArraysInv, FailuresInv

\* Nothing is read yet.
LEMMA OpenStep == ASSUME ReaderInv, createDwarfSession PROVE ReaderInv'
  <1>1. Place /\ ArraysInv
    BY Parts
  <1>2. Place'
    BY <1>1 DEF createDwarfSession, reading, Place, Unit
  <1>3. ArraysInv'
    BY <1>1, SameArrays DEF createDwarfSession, ArraysInv, FailuresInv
  <1>4. UndefinedKnown'
    BY DEF createDwarfSession, UndefinedKnown
  <1> QED
    BY <1>2, <1>3, <1>4, Parts, PTL

\* The arrays are allocated, empty, or the reading fails.
LEMMA AllocateStep == ASSUME ReaderInv, allocate PROVE ReaderInv'
  <1>1. Place /\ ArraysInv
    BY Parts
  <1>2. Place'
    BY <1>1 DEF allocate, reading, Place, Unit
  <1>3. ArraysInv'
    BY <1>1, AllocateArrays
  <1>4. UndefinedKnown'
    BY DEF allocate, UndefinedKnown
  <1> QED
    BY <1>2, <1>3, <1>4, Parts, PTL

\* A unit, the next one or the same again, begins before its first DIE.
LEMMA GiveStep == ASSUME ReaderInv, nextCU \/ sameCU PROVE ReaderInv'
  <1>1. Place /\ ArraysInv
    BY Parts
  <1>2. /\ program' = program /\ pc' = "root" /\ child' = 0 /\ turn' = turn + 1
        /\ badFree' = badFree /\ UNCHANGED info
    BY DEF nextCU, sameCU, GiveRoot
  <1>3. program \in Programs /\ Len(program.cus) \in Nat /\ cu \in Nat
    BY <1>1, ProgramsAssumption DEF Place
  <1>4. cu' \in 1 .. Len(program.cus) /\ cu' <= turn'
    BY <1>1, <1>2, <1>3 DEF Place, nextCU, sameCU
  <1>5. Len(Unit.children)' \in Nat
    BY <1>2, <1>3, <1>4, ProgramsAssumption DEF IsUnit, Unit
  <1>6. Place'
    BY <1>1, <1>2, <1>3, <1>4, <1>5 DEF Place
  <1>7. ArraysInv'
    <2>1. CASE nextCU
      BY <1>1, <1>2, <2>1, SameArrays DEF nextCU, GiveRoot, ArraysInv, FailuresInv
    <2>2. CASE sameCU
      BY <1>1, <1>2, <2>2, CallArrays DEF sameCU
    <2> QED
      BY <2>1, <2>2
  <1>8. UndefinedKnown'
    BY <1>2 DEF UndefinedKnown
  <1> QED
    BY <1>6, <1>7, <1>8, Parts, PTL

\* A unit without a directory crashes, one whose first DIE is not found ends.
LEMMA UnitStep == ASSUME ReaderInv, addCU PROVE ReaderInv'
  <1>1. Place /\ ArraysInv
    BY Parts
  <1>2. pc = "root" /\ UNCHANGED <<program, cu, child, turn, badFree>>
    BY DEF addCU
  <1>3. /\ ArraysInv'
        /\ pc' \in {"crashed", "wild", "unit", "sibling"}
        /\ pc' = "crashed" => PathCrashes(Root)
        /\ pc' = "wild" => childOf(Root) \in unread'
    BY <1>1, UnitArrays
  <1>4. Place'
    BY <1>1, <1>2, <1>3 DEF Place, Unit
  <1>5. child' = 0
    BY <1>1, <1>2 DEF Place
  <1>6. pc' = "crashed" => PathCrashes(Unit)'
    <2>1. PathCrashes(Root) => PathCrashes(Unit)
      BY DEF PathCrashes, Value, Root, Handle
    <2>2. PathCrashes(Unit) => PathCrashes(Unit)'
      BY <1>2 DEF PathCrashes, Value, Unit
    <2> QED
      BY <1>3, <2>1, <2>2
  <1>7. pc' = "wild" => (childOf(Root) \in unread)'
    BY <1>2, <1>3 DEF childOf, Root, Handle, Unit
  <1>8. UndefinedKnown'
    BY <1>3, <1>5, <1>6, <1>7, Zenon DEF UndefinedKnown
  <1> QED
    BY <1>3, <1>4, <1>8, Parts, PTL

\* The next DIE is one of the unit.
LEMMA SiblingStep == ASSUME ReaderInv, nextSibling PROVE ReaderInv'
  <1>1. Place /\ ArraysInv
    BY Parts
  <1>2. Place'
    <2>1. /\ program \in Programs /\ cu \in 1 .. Len(program.cus)
          /\ Len(Unit.children) \in Nat /\ child \in 0 .. Len(Unit.children)
      BY <1>1, ProgramsAssumption DEF Place, nextSibling, IsUnit, Unit
    <2> QED
      BY <1>1, <2>1 DEF nextSibling, Place, Unit
  <1>3. ArraysInv'
    <2>1. CASE UNCHANGED <<lost, unread>>
      BY <1>1, <2>1, SameArrays DEF nextSibling, ArraysInv, FailuresInv
    <2>2. CASE Fail({siblingOf(Die)}, {}, {siblingOf(Die)})
      BY <1>1, <2>2, CallArrays DEF nextSibling
    <2> QED
      BY <2>1, <2>2 DEF nextSibling
  <1>4. UndefinedKnown'
    BY DEF nextSibling, UndefinedKnown
  <1> QED
    BY <1>2, <1>3, <1>4, Parts, PTL

\* A DIE is read: what goes wrong has its cause.
LEMMA EntryStep == ASSUME ReaderInv, addEntry PROVE ReaderInv'
  <1>1. Place /\ ArraysInv
    BY Parts
  <1>2. pc = "entry" /\ UNCHANGED <<program, reading, badFree>>
    BY DEF addEntry
  <1>3. PICK F, k, r, array : EntryRead(F, k, r, array)
    BY EntryReads
  <1>4. /\ ArraysInv'
        /\ EntryEnds
        /\ pc' \in {"sibling", "crashed", "wild", "overrun"}
    BY <1>2, <1>3, EntryArrays
  <1>5. Place'
    BY <1>1, <1>2, <1>4 DEF Place, Unit, reading
  <1>6. UndefinedKnown'
    <2>1. child' # 0
      BY <1>1, <1>2 DEF Place, reading
    <2>2. Die' = Die /\ program' = program
      BY <1>2 DEF Die, Given, Handle, Unit, reading
    <2>3. pc' = "crashed" => (\E x \in Users(Die), t \in DOMAIN program.types :
                                 <<x, "star", t>> \in lost)'
      BY <1>4, <2>2 DEF EntryEnds, Users
    <2>4. pc' = "overrun" =>
           (\/ ~Grew(getEntryType(Die))
            \/ \E i \in 1 .. Len(Die.children) : growth(Die.children[i], "local") \in lost)'
      BY <1>4, <2>2 DEF EntryEnds, growth
    <2>5. pc' = "wild" => (childOf(Die) \in unread)'
      BY <1>4, <2>2 DEF EntryEnds, childOf
    <2> QED
      BY <1>4, <2>1, <2>3, <2>4, <2>5 DEF UndefinedKnown
  <1> QED
    BY <1>4, <1>5, <1>6, Parts, PTL

\* The arrays are returned as they are.
LEMMA FinishStep == ASSUME ReaderInv, finish PROVE ReaderInv'
  <1>1. Place /\ ArraysInv
    BY Parts
  <1>2. Place'
    BY <1>1 DEF finish, reading, Place, Unit
  <1>3. ArraysInv'
    <2>1. CASE UNCHANGED <<lost, unread>>
      BY <1>1, <2>1, SameArrays DEF finish, ArraysInv, FailuresInv
    <2>2. CASE Fail({rootCall}, {}, {rootCall})
      BY <1>1, <2>2, CallArrays DEF finish
    <2> QED
      BY <2>1, <2>2 DEF finish
  <1>4. UndefinedKnown'
    BY DEF finish, UndefinedKnown
  <1> QED
    BY <1>2, <1>3, <1>4, Parts, PTL

\* Freeing changes memory only.
LEMMA DestroyStep == ASSUME ReaderInv, destroyDebugInfo PROVE ReaderInv'
  <1>1. Place /\ ArraysInv
    BY Parts
  <1>2. Place'
    <2>1. badFree' \in BOOLEAN
      BY Zenon DEF destroyDebugInfo
    <2> QED
      BY <1>1, <2>1 DEF destroyDebugInfo, reading, Place, Unit
  <1>3. ArraysInv'
    BY <1>1, SameArrays DEF destroyDebugInfo, ArraysInv, FailuresInv
  <1>4. UndefinedKnown'
    BY DEF destroyDebugInfo, UndefinedKnown
  <1> QED
    BY <1>2, <1>3, <1>4, Parts, PTL

\* A stuttering step.
LEMMA SameState == ASSUME ReaderInv, UNCHANGED vars PROVE ReaderInv'
  <1>1. Place /\ ArraysInv /\ UndefinedKnown
    BY Parts
  <1>2. Place'
    BY <1>1 DEF vars, reading, Place, Unit
  <1>3. ArraysInv'
    BY <1>1, SameArrays DEF vars, ArraysInv, FailuresInv
  <1>4. UndefinedKnown'
    <2>1. /\ program' = program /\ cu' = cu /\ child' = child /\ turn' = turn
          /\ pc' = pc /\ lost' = lost /\ unread' = unread
      BY DEF vars, reading
    <2>2. Unit' = Unit /\ Root' = Root /\ Die' = Die
      BY <2>1 DEF Unit, Root, Die, Given, Handle
    <2> QED
      BY <1>1, <2>1, <2>2 DEF UndefinedKnown, PathCrashes, Value, Users, growth, childOf, Grew,
         getEntryType
  <1> QED
    BY <1>2, <1>3, <1>4, Parts, PTL

\* The reader begins with empty arrays.
LEMMA ReaderInitially == Init => ReaderInv
  <1>1. SUFFICES ASSUME Init
                 PROVE  ReaderInv
    OBVIOUS
  <1>2. Place
    <2>1. program \in Programs /\ Len(program.cus) \in Nat
      BY <1>1, ProgramsAssumption DEF Init
    <2>2. pc = "open" /\ cu = 0 /\ child = 0 /\ turn = 0 /\ badFree = FALSE
      BY <1>1 DEF Init
    <2>3. cu \in 0 .. Len(program.cus) /\ turn \in Nat /\ cu <= turn
      BY <2>1, <2>2
    <2>4. child \in 0 .. (IF cu = 0 THEN 0 ELSE Len(Unit.children))
      BY <2>2
    <2> QED
      BY <2>1, <2>2, <2>3, <2>4, Zenon DEF Place
  <1>3. info = [k \in Kinds |-> NewArray] /\ lost = {} /\ unread = {}
    BY <1>1 DEF Init
  <1>4. FailuresInv
    BY <1>3, FS_EmptySet, DebugInfoAssumption DEF FailuresInv
  <1>5. ArraysInv
    BY <1>3, <1>4, NewArraySound DEF ArraysInv, ArraysSound, Items
  <1>6. UndefinedKnown
    BY <1>1 DEF Init, UndefinedKnown
  <1> QED
    BY <1>2, <1>5, <1>6, Parts

\* The invariant is inductive.
LEMMA ReaderSafe == Spec => []ReaderInv
  <1>1. ReaderInv /\ [Next]_vars => ReaderInv'
    BY OpenStep, AllocateStep, GiveStep, UnitStep, SiblingStep, EntryStep,
       FinishStep, DestroyStep, SameState DEF Next, Ended
  <1> QED
    BY <1>1, ReaderInitially, PTL DEF Spec

-----------------------------------------------------------------------------
(* Lists: what free is called with. *)

\* A sequence in which nothing occurs twice.
Once(s) == Listed(s) /\ IsInjective(s)

\* A list joined to another one has the elements of both.
LEMMA Joined ==
    ASSUME NEW s, Listed(s), NEW t, Listed(t)
    PROVE  /\ Listed(s \o t)
           /\ ToSet(s \o t) = ToSet(s) \cup ToSet(t)
           /\ IsInjective(s) /\ IsInjective(t) /\ ToSet(s) \cap ToSet(t) = {}
                  => IsInjective(s \o t)
  <1> DEFINE S == ToSet(s) \cup ToSet(t)
             m == Len(s)
             n == Len(t)
             u == s \o t
  <1>1. s \in Seq(S) /\ t \in Seq(S)
    BY SeqMonotonic DEF Listed
  <1>2. /\ u \in Seq(S) /\ Len(u) = m + n
        /\ \A i \in 1 .. m + n : u[i] = IF i <= m THEN s[i] ELSE t[i - m]
    BY <1>1, ConcatProperties
  <1>3. m \in Nat /\ DOMAIN s = 1 .. m /\ n \in Nat /\ DOMAIN t = 1 .. n
        /\ DOMAIN u = 1 .. m + n
    BY <1>1, <1>2
  <1>4. \A i \in 1 .. m : u[i] = s[i]
    BY <1>2, <1>3
  <1>5. \A i \in 1 .. n : u[m + i] = t[i]
    BY <1>2, <1>3
  <1>6. \A i \in 1 .. m + n : i \in 1 .. m \/ \E j \in 1 .. n : i = m + j
    <2>1. ASSUME NEW i \in 1 .. m + n, i \notin 1 .. m
          PROVE  \E j \in 1 .. n : i = m + j
      <3>1. i - m \in 1 .. n /\ i = m + (i - m)
        BY <1>3, <2>1
      <3> QED
        BY <3>1
    <2> QED
      BY <2>1
  <1> HIDE DEF u, m, n
  <1>7. ToSet(u) = ToSet(s) \cup ToSet(t)
    <2>1. ASSUME NEW x \in ToSet(u) PROVE x \in ToSet(s) \cup ToSet(t)
      <3>1. PICK i \in 1 .. m + n : x = u[i]
        BY <1>3, <2>1 DEF ToSet
      <3> QED
        BY <1>3, <1>4, <1>5, <1>6, <3>1, Zenon DEF ToSet
    <2>2. ASSUME NEW x \in ToSet(s) PROVE x \in ToSet(u)
      <3>1. PICK i \in 1 .. m : x = s[i]
        BY <1>3, <2>2 DEF ToSet
      <3>2. i \in 1 .. m + n
        BY <1>3
      <3> QED
        BY <1>3, <1>4, <3>1, <3>2 DEF ToSet
    <2>3. ASSUME NEW x \in ToSet(t) PROVE x \in ToSet(u)
      <3>1. PICK i \in 1 .. n : x = t[i]
        BY <1>3, <2>3 DEF ToSet
      <3>2. m + i \in 1 .. m + n
        BY <1>3
      <3> QED
        BY <1>3, <1>5, <3>1, <3>2 DEF ToSet
    <2> QED
      BY <2>1, <2>2, <2>3
  <1>8. Listed(u)
    BY <1>2, <1>7 DEF Listed
  <1>9. ASSUME IsInjective(s), IsInjective(t), ToSet(s) \cap ToSet(t) = {}
        PROVE  IsInjective(u)
    <2>1. \A i \in 1 .. m, j \in 1 .. n : s[i] # t[j]
      BY <1>3, <1>9, Zenon DEF ToSet
    <2>2. ASSUME NEW a \in 1 .. m + n, NEW b \in 1 .. m + n, u[a] = u[b]
          PROVE  a = b
      <3>1. CASE a \in 1 .. m /\ b \in 1 .. m
        BY <1>3, <1>4, <1>9, <2>2, <3>1 DEF IsInjective
      <3>2. CASE a \in 1 .. m /\ b \notin 1 .. m
        <4>1. PICK j \in 1 .. n : b = m + j
          BY <1>6, <3>2
        <4>2. u[a] = s[a] /\ u[b] = t[j]
          BY <1>4, <1>5, <3>2, <4>1
        <4> QED
          BY <2>1, <2>2, <3>2, <4>2
      <3>3. CASE a \notin 1 .. m /\ b \in 1 .. m
        <4>1. PICK j \in 1 .. n : a = m + j
          BY <1>6, <3>3
        <4>2. u[b] = s[b] /\ u[a] = t[j]
          BY <1>4, <1>5, <3>3, <4>1
        <4> QED
          BY <2>1, <2>2, <3>3, <4>2
      <3>4. CASE a \notin 1 .. m /\ b \notin 1 .. m
        <4>1. PICK i \in 1 .. n, j \in 1 .. n : a = m + i /\ b = m + j
          BY <1>6, <3>4, Zenon
        <4>2. t[i] = t[j]
          BY <1>5, <2>2, <4>1
        <4> QED
          BY <1>3, <1>9, <4>1, <4>2 DEF IsInjective
      <3> QED
        BY <3>1, <3>2, <3>3, <3>4
    <2> QED
      BY <1>3, <2>2, Zenon DEF IsInjective
  <1> QED
    BY <1>7, <1>8, <1>9 DEF u

\* One thing is a list.
LEMMA Single ==
    ASSUME NEW x
    PROVE  Listed(<<x>>) /\ IsInjective(<<x>>) /\ ToSet(<<x>>) = {x}
  <1>1. /\ <<x>> \in Seq({x}) /\ DOMAIN <<x>> = {1} /\ <<x>>[1] = x
    OBVIOUS
  <1>2. ToSet(<<x>>) = {x}
    BY <1>1, Zenon DEF ToSet
  <1> QED
    BY <1>1, <1>2 DEF Listed, IsInjective

\* What a list is mapped to is a list.
LEMMA Mapped ==
    ASSUME NEW s, Listed(s), NEW f, f = [i \in DOMAIN s |-> f[i]]
    PROVE  Listed(f) /\ ToSet(f) = {f[i] : i \in DOMAIN s} /\ Len(f) = Len(s)
  <1>1. Len(s) \in Nat /\ DOMAIN s = 1 .. Len(s)
    BY DEF Listed
  <1>2. ToSet(f) = {f[i] : i \in DOMAIN s}
    BY DEF ToSet
  <1>3. DOMAIN f = 1 .. Len(s)
    BY <1>1
  <1>4. f \in [1 .. Len(s) -> ToSet(f)]
    BY <1>2, <1>3, <1>1
  <1>5. f \in Seq(ToSet(f))
    BY <1>1, <1>4, SeqDef
  <1> QED
    BY <1>1, <1>2, <1>3, <1>5 DEF Listed

\* FlattenSeq joins the lists one by one.
LEMMA FlattenRuns ==
    ASSUME NEW ss, Len(ss) \in Nat \ {0}, \A i \in 1 .. Len(ss) : Listed(ss[i])
    PROVE  \E g : /\ g = [i \in 1 .. Len(ss) |->
                             IF i = 1 THEN ss[i] ELSE g[i - 1] \o ss[i]]
                  /\ FlattenSeq(ss) = g[Len(ss)]
  <1> DEFINE n == Len(ss)
             Flat(g) == g = [i \in 1 .. n |-> IF i = 1 THEN ss[i] ELSE g[i - 1] \o ss[i]]
  <1>1. PICK h : h = [i \in 0 .. n |-> h[i]] /\ Run(JoinJob, <<>>, ss, h)
    BY RunExists
  <1>2. h[0] = <<>> /\ \A i \in 1 .. n : h[i] = h[i - 1] \o ss[i]
    BY <1>1 DEF Run, StepOf, JoinJob
  <1>3. h[1] = ss[1]
    <2>1. Listed(ss[1]) /\ h[1] = h[0] \o ss[1]
      <3>1. 1 \in 1 .. n /\ 1 - 1 = 0
        OBVIOUS
      <3>2. h[1] = h[1 - 1] \o ss[1] /\ Listed(ss[1])
        BY <1>2, <3>1, Zenon
      <3> QED
        BY <3>1, <3>2, Zenon
    <2>2. ss[1] \in Seq(ToSet(ss[1]))
      BY <2>1 DEF Listed
    <2> DEFINE s == ss[1]
               S == ToSet(s)
    <2>3. s \in Seq(S)
      BY <2>2
    <2> HIDE DEF s, S
    <2>4. <<>> \o s = s
      BY <2>3, ConcatEmptySeq
    <2> QED
      BY <1>2, <2>1, <2>4 DEF s
  <1>4. \E g : Flat(g)
    <2> DEFINE g == [i \in 1 .. n |-> h[i]]
    <2>1. \A i \in 1 .. n : g[i] = IF i = 1 THEN ss[i] ELSE g[i - 1] \o ss[i]
      <3>1. ASSUME NEW i \in 1 .. n
            PROVE  g[i] = IF i = 1 THEN ss[i] ELSE g[i - 1] \o ss[i]
        <4>1. CASE i = 1
          BY <1>3, <4>1
        <4>2. CASE i # 1
          <5>1. i - 1 \in 1 .. n
            BY <4>2
          <5> QED
            BY <1>2, <4>2, <5>1
        <4> QED
          BY <4>1, <4>2
      <3> QED
        BY <3>1
    <2>2. g = [i \in 1 .. n |-> g[i]]
      OBVIOUS
    <2> HIDE DEF g
    <2>3. Flat(g)
      BY <2>1, <2>2, Zenon
    <2> HIDE DEF Flat
    <2> QED
      BY <2>3
  <1> DEFINE g == CHOOSE g : Flat(g)
  <1>5. Flat(g)
    <2> HIDE DEF Flat
    <2> QED
      BY <1>4
  <1>6. FlattenSeq(ss) = g[n]
    BY Zenon DEF FlattenSeq
  <1> HIDE DEF g
  <1> QED
    BY <1>5, <1>6

\* Nothing is lost when lists are joined, and nothing comes twice of what does
\* not come twice in them.
LEMMA Flattened ==
    ASSUME NEW ss, Listed(ss), \A i \in 1 .. Len(ss) : Listed(ss[i])
    PROVE  /\ Listed(FlattenSeq(ss))
           /\ ToSet(FlattenSeq(ss)) = UNION {ToSet(ss[i]) : i \in 1 .. Len(ss)}
           /\ (/\ \A i \in 1 .. Len(ss) : IsInjective(ss[i])
               /\ \A i, j \in 1 .. Len(ss) : i # j => ToSet(ss[i]) \cap ToSet(ss[j]) = {})
                  => IsInjective(FlattenSeq(ss))
  <1> DEFINE n == Len(ss)
             apart == /\ \A i \in 1 .. n : IsInjective(ss[i])
                      /\ \A i, j \in 1 .. n : i # j => ToSet(ss[i]) \cap ToSet(ss[j]) = {}
             Fine(k, s) == /\ Listed(s)
                           /\ \A x : x \in ToSet(s) <=> \E i \in 1 .. k : x \in ToSet(ss[i])
                           /\ apart => IsInjective(s)
  <1> SUFFICES Fine(n, FlattenSeq(ss))
    <2>1. ASSUME Fine(n, FlattenSeq(ss))
          PROVE  ToSet(FlattenSeq(ss)) = UNION {ToSet(ss[i]) : i \in 1 .. n}
      BY <2>1, Zenon
    <2> QED
      BY <2>1
  <1>1. n \in Nat /\ (n = 0 => ss = <<>>)
    BY DEF Listed
  <1>2. CASE n = 0
    <2>1. FlattenSeq(ss) = <<>>
      BY <1>1, <1>2 DEF FlattenSeq
    <2>2. Listed(<<>>) /\ ToSet(<<>>) = {} /\ IsInjective(<<>>)
      BY DEF Listed, ToSet, IsInjective
    <2>3. 1 .. n = {}
      BY <1>2
    <2> QED
      BY <2>1, <2>2, <2>3
  <1>3. CASE n # 0
    <2>1. PICK g : /\ g = [i \in 1 .. n |-> IF i = 1 THEN ss[i] ELSE g[i - 1] \o ss[i]]
                   /\ FlattenSeq(ss) = g[n]
      BY <1>1, <1>3, FlattenRuns
    <2> DEFINE T == {k \in 0 .. n : k = 0 \/ Fine(k, g[k])}
    <2>2. 0 \in T
      BY <1>1
    <2>3. ASSUME NEW k \in 1 .. n, k - 1 \in T
          PROVE  k \in T
      <3>1. CASE k = 1
        <4>1. g[k] = ss[1] /\ 1 .. k = {1} /\ 1 \in 1 .. n
          BY <2>1, <3>1
        <4>2. Listed(ss[1]) /\ (apart => IsInjective(ss[1]))
          BY <4>1
        <4> HIDE DEF apart
        <4>3. Fine(1, ss[1])
          <5>1. \A i : i \in 1 .. 1 <=> i = 1
            OBVIOUS
          <5> QED
            BY <4>2, <5>1, Zenon
        <4> HIDE DEF Fine
        <4> QED
          BY <1>1, <3>1, <4>1, <4>3
      <3>2. CASE k # 1
        <4>1. g[k] = g[k - 1] \o ss[k] /\ k - 1 \in 1 .. n
          <5>1. k - 1 \in 1 .. n
            BY <1>1, <3>2
          <5>2. g[k] = IF k = 1 THEN ss[k] ELSE g[k - 1] \o ss[k]
            BY <2>1, Zenon
          <5> QED
            BY <3>2, <5>1, <5>2
        <4>2. Fine(k - 1, g[k - 1])
          <5> HIDE DEF Fine
          <5> QED
            BY <2>3, <3>2
        <4>3. Listed(g[k - 1]) /\ Listed(ss[k]) /\ (apart => IsInjective(g[k - 1]))
          BY <4>2
        <4>4. apart => ToSet(g[k - 1]) \cap ToSet(ss[k]) = {} /\ IsInjective(ss[k])
          <5>1. \A i \in 1 .. k - 1 : i \in 1 .. n /\ i # k
            BY <1>1
          <5>2. \A x \in ToSet(g[k - 1]) : \E i \in 1 .. k - 1 : x \in ToSet(ss[i])
            BY <4>2
          <5> QED
            BY <5>1, <5>2, Zenon
        <4> HIDE DEF apart
        <4>5. /\ Listed(g[k]) /\ (apart => IsInjective(g[k]))
              /\ ToSet(g[k]) = ToSet(g[k - 1]) \cup ToSet(ss[k])
          BY <4>1, <4>3, <4>4, Joined
        <4>6. ASSUME NEW x
              PROVE  x \in ToSet(g[k]) <=> \E i \in 1 .. k : x \in ToSet(ss[i])
          <5>1. \A i : i \in 1 .. k <=> i \in 1 .. k - 1 \/ i = k
            OBVIOUS
          <5>2. x \in ToSet(g[k - 1]) <=> \E i \in 1 .. k - 1 : x \in ToSet(ss[i])
            BY <4>2
          <5> QED
            BY <4>5, <5>1, <5>2, Zenon
        <4>7. Fine(k, g[k])
          BY <4>5, <4>6, Zenon
        <4> HIDE DEF Fine
        <4> QED
          BY <1>1, <4>7
      <3> QED
        BY <3>1, <3>2
    <2>4. n \in T
      <3> HIDE DEF T
      <3> QED
        BY <1>1, <2>2, <2>3, LastOne
    <2> QED
      BY <1>3, <2>1, <2>4
  <1> QED
    BY <1>2, <1>3

-----------------------------------------------------------------------------
(* The strings of an entry. *)

\* The strings of DIE x, and the array of its locals.
Strings(types, x) == {<<x, "name">>, <<x, "vars">>} \cup TypeNames(types, x)

\* What destroyDebugInfo frees of an entry of kind k.
FreesOf(k, item) ==
    CASE k = "func" -> FreeFunc(item)
      [] k = "var" -> FreeVar(item)
      [] k = "type" -> FreeType(item)

\* The names of the types of a function's locals.
TypeNamesIn(item) == {v.type.name.at : v \in ToSet(Locals(item))}

\* An entry is freed string by string, without the names of its locals' types.
Separate(k, item) ==
    /\ Once(FreesOf(k, item))
    /\ IF k = "func"
       THEN /\ ToSet(FreesOf(k, item)) \cup TypeNamesIn(item) = Pointed(k, item)
            /\ ToSet(FreesOf(k, item)) \cap TypeNamesIn(item) = {}
       ELSE ToSet(FreesOf(k, item)) = Pointed(k, item)

\* What is said of an entry that is kept, r being what its function returns.
EntryOwns(types, die, k, item, mallocs, F) ==
    /\ Pointed(k, item) \subseteq mallocs \ F
    /\ \A b \in Pointed(k, item) : \E x \in Users(die) : b \in Strings(types, x)
    /\ Separate(k, item)

\* Names of any two kinds are apart.
LEMMA NamesApart ==
    ASSUME NEW x, NEW y, NEW t
    PROVE  /\ <<x, "name">> # TypeName(y, t) /\ <<x, "vars">> # TypeName(y, t)
           /\ <<x, "name">> # <<y, "vars">>
           /\ <<x, "name">> = <<y, "name">> => x = y
  BY DEF TypeName

\* A variable's strings are two.
LEMMA VariableOwned ==
    ASSUME NEW types, NEW x, NEW F, NEW v, VariableFound(types, x, F, v), HasOffset(v)
    PROVE  /\ v.name.at = <<x, "name">>
           /\ v.type.name.at \in TypeNames(types, x)
           /\ {v.name.at, v.type.name.at} \subseteq v.mallocs \ F
  <1>1. /\ v.name.at \in (v.mallocs \cap {<<x, "name">>}) \ F
        /\ v.type.name.at \in v.type.mallocs \ F
        /\ v.type.mallocs \subseteq v.mallocs
        /\ v.type.mallocs \subseteq TypeNames(types, x)
    BY DEF VariableFound, TypeFound, HasOffset, Known, Owned
  <1> QED
    BY <1>1

\* A global that is kept has its own name and a copy of its type's.
LEMMA VarOwns ==
    ASSUME NEW types, AreTypes(types), NEW die, IsGiven(types, die), NEW F, NEW at,
           HasAddress(getVariable(types, die, "addr", F))
    PROVE  LET v == getVariable(types, die, "addr", F)
           IN  EntryOwns(types, die, "var", [e |-> v, path |-> at], v.mallocs, F)
  <1> DEFINE v == getVariable(types, die, "addr", F)
             item == [e |-> v, path |-> at]
             a == v.name.at
             b == v.type.name.at
  <1>1. VariableFound(types, die.id, F, v) /\ HasOffset(v)
    BY VariablesOwnTheirStrings DEF IsGiven, IsEntry, HasAddress
  <1>2. /\ a = <<die.id, "name">>
        /\ b \in TypeNames(types, die.id)
        /\ {a, b} \subseteq v.mallocs \ F
    <2> HIDE DEF v
    <2> QED
      BY <1>1, VariableOwned
  <1>3. item.e = v
    OBVIOUS
  <1>4. Pointed("var", item) = {a, b} /\ FreesOf("var", item) = <<a, b>>
    BY <1>3 DEF Pointed, FreesOf, FreeVar
  <1> HIDE DEF v, item, a, b
  <1>5. a # b
    BY <1>2, NamesApart DEF TypeNames
  <1>6. Once(<<a, b>>) /\ ToSet(<<a, b>>) = {a, b}
    <2>1. <<a, b>> \in Seq({a, b}) /\ DOMAIN <<a, b>> = {1, 2}
          /\ <<a, b>>[1] = a /\ <<a, b>>[2] = b
      OBVIOUS
    <2>2. ToSet(<<a, b>>) = {a, b}
      BY <2>1, Zenon DEF ToSet
    <2> QED
      BY <1>5, <2>1, <2>2 DEF Once, Listed, IsInjective
  <1>7. Separate("var", item)
    BY <1>4, <1>6 DEF Separate
  <1>8. die.id \in Users(die)
    BY DEF Users
  <1> QED
    BY <1>2, <1>4, <1>7, <1>8 DEF EntryOwns, Strings, v, item

\* A type that is kept has its own name.
LEMMA TypeOwns ==
    ASSUME NEW types, AreTypes(types), NEW die, die.off \in DOMAIN types, NEW F, NEW at,
           Known(getTypeEntry(types, die.id, F)[die.off])
    PROVE  LET e == getTypeEntry(types, die.id, F)[die.off]
           IN  EntryOwns(types, die, "type", [e |-> e, path |-> at], e.mallocs, F)
  <1> DEFINE e == getTypeEntry(types, die.id, F)[die.off]
             item == [e |-> e, path |-> at]
             a == e.name.at
  <1>1. TypeFound(types, die.id, F, e) /\ Known(e)
    BY TypesOwnTheirNames
  <1>2. a \in e.mallocs \ F /\ a \in TypeNames(types, die.id)
    <2> HIDE DEF e
    <2> QED
      BY <1>1 DEF TypeFound, Known, Owned
  <1>3. Pointed("type", item) = {a} /\ FreesOf("type", item) = <<a>>
    BY DEF Pointed, FreesOf, FreeType
  <1> HIDE DEF e, item, a
  <1>4. Separate("type", item)
    BY <1>3, Single DEF Separate, Once
  <1>5. die.id \in Users(die)
    BY DEF Users
  <1> QED
    BY <1>2, <1>3, <1>4, <1>5 DEF EntryOwns, Strings, e, item

\* A function that is kept has its own name and locals, and a local's strings are
\* those of the local's DIE.
LEMMA FuncOwns ==
    ASSUME NEW types, AreTypes(types), NEW die, IsGiven(types, die), NEW F, NEW at,
           getFuncEntry(types, die, F).ok
    PROVE  LET r == getFuncEntry(types, die, F)
           IN  EntryOwns(types, die, "func", [e |-> r.entry, path |-> at], r.mallocs, F)
  <1> DEFINE block == <<die.id, "vars">>
             f == fillFuncNonVars(die, F)
             complete == f.name # NULL /\ f.lowPC \notin {NULL, 0} /\ f.length # NULL
             v == fillFuncVars(types, die, F)
             r == getFuncEntry(types, die, F)
             item == [e |-> r.entry, path |-> at]
             L == v.vars.items
             a == f.name.at
             names == [j \in DOMAIN L |-> L[j].name.at]
             typeNames == {L[j].type.name.at : j \in DOMAIN L}
             c == die.children
             n == Len(c)
  <1>1. /\ complete /\ block \notin F
        /\ r.entry = [name |-> f.name, lowPC |-> f.lowPC, length |-> f.length,
                      vars |-> v.vars, varsAt |-> block]
        /\ r.mallocs = {block} \cup (f.mallocs \cup v.mallocs)
    BY DEF getFuncEntry, FuncEntry
  <1>2. /\ LocalsFound(types, die, F, n, v)
        /\ FuncFound(die.id, F, f)
    BY LocalsOwnTheirStrings, FuncsOwnTheirNames DEF IsGiven, IsEntry
  <1>3. a = <<die.id, "name">> /\ a \in f.mallocs \ F
    <2> HIDE DEF f
    <2> QED
      BY <1>1, <1>2 DEF FuncFound, Owned
  <1>4. item.e.name.at = a /\ Locals(item) = L /\ item.e.varsAt = block
    BY <1>1 DEF Locals
  <1>5. /\ FreesOf("func", item) = (<<a>> \o names) \o <<block>>
        /\ TypeNamesIn(item) = {w.type.name.at : w \in ToSet(L)}
        /\ Pointed("func", item) =
              {a, block} \cup UNION {{w.name.at, w.type.name.at} : w \in ToSet(L)}
    <2> HIDE DEF item, L, a, block
    <2> QED
      BY <1>4, Zenon DEF FreesOf, FreeFunc, TypeNamesIn, Pointed, names
  <1>6. /\ Listed(L)
        /\ \A i \in DOMAIN L :
              /\ HasOffset(L[i])
              /\ \E j \in 1 .. n : VariableFound(types, c[j].id, F, L[i])
              /\ L[i].mallocs \subseteq v.mallocs
              /\ \A k \in DOMAIN L : k # i => L[k].name.at # L[i].name.at
    <2> HIDE DEF v
    <2> QED
      BY <1>2 DEF LocalsFound, IsArray
  <1> HIDE DEF v, r, item, f, complete, L, a
  <1>7. ASSUME NEW i \in DOMAIN L
        PROVE  /\ \E j \in 1 .. n : /\ L[i].name.at = <<c[j].id, "name">>
                                    /\ L[i].type.name.at \in TypeNames(types, c[j].id)
               /\ {L[i].name.at, L[i].type.name.at} \subseteq v.mallocs \ F
    <2>1. PICK j \in 1 .. n : VariableFound(types, c[j].id, F, L[i])
      BY <1>6
    <2>2. /\ L[i].name.at = <<c[j].id, "name">>
          /\ L[i].type.name.at \in TypeNames(types, c[j].id)
          /\ {L[i].name.at, L[i].type.name.at} \subseteq L[i].mallocs \ F
      BY <1>6, <2>1, VariableOwned
    <2> QED
      BY <1>6, <2>2
  <1>8. /\ Listed(names) /\ IsInjective(names)
        /\ ToSet(names) = {L[j].name.at : j \in DOMAIN L}
    <2>1. /\ names = [j \in DOMAIN L |-> names[j]]
          /\ \A j \in DOMAIN L : names[j] = L[j].name.at
      OBVIOUS
    <2> HIDE DEF names
    <2>2. Listed(names) /\ ToSet(names) = {names[j] : j \in DOMAIN L}
      BY <1>6, <2>1, Mapped
    <2>3. IsInjective(names)
      <3>1. \A i, j \in DOMAIN L : i # j => names[i] # names[j]
        BY <1>6, <2>1
      <3>2. DOMAIN names = DOMAIN L
        BY <2>1
      <3> QED
        BY <3>1, <3>2 DEF IsInjective
    <2> QED
      BY <2>1, <2>2, <2>3
  <1> HIDE DEF names
  <1>9. \A w \in ToSet(names) : \E j \in 1 .. n : w = <<c[j].id, "name">>
    BY <1>7, <1>8
  <1>10. a \notin ToSet(names) /\ block \notin ToSet(names) /\ a # block
    <2>1. \A j \in 1 .. n : c[j].id # die.id
      BY DEF IsGiven
    <2> QED
      BY <1>3, <1>9, <2>1, NamesApart
  <1>11. /\ Once((<<a>> \o names) \o <<block>>)
         /\ ToSet((<<a>> \o names) \o <<block>>) = {a, block} \cup ToSet(names)
    <2> HIDE DEF block
    <2>1. /\ Listed(<<a>>) /\ IsInjective(<<a>>) /\ ToSet(<<a>>) = {a}
          /\ Listed(<<block>>) /\ IsInjective(<<block>>) /\ ToSet(<<block>>) = {block}
      BY Single
    <2> DEFINE s == <<a>>
               t == <<block>>
               u == s \o names
    <2> HIDE DEF s, t
    <2>2. Listed(u) /\ IsInjective(u) /\ ToSet(u) = {a} \cup ToSet(names)
      BY <1>8, <1>10, <2>1, Joined DEF s
    <2> HIDE DEF u
    <2>3. Listed(u \o t) /\ IsInjective(u \o t) /\ ToSet(u \o t) = ToSet(u) \cup {block}
      BY <1>10, <2>1, <2>2, Joined DEF t
    <2> QED
      BY <2>2, <2>3 DEF Once, s, t, u
  <1>12. typeNames = {w.type.name.at : w \in ToSet(L)}
    BY DEF ToSet
  <1>13. {a, block} \cup UNION {{w.name.at, w.type.name.at} : w \in ToSet(L)}
         = ({a, block} \cup ToSet(names)) \cup typeNames
    <2> HIDE DEF block
    <2>1. ToSet(names) = {w.name.at : w \in ToSet(L)}
      BY <1>8 DEF ToSet
    <2> HIDE DEF typeNames
    <2>2. \A x : x \in UNION {{w.name.at, w.type.name.at} : w \in ToSet(L)}
                  <=> x \in ToSet(names) \/ x \in typeNames
      BY <1>12, <2>1
    <2> QED
      BY <2>2
  <1>14. ({a, block} \cup ToSet(names)) \cap typeNames = {}
    <2>1. \A w \in typeNames : \E y, t : w = TypeName(y, t)
      BY <1>7 DEF TypeNames
    <2> HIDE DEF typeNames
    <2> QED
      BY <1>3, <1>9, <2>1, NamesApart
  <1>15. Separate("func", item)
    <2> HIDE DEF block, typeNames
    <2> QED
      BY <1>5, <1>11, <1>12, <1>13, <1>14 DEF Separate
  <1>16. ASSUME NEW b \in Pointed("func", item)
         PROVE  b \in r.mallocs \ F /\ \E x \in Users(die) : b \in Strings(types, x)
    <2>1. die.id \in Users(die) /\ \A j \in 1 .. n : c[j].id \in Users(die)
      BY DEF Users
    <2>2. b \in {a, block} \/ \E i \in DOMAIN L : b = L[i].name.at \/ b = L[i].type.name.at
      BY <1>5, <1>8, <1>13, <1>16
    <2>3. CASE b \in {a, block}
      BY <1>1, <1>3, <2>1, <2>3 DEF Strings
    <2>4. CASE \E i \in DOMAIN L : b = L[i].name.at \/ b = L[i].type.name.at
      BY <1>1, <1>7, <2>1, <2>4 DEF Strings
    <2> QED
      BY <2>2, <2>3, <2>4
  <1> QED
    BY <1>15, <1>16 DEF EntryOwns, r, item

\* What is kept of a DIE are strings of that DIE and its children, each of
\* them once.
LEMMA EntryOwned ==
    ASSUME NEW types, AreTypes(types), NEW die, IsGiven(types, die), NEW F, NEW at,
           getEntry(types, die, F).ok
    PROVE  LET k == getEntryType(die)
               r == getEntry(types, die, F)
           IN  EntryOwns(types, die, k, [e |-> r.entry, path |-> at], r.mallocs, F)
  <1> DEFINE k == getEntryType(die)
             r == getEntry(types, die, F)
             v == getVariable(types, die, "addr", F)
             t == getTypeEntry(types, die.id, F)[die.off]
  <1>1. IsDie(types, die) /\ k \in {"func", "var", "type", "error"}
    BY KindTypes DEF IsGiven, IsEntry, Kinds
  <1>2. CASE k = "func"
    <2>1. r = getFuncEntry(types, die, F)
      BY <1>2 DEF getEntry
    <2> QED
      BY <1>2, <2>1, FuncOwns
  <1>3. CASE k = "var"
    <2>1. r.ok = HasAddress(v) /\ r.entry = v /\ r.mallocs = v.mallocs
      BY <1>3 DEF getEntry
    <2> QED
      BY <1>3, <2>1, VarOwns
  <1>4. CASE k = "type"
    <2>1. r.ok = Known(t) /\ r.entry = t /\ r.mallocs = t.mallocs
      BY <1>4 DEF getEntry
    <2>2. die.off \in DOMAIN types
      BY <1>4 DEF IsGiven, IsEntry
    <2> QED
      BY <1>4, <2>1, <2>2, TypeOwns
  <1>5. CASE k = "error"
    BY <1>5 DEF getEntry
  <1> QED
    BY <1>1, <1>2, <1>3, <1>4, <1>5

-----------------------------------------------------------------------------
(* The strings of all entries. *)

\* b is a string of a DIE that has been read, in an earlier unit or in this one.
WasRead(b) ==
    \E r \in 1 .. turn : \E n \in 1 .. Len(program.cus) :
        \E i \in 1 .. Len(program.cus[n].children) :
            /\ r < turn \/ (n = cu /\ (i < child \/ (i = child /\ pc # "entry")))
            /\ \E x \in Users(Given(r, program.cus[n].children[i])) :
                   b \in Strings(program.types, x)

\* The strings of the entries are those of different DIEs.
StoredApart ==
    /\ \A k \in Kinds : \A i \in DOMAIN Items(k) :
           /\ Separate(k, Items(k)[i])
           /\ \A b \in Pointed(k, Items(k)[i]) : WasRead(b)
    /\ \A k, j \in Kinds : \A i \in DOMAIN Items(k), l \in DOMAIN Items(j) :
           k # j \/ i # l => Pointed(k, Items(k)[i]) \cap Pointed(j, Items(j)[l]) = {}

AllHeld ==
    /\ {infoBlock} \cup {arrayBlock(k) : k \in Kinds} \subseteq held
    /\ \A k \in Kinds : \A i \in DOMAIN Items(k) : Pointed(k, Items(k)[i]) \subseteq held

Using == {"unit", "root", "sibling", "entry", "ready"}

\* What is allocated.
Memory ==
    /\ pc = "open" => held = {}
    /\ pc = "allocate" => held = {session}
    /\ pc \in {"open", "allocate"} =>
           /\ turn = 0 /\ lost = {}
           /\ \A k \in Kinds : Items(k) = <<>>
    /\ pc \in Using => AllHeld
    /\ FreedOnce
    /\ LeaksKnown

\* The inductive invariant of the memory.
OwnInv == StoredApart /\ Memory

\* While no entry is stored.
LEMMA SameStored ==
    ASSUME StoredApart, UNCHANGED <<program, info>>,
           \A b : WasRead(b) => WasRead(b)'
    PROVE  StoredApart'
  <1>1. \A k \in Kinds : Items(k)' = Items(k)
    BY DEF Items
  <1>2. \A k \in Kinds : \A i \in DOMAIN Items(k) :
           /\ Separate(k, Items(k)[i])
           /\ \A b \in Pointed(k, Items(k)[i]) : WasRead(b)'
    BY DEF StoredApart
  <1>3. \A k, j \in Kinds : \A i \in DOMAIN Items(k), l \in DOMAIN Items(j) :
           k # j \/ i # l => Pointed(k, Items(k)[i]) \cap Pointed(j, Items(j)[l]) = {}
    BY DEF StoredApart
  <1>4. (\A k \in Kinds : \A i \in DOMAIN Items(k) :
           /\ Separate(k, Items(k)[i])
           /\ \A b \in Pointed(k, Items(k)[i]) : WasRead(b))'
    BY <1>1, <1>2
  <1>5. (\A k, j \in Kinds : \A i \in DOMAIN Items(k), l \in DOMAIN Items(j) :
           k # j \/ i # l => Pointed(k, Items(k)[i]) \cap Pointed(j, Items(j)[l]) = {})'
    BY <1>1, <1>3
  <1> QED
    BY <1>4, <1>5 DEF StoredApart

\* Where the reader goes, another unit is given or the same one is read on.
LEMMA Onward ==
    ASSUME ReaderInv, Next \/ UNCHANGED vars
    PROVE  /\ program' = program
           /\ \/ turn' = turn + 1
              \/ /\ turn' = turn /\ cu' = cu
                 /\ \/ child' = child + 1
                    \/ child' = child /\ (pc' = "entry" => pc = "entry")
  <1>1. CASE createDwarfSession \/ allocate \/ finish \/ destroyDebugInfo
    BY <1>1, Zenon DEF createDwarfSession, allocate, finish, destroyDebugInfo, reading
  <1>2. CASE nextCU \/ sameCU
    BY <1>2 DEF nextCU, sameCU, GiveRoot
  <1>3. CASE addCU
    <2>1. UNCHANGED <<program, cu, child, turn>> /\ ArraysInv
      BY <1>3 DEF addCU, ReaderInv, TypeOK, ArraysInv
    <2>2. pc' \in {"crashed", "wild", "unit", "sibling"}
      BY <1>3, <2>1, UnitArrays
    <2> QED
      BY <2>1, <2>2
  <1>4. CASE nextSibling
    BY <1>4 DEF nextSibling
  <1>5. CASE addEntry
    BY <1>5, Zenon DEF addEntry, reading
  <1>6. CASE Ended \/ UNCHANGED vars
    BY <1>6 DEF Ended, vars, reading
  <1> QED
    BY <1>1, <1>2, <1>3, <1>4, <1>5, <1>6 DEF Next

\* What was read stays read.
LEMMA ReadStays ==
    ASSUME ReaderInv, Next \/ UNCHANGED vars, NEW b, WasRead(b)
    PROVE  WasRead(b)'
  <1>1. turn \in Nat /\ child \in Int
    <2>1. program \in Programs /\ turn \in Nat
      BY DEF ReaderInv, TypeOK
    <2>2. child \in Int
      BY DEF ReaderInv, TypeOK
    <2> QED
      BY <2>1, <2>2
  <1>2. PICK r \in 1 .. turn, n \in 1 .. Len(program.cus) :
            \E i \in 1 .. Len(program.cus[n].children) :
                /\ r < turn \/ (n = cu /\ (i < child \/ (i = child /\ pc # "entry")))
                /\ \E x \in Users(Given(r, program.cus[n].children[i])) :
                       b \in Strings(program.types, x)
    BY DEF WasRead
  <1>3. PICK i \in 1 .. Len(program.cus[n].children) :
            /\ r < turn \/ (n = cu /\ (i < child \/ (i = child /\ pc # "entry")))
            /\ \E x \in Users(Given(r, program.cus[n].children[i])) :
                   b \in Strings(program.types, x)
    BY <1>2
  <1>4. /\ program' = program
        /\ \/ turn' = turn + 1
           \/ /\ turn' = turn /\ cu' = cu
              /\ \/ child' = child + 1
                 \/ child' = child /\ (pc' = "entry" => pc = "entry")
    BY Onward
  <1>5. /\ r \in 1 .. turn'
        /\ r < turn' \/ (n = cu' /\ (i < child' \/ (i = child' /\ pc' # "entry")))
    <2>1. i \in Int
      OBVIOUS
    <2>2. CASE turn' = turn + 1
      BY <1>1, <2>2
    <2>3. CASE turn' = turn /\ cu' = cu /\ child' = child + 1
      BY <1>1, <1>3, <2>1, <2>3
    <2>4. CASE turn' = turn /\ cu' = cu /\ child' = child /\ (pc' = "entry" => pc = "entry")
      BY <1>3, <2>4
    <2> QED
      BY <1>4, <2>2, <2>3, <2>4
  <1> QED
    BY <1>3, <1>4, <1>5, Zenon DEF WasRead

\* The handles of what is given of a DIE name its places.
LEMMA GivenUsers ==
    ASSUME NEW n, NEW die, Len(die.children) \in Nat, NEW x \in Users(Given(n, die))
    PROVE  \E o \in Places(die) : x = <<n, o>>
  <1> DEFINE g == Given(n, die)
             len == Len(die.children)
  <1>1. /\ g.id = <<n, die.off>> /\ Len(g.children) = len
        /\ \A i \in 1 .. len : g.children[i] = Handle(n, die.children[i])
    BY GivenLists
  <1>2. x = g.id \/ \E i \in 1 .. Len(g.children) : x = g.children[i].id
    BY DEF Users
  <1> HIDE DEF g
  <1>3. CASE x = g.id
    BY <1>1, <1>3 DEF Places
  <1>4. CASE \E i \in 1 .. Len(g.children) : x = g.children[i].id
    <2>1. PICK i \in 1 .. len : x = g.children[i].id
      BY <1>1, <1>4
    <2> DEFINE y == die.children[i]
    <2>2. g.children[i] = Handle(n, y)
      BY <1>1
    <2>3. y.off \in Places(die)
      BY DEF Places
    <2> HIDE DEF y
    <2>4. x = <<n, y.off>>
      BY <2>1, <2>2 DEF Handle
    <2> QED
      BY <2>3, <2>4
  <1> QED
    BY <1>2, <1>3, <1>4

\* Where the DIE that is read is in the file.
LEMMA DieIsPlaced ==
    ASSUME ReaderInv, pc = "entry"
    PROVE  /\ program \in Programs /\ Len(program.cus) \in Nat
           /\ turn \in Nat /\ turn > 0
           /\ cu \in 1 .. Len(program.cus)
           /\ child \in 1 .. Len(program.cus[cu].children)
           /\ Len(program.cus[cu].children) \in Nat
  <1>1. program \in Programs /\ cu \in 0 .. Len(program.cus) /\ cu > 0
        /\ turn \in Nat /\ cu <= turn
    BY DEF ReaderInv, TypeOK
  <1>2. child \in 0 .. Len(Unit.children) /\ child > 0
    BY <1>1 DEF ReaderInv, TypeOK
  <1>3. Len(program.cus) \in Nat
    BY <1>1, ProgramsAssumption
  <1>4. cu \in 1 .. Len(program.cus)
    BY <1>1, <1>3
  <1>5. Len(Unit.children) \in Nat
    BY <1>1, <1>4, ProgramsAssumption DEF IsUnit, Unit
  <1> QED
    BY <1>1, <1>2, <1>3, <1>4, <1>5 DEF Unit

\* The DIE that is being read has not been read.
LEMMA DieIsNew ==
    ASSUME ReaderInv, pc = "entry", NEW x \in Users(Die), NEW b, b \in Strings(program.types, x)
    PROVE  ~WasRead(b)
  <1> DEFINE D(n) == program.cus[n].children
  <1>1. /\ program \in Programs /\ Len(program.cus) \in Nat /\ turn \in Nat
        /\ cu \in 1 .. Len(program.cus)
        /\ child \in 1 .. Len(D(cu)) /\ Len(D(cu)) \in Nat
    BY DieIsPlaced
  <1>2. SUFFICES ASSUME NEW r \in 1 .. turn, NEW n \in 1 .. Len(program.cus),
                        NEW i \in 1 .. Len(D(n)), r < turn \/ (n = cu /\ i < child),
                        NEW y \in Users(Given(r, D(n)[i])),
                        b \in Strings(program.types, y)
                 PROVE  FALSE
    BY DEF WasRead
  <1>3. x = y
    BY <1>2 DEF Strings, TypeNames, TypeName
  <1>4. \A m \in 1 .. Len(program.cus) : IsUnit(program.types, program.cus[m])
    BY <1>1, ProgramsAssumption
  <1>5. Len(D(n)[i].children) \in Nat /\ Len(D(cu)[child].children) \in Nat
    <2>1. IsEntry(program.types, D(n)[i]) /\ IsEntry(program.types, D(cu)[child])
      BY <1>1, <1>4 DEF IsUnit
    <2> QED
      BY <2>1 DEF IsEntry, IsDie
  <1>6. PICK o \in Places(D(n)[i]) : y = <<r, o>>
    BY <1>5, GivenUsers
  <1>7. PICK p \in Places(D(cu)[child]) : x = <<turn, p>>
    <2>1. x \in Users(Given(turn, D(cu)[child]))
      BY DEF Die, Unit
    <2> HIDE DEF D
    <2> QED
      BY <1>5, <2>1, GivenUsers
  <1>8. r = turn /\ o = p
    BY <1>3, <1>6, <1>7
  <1>9. n = cu /\ i # child
    BY <1>1, <1>2, <1>8
  <1>10. Places(D(cu)[i]) \cap Places(D(cu)[child]) = {}
    BY <1>1, <1>4, <1>9 DEF IsUnit
  <1> QED
    BY <1>6, <1>7, <1>8, <1>9, <1>10

\* What addEntry stores is the entry it read, at the end of an array, or nothing.
LEMMA EntryStores ==
    ASSUME ReaderInv, pc = "entry", NEW F, NEW k, NEW r, NEW array,
           EntryRead(F, k, r, array), NEW j \in Kinds, NEW i \in DOMAIN Items(j)'
    PROVE  \/ i \in DOMAIN Items(j) /\ Items(j)'[i] = Items(j)[i]
           \/ /\ r.ok /\ j = k /\ i = Len(Items(k)) + 1 /\ i \notin DOMAIN Items(k)
              /\ Items(j)'[i] = [e |-> r.entry, path |-> path]
  <1> DEFINE entry == [e |-> r.entry, path |-> path]
             fails == growth(Die, k) \in F
             appends == r.ok /\ ~r.crash /\ ~r.wild
             s == info[k].items
  <1>1. /\ array = append(info[k], entry, fails)
        /\ info' = IF appends THEN [info EXCEPT ![k] = array] ELSE info
    BY DEF EntryRead
  <1>2. info = [m \in Kinds |-> info[m]] /\ \A m \in Kinds : IsArray(info[m])
    BY DEF ReaderInv
  <1>3. CASE ~appends \/ j # k
    <2>1. info'[j] = info[j]
      BY <1>1, <1>2, <1>3
    <2> QED
      BY <2>1 DEF Items
  <1>4. CASE appends /\ j = k
    <2>1. info'[j] = array
      BY <1>1, <1>2, <1>4
    <2>2. fails \in BOOLEAN
      OBVIOUS
    <2> HIDE DEF fails, entry
    <2>3. array.items \in {s, Append(s, entry)}
      BY <1>1, <1>2, <1>4, <2>2, AppendArray
    <2>4. CASE array.items = s
      BY <1>4, <2>1, <2>4 DEF Items
    <2>5. CASE array.items = Append(s, entry)
      <3>1. Listed(s)
        BY <1>2, <1>4 DEF IsArray
      <3>2. /\ Len(s) \in Nat /\ DOMAIN s = 1 .. Len(s)
            /\ DOMAIN array.items = 1 .. Len(s) + 1
            /\ \A m \in 1 .. Len(s) : array.items[m] = s[m]
            /\ array.items[Len(s) + 1] = entry
        BY <2>5, <3>1, Appended
      <3>3. Items(j)' = array.items /\ Items(j) = s
        BY <1>4, <2>1 DEF Items
      <3> HIDE DEF s
      <3>4. i \in DOMAIN s \/ (i = Len(s) + 1 /\ i \notin DOMAIN s)
        BY <3>2, <3>3
      <3> QED
        BY <1>4, <3>2, <3>3, <3>4 DEF entry
    <2> QED
      BY <2>3, <2>4, <2>5
  <1> QED
    BY <1>3, <1>4

\* The strings of the new entry are new.
LEMMA EntryApart ==
    ASSUME ReaderInv, StoredApart, addEntry
    PROVE  /\ StoredApart'
           /\ (AllHeld => AllHeld')
  <1>1. pc = "entry" /\ program' = program /\ UNCHANGED <<cu, child, turn, path>>
    BY Zenon DEF addEntry, reading
  <1>2. PICK F, k, r, array : EntryRead(F, k, r, array)
    BY EntryReads
  <1> DEFINE new == [e |-> r.entry, path |-> path]
             Old(j, i) == i \in DOMAIN Items(j) /\ Items(j)'[i] = Items(j)[i]
             Own(j, i) == /\ r.ok /\ j = k /\ i = Len(Items(k)) + 1
                          /\ Items(j)'[i] = new
  <1>3. \A j \in Kinds : \A i \in DOMAIN Items(j)' : Old(j, i) \/ Own(j, i)
    BY <1>1, <1>2, EntryStores
  <1>4. r.ok => /\ Pointed(k, new) \subseteq r.mallocs \ F
                /\ \A b \in Pointed(k, new) :
                       \E x \in Users(Die) : b \in Strings(program.types, x)
                /\ Separate(k, new)
    <2>1. /\ AreTypes(program.types) /\ IsGiven(program.types, Die)
      BY <1>1, DieIsEntry
    <2>2. k = getEntryType(Die) /\ r = getEntry(program.types, Die, F)
      BY <1>2 DEF EntryRead
    <2> QED
      BY <2>1, <2>2, EntryOwned DEF EntryOwns
  <1>5. r.ok => \A b \in Pointed(k, new) : ~WasRead(b) /\ WasRead(b)'
    <2>1. SUFFICES ASSUME r.ok, NEW b \in Pointed(k, new)
                   PROVE  ~WasRead(b) /\ WasRead(b)'
      OBVIOUS
    <2>2. PICK x \in Users(Die) : b \in Strings(program.types, x)
      BY <1>4, <2>1
    <2>3. ~WasRead(b)
      BY <1>1, <2>2, DieIsNew
    <2>4. WasRead(b)'
      <3>1. /\ turn \in 1 .. turn /\ cu \in 1 .. Len(program.cus)
            /\ child \in 1 .. Len(program.cus[cu].children)
        BY <1>1, DieIsPlaced
      <3>2. x \in Users(Given(turn, program.cus[cu].children[child]))
        BY <2>2 DEF Die, Unit
      <3>3. pc' # "entry"
        BY Zenon DEF addEntry, addRead
      <3> QED
        BY <1>1, <2>2, <3>1, <3>2, <3>3 DEF WasRead
    <2> QED
      BY <2>3, <2>4
  <1>6. \A b : WasRead(b) => WasRead(b)'
    BY ReadStays DEF Next
  <1>7. held' = held \cup (r.mallocs \ F)
    BY <1>2 DEF EntryRead
  <1> DEFINE P(j, i) == Pointed(j, Items(j)[i])
             Q(j, i) == Pointed(j, Items(j)'[i])
  <1>8. ASSUME NEW j \in Kinds, NEW i \in DOMAIN Items(j)'
        PROVE  /\ Separate(j, Items(j)'[i])
               /\ \A b \in Q(j, i) : WasRead(b)'
               /\ AllHeld => Q(j, i) \subseteq held'
    <2>1. CASE Old(j, i)
      BY <1>6, <1>7, <2>1 DEF StoredApart, AllHeld
    <2>2. CASE Own(j, i)
      BY <1>4, <1>5, <1>7, <2>2
    <2> QED
      BY <1>3, <2>1, <2>2
  <1>9. ASSUME NEW j \in Kinds, NEW i \in DOMAIN Items(j)',
               NEW m \in Kinds, NEW l \in DOMAIN Items(m)', j # m \/ i # l
        PROVE  Q(j, i) \cap Q(m, l) = {}
    <2>1. CASE Old(j, i) /\ Old(m, l)
      BY <1>9, <2>1 DEF StoredApart
    <2>2. CASE Old(j, i) /\ Own(m, l)
      BY <1>5, <2>2 DEF StoredApart
    <2>3. CASE Own(j, i) /\ Old(m, l)
      BY <1>5, <2>3 DEF StoredApart
    <2>4. CASE Own(j, i) /\ Own(m, l)
      BY <1>9, <2>4
    <2> QED
      BY <1>3, <2>1, <2>2, <2>3, <2>4
  <1>10. (\A j \in Kinds : \A i \in DOMAIN Items(j) :
             /\ Separate(j, Items(j)[i])
             /\ \A b \in Pointed(j, Items(j)[i]) : WasRead(b))'
    BY <1>8
  <1>11. (\A j, m \in Kinds : \A i \in DOMAIN Items(j), l \in DOMAIN Items(m) :
             j # m \/ i # l => Pointed(j, Items(j)[i]) \cap Pointed(m, Items(m)[l]) = {})'
    BY <1>9
  <1>12. AllHeld => AllHeld'
    BY <1>7, <1>8 DEF AllHeld, infoBlock, arrayBlock
  <1> QED
    BY <1>10, <1>11, <1>12 DEF StoredApart

-----------------------------------------------------------------------------
(* What destroyDebugInfo frees. *)

\* What destroyDebugInfo frees of the entries of kind k.
FreesOfKind(k) == FlattenSeq([i \in DOMAIN Items(k) |-> FreesOf(k, Items(k)[i])])

\* The arguments of free, kind by kind.
LEMMA FreesAre ==
    Frees = FreesOfKind("func") \o <<arrayBlock("func")>>
            \o FreesOfKind("var") \o <<arrayBlock("var")>>
            \o FreesOfKind("type") \o <<arrayBlock("type"), infoBlock>>
  <1>1. [i \in DOMAIN Items("func") |-> FreesOf("func", Items("func")[i])]
        = [i \in DOMAIN Items("func") |-> FreeFunc(Items("func")[i])]
    BY DEF FreesOf
  <1>2. [i \in DOMAIN Items("var") |-> FreesOf("var", Items("var")[i])]
        = [i \in DOMAIN Items("var") |-> FreeVar(Items("var")[i])]
    BY DEF FreesOf
  <1>3. [i \in DOMAIN Items("type") |-> FreesOf("type", Items("type")[i])]
        = [i \in DOMAIN Items("type") |-> FreeType(Items("type")[i])]
    BY DEF FreesOf
  <1> QED
    BY <1>1, <1>2, <1>3, Zenon DEF Frees, FreesOfKind

\* The entries of a kind are freed string by string.
LEMMA KindFreed ==
    ASSUME ReaderInv, StoredApart, NEW k \in Kinds
    PROVE  /\ Once(FreesOfKind(k))
           /\ ToSet(FreesOfKind(k)) =
                  UNION {ToSet(FreesOf(k, Items(k)[i])) : i \in DOMAIN Items(k)}
  <1> DEFINE s == Items(k)
             f == [i \in DOMAIN s |-> FreesOf(k, s[i])]
  <1>1. Listed(s)
    BY DEF ReaderInv, IsArray, Items
  <1>2. f = [i \in DOMAIN s |-> f[i]] /\ \A i \in DOMAIN s : f[i] = FreesOf(k, s[i])
    OBVIOUS
  <1> HIDE DEF f
  <1>3. Listed(f) /\ Len(f) = Len(s) /\ DOMAIN s = 1 .. Len(s)
    <2>1. Listed(f) /\ Len(f) = Len(s)
      BY <1>1, <1>2, Mapped
    <2> QED
      BY <1>1, <2>1 DEF Listed
  <1>4. \A i \in DOMAIN s : /\ Once(FreesOf(k, s[i]))
                            /\ ToSet(FreesOf(k, s[i])) \subseteq Pointed(k, s[i])
    BY DEF StoredApart, Separate
  <1>5. \A i \in 1 .. Len(f) : Listed(f[i]) /\ IsInjective(f[i])
    BY <1>2, <1>3, <1>4 DEF Once
  <1>6. \A i, j \in 1 .. Len(f) : i # j => ToSet(f[i]) \cap ToSet(f[j]) = {}
    <2>1. \A i, j \in DOMAIN s : i # j => Pointed(k, s[i]) \cap Pointed(k, s[j]) = {}
      BY DEF StoredApart
    <2> HIDE DEF s
    <2> QED
      BY <1>2, <1>3, <1>4, <2>1
  <1>7. /\ Listed(FlattenSeq(f)) /\ IsInjective(FlattenSeq(f))
        /\ ToSet(FlattenSeq(f)) = UNION {ToSet(f[i]) : i \in 1 .. Len(f)}
    BY <1>3, <1>5, <1>6, Flattened
  <1>8. UNION {ToSet(f[i]) : i \in 1 .. Len(f)}
        = UNION {ToSet(FreesOf(k, s[i])) : i \in DOMAIN s}
    BY <1>2, <1>3
  <1>9. FreesOfKind(k) = FlattenSeq(f)
    BY DEF FreesOfKind, f
  <1> QED
    BY <1>7, <1>8, <1>9 DEF Once

Arrays == {arrayBlock("func"), arrayBlock("var"), arrayBlock("type"), infoBlock}

\* Strings are not arrays.
LEMMA StringsApart ==
    ASSUME NEW b, WasRead(b)
    PROVE  b \notin Arrays /\ b # session
  <1>1. PICK types, x : b \in Strings(types, x)
    BY DEF WasRead
  <1>2. b \in {<<x, "name">>, <<x, "vars">>} \/ \E t : b = TypeName(x, t)
    BY <1>1 DEF Strings, TypeNames
  <1>3. Arrays = {<<"func">>, <<"var">>, <<"type">>, <<"info">>} /\ session = <<"session">>
    BY DEF Arrays, arrayBlock, infoBlock, session
  <1>4. Len(b) \in {2, 3}
    BY <1>2 DEF TypeName
  <1>5. \A c \in Arrays \cup {session} : Len(c) = 1
    BY <1>3
  <1> QED
    BY <1>4, <1>5

\* What destroyDebugInfo frees of all entries.
EntriesFreed ==
    UNION {UNION {ToSet(FreesOf(k, Items(k)[i])) : i \in DOMAIN Items(k)} : k \in Kinds}

\* All of destroyDebugInfo: the strings of the entries, the arrays and the
\* record, each of them once.
LEMMA AllFreed ==
    ASSUME ReaderInv, StoredApart
    PROVE  IsInjective(Frees) /\ ToSet(Frees) = EntriesFreed \cup Arrays
  <1> DEFINE U(k) == UNION {ToSet(FreesOf(k, Items(k)[i])) : i \in DOMAIN Items(k)}
             f == FreesOfKind("func")
             v == FreesOfKind("var")
             t == FreesOfKind("type")
             fa == <<arrayBlock("func")>>
             va == <<arrayBlock("var")>>
             ta == <<arrayBlock("type"), infoBlock>>
  <1>1. /\ Listed(f) /\ IsInjective(f) /\ ToSet(f) = U("func")
        /\ Listed(v) /\ IsInjective(v) /\ ToSet(v) = U("var")
        /\ Listed(t) /\ IsInjective(t) /\ ToSet(t) = U("type")
    BY KindFreed DEF Kinds, Once
  <1>2. /\ \A k \in Kinds : \A b \in U(k) : b \notin Arrays
        /\ \A k, j \in Kinds : k # j => U(k) \cap U(j) = {}
    <2>1. \A k \in Kinds : \A i \in DOMAIN Items(k) :
              ToSet(FreesOf(k, Items(k)[i])) \subseteq Pointed(k, Items(k)[i])
      BY DEF StoredApart, Separate
    <2>2. ASSUME NEW k \in Kinds, NEW b \in U(k)
          PROVE  b \notin Arrays
      <3>1. WasRead(b)
        BY <2>1, <2>2 DEF StoredApart
      <3> QED
        BY <3>1, StringsApart
    <2>3. ASSUME NEW k \in Kinds, NEW j \in Kinds, k # j, NEW b \in U(k), b \in U(j)
          PROVE  FALSE
      <3>1. PICK i \in DOMAIN Items(k) : b \in Pointed(k, Items(k)[i])
        BY <2>1, <2>3
      <3>2. PICK l \in DOMAIN Items(j) : b \in Pointed(j, Items(j)[l])
        BY <2>1, <2>3
      <3> QED
        BY <2>3, <3>1, <3>2 DEF StoredApart
    <2> HIDE DEF U
    <2> QED
      BY <2>2, <2>3
  <1>3. /\ Listed(fa) /\ IsInjective(fa) /\ ToSet(fa) = {arrayBlock("func")}
        /\ Listed(va) /\ IsInjective(va) /\ ToSet(va) = {arrayBlock("var")}
    BY Single
  <1>4. /\ Listed(ta) /\ IsInjective(ta) /\ ToSet(ta) = {arrayBlock("type"), infoBlock}
    <2> DEFINE a == arrayBlock("type")
               b == infoBlock
    <2>1. a # b
      BY DEF arrayBlock, infoBlock
    <2> HIDE DEF a, b
    <2>2. <<a, b>> \in Seq({a, b}) /\ DOMAIN <<a, b>> = {1, 2}
          /\ <<a, b>>[1] = a /\ <<a, b>>[2] = b
      OBVIOUS
    <2>3. ToSet(<<a, b>>) = {a, b}
      BY <2>2, Zenon DEF ToSet
    <2>4. Listed(<<a, b>>) /\ IsInjective(<<a, b>>)
      BY <2>1, <2>2, <2>3 DEF Listed, IsInjective
    <2> QED
      BY <2>3, <2>4 DEF a, b
  <1>5. /\ arrayBlock("func") # arrayBlock("var") /\ arrayBlock("func") # arrayBlock("type")
        /\ arrayBlock("var") # arrayBlock("type")
        /\ \A k \in Kinds : arrayBlock(k) # infoBlock
    BY DEF arrayBlock, infoBlock, Kinds
  <1>6. Frees = f \o fa \o v \o va \o t \o ta
    BY FreesAre
  <1>7. EntriesFreed = U("func") \cup U("var") \cup U("type")
    BY DEF EntriesFreed, Kinds
  <1>8. Arrays = {arrayBlock("func"), arrayBlock("var"), arrayBlock("type"), infoBlock}
    BY DEF Arrays
  <1> DEFINE F == U("func")
             V == U("var")
             T == U("type")
             a == arrayBlock("func")
             b == arrayBlock("var")
             c == arrayBlock("type")
             s1 == f \o fa
             s2 == s1 \o v
             s3 == s2 \o va
             s4 == s3 \o t
             s5 == s4 \o ta
  <1>9. /\ F \cap Arrays = {} /\ V \cap Arrays = {} /\ T \cap Arrays = {}
        /\ F \cap V = {} /\ F \cap T = {} /\ V \cap T = {}
    <2> HIDE DEF U
    <2> QED
      BY <1>2 DEF Kinds
  <1> HIDE DEF U, f, v, t, fa, va, ta, F, V, T, a, b, c
  <1>10. Listed(s1) /\ IsInjective(s1) /\ ToSet(s1) = F \cup {a}
    BY <1>1, <1>3, <1>8, <1>9, Joined DEF F, a
  <1> HIDE DEF s1
  <1>11. Listed(s2) /\ IsInjective(s2) /\ ToSet(s2) = F \cup {a} \cup V
    <2>1. ToSet(s1) \cap ToSet(v) = {}
      BY <1>1, <1>8, <1>9, <1>10 DEF V, a
    <2> QED
      BY <1>1, <1>10, <2>1, Joined DEF V
  <1> HIDE DEF s2
  <1>12. Listed(s3) /\ IsInjective(s3) /\ ToSet(s3) = F \cup {a} \cup V \cup {b}
    <2>1. ToSet(s2) \cap ToSet(va) = {}
      BY <1>3, <1>5, <1>8, <1>9, <1>11 DEF a, b
    <2> QED
      BY <1>3, <1>11, <2>1, Joined DEF b
  <1> HIDE DEF s3
  <1>13. Listed(s4) /\ IsInjective(s4) /\ ToSet(s4) = F \cup {a} \cup V \cup {b} \cup T
    <2>1. ToSet(s3) \cap ToSet(t) = {}
      BY <1>1, <1>8, <1>9, <1>12 DEF T, a, b
    <2> QED
      BY <1>1, <1>12, <2>1, Joined DEF T
  <1> HIDE DEF s4
  <1>14. IsInjective(s5)
         /\ ToSet(s5) = F \cup {a} \cup V \cup {b} \cup T \cup {c, infoBlock}
    <2>1. ToSet(s4) \cap ToSet(ta) = {}
      BY <1>4, <1>5, <1>8, <1>9, <1>13 DEF a, b, c, Kinds
    <2> QED
      BY <1>4, <1>13, <2>1, Joined DEF c
  <1>15. Frees = s5
    BY <1>6 DEF s1, s2, s3, s4
  <1> QED
    BY <1>7, <1>8, <1>14, <1>15 DEF F, V, T, a, b, c

-----------------------------------------------------------------------------
(* The memory after each step. *)

\* While the arrays stay as they are, so do the entries and what they point at.
LEMMA SameItems ==
    ASSUME UNCHANGED info
    PROVE  /\ \A k \in Kinds : Items(k)' = Items(k)
           /\ (AllHeld /\ UNCHANGED held => AllHeld')
           /\ (AllHeld /\ held \subseteq held' => AllHeld')
  <1>1. \A k \in Kinds : Items(k)' = Items(k)
    BY DEF Items
  <1>2. AllHeld /\ held \subseteq held' => AllHeld'
    BY <1>1 DEF AllHeld, infoBlock, arrayBlock
  <1> QED
    BY <1>1, <1>2

\* And so do the blocks of the information.
LEMMA SameBlocks ==
    ASSUME UNCHANGED info
    PROVE  /\ InfoBlocks' = InfoBlocks /\ InfoArrays' = InfoArrays
           /\ infoBlock' = infoBlock /\ session' = session
           /\ TypeNamesOfLocals' = TypeNamesOfLocals
  <1>1. InfoArrays' = InfoArrays /\ infoBlock' = infoBlock /\ session' = session
    BY DEF InfoArrays, arrayBlock, infoBlock, session
  <1>2. \A k \in Kinds : Items(k)' = Items(k)
    BY DEF Items
  <1>3. TypeNamesOfLocals' = TypeNamesOfLocals
    BY DEF TypeNamesOfLocals, Items
  <1>4. InfoBlocks' = InfoBlocks
    BY <1>1 DEF InfoBlocks, Stored, Items
  <1> QED
    BY <1>1, <1>3, <1>4

\* The blocks that the stored entries point at.
LEMMA PointedAre ==
    ASSUME NEW x
    PROVE  x \in UNION {Pointed(s[1], Items(s[1])[s[2]]) : s \in Stored}
           <=> \E k \in Kinds : \E i \in DOMAIN Items(k) : x \in Pointed(k, Items(k)[i])
  <1> DEFINE pointed == UNION {Pointed(s[1], Items(s[1])[s[2]]) : s \in Stored}
  <1>1. ASSUME x \in pointed
        PROVE  \E k \in Kinds : \E i \in DOMAIN Items(k) : x \in Pointed(k, Items(k)[i])
    <2>1. PICK s \in Stored : x \in Pointed(s[1], Items(s[1])[s[2]])
      BY <1>1
    <2>2. PICK k \in Kinds : s \in {<<k, i>> : i \in DOMAIN Items(k)}
      BY DEF Stored
    <2>3. PICK i \in DOMAIN Items(k) : s = <<k, i>>
      BY <2>2
    <2> QED
      BY <2>1, <2>3
  <1>2. ASSUME NEW k \in Kinds, NEW i \in DOMAIN Items(k), x \in Pointed(k, Items(k)[i])
        PROVE  x \in pointed
    <2>1. <<k, i>> \in Stored
      BY DEF Stored
    <2>2. <<k, i>>[1] = k /\ <<k, i>>[2] = i
      OBVIOUS
    <2> QED
      BY <1>2, <2>1, <2>2, Zenon
  <1> HIDE DEF pointed
  <1>3. x \in pointed <=> \E k \in Kinds : \E i \in DOMAIN Items(k) : x \in Pointed(k, Items(k)[i])
    BY <1>1, <1>2
  <1> QED
    BY <1>3 DEF pointed

\* The information holds all its blocks, among them neither the record nor the
\* session.
LEMMA BlocksHeld ==
    ASSUME AllHeld, StoredApart
    PROVE  InfoBlocks \subseteq held /\ infoBlock \notin InfoBlocks /\ session \notin InfoBlocks
  <1>1. InfoArrays \subseteq held /\ infoBlock \notin InfoArrays /\ session \notin InfoArrays
    BY DEF AllHeld, InfoArrays, arrayBlock, infoBlock, session, Kinds
  <1> DEFINE pointed == UNION {Pointed(s[1], Items(s[1])[s[2]]) : s \in Stored}
  <1>2. ASSUME NEW x \in pointed
        PROVE  x \in held /\ x # infoBlock /\ x # session
    <2>1. PICK k \in Kinds : \E i \in DOMAIN Items(k) : x \in Pointed(k, Items(k)[i])
      BY PointedAre
    <2>2. PICK i \in DOMAIN Items(k) : x \in Pointed(k, Items(k)[i])
      BY <2>1
    <2>3. WasRead(x)
      BY <2>2 DEF StoredApart
    <2> QED
      BY <2>2, <2>3, StringsApart DEF AllHeld, Arrays
  <1>3. InfoBlocks = InfoArrays \cup pointed
    BY DEF InfoBlocks
  <1> HIDE DEF pointed
  <1> QED
    BY <1>1, <1>2, <1>3

\* Nothing but the session is open.
LEMMA OpenMemory == ASSUME ReaderInv, OwnInv, createDwarfSession PROVE Memory'
  <1>1. /\ pc = "open" /\ pc' \in {"allocate", "failed"}
        /\ pc' = "allocate" => held' = {session}
        /\ pc' = "failed" => held' = held
        /\ UNCHANGED <<info, lost, turn, badFree>>
    BY DEF createDwarfSession, reading
  <1>2. held = {} /\ turn = 0 /\ lost = {} /\ \A k \in Kinds : Items(k)' = <<>>
    BY <1>1, SameItems DEF OwnInv, Memory
  <1>3. FreedOnce'
    BY <1>1 DEF OwnInv, Memory, FreedOnce
  <1>4. LeaksKnown'
    BY <1>1, <1>2 DEF LeaksKnown, session, infoBlock
  <1> QED
    BY <1>1, <1>2, <1>3, <1>4 DEF Memory, Using, session

\* The record and the arrays are allocated, or the session is closed.
LEMMA AllocateMemory == ASSUME ReaderInv, OwnInv, allocate PROVE Memory'
  <1>1. PICK F \in SUBSET ({infoBlock} \cup InfoArrays) :
            /\ infoBlock \in F => F = {infoBlock}
            /\ Fail(F, {infoBlock} \cup InfoArrays, {})
            /\ pc' = IF F = {} THEN "unit" ELSE "failed"
            /\ held' = CASE F = {} -> held \cup {infoBlock} \cup InfoArrays
                         [] infoBlock \in F -> held \ {session}
                         [] OTHER -> (held \cup InfoArrays) \ (F \cup {session})
    BY Zenon DEF allocate, InfoArrays
  <1>2. pc = "allocate" /\ UNCHANGED <<info, turn, badFree>>
    BY DEF allocate, reading
  <1>3. /\ held = {session} /\ turn' = 0 /\ lost = {}
        /\ \A k \in Kinds : Items(k)' = <<>>
    BY <1>2, SameItems DEF OwnInv, Memory
  <1>4. lost' = F
    BY <1>1, <1>3 DEF Fail
  <1>5. FreedOnce'
    BY <1>2 DEF OwnInv, Memory, FreedOnce
  <1>6. infoBlock \notin InfoArrays /\ session \notin InfoArrays /\ session # infoBlock
    BY DEF infoBlock, session, arrayBlock, Kinds, InfoArrays
  <1>7. /\ InfoBlocks' = InfoArrays /\ InfoArrays' = InfoArrays
        /\ infoBlock' = infoBlock /\ session' = session
    <2>1. /\ InfoBlocks' = InfoBlocks /\ InfoArrays' = InfoArrays
          /\ infoBlock' = infoBlock /\ session' = session
      BY <1>2, SameBlocks
    <2>2. Stored = {}
      BY <1>2 DEF OwnInv, Memory, Stored
    <2> QED
      BY <2>1, <2>2 DEF InfoBlocks
  <1>8. pc' = "unit" => held' = {session} \cup {infoBlock} \cup InfoArrays
    BY <1>1, <1>3
  <1>9. ASSUME pc' = "failed"
        PROVE  /\ session \notin held'
               /\ held' \cap (InfoArrays \cup {infoBlock}) =
                      IF F = {} \/ infoBlock \in F THEN {} ELSE InfoArrays \ F
    <2>1. F # {}
      BY <1>1, <1>9
    <2>2. CASE infoBlock \in F
      BY <1>1, <1>3, <1>6, <2>1, <2>2
    <2>3. CASE infoBlock \notin F
      BY <1>1, <1>3, <1>6, <2>1, <2>3
    <2> QED
      BY <2>2, <2>3
  <1>10. pc' \in {"unit", "failed"}
    BY <1>1
  <1>11. LeaksKnown'
    BY <1>3, <1>4, <1>7, <1>9, <1>10 DEF LeaksKnown
  <1>12. ASSUME pc' = "unit"
         PROVE  AllHeld'
    <2>1. ({infoBlock} \cup {arrayBlock(k) : k \in Kinds} \subseteq held)'
      BY <1>8, <1>12 DEF InfoArrays, infoBlock, arrayBlock
    <2>2. \A k \in Kinds : DOMAIN Items(k)' = {}
      BY <1>3
    <2> QED
      BY <2>1, <2>2 DEF AllHeld
  <1> QED
    BY <1>5, <1>10, <1>11, <1>12 DEF Memory, Using

\* A unit is given without a change of memory.
LEMMA GiveMemory == ASSUME ReaderInv, OwnInv, nextCU \/ sameCU PROVE Memory'
  <1>1. pc = "unit" /\ pc' = "root" /\ UNCHANGED <<info, held, badFree>>
    BY DEF nextCU, sameCU, GiveRoot
  <1>2. FreedOnce'
    BY <1>1 DEF OwnInv, Memory, FreedOnce
  <1>3. AllHeld'
    BY <1>1, SameItems DEF OwnInv, Memory, Using
  <1>4. LeaksKnown'
    BY <1>1 DEF LeaksKnown
  <1> QED
    BY <1>1, <1>2, <1>3, <1>4 DEF Memory

\* A unit allocates its path and frees nothing.
LEMMA UnitMemory == ASSUME ReaderInv, OwnInv, addCU PROVE Memory'
  <1>1. pc = "root" /\ UNCHANGED <<info, badFree>> /\ held \subseteq held'
    BY DEF addCU
  <1>2. pc' \in {"crashed", "wild", "unit", "sibling"}
    <2>1. ArraysInv
      BY DEF ReaderInv, TypeOK, ArraysInv
    <2> QED
      BY <2>1, UnitArrays
  <1>3. FreedOnce'
    BY <1>1 DEF OwnInv, Memory, FreedOnce
  <1>4. AllHeld'
    BY <1>1, SameItems DEF OwnInv, Memory, Using
  <1>5. LeaksKnown'
    BY <1>2 DEF LeaksKnown
  <1> QED
    BY <1>2, <1>3, <1>4, <1>5 DEF Memory

\* Going on frees nothing; giving up, the record and the session.
LEMMA SiblingMemory == ASSUME ReaderInv, OwnInv, nextSibling PROVE Memory'
  <1>1. /\ pc = "sibling" /\ UNCHANGED <<info, turn, badFree>>
        /\ pc' \in {"entry", "unit", "failed"}
        /\ pc' # "failed" => held' = held
        /\ pc' = "failed" => held' = held \ {infoBlock, session}
    BY DEF nextSibling
  <1>2. FreedOnce'
    BY <1>1 DEF OwnInv, Memory, FreedOnce
  <1>3. AllHeld /\ StoredApart
    BY <1>1 DEF OwnInv, Memory, Using
  <1>4. pc' # "failed" => AllHeld'
    BY <1>1, <1>3, SameItems
  <1>5. turn' > 0
    <2>1. turn \in Nat /\ cu \in Nat /\ cu <= turn /\ cu > 0
      <3>1. program \in Programs
        BY DEF ReaderInv, TypeOK
      <3> QED
        BY <1>1, <3>1, ProgramsAssumption DEF ReaderInv, TypeOK
    <2> QED
      BY <1>1, <2>1
  <1>6. /\ InfoBlocks' = InfoBlocks /\ infoBlock' = infoBlock /\ session' = session
    BY <1>1, SameBlocks
  <1>7. InfoBlocks \subseteq held /\ infoBlock \notin InfoBlocks /\ session \notin InfoBlocks
    BY <1>3, BlocksHeld
  <1>8. pc' = "failed" =>
            session \notin held' /\ held' \cap (InfoBlocks \cup {infoBlock}) = InfoBlocks
    BY <1>1, <1>7
  <1>9. LeaksKnown'
    BY <1>1, <1>5, <1>6, <1>8 DEF LeaksKnown
  <1> QED
    BY <1>1, <1>2, <1>4, <1>9 DEF Memory, Using

\* What a DIE allocates is its own.
LEMMA EntryMemory == ASSUME ReaderInv, OwnInv, addEntry PROVE Memory'
  <1>1. /\ pc = "entry" /\ UNCHANGED badFree
        /\ pc' \in {"crashed", "wild", "overrun", "sibling"}
    BY Zenon DEF addEntry, addRead
  <1>2. AllHeld'
    BY <1>1, EntryApart DEF OwnInv, Memory, Using
  <1>3. FreedOnce'
    BY <1>1 DEF OwnInv, Memory, FreedOnce
  <1>4. LeaksKnown'
    BY <1>1 DEF LeaksKnown
  <1> QED
    BY <1>1, <1>2, <1>3, <1>4 DEF Memory

\* Only the session is closed.
LEMMA FinishMemory == ASSUME ReaderInv, OwnInv, finish PROVE Memory'
  <1>1. /\ pc = "unit" /\ pc' = "ready" /\ UNCHANGED <<info, badFree>>
        /\ held' = held \ {session}
    BY DEF finish
  <1>2. FreedOnce'
    BY <1>1 DEF OwnInv, Memory, FreedOnce
  <1>3. \A k \in Kinds : \A i \in DOMAIN Items(k) : session \notin Pointed(k, Items(k)[i])
    BY StringsApart DEF OwnInv, StoredApart
  <1>4. session \notin {infoBlock} \cup {arrayBlock(k) : k \in Kinds}
    BY DEF session, infoBlock, arrayBlock, Kinds
  <1>5. AllHeld
    BY <1>1 DEF OwnInv, Memory, Using
  <1>6. AllHeld'
    <2>1. \A k \in Kinds : Items(k)' = Items(k)
      BY <1>1, SameItems
    <2>2. (\A k \in Kinds : \A i \in DOMAIN Items(k) : Pointed(k, Items(k)[i]) \subseteq held)'
      BY <1>1, <1>3, <1>5, <2>1 DEF AllHeld
    <2>3. ({infoBlock} \cup {arrayBlock(k) : k \in Kinds} \subseteq held)'
      BY <1>1, <1>4, <1>5 DEF AllHeld, infoBlock, arrayBlock
    <2> QED
      BY <2>2, <2>3 DEF AllHeld
  <1>7. LeaksKnown'
    BY <1>1 DEF LeaksKnown, session
  <1> QED
    BY <1>1, <1>2, <1>6, <1>7 DEF Memory

\* Of the entries destroyDebugInfo leaves the names of the locals' types.
LEMMA LeftOver ==
    ASSUME ReaderInv, StoredApart, AllHeld
    PROVE  (held \ ToSet(Frees)) \cap (InfoBlocks \cup {infoBlock}) = TypeNamesOfLocals
  <1> DEFINE pointed == UNION {Pointed(s[1], Items(s[1])[s[2]]) : s \in Stored}
             left == (held \ ToSet(Frees)) \cap (Arrays \cup pointed)
  <1>1. InfoBlocks \cup {infoBlock} = Arrays \cup pointed
    BY DEF Kinds, Arrays, InfoBlocks, InfoArrays
  <1>2. ASSUME NEW x
        PROVE  x \in pointed <=> \E k \in Kinds : \E i \in DOMAIN Items(k) :
                                     x \in Pointed(k, Items(k)[i])
    BY PointedAre
  <1>3. ASSUME NEW x
        PROVE  x \in TypeNamesOfLocals <=> \E i \in DOMAIN Items("func") :
                                               x \in TypeNamesIn(Items("func")[i])
    BY DEF TypeNamesOfLocals, TypeNamesIn, ToSet
  <1>4. ToSet(Frees) = EntriesFreed \cup Arrays
    BY AllFreed
  <1>5. ASSUME NEW x
        PROVE  x \in EntriesFreed <=> \E k \in Kinds : \E i \in DOMAIN Items(k) :
                                          x \in ToSet(FreesOf(k, Items(k)[i]))
    BY DEF EntriesFreed
  <1>6. \A k \in Kinds : \A i \in DOMAIN Items(k) :
            /\ Separate(k, Items(k)[i])
            /\ Pointed(k, Items(k)[i]) \subseteq held
            /\ \A b \in Pointed(k, Items(k)[i]) : b \notin Arrays
    BY StringsApart DEF StoredApart, AllHeld
  <1>7. \A k \in Kinds : \A i \in DOMAIN Items(k) :
            ToSet(FreesOf(k, Items(k)[i])) \subseteq Pointed(k, Items(k)[i])
    BY <1>6 DEF Separate
  <1> HIDE DEF pointed
  <1>8. ASSUME NEW x \in left
        PROVE  x \in TypeNamesOfLocals
    <2>1. x \notin Arrays /\ x \notin EntriesFreed /\ x \in pointed
      BY <1>4, <1>8
    <2>2. PICK k \in Kinds : \E i \in DOMAIN Items(k) : x \in Pointed(k, Items(k)[i])
      BY <1>2, <2>1
    <2>3. PICK i \in DOMAIN Items(k) : x \in Pointed(k, Items(k)[i])
      BY <2>2
    <2>4. x \notin ToSet(FreesOf(k, Items(k)[i]))
      BY <1>5, <2>1
    <2>5. k = "func" /\ x \in TypeNamesIn(Items(k)[i])
      BY <1>6, <2>3, <2>4 DEF Separate
    <2> QED
      BY <1>3, <2>5
  <1>9. ASSUME NEW x \in TypeNamesOfLocals
        PROVE  x \in left
    <2>1. PICK i \in DOMAIN Items("func") : x \in TypeNamesIn(Items("func")[i])
      BY <1>3
    <2> DEFINE item == Items("func")[i]
    <2>2. "func" \in Kinds
      BY DEF Kinds
    <2>3. x \in Pointed("func", item) /\ x \notin ToSet(FreesOf("func", item))
      BY <1>6, <2>1, <2>2 DEF Separate
    <2>4. x \in held /\ x \notin Arrays /\ x \in pointed
      BY <1>2, <1>6, <2>2, <2>3
    <2>5. ASSUME NEW k \in Kinds, NEW j \in DOMAIN Items(k),
                 x \in ToSet(FreesOf(k, Items(k)[j]))
          PROVE  FALSE
      <3>1. x \in Pointed(k, Items(k)[j])
        BY <1>7, <2>5
      <3>2. k = "func" /\ j = i
        BY <2>2, <2>3, <3>1 DEF StoredApart
      <3> QED
        BY <2>3, <2>5, <3>2
    <2>6. x \notin EntriesFreed
      BY <1>5, <2>5
    <2> QED
      BY <1>4, <2>4, <2>6
  <1>10. left = TypeNamesOfLocals
    <2> HIDE DEF left
    <2> QED
      BY <1>8, <1>9
  <1> QED
    BY <1>1, <1>10 DEF left, pointed

\* destroyDebugInfo frees each block once, and leaves what LeftOver says.
LEMMA DestroyMemory == ASSUME ReaderInv, OwnInv, destroyDebugInfo PROVE Memory'
  <1>1. /\ pc = "ready" /\ pc' = "gone" /\ UNCHANGED info
        /\ held' = held \ ToSet(Frees)
    BY DEF destroyDebugInfo
  <1>2. AllHeld /\ StoredApart /\ session \notin held
    BY <1>1 DEF OwnInv, Memory, Using, LeaksKnown
  <1>3. IsInjective(Frees) /\ ToSet(Frees) \subseteq held
    <2>1. \A k \in Kinds : \A i \in DOMAIN Items(k) :
              ToSet(FreesOf(k, Items(k)[i])) \subseteq held
      BY <1>2 DEF StoredApart, Separate, AllHeld
    <2>2. EntriesFreed \subseteq held
      BY <2>1 DEF EntriesFreed
    <2>3. Arrays \subseteq held
      BY <1>2 DEF AllHeld, Arrays, Kinds
    <2> QED
      BY <1>2, <2>2, <2>3, AllFreed
  <1>4. FreedOnce'
    <2>1. badFree' = ~(IsInjective(Frees) /\ ToSet(Frees) \subseteq held \cup {NULL})
      BY DEF destroyDebugInfo
    <2>2. ToSet(Frees) \subseteq held \cup {NULL}
      BY <1>3
    <2> HIDE DEF Frees
    <2> QED
      BY <1>3, <2>1, <2>2, Zenon DEF FreedOnce
  <1>5. LeaksKnown'
    <2>1. (held \ ToSet(Frees)) \cap (InfoBlocks \cup {infoBlock}) = TypeNamesOfLocals
      BY <1>2, LeftOver
    <2>2. /\ InfoBlocks' = InfoBlocks /\ infoBlock' = infoBlock /\ session' = session
          /\ TypeNamesOfLocals' = TypeNamesOfLocals
      BY <1>1, SameBlocks
    <2> QED
      BY <1>1, <1>2, <2>1, <2>2 DEF LeaksKnown
  <1> QED
    BY <1>1, <1>4, <1>5 DEF Memory, Using

\* A stuttering step.
LEMMA SameMemory == ASSUME OwnInv, UNCHANGED vars PROVE Memory'
  <1>1. UNCHANGED <<pc, info, held, lost, turn, badFree>>
    BY DEF vars, reading
  <1>2. \A k \in Kinds : Items(k)' = Items(k)
    BY <1>1, SameItems
  <1>3. AllHeld => AllHeld'
    BY <1>1, SameItems
  <1>4. FreedOnce'
    BY <1>1 DEF OwnInv, Memory, FreedOnce
  <1>5. LeaksKnown'
    <2>1. /\ InfoBlocks' = InfoBlocks /\ InfoArrays' = InfoArrays
          /\ infoBlock' = infoBlock /\ session' = session
          /\ TypeNamesOfLocals' = TypeNamesOfLocals
      BY <1>1, SameBlocks
    <2> QED
      BY <1>1, <2>1 DEF OwnInv, Memory, LeaksKnown
  <1> QED
    BY <1>1, <1>2, <1>3, <1>4, <1>5 DEF OwnInv, Memory, session

\* Only addEntry stores anything.
LEMMA StoredStaysApart ==
    ASSUME ReaderInv, StoredApart, Next \/ UNCHANGED vars
    PROVE  StoredApart'
  <1>1. CASE addEntry
    BY <1>1, EntryApart
  <1>2. CASE ~addEntry
    <2>1. UNCHANGED <<program, info>>
      BY <1>2 DEF Next, createDwarfSession, allocate, nextCU, sameCU, GiveRoot, addCU,
                  nextSibling, finish, destroyDebugInfo, Ended, vars
    <2>2. \A b : WasRead(b) => WasRead(b)'
      BY ReadStays
    <2> QED
      BY <2>1, <2>2, SameStored
  <1> QED
    BY <1>1, <1>2

\* At first nothing is stored and nothing is allocated.
LEMMA OwnInitially == ASSUME Init PROVE OwnInv
  <1>1. \A k \in Kinds : Items(k) = <<>>
    BY DEF Init, Items, NewArray
  <1>2. \A k \in Kinds : DOMAIN Items(k) = {}
    BY <1>1
  <1>3. StoredApart
    BY <1>2 DEF StoredApart
  <1>4. pc = "open" /\ held = {} /\ turn = 0 /\ lost = {} /\ badFree = FALSE
    BY DEF Init
  <1>5. Memory
    BY <1>1, <1>4 DEF Memory, Using, FreedOnce, LeaksKnown
  <1> QED
    BY <1>3, <1>5 DEF OwnInv

\* The invariant of the memory is inductive, relative to the reader's.
LEMMA OwnStep ==
    ASSUME ReaderInv, OwnInv, Next \/ UNCHANGED vars
    PROVE  OwnInv'
  <1>1. StoredApart'
    BY StoredStaysApart DEF OwnInv
  <1>2. Memory'
    <2>1. CASE createDwarfSession
      BY <2>1, OpenMemory
    <2>2. CASE allocate
      BY <2>2, AllocateMemory
    <2>3. CASE nextCU \/ sameCU
      BY <2>3, GiveMemory
    <2>4. CASE nextSibling
      BY <2>4, SiblingMemory
    <2>5. CASE addEntry
      BY <2>5, EntryMemory
    <2>6. CASE finish
      BY <2>6, FinishMemory
    <2>7. CASE destroyDebugInfo
      BY <2>7, DestroyMemory
    <2>8. CASE addCU
      BY <2>8, UnitMemory
    <2>9. CASE Ended \/ UNCHANGED vars
      BY <2>9, SameMemory DEF Ended
    <2> QED
      BY <2>1, <2>2, <2>3, <2>4, <2>5, <2>6, <2>7, <2>8, <2>9 DEF Next
  <1> QED
    BY <1>1, <1>2 DEF OwnInv

\* The invariant of the memory holds.
LEMMA OwnSafe == Spec => []OwnInv
  <1>1. Init => OwnInv
    BY OwnInitially
  <1>2. ReaderInv /\ OwnInv /\ [Next]_vars => OwnInv'
    BY OwnStep
  <1>3. Spec => []ReaderInv
    BY ReaderSafe
  <1> QED
    BY <1>1, <1>2, <1>3, PTL DEF Spec

-----------------------------------------------------------------------------
(* Theorems. *)

\* What getDebugInfo stores is complete: a function has a name, a low pc that is
\* not 0 and a length; every variable, global or local, a name, a place of the
\* right sort and a type, which like every type has a name and a size that is
\* not 0.  This holds whatever allocation or call of libdwarf fails on the way.
THEOREM ReaderTypes == Spec => []TypeOK
  <1>1. ReaderInv => TypeOK
    BY DEF ReaderInv
  <1> QED
    BY <1>1, ReaderSafe, PTL

\* An array of debug_info_t has room for its entries unless that array could
\* not be grown, for any MIN_CAPACITY.
THEOREM ArraysHold == Spec => []ArraysSound
  <1>1. ReaderInv => ArraysSound
    BY DEF ReaderInv
  <1> QED
    BY <1>1, ReaderSafe, PTL

\* The reader crashes only in a unit without a directory or a name, and when the
\* name of a type of the DIE being read could not be made longer; it writes past
\* an array only if that very array could not be grown; and it reads a DIE that
\* was never set only if dwarf_child has failed for this one.
THEOREM UndefinedBehaviour == Spec => []UndefinedKnown
  <1>1. ReaderInv => UndefinedKnown
    BY DEF ReaderInv
  <1> QED
    BY <1>1, ReaderSafe, PTL

\* While the information is in use no entry points at freed memory and no two
\* share a string.
THEOREM StringsOwned == Spec => []EntriesOwnTheirStrings
  <1>1. OwnInv => EntriesOwnTheirStrings
    <2>1. SUFFICES ASSUME OwnInv, pc \in Using
                   PROVE  /\ \A s \in Stored : Pointed(s[1], Items(s[1])[s[2]]) \subseteq held
                          /\ \A s, u \in Stored :
                                 s = u \/ Pointed(s[1], Items(s[1])[s[2]])
                                              \cap Pointed(u[1], Items(u[1])[u[2]]) = {}
      BY DEF EntriesOwnTheirStrings, Using
    <2>2. AllHeld /\ StoredApart
      BY <2>1 DEF OwnInv, Memory
    <2>3. ASSUME NEW s \in Stored
          PROVE  s = <<s[1], s[2]>> /\ s[1] \in Kinds /\ s[2] \in DOMAIN Items(s[1])
      <3>1. PICK k \in Kinds : s \in {<<k, i>> : i \in DOMAIN Items(k)}
        BY <2>3 DEF Stored
      <3>2. PICK i \in DOMAIN Items(k) : s = <<k, i>>
        BY <3>1
      <3> QED
        BY <3>2
    <2>4. ASSUME NEW s \in Stored
          PROVE  Pointed(s[1], Items(s[1])[s[2]]) \subseteq held
      BY <2>2, <2>3 DEF AllHeld
    <2>5. ASSUME NEW s \in Stored, NEW u \in Stored, s # u
          PROVE  Pointed(s[1], Items(s[1])[s[2]])
                     \cap Pointed(u[1], Items(u[1])[u[2]]) = {}
      <3>1. s[1] # u[1] \/ s[2] # u[2]
        BY <2>3, <2>5
      <3> QED
        BY <2>2, <2>3, <3>1 DEF StoredApart
    <2> QED
      BY <2>4, <2>5
  <1> QED
    BY <1>1, OwnSafe, PTL

\* destroyDebugInfo frees live blocks only, each of them once.
THEOREM FreesOnce == Spec => []FreedOnce
  <1>1. OwnInv => FreedOnce
    BY DEF OwnInv, Memory
  <1> QED
    BY <1>1, OwnSafe, PTL

\* Of what is stored, destroyDebugInfo leaves the names of the locals' types.  A
\* getDebugInfo that returns NULL leaves the arrays it could allocate, and when
\* it gives up in mid-file all that it has stored.
THEOREM LeaksAre == Spec => []LeaksKnown
  <1>1. OwnInv => LeaksKnown
    BY DEF OwnInv, Memory
  <1> QED
    BY <1>1, OwnSafe, PTL
==============================================================================
