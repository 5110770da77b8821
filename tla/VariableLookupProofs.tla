------------------------ MODULE VariableLookupProofs ------------------------
(***************************************************************************)
(* Proofs about VariableLookup for any widths of pointers and integers,    *)
(* any debugging information and any address: where C's comparisons of     *)
(* wrapped and cut numbers say the same as those of the numbers themselves.*)
(***************************************************************************)
EXTENDS VariableLookup, Induction

\* What the arguments and the result of a call are.
LookupInv ==
    /\ info \in Infos
    /\ varAddr \in Addresses
    /\ pc \in PCs
    /\ sp \in SPs
    /\ answer = getVariableInfo(info, varAddr, pc, sp)

\* Each call leaves a call and its result.
LEMMA CallsInv == Spec => []LookupInv
  <1>1. Init => LookupInv
    BY VariableLookupAssumption DEF Init, LookupInv, Addresses
  <1>2. LookupInv /\ [Next]_vars => LookupInv'
    BY DEF LookupInv, Next, Lookup, vars
  <1> QED
    BY <1>1, <1>2, PTL DEF Spec

-----------------------------------------------------------------------------
(* C's arithmetic. *)

\* An int has as many negative values as others.
LEMMA Halves ==
    /\ IntRange \in Nat \ {0} /\ PtrRange \in Nat \ {0}
    /\ IntRange \div 2 \in Nat
    /\ IntRange = 2 * (IntRange \div 2)
    /\ IntRange <= PtrRange
  <1>1. /\ IntRange \in Nat \ {0} /\ IntRange % 2 = 0
        /\ PtrRange \in Nat \ {0} /\ PtrRange % IntRange = 0
    BY VariableLookupAssumption
  <1>2. IntRange \div 2 \in Nat /\ IntRange = 2 * (IntRange \div 2)
    BY <1>1
  <1>3. IntRange <= PtrRange
    BY <1>1
  <1> QED
    BY <1>1, <1>2, <1>3

\* What wrapping around does to a number that is not far out of range.
LEMMA Wraps ==
    ASSUME NEW m \in Nat \ {0}
    PROVE  /\ \A n \in 0 .. m - 1 : n % m = n
           /\ \A n \in Int : -m <= n /\ n < 0 => n % m = n + m
  OBVIOUS

\* Of an address and a range in the module, wrapping tells the same as the
\* distance from the segment base.
LEMMA ModuleExact ==
    ASSUME NEW at \in Addresses, NEW start, NEW length, InModule(start, length)
    PROVE  (/\ Pointer(at - segmBase) >= start
            /\ Pointer(at - segmBase) < Pointer(start + length))
           <=> at - segmBase \in start .. start + length - 1
  <1>1. /\ PtrRange \in Nat \ {0} /\ segmBase \in 0 .. PtrRange - 1
        /\ at \in 0 .. PtrRange - 1 /\ start \in Nat /\ length \in Nat
        /\ segmBase + start + length < PtrRange
    BY VariableLookupAssumption DEF Addresses, InModule, UnsignedInts
  <1>2. Pointer(start + length) = start + length
    <2>1. start + length \in 0 .. PtrRange - 1
      BY <1>1
    <2> QED
      BY <1>1, <2>1, Wraps DEF Pointer
  <1>3. CASE at >= segmBase
    <2>1. at - segmBase \in 0 .. PtrRange - 1
      BY <1>1, <1>3
    <2>2. Pointer(at - segmBase) = at - segmBase
      BY <1>1, <2>1, Wraps DEF Pointer
    <2> QED
      BY <1>1, <1>2, <2>2
  <1>4. CASE at < segmBase
    <2>1. at - segmBase \in Int /\ -PtrRange <= at - segmBase /\ at - segmBase < 0
      BY <1>1, <1>4
    <2>2. Pointer(at - segmBase) = at - segmBase + PtrRange
      BY <1>1, <2>1, Wraps DEF Pointer
    <2> QED
      BY <1>1, <1>2, <1>4, <2>2
  <1> QED
    BY <1>1, <1>3, <1>4

\* A distance below the frame base that an int can say is cut to itself.
LEMMA DistanceKept ==
    ASSUME NEW d \in MinInt .. -1
    PROVE  Signed(Pointer(d)) = d
  <1> DEFINE half == IntRange \div 2
  <1>1. /\ half \in Nat /\ IntRange = 2 * half /\ IntRange \in Nat \ {0}
        /\ PtrRange \in Nat \ {0} /\ IntRange <= PtrRange
        /\ d \in Int /\ -half <= d /\ d < 0
    BY Halves DEF MinInt
  <1> HIDE DEF half
  <1>2. Pointer(d) = d + PtrRange
    <2>1. -PtrRange <= d
      BY <1>1
    <2> QED
      BY <1>1, <2>1, Wraps DEF Pointer
  <1>3. Unsigned(d + PtrRange) = d + IntRange
    <2>1. \A m \in Nat \ {0}, n \in Nat \ {0} :
              n % m = 0 => \E h \in Nat : n = h * m
      OBVIOUS
    <2>2. PICK h \in Nat : PtrRange = h * IntRange
      BY <1>1, <2>1, VariableLookupAssumption
    <2>3. d + PtrRange = (h - 1) * IntRange + (d + IntRange)
      BY <1>1, <2>2
    <2>4. h - 1 \in Int /\ d + IntRange \in 0 .. IntRange - 1
      BY <1>1
    <2>5. \A m \in Nat \ {0} : \A q \in Int, r \in 0 .. m - 1 : (q * m + r) % m = r
      OBVIOUS
    <2> QED
      BY <1>1, <2>3, <2>4, <2>5 DEF Unsigned
  <1>4. ~(d + IntRange <= MaxInt)
    BY <1>1 DEF MaxInt, half
  <1> QED
    BY <1>1, <1>2, <1>3, <1>4 DEF Signed

\* Below the frame base the unsigned comparison is right about a local, since
\* both of its sides are negative numbers wrapped around.
LEMMA LocalExact ==
    ASSUME NEW d \in MinInt .. -1, NEW v, InFrame(v)
    PROVE  HoldsLocal(v, d) <=> d \in v.offset .. v.offset + v.size - 1
  <1> DEFINE half == IntRange \div 2
             o == v.offset
             s == v.size
  <1>1. /\ half \in Nat /\ IntRange = 2 * half /\ IntRange \in Nat \ {0}
        /\ d \in Int /\ -half <= d /\ d < 0
        /\ o \in Int /\ -half <= o /\ s \in Nat
        /\ o >= 0 \/ o + s < 0
    BY Halves DEF MinInt, MaxInt, InFrame, UnsignedInts
  <1> HIDE DEF half
  <1>2. CASE o >= 0
    BY <1>1, <1>2 DEF HoldsLocal
  <1>3. CASE o + s < 0
    <2>1. /\ o + s \in Int /\ -IntRange <= o + s
          /\ -IntRange <= d
      BY <1>1
    <2>2. Unsigned(d) = d + IntRange
      BY <1>1, <2>1, Wraps DEF Unsigned
    <2>3. Unsigned(o + s) = o + s + IntRange
      BY <1>1, <1>3, <2>1, Wraps DEF Unsigned
    <2> QED
      BY <1>1, <2>2, <2>3 DEF HoldsLocal
  <1> QED
    BY <1>1, <1>2, <1>3

-----------------------------------------------------------------------------
(* The loops. *)

\* A loop that finds a match finds one of the matches.
LEMMA FirstFound ==
    ASSUME NEW S \in SUBSET Nat, S # {}
    PROVE  First(S) \in S
  BY LeastExists DEF First

\* The result of a call is one of the variables that the comparisons accept,
\* a local one if there is any.
LEMMA AnswerFound ==
    ASSUME LookupInv
    PROVE  LET d == Signed(Pointer(varAddr - sp))
               Holds(k, j) == /\ k \in 1 .. Len(info.funcs)
                              /\ j \in 1 .. Len(info.funcs[k].vars)
                              /\ InFunction(info.funcs[k], Pointer(pc - segmBase))
                              /\ HoldsLocal(info.funcs[k].vars[j], d)
               Static(j) == /\ j \in 1 .. Len(info.vars)
                            /\ HoldsStatic(info.vars[j], Pointer(varAddr - segmBase))
           IN  \/ \E k, j : /\ Holds(k, j)
                            /\ answer = [name |-> info.funcs[k].vars[j].name,
                                          isLocal |-> TRUE]
               \/ /\ \A k, j : ~Holds(k, j)
                  /\ \/ \E j : /\ Static(j)
                               /\ answer = [name |-> info.vars[j].name,
                                             isLocal |-> FALSE]
                     \/ answer = NoVariable /\ \A j : ~Static(j)
  <1> DEFINE d == Signed(Pointer(varAddr - sp))
             at == Pointer(pc - segmBase)
             holders == Holders(info, at, d)
             statics == {j \in 1 .. Len(info.vars) :
                            HoldsStatic(info.vars[j], Pointer(varAddr - segmBase))}
             k == First(holders)
             f == info.funcs[k]
             j == First(Held(f, d))
  <1>1. answer = CASE holders # {} -> [name |-> f.vars[j].name, isLocal |-> TRUE]
                   [] holders = {} /\ statics # {} ->
                          [name |-> info.vars[First(statics)].name, isLocal |-> FALSE]
                   [] OTHER -> NoVariable
    BY DEF LookupInv, getVariableInfo
  <1>2. info \in Infos
    BY DEF LookupInv
  <1>3. /\ holders \in SUBSET Nat /\ statics \in SUBSET Nat
        /\ \A x : Held(x, d) \in SUBSET Nat
    <2>1. \A n : 1 .. n \subseteq Nat
      OBVIOUS
    <2> QED
      BY <2>1 DEF Holders, Held
  <1>4. CASE holders # {}
    <2>1. k \in holders
      BY <1>3, <1>4, FirstFound
    <2>2. Held(f, d) # {}
      BY <2>1 DEF Holders
    <2>3. j \in Held(f, d)
      BY <1>3, <2>2, FirstFound
    <2>4. answer = [name |-> f.vars[j].name, isLocal |-> TRUE]
      BY <1>1, <1>4
    <2> QED
      BY <2>1, <2>3, <2>4 DEF Holders, Held
  <1>5. CASE holders = {}
    <2>1. \A n, m : ~(/\ n \in 1 .. Len(info.funcs)
                     /\ m \in 1 .. Len(info.funcs[n].vars)
                     /\ InFunction(info.funcs[n], at)
                     /\ HoldsLocal(info.funcs[n].vars[m], d))
      BY <1>5 DEF Holders, Held
    <2>2. CASE statics # {}
      <3>1. First(statics) \in statics
        BY <1>3, <2>2, FirstFound
      <3>2. answer = [name |-> info.vars[First(statics)].name, isLocal |-> FALSE]
        BY <1>1, <1>5, <2>2
      <3> QED
        BY <2>1, <3>1, <3>2
    <2>3. CASE statics = {}
      <3>1. answer = NoVariable
        BY <1>1, <1>5, <2>3
      <3> QED
        BY <2>1, <2>3, <3>1
    <2> QED
      BY <2>2, <2>3
  <1> QED
    BY <1>4, <1>5

-----------------------------------------------------------------------------
(* The properties. *)

\* A call is exact if the comparison is right about every local of the
\* functions around pc: those about pc and about static variables always are.
LEMMA ExactIfLocalsAre ==
    ASSUME LookupInv,
           \A k \in 1 .. Len(info.funcs) :
               pc - segmBase \in info.funcs[k].lowPC
                                 .. info.funcs[k].lowPC + info.funcs[k].length - 1
               => \A j \in 1 .. Len(info.funcs[k].vars) :
                      LET v == info.funcs[k].vars[j]
                      IN  HoldsLocal(v, Signed(Pointer(varAddr - sp)))
                          <=> varAddr - sp \in v.offset .. v.offset + v.size - 1
    PROVE  Exact
  <1> DEFINE d == Signed(Pointer(varAddr - sp))
             Around(k) == pc - segmBase \in info.funcs[k].lowPC
                              .. info.funcs[k].lowPC + info.funcs[k].length - 1
             At(v) == varAddr - sp \in v.offset .. v.offset + v.size - 1
             StaticAt(v) == varAddr - segmBase \in v.addr .. v.addr + v.size - 1
             Local(k, j) == [name |-> info.funcs[k].vars[j].name, isLocal |-> TRUE]
             Static(j) == [name |-> info.vars[j].name, isLocal |-> FALSE]
             IsLocal(k, j) == /\ k \in 1 .. Len(info.funcs)
                              /\ j \in 1 .. Len(info.funcs[k].vars)
                              /\ Around(k) /\ At(info.funcs[k].vars[j])
             IsStatic(j) == j \in 1 .. Len(info.vars) /\ StaticAt(info.vars[j])
  <1>1. info \in Infos /\ pc \in Addresses /\ varAddr \in Addresses
    BY VariableLookupAssumption DEF LookupInv
  <1>2. \A k \in 1 .. Len(info.funcs) :
            InFunction(info.funcs[k], Pointer(pc - segmBase)) <=> Around(k)
    <2>1. TAKE k \in 1 .. Len(info.funcs)
    <2>2. InModule(info.funcs[k].lowPC, info.funcs[k].length)
      BY <1>1, InfosAssumption
    <2> QED
      BY <1>1, <2>2, ModuleExact DEF InFunction
  <1>3. \A j \in 1 .. Len(info.vars) :
            HoldsStatic(info.vars[j], Pointer(varAddr - segmBase))
            <=> StaticAt(info.vars[j])
    <2>1. TAKE j \in 1 .. Len(info.vars)
    <2>2. InModule(info.vars[j].addr, info.vars[j].size)
      BY <1>1, InfosAssumption
    <2> QED
      BY <1>1, <2>2, ModuleExact DEF HoldsStatic
  <1>4. \A k \in 1 .. Len(info.funcs) : Around(k) =>
            \A j \in 1 .. Len(info.funcs[k].vars) :
                HoldsLocal(info.funcs[k].vars[j], d) <=> At(info.funcs[k].vars[j])
    OBVIOUS
  <1>5. \/ \E k, j : IsLocal(k, j) /\ answer = Local(k, j)
        \/ /\ \A k, j : ~IsLocal(k, j)
           /\ \/ \E j : IsStatic(j) /\ answer = Static(j)
              \/ answer = NoVariable /\ \A j : ~IsStatic(j)
    <2> HIDE DEF Around, At, StaticAt, d, Local, Static
    <2> QED
      BY <1>2, <1>3, <1>4, AnswerFound DEF d, Local, Static
  <1>6. \A e : e \in LocalsAt <=> \E k, j : IsLocal(k, j) /\ e = Local(k, j)
    <2> DEFINE around == {x \in {info.funcs[k] : k \in 1 .. Len(info.funcs)} :
                             pc - segmBase \in x.lowPC .. x.lowPC + x.length - 1}
               inFrame(f) == {x \in {f.vars[k] : k \in 1 .. Len(f.vars)} : At(x)}
    <2>1. \A f : f \in around <=>
              \E k \in 1 .. Len(info.funcs) : f = info.funcs[k] /\ Around(k)
      BY Zenon
    <2>2. \A f, v : v \in inFrame(f) <=>
              \E j \in 1 .. Len(f.vars) : v = f.vars[j] /\ At(v)
      <3> HIDE DEF At
      <3> QED
        BY Zenon
    <2> DEFINE Entry(v) == [name |-> v.name, isLocal |-> TRUE]
               entries(f) == {Entry(v) : v \in inFrame(f)}
    <2>3. LocalsAt = UNION {entries(f) : f \in around}
      BY Zenon DEF LocalsAt
    <2> HIDE DEF around, inFrame, Entry
    <2>4. \A e, f : e \in entries(f) <=> \E v \in inFrame(f) : e = Entry(v)
      BY Zenon
    <2> HIDE DEF entries
    <2>5. \A e : e \in LocalsAt <=> \E f \in around : e \in entries(f)
      BY <2>3, Zenon
    <2>6. \A e : e \in LocalsAt <=>
              \E k \in 1 .. Len(info.funcs) :
                  \E j \in 1 .. Len(info.funcs[k].vars) :
                      /\ Around(k) /\ At(info.funcs[k].vars[j])
                      /\ e = Entry(info.funcs[k].vars[j])
      <3> HIDE DEF At, Around
      <3>1. TAKE e
      <3> DEFINE Of(f) == \E j \in 1 .. Len(f.vars) : At(f.vars[j]) /\ e = Entry(f.vars[j])
      <3>2. \A f : e \in entries(f) <=> Of(f)
        <4>1. ASSUME NEW f, e \in entries(f)
              PROVE  Of(f)
          <5>1. PICK v \in inFrame(f) : e = Entry(v)
            BY <2>4, <4>1, Zenon
          <5>2. PICK j \in 1 .. Len(f.vars) : v = f.vars[j] /\ At(v)
            BY <2>2, <5>1, Zenon
          <5> QED
            BY <5>1, <5>2, Zenon
        <4>2. ASSUME NEW f, Of(f)
              PROVE  e \in entries(f)
          <5>1. PICK j \in 1 .. Len(f.vars) : At(f.vars[j]) /\ e = Entry(f.vars[j])
            BY <4>2, Zenon
          <5>2. f.vars[j] \in inFrame(f)
            BY <2>2, <5>1, Zenon
          <5> QED
            BY <2>4, <5>1, <5>2, Zenon
        <4> QED
          BY <4>1, <4>2, Zenon
      <3> HIDE DEF Of
      <3>3. e \in LocalsAt <=> \E k \in 1 .. Len(info.funcs) :
                                   Around(k) /\ Of(info.funcs[k])
        BY <2>1, <2>5, <3>2, Zenon
      <3> QED
        BY <3>3, Zenon DEF Of
    <2> HIDE DEF At, Around
    <2> QED
      BY <2>6, Zenon DEF Entry
  <1>7. \A e : e \in StaticsAt <=> \E j : IsStatic(j) /\ e = Static(j)
    BY DEF StaticsAt
  <1> HIDE DEF IsLocal, IsStatic, Local, Static
  <1> QED
    BY <1>5, <1>6, <1>7 DEF Exact

\* Whatever the widths, the debugging information and the address: below the
\* frame base, where the locals are, getVariableInfo finds the variable that
\* is there, although it compares unsigned numbers.
THEOREM ExactBelow == Spec => []ExactBelowBase
  <1>1. LookupInv => ExactBelowBase
    <2>1. SUFFICES ASSUME LookupInv, varAddr - sp \in MinInt .. -1
                   PROVE  Exact
      BY DEF ExactBelowBase
    <2>2. Signed(Pointer(varAddr - sp)) = varAddr - sp
      BY <2>1, DistanceKept
    <2>3. ASSUME NEW k \in 1 .. Len(info.funcs),
                 NEW j \in 1 .. Len(info.funcs[k].vars)
          PROVE  LET v == info.funcs[k].vars[j]
                 IN  HoldsLocal(v, varAddr - sp)
                     <=> varAddr - sp \in v.offset .. v.offset + v.size - 1
      <3>1. InFrame(info.funcs[k].vars[j])
        BY <2>1, InfosAssumption DEF LookupInv
      <3> QED
        BY <2>1, <3>1, LocalExact
    <2> QED
      BY <2>1, <2>2, <2>3, ExactIfLocalsAre
  <1> QED
    BY <1>1, CallsInv, PTL

\* Where pc is in no function with variables, getVariableInfo finds the
\* static variable at the address or none, however far away it is.
THEOREM ExactOutside == Spec => []ExactOutsideFunctions
  <1>1. LookupInv => ExactOutsideFunctions
    <2>1. SUFFICES ASSUME LookupInv,
                          \A k \in 1 .. Len(info.funcs) :
                              pc - segmBase \in info.funcs[k].lowPC
                                  .. info.funcs[k].lowPC + info.funcs[k].length - 1
                              => info.funcs[k].vars = <<>>
                   PROVE  Exact
      BY DEF ExactOutsideFunctions
    <2>2. \A k \in 1 .. Len(info.funcs) :
              info.funcs[k].vars = <<>> => 1 .. Len(info.funcs[k].vars) = {}
      OBVIOUS
    <2> QED
      BY <2>1, <2>2, ExactIfLocalsAre
  <1> QED
    BY <1>1, CallsInv, PTL
=============================================================================
