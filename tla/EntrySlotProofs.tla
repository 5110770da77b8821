--------------------------- MODULE EntrySlotProofs ---------------------------
(***************************************************************************)
(* Proofs about EntrySlot: which printed fields can be stale, for a buffer *)
(* of any size, entries of any number of operands and any length of run.   *)
(***************************************************************************)
EXTENDS EntrySlot, SequenceTheorems, TLAPS

EntryLists == OperandLists \cup {<<"target">>}

\* The fields that are printed without having been saved.
KnownStale == {<<"relative", 3>>, <<"register", 2>>, <<"target", isSrc>>}

-----------------------------------------------------------------------------
\* The inductive invariant: the words that were saved for an entry which
\* waits in the buffer are its own.
OwnWords(s) ==
    \A k \in 1 .. Len(kinds[s]) : \A x \in Saved(kinds[s][k]) :
        words[s][k][x] = owner[s]

SlotsInv ==
    /\ TypeOK
    /\ \A s \in Slots : s < next => OwnWords(s)
    /\ StaleFieldsKnown

-----------------------------------------------------------------------------
\* What an entry can be made of.
LEMMA EntryListShape ==
    ASSUME NEW e \in EntryLists
    PROVE  /\ Len(e) \in 0 .. MaxOperands
           /\ \A k \in 1 .. Len(e) : e[k] \in Kinds \cup {"target"}
  <1>1. CASE e = <<"target">>
    BY <1>1, EntrySlotAssumption
  <1>2. CASE e \in OperandLists
    <2>1. PICK n \in 0 .. MaxOperands : e \in [1 .. n -> Kinds]
      BY <1>2 DEF OperandLists
    <2>2. e \in Seq(Kinds)
      BY <2>1, SeqDef, EntrySlotAssumption
    <2>3. Len(e) = n
      BY <2>1, <2>2, LenProperties, EntrySlotAssumption
    <2> QED
      BY <2>1, <2>3
  <1> QED
    BY <1>1, <1>2 DEF EntryLists

\* Comparing the saving and the printing functions kind by kind.
LEMMA PrintedWords ==
    ASSUME NEW kind \in Kinds \cup {"target"}, NEW x \in writeOpnd(kind)
    PROVE  x \in Saved(kind) \/ <<kind, x>> \in KnownStale
  BY DEF Kinds, Indirect, writeOpnd, writeReg, writeImm, writeMem, writeIndir, writeTarget,
         Saved, saveOpnd, saveReg, saveImm, saveMem, saveIndir, saveDirCall,
         Union, isSrc, KnownStale

\* The words saved for an operand are words of its slot.
LEMMA SavedWords ==
    ASSUME NEW kind \in Kinds \cup {"target"}
    PROVE  Saved(kind) \subseteq Words
  BY DEF Kinds, Indirect, Saved, saveOpnd, saveReg, saveImm, saveMem, saveIndir,
         saveDirCall, Union, isSrc, Words

-----------------------------------------------------------------------------
\* No slot is in use at first.
LEMMA SlotsInitially == Init => SlotsInv
  <1> SUFFICES ASSUME Init
               PROVE  SlotsInv
    OBVIOUS
  <1>1. <<>> \in OperandLists
    <2>1. <<>> \in [1 .. 0 -> Kinds]
      OBVIOUS
    <2>2. 0 \in 0 .. MaxOperands
      BY EntrySlotAssumption
    <2> QED
      BY <2>1, <2>2 DEF OperandLists
  <1>2. TypeOK
    BY <1>1, EntrySlotAssumption DEF Init, TypeOK
  <1>3. \A s \in Slots : ~(s < next)
    BY DEF Init, Slots
  <1> QED
    BY <1>2, <1>3 DEF Init, SlotsInv, StaleFieldsKnown

\* A new entry writes the words of its own operands and of no other slot.
LEMMA SaveStep ==
    ASSUME SlotsInv, NEW e \in EntryLists, SaveEntry(e)
    PROVE  SlotsInv'
  <1>1. /\ next \in Slots /\ next' = next + 1
        /\ count \in 0 .. MaxInstr /\ count' = count + 1 /\ count' \in 0 .. MaxInstr
        /\ kinds' = [kinds EXCEPT ![next] = e]
        /\ owner' = [owner EXCEPT ![next] = count']
    BY EntrySlotAssumption DEF SaveEntry, addPointer, SlotsInv, TypeOK, Slots
  <1> DEFINE operand(k) == [x \in Words |-> IF k <= Len(e) /\ x \in Saved(e[k])
                                           THEN count'
                                           ELSE words[next][k][x]]
  <1>2. words' = [words EXCEPT ![next] = [k \in 1 .. MaxOperands |-> operand(k)]]
    BY <1>1 DEF SaveEntry, SlotsInv, TypeOK
  <1>3. TypeOK'
    <2>1. words' \in [Slots -> [1 .. MaxOperands -> [Words -> 0 .. MaxInstr]]]
      <3>1. \A k \in 1 .. MaxOperands : operand(k) \in [Words -> 0 .. MaxInstr]
        <4>1. SUFFICES ASSUME NEW k \in 1 .. MaxOperands
                       PROVE  operand(k) \in [Words -> 0 .. MaxInstr]
          OBVIOUS
        <4>2. words[next][k] \in [Words -> 0 .. MaxInstr]
          BY <1>1 DEF SlotsInv, TypeOK
        <4> QED
          BY <1>1, <4>2
      <3> HIDE DEF operand
      <3> QED
        BY <1>1, <1>2, <3>1 DEF SlotsInv, TypeOK
    <2>2. kinds' \in [Slots -> OperandLists \cup {<<"target">>}]
      BY <1>1 DEF SlotsInv, TypeOK, EntryLists
    <2> QED
      BY <1>1, <2>1, <2>2, EntrySlotAssumption DEF SlotsInv, TypeOK, Slots
  <1>4. ASSUME NEW s \in Slots, s < next'
        PROVE  OwnWords(s)'
    <2>1. CASE s = next
      <3>1. kinds'[s] = e /\ owner'[s] = count'
        BY <1>1, <2>1 DEF SlotsInv, TypeOK
      <3>2. ASSUME NEW k \in 1 .. Len(e), NEW x \in Saved(e[k])
            PROVE  words'[s][k][x] = count'
        <4>1. k \in 1 .. MaxOperands /\ e[k] \in Kinds \cup {"target"}
          BY EntryListShape, EntrySlotAssumption
        <4>2. x \in Words
          BY <4>1, SavedWords
        <4>3. words'[s][k] = operand(k)
          <5> HIDE DEF operand
          <5> QED
            BY <1>1, <1>2, <2>1, <4>1 DEF SlotsInv, TypeOK
        <4>4. k <= Len(e)
          BY EntryListShape
        <4> QED
          BY <3>2, <4>1, <4>2, <4>3, <4>4
      <3> QED
        BY <3>1, <3>2 DEF OwnWords
    <2>2. CASE s # next
      <3>1. /\ kinds'[s] = kinds[s] /\ owner'[s] = owner[s] /\ words'[s] = words[s]
            /\ s < next
        BY <1>1, <1>2, <1>4, <2>2 DEF SlotsInv, TypeOK, Slots
      <3> QED
        BY <3>1 DEF OwnWords, SlotsInv
    <2> QED
      BY <2>1, <2>2
  <1>5. StaleFieldsKnown'
    BY DEF SaveEntry, SlotsInv, StaleFieldsKnown, Stale
  <1> QED
    BY <1>3, <1>4, <1>5 DEF SlotsInv

\* A flush prints waiting entries only.
LEMMA OutputStep ==
    ASSUME SlotsInv, outputInstr
    PROVE  SlotsInv'
  <1>1. TypeOK'
    BY EntrySlotAssumption DEF outputInstr, SlotsInv, TypeOK
  <1>2. \A s \in Slots : ~(s < next')
    BY DEF outputInstr, Slots
  <1>3. StaleFieldsKnown'
    <2>1. SUFFICES ASSUME NEW p \in printed', p.by # p.of
                   PROVE  <<p.kind, p.word>> \in KnownStale
      BY DEF StaleFieldsKnown, Stale, KnownStale
    <2>2. PICK s \in 0 .. next - 1 : p \in writeTraceEntry(s)
      BY <2>1 DEF outputInstr
    <2>3. PICK k \in 1 .. Len(kinds[s]) : \E x \in writeOpnd(kinds[s][k]) :
              p = [of |-> owner[s], kind |-> kinds[s][k], word |-> x,
                   by |-> words[s][k][x]]
      BY <2>2 DEF writeTraceEntry
    <2>4. PICK x \in writeOpnd(kinds[s][k]) :
              p = [of |-> owner[s], kind |-> kinds[s][k], word |-> x,
                   by |-> words[s][k][x]]
      BY <2>3
    <2>5. s \in Slots /\ s < next
      BY EntrySlotAssumption DEF SlotsInv, TypeOK, Slots
    <2>6. kinds[s][k] \in Kinds \cup {"target"}
      <3>1. kinds[s] \in EntryLists
        BY <2>5 DEF SlotsInv, TypeOK, EntryLists
      <3> QED
        BY <3>1, EntryListShape
    <2>7. x \notin Saved(kinds[s][k])
      BY <2>1, <2>4, <2>5, <2>6 DEF SlotsInv, OwnWords
    <2> QED
      BY <2>4, <2>6, <2>7, PrintedWords
  <1> QED
    BY <1>1, <1>2, <1>3 DEF SlotsInv

\* The target of a call is saved in the slot of its instruction.
LEMMA TargetStep == ASSUME SlotsInv, saveCall PROVE SlotsInv'
  <1>1. <<"target">> \in EntryLists
    BY DEF EntryLists
  <1> QED
    BY <1>1, SaveStep DEF saveCall

\* The inductive invariant holds, whatever slots and operands follow.
THEOREM OwnWordsSaved == Spec => []SlotsInv
  <1>1. ASSUME SlotsInv, [Next]_vars
        PROVE  SlotsInv'
    <2>1. CASE saveOperands
      BY <1>1, <2>1, SaveStep DEF saveOperands, EntryLists
    <2>2. CASE saveCall
      BY <1>1, <2>2, TargetStep
    <2>3. CASE outputInstr
      BY <1>1, <2>3, OutputStep
    <2>4. CASE UNCHANGED vars
      BY <1>1, <2>4
      DEF vars, SlotsInv, TypeOK, OwnWords, StaleFieldsKnown, Stale
    <2> QED
      BY <1>1, <2>1, <2>2, <2>3, <2>4 DEF Next, Idle
  <1> QED
    BY SlotsInitially, <1>1, PTL DEF Spec

\* The types of the buffer and of everything in it.
THEOREM SlotTypes == Spec => []TypeOK
  <1>1. SlotsInv => TypeOK
    BY DEF SlotsInv
  <1> QED
    BY <1>1, OwnWordsSaved, PTL

\* Only the value of a PC-relative operand, the value of a register that is
\* not general purpose and the source flag of a call target can be left over
\* from an earlier instruction.
THEOREM StaleFields == Spec => []StaleFieldsKnown
  <1>1. SlotsInv => StaleFieldsKnown
    BY DEF SlotsInv
  <1> QED
    BY <1>1, OwnWordsSaved, PTL
=============================================================================
