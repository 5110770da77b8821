---------------------------- MODULE TracerProofs ----------------------------
(***************************************************************************)
(* Proofs about Tracer and TracerModules for any number of threads, any    *)
(* buffer size and programs of any length.                                 *)
(***************************************************************************)
EXTENDS TracerModules, FiniteSetTheorems, SequenceTheorems, TLAPS

\* A step is the step of one thread, or one that only the process takes.
LEMMA StepCases ==
    ASSUME [Next]_vars
    PROVE  \/ \E t \in Threads :
                  \/ eventThreadInit(t)
                  \/ \E n \in 1 .. MaxBlock, kind \in Kinds :
                         FirstInstr(t, n, kind)
                  \/ \E kind \in Kinds : LaterInstr(t, kind)
                  \/ dr_mutex_lock(t) \/ WriteOwn(t) \/ WriteHeader(t)
                  \/ WriteEntry(t) \/ dr_mutex_unlock(t) \/ ResetPointer(t)
                  \/ eventThreadExit(t) \/ StopWaiting(t) \/ CloseTrace(t)
                  \/ ExitGroup(t)
           \/ eventExit
           \/ UNCHANGED vars
  BY DEF Next, Application, Client, outputInstr, Terminated

-----------------------------------------------------------------------------
\* The types and the control of a flush are proved together: an entry is
\* saved inside the buffer only because of Room.
SafeInv == TypeOK /\ FlushInv

\* Nothing is recorded, and nobody holds the mutex, at the start.
LEMMA SafeInit == Init => SafeInv
  BY TracerAssumption
  DEF Init, SafeInv, TypeOK, FlushInv, Exclusion, HeaderOwner, Room,
      FlushWindow, Index, Labels, Empty

\* The loop of outputInstr reads only entries inside the buffer.
LEMMA SavedType ==
    ASSUME SafeInv, NEW t \in Threads,
           \/ pc[t] = "write" /\ curr[t] < bufEnd[t]
           \/ pc[t] \in {"header", "entry"}
    PROVE  /\ curr[t] \in Index
           /\ slots[t][curr[t]] \in Nat
  <1>1. curr[t] \in Index
    BY TracerAssumption
    DEF SafeInv, FlushInv, TypeOK, Room, FlushWindow, Index
  <1> QED
    BY <1>1 DEF SafeInv, TypeOK

\* Saving an entry keeps the types of what it changes.
LEMMA SaveType ==
    ASSUME TypeOK, NEW t \in Threads, NEW kind, insertInstrumentation(t, kind)
    PROVE  /\ slots' \in [Threads -> [Index -> Nat]]
           /\ tlsPtr' \in [Threads -> Nat]
           /\ recorded' \in [Threads -> Seq(Nat)]
           /\ executed' \in [Threads -> Nat]
  <1>1. /\ slots \in [Threads -> [Index -> Nat]]
        /\ tlsPtr \in [Threads -> Nat]
        /\ recorded \in [Threads -> Seq(Nat)]
        /\ executed \in [Threads -> Nat]
    BY DEF TypeOK
  <1>2. executed' \in [Threads -> Nat]
    BY <1>1 DEF insertInstrumentation
  <1>3. CASE SaveEntry(t)
    <2>1. executed[t] + 1 \in Nat /\ tlsPtr[t] + 1 \in Nat
      BY <1>1
    <2>2. slots' \in [Threads -> [Index -> Nat]]
      BY <1>1, <1>3, <2>1 DEF SaveEntry
    <2>3. tlsPtr' \in [Threads -> Nat]
      BY <1>1, <1>3, <2>1 DEF SaveEntry
    <2>4. recorded' \in [Threads -> Seq(Nat)]
      BY <1>1, <1>3, <2>1 DEF SaveEntry
    <2> QED
      BY <1>2, <2>2, <2>3, <2>4
  <1>4. CASE UNCHANGED bufferVars
    BY <1>1, <1>2, <1>4 DEF bufferVars
  <1> QED
    BY <1>3, <1>4 DEF insertInstrumentation

\* Every step keeps the types.
LEMMA TypeStep ==
    ASSUME SafeInv, [Next]_vars
    PROVE  TypeOK'
  <1>0. TypeOK
    BY DEF SafeInv
  <1> USE <1>0, TracerAssumption DEF Labels, bufferVars, logVars
  <1>1. ASSUME NEW t \in Threads, eventThreadInit(t)
        PROVE  TypeOK'
    BY <1>1 DEF TypeOK, eventThreadInit
  <1>2. ASSUME NEW t \in Threads, NEW n \in 1 .. MaxBlock, NEW kind \in Kinds,
               FirstInstr(t, n, kind)
        PROVE  TypeOK'
    <2>1. /\ slots' \in [Threads -> [Index -> Nat]]
          /\ tlsPtr' \in [Threads -> Nat]
          /\ recorded' \in [Threads -> Seq(Nat)]
          /\ executed' \in [Threads -> Nat]
      BY <1>2, SaveType DEF FirstInstr
    <2>2. left' \in [Threads -> Nat] /\ bufEnd' \in [Threads -> Nat]
      <3>1. left \in [Threads -> Nat] /\ bufEnd \in [Threads -> Nat]
        BY DEF TypeOK
      <3> QED
        BY <1>2, <2>1, <3>1 DEF FirstInstr
    <2> QED
      BY <1>2, <2>1, <2>2 DEF TypeOK, FirstInstr
  <1>3. ASSUME NEW t \in Threads, NEW kind \in Kinds, LaterInstr(t, kind)
        PROVE  TypeOK'
    <2>1. /\ slots' \in [Threads -> [Index -> Nat]]
          /\ tlsPtr' \in [Threads -> Nat]
          /\ recorded' \in [Threads -> Seq(Nat)]
          /\ executed' \in [Threads -> Nat]
      BY <1>3, SaveType DEF LaterInstr
    <2>2. left' \in [Threads -> Nat]
      <3>1. left \in [Threads -> Nat]
        BY DEF TypeOK
      <3> QED
        BY <1>3, <2>1, <3>1 DEF LaterInstr
    <2> QED
      BY <1>3, <2>1, <2>2 DEF TypeOK, LaterInstr
  <1>4. ASSUME NEW t \in Threads, dr_mutex_lock(t)
        PROVE  TypeOK'
    BY <1>4 DEF TypeOK, dr_mutex_lock
  <1>5. ASSUME NEW t \in Threads, WriteOwn(t)
        PROVE  TypeOK'
    <2>1. file' \in [Threads -> Seq(Nat)]
      <3>1. slots[t][curr[t]] \in Nat
        BY <1>5, SavedType DEF WriteOwn, MoreEntries
      <3>2. file \in [Threads -> Seq(Nat)]
        BY DEF TypeOK
      <3> QED
        BY <1>5, <3>1, <3>2 DEF WriteOwn
    <2> QED
      BY <1>5, <2>1 DEF TypeOK, WriteOwn
  <1>6. ASSUME NEW t \in Threads, WriteHeader(t)
        PROVE  TypeOK'
    BY <1>6 DEF TypeOK, WriteHeader
  <1>7. ASSUME NEW t \in Threads, WriteEntry(t)
        PROVE  TypeOK'
    <2> DEFINE Tagged == [tid : Threads \cup {NoThread}, entry : Nat]
    <2>1. interleaved' \in Seq(Tagged)
      <3>1. slots[t][curr[t]] \in Nat
        BY <1>7, SavedType DEF WriteEntry
      <3>2. interleaved \in Seq(Tagged) /\ header \in Threads \cup {NoThread}
        BY DEF TypeOK
      <3>3. [tid |-> header, entry |-> slots[t][curr[t]]] \in Tagged
        BY <3>1, <3>2
      <3> HIDE DEF Tagged
      <3> QED
        BY <1>7, <3>2, <3>3 DEF WriteEntry
    <2>2. curr' \in [Threads -> Nat]
      <3>1. curr \in [Threads -> Nat]
        BY DEF TypeOK
      <3> QED
        BY <1>7, <3>1 DEF WriteEntry
    <2> QED
      BY <1>7, <2>1, <2>2 DEF TypeOK, WriteEntry
  <1>8. ASSUME NEW t \in Threads, dr_mutex_unlock(t)
        PROVE  TypeOK'
    BY <1>8 DEF TypeOK, dr_mutex_unlock, ReleaseMutex
  <1>9. ASSUME NEW t \in Threads, ResetPointer(t)
        PROVE  TypeOK'
    BY <1>9 DEF TypeOK, ResetPointer, Rewind
  <1>10. ASSUME NEW t \in Threads,
                eventThreadExit(t) \/ StopWaiting(t) \/ CloseTrace(t) \/ ExitGroup(t)
         PROVE  TypeOK'
    BY <1>10 DEF TypeOK, eventThreadExit, StopWaiting, CloseTrace, ExitGroup
  <1>11. CASE eventExit
    BY <1>11 DEF TypeOK, eventExit
  <1>12. CASE UNCHANGED vars
    BY <1>12 DEF TypeOK, vars
  <1> QED
    BY <1>1, <1>2, <1>3, <1>4, <1>5, <1>6, <1>7, <1>8, <1>9, <1>10, <1>11,
       <1>12, StepCases

\* The variables that decide the control of a flush.
LEMMA ControlTypes ==
    ASSUME TypeOK
    PROVE  /\ pc \in [Threads -> Labels]
           /\ left \in [Threads -> Nat]
           /\ tlsPtr \in [Threads -> Nat]
           /\ bufEnd \in [Threads -> Nat]
           /\ curr \in [Threads -> Nat]
           /\ leaving \in SUBSET Threads
           /\ mutex \in Threads \cup {NoThread}
  BY DEF TypeOK

\* Every step keeps the inductive invariant, given the types.
LEMMA FlushStep ==
    ASSUME SafeInv, [Next]_vars
    PROVE  FlushInv'
  <1>0. /\ TypeOK
        /\ Exclusion /\ HeaderOwner /\ Room /\ FlushWindow
    BY DEF SafeInv, FlushInv
  <1>a. MaxBlock \in Nat /\ MaxBlock > 0 /\ NoThread \notin Threads
    BY TracerAssumption
  <1> USE <1>0, <1>a, ControlTypes
      DEF FlushInv, Exclusion, HeaderOwner, Room, FlushWindow, Labels,
          bufferVars, logVars
  <1>1. ASSUME NEW t \in Threads, eventThreadInit(t)
        PROVE  FlushInv'
    BY <1>1 DEF eventThreadInit
  <1>2. ASSUME NEW t \in Threads, NEW n \in 1 .. MaxBlock, NEW kind \in Kinds,
               FirstInstr(t, n, kind)
        PROVE  FlushInv'
    <2>1. CASE SaveEntry(t)
      <3>1. tlsPtr' = [tlsPtr EXCEPT ![t] = @ + 1]
        BY <2>1 DEF SaveEntry
      <3>2. UNCHANGED <<curr, mutex, header>> /\ pc[t] = "app"
        BY <1>2 DEF FirstInstr
      <3>3. /\ left' = [left EXCEPT ![t] = n - 1]
            /\ bufEnd' = [bufEnd EXCEPT ![t] = tlsPtr'[t]]
            /\ pc' = [pc EXCEPT ![t] = "lock"]
        BY <1>2 DEF FirstInstr
      <3>4. Exclusion' /\ HeaderOwner'
        BY <3>2, <3>3
      <3>5. Room'
        BY <3>1, <3>2, <3>3
      <3>6. FlushWindow'
        BY <3>1, <3>2, <3>3
      <3> QED
        BY <3>4, <3>5, <3>6
    <2>2. CASE UNCHANGED bufferVars
      BY <1>2, <2>2 DEF FirstInstr
    <2> QED
      BY <1>2, <2>1, <2>2 DEF FirstInstr, insertInstrumentation
  <1>3. ASSUME NEW t \in Threads, NEW kind \in Kinds, LaterInstr(t, kind)
        PROVE  FlushInv'
    <2>1. CASE SaveEntry(t)
      <3>1. tlsPtr' = [tlsPtr EXCEPT ![t] = @ + 1]
        BY <2>1 DEF SaveEntry
      <3>2. UNCHANGED <<curr, mutex, header>> /\ pc[t] = "app"
        BY <1>3 DEF LaterInstr
      <3>3. /\ left[t] > 0 /\ left' = [left EXCEPT ![t] = @ - 1]
            /\ UNCHANGED <<bufEnd, pc>>
        BY <1>3 DEF LaterInstr
      <3>4. Exclusion' /\ HeaderOwner'
        BY <3>2, <3>3
      <3>5. Room'
        BY <3>1, <3>2, <3>3
      <3>6. FlushWindow'
        BY <3>1, <3>2, <3>3
      <3> QED
        BY <3>4, <3>5, <3>6
    <2>2. CASE UNCHANGED bufferVars
      BY <1>3, <2>2 DEF LaterInstr
    <2> QED
      BY <1>3, <2>1, <2>2 DEF LaterInstr, insertInstrumentation
  <1>4. ASSUME NEW t \in Threads, dr_mutex_lock(t)
        PROVE  FlushInv'
    BY <1>4 DEF dr_mutex_lock, FreeMutex
  <1>5. ASSUME NEW t \in Threads, WriteOwn(t)
        PROVE  FlushInv'
    BY <1>5 DEF WriteOwn, MoreEntries
  <1>6. ASSUME NEW t \in Threads, WriteHeader(t)
        PROVE  FlushInv'
    BY <1>6 DEF WriteHeader
  <1>7. ASSUME NEW t \in Threads, WriteEntry(t)
        PROVE  FlushInv'
    BY <1>7 DEF WriteEntry
  <1>8. ASSUME NEW t \in Threads, dr_mutex_unlock(t)
        PROVE  FlushInv'
    BY <1>8 DEF dr_mutex_unlock, ReleaseMutex, MoreEntries
  <1>9. ASSUME NEW t \in Threads, ResetPointer(t)
        PROVE  FlushInv'
    BY <1>9 DEF ResetPointer, Rewind
  <1>10. ASSUME NEW t \in Threads, eventThreadExit(t) \/ StopWaiting(t)
         PROVE  FlushInv'
    BY <1>10 DEF eventThreadExit, StopWaiting
  <1>11. ASSUME NEW t \in Threads, CloseTrace(t) \/ ExitGroup(t)
         PROVE  FlushInv'
    BY <1>11 DEF CloseTrace, ExitGroup
  <1>12. CASE eventExit
    BY <1>12 DEF eventExit
  <1>13. CASE UNCHANGED vars
    BY <1>13 DEF vars
  <1> QED
    BY <1>1, <1>2, <1>3, <1>4, <1>5, <1>6, <1>7, <1>8, <1>9, <1>10, <1>11,
       <1>12, <1>13, StepCases

\* Types and the inductive invariant together hold in every state.
LEMMA SafeInvariant == Spec => []SafeInv
  <1>1. SafeInv /\ [Next]_vars => SafeInv'
    BY TypeStep, FlushStep DEF SafeInv
  <1> QED
    BY <1>1, SafeInit, PTL DEF Spec

\* Every variable keeps its type: no entry is read from outside the buffer.
THEOREM TypeCorrect == Spec => []TypeOK
  <1>1. SafeInv => TypeOK
    BY DEF SafeInv
  <1> QED
    BY <1>1, SafeInvariant, PTL

\* The thread that writes the logs holds the mutex, and a flush writes the
\* whole buffer.
THEOREM FlushCorrect == Spec => []FlushInv
  <1>1. SafeInv => FlushInv
    BY DEF SafeInv
  <1> QED
    BY <1>1, SafeInvariant, PTL

\* No thread writes past its buffer, however its blocks, faults and exits
\* follow each other, whenever no block is longer than the buffer.
THEOREM NoOverflow == Spec => []BufferBound
  <1>1. SafeInv => BufferBound
    BY TracerAssumption DEF SafeInv, TypeOK, FlushInv, Room, BufferBound
  <1> QED
    BY <1>1, SafeInvariant, PTL

-----------------------------------------------------------------------------
(* From the buffer to the thread's file. *)

\* The variables that LoggedInOrder reads.
LEMMA DataTypes ==
    ASSUME TypeOK, NEW t \in Threads
    PROVE  /\ slots[t] \in [Index -> Nat]
           /\ tlsPtr[t] \in Nat /\ curr[t] \in Nat
           /\ executed[t] \in Nat
           /\ file[t] \in Seq(Nat)
           /\ recorded[t] \in Seq(Nat)
  BY DEF TypeOK

\* What other threads do is no concern of t.
LEMMA OtherInOrder ==
    ASSUME NEW t \in Threads, LoggedInOrder(t),
           recorded'[t] = recorded[t], file'[t] = file[t],
           slots'[t] = slots[t], tlsPtr'[t] = tlsPtr[t], Logged(t)' = Logged(t)
    PROVE  LoggedInOrder(t)'
  BY DEF LoggedInOrder

\* A saved entry is the newest of the buffer and of the history.
LEMMA SaveInOrder ==
    ASSUME SafeInv, NEW t \in Threads, LoggedInOrder(t), SaveEntry(t),
           pc[t] = "app", pc'[t] \in {"app", "lock"}, UNCHANGED file
    PROVE  LoggedInOrder(t)'
  <1> DEFINE e == executed[t] + 1
             r == recorded[t]
             f == file[t]
             n == tlsPtr[t]
  <1>1. TypeOK /\ e \in Nat /\ n \in Nat /\ r \in Seq(Nat) /\ f \in Seq(Nat)
    BY DataTypes DEF SafeInv
  <1>2. n \in Index
    BY TracerAssumption, <1>1 DEF SafeInv, FlushInv, Room, Index, TypeOK
  <1>3. Logged(t) = 0 /\ Logged(t)' = 0
    BY DEF Logged
  <1>4. /\ recorded'[t] = Append(r, e)
        /\ tlsPtr'[t] = n + 1
        /\ slots'[t] = [slots[t] EXCEPT ![n] = e]
        /\ file'[t] = f
    BY <1>1 DEF SaveEntry, TypeOK
  <1>5. /\ Len(r) = Len(f) + n
        /\ \A i \in 1 .. Len(f) : f[i] = r[i]
        /\ \A i \in 0 .. n - 1 : slots[t][i] = r[Len(f) + i + 1]
    BY <1>1, <1>3 DEF LoggedInOrder
  <1>6. Len(f) \in Nat /\ slots[t] \in [Index -> Nat]
    BY <1>1, DataTypes
  <1>n. n \in Nat
    BY <1>1
  <1> HIDE DEF e, r, f, n
  <1>7. Len(Append(r, e)) = Len(r) + 1
    BY <1>1
  <1>8. \A i \in 1 .. Len(r) : Append(r, e)[i] = r[i]
    BY <1>1
  <1>9. Append(r, e)[Len(r) + 1] = e
    BY <1>1
  <1>10. \A i \in 1 .. Len(f) : f[i] = Append(r, e)[i]
    BY <1>1, <1>5, <1>6, <1>8
  <1>11. \A i \in 0 .. n : slots'[t][i] = Append(r, e)[Len(f) + i + 1]
    <2> SUFFICES ASSUME NEW i \in 0 .. n
                 PROVE  slots'[t][i] = Append(r, e)[Len(f) + i + 1]
      OBVIOUS
    <2>1. CASE i = n
      BY <1>1, <1>2, <1>4, <1>5, <1>6, <1>9, <2>1
    <2>2. CASE i < n
      <3>1. i \in 0 .. n - 1 /\ Len(f) + i + 1 \in 1 .. Len(r)
        BY <1>1, <1>5, <1>6, <2>2
      <3>2. i \in Index /\ i # n
        BY <1>n, <1>2, <2>2, TracerAssumption DEF Index
      <3>3. slots'[t][i] = slots[t][i]
        BY <1>4, <1>6, <3>2
      <3> QED
        BY <1>5, <1>8, <3>1, <3>3
    <2>3. i = n \/ i < n
      BY <1>n
    <2> QED
      BY <2>1, <2>2, <2>3
  <1>12. Len(recorded'[t]) = Len(file'[t]) + tlsPtr'[t] - Logged(t)'
    BY <1>1, <1>3, <1>4, <1>5, <1>6, <1>7
  <1>13. \A i \in 1 .. Len(file'[t]) : file'[t][i] = recorded'[t][i]
    BY <1>4, <1>10
  <1>14. \A i \in Logged(t)' .. tlsPtr'[t] - 1 :
             slots'[t][i] = recorded'[t][Len(file'[t]) + i - Logged(t)' + 1]
    <2>1. tlsPtr'[t] - 1 = n
      BY <1>n, <1>4
    <2>2. \A i \in 0 .. n :
              slots'[t][i] = recorded'[t][Len(file'[t]) + i - 0 + 1]
      <3> TAKE i \in 0 .. n
      <3>1. Len(f) + i - 0 + 1 = Len(f) + i + 1
        BY <1>n, <1>6
      <3> QED
        BY <1>4, <1>11, <3>1
    <2> QED
      BY <1>3, <2>1, <2>2
  <1> QED
    BY <1>12, <1>13, <1>14 DEF LoggedInOrder

\* WriteOwn moves the boundary between file and buffer by one entry.
LEMMA WriteInOrder ==
    ASSUME SafeInv, NEW t \in Threads, LoggedInOrder(t), WriteOwn(t)
    PROVE  LoggedInOrder(t)'
  <1> DEFINE r == recorded[t]
             f == file[t]
             n == tlsPtr[t]
             c == curr[t]
             e == slots[t][c]
  <1>1. r \in Seq(Nat) /\ f \in Seq(Nat) /\ e \in Nat
    BY DataTypes, SavedType DEF SafeInv, WriteOwn, MoreEntries
  <1>2. n \in Nat /\ c \in Nat /\ Len(f) \in Nat
    BY DataTypes, <1>1 DEF SafeInv
  <1>3. c < n
    BY DEF SafeInv, FlushInv, FlushWindow, WriteOwn, MoreEntries
  <1>4. Logged(t) = c /\ Logged(t)' = c + 1
    BY DEF Logged, WriteOwn, SafeInv, TypeOK
  <1>5. /\ recorded'[t] = r /\ tlsPtr'[t] = n /\ slots'[t] = slots[t]
        /\ file'[t] = Append(f, e)
    BY DEF WriteOwn, bufferVars, SafeInv, TypeOK
  <1>6. /\ Len(r) = Len(f) + n - c
        /\ \A i \in 1 .. Len(f) : f[i] = r[i]
        /\ \A i \in c .. n - 1 : slots[t][i] = r[Len(f) + i - c + 1]
    BY <1>4 DEF LoggedInOrder
  <1>7. e = r[Len(f) + 1]
    <2>1. c \in c .. n - 1 /\ Len(f) + c - c + 1 = Len(f) + 1
      BY <1>2, <1>3
    <2> QED
      BY <1>6, <2>1
  <1> HIDE DEF r, f, n, c, e
  <1>8. Len(Append(f, e)) = Len(f) + 1
    BY <1>1
  <1>9. \A i \in 1 .. Len(f) + 1 : Append(f, e)[i] = r[i]
    <2> TAKE i \in 1 .. Len(f) + 1
    <2>1. CASE i = Len(f) + 1
      BY <1>1, <1>7, <2>1
    <2>2. CASE i \in 1 .. Len(f)
      BY <1>1, <1>6, <2>2
    <2>3. i = Len(f) + 1 \/ i \in 1 .. Len(f)
      BY <1>2
    <2> QED
      BY <2>1, <2>2, <2>3
  <1>10. \A i \in c + 1 .. n - 1 :
             slots[t][i] = r[Len(f) + 1 + i - (c + 1) + 1]
    <2> TAKE i \in c + 1 .. n - 1
    <2>1. i \in c .. n - 1 /\ Len(f) + 1 + i - (c + 1) + 1 = Len(f) + i - c + 1
      BY <1>2
    <2> QED
      BY <1>6, <2>1
  <1>11. Len(r) = Len(f) + 1 + n - (c + 1)
    BY <1>2, <1>6
  <1> QED
    BY <1>4, <1>5, <1>8, <1>9, <1>10, <1>11 DEF LoggedInOrder

\* Besides SaveEntry and WriteOwn only ResetPointer moves the boundary, when
\* the whole buffer is in the file.
LEMMA OrderStep ==
    ASSUME SafeInv, InOrderOnce, [Next]_vars
    PROVE  InOrderOnce'
  <1> SUFFICES ASSUME NEW u \in Threads
               PROVE  LoggedInOrder(u)'
    BY DEF InOrderOnce
  <1>0. LoggedInOrder(u) /\ TypeOK /\ FlushWindow
    BY DEF InOrderOnce, SafeInv, FlushInv
  <1> USE <1>0 DEF bufferVars, logVars
  <1>1. ASSUME NEW t \in Threads, eventThreadInit(t)
        PROVE  LoggedInOrder(u)'
    BY <1>1, OtherInOrder DEF eventThreadInit, Logged, TypeOK
  <1>2. ASSUME NEW t \in Threads, NEW n \in 1 .. MaxBlock, NEW kind \in Kinds,
               FirstInstr(t, n, kind)
        PROVE  LoggedInOrder(u)'
    <2>1. CASE SaveEntry(t) /\ u = t
      BY <1>2, <2>1, SaveInOrder DEF FirstInstr, TypeOK
    <2>2. CASE SaveEntry(t) /\ u # t
      BY <1>2, <2>2, OtherInOrder DEF FirstInstr, SaveEntry, Logged, TypeOK
    <2>3. CASE UNCHANGED bufferVars
      BY <1>2, <2>3, OtherInOrder DEF FirstInstr, Logged, TypeOK
    <2> QED
      BY <1>2, <2>1, <2>2, <2>3 DEF FirstInstr, insertInstrumentation
  <1>3. ASSUME NEW t \in Threads, NEW kind \in Kinds, LaterInstr(t, kind)
        PROVE  LoggedInOrder(u)'
    <2>1. CASE SaveEntry(t) /\ u = t
      BY <1>3, <2>1, SaveInOrder DEF LaterInstr, TypeOK
    <2>2. CASE SaveEntry(t) /\ u # t
      BY <1>3, <2>2, OtherInOrder DEF LaterInstr, SaveEntry, Logged, TypeOK
    <2>3. CASE UNCHANGED bufferVars
      BY <1>3, <2>3, OtherInOrder DEF LaterInstr, Logged, TypeOK
    <2> QED
      BY <1>3, <2>1, <2>2, <2>3 DEF LaterInstr, insertInstrumentation
  <1>4. ASSUME NEW t \in Threads, dr_mutex_lock(t)
        PROVE  LoggedInOrder(u)'
    BY <1>4, OtherInOrder DEF dr_mutex_lock, Logged, TypeOK
  <1>5. ASSUME NEW t \in Threads, WriteOwn(t)
        PROVE  LoggedInOrder(u)'
    <2>1. CASE u = t
      BY <1>5, <2>1, WriteInOrder
    <2>2. CASE u # t
      BY <1>5, <2>2, OtherInOrder DEF WriteOwn, Logged, TypeOK
    <2> QED
      BY <2>1, <2>2
  <1>6. ASSUME NEW t \in Threads, WriteHeader(t)
        PROVE  LoggedInOrder(u)'
    BY <1>6, OtherInOrder DEF WriteHeader, Logged, TypeOK
  <1>7. ASSUME NEW t \in Threads, WriteEntry(t)
        PROVE  LoggedInOrder(u)'
    BY <1>7, OtherInOrder DEF WriteEntry, Logged, TypeOK
  <1>8. ASSUME NEW t \in Threads, dr_mutex_unlock(t)
        PROVE  LoggedInOrder(u)'
    BY <1>8, OtherInOrder DEF dr_mutex_unlock, Logged, TypeOK
  <1>9. ASSUME NEW t \in Threads, ResetPointer(t)
        PROVE  LoggedInOrder(u)'
    <2>1. CASE u = t
      <3>1. /\ Logged(t) = tlsPtr[t] /\ Logged(t)' = 0 /\ tlsPtr'[t] = 0
            /\ recorded'[t] = recorded[t] /\ file'[t] = file[t]
        BY <1>9, ControlTypes
        DEF ResetPointer, Rewind, Logged, FlushWindow
      <3>2. Len(recorded[t]) = Len(file[t]) /\ Len(file[t]) \in Nat
        BY <3>1, <2>1, DataTypes DEF LoggedInOrder
      <3>3. Len(file[t]) = Len(file[t]) + 0 - 0 /\ 0 .. 0 - 1 = {}
        BY <3>2
      <3> QED
        BY <2>1, <3>1, <3>2, <3>3 DEF LoggedInOrder
    <2>2. CASE u # t
      BY <1>9, <2>2, OtherInOrder DEF ResetPointer, Rewind, Logged, TypeOK
    <2> QED
      BY <2>1, <2>2
  <1>10. ASSUME NEW t \in Threads, eventThreadExit(t) \/ StopWaiting(t)
         PROVE  LoggedInOrder(u)'
    BY <1>10, OtherInOrder DEF eventThreadExit, StopWaiting, Logged, TypeOK
  <1>11. ASSUME NEW t \in Threads, CloseTrace(t) \/ ExitGroup(t)
         PROVE  LoggedInOrder(u)'
    BY <1>11, OtherInOrder DEF CloseTrace, ExitGroup, Logged, TypeOK
  <1>12. CASE eventExit
    BY <1>12, OtherInOrder DEF eventExit, Logged
  <1>13. CASE UNCHANGED vars
    BY <1>13, OtherInOrder DEF vars, Logged
  <1> QED
    BY <1>1, <1>2, <1>3, <1>4, <1>5, <1>6, <1>7, <1>8, <1>9, <1>10, <1>11,
       <1>12, <1>13, StepCases

\* Nothing a thread records is lost, repeated or reordered on its way to the
\* thread's file.
THEOREM EveryEntryInOrder == Spec => []InOrderOnce
  <1>1. Init => InOrderOnce
    <2> SUFFICES ASSUME Init, NEW t \in Threads
                 PROVE  LoggedInOrder(t)
      BY DEF InOrderOnce
    <2>1. /\ recorded[t] = <<>> /\ file[t] = <<>>
          /\ tlsPtr[t] = 0 /\ Logged(t) = 0
      BY DEF Init, Logged
    <2>2. Len(<<>>) = 0 /\ 0 = 0 + 0 - 0 /\ 1 .. 0 = {} /\ 0 .. 0 - 1 = {}
      OBVIOUS
    <2> QED
      BY <2>1, <2>2 DEF LoggedInOrder
  <1>2. SafeInv /\ InOrderOnce /\ [Next]_vars => InOrderOnce'
    BY OrderStep
  <1> QED
    BY <1>1, <1>2, SafeInvariant, PTL DEF Spec

-----------------------------------------------------------------------------
(* From the thread's file to the interleaved trace. *)

\* Between its two writes a thread still points at the entry it wrote last.
Copying ==
    \A t \in Threads :
        pc[t] \in {"header", "entry"} =>
            /\ Len(file[t]) > 0
            /\ file[t][Len(file[t])] = slots[t][curr[t]]

\* The entry being copied stays the last one of the thread's file.
LEMMA CopyingStep ==
    ASSUME SafeInv, Copying, [Next]_vars
    PROVE  Copying'
  <1> SUFFICES ASSUME NEW u \in Threads
               PROVE  pc'[u] \in {"header", "entry"} =>
                          /\ Len(file'[u]) > 0
                          /\ file'[u][Len(file'[u])] = slots'[u][curr'[u]]
    BY DEF Copying
  <1> DEFINE Copy == pc'[u] \in {"header", "entry"} =>
                          /\ Len(file'[u]) > 0
                          /\ file'[u][Len(file'[u])] = slots'[u][curr'[u]]
  <1>0. TypeOK /\ (pc[u] \in {"header", "entry"} =>
                       /\ Len(file[u]) > 0
                       /\ file[u][Len(file[u])] = slots[u][curr[u]])
    BY DEF Copying, SafeInv
  <1> USE <1>0, ControlTypes DEF bufferVars, logVars
  <1>1. ASSUME NEW t \in Threads, eventThreadInit(t)
        PROVE  Copy
    BY <1>1 DEF eventThreadInit
  <1>2. ASSUME NEW t \in Threads, NEW n \in 1 .. MaxBlock, NEW kind \in Kinds,
               FirstInstr(t, n, kind)
        PROVE  Copy
    <2>1. CASE SaveEntry(t)
      BY <1>2, <2>1 DEF FirstInstr, SaveEntry, TypeOK
    <2>2. CASE UNCHANGED bufferVars
      BY <1>2, <2>2 DEF FirstInstr
    <2> QED
      BY <1>2, <2>1, <2>2 DEF FirstInstr, insertInstrumentation
  <1>3. ASSUME NEW t \in Threads, NEW kind \in Kinds, LaterInstr(t, kind)
        PROVE  Copy
    <2>1. CASE SaveEntry(t)
      BY <1>3, <2>1 DEF LaterInstr, SaveEntry, TypeOK
    <2>2. CASE UNCHANGED bufferVars
      BY <1>3, <2>2 DEF LaterInstr
    <2> QED
      BY <1>3, <2>1, <2>2 DEF LaterInstr, insertInstrumentation
  <1>4. ASSUME NEW t \in Threads, dr_mutex_lock(t)
        PROVE  Copy
    BY <1>4 DEF dr_mutex_lock
  <1>5. ASSUME NEW t \in Threads, WriteOwn(t)
        PROVE  Copy
    <2>1. CASE u = t
      <3>1. file[t] \in Seq(Nat) /\ slots[t][curr[t]] \in Nat
        BY <1>5, DataTypes, SavedType DEF WriteOwn, MoreEntries
      <3>2. file'[t] = Append(file[t], slots[t][curr[t]])
        BY <1>5 DEF WriteOwn, TypeOK
      <3>3. /\ Len(file'[t]) = Len(file[t]) + 1
            /\ file'[t][Len(file[t]) + 1] = slots[t][curr[t]]
            /\ Len(file[t]) + 1 > 0
        BY <3>1, <3>2
      <3> QED
        BY <1>5, <2>1, <3>3 DEF WriteOwn
    <2>2. CASE u # t
      BY <1>5, <2>2 DEF WriteOwn, TypeOK
    <2> QED
      BY <2>1, <2>2
  <1>6. ASSUME NEW t \in Threads, WriteHeader(t)
        PROVE  Copy
    BY <1>6 DEF WriteHeader
  <1>7. ASSUME NEW t \in Threads, WriteEntry(t)
        PROVE  Copy
    BY <1>7 DEF WriteEntry
  <1>8. ASSUME NEW t \in Threads, dr_mutex_unlock(t)
        PROVE  Copy
    BY <1>8 DEF dr_mutex_unlock
  <1>9. ASSUME NEW t \in Threads, ResetPointer(t)
        PROVE  Copy
    BY <1>9 DEF ResetPointer
  <1>10. ASSUME NEW t \in Threads, eventThreadExit(t) \/ StopWaiting(t)
         PROVE  Copy
    BY <1>10 DEF eventThreadExit, StopWaiting
  <1>11. ASSUME NEW t \in Threads, CloseTrace(t) \/ ExitGroup(t)
         PROVE  Copy
    BY <1>11 DEF CloseTrace, ExitGroup
  <1>12. CASE eventExit
    BY <1>12 DEF eventExit
  <1>13. CASE UNCHANGED vars
    BY <1>13 DEF vars
  <1> QED
    BY <1>1, <1>2, <1>3, <1>4, <1>5, <1>6, <1>7, <1>8, <1>9, <1>10, <1>11,
       <1>12, <1>13, StepCases

\* Steps that write neither trace do not matter.
LEMMA MatchFrame ==
    ASSUME InterleavedMatches, UNCHANGED <<interleaved, file>>,
           \A t \in Threads : pc'[t] \in {"header", "entry"} <=>
                                pc[t] \in {"header", "entry"}
    PROVE  InterleavedMatches'
  BY DEF InterleavedMatches, EntriesOf

\* The entries of a thread in a prefix of a trace can be counted.
LEMMA EntriesFinite ==
    ASSUME NEW trace, NEW t, NEW n \in Nat
    PROVE  IsFiniteSet(EntriesOf(trace, t, n))
  <1>1. IsFiniteSet(1 .. n)
    BY FS_Interval
  <1> QED
    BY <1>1, FS_Subset DEF EntriesOf

\* The own file is one entry ahead while the entry is being copied.
LEMMA WriteOwnMatches ==
    ASSUME SafeInv, InterleavedMatches, NEW t \in Threads, WriteOwn(t)
    PROVE  InterleavedMatches'
  <1> DEFINE e == slots[t][curr[t]]
             f == file[t]
  <1>0. f \in Seq(Nat) /\ e \in Nat /\ Len(f) \in Nat
    BY DataTypes, SavedType DEF SafeInv, WriteOwn, MoreEntries
  <1>1. /\ file' = [file EXCEPT ![t] = Append(f, e)]
        /\ pc' = [pc EXCEPT ![t] = "header"]
        /\ interleaved' = interleaved
        /\ pc[t] = "write"
    BY DEF WriteOwn
  <1>2. file'[t] = Append(f, e) /\ \A u \in Threads : u # t => file'[u] = file[u]
    BY <1>1 DEF SafeInv, TypeOK
  <1> HIDE DEF f, e
  <1>3. /\ Len(Append(f, e)) = Len(f) + 1
        /\ \A k \in 1 .. Len(f) : k \in 1 .. Len(f) + 1 /\ Append(f, e)[k] = f[k]
    BY <1>0
  <1>4. ASSUME NEW u \in Threads, NEW k \in 1 .. Len(file[u])
        PROVE  k \in 1 .. Len(file'[u]) /\ file'[u][k] = file[u][k]
    <2>1. CASE u = t
      BY <1>2, <1>3, <2>1 DEF f
    <2>2. CASE u # t
      BY <1>2, <2>2
    <2> QED
      BY <2>1, <2>2
  <1>6. ASSUME NEW i \in 1 .. Len(interleaved')
        PROVE  LET u == interleaved'[i].tid
                   k == Cardinality(EntriesOf(interleaved', u, i))
               IN  /\ u \in Threads
                   /\ k \in 1 .. Len(file'[u])
                   /\ interleaved'[i].entry = file'[u][k]
    BY <1>1, <1>4 DEF InterleavedMatches
  <1>7. ASSUME NEW u \in Threads
        PROVE  Cardinality(EntriesOf(interleaved', u, Len(interleaved'))) =
                   IF pc'[u] \in {"header", "entry"} THEN Len(file'[u]) - 1
                                                     ELSE Len(file'[u])
    <2>1. CASE u = t
      <3>1. Cardinality(EntriesOf(interleaved, t, Len(interleaved))) = Len(f)
        BY <1>1 DEF InterleavedMatches, f
      <3>2. pc'[t] = "header" /\ Len(file'[t]) - 1 = Len(f)
        BY <1>0, <1>1, <1>2, <1>3 DEF SafeInv, TypeOK
      <3> QED
        BY <1>1, <2>1, <3>1, <3>2
    <2>2. CASE u # t
      BY <1>1, <1>2, <2>2 DEF InterleavedMatches, SafeInv, TypeOK
    <2> QED
      BY <2>1, <2>2
  <1> QED
    BY <1>1, <1>6, <1>7 DEF InterleavedMatches, EntriesOf

\* WriteEntry copies the newest entry of the thread's own file.
LEMMA WriteEntryMatches ==
    ASSUME SafeInv, Copying, InterleavedMatches, NEW t \in Threads, WriteEntry(t)
    PROVE  InterleavedMatches'
  <1> DEFINE e == slots[t][curr[t]]
             r == [tid |-> t, entry |-> e]
             s == interleaved
             n == Len(s)
             Tagged == [tid : Threads \cup {NoThread}, entry : Nat]
  <1>0. s \in Seq(Tagged) /\ n \in Nat
    BY DEF SafeInv, TypeOK
  <1>1. /\ interleaved' = Append(s, r)
        /\ file' = file
        /\ pc[t] = "entry"
        /\ pc' = [pc EXCEPT ![t] = "write"]
    BY DEF WriteEntry, SafeInv, FlushInv, HeaderOwner
  <1>2. /\ Len(file[t]) > 0 /\ Len(file[t]) \in Nat
        /\ e = file[t][Len(file[t])]
    BY <1>1, DataTypes DEF Copying, SafeInv
  <1>3. r.tid = t /\ r.entry = e /\ r \in Tagged
    BY <1>1, SavedType
  <1>m. /\ \A i \in 1 .. n :
               LET u == s[i].tid
                   k == Cardinality(EntriesOf(s, u, i))
               IN  /\ u \in Threads
                   /\ k \in 1 .. Len(file[u])
                   /\ s[i].entry = file[u][k]
        /\ \A u \in Threads :
               Cardinality(EntriesOf(s, u, n)) =
                   IF pc[u] \in {"header", "entry"} THEN Len(file[u]) - 1
                                                    ELSE Len(file[u])
    BY DEF InterleavedMatches
  <1> HIDE DEF e, r, Tagged
  <1>4. /\ Len(interleaved') = n + 1
        /\ \A i \in 1 .. n : interleaved'[i] = s[i]
        /\ interleaved'[n + 1] = r
    BY <1>0, <1>1, <1>3
  <1>5. ASSUME NEW u, NEW i \in 0 .. n
        PROVE  EntriesOf(interleaved', u, i) = EntriesOf(s, u, i)
    BY <1>0, <1>4 DEF EntriesOf
  <1>6. ASSUME NEW u, u # t
        PROVE  EntriesOf(interleaved', u, n + 1) = EntriesOf(s, u, n)
    BY <1>0, <1>3, <1>4, <1>6 DEF EntriesOf
  <1>7. EntriesOf(interleaved', t, n + 1) = EntriesOf(s, t, n) \cup {n + 1}
    BY <1>0, <1>3, <1>4 DEF EntriesOf
  <1>8. Cardinality(EntriesOf(interleaved', t, n + 1)) = Len(file[t])
    <2>1. IsFiniteSet(EntriesOf(s, t, n))
      BY <1>0, EntriesFinite
    <2>n. n + 1 \notin EntriesOf(s, t, n)
      BY <1>0 DEF EntriesOf
    <2>2. Cardinality(EntriesOf(s, t, n)) = Len(file[t]) - 1
      BY <1>1, <1>m
    <2>3. Cardinality(EntriesOf(s, t, n) \cup {n + 1}) =
              Cardinality(EntriesOf(s, t, n)) + 1
      BY <2>1, <2>n, FS_AddElement
    <2>4. Len(file[t]) - 1 + 1 = Len(file[t])
      BY <1>2
    <2> QED
      BY <1>7, <2>2, <2>3, <2>4
  <1>9. ASSUME NEW i \in 1 .. n + 1
        PROVE  LET u == interleaved'[i].tid
                   k == Cardinality(EntriesOf(interleaved', u, i))
               IN  /\ u \in Threads
                   /\ k \in 1 .. Len(file[u])
                   /\ interleaved'[i].entry = file[u][k]
    <2>1. CASE i = n + 1
      BY <1>2, <1>3, <1>4, <1>8, <2>1
    <2>2. CASE i \in 1 .. n
      <3>1. interleaved'[i] = s[i]
        BY <1>4, <2>2
      <3>2. EntriesOf(interleaved', s[i].tid, i) = EntriesOf(s, s[i].tid, i)
        BY <1>0, <1>4, <2>2 DEF EntriesOf
      <3> QED
        BY <1>m, <2>2, <3>1, <3>2
    <2>3. i = n + 1 \/ i \in 1 .. n
      BY <1>0
    <2> QED
      BY <2>1, <2>2, <2>3
  <1>10. ASSUME NEW u \in Threads
         PROVE  Cardinality(EntriesOf(interleaved', u, n + 1)) =
                    IF pc'[u] \in {"header", "entry"} THEN Len(file[u]) - 1
                                                      ELSE Len(file[u])
    <2>1. CASE u = t
      BY <1>1, <1>8, <2>1 DEF SafeInv, TypeOK
    <2>2. CASE u # t
      BY <1>1, <1>6, <1>m, <2>2 DEF SafeInv, TypeOK
    <2> QED
      BY <2>1, <2>2
  <1> HIDE DEF s, n
  <1> QED
    BY <1>1, <1>4, <1>9, <1>10 DEF InterleavedMatches, EntriesOf

\* Every step keeps the two traces in agreement.
LEMMA MatchStep ==
    ASSUME SafeInv, Copying, InterleavedMatches, [Next]_vars
    PROVE  InterleavedMatches'
  <1> USE ControlTypes, MatchFrame DEF SafeInv, logVars
  <1>1. ASSUME NEW t \in Threads, eventThreadInit(t)
        PROVE  InterleavedMatches'
    BY <1>1 DEF eventThreadInit
  <1>2. ASSUME NEW t \in Threads, NEW n \in 1 .. MaxBlock, NEW kind \in Kinds,
               FirstInstr(t, n, kind)
        PROVE  InterleavedMatches'
    BY <1>2 DEF FirstInstr
  <1>3. ASSUME NEW t \in Threads, NEW kind \in Kinds, LaterInstr(t, kind)
        PROVE  InterleavedMatches'
    BY <1>3 DEF LaterInstr
  <1>4. ASSUME NEW t \in Threads, dr_mutex_lock(t)
        PROVE  InterleavedMatches'
    BY <1>4 DEF dr_mutex_lock
  <1>5. ASSUME NEW t \in Threads, WriteOwn(t)
        PROVE  InterleavedMatches'
    BY <1>5, WriteOwnMatches
  <1>6. ASSUME NEW t \in Threads, WriteHeader(t)
        PROVE  InterleavedMatches'
    BY <1>6 DEF WriteHeader
  <1>7. ASSUME NEW t \in Threads, WriteEntry(t)
        PROVE  InterleavedMatches'
    BY <1>7, WriteEntryMatches
  <1>8. ASSUME NEW t \in Threads, dr_mutex_unlock(t)
        PROVE  InterleavedMatches'
    BY <1>8 DEF dr_mutex_unlock
  <1>9. ASSUME NEW t \in Threads, ResetPointer(t)
        PROVE  InterleavedMatches'
    BY <1>9 DEF ResetPointer
  <1>10. ASSUME NEW t \in Threads, eventThreadExit(t) \/ StopWaiting(t)
         PROVE  InterleavedMatches'
    BY <1>10 DEF eventThreadExit, StopWaiting
  <1>11. ASSUME NEW t \in Threads, CloseTrace(t) \/ ExitGroup(t)
         PROVE  InterleavedMatches'
    BY <1>11 DEF CloseTrace, ExitGroup
  <1>12. CASE eventExit
    BY <1>12 DEF eventExit
  <1>13. CASE UNCHANGED vars
    BY <1>13 DEF vars
  <1> QED
    BY <1>1, <1>2, <1>3, <1>4, <1>5, <1>6, <1>7, <1>8, <1>9, <1>10, <1>11,
       <1>12, <1>13, StepCases

\* The two kinds of trace agree, for any number of threads.
THEOREM TracesAgree == Spec => []InterleavedMatches
  <1>1. Init => Copying /\ InterleavedMatches
    <2> SUFFICES ASSUME Init
                 PROVE  Copying /\ InterleavedMatches
      OBVIOUS
    <2>1. /\ interleaved = <<>>
          /\ \A t \in Threads : pc[t] = "unborn" /\ file[t] = <<>>
      BY DEF Init
    <2>2. Len(<<>>) = 0 /\ 1 .. 0 = {}
      OBVIOUS
    <2>3. \A t : EntriesOf(interleaved, t, Len(interleaved)) = {}
      BY <2>1, <2>2 DEF EntriesOf
    <2>4. Cardinality({}) = 0
      BY FS_EmptySet
    <2> QED
      BY <2>1, <2>2, <2>3, <2>4 DEF Copying, InterleavedMatches
  <1>2. /\ SafeInv /\ Copying /\ InterleavedMatches /\ [Next]_vars
        => Copying' /\ InterleavedMatches'
    BY CopyingStep, MatchStep
  <1> QED
    BY <1>1, <1>2, SafeInvariant, PTL DEF Spec

-----------------------------------------------------------------------------
(* Tracer implements TraceLog. *)

\* Dropping the last element undoes Append.
LEMMA FrontOfAppend ==
    ASSUME NEW S, NEW f \in Seq(S), NEW e \in S
    PROVE  SubSeq(Append(f, e), 1, Len(Append(f, e)) - 1) = f
  <1>1. Len(Append(f, e)) - 1 = Len(f) /\ Len(f) \in Nat
    OBVIOUS
  <1>2. SubSeq(Append(f, e), 1, Len(f)) \in Seq(S)
    <2>1. Append(f, e) \in Seq(S)
      OBVIOUS
    <2>2. \A i \in 1 .. Len(f) : Append(f, e)[i] \in S
      OBVIOUS
    <2> QED
      BY <1>1, <2>1, <2>2
  <1>3. /\ Len(SubSeq(Append(f, e), 1, Len(f))) = Len(f)
        /\ \A i \in 1 .. Len(f) : SubSeq(Append(f, e), 1, Len(f))[i] = f[i]
    BY <1>1
  <1> QED
    BY <1>1, <1>2, <1>3, SeqEqual

\* The front of a sequence and its last element make the sequence.
LEMMA AppendToFront ==
    ASSUME NEW S, NEW f \in Seq(S), Len(f) > 0
    PROVE  /\ Append(SubSeq(f, 1, Len(f) - 1), f[Len(f)]) = f
           /\ Len(SubSeq(f, 1, Len(f) - 1)) = Len(f) - 1
  <1> DEFINE g == SubSeq(f, 1, Len(f) - 1)
  <1>1. /\ Len(f) - 1 \in Nat /\ f[Len(f)] \in S
        /\ \A i \in 1 .. Len(f) - 1 : f[i] \in S
    OBVIOUS
  <1>2. /\ g \in Seq(S) /\ Len(g) = Len(f) - 1
        /\ \A i \in 1 .. Len(f) - 1 : g[i] = f[i]
    <2>1. 1 \in Int /\ Len(f) - 1 \in Int
      BY <1>1
    <2>2. /\ g \in Seq(S)
          /\ Len(g) = IF 1 <= Len(f) - 1 THEN Len(f) - 1 - 1 + 1 ELSE 0
          /\ \A i \in 1 .. Len(f) - 1 - 1 + 1 : g[i] = f[1 + i - 1]
      BY <1>1, <2>1, SubSeqProperties
    <2> HIDE DEF g
    <2>3. Len(f) \in Nat /\ Len(f) > 0
      BY LenProperties
    <2>4. Len(g) = Len(f) - 1
      <3>1. CASE Len(f) = 1
        <4>1. Len(f) - 1 = 0 /\ ~(1 <= Len(f) - 1)
          BY <3>1
        <4> QED
          BY <2>2, <4>1
      <3>2. CASE Len(f) > 1
        <4>1. 1 <= Len(f) - 1 /\ Len(f) - 1 - 1 + 1 = Len(f) - 1
          BY <2>3, <3>2
        <4> QED
          BY <2>2, <4>1
      <3>3. Len(f) = 1 \/ Len(f) > 1
        <4>1. \A k \in Nat : k > 0 => k = 1 \/ k > 1
          OBVIOUS
        <4> QED
          BY <2>3, <4>1, Zenon
      <3> QED
        BY <3>1, <3>2, <3>3
    <2>5. ASSUME NEW i \in 1 .. Len(f) - 1
          PROVE  g[i] = f[i]
      <3>1. i \in 1 .. Len(f) - 1 - 1 + 1 /\ 1 + i - 1 = i
        BY <2>3
      <3> QED
        BY <2>2, <3>1
    <2> QED
      BY <2>2, <2>4, <2>5
  <1> HIDE DEF g
  <1>3. /\ Append(g, f[Len(f)]) \in Seq(S)
        /\ Len(Append(g, f[Len(f)])) = Len(f)
    BY <1>1, <1>2, AppendProperties
  <1>4. \A i \in 1 .. Len(f) : Append(g, f[Len(f)])[i] = f[i]
    <2> TAKE i \in 1 .. Len(f)
    <2>1. CASE i = Len(g) + 1
      BY <1>1, <1>2, <2>1
    <2>2. CASE i \in 1 .. Len(g)
      <3>1. Append(g, f[Len(f)])[i] = g[i]
        BY <1>1, <1>2, <2>2
      <3> QED
        BY <1>2, <2>2, <3>1
    <2>3. i = Len(g) + 1 \/ i \in 1 .. Len(g)
      BY <1>1, <1>2
    <2> QED
      BY <2>1, <2>2, <2>3
  <1>5. Append(g, f[Len(f)]) = f
    BY <1>3, <1>4, SeqEqual
  <1> QED
    BY <1>2, <1>5 DEF g

\* A step that does not change what an observer of the logs sees.
LEMMA Unobserved ==
    ASSUME UNCHANGED <<file, interleaved, recorded>>,
           \A t \in Threads :
               /\ pc'[t] = "unborn" <=> pc[t] = "unborn"
               /\ pc'[t] = "done" <=> pc[t] = "done"
               /\ pc'[t] \in {"header", "entry"} <=> pc[t] \in {"header", "entry"}
    PROVE  UNCHANGED TL!vars
  <1>1. LogState' = LogState
    BY DEF LogState
  <1>2. LogFile' = LogFile
    BY DEF LogFile
  <1> QED
    BY <1>1, <1>2 DEF TL!vars

\* Saving an entry is the step Record of TraceLog.
LEMMA RecordStep ==
    ASSUME TypeOK, NEW t \in Threads, SaveEntry(t), executed[t] < MaxInstr,
           pc[t] = "app", pc'[t] \in {"app", "lock"},
           \A u \in Threads : u # t => pc'[u] = pc[u],
           UNCHANGED <<file, interleaved>>
    PROVE  TL!Record(t)
  <1>1. executed[t] + 1 \in 1 .. MaxInstr
    BY TracerAssumption, DataTypes
  <1>2. recorded' = [recorded EXCEPT ![t] = Append(@, executed[t] + 1)]
    BY DEF SaveEntry
  <1>3. LogState[t] = "open" /\ LogState' = LogState
    BY DEF LogState
  <1>4. LogFile' = LogFile
    BY DEF LogFile
  <1> QED
    BY <1>1, <1>2, <1>3, <1>4 DEF TL!Record

\* WriteOwn is invisible: an entry in one file only does not count yet.
LEMMA WriteOwnHidden ==
    ASSUME SafeInv, NEW t \in Threads, WriteOwn(t)
    PROVE  UNCHANGED TL!vars
  <1>1. file[t] \in Seq(Nat) /\ slots[t][curr[t]] \in Nat
    BY DataTypes, SavedType DEF SafeInv, WriteOwn, MoreEntries
  <1>2. /\ file'[t] = Append(file[t], slots[t][curr[t]])
        /\ pc[t] = "write" /\ pc'[t] = "header"
        /\ \A u \in Threads : u # t => pc'[u] = pc[u] /\ file'[u] = file[u]
        /\ UNCHANGED <<interleaved, recorded>>
    BY DEF WriteOwn, bufferVars, SafeInv, TypeOK
  <1>3. SubSeq(file'[t], 1, Len(file'[t]) - 1) = file[t]
    BY <1>1, <1>2, FrontOfAppend
  <1>4. LogState' = LogState
    BY <1>2 DEF LogState
  <1>5. LogFile' = LogFile
    BY <1>2, <1>3 DEF LogFile
  <1> QED
    BY <1>2, <1>4, <1>5 DEF TL!vars

\* WriteEntry is the step Log of TraceLog: the entry is now in both files.
LEMMA LogStep ==
    ASSUME SafeInv, InOrderOnce, Copying, NEW t \in Threads, WriteEntry(t)
    PROVE  TL!Log(t)
  <1> DEFINE f == file[t]
             g == SubSeq(f, 1, Len(f) - 1)
             e == slots[t][curr[t]]
  <1>1. /\ pc[t] = "entry" /\ pc' = [pc EXCEPT ![t] = "write"]
        /\ interleaved' = Append(interleaved, [tid |-> t, entry |-> e])
        /\ UNCHANGED <<file, recorded>>
    BY DEF WriteEntry, bufferVars, SafeInv, FlushInv, HeaderOwner
  <1>2. f \in Seq(Nat) /\ Len(f) \in Nat /\ Len(f) > 0 /\ e = f[Len(f)]
    BY <1>1, DataTypes DEF Copying, SafeInv
  <1>3. recorded[t][Len(f)] = e
    BY <1>1, <1>2 DEF InOrderOnce, LoggedInOrder
  <1>4. Len(f) <= Len(recorded[t])
    <2>1. curr[t] + 1 <= tlsPtr[t]
      BY <1>1, DataTypes DEF SafeInv, FlushInv, FlushWindow
    <2>2. Len(recorded[t]) = Len(f) + tlsPtr[t] - (curr[t] + 1)
      BY <1>1 DEF InOrderOnce, LoggedInOrder, Logged
    <2> QED
      BY <1>2, <2>1, <2>2, DataTypes DEF SafeInv
  <1>5. Append(g, e) = f /\ Len(g) = Len(f) - 1 /\ Len(g) + 1 = Len(f)
    BY <1>2, AppendToFront
  <1>6. LogFile[t] = g /\ LogFile' = [LogFile EXCEPT ![t] = f]
    BY <1>1 DEF LogFile, SafeInv, TypeOK
  <1>7. LogState[t] = "open" /\ LogState' = LogState
    BY <1>1 DEF LogState, SafeInv, TypeOK
  <1>8. Len(LogFile[t]) < Len(recorded[t])
    BY <1>2, <1>4, <1>5, <1>6
  <1>9. recorded[t][Len(LogFile[t]) + 1] = e
    BY <1>3, <1>5, <1>6
  <1> HIDE DEF f, g, e
  <1> QED
    BY <1>1, <1>5, <1>6, <1>7, <1>8, <1>9 DEF TL!Log

\* Closing a file is the step Close of TraceLog: everything recorded is in it.
LEMMA CloseStep ==
    ASSUME SafeInv, InOrderOnce, NEW t \in Threads, CloseTrace(t)
    PROVE  TL!Close(t)
  <1>1. /\ pc[t] = "close" /\ pc' = [pc EXCEPT ![t] = "done"]
        /\ UNCHANGED <<file, recorded, interleaved>>
    BY DEF CloseTrace, bufferVars, logVars
  <1>2. file[t] \in Seq(Nat) /\ recorded[t] \in Seq(Nat)
    BY DataTypes DEF SafeInv
  <1>3. tlsPtr[t] = 0 /\ Logged(t) = 0
    BY <1>1 DEF SafeInv, FlushInv, Room, Logged
  <1>4. Len(recorded[t]) = Len(file[t])
    BY <1>2, <1>3 DEF InOrderOnce, LoggedInOrder
  <1>5. recorded[t] = file[t]
    BY <1>2, <1>4, SeqEqual DEF InOrderOnce, LoggedInOrder
  <1>6. LogFile[t] = file[t] /\ LogFile' = LogFile
    BY <1>1 DEF LogFile, SafeInv, TypeOK
  <1>7. LogState[t] = "open" /\ LogState' = [LogState EXCEPT ![t] = "closed"]
    BY <1>1 DEF LogState, SafeInv, TypeOK
  <1> QED
    BY <1>1, <1>5, <1>6, <1>7 DEF TL!Close

\* Every step of the tracer is a step of TraceLog or leaves its variables alone.
LEMMA RefinementStep ==
    ASSUME SafeInv, InOrderOnce, Copying, [Next]_vars
    PROVE  [TL!Next]_(TL!vars)
  <1> USE ControlTypes, Unobserved DEF SafeInv, bufferVars, logVars
  <1>1. ASSUME NEW t \in Threads, eventThreadInit(t)
        PROVE  TL!Next
    <2>1. LogState[t] = "none" /\ LogState' = [LogState EXCEPT ![t] = "open"]
      BY <1>1 DEF eventThreadInit, LogState
    <2>2. LogFile' = LogFile
      BY <1>1 DEF eventThreadInit, LogFile
    <2> QED
      BY <1>1, <2>1, <2>2 DEF eventThreadInit, TL!Open, TL!Next
  <1>2. ASSUME NEW t \in Threads, NEW n \in 1 .. MaxBlock, NEW kind \in Kinds,
               FirstInstr(t, n, kind)
        PROVE  TL!Next \/ UNCHANGED TL!vars
    <2>1. CASE SaveEntry(t)
      <3>1. TL!Record(t)
        BY <1>2, <2>1, RecordStep DEF FirstInstr, insertInstrumentation
      <3> QED
        BY <3>1 DEF TL!Next
    <2>2. CASE UNCHANGED bufferVars
      BY <1>2, <2>2 DEF FirstInstr
    <2> QED
      BY <1>2, <2>1, <2>2 DEF FirstInstr, insertInstrumentation
  <1>3. ASSUME NEW t \in Threads, NEW kind \in Kinds, LaterInstr(t, kind)
        PROVE  TL!Next \/ UNCHANGED TL!vars
    <2>1. CASE SaveEntry(t)
      <3>1. TL!Record(t)
        BY <1>3, <2>1, RecordStep DEF LaterInstr, insertInstrumentation
      <3> QED
        BY <3>1 DEF TL!Next
    <2>2. CASE UNCHANGED bufferVars
      BY <1>3, <2>2 DEF LaterInstr
    <2> QED
      BY <1>3, <2>1, <2>2 DEF LaterInstr, insertInstrumentation
  <1>4. ASSUME NEW t \in Threads, dr_mutex_lock(t)
        PROVE  UNCHANGED TL!vars
    BY <1>4 DEF dr_mutex_lock
  <1>5. ASSUME NEW t \in Threads, WriteOwn(t)
        PROVE  UNCHANGED TL!vars
    BY <1>5, WriteOwnHidden
  <1>6. ASSUME NEW t \in Threads, WriteHeader(t)
        PROVE  UNCHANGED TL!vars
    BY <1>6 DEF WriteHeader
  <1>7. ASSUME NEW t \in Threads, WriteEntry(t)
        PROVE  TL!Next
    BY <1>7, LogStep DEF TL!Next
  <1>8. ASSUME NEW t \in Threads, dr_mutex_unlock(t)
        PROVE  UNCHANGED TL!vars
    BY <1>8 DEF dr_mutex_unlock
  <1>9. ASSUME NEW t \in Threads, ResetPointer(t)
        PROVE  UNCHANGED TL!vars
    BY <1>9 DEF ResetPointer
  <1>10. ASSUME NEW t \in Threads, eventThreadExit(t) \/ StopWaiting(t)
         PROVE  UNCHANGED TL!vars
    BY <1>10 DEF eventThreadExit, StopWaiting
  <1>11. ASSUME NEW t \in Threads, CloseTrace(t)
         PROVE  TL!Next
    BY <1>11, CloseStep DEF TL!Next
  <1>12. ASSUME NEW t \in Threads, ExitGroup(t)
         PROVE  UNCHANGED TL!vars
    BY <1>12 DEF ExitGroup
  <1>13. ASSUME eventExit
         PROVE  UNCHANGED TL!vars
    BY <1>13 DEF eventExit
  <1>14. ASSUME UNCHANGED vars
         PROVE  UNCHANGED TL!vars
    BY <1>14 DEF vars
  <1> QED
    BY <1>1, <1>2, <1>3, <1>4, <1>5, <1>6, <1>7, <1>8, <1>9, <1>10, <1>11,
       <1>12, <1>13, <1>14, StepCases

\* The tracer with its buffers and its lock implements TraceLog, which has
\* neither: in particular a trace is closed only when both files hold every
\* entry its thread recorded.
THEOREM Refinement == Spec => ImplementsTraceLog
  <1>1. Init => TL!Init
    <2> SUFFICES ASSUME Init
                 PROVE  TL!Init
      OBVIOUS
    <2>1. LogState = [t \in Threads |-> "none"]
      BY DEF Init, LogState
    <2>2. LogFile = [t \in Threads |-> <<>>]
      BY DEF Init, LogFile
    <2> QED
      BY <2>1, <2>2 DEF Init, TL!Init
  <1>2. Init => Copying
    BY DEF Init, Copying
  <1>3. SafeInv /\ Copying /\ [Next]_vars => Copying'
    BY CopyingStep
  <1>4. SafeInv /\ InOrderOnce /\ Copying /\ [Next]_vars => [TL!Next]_(TL!vars)
    BY RefinementStep
  <1> QED
    BY <1>1, <1>2, <1>3, <1>4, SafeInvariant, EveryEntryInOrder, PTL
    DEF Spec, ImplementsTraceLog, TL!SafeSpec

-----------------------------------------------------------------------------
(* TracerModules: the composition does nothing that Tracer does not, so that *)
(* every theorem above holds of it, and no module is unloaded before the     *)
(* entries of it are written.                                                *)

\* Loading and unloading are steps of nobody else.
LEMMA ModulesStep ==
    ASSUME [ModulesNext]_allVars
    PROVE  /\ [Next]_vars
           /\ program' = program
  BY DEF ModulesNext, allVars, moduleVars, RunBlock, OtherStep,
         eventModuleLoad, eventModuleUnload, Next, Application

\* The composition is a tracer: what TracerProofs proves of Spec holds of
\* ModulesSpec, whatever libraries come and go.
THEOREM Composition == ModulesSpec => Spec
  <1>1. ModulesInit => Init
    BY DEF ModulesInit
  <1>2. [ModulesNext]_allVars => [Next]_vars
    BY ModulesStep
  <1> QED
    BY <1>1, <1>2, PTL DEF ModulesSpec, Spec

-----------------------------------------------------------------------------
\* The inductive invariant: every entry that is still to be written is of a
\* library that is loaded and, while application code runs, of one that its
\* thread is in, from which nobody may take it.
Waiting(t) ==
    /\ pc[t] = "unborn" => executed[t] = 0
    /\ pc[t] \in {"unborn", "app"} => t \notin leaving
    /\ \A i \in Unwritten(t) :
           /\ modules[LibraryOf(t, slots[t][i])] = "loaded"
           /\ process = "running" => LibraryOf(t, slots[t][i]) \in Running(t)

ModulesInv ==
    /\ program \in [Threads -> Seq(Libraries)]
    /\ modules \in [Libraries -> {"absent", "loaded", "unloaded"}]
    /\ \A t \in Threads : Waiting(t)

\* No module is loaded at first.
LEMMA ModulesInitially == ModulesInit => ModulesInv
  <1> SUFFICES ASSUME ModulesInit
               PROVE  ModulesInv
    OBVIOUS
  <1>1. \A t \in Threads : /\ pc[t] = "unborn" /\ tlsPtr[t] = 0
                           /\ executed[t] = 0 /\ t \notin leaving
    BY DEF ModulesInit, Init
  <1>2. \A t \in Threads : Unwritten(t) = {}
    BY <1>1 DEF Unwritten
  <1> QED
    BY <1>1, <1>2, TracerModulesAssumption DEF ModulesInit, ModulesInv, Waiting

\* Entries that were waiting already still wait safely.
LEMMA StillWaiting ==
    ASSUME NEW t \in Threads, Waiting(t), UNCHANGED <<program, modules>>,
           slots'[t] = slots[t], Unwritten(t)' \subseteq Unwritten(t),
           pc'[t] = "unborn" => executed'[t] = 0,
           pc'[t] \in {"unborn", "app"} => t \notin leaving',
           process' = "running" =>
               process = "running" /\ Running(t) \subseteq Running(t)'
    PROVE  Waiting(t)'
  BY DEF Waiting, LibraryOf

\* A step of another thread.
LEMMA OtherWaiting ==
    ASSUME NEW t \in Threads, Waiting(t), UNCHANGED <<program, modules>>,
           slots'[t] = slots[t], tlsPtr'[t] = tlsPtr[t], curr'[t] = curr[t],
           pc'[t] = pc[t], executed'[t] = executed[t],
           t \in leaving' <=> t \in leaving,
           process' = "running" => process = "running"
    PROVE  Waiting(t)'
  <1>1. Unwritten(t)' = Unwritten(t)
    BY DEF Unwritten
  <1>2. Running(t)' = Running(t)
    BY DEF Running, AtBlockHead, LibraryOf
  <1> QED
    BY <1>1, <1>2, StillWaiting DEF Waiting

\* An instruction of a library that is loaded joins the buffer.
LEMMA JoinsWaiting ==
    ASSUME SafeInv, NEW t \in Threads, Waiting(t), UNCHANGED <<program, modules>>,
           NEW kind, insertInstrumentation(t, kind),
           pc[t] = "app", process = "running", NextIsLoaded(t),
           leaving' = leaving,
           \/ pc'[t] = "lock"
           \/ /\ pc'[t] = "app"
              /\ LibraryOf(t, executed[t] + 1) = LibraryOf(t, executed[t])
    PROVE  Waiting(t)'
  <1> DEFINE e == executed[t] + 1
  <1>0. /\ tlsPtr[t] \in Nat /\ tlsPtr[t] < BUF_ENTRIES /\ BUF_ENTRIES \in Nat
        /\ slots \in [Threads -> [Index -> Nat]] /\ tlsPtr \in [Threads -> Nat]
        /\ executed \in [Threads -> Nat] /\ executed[t] \in Nat
    <2>1. /\ slots \in [Threads -> [Index -> Nat]] /\ tlsPtr \in [Threads -> Nat]
          /\ executed \in [Threads -> Nat] /\ left \in [Threads -> Nat]
      BY DEF SafeInv, TypeOK
    <2>2. tlsPtr[t] + left[t] < MaxBlock
      BY DEF SafeInv, FlushInv, Room
    <2>3. MaxBlock \in Nat /\ BUF_ENTRIES \in Nat /\ MaxBlock <= BUF_ENTRIES
      BY TracerAssumption
    <2>4. tlsPtr[t] \in Nat /\ left[t] \in Nat /\ executed[t] \in Nat
      BY <2>1
    <2> QED
      BY <2>1, <2>2, <2>3, <2>4
  <1>1. executed'[t] = e /\ e - 1 = executed[t]
    BY <1>0 DEF insertInstrumentation
  <1>2. modules[LibraryOf(t, e)] = "loaded"
    BY <1>0 DEF NextIsLoaded, LibraryOf
  <1>3. LibraryOf(t, e) \in Running(t)' /\ LibraryOf(t, executed[t]) \in Running(t)'
    BY <1>1 DEF Running, AtBlockHead, LibraryOf, Waiting
  <1>4. Running(t) = {LibraryOf(t, executed[t])}
    BY DEF Running, AtBlockHead
  <1>5. Unwritten(t) = 0 .. tlsPtr[t] - 1 /\ Unwritten(t)' = 0 .. tlsPtr'[t] - 1
    BY DEF Unwritten
  <1>6. ASSUME NEW i \in Unwritten(t)'
        PROVE  \/ i \in Unwritten(t) /\ slots'[t][i] = slots[t][i]
               \/ slots'[t][i] = e
    <2>1. CASE UNCHANGED bufferVars
      BY <2>1, <1>5 DEF bufferVars
    <2>2. CASE SaveEntry(t)
      <3>1. /\ tlsPtr'[t] = tlsPtr[t] + 1
            /\ slots'[t] = [slots[t] EXCEPT ![tlsPtr[t]] = e]
        BY <2>2, <1>0 DEF SaveEntry
      <3>2. slots[t] \in [Index -> Nat] /\ tlsPtr[t] \in Index
        BY <1>0 DEF Index
      <3> QED
        BY <3>1, <3>2, <1>5, <1>6, <1>0 DEF Index
    <2> QED
      BY <2>1, <2>2 DEF insertInstrumentation
  <1>7. ASSUME NEW n
        PROVE  LibraryOf(t, n)' = LibraryOf(t, n)
    BY DEF LibraryOf
  <1>8. ASSUME NEW i \in Unwritten(t)'
        PROVE  /\ modules[LibraryOf(t, slots'[t][i])] = "loaded"
               /\ LibraryOf(t, slots'[t][i]) \in Running(t)'
    <2>1. CASE i \in Unwritten(t) /\ slots'[t][i] = slots[t][i]
      BY <2>1, <1>3, <1>4 DEF Waiting
    <2>2. CASE slots'[t][i] = e
      BY <2>2, <1>2, <1>3
    <2> QED
      BY <1>6, <2>1, <2>2
  <1>9. pc'[t] # "unborn" /\ t \notin leaving'
    BY DEF Waiting
  <1> QED
    BY <1>7, <1>8, <1>9 DEF Waiting

\* What a step of the tracer or the application leaves of it.
LEMMA TracerKeepsWaiting ==
    ASSUME SafeInv, SafeInv', ModulesInv, UNCHANGED moduleVars,
           \/ \E t \in Threads : RunBlock(t)
           \/ OtherStep
    PROVE  \A u \in Threads : Waiting(u)'
  <1> SUFFICES ASSUME NEW u \in Threads
               PROVE  Waiting(u)'
    OBVIOUS
  <1>0. /\ Waiting(u) /\ UNCHANGED <<program, modules>>
        /\ TypeOK /\ Room /\ FlushWindow /\ Room'
    BY DEF ModulesInv, moduleVars, SafeInv, FlushInv
  <1> USE <1>0, ControlTypes, OtherWaiting DEF bufferVars, logVars
  <1>1. ASSUME NEW t \in Threads, RunBlock(t)
        PROVE  Waiting(u)'
    <2>1. CASE u # t
      <3>1. ASSUME NEW kind \in Kinds, insertInstrumentation(t, kind)
            PROVE  /\ slots'[u] = slots[u] /\ tlsPtr'[u] = tlsPtr[u]
                   /\ executed'[u] = executed[u]
        BY <2>1, <3>1 DEF insertInstrumentation, SaveEntry, TypeOK
      <3>2. ASSUME NEW n \in 1 .. MaxBlock, NEW kind \in Kinds,
                   FirstInstr(t, n, kind)
            PROVE  Waiting(u)'
        BY <2>1, <3>1, <3>2 DEF FirstInstr
      <3>3. ASSUME NEW kind \in Kinds, LaterInstr(t, kind)
            PROVE  Waiting(u)'
        BY <2>1, <3>1, <3>3 DEF LaterInstr
      <3> QED
        BY <1>1, <3>2, <3>3 DEF RunBlock
    <2>2. CASE u = t
      <3>1. ASSUME NEW n \in 1 .. MaxBlock, NEW kind \in Kinds,
                   FirstInstr(t, n, kind)
            PROVE  Waiting(t)'
        BY <1>1, <2>2, <3>1, JoinsWaiting DEF RunBlock, FirstInstr
      <3>2. ASSUME NEW kind \in Kinds, LaterInstr(t, kind),
                   LibraryOf(t, executed[t] + 1) = LibraryOf(t, executed[t])
            PROVE  Waiting(t)'
        BY <1>1, <2>2, <3>2, JoinsWaiting DEF RunBlock, LaterInstr
      <3> QED
        BY <1>1, <2>2, <3>1, <3>2 DEF RunBlock
    <2> QED
      BY <2>1, <2>2
  <1>2. ASSUME NEW t \in Threads, \/ eventThreadInit(t)
                                  \/ CloseTrace(t)
        PROVE  Waiting(u)'
    <2>1. CASE u # t
      BY <1>2, <2>1 DEF eventThreadInit, CloseTrace
    <2>2. CASE u = t
      <3>1. Unwritten(t)' = {}
        BY <1>2, <2>2 DEF eventThreadInit, CloseTrace, Room, Unwritten
      <3> QED
        BY <1>2, <2>2, <3>1 DEF eventThreadInit, CloseTrace, Waiting
    <2> QED
      BY <2>1, <2>2
  <1>3. ASSUME NEW t \in Threads, ResetPointer(t)
        PROVE  Waiting(u)'
    <2>1. CASE u # t
      BY <1>3, <2>1 DEF ResetPointer, Rewind
    <2>2. CASE u = t
      <3>1. tlsPtr'[t] = 0 /\ pc'[t] \in {"app", "close"}
        BY <1>3 DEF ResetPointer, Rewind
      <3>2. Unwritten(t)' = {}
        BY <3>1 DEF Unwritten
      <3> QED
        BY <1>3, <2>2, <3>1, <3>2 DEF ResetPointer, Waiting
    <2> QED
      BY <2>1, <2>2
  <1>4. ASSUME NEW t \in Threads, \/ dr_mutex_lock(t)
                                  \/ WriteOwn(t)
                                  \/ WriteHeader(t)
                                  \/ WriteEntry(t)
                                  \/ dr_mutex_unlock(t)
        PROVE  Waiting(u)'
    <2>1. CASE u # t
      BY <1>4, <2>1 DEF dr_mutex_lock, WriteOwn, WriteHeader, WriteEntry,
                        dr_mutex_unlock
    <2>2. CASE u = t
      <3>1. /\ AtBlockHead(t)' = AtBlockHead(t)
            /\ executed' = executed /\ leaving' = leaving /\ slots' = slots
            /\ tlsPtr' = tlsPtr /\ process' = process
            /\ pc[t] \notin {"unborn", "app"} /\ pc'[t] \notin {"unborn", "app"}
        BY <1>4 DEF dr_mutex_lock, WriteOwn, WriteHeader, WriteEntry,
                    dr_mutex_unlock, AtBlockHead
      <3>2. Running(t)' = Running(t)
        BY <3>1 DEF Running, LibraryOf
      <3>3. Unwritten(t)' \subseteq Unwritten(t)
        BY <1>4 DEF dr_mutex_lock, WriteOwn, WriteHeader, WriteEntry,
                    dr_mutex_unlock, Unwritten
      <3> QED
        BY <2>2, <3>1, <3>2, <3>3, StillWaiting
    <2> QED
      BY <2>1, <2>2
  <1>5. ASSUME NEW t \in Threads, eventThreadExit(t) \/ StopWaiting(t)
        PROVE  Waiting(u)'
    <2>1. CASE u # t
      BY <1>5, <2>1 DEF eventThreadExit, StopWaiting
    <2>2. CASE u = t
      <3>1. /\ Unwritten(t)' = Unwritten(t) /\ slots' = slots
            /\ pc'[t] = "lock" /\ process' = process
        BY <1>5 DEF eventThreadExit, StopWaiting, Unwritten
      <3>2. process' = "running" => Running(t) \subseteq Running(t)'
        BY <1>5 DEF eventThreadExit, StopWaiting, Running, AtBlockHead, LibraryOf
      <3> QED
        BY <2>2, <3>1, <3>2, StillWaiting
    <2> QED
      BY <2>1, <2>2
  <1>6. ASSUME \/ \E t \in Threads : ExitGroup(t)
               \/ eventExit
               \/ Terminated
        PROVE  Waiting(u)'
    BY <1>6 DEF ExitGroup, eventExit, Terminated, vars
  <1> QED
    BY <1>1, <1>2, <1>3, <1>4, <1>5, <1>6 DEF OtherStep, Client, outputInstr

\* Unloading takes no library that a waiting entry is of.
LEMMA UnloadKeepsWaiting ==
    ASSUME SafeInv, ModulesInv, NEW l \in Libraries,
           eventModuleLoad(l) \/ eventModuleUnload(l)
    PROVE  \A t \in Threads : Waiting(t)'
  <1> SUFFICES ASSUME NEW t \in Threads
               PROVE  Waiting(t)'
    OBVIOUS
  <1>1. /\ process = "running" /\ UNCHANGED <<vars, program>> /\ Waiting(t)
    BY DEF eventModuleLoad, eventModuleUnload, ModulesInv
  <1>2. /\ Unwritten(t)' = Unwritten(t) /\ Running(t)' = Running(t)
        /\ \A i \in Unwritten(t) :
               LibraryOf(t, slots[t][i])' = LibraryOf(t, slots[t][i])
    BY <1>1 DEF vars, Unwritten, Running, AtBlockHead, LibraryOf
  <1>3. ASSUME NEW i \in Unwritten(t)
        PROVE  LET k == LibraryOf(t, slots[t][i])
               IN  modules[k] = "loaded" /\ k \in Running(t)
                   /\ (eventModuleUnload(l) => k # l)
    <2>1. pc[t] \notin {"unborn", "done"}
      BY <1>3 DEF Unwritten, SafeInv, FlushInv, Room
    <2>2. /\ modules[LibraryOf(t, slots[t][i])] = "loaded"
          /\ LibraryOf(t, slots[t][i]) \in Running(t)
      BY <1>1, <1>3 DEF Waiting
    <2>3. eventModuleUnload(l) => l \notin Running(t)
      BY <2>1 DEF eventModuleUnload
    <2> QED
      BY <2>2, <2>3
  <1>4. ASSUME NEW k \in Libraries, modules[k] = "loaded", eventModuleUnload(l) => k # l
        PROVE  modules'[k] = "loaded"
    BY <1>4 DEF eventModuleLoad, eventModuleUnload, ModulesInv
  <1>5. \A n : LibraryOf(t, n) \in Libraries
    BY TracerModulesAssumption DEF LibraryOf, ModulesInv
  <1>6. \A i \in Unwritten(t) : modules'[LibraryOf(t, slots[t][i])] = "loaded"
    BY <1>3, <1>4, <1>5
  <1>7. /\ pc' = pc /\ executed' = executed /\ leaving' = leaving
        /\ slots' = slots
    BY <1>1 DEF vars
  <1> QED
    BY <1>1, <1>2, <1>3, <1>6, <1>7 DEF Waiting

\* Every step preserves the invariant.
LEMMA ModulesInductive ==
    ASSUME SafeInv, SafeInv', ModulesInv, [ModulesNext]_allVars
    PROVE  ModulesInv'
  <1>1. ASSUME UNCHANGED moduleVars, (\E t \in Threads : RunBlock(t)) \/ OtherStep
        PROVE  ModulesInv'
    BY <1>1, TracerKeepsWaiting DEF ModulesInv, moduleVars
  <1>2. ASSUME NEW l \in Libraries, eventModuleLoad(l) \/ eventModuleUnload(l)
        PROVE  ModulesInv'
    BY <1>2, UnloadKeepsWaiting DEF ModulesInv, eventModuleLoad, eventModuleUnload
  <1>3. CASE UNCHANGED allVars
    <2>1. \A t \in Threads : Waiting(t)'
      BY <1>3, OtherWaiting DEF allVars, vars, moduleVars, ModulesInv
    <2> QED
      BY <1>3, <2>1 DEF ModulesInv, allVars, moduleVars
  <1> QED
    BY <1>1, <1>2, <1>3 DEF ModulesNext, RunBlock, OtherStep

\* Every entry that is looked up is of a module that is loaded: neither
\* writeTraceEntry nor writeInterleavedTraceEntry dereferences NULL for a
\* library that was unloaded between the recording and the writing.
THEOREM EntriesHaveModules == ModulesSpec => []ModuleLoaded
  <1>1. ModulesInv => ModuleLoaded
    BY DEF ModulesInv, Waiting, ModuleLoaded
  <1>2. SafeInv /\ SafeInv' /\ ModulesInv /\ [ModulesNext]_allVars => ModulesInv'
    BY ModulesInductive
  <1>3. ModulesSpec => []SafeInv
    BY Composition, SafeInvariant, PTL
  <1> QED
    BY <1>1, <1>2, <1>3, ModulesInitially, PTL DEF ModulesSpec
=============================================================================
