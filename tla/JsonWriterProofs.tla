-------------------------- MODULE JsonWriterProofs --------------------------
(***************************************************************************)
(* Proofs about JsonWriter for any number of threads and lists of operands *)
(* of any length: whose frame each trace remembers, and that every log is  *)
(* JSON.  For the second, Leads(s, d, e) says that the text s takes the    *)
(* reader from d to e; texts are composed with LeadsConcat, from pieces of *)
(* a few tokens to a whole entry.                                          *)
(***************************************************************************)
EXTENDS JsonWriter, Induction, SequenceTheorems

-----------------------------------------------------------------------------
(* The frames. *)

\* The inductive invariant.
FrameInv ==
    /\ frame \in [Traces -> Threads \cup {Garbage, NullFrame}]
    /\ OwnFrame

\* An entry of the main module sets the frame of its own trace and of the
\* interleaved one together, and an entry of a library sets neither.
LEMMA LogStep ==
    ASSUME FrameInv, NEW t \in Threads, NEW e \in Entries, LogEntry(t, e)
    PROVE  FrameInv'
  <1>1. CASE e.inMain
    <2> DEFINE bp == IF IsCall(e) THEN NullFrame ELSE t
    <2>1. frame' = [frame EXCEPT ![t] = bp, ![Merged] = bp]
      BY <1>1 DEF LogEntry, SetFrame
    <2>2. bp = t \/ bp = NullFrame
      OBVIOUS
    <2>3. t \in Traces /\ Merged \in Traces /\ t # Merged
      BY JsonWriterAssumption DEF Traces
    <2> HIDE DEF bp
    <2>4. frame' \in [Traces -> Threads \cup {Garbage, NullFrame}]
      BY <2>1, <2>2 DEF FrameInv
    <2>5. /\ frame'[t] = bp /\ frame'[Merged] = bp
          /\ \A u \in Threads \ {t} : frame'[u] = frame[u]
      BY <2>1, <2>3, JsonWriterAssumption DEF FrameInv, Traces
    <2>6. ASSUME NEW u \in Threads
          PROVE  /\ frame'[u] \notin Threads \ {u}
                 /\ frame'[Merged] = u => frame'[u] = u
      BY <2>2, <2>5, JsonWriterAssumption DEF FrameInv, OwnFrame
    <2> QED
      BY <2>4, <2>6 DEF FrameInv, OwnFrame
  <1>2. CASE ~e.inMain
    BY <1>2 DEF LogEntry, FrameInv, OwnFrame
  <1> QED
    BY <1>1, <1>2

\* Whatever the threads execute and in whatever order they log it, a thread's
\* own trace remembers that thread's frame, or none, and agrees with the
\* interleaved trace as long as that one remembers the thread's too.
THEOREM FramesOwned == Spec => []OwnFrame
  <1>1. Init => FrameInv
    BY JsonWriterAssumption DEF Init, FrameInv, OwnFrame, Traces
  <1>2. ASSUME FrameInv, [Next]_vars
        PROVE  FrameInv'
    <2>1. CASE UNCHANGED frame
      BY <1>2, <2>1 DEF FrameInv, OwnFrame
    <2>2. ASSUME NEW t \in Threads, NEW e \in Entries, LogEntry(t, e)
          PROVE  FrameInv'
      BY <1>2, <2>2, LogStep
    <2>3. \/ UNCHANGED frame
          \/ \E t \in Threads, e \in Entries : LogEntry(t, e)
      BY <1>2
      DEF Next, Ended, vars, OpenInterleaved, OpenOwn, createTraceFile,
          CloseOwn, CloseInterleaved, destroyTraceFile
    <2> QED
      BY <2>1, <2>2, <2>3
  <1>3. FrameInv => OwnFrame
    BY DEF FrameInv
  <1> QED
    BY <1>1, <1>2, <1>3, PTL DEF Spec

-----------------------------------------------------------------------------
(* What Printed computes, and how texts are composed. *)

Tokens == {"[", "]", "{", "}", ",", "member", "key"}
Brackets == {"array", "object"}
Stacks == Seq(Brackets)
Places == {"value", "firstValue", "firstKey", "nextKey", "sep", "broken"}
Docs == [stack : Stacks, next : Places]
At(stack, next) == [stack |-> stack, next |-> next]

\* An open bracket is what the matching one closes.
LEMMA PopPush ==
    ASSUME NEW k \in Stacks, NEW b \in Brackets
    PROVE  LET d == At(Append(k, b), "sep")
           IN  Append(k, b) \in Stacks /\ Top(d) = b /\ Pop(d) = k
  <1> DEFINE s == Append(k, b)
  <1>1. /\ s \in Seq(Brackets) /\ Len(s) = Len(k) + 1 /\ Len(k) \in Nat
        /\ \A i \in 1 .. Len(k) : s[i] = k[i]
        /\ s[Len(s)] = b
    BY AppendProperties DEF Stacks
  <1> HIDE DEF s
  <1>2. s # <<>>
    BY <1>1
  <1>3. SubSeq(s, 1, Len(k)) \in Stacks /\ Len(SubSeq(s, 1, Len(k))) = Len(k)
        /\ \A i \in 1 .. Len(k) : SubSeq(s, 1, Len(k))[i] = s[i]
    BY <1>1 DEF Stacks
  <1>4. SubSeq(s, 1, Len(k)) = k
    BY <1>1, <1>3, SeqEqual DEF Stacks
  <1> QED
    BY <1>1, <1>2, <1>4 DEF Top, Pop, At, s, Stacks

\* Reading a token leads from a state of the reader to one.
LEMMA ReadType ==
    ASSUME NEW d \in Docs, NEW token \in Tokens
    PROVE  Read(d, token) \in Docs
  <1>1. d.stack \in Stacks /\ d.next \in Places
    BY DEF Docs
  <1>2. Push(d, "array") \in Stacks /\ Push(d, "object") \in Stacks
    BY <1>1 DEF Push, Stacks, Brackets
  <1>3. ASSUME d.stack # <<>>
        PROVE  Pop(d) \in Stacks
    <2>1. Len(d.stack) \in Nat /\ Len(d.stack) # 0
      BY <1>1, <1>3, EmptySeq, LenProperties DEF Stacks
    <2>2. Len(d.stack) - 1 \in Nat /\ Len(d.stack) - 1 <= Len(d.stack)
      BY <2>1
    <2> QED
      BY <1>1, <2>1, <2>2, SubSeqProperties DEF Pop, Stacks
  <1>4. Top(d) \in Brackets => d.stack # <<>>
    BY DEF Top, Brackets
  <1>5. <<>> \in Stacks
    BY DEF Stacks
  <1> QED
    BY <1>1, <1>2, <1>3, <1>4, <1>5, Zenon DEF Read, Docs, Places, Broken, Brackets

\* What Printed computes: one Read for each token, from left to right.
LEMMA PrintedRun ==
    ASSUME NEW d \in Docs, NEW tokens \in Seq(Tokens)
    PROVE  \E run \in [0 .. Len(tokens) -> Docs] :
               /\ run[0] = d
               /\ \A n \in 1 .. Len(tokens) : run[n] = Read(run[n - 1], tokens[n])
               /\ Printed(d, tokens) = run[Len(tokens)]
  <1> DEFINE len == Len(tokens)
             Steps(f) == [n \in 0 .. len |-> IF n = 0 THEN d
                                             ELSE Read(f[n - 1], tokens[n])]
             after == CHOOSE f : f = Steps(f)
             step == [n \in 1 .. len |-> [x \in Docs |-> Read(x, tokens[n])]]
  <1>1. len \in Nat /\ \A n \in 1 .. len : tokens[n] \in Tokens
    BY LenProperties, ElementOfSeq
  <1> HIDE DEF len
  <1>2. \A n \in 1 .. len : \A x \in Docs : step[n][x] = Read(x, tokens[n])
    OBVIOUS
  <1> HIDE DEF step
  <1>3. PICK f : RunOf(f, len, Docs, d, step)
    <2>1. Recursion(len, Docs, d, step)
      BY <1>1, <1>2, ReadType DEF Recursion
    <2> QED
      BY <2>1, RecursionExists
  <1>4. /\ f \in [0 .. len -> Docs] /\ f[0] = d
        /\ \A n \in 1 .. len : f[n] = Read(f[n - 1], tokens[n])
    <2>1. \A n \in 1 .. len : n - 1 \in 0 .. len
      BY <1>1
    <2> QED
      BY <1>2, <1>3, <2>1 DEF RunOf
  <1>5. f = Steps(f)
    BY <1>1, <1>4
  <1>6. after = Steps(after)
    <2> HIDE DEF Steps
    <2> QED
      BY <1>5
  <1> HIDE DEF after
  <1>7. /\ after[0] = d
        /\ \A n \in 1 .. len : after[n] = Read(after[n - 1], tokens[n])
    BY <1>1, <1>6
  <1>8. after \in [0 .. len -> Docs]
    <2> DEFINE T == {n \in 0 .. len : after[n] \in Docs}
    <2>1. 0 \in T
      BY <1>1, <1>7
    <2>2. ASSUME NEW n \in 0 .. len - 1, n \in T
          PROVE  n + 1 \in T
      <3>1. after[n + 1] = Read(after[n], tokens[n + 1])
        BY <1>1, <1>7
      <3> QED
        BY <1>1, <2>2, <3>1, ReadType
    <2>3. 0 .. len \subseteq T
      <3> HIDE DEF T
      <3> QED
        BY <1>1, <2>1, <2>2, BoundedInduction
    <2> QED
      BY <1>6, <2>3
  <1>9. Printed(d, tokens) = after[len]
    BY DEF Printed, after, len
  <1> QED
    BY <1>7, <1>8, <1>9 DEF len

\* Printing continues where the text printed before has left the document.
LEMMA PrintedConcat ==
    ASSUME NEW d \in Docs, NEW s \in Seq(Tokens), NEW t \in Seq(Tokens)
    PROVE  /\ s \o t \in Seq(Tokens)
           /\ Printed(d, s) \in Docs
           /\ Printed(d, s \o t) = Printed(Printed(d, s), t)
  <1> DEFINE u == s \o t
  <1>1. /\ u \in Seq(Tokens) /\ Len(u) = Len(s) + Len(t)
        /\ Len(s) \in Nat /\ Len(t) \in Nat
        /\ \A i \in 1 .. Len(s) : u[i] = s[i]
        /\ \A i \in 1 .. Len(t) : u[Len(s) + i] = t[i]
    BY ConcatProperties, LenProperties
  <1> HIDE DEF u
  <1>2. PICK run \in [0 .. Len(u) -> Docs] :
            /\ run[0] = d
            /\ \A n \in 1 .. Len(u) : run[n] = Read(run[n - 1], u[n])
            /\ Printed(d, u) = run[Len(u)]
    BY <1>1, PrintedRun
  <1>3. PICK first \in [0 .. Len(s) -> Docs] :
            /\ first[0] = d
            /\ \A n \in 1 .. Len(s) : first[n] = Read(first[n - 1], s[n])
            /\ Printed(d, s) = first[Len(s)]
    BY PrintedRun
  <1>4. Printed(d, s) \in Docs
    BY <1>1, <1>3
  <1>5. PICK then \in [0 .. Len(t) -> Docs] :
            /\ then[0] = Printed(d, s)
            /\ \A n \in 1 .. Len(t) : then[n] = Read(then[n - 1], t[n])
            /\ Printed(Printed(d, s), t) = then[Len(t)]
    BY <1>4, PrintedRun
  <1>6. run[Len(s)] = first[Len(s)]
    <2> DEFINE T == {n \in 0 .. Len(s) : run[n] = first[n]}
    <2>1. 0 \in T
      BY <1>1, <1>2, <1>3
    <2>2. ASSUME NEW n \in 0 .. Len(s) - 1, n \in T
          PROVE  n + 1 \in T
      <3>1. n + 1 \in 1 .. Len(s) /\ n + 1 \in 1 .. Len(u) /\ (n + 1) - 1 = n
        BY <1>1
      <3>2. run[n + 1] = Read(run[n], u[n + 1]) /\ first[n + 1] = Read(first[n], s[n + 1])
        BY <1>2, <1>3, <3>1
      <3> QED
        BY <1>1, <2>2, <3>1, <3>2
    <2>3. 0 .. Len(s) \subseteq T
      <3> HIDE DEF T
      <3> QED
        BY <1>1, <2>1, <2>2, BoundedInduction
    <2> QED
      BY <1>1, <2>3
  <1>7. run[Len(s) + Len(t)] = then[Len(t)]
    <2> DEFINE T == {n \in 0 .. Len(t) : run[Len(s) + n] = then[n]}
    <2>1. 0 \in T
      BY <1>1, <1>3, <1>5, <1>6
    <2>2. ASSUME NEW n \in 0 .. Len(t) - 1, n \in T
          PROVE  n + 1 \in T
      <3>1. /\ n + 1 \in 1 .. Len(t) /\ Len(s) + (n + 1) \in 1 .. Len(u)
            /\ (n + 1) - 1 = n /\ (Len(s) + (n + 1)) - 1 = Len(s) + n
        BY <1>1
      <3>2. /\ run[Len(s) + (n + 1)] = Read(run[Len(s) + n], u[Len(s) + (n + 1)])
            /\ then[n + 1] = Read(then[n], t[n + 1])
        BY <1>2, <1>5, <3>1
      <3> QED
        BY <1>1, <2>2, <3>1, <3>2
    <2>3. 0 .. Len(t) \subseteq T
      <3> HIDE DEF T
      <3> QED
        BY <1>1, <2>1, <2>2, BoundedInduction
    <2>4. Len(t) \in 0 .. Len(t)
      BY <1>1
    <2>5. Len(t) \in T
      BY <2>3, <2>4, Zenon
    <2> QED
      BY <2>5
  <1> QED
    BY <1>1, <1>2, <1>4, <1>5, <1>7 DEF u

\* What the reader does where the printer stands.
LEMMA ReadAt ==
    ASSUME NEW k \in Stacks, NEW first \in {"value", "firstValue"}
    PROVE  LET o == Append(k, "object")
               a == Append(k, "array")
           IN  /\ Read(At(k, first), "{") = At(o, "firstKey")
               /\ Read(At(k, first), "[") = At(a, "firstValue")
               /\ Read(At(o, "firstKey"), "member") = At(o, "sep")
               /\ Read(At(o, "nextKey"), "member") = At(o, "sep")
               /\ Read(At(o, "nextKey"), "key") = At(o, "value")
               /\ Read(At(o, "sep"), ",") = At(o, "nextKey")
               /\ Read(At(a, "sep"), ",") = At(a, "value")
               /\ Read(At(o, "sep"), "}") = At(k, "sep")
               /\ Read(At(a, "sep"), "]") = At(k, "sep")
               /\ Read(At(a, "firstValue"), "]") = At(k, "sep")
  <1> DEFINE o == Append(k, "object")
             a == Append(k, "array")
  <1>1. /\ \A n \in Places : Top(At(o, n)) = "object" /\ Pop(At(o, n)) = k
        /\ \A n \in Places : Top(At(a, n)) = "array" /\ Pop(At(a, n)) = k
    BY PopPush DEF At, Top, Pop, Brackets
  <1>2. o # <<>> /\ a # <<>>
    BY AppendProperties DEF Stacks, Brackets
  <1>3. /\ Push(At(k, first), "object") = o /\ Push(At(k, first), "array") = a
    BY DEF Push, At
  <1>4. \A n \in Places : /\ At(o, n).next = n /\ At(o, n).stack = o
                          /\ At(a, n).next = n /\ At(a, n).stack = a
    BY DEF At
  <1>5. At(k, first).next = first
    BY DEF At
  <1> HIDE DEF o, a
  <1>6. /\ Read(At(k, first), "{") = At(o, "firstKey")
        /\ Read(At(k, first), "[") = At(a, "firstValue")
    BY <1>3, <1>5 DEF Read, At
  <1>7. /\ Read(At(o, "firstKey"), "member") = At(o, "sep")
        /\ Read(At(o, "nextKey"), "member") = At(o, "sep")
        /\ Read(At(o, "nextKey"), "key") = At(o, "value")
    BY DEF Read, At
  <1>8. /\ Read(At(o, "sep"), ",") = At(o, "nextKey")
        /\ Read(At(a, "sep"), ",") = At(a, "value")
    BY <1>1, <1>2, <1>4 DEF Read, At, Places
  <1>9. /\ Read(At(o, "sep"), "}") = At(k, "sep")
        /\ Read(At(a, "sep"), "]") = At(k, "sep")
        /\ Read(At(a, "firstValue"), "]") = At(k, "sep")
    BY <1>1, <1>2, <1>4 DEF Read, At, Places
  <1> QED
    BY <1>6, <1>7, <1>8, <1>9 DEF o, a

\* The text s takes the document from d to e.
Leads(s, d, e) ==
    /\ d \in Docs /\ e \in Docs /\ s \in Seq(Tokens)
    /\ Printed(d, s) = e

\* A text that can stand wherever a value can.
IsValue(s) ==
    \A k \in Stacks : \A first \in {"value", "firstValue"} :
        Leads(s, At(k, first), At(k, "sep"))

\* What two pieces lead to, one after the other.
LEMMA LeadsConcat ==
    ASSUME NEW s, NEW t, NEW d, NEW e, NEW f, Leads(s, d, e), Leads(t, e, f)
    PROVE  Leads(s \o t, d, f)
  <1>1. s \o t \in Seq(Tokens) /\ Printed(d, s \o t) = Printed(Printed(d, s), t)
    BY PrintedConcat DEF Leads
  <1> QED
    BY <1>1 DEF Leads

\* The places inside an object or an array that was opened anywhere.
LEMMA StandsAt ==
    ASSUME NEW k \in Stacks
    PROVE  /\ Append(k, "object") \in Stacks /\ Append(k, "array") \in Stacks
           /\ \A n \in Places : /\ At(k, n) \in Docs
                                /\ At(Append(k, "object"), n) \in Docs
                                /\ At(Append(k, "array"), n) \in Docs
  <1>1. Append(k, "object") \in Stacks /\ Append(k, "array") \in Stacks
    BY DEF Stacks, Brackets
  <1> QED
    BY <1>1 DEF At, Docs

\* Texts of at most two tokens.
LEMMA LeadsTokens ==
    ASSUME NEW d \in Docs, NEW x \in Tokens, NEW y \in Tokens,
           Read(d, x) \in Docs, Read(Read(d, x), y) \in Docs
    PROVE  /\ Leads(<<>>, d, d)
           /\ Leads(<<x>>, d, Read(d, x))
           /\ Leads(<<x, y>>, d, Read(Read(d, x), y))
  <1>1. ASSUME NEW s \in Seq(Tokens), Len(s) = 0
        PROVE  Printed(d, s) = d
    <2>1. PICK run \in [0 .. Len(s) -> Docs] :
              run[0] = d /\ Printed(d, s) = run[Len(s)]
      BY PrintedRun
    <2> QED
      BY <1>1, <2>1
  <1>2. ASSUME NEW s \in Seq(Tokens), Len(s) = 1, s[1] = x
        PROVE  Printed(d, s) = Read(d, x)
    BY <1>2, PrintedRun
  <1>3. ASSUME NEW s \in Seq(Tokens), Len(s) = 2, s[1] = x, s[2] = y
        PROVE  Printed(d, s) = Read(Read(d, x), y)
    BY <1>3, PrintedRun
  <1>4. <<>> \in Seq(Tokens) /\ Len(<<>>) = 0
    OBVIOUS
  <1>5. <<x>> \in Seq(Tokens) /\ Len(<<x>>) = 1 /\ <<x>>[1] = x
    OBVIOUS
  <1>6. /\ <<x, y>> \in Seq(Tokens) /\ Len(<<x, y>>) = 2
        /\ <<x, y>>[1] = x /\ <<x, y>>[2] = y
    OBVIOUS
  <1>7. Leads(<<>>, d, d)
    BY <1>1, <1>4 DEF Leads
  <1>8. Leads(<<x>>, d, Read(d, x))
    BY <1>2, <1>5 DEF Leads
  <1>9. Leads(<<x, y>>, d, Read(Read(d, x), y))
    BY <1>3, <1>6 DEF Leads
  <1> QED
    BY <1>7, <1>8, <1>9

\* Pieces of at most two tokens.
LEMMA Pieces ==
    ASSUME NEW k \in Stacks, NEW first \in {"value", "firstValue"}
    PROVE  LET o == Append(k, "object")
               a == Append(k, "array")
           IN  /\ Leads(<<"{", "member">>, At(k, first), At(o, "sep"))
               /\ Leads(<<",", "member">>, At(o, "sep"), At(o, "sep"))
               /\ Leads(<<",", "key">>, At(o, "sep"), At(o, "value"))
               /\ Leads(<<",">>, At(o, "sep"), At(o, "nextKey"))
               /\ Leads(<<",">>, At(a, "sep"), At(a, "value"))
               /\ Leads(<<"member">>, At(o, "nextKey"), At(o, "sep"))
               /\ Leads(<<"key", "[">>, At(o, "nextKey"),
                        At(Append(o, "array"), "firstValue"))
               /\ Leads(<<"}">>, At(o, "sep"), At(k, "sep"))
               /\ Leads(<<"]", "}">>, At(Append(o, "array"), "sep"),
                        At(k, "sep"))
               /\ Leads(<<"]", "}">>, At(Append(o, "array"), "firstValue"),
                        At(k, "sep"))
               /\ Leads(<<>>, At(o, "sep"), At(o, "sep"))
  <1> DEFINE o == Append(k, "object")
             a == Append(k, "array")
  <1>1. o \in Stacks /\ \A n \in Places : At(k, n) \in Docs /\ At(o, n) \in Docs
                                          /\ At(a, n) \in Docs
    BY StandsAt
  <1>2. \A n \in Places : At(Append(o, "array"), n) \in Docs
    BY <1>1, StandsAt
  <1>3. ASSUME NEW d \in Docs, NEW e \in Docs, NEW f \in Docs,
               NEW x \in Tokens, NEW y \in Tokens, Read(d, x) = e
        PROVE  /\ Leads(<<x>>, d, e)
               /\ Read(e, y) = f => Leads(<<x, y>>, d, f)
    <2>1. Read(d, x) \in Docs /\ Read(Read(d, x), y) \in Docs
      BY ReadType
    <2>2. Leads(<<>>, d, d) /\ Leads(<<x>>, d, Read(d, x))
          /\ Leads(<<x, y>>, d, Read(Read(d, x), y))
      BY <2>1, LeadsTokens
    <2> QED
      BY <1>3, <2>2
  <1>4. /\ \A x \in {"{", "}", "[", "]", ",", "member", "key"} : x \in Tokens
        /\ \A n \in {"value", "firstValue", "firstKey", "nextKey", "sep"} : n \in Places
        /\ first \in Places
    BY DEF Tokens, Places
  <1> HIDE DEF o, a
  <1>5. /\ Leads(<<"{", "member">>, At(k, first), At(o, "sep"))
        /\ Leads(<<",", "member">>, At(o, "sep"), At(o, "sep"))
        /\ Leads(<<",", "key">>, At(o, "sep"), At(o, "value"))
    BY <1>4, <1>1, <1>3, ReadAt DEF o
  <1>6. /\ Leads(<<",">>, At(o, "sep"), At(o, "nextKey"))
        /\ Leads(<<",">>, At(a, "sep"), At(a, "value"))
        /\ Leads(<<"member">>, At(o, "nextKey"), At(o, "sep"))
        /\ Leads(<<"}">>, At(o, "sep"), At(k, "sep"))
    BY <1>4, <1>1, <1>3, ReadAt DEF o, a
  <1>7. Leads(<<>>, At(o, "sep"), At(o, "sep"))
    BY <1>4, <1>1, ReadType, LeadsTokens
  <1>8. /\ Leads(<<"key", "[">>, At(o, "nextKey"), At(Append(o, "array"), "firstValue"))
        /\ Leads(<<"]", "}">>, At(Append(o, "array"), "sep"), At(k, "sep"))
        /\ Leads(<<"]", "}">>, At(Append(o, "array"), "firstValue"), At(k, "sep"))
    <2>1. /\ Read(At(o, "nextKey"), "key") = At(o, "value")
          /\ Read(At(o, "sep"), "}") = At(k, "sep")
      BY ReadAt DEF o
    <2>2. /\ Read(At(o, "value"), "[") = At(Append(o, "array"), "firstValue")
          /\ Read(At(Append(o, "array"), "sep"), "]") = At(o, "sep")
          /\ Read(At(Append(o, "array"), "firstValue"), "]") = At(o, "sep")
      BY <1>1, ReadAt
    <2> QED
      BY <1>4, <1>1, <1>2, <1>3, <2>1, <2>2
  <1> QED
    BY <1>5, <1>6, <1>8, <1>7 DEF o, a

-----------------------------------------------------------------------------
\* The texts of more tokens.
LEMMA LeadsSix ==
    ASSUME NEW d1 \in Docs, NEW d2 \in Docs, NEW d3 \in Docs, NEW d4 \in Docs,
           NEW d5 \in Docs, NEW d6 \in Docs, NEW d7 \in Docs,
           NEW a \in Tokens, NEW b \in Tokens, NEW c \in Tokens,
           NEW x \in Tokens, NEW y \in Tokens, NEW z \in Tokens,
           Read(d1, a) = d2, Read(d2, b) = d3, Read(d3, c) = d4, Read(d4, x) = d5
    PROVE  /\ Leads(<<a, b, c, x>>, d1, d5)
           /\ Read(d5, y) = d6 => Leads(<<a, b, c, x, y>>, d1, d6)
           /\ Read(d5, y) = d6 /\ Read(d6, z) = d7 =>
                  Leads(<<a, b, c, x, y, z>>, d1, d7)
  <1>1. ASSUME NEW s \in Seq(Tokens), Len(s) >= 4,
               s[1] = a, s[2] = b, s[3] = c, s[4] = x,
               Len(s) >= 5 => Read(d5, s[5]) = d6,
               Len(s) >= 6 => Read(d6, s[6]) = d7
        PROVE  /\ Len(s) = 4 => Leads(s, d1, d5)
               /\ Len(s) = 5 => Leads(s, d1, d6)
               /\ Len(s) = 6 => Leads(s, d1, d7)
    <2>1. PICK run \in [0 .. Len(s) -> Docs] :
              /\ run[0] = d1
              /\ \A n \in 1 .. Len(s) : run[n] = Read(run[n - 1], s[n])
              /\ Printed(d1, s) = run[Len(s)]
      BY PrintedRun
    <2>2. Len(s) \in Nat
      BY LenProperties
    <2>3. run[1] = d2 /\ run[2] = d3 /\ run[3] = d4 /\ run[4] = d5
      <3>1. \A n \in {1, 2, 3, 4} : run[n] = Read(run[n - 1], s[n])
        BY <1>1, <2>1, <2>2
      <3>2. run[1] = Read(run[0], s[1]) /\ run[2] = Read(run[1], s[2])
            /\ run[3] = Read(run[2], s[3]) /\ run[4] = Read(run[3], s[4])
        BY <3>1
      <3> QED
        BY <1>1, <2>1, <3>2
    <2>4. Len(s) >= 5 => run[5] = d6
      <3>1. Len(s) >= 5 => run[5] = Read(run[4], s[5])
        BY <2>1, <2>2
      <3> QED
        BY <1>1, <2>3, <3>1
    <2>5. Len(s) >= 6 => run[6] = d7
      <3>1. Len(s) >= 6 => run[6] = Read(run[5], s[6]) /\ Len(s) >= 5
        BY <2>1, <2>2
      <3> QED
        BY <1>1, <2>4, <3>1
    <2>6. ASSUME Len(s) = 4
          PROVE  Leads(s, d1, d5)
      BY <2>1, <2>3, <2>6 DEF Leads
    <2>7. ASSUME Len(s) = 5
          PROVE  Leads(s, d1, d6)
      <3>1. run[5] = d6
        BY <2>4, <2>7
      <3> QED
        BY <2>1, <2>7, <3>1 DEF Leads
    <2>8. ASSUME Len(s) = 6
          PROVE  Leads(s, d1, d7)
      <3>1. run[6] = d7
        BY <2>5, <2>8
      <3> QED
        BY <2>1, <2>8, <3>1 DEF Leads
    <2> QED
      BY <2>6, <2>7, <2>8
  <1>2. Leads(<<a, b, c, x>>, d1, d5)
    <2> DEFINE s == <<a, b, c, x>>
    <2>1. s \in Seq(Tokens) /\ Len(s) = 4
          /\ s[1] = a /\ s[2] = b /\ s[3] = c /\ s[4] = x
      OBVIOUS
    <2> HIDE DEF s
    <2>2. Leads(s, d1, d5)
      BY <1>1, <2>1
    <2> QED
      BY <2>2 DEF s
  <1>3. ASSUME Read(d5, y) = d6
        PROVE  Leads(<<a, b, c, x, y>>, d1, d6)
    <2> DEFINE s == <<a, b, c, x, y>>
    <2>1. s \in Seq(Tokens) /\ Len(s) = 5
          /\ s[1] = a /\ s[2] = b /\ s[3] = c /\ s[4] = x /\ s[5] = y
      OBVIOUS
    <2> HIDE DEF s
    <2>2. Leads(s, d1, d6)
      BY <1>1, <1>3, <2>1
    <2> QED
      BY <2>2 DEF s
  <1>4. ASSUME Read(d5, y) = d6, Read(d6, z) = d7
        PROVE  Leads(<<a, b, c, x, y, z>>, d1, d7)
    <2> DEFINE s == <<a, b, c, x, y, z>>
    <2>1. s \in Seq(Tokens) /\ Len(s) = 6
          /\ s[1] = a /\ s[2] = b /\ s[3] = c /\ s[4] = x /\ s[5] = y /\ s[6] = z
      OBVIOUS
    <2> HIDE DEF s
    <2>2. Read(d5, s[5]) = d6 /\ Read(d6, s[6]) = d7 /\ Len(s) >= 4
      BY <1>4, <2>1
    <2>3. Leads(s, d1, d7)
      <3> HIDE <1>4
      <3> QED
        BY <1>1, <2>1, <2>2
    <2> QED
      BY <2>3 DEF s
  <1> QED
    BY <1>2, <1>3, <1>4

\* What is printed in one piece to open an object or to continue it.
LEMMA LongPieces ==
    ASSUME NEW k \in Stacks, NEW first \in {"value", "firstValue"}
    PROVE  LET o == Append(k, "object")
           IN  /\ Leads(<<"{", "member", ",", "key">>, At(k, first), At(o, "value"))
               /\ Leads(<<"member", ",", "member", ",">>, At(o, "nextKey"), At(o, "nextKey"))
               /\ Leads(<<"{", "member", ",", "member", "}">>, At(k, first), At(k, "sep"))
               /\ Leads(<<"{", "member", ",", "member", ",", "key">>,
                        At(k, first), At(o, "value"))
  <1> DEFINE o == Append(k, "object")
  <1>1. /\ \A x \in {"{", "}", ",", "member", "key"} : x \in Tokens
        /\ \A n \in {"value", "firstValue", "firstKey", "nextKey", "sep"} : n \in Places
        /\ first \in Places
    BY DEF Tokens, Places
  <1>2. o \in Stacks /\ \A n \in Places : At(k, n) \in Docs /\ At(o, n) \in Docs
    BY StandsAt
  <1>3. /\ Read(At(k, first), "{") = At(o, "firstKey")
        /\ Read(At(o, "firstKey"), "member") = At(o, "sep")
        /\ Read(At(o, "nextKey"), "member") = At(o, "sep")
        /\ Read(At(o, "nextKey"), "key") = At(o, "value")
        /\ Read(At(o, "sep"), ",") = At(o, "nextKey")
        /\ Read(At(o, "sep"), "}") = At(k, "sep")
    BY ReadAt
  <1> HIDE DEF o
  <1>4. At(k, first) \in Docs /\ At(k, "sep") \in Docs
        /\ At(o, "firstKey") \in Docs /\ At(o, "sep") \in Docs
        /\ At(o, "nextKey") \in Docs /\ At(o, "value") \in Docs
    BY <1>1, <1>2
  <1>5. /\ "{" \in Tokens /\ "}" \in Tokens /\ "," \in Tokens
        /\ "member" \in Tokens /\ "key" \in Tokens
    BY <1>1
  <1>6. Leads(<<"{", "member", ",", "key">>, At(k, first), At(o, "value"))
    BY <1>3, <1>4, <1>5, LeadsSix
  <1>7. Leads(<<"member", ",", "member", ",">>, At(o, "nextKey"), At(o, "nextKey"))
    BY <1>3, <1>4, <1>5, LeadsSix
  <1>8. Leads(<<"{", "member", ",", "member", "}">>, At(k, first), At(k, "sep"))
    BY <1>3, <1>4, <1>5, LeadsSix
  <1>9. Leads(<<"{", "member", ",", "member", ",", "key">>,
              At(k, first), At(o, "value"))
    BY <1>3, <1>4, <1>5, LeadsSix
  <1> QED
    BY <1>6, <1>7, <1>8, <1>9 DEF o

\* An object of a member is a value.
LEMMA ObjectIsValue == IsValue(Object)
  BY LongPieces DEF IsValue, Object

\* So is a variable.
LEMMA VarIsValue == IsValue(writeVar)
  <1> SUFFICES ASSUME NEW k \in Stacks, NEW first \in {"value", "firstValue"}
               PROVE  Leads(writeVar, At(k, first), At(k, "sep"))
    BY DEF IsValue
  <1> DEFINE o == Append(k, "object")
             z == <<"}">>
             s == <<"{", "member", ",", "member", ",", "key">>
  <1>1. Leads(s, At(k, first), At(o, "value")) /\ Leads(z, At(o, "sep"), At(k, "sep"))
    BY Pieces, LongPieces
  <1>2. Leads(Object, At(o, "value"), At(o, "sep"))
    BY ObjectIsValue, StandsAt DEF IsValue
  <1>3. writeVar = s \o Object \o z
    BY DEF writeVar
  <1> HIDE DEF o, z, s
  <1>4. Leads(s \o Object, At(k, first), At(o, "sep"))
    BY <1>1, <1>2, LeadsConcat
  <1> QED
    BY <1>1, <1>3, <1>4, LeadsConcat

\* A text that alternates grows by a pair.
LEMMA Alternate ==
    ASSUME NEW x, NEW y, NEW len \in Nat, len % 2 = 0
    PROVE  [i \in 1 .. len + 2 |-> IF i % 2 = 1 THEN x ELSE y]
           = [i \in 1 .. len |-> IF i % 2 = 1 THEN x ELSE y] \o <<x, y>>
  <1> DEFINE s == [i \in 1 .. len |-> IF i % 2 = 1 THEN x ELSE y]
             t == <<x, y>>
             u == [i \in 1 .. len + 2 |-> IF i % 2 = 1 THEN x ELSE y]
             S == {x, y}
             v == s \o t
  <1>1. (len + 1) % 2 = 1 /\ (len + 2) % 2 = 0
    OBVIOUS
  <1>2. t \in Seq(S) /\ Len(t) = 2 /\ t[1] = x /\ t[2] = y
    OBVIOUS
  <1>3. s \in Seq(S) /\ Len(s) = len
    OBVIOUS
  <1>4. u \in Seq(S) /\ Len(u) = len + 2
    OBVIOUS
  <1>5. /\ u[len + 1] = x /\ u[len + 2] = y
        /\ \A i \in 1 .. len : u[i] = s[i]
    BY <1>1
  <1> HIDE DEF s, t, u, S
  <1>6. /\ v \in Seq(S) /\ Len(v) = len + 2
        /\ \A i \in 1 .. len + 2 : v[i] = IF i <= len THEN s[i] ELSE t[i - len]
    <2>1. /\ v \in Seq(S) /\ Len(v) = Len(s) + Len(t)
          /\ \A i \in 1 .. Len(s) + Len(t) :
                 v[i] = IF i <= Len(s) THEN s[i] ELSE t[i - Len(s)]
      BY <1>2, <1>3, ConcatProperties, Zenon
    <2> HIDE DEF v
    <2> QED
      BY <1>2, <1>3, <2>1
  <1>7. /\ \A i \in 1 .. len : v[i] = s[i]
        /\ v[len + 1] = t[1] /\ v[len + 2] = t[2]
    <2> HIDE DEF v
    <2> QED
      BY <1>6
  <1>8. \A i \in 1 .. len + 2 : i \in 1 .. len \/ i = len + 1 \/ i = len + 2
    OBVIOUS
  <1> HIDE DEF v
  <1>9. \A i \in 1 .. len + 2 : u[i] = v[i]
    BY <1>2, <1>5, <1>7, <1>8
  <1>10. u = v
    BY <1>4, <1>6, <1>9, SeqEqual
  <1> QED
    BY <1>10 DEF s, t, u, v

\* Another member follows the members before it.
LEMMA MembersGrow ==
    ASSUME NEW m \in Nat
    PROVE  /\ Members(0) = <<>>
           /\ Members(m + 1) = Members(m) \o <<",", "member">>
  <1> DEFINE len == 2 * m
  <1>1. len \in Nat /\ 2 * (m + 1) = len + 2 /\ len % 2 = 0
    OBVIOUS
  <1>2. /\ Members(m) = [i \in 1 .. len |-> IF i % 2 = 1 THEN "," ELSE "member"]
        /\ Members(m + 1) = [i \in 1 .. len + 2 |-> IF i % 2 = 1 THEN "," ELSE "member"]
    BY <1>1 DEF Members
  <1> HIDE DEF len
  <1>3. Members(m + 1) = Members(m) \o <<",", "member">>
    <2> DEFINE x == ","
               y == "member"
    <2> HIDE DEF x, y
    <2>1. [i \in 1 .. len + 2 |-> IF i % 2 = 1 THEN x ELSE y]
          = [i \in 1 .. len |-> IF i % 2 = 1 THEN x ELSE y] \o <<x, y>>
      BY <1>1, Alternate
    <2> QED
      BY <1>2, <2>1, Zenon DEF x, y
  <1>4. Members(0) = <<>>
    <2> DEFINE x == ","
               y == "member"
    <2>1. Members(0) = [i \in 1 .. 2 * 0 |-> IF i % 2 = 1 THEN x ELSE y]
      BY Zenon DEF Members
    <2> HIDE DEF x, y
    <2>2. [i \in 1 .. 2 * 0 |-> IF i % 2 = 1 THEN x ELSE y] = <<>>
      OBVIOUS
    <2> QED
      BY <2>1, <2>2
  <1> QED
    BY <1>3, <1>4

\* Any number of members more leave an object where it was.
LEMMA MembersLead ==
    ASSUME NEW k \in Stacks, NEW n \in Nat
    PROVE  LET o == Append(k, "object")
           IN  Leads(Members(n), At(o, "sep"), At(o, "sep"))
  <1> DEFINE o == Append(k, "object")
             T == {m \in Nat : Leads(Members(m), At(o, "sep"), At(o, "sep"))}
  <1>1. 0 \in T
    <2>1. Members(0) = <<>>
      BY MembersGrow
    <2> QED
      BY <2>1, Pieces
  <1>2. ASSUME NEW m \in Nat, m \in T
        PROVE  m + 1 \in T
    <2>1. Leads(<<",", "member">>, At(o, "sep"), At(o, "sep"))
      BY Pieces
    <2>2. Leads(Members(m) \o <<",", "member">>, At(o, "sep"), At(o, "sep"))
      BY <1>2, <2>1, LeadsConcat
    <2>3. Members(m + 1) = Members(m) \o <<",", "member">>
      BY MembersGrow
    <2>4. Leads(Members(m + 1), At(o, "sep"), At(o, "sep"))
      BY <2>2, <2>3, Zenon
    <2>5. m + 1 \in Nat
      OBVIOUS
    <2> QED
      BY <2>4, <2>5, Zenon
  <1>3. Nat \subseteq T
    <2> HIDE DEF T
    <2> QED
      BY <1>1, <1>2, SetInduction
  <1> QED
    BY <1>3

\* Every operand is printed as a value.
LEMMA OperandIsValue ==
    ASSUME NEW kind \in Operands, NEW found \in BOOLEAN
    PROVE  IsValue(writeOpnd(kind, found))
  <1> SUFFICES ASSUME NEW k \in Stacks, NEW first \in {"value", "firstValue"}
               PROVE  Leads(writeOpnd(kind, found), At(k, first), At(k, "sep"))
    BY DEF IsValue
  <1> DEFINE o == Append(k, "object")
             variable == IF found THEN <<",", "key">> \o writeVar ELSE <<>>
  <1>1. PICK n \in Nat :
            writeOpnd(kind, found) =
                <<"{", "member">> \o Members(n) \o variable \o <<"}">>
    BY DEF writeOpnd, Operands
  <1>2. Leads(<<"{", "member">> \o Members(n), At(k, first), At(o, "sep"))
    BY Pieces, MembersLead, LeadsConcat
  <1>3. Leads(variable, At(o, "sep"), At(o, "sep"))
    <2>1. Leads(writeVar, At(o, "value"), At(o, "sep"))
      BY VarIsValue, StandsAt DEF IsValue
    <2>2. Leads(<<",", "key">> \o writeVar, At(o, "sep"), At(o, "sep"))
      BY <2>1, Pieces, LeadsConcat
    <2>3. Leads(<<>>, At(o, "sep"), At(o, "sep"))
      BY Pieces
    <2> QED
      BY <2>2, <2>3
  <1> HIDE DEF variable
  <1>4. Leads(<<"{", "member">> \o Members(n) \o variable, At(k, first), At(o, "sep"))
    BY <1>2, <1>3, LeadsConcat
  <1> QED
    BY <1>1, <1>4, Pieces, LeadsConcat

-----------------------------------------------------------------------------
\* One operand more.
Joined(texts, n, x) == IF n = 1 THEN texts[1] ELSE x \o <<",">> \o texts[n]

\* What Separated computes: one text after the other.
LEMMA SeparatedRun ==
    ASSUME NEW texts \in Seq(Seq(Tokens))
    PROVE  \E run \in [0 .. Len(texts) -> Seq(Tokens)] :
               /\ run[0] = <<>>
               /\ \A n \in 1 .. Len(texts) : run[n] = Joined(texts, n, run[n - 1])
               /\ Separated(texts) = run[Len(texts)]
  <1> DEFINE len == Len(texts)
             Texts == Seq(Tokens)
             Steps(f) == [n \in 0 .. len |-> IF n = 0 THEN <<>>
                                             ELSE Joined(texts, n, f[n - 1])]
             join == CHOOSE f : f = Steps(f)
             step == [n \in 1 .. len |-> [x \in Texts |-> Joined(texts, n, x)]]
  <1>1. len \in Nat /\ \A n \in 1 .. len : texts[n] \in Texts
    BY LenProperties, ElementOfSeq
  <1>2. <<>> \in Texts
    OBVIOUS
  <1>3. \A n \in 1 .. len : \A x \in Texts : Joined(texts, n, x) \in Texts
    <2> SUFFICES ASSUME NEW n \in 1 .. len, NEW x \in Texts
                 PROVE  Joined(texts, n, x) \in Texts
      OBVIOUS
    <2>1. texts[1] \in Texts /\ texts[n] \in Texts
      BY <1>1
    <2>2. <<",">> \in Seq(Tokens)
      <3> DEFINE comma == ","
      <3>1. comma \in Tokens
        BY DEF Tokens
      <3> HIDE DEF comma
      <3>2. <<comma>> \in Seq(Tokens)
        BY <3>1
      <3> QED
        BY <3>2 DEF comma
    <2>3. x \o <<",">> \o texts[n] \in Texts
      BY <2>1, <2>2, ConcatProperties, Zenon
    <2> QED
      BY <2>1, <2>3, Zenon DEF Joined
  <1> HIDE DEF len
  <1>4. \A n \in 1 .. len : \A x \in Texts : step[n][x] = Joined(texts, n, x)
    OBVIOUS
  <1> HIDE DEF step, Texts
  <1>5. PICK f : RunOf(f, len, Texts, <<>>, step)
    <2>1. Recursion(len, Texts, <<>>, step)
      BY <1>1, <1>2, <1>3, <1>4 DEF Recursion
    <2> QED
      BY <2>1, RecursionExists
  <1>6. /\ f \in [0 .. len -> Texts] /\ f[0] = <<>>
        /\ \A n \in 1 .. len : f[n] = Joined(texts, n, f[n - 1])
    <2>1. \A n \in 1 .. len : n - 1 \in 0 .. len
      BY <1>1
    <2> QED
      BY <1>4, <1>5, <2>1 DEF RunOf
  <1>7. f = Steps(f)
    BY <1>1, <1>6
  <1>8. join = Steps(join)
    <2> HIDE DEF Steps
    <2> QED
      BY <1>7
  <1> HIDE DEF join
  <1>9. /\ join[0] = <<>>
        /\ \A n \in 1 .. len : join[n] = Joined(texts, n, join[n - 1])
    BY <1>1, <1>8
  <1>10. join \in [0 .. len -> Texts]
    <2> DEFINE T == {n \in 0 .. len : join[n] \in Texts}
    <2>1. 0 \in T
      BY <1>1, <1>2, <1>9
    <2>2. ASSUME NEW n \in 0 .. len - 1, n \in T
          PROVE  n + 1 \in T
      <3>1. n + 1 \in 1 .. len /\ (n + 1) - 1 = n /\ n + 1 \in 0 .. len
        BY <1>1
      <3>2. join[n + 1] = Joined(texts, n + 1, join[n])
        BY <1>9, <3>1
      <3> QED
        BY <1>3, <2>2, <3>1, <3>2
    <2>3. 0 .. len \subseteq T
      <3> HIDE DEF T
      <3> QED
        BY <1>1, <2>1, <2>2, BoundedInduction
    <2> QED
      BY <1>8, <2>3
  <1>11. Separated(texts) = join[len]
    BY DEF Separated, join, len, Joined
  <1> QED
    BY <1>9, <1>10, <1>11 DEF len, Texts

\* Any number of operands, none included, keeps the array of operands.
LEMMA SeparatedLeads ==
    ASSUME NEW k \in Stacks, NEW texts \in Seq(Seq(Tokens)),
           \A i \in 1 .. Len(texts) : IsValue(texts[i])
    PROVE  LET a == Append(k, "array")
           IN  \/ Leads(Separated(texts), At(a, "firstValue"), At(a, "firstValue"))
               \/ Leads(Separated(texts), At(a, "firstValue"), At(a, "sep"))
  <1> DEFINE a == Append(k, "array")
             len == Len(texts)
  <1>1. len \in Nat
    BY LenProperties
  <1>2. a \in Stacks /\ At(a, "firstValue") \in Docs
    BY StandsAt DEF Places
  <1>3. PICK run \in [0 .. len -> Seq(Tokens)] :
            /\ run[0] = <<>>
            /\ \A n \in 1 .. len : run[n] = Joined(texts, n, run[n - 1])
            /\ Separated(texts) = run[len]
    BY SeparatedRun
  <1>4. Leads(<<",">>, At(a, "sep"), At(a, "value"))
    BY Pieces
  <1> HIDE DEF a
  <1>5. Leads(run[0], At(a, "firstValue"), At(a, "firstValue"))
    <2>1. \E x \in Tokens : /\ Read(At(a, "firstValue"), x) \in Docs
                            /\ Read(Read(At(a, "firstValue"), x), x) \in Docs
      BY <1>2, ReadType DEF Tokens
    <2> QED
      BY <1>2, <1>3, <2>1, LeadsTokens
  <1>6. \A n \in 1 .. len : /\ Leads(texts[n], At(a, "firstValue"), At(a, "sep"))
                            /\ Leads(texts[n], At(a, "value"), At(a, "sep"))
    BY <1>2 DEF IsValue
  <1>7. len = 0 \/ Leads(run[len], At(a, "firstValue"), At(a, "sep"))
    <2> DEFINE T == {n \in 0 .. len :
                        n = 0 \/ Leads(run[n], At(a, "firstValue"), At(a, "sep"))}
    <2>1. 0 \in T
      BY <1>1
    <2>2. ASSUME NEW n \in 0 .. len - 1, n \in T
          PROVE  n + 1 \in T
      <3>1. n + 1 \in 1 .. len /\ (n + 1) - 1 = n /\ n + 1 \in 0 .. len
        BY <1>1
      <3>2. run[n + 1] = Joined(texts, n + 1, run[n])
        BY <1>3, <3>1
      <3>3. CASE n = 0
        <4>1. run[n + 1] = texts[n + 1]
          <5>1. n + 1 = 1
            BY <3>3
          <5> QED
            BY <3>2, <5>1, Zenon DEF Joined
        <4>2. Leads(run[n + 1], At(a, "firstValue"), At(a, "sep"))
          BY <1>6, <3>1, <4>1
        <4> QED
          BY <3>1, <4>2, Zenon
      <3>4. CASE n # 0
        <4>1. n + 1 # 1
          BY <3>4
        <4>2. run[n + 1] = run[n] \o <<",">> \o texts[n + 1]
          BY <3>2, <4>1, Zenon DEF Joined
        <4>3. Leads(run[n], At(a, "firstValue"), At(a, "sep"))
          BY <2>2, <3>4
        <4>4. Leads(run[n] \o <<",">>, At(a, "firstValue"), At(a, "value"))
          BY <1>4, <4>3, LeadsConcat
        <4>5. Leads(texts[n + 1], At(a, "value"), At(a, "sep"))
          BY <1>6, <3>1
        <4>6. Leads(run[n + 1], At(a, "firstValue"), At(a, "sep"))
          BY <4>2, <4>4, <4>5, LeadsConcat, Zenon
        <4> QED
          BY <3>1, <4>6, Zenon
      <3> QED
        BY <3>3, <3>4
    <2>3. 0 .. len \subseteq T
      <3> HIDE DEF T
      <3> QED
        BY <1>1, <2>1, <2>2, BoundedInduction
    <2>4. len \in 0 .. len
      BY <1>1
    <2>5. len \in T
      BY <2>3, <2>4, Zenon
    <2> QED
      BY <2>5
  <1> QED
    BY <1>3, <1>5, <1>7 DEF a

-----------------------------------------------------------------------------
\* The operands of an entry that writeEntry goes through.
LEMMA EntryOperands ==
    ASSUME NEW e \in Entries
    PROVE  /\ e.operands \in Seq(Operands)
           /\ e.file \in BOOLEAN /\ e.variable \in BOOLEAN
  <1>1. e.operands \in OperandLists \cup {<<"target">>}
        /\ e.file \in BOOLEAN /\ e.variable \in BOOLEAN
    BY DEF Entries
  <1>2. ASSUME e.operands \in OperandLists
        PROVE  e.operands \in Seq(Operands)
    <2>1. PICK n \in Nat : e.operands \in [1 .. n -> Operands]
      BY <1>2, JsonWriterAssumption DEF OperandLists
    <2> HIDE DEF Operands
    <2> QED
      BY <2>1
  <1>3. ASSUME e.operands = <<"target">>
        PROVE  e.operands \in Seq(Operands)
    <2> DEFINE target == "target"
    <2>1. target \in Operands
      BY DEF Operands
    <2> HIDE DEF target
    <2>2. <<target>> \in Seq(Operands)
      BY <2>1
    <2> QED
      BY <1>3, <2>2 DEF target
  <1> QED
    BY <1>1, <1>2, <1>3

\* The texts of the operands of an entry.
OperandTexts(e, debug) ==
    [i \in 1 .. Len(e.operands) |->
        writeOpnd(e.operands[i], debug /\ e.variable /\ LooksUp(e.operands[i]))]

\* What is printed for each of them is a value.
LEMMA OperandTextsAreValues ==
    ASSUME NEW e \in Entries, NEW debug \in BOOLEAN
    PROVE  /\ OperandTexts(e, debug) \in Seq(Seq(Tokens))
           /\ \A i \in 1 .. Len(OperandTexts(e, debug)) :
                  IsValue(OperandTexts(e, debug)[i])
  <1> DEFINE len == Len(e.operands)
             Found(i) == debug /\ e.variable /\ LooksUp(e.operands[i])
             Text(i) == writeOpnd(e.operands[i], Found(i))
             s == [i \in 1 .. len |-> Text(i)]
  <1>1. len \in Nat /\ \A i \in 1 .. len : e.operands[i] \in Operands
    BY EntryOperands, LenProperties, ElementOfSeq
  <1>2. \A i \in 1 .. len : Found(i) \in BOOLEAN
    BY EntryOperands DEF LooksUp
  <1> HIDE DEF len, Found
  <1>3. \A i \in 1 .. len : IsValue(Text(i))
    BY <1>1, <1>2, OperandIsValue
  <1>4. \A i \in 1 .. len : Text(i) \in Seq(Tokens)
    <2>1. <<>> \in Stacks
      BY DEF Stacks
    <2> QED
      BY <1>3, <2>1 DEF IsValue, Leads
  <1>5. OperandTexts(e, debug) = s
    BY DEF OperandTexts, len, Found
  <1> HIDE DEF Text
  <1>6. s \in Seq(Seq(Tokens)) /\ Len(s) = len /\ \A i \in 1 .. len : s[i] = Text(i)
    BY <1>1, <1>4
  <1> QED
    BY <1>3, <1>5, <1>6

\* An entry is one value, after the comma if it needs one.
LEMMA EntryLeads ==
    ASSUME NEW e \in Entries, NEW debug \in BOOLEAN, NEW first \in BOOLEAN,
           NEW k \in Stacks, NEW v \in {"value", "firstValue"}, NEW d,
           Leads(Comma(first), d, At(k, v))
    PROVE  Leads(writeTraceEntry(e, first, debug), d, At(k, "sep"))
  <1> DEFINE o == Append(k, "object")
             a == Append(o, "array")
             head == <<"{", "member", ",", "key">>
             comma == <<",">>
             file == IF e.file THEN <<"member", ",", "member", ",">> ELSE <<>>
             open == <<"key", "[">>
             list == Separated(OperandTexts(e, debug))
             close == <<"]", "}">>
  <1>1. o \in Stacks
    BY StandsAt
  <1>2. Leads(head, At(k, v), At(o, "value"))
    BY LongPieces
  <1>3. Leads(Object, At(o, "value"), At(o, "sep"))
    BY <1>1, ObjectIsValue DEF IsValue
  <1>4. Leads(comma, At(o, "sep"), At(o, "nextKey"))
    BY Pieces
  <1>5. Leads(file, At(o, "nextKey"), At(o, "nextKey"))
    <2>1. Leads(<<"member", ",", "member", ",">>, At(o, "nextKey"), At(o, "nextKey"))
      BY LongPieces
    <2>2. Leads(<<>>, At(o, "nextKey"), At(o, "nextKey"))
      <3>1. At(o, "nextKey") \in Docs
        BY StandsAt DEF Places
      <3>2. "," \in Tokens
        BY DEF Tokens
      <3> QED
        BY <3>1, <3>2, ReadType, LeadsTokens
    <2> QED
      BY <2>1, <2>2, Zenon
  <1>6. Leads(open, At(o, "nextKey"), At(a, "firstValue"))
    BY Pieces
  <1>7. \/ Leads(list, At(a, "firstValue"), At(a, "firstValue"))
        \/ Leads(list, At(a, "firstValue"), At(a, "sep"))
    BY <1>1, OperandTextsAreValues, SeparatedLeads
  <1>8. /\ Leads(close, At(a, "firstValue"), At(k, "sep"))
        /\ Leads(close, At(a, "sep"), At(k, "sep"))
    BY Pieces
  <1>9. writeTraceEntry(e, first, debug) =
            Comma(first) \o head \o Object \o comma \o file \o open \o list \o close
    BY DEF writeTraceEntry, OperandTexts
  <1> HIDE DEF o, a, head, comma, file, open, list, close
  <1>10. Leads(Comma(first) \o head, d, At(o, "value"))
    BY <1>2, LeadsConcat
  <1>11. Leads(Comma(first) \o head \o Object, d, At(o, "sep"))
    BY <1>3, <1>10, LeadsConcat
  <1>12. Leads(Comma(first) \o head \o Object \o comma, d, At(o, "nextKey"))
    BY <1>4, <1>11, LeadsConcat
  <1>13. Leads(Comma(first) \o head \o Object \o comma \o file, d, At(o, "nextKey"))
    BY <1>5, <1>12, LeadsConcat
  <1>14. Leads(Comma(first) \o head \o Object \o comma \o file \o open,
               d, At(a, "firstValue"))
    BY <1>6, <1>13, LeadsConcat
  <1>15. \/ Leads(Comma(first) \o head \o Object \o comma \o file \o open \o list,
                  d, At(a, "firstValue"))
         \/ Leads(Comma(first) \o head \o Object \o comma \o file \o open \o list,
                  d, At(a, "sep"))
    BY <1>7, <1>14, LeadsConcat
  <1>16. Leads(Comma(first) \o head \o Object \o comma \o file \o open \o list \o close,
               d, At(k, "sep"))
    BY <1>8, <1>15, LeadsConcat
  <1> QED
    BY <1>9, <1>16, Zenon

\* The entry inside the object of the interleaved trace is never preceded by a
\* comma, wherever in the array the object stands.
LEMMA InterleavedLeads ==
    ASSUME NEW e \in Entries, NEW debug \in BOOLEAN, NEW first \in BOOLEAN,
           NEW k \in Stacks, NEW v \in {"value", "firstValue"}, NEW d,
           Leads(Comma(first), d, At(k, v))
    PROVE  Leads(writeInterleavedTraceEntry(e, first, debug), d, At(k, "sep"))
  <1> DEFINE o == Append(k, "object")
             head == <<"{", "member", ",", "key">>
             entry == writeTraceEntry(e, WrappedFirst(first), debug)
             close == <<"}">>
  <1>1. Leads(head, At(k, v), At(o, "value")) /\ Leads(close, At(o, "sep"), At(k, "sep"))
    BY LongPieces, Pieces
  <1>2. Leads(entry, At(o, "value"), At(o, "sep"))
    <2>1. At(o, "value") \in Docs /\ o \in Stacks
      BY StandsAt DEF Places
    <2>2. "," \in Tokens
      BY DEF Tokens
    <2>3. Leads(<<>>, At(o, "value"), At(o, "value"))
      BY <2>1, <2>2, ReadType, LeadsTokens
    <2>4. WrappedFirst(first) = TRUE /\ Comma(TRUE) = <<>>
      BY DEF WrappedFirst, Comma
    <2> QED
      BY <2>1, <2>3, <2>4, EntryLeads
  <1>3. writeInterleavedTraceEntry(e, first, debug) =
            Comma(first) \o head \o entry \o close
    BY DEF writeInterleavedTraceEntry
  <1> HIDE DEF o, head, entry, close
  <1>4. Leads(Comma(first) \o head, d, At(o, "value"))
    BY <1>1, LeadsConcat
  <1>5. Leads(Comma(first) \o head \o entry, d, At(o, "sep"))
    BY <1>2, <1>4, LeadsConcat
  <1>6. Leads(Comma(first) \o head \o entry \o close, d, At(k, "sep"))
    BY <1>1, <1>5, LeadsConcat
  <1> QED
    BY <1>3, <1>6, Zenon

-----------------------------------------------------------------------------
(* The inductive invariant of the documents. *)

Array == <<"array">>
AfterStart(first) == IF first THEN "firstValue" ELSE "sep"

\* TypeOK and WellFormed, with what the documents are in general and where the
\* last closing bracket of a process that crashed left its trace.
DocsInv ==
    /\ TypeOK
    /\ doc \in [Traces -> Docs]
    /\ \A f \in Traces :
           /\ status[f] = "none" => doc[f] = Start
           /\ status[f] = "open" =>
                  \/ doc[f] = At(Array, AfterStart(firstLine[f]))
                  \/ crashed # "none" /\ doc[f] = Complete
           /\ status[f] = "closed" => doc[f] = Complete

\* In the array of a document no other bracket is open.
LEMMA ArrayInEmpty ==
    /\ <<>> \in Stacks /\ Array \in Stacks /\ Array = Append(<<>>, "array")
    /\ Start = At(<<>>, "value") /\ Complete = At(<<>>, "sep")
  <1>1. ASSUME NEW S, NEW b \in S
        PROVE  Append(<<>>, b) = <<b>> /\ <<b>> \in Seq(S)
    OBVIOUS
  <1>2. "array" \in Brackets
    BY DEF Brackets
  <1>3. Array = Append(<<>>, "array") /\ Array \in Stacks
    BY <1>1, <1>2 DEF Array, Stacks
  <1>4. <<>> \in Stacks
    BY DEF Stacks
  <1> QED
    BY <1>3, <1>4 DEF Start, Complete, At

\* Where an entry starts: the comma follows an entry and nothing else.
LEMMA CommaLeads ==
    ASSUME NEW first \in BOOLEAN
    PROVE  \E v \in {"value", "firstValue"} :
               Leads(Comma(first), At(Array, AfterStart(first)), At(Array, v))
  <1>1. CASE first
    <2>1. At(Array, "firstValue") \in Docs /\ "," \in Tokens
      BY ArrayInEmpty, StandsAt DEF Places, Tokens
    <2>2. Leads(<<>>, At(Array, "firstValue"), At(Array, "firstValue"))
      BY <2>1, ReadType, LeadsTokens
    <2> QED
      BY <1>1, <2>2 DEF Comma, AfterStart
  <1>2. CASE ~first
    <2>1. Leads(<<",">>, At(Array, "sep"), At(Array, "value"))
      BY ArrayInEmpty, Pieces
    <2> QED
      BY <1>2, <2>1, Zenon DEF Comma, AfterStart
  <1> QED
    BY <1>1, <1>2

\* An entry takes a document from one entry to the next.
LEMMA EntryAppends ==
    ASSUME NEW e \in Entries, NEW debug \in BOOLEAN, NEW first \in BOOLEAN,
           NEW d, d = At(Array, AfterStart(first))
    PROVE  /\ Printed(d, writeTraceEntry(e, first, debug)) = At(Array, "sep")
           /\ Printed(d, writeInterleavedTraceEntry(e, first, debug)) = At(Array, "sep")
  <1>1. PICK v \in {"value", "firstValue"} : Leads(Comma(first), d, At(Array, v))
    BY CommaLeads
  <1>2. Array \in Stacks
    BY ArrayInEmpty
  <1>3. Leads(writeTraceEntry(e, first, debug), d, At(Array, "sep"))
    BY <1>1, <1>2, EntryLeads
  <1>4. Leads(writeInterleavedTraceEntry(e, first, debug), d, At(Array, "sep"))
    BY <1>1, <1>2, InterleavedLeads
  <1> QED
    BY <1>3, <1>4 DEF Leads

\* The brackets that createTraceFile and destroyTraceFile print.
LEMMA BracketsPrinted ==
    /\ Printed(Start, <<"[">>) = At(Array, "firstValue")
    /\ \A first \in BOOLEAN : \A f :
           Printed(At(Array, AfterStart(first)), End(f)) = Complete
  <1>1. /\ Read(Start, "[") = At(Array, "firstValue")
        /\ Read(At(Array, "firstValue"), "]") = Complete
        /\ Read(At(Array, "sep"), "]") = Complete
    BY ArrayInEmpty, ReadAt
  <1>2. ASSUME NEW d \in Docs, NEW x \in Tokens
        PROVE  Printed(d, <<x>>) = Read(d, x)
    BY ReadType, LeadsTokens DEF Leads
  <1>3. "[" \in Tokens /\ "]" \in Tokens
    BY DEF Tokens
  <1>4. Start \in Docs /\ At(Array, "firstValue") \in Docs /\ At(Array, "sep") \in Docs
    BY ArrayInEmpty, StandsAt DEF Places
  <1>5. Printed(Start, <<"[">>) = At(Array, "firstValue")
    BY <1>1, <1>2, <1>3, <1>4
  <1>6. /\ Printed(At(Array, "firstValue"), <<"]">>) = Complete
        /\ Printed(At(Array, "sep"), <<"]">>) = Complete
    BY <1>1, <1>2, <1>3, <1>4
  <1> QED
    BY <1>5, <1>6, Zenon DEF AfterStart, End

\* No file is open at first.
LEMMA DocsInitially == Init => DocsInv
  <1> SUFFICES ASSUME Init
               PROVE  DocsInv
    OBVIOUS
  <1>1. Start \in Docs /\ Start.stack = <<>> /\ Start.next = "value"
    BY ArrayInEmpty, StandsAt DEF Places, Start
  <1>2. TypeOK
    BY <1>1 DEF Init, TypeOK
  <1> QED
    BY <1>1, <1>2 DEF Init, DocsInv

\* Where the fields of a document in each of its places lie.
LEMMA PlacesTyped ==
    /\ Complete \in Docs /\ Complete.stack = <<>> /\ Complete.next = "sep"
    /\ \A first \in BOOLEAN :
           LET d == At(Array, AfterStart(first))
           IN  d \in Docs /\ d.stack = Array /\ d.next \in {"firstValue", "sep"}
  <1>1. \A n \in Places : At(Array, n) \in Docs /\ Complete \in Docs
    BY ArrayInEmpty, StandsAt DEF Places
  <1>2. \A first \in BOOLEAN : AfterStart(first) \in {"firstValue", "sep"}
    BY DEF AfterStart
  <1> QED
    BY <1>1, <1>2 DEF At, Complete, Places

\* createTraceFile leaves its document before the first entry.
LEMMA CreateStep ==
    ASSUME DocsInv, NEW f \in Traces, status[f] = "none", createTraceFile(f)
    PROVE  DocsInv'
  <1>1. CASE /\ crashed' = "file"
             /\ UNCHANGED <<status, doc, firstLine, info, frame, lookups>>
    BY <1>1 DEF DocsInv, TypeOK
  <1>2. CASE /\ status' = [status EXCEPT ![f] = "open"]
             /\ doc' = [doc EXCEPT ![f] = Printed(Start, <<"[">>)]
             /\ firstLine' = [firstLine EXCEPT ![f] = TRUE]
             /\ \E debug \in DebugInfo : info' = [info EXCEPT ![f] = debug]
             /\ UNCHANGED <<frame, lookups, crashed>>
    <2> DEFINE d == At(Array, AfterStart(TRUE))
    <2>1. d \in Docs /\ d.stack = Array /\ d.next \in {"firstValue", "sep"}
      BY PlacesTyped
    <2>2. doc' = [doc EXCEPT ![f] = d]
      BY <1>2, BracketsPrinted DEF AfterStart
    <2> HIDE DEF d
    <2>3. /\ doc' \in [Traces -> Docs]
          /\ \A g \in Traces : /\ doc'[g].stack \in {<<>>, Array}
                               /\ doc'[g].next \in {"value", "firstValue", "sep"}
      BY <2>1, <2>2 DEF DocsInv, TypeOK, Array
    <2>4. TypeOK'
      BY <1>2, <2>3, JsonWriterAssumption DEF DocsInv, TypeOK, Array
    <2>5. ASSUME NEW g \in Traces
          PROVE  /\ status'[g] = "none" => doc'[g] = Start
                 /\ status'[g] = "open" =>
                        \/ doc'[g] = At(Array, AfterStart(firstLine'[g]))
                        \/ crashed' # "none" /\ doc'[g] = Complete
                 /\ status'[g] = "closed" => doc'[g] = Complete
      <3>1. CASE g = f
        BY <1>2, <2>2, <3>1 DEF DocsInv, TypeOK, d
      <3>2. CASE g # f
        <4>1. status'[g] = status[g] /\ doc'[g] = doc[g] /\ firstLine'[g] = firstLine[g]
          BY <1>2, <3>2 DEF DocsInv, TypeOK
        <4> QED
          BY <1>2, <4>1 DEF DocsInv
      <3> QED
        BY <3>1, <3>2
    <2> QED
      BY <2>3, <2>4, <2>5 DEF DocsInv
  <1> QED
    BY <1>1, <1>2 DEF createTraceFile

\* writeEntry leaves the document between two entries.
LEMMA EntryStep ==
    ASSUME DocsInv, crashed = "none",
           NEW t \in Threads, NEW e \in Entries, LogEntry(t, e)
    PROVE  DocsInv'
  <1> DEFINE d == At(Array, AfterStart(FALSE))
  <1>1. d \in Docs /\ d.stack = Array /\ d.next \in {"firstValue", "sep"}
    BY PlacesTyped
  <1>2. t \in Traces /\ Merged \in Traces /\ t # Merged
    BY JsonWriterAssumption DEF Traces
  <1>3. doc' = [doc EXCEPT ![t] = d, ![Merged] = d]
    <2>1. /\ doc[t] = At(Array, AfterStart(firstLine[t]))
          /\ doc[Merged] = At(Array, AfterStart(firstLine[Merged]))
          /\ firstLine[t] \in BOOLEAN /\ info[t] \in BOOLEAN
          /\ firstLine[Merged] \in BOOLEAN /\ info[Merged] \in BOOLEAN
      BY <1>2 DEF DocsInv, TypeOK, LogEntry
    <2>2. /\ Printed(doc[t], writeTraceEntry(e, firstLine[t], info[t])) = d
          /\ Printed(doc[Merged], writeInterleavedTraceEntry(
                         e, firstLine[Merged], info[Merged])) = d
      BY <2>1, EntryAppends DEF AfterStart
    <2>3. doc' = [doc EXCEPT
                   ![t] = Printed(doc[t], writeTraceEntry(e, firstLine[t], info[t])),
                   ![Merged] = Printed(doc[Merged], writeInterleavedTraceEntry(
                                        e, firstLine[Merged], info[Merged]))]
      BY <1>2 DEF LogEntry, DocsInv
    <2> QED
      BY <2>2, <2>3
  <1> HIDE DEF d
  <1>4. firstLine' = [firstLine EXCEPT ![t] = FALSE, ![Merged] = FALSE]
        /\ UNCHANGED <<status, info, crashed>>
    BY DEF LogEntry, NotFirst
  <1>5. /\ doc' \in [Traces -> Docs]
        /\ \A g \in Traces : /\ doc'[g].stack \in {<<>>, Array}
                             /\ doc'[g].next \in {"value", "firstValue", "sep"}
    BY <1>1, <1>3 DEF DocsInv, TypeOK, Array
  <1>6. frame' \in [Traces -> Threads \cup {Garbage, NullFrame}]
    <2>1. CASE e.inMain
      <3> DEFINE bp == IF IsCall(e) THEN NullFrame ELSE t
      <3>1. frame' = [frame EXCEPT ![t] = bp, ![Merged] = bp]
            /\ bp \in Threads \cup {Garbage, NullFrame}
        BY <2>1 DEF LogEntry, SetFrame
      <3> HIDE DEF bp
      <3> QED
        BY <3>1 DEF DocsInv, TypeOK
    <2>2. CASE ~e.inMain
      BY <2>2 DEF LogEntry, DocsInv, TypeOK
    <2> QED
      BY <2>1, <2>2
  <1>7. lookups' \subseteq Threads \X (Threads \cup {Garbage, NullFrame})
    <2>1. \A g \in {t, Merged} : frame'[g] \in Threads \cup {Garbage, NullFrame}
      BY <1>2, <1>6
    <2>2. {<<t, frame'[g]>> : g \in {x \in {t, Merged} : info[x]}}
              \subseteq Threads \X (Threads \cup {Garbage, NullFrame})
      BY <2>1
    <2> QED
      BY <2>2 DEF LogEntry
  <1>8. TypeOK'
    BY <1>4, <1>5, <1>6, <1>7 DEF DocsInv, TypeOK, Array
  <1>9. ASSUME NEW g \in Traces
        PROVE  /\ status'[g] = "none" => doc'[g] = Start
               /\ status'[g] = "open" =>
                      \/ doc'[g] = At(Array, AfterStart(firstLine'[g]))
                      \/ crashed' # "none" /\ doc'[g] = Complete
               /\ status'[g] = "closed" => doc'[g] = Complete
    <2>1. CASE g \in {t, Merged}
      <3>1. doc'[g] = d /\ firstLine'[g] = FALSE /\ status'[g] = "open"
        BY <1>3, <1>4, <2>1 DEF DocsInv, TypeOK, LogEntry
      <3> QED
        BY <3>1 DEF d
    <2>2. CASE g \notin {t, Merged}
      <3>1. doc'[g] = doc[g] /\ firstLine'[g] = firstLine[g] /\ status'[g] = status[g]
        BY <1>3, <1>4, <2>2 DEF DocsInv, TypeOK
      <3> QED
        BY <1>4, <3>1 DEF DocsInv
    <2> QED
      BY <2>1, <2>2
  <1> QED
    BY <1>5, <1>8, <1>9 DEF DocsInv

\* destroyTraceFile completes the document.
LEMMA DestroyStep ==
    ASSUME DocsInv, crashed = "none",
           NEW f \in Traces, status[f] = "open", destroyTraceFile(f)
    PROVE  DocsInv'
  <1>1. doc' = [doc EXCEPT ![f] = Complete]
    <2>1. doc[f] = At(Array, AfterStart(firstLine[f])) /\ firstLine[f] \in BOOLEAN
      BY DEF DocsInv, TypeOK
    <2>2. Printed(doc[f], End(f)) = Complete
      BY <2>1, BracketsPrinted
    <2> QED
      BY <2>2 DEF destroyTraceFile, DocsInv
  <1>2. Complete \in Docs /\ Complete.stack = <<>> /\ Complete.next = "sep"
    BY PlacesTyped
  <1> HIDE DEF Complete
  <1>3. /\ doc' \in [Traces -> Docs]
        /\ \A g \in Traces : /\ doc'[g].stack \in {<<>>, Array}
                             /\ doc'[g].next \in {"value", "firstValue", "sep"}
    BY <1>1, <1>2 DEF DocsInv, TypeOK, Array
  <1>4. TypeOK'
    BY <1>3 DEF DocsInv, TypeOK, Array, destroyTraceFile
  <1>5. ASSUME NEW g \in Traces
        PROVE  /\ status'[g] = "none" => doc'[g] = Start
               /\ status'[g] = "open" =>
                      \/ doc'[g] = At(Array, AfterStart(firstLine'[g]))
                      \/ crashed' # "none" /\ doc'[g] = Complete
               /\ status'[g] = "closed" => doc'[g] = Complete
    <2>1. CASE g = f
      <3>1. doc'[g] = Complete
        BY <1>1, <2>1 DEF DocsInv
      <3>2. status'[g] # "none" /\ (status'[g] = "open" => crashed' # "none")
        BY <2>1 DEF destroyTraceFile, DocsInv, TypeOK
      <3> QED
        BY <3>1, <3>2
    <2>2. CASE g # f
      <3>1. doc'[g] = doc[g] /\ firstLine'[g] = firstLine[g] /\ status'[g] = status[g]
        BY <1>1, <2>2 DEF DocsInv, TypeOK, destroyTraceFile
      <3> QED
        BY <3>1 DEF DocsInv
    <2> QED
      BY <2>1, <2>2
  <1> QED
    BY <1>3, <1>4, <1>5 DEF DocsInv

\* The inductive invariant: an entry leaves a document where the next one is
\* to start, and firstLine says whether there was one.
THEOREM DocumentsFollowed == Spec => []DocsInv
  <1>1. ASSUME DocsInv, [Next]_vars
        PROVE  DocsInv'
    <2>1. CASE UNCHANGED vars
      BY <1>1, <2>1 DEF DocsInv, TypeOK, vars
    <2>2. ASSUME NEW f \in Traces, status[f] = "none", createTraceFile(f)
          PROVE  DocsInv'
      BY <1>1, <2>2, CreateStep
    <2>3. ASSUME crashed = "none", NEW t \in Threads, NEW e \in Entries, LogEntry(t, e)
          PROVE  DocsInv'
      BY <1>1, <2>3, EntryStep
    <2>4. ASSUME crashed = "none", NEW f \in Traces, status[f] = "open",
                 destroyTraceFile(f)
          PROVE  DocsInv'
      BY <1>1, <2>4, DestroyStep
    <2> QED
      BY <1>1, <2>1, <2>2, <2>3, <2>4
      DEF Next, Ended, OpenInterleaved, OpenOwn, CloseOwn, CloseInterleaved, Traces
  <1> QED
    BY DocsInitially, <1>1, PTL DEF Spec

\* The types of the variables, the documents' included: no operation leaves a
\* bracket of an entry open.
THEOREM WriterTypes == Spec => []TypeOK
  <1>1. DocsInv => TypeOK
    BY DEF DocsInv
  <1> QED
    BY <1>1, DocumentsFollowed, PTL

\* Every log is JSON as far as it goes at every moment, and complete when it
\* is closed, for any number of threads and lists of operands of any length.
THEOREM DocumentsWellFormed == Spec => []WellFormed
  <1>1. DocsInv => WellFormed
    BY DEF DocsInv, WellFormed, At, Array, AfterStart
  <1> QED
    BY <1>1, DocumentsFollowed, PTL
=============================================================================
