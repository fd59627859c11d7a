-------------------------- MODULE RemoteReaderProofs --------------------------
(***************************************************************************)
(* Theorems of RemoteReader, for a blob of any size, any URLs and any hosts: *)
(* what it promises of the bytes, and of the bodies that it leaves open.     *)
(***************************************************************************)
EXTENDS RemoteReader, FiniteSetTheorems, SequenceTheorems, TLAPS

Reading == {"read", "open", "reopen"}

\* The variables that the properties are about.
Typed ==
    /\ pc \in Opening \cup {"called", "failed", "idle", "read", "closed"}
    /\ offset \in 0..Size
    /\ rc \in [kind: {"none", "empty", "live", "dead"}, pos: 0..Size]
    /\ streams \in Nat
    /\ want \in [at: 0..Size, len: Nat \ {0}]
    /\ Len(got) \in 0..want.len
    /\ res \in {"none", "pending", "ok", "error"}

\* A read is pending while the caller is in it, and got what lies between the
\* offset it asked for and the one that the reader is at.
Serving ==
    /\ got = Reader!Bytes(want.at, Len(got))
    /\ res = "pending" <=> pc \in Reading
    /\ pc \in Reading => offset = want.at + Len(got)
    /\ pc \in {"read", "open"} => Len(got) < want.len

\* The body of the reader is open, and at most that of the probe beside it.
Streaming ==
    /\ streams \in Held..(Held + 1)
    /\ pc \in {"called", "probe", "failed"} => streams = 0 /\ rc = NoBody
    /\ pc \in {"open", "reopen", "closed"} => rc = NoBody
    /\ rc.kind = "none" <=> rc = NoBody

Inv == Typed /\ Serving /\ BodyInPlace /\ Streaming

-----------------------------------------------------------------------------
\* What a step of the reader may do to what its caller sees.
ReaderStep == [Reader!Next]_<<want, got, res, pc = "closed">>

LEMMA EmptyBytes == \A at \in Nat : <<>> = Reader!Bytes(at, 0)
BY DEF Reader!Bytes

\* The bytes that a read of the body adds continue those that were copied.
LEMMA CopyContinues ==
  ASSUME NEW at \in Nat, NEW k \in Nat, NEW n \in Nat
  PROVE  LET g == Reader!Bytes(at, k) \o [i \in 1..n |-> at + k + i - 1]
         IN  g = Reader!Bytes(at, k + n) /\ Len(g) = k + n
<1> DEFINE s == Reader!Bytes(at, k)
           u == [i \in 1..n |-> at + k + i - 1]
<1>1. s \in Seq(Nat) /\ Len(s) = k /\ \A i \in 1..k : s[i] = at + i - 1
  BY DEF Reader!Bytes
<1>2. u \in Seq(Nat) /\ Len(u) = n /\ \A i \in 1..n : u[i] = at + k + i - 1
  OBVIOUS
<1> HIDE DEF s, u
<1>3. /\ s \o u \in Seq(Nat) /\ Len(s \o u) = k + n
      /\ \A i \in 1..(k + n) : (s \o u)[i] = IF i <= k THEN s[i] ELSE u[i - k]
  <2>1. /\ s \o u \in Seq(Nat) /\ Len(s \o u) = Len(s) + Len(u)
        /\ \A i \in 1..(Len(s) + Len(u)) :
               (s \o u)[i] = IF i <= Len(s) THEN s[i] ELSE u[i - Len(s)]
    BY <1>1, <1>2, ConcatProperties
  <2> QED
    BY <1>1, <1>2, <2>1
<1>4. ASSUME NEW i \in 1..(k + n)
      PROVE  (s \o u)[i] = at + i - 1
  <2>1. CASE i <= k
    <3>1. i \in 1..k /\ (s \o u)[i] = s[i]
      BY <1>3, <2>1
    <3> QED
      BY <1>1, <3>1
  <2>2. CASE ~(i <= k)
    <3>1. i - k \in 1..n /\ (s \o u)[i] = u[i - k]
      BY <1>3, <2>2
    <3>2. u[i - k] = at + k + (i - k) - 1
      BY <1>2, <3>1
    <3> QED
      BY <3>1, <3>2
  <2> QED
    BY <2>1, <2>2
<1>5. s \o u = [i \in 1..(k + n) |-> at + i - 1]
  <2>1. s \o u = [i \in 1..Len(s \o u) |-> (s \o u)[i]]
    BY <1>3, LenProperties, SeqDef
  <2> QED
    BY <1>3, <1>4, <2>1
<1> QED
  BY <1>3, <1>5 DEF Reader!Bytes, s, u

LEMMA InitInv == Init => Inv
BY SizeAssumption DEF Init, Inv, Typed, Serving, BodyInPlace, Streaming, Held, NoBody,
   Opening, Reading, Reader!Bytes

\* What io.ReadFull returns, and when.
LEMMA StopServes ==
  ASSUME Inv, pc \in Reading, Stop(got),
         UNCHANGED <<offset, rc, streams, want, got>>
  PROVE  Typed' /\ Serving' /\ BodyInPlace' /\ ReaderStep
<1>1. pc' = "idle" /\ res' \in {"ok", "error"} /\ pc # "closed" /\ res = "pending"
  BY DEF Stop, goto, Reading, Inv, Serving
<1>2. Typed' /\ Serving' /\ BodyInPlace'
  BY <1>1 DEF Inv, Typed, Serving, BodyInPlace, Reading, Opening
<1>3. /\ Len(got) \in Len(got)..want.len
      /\ want.at + Len(got) <= Size
      /\ got' = Reader!Bytes(want.at, Len(got))
  BY SizeAssumption DEF Inv, Typed, Serving
<1>4. IF Len(got) = want.len THEN res' = "ok" ELSE Len(got) < want.len /\ res' = "error"
  BY <1>3 DEF Stop, Inv, Typed
<1>5. Reader!Serve
  BY <1>1, <1>3, <1>4 DEF Reader!Serve
<1> QED
  BY <1>2, <1>5 DEF ReaderStep, Reader!Next

\* A failing open ends the read, or Fetch, or starts the probe again.
LEMMA OpenFailsStep ==
  ASSUME Inv, NEW err, OpenFails(err), UNCHANGED <<offset, rc, noProgress, streams>>
  PROVE  Inv' /\ ReaderStep
<1>1. CASE pc \in {"open", "reopen"}
  BY <1>1, StopServes DEF OpenFails, Reading, Inv, Streaming, Held, Stop, goto
<1>2. CASE pc = "probe"
  BY <1>2 DEF OpenFails, Start, goto, read, Inv, Typed, Serving, BodyInPlace, Streaming, Held,
              Opening, Reading, ReaderStep, Reader!Next
<1> QED
  BY <1>1, <1>2 DEF OpenFails

LEMMA AttemptFailsStep ==
  ASSUME Inv, pc \in Opening, NEW err, AttemptFails(err)
  PROVE  Inv' /\ ReaderStep
<1>1. UNCHANGED <<offset, rc, noProgress, streams>>
  BY DEF AttemptFails, seeker
<1>2. CASE OpenFails(err) \/ OpenFails(firstErr)
  BY <1>1, <1>2, OpenFailsStep
<1>3. CASE UNCHANGED <<pc, read>>
  BY <1>1, <1>3 DEF read, Inv, Typed, Serving, BodyInPlace, Streaming, Held, ReaderStep
<1> QED
  BY <1>2, <1>3 DEF AttemptFails, read

\* Steps that the caller does not see.
LEMMA SilentStep ==
  ASSUME Inv, Fetch \/ FetchFail \/ Retry \/ ReaderOpen \/ ReaderEmpty \/ Toggle
  PROVE  Inv' /\ ReaderStep
<1> USE DEF Inv, Typed, Serving, BodyInPlace, Streaming, Held, Opening, Reading, NoBody,
            ReaderStep, goto, Start, conn, seeker, read
<1>1. CASE Fetch
  BY <1>1 DEF Fetch
<1>2. CASE FetchFail
  BY <1>2 DEF FetchFail
<1>3. CASE Retry
  BY <1>3 DEF Retry
<1>4. CASE ReaderOpen
  BY <1>4 DEF ReaderOpen
<1>5. CASE ReaderEmpty
  BY <1>5, SizeAssumption DEF ReaderEmpty, EmptyReader
<1>6. CASE Toggle
  BY <1>6 DEF Toggle
<1> QED
  BY <1>1, <1>2, <1>3, <1>4, <1>5, <1>6

\* An open that succeeds at the offset of the reader.
LEMMA OpenedStep ==
  ASSUME Inv, pc \in Opening, NEW pos, pc \in {"open", "reopen"} => pos = offset,
         Opened(pos)
  PROVE  Inv' /\ ReaderStep
<1> USE DEF Inv, Typed, Serving, BodyInPlace, Streaming, Held, Opening, Reading, NoBody,
            Opened, Body, goto
<1>1. CASE pc = "probe"
  BY <1>1 DEF ReaderStep
<1>2. CASE pc = "open"
  BY <1>2 DEF ReaderStep
<1>3. CASE pc = "reopen" /\ Len(got) = want.len
  <2>1. Inv' /\ res' = "ok" /\ pc' = "idle"
    BY <1>3 DEF Continue
  <2>2. /\ Len(got) \in Len(got)..want.len /\ want.at + Len(got) <= Size
        /\ got' = Reader!Bytes(want.at, Len(got))
    BY <1>3, SizeAssumption
  <2>3. Reader!Serve
    BY <1>3, <2>1, <2>2 DEF Reader!Serve
  <2> QED
    BY <2>1, <2>3 DEF ReaderStep, Reader!Next
<1>4. CASE pc = "reopen" /\ Len(got) # want.len
  BY <1>4 DEF Continue, ReaderStep
<1> QED
  BY <1>1, <1>2, <1>3, <1>4

LEMMA AcceptStep ==
  ASSUME Inv, NEW range, Accept(range)
  PROVE  Inv' /\ ReaderStep
<1>1. CASE AttemptFails("broken")
  BY <1>1, AttemptFailsStep DEF Accept
<1>2. CASE Opened(offset)
  BY <1>2, OpenedStep DEF Accept
<1>3. CASE pc = "probe" /\ Opened(0)
  BY <1>3, OpenedStep DEF Accept
<1> QED
  BY <1>1, <1>2, <1>3 DEF Accept, Opening

-----------------------------------------------------------------------------
\* The bytes after a read of n from the body that is in place.
LEMMA CopyStep ==
  ASSUME Inv, pc = "read", rc.kind = "live", NEW n \in Available, Copy(n)
  PROVE  /\ n \in Nat /\ offset' \in 0..Size /\ rc.pos + n = offset'
         /\ offset' = want.at + Len(got')
         /\ Len(got') = Len(got) + n /\ Len(got') \in Len(got)..want.len
         /\ got' = Reader!Bytes(want.at, Len(got'))
<1>1. n \in Nat /\ n <= want.len - Len(got) /\ n <= Size - rc.pos
  BY SizeAssumption DEF Available, Inv, Typed
<1>2. /\ rc.pos = offset /\ offset = want.at + Len(got)
      /\ want.at \in Nat /\ want.len \in Nat /\ Len(got) \in Nat
  BY DEF Inv, Typed, Serving, BodyInPlace, Reading
<1>3. got' = Reader!Bytes(want.at, Len(got))
               \o [i \in 1..n |-> want.at + Len(got) + i - 1]
  BY <1>2 DEF Copy, Inv, Serving
<1>4. got' = Reader!Bytes(want.at, Len(got) + n) /\ Len(got') = Len(got) + n
  <2>1. \A k \in Nat :
          LET g == Reader!Bytes(want.at, k) \o [i \in 1..n |-> want.at + k + i - 1]
          IN  g = Reader!Bytes(want.at, k + n) /\ Len(g) = k + n
    BY ZenonT(30), <1>1, <1>2, CopyContinues
  <2> QED
    BY <1>2, <1>3, <2>1
<1>5. offset' = offset + n
  BY DEF Copy
<1>6. Len(got') \in Nat /\ Len(got') \in Len(got)..want.len
  BY <1>1, <1>2, <1>4
<1>7. /\ offset' = want.at + Len(got') /\ rc.pos + n = offset'
  BY <1>1, <1>2, <1>4, <1>5
<1>8. offset' \in 0..Size
  BY SMTT(30), <1>1, <1>2, <1>5, SizeAssumption DEF Inv, Typed
<1>9. got' = Reader!Bytes(want.at, Len(got'))
  BY <1>4
<1> QED
  BY <1>1, <1>4, <1>6, <1>7, <1>8, <1>9

\* Serve, with some bytes or none.
LEMMA ServeStep ==
  ASSUME Inv, pc \in Reading, pc' # "closed", want' = want,
         Len(got') \in Len(got)..want.len,
         want.at + Len(got') <= Size,
         got' = Reader!Bytes(want.at, Len(got')),
         \/ res' = "pending"
         \/ Len(got') = want.len /\ res' = "ok"
         \/ Len(got') < want.len /\ res' = "error"
  PROVE  ReaderStep
<1>1. res = "pending" /\ pc # "closed"
  BY DEF Inv, Serving, Reading
<1>2. Reader!Serve
  BY <1>1 DEF Reader!Serve
<1> QED
  BY <1>2 DEF ReaderStep, Reader!Next

LEMMA ReadStep ==
  ASSUME Inv, NEW n \in 0..Size, Read(n)
  PROVE  Inv' /\ ReaderStep
<1>1. pc = "read" /\ rc.kind = "live" /\ n \in Available /\ n # 0 /\ Copy(n)
  BY DEF Read
<1>2. /\ offset' \in 0..Size /\ rc.pos + n = offset'
      /\ offset' = want.at + Len(got') /\ Len(got') \in Len(got)..want.len
      /\ got' = Reader!Bytes(want.at, Len(got'))
  BY <1>1, CopyStep
<1>3. /\ rc' = [rc EXCEPT !.pos = @ + n] /\ streams' = streams /\ want' = want
      /\ IF Len(got') = want.len THEN pc' = "idle" /\ res' = "ok"
                                 ELSE pc' = "read" /\ res' = res
  BY DEF Read, Continue, goto
<1>4. rc'.kind = rc.kind /\ rc'.pos = offset' /\ rc' \in [kind: {"live"}, pos: 0..Size]
  BY <1>1, <1>2, <1>3 DEF Inv, Typed
<1>5. Typed'
  BY <1>1, <1>2, <1>3, <1>4 DEF Inv, Typed
<1>6. Serving'
  BY <1>1, <1>2, <1>3 DEF Inv, Serving, Typed, Reading
<1>7. BodyInPlace' /\ Streaming'
  BY <1>1, <1>3, <1>4 DEF Inv, BodyInPlace, Streaming, Held, NoBody
<1>8. ReaderStep
  BY <1>1, <1>2, <1>3, ServeStep DEF Inv, Serving, Reading
<1> QED
  BY <1>5, <1>6, <1>7, <1>8 DEF Inv

LEMMA ReadErrorStep ==
  ASSUME Inv, NEW n \in 0..Size, ReadError(n)
  PROVE  Inv' /\ ReaderStep
<1>1. pc = "read" /\ rc.kind = "live" /\ n \in Available /\ Copy(n)
  BY DEF ReadError
<1>2. /\ offset' \in 0..Size /\ rc.pos + n = offset'
      /\ offset' = want.at + Len(got') /\ Len(got') \in Len(got)..want.len
      /\ got' = Reader!Bytes(want.at, Len(got'))
  BY <1>1, CopyStep
<1>3. /\ rc' = [kind |-> "dead", pos |-> offset'] /\ streams' = streams /\ want' = want
      /\ pc' = "idle"
      /\ res' = IF Len(got') = want.len THEN "ok" ELSE "error"
  BY <1>2 DEF ReadError, Body, Stop, goto
<1>4. Typed'
  BY <1>1, <1>2, <1>3 DEF Inv, Typed
<1>5. Serving'
  BY <1>2, <1>3 DEF Serving, Reading
<1>6. BodyInPlace' /\ Streaming'
  BY <1>1, <1>3 DEF Inv, BodyInPlace, Streaming, Held, NoBody
<1>7. \/ Len(got') = want.len /\ res' = "ok"
      \/ Len(got') < want.len /\ res' = "error"
  <2>1. want.len \in Nat /\ Len(got) \in Nat
    BY DEF Inv, Typed
  <2>2. Len(got') = want.len \/ Len(got') < want.len
    BY <1>2, <2>1
  <2> QED
    BY <1>3, <2>2
<1>8. ReaderStep
  <2>1. want.at + Len(got') <= Size /\ pc \in Reading /\ pc' # "closed"
    BY <1>1, <1>2, <1>3, SizeAssumption DEF Reading
  <2> QED
    BY <1>2, <1>3, <1>7, <2>1, ServeStep
<1> QED
  BY <1>4, <1>5, <1>6, <1>8 DEF Inv

LEMMA ReadBreakStep ==
  ASSUME Inv, NEW n \in 0..Size, ReadBreak(n)
  PROVE  Inv' /\ ReaderStep
<1>1. pc = "read" /\ rc.kind = "live" /\ n \in Available /\ Copy(n)
  BY DEF ReadBreak
<1>2. /\ offset' \in 0..Size
      /\ offset' = want.at + Len(got') /\ Len(got') \in Len(got)..want.len
      /\ got' = Reader!Bytes(want.at, Len(got'))
  BY <1>1, CopyStep
<1>3. /\ streams' = streams - 1 /\ want' = want
      /\ \/ pc' = "reopen" /\ rc' = NoBody /\ res' = res
         \/ /\ rc' = EmptyReader
            /\ IF Len(got') = want.len THEN pc' = "idle" /\ res' = "ok"
                                       ELSE pc' = "read" /\ res' = res
  BY DEF ReadBreak, Continue, Start, goto
<1>4. streams \in 1..2
  BY <1>1 DEF Inv, Streaming, Held
<1>5. Typed'
  BY <1>1, <1>2, <1>3, <1>4, SizeAssumption
     DEF Inv, Typed, Opening, NoBody, EmptyReader
<1>6. Serving'
  BY <1>1, <1>2, <1>3 DEF Inv, Serving, Typed, Reading
<1>7. BodyInPlace' /\ Streaming'
  BY <1>3, <1>4 DEF BodyInPlace, Streaming, Held, NoBody, EmptyReader
<1>8. ReaderStep
  BY <1>1, <1>2, <1>3, ServeStep DEF Inv, Serving, Reading
<1> QED
  BY <1>5, <1>6, <1>7, <1>8 DEF Inv

\* Reads that end without further bytes.
LEMMA ReadEndStep ==
  ASSUME Inv, ReadEOF \/ ReadGiveUp \/ ReadDead
  PROVE  Inv' /\ ReaderStep
<1>1. CASE ReadEOF \/ ReadDead
  <2>1. pc \in Reading /\ Stop(got) /\ UNCHANGED <<offset, rc, streams, want, got>>
    BY <1>1 DEF ReadEOF, ReadDead, Reading, seeker
  <2>2. Streaming'
    BY <2>1 DEF Stop, goto, Inv, Streaming, Held
  <2> QED
    BY <2>1, <2>2, StopServes DEF Inv
<1>2. CASE ReadGiveUp
  <2>1. /\ pc = "read" /\ rc.kind = "live" /\ pc' = "idle"
        /\ rc' = [rc EXCEPT !.kind = "dead"]
        /\ res' = IF Len(got) = want.len THEN "ok" ELSE "error"
        /\ UNCHANGED <<offset, streams, want, got>>
    BY <1>2 DEF ReadGiveUp, Stop, goto
  <2>2. Inv'
    BY <2>1 DEF Inv, Typed, Serving, BodyInPlace, Streaming, Held, Reading, NoBody
  <2>3. /\ Len(got') \in Len(got)..want.len /\ want.at + Len(got') <= Size
        /\ got' = Reader!Bytes(want.at, Len(got'))
        /\ \/ Len(got') = want.len /\ res' = "ok"
           \/ Len(got') < want.len /\ res' = "error"
    BY <2>1, SizeAssumption DEF Inv, Typed, Serving, Reading
  <2> QED
    BY <2>1, <2>2, <2>3, ServeStep DEF Reading
<1> QED
  BY <1>1, <1>2

-----------------------------------------------------------------------------
(* Calls *)

LEMMA ReadAtStep ==
  ASSUME Inv, NEW at \in 0..Size, NEW len \in 1..(Size + 1),
         ReadAt(at, len) \/ ReadAtClosed(at, len)
  PROVE  Inv' /\ ReaderStep
<1>1. /\ want' = [at |-> at, len |-> len] /\ got' = <<>>
      /\ len \in Nat \ {0} /\ at \in Nat /\ Len(got') = 0
      /\ got' = Reader!Bytes(want'.at, 0)
  BY SizeAssumption, EmptyBytes DEF ReadAt, ReadAtClosed
<1>2. want' \in Reader!Request
  BY <1>1 DEF Reader!Request
<1>3. CASE ReadAt(at, len)
  <2>1. /\ pc = "idle" /\ pc' = "read" /\ res' = "pending" /\ res # "pending"
        /\ offset' = at
        /\ rc' = IF at = offset THEN rc ELSE NoBody
        /\ streams' = IF at = offset THEN streams ELSE streams - Held
    BY <1>3 DEF ReadAt, goto, Inv, Serving, Reading
  <2>2. Typed' /\ BodyInPlace' /\ Streaming'
    BY <1>1, <2>1, SizeAssumption
       DEF Inv, Typed, BodyInPlace, Streaming, Held, NoBody
  <2>3. Serving'
    BY <1>1, <2>1 DEF Serving, Reading
  <2>4. Reader!Ask
    BY <1>1, <1>2, <2>1 DEF Reader!Ask
  <2> QED
    BY <2>2, <2>3, <2>4 DEF Inv, ReaderStep, Reader!Next
<1>4. CASE ReadAtClosed(at, len)
  <2>1. /\ pc = "closed" /\ pc' = "closed" /\ res' = "error" /\ res # "pending"
        /\ UNCHANGED <<offset, rc, streams>>
    BY <1>4 DEF ReadAtClosed, seeker, Inv, Serving, Reading
  <2>2. Typed' /\ BodyInPlace' /\ Streaming'
    BY <1>1, <2>1 DEF Inv, Typed, BodyInPlace, Streaming, Held
  <2>3. Serving'
    BY <1>1, <2>1 DEF Serving, Reading
  <2>4. Reader!Ask
    BY <1>1, <1>2, <2>1 DEF Reader!Ask
  <2> QED
    BY <2>2, <2>3, <2>4 DEF Inv, ReaderStep, Reader!Next
<1> QED
  BY <1>3, <1>4

LEMMA CloseStep == Inv /\ Close => Inv' /\ ReaderStep
<1> SUFFICES ASSUME Inv, Close
             PROVE  Inv' /\ ReaderStep
  OBVIOUS
<1>1. /\ pc = "idle" /\ pc' = "closed" /\ rc' = NoBody /\ streams' = streams - Held
      /\ UNCHANGED <<offset, want, got, res>>
  BY DEF Close, goto, read
<1>2. res # "pending"
  BY <1>1 DEF Inv, Serving, Reading
<1>3. Inv'
  BY <1>1, SizeAssumption
     DEF Inv, Typed, Serving, BodyInPlace, Streaming, Held, NoBody, Reading
<1>4. Reader!Close
  BY <1>1, <1>2 DEF Reader!Close
<1> QED
  BY <1>3, <1>4 DEF ReaderStep, Reader!Next

-----------------------------------------------------------------------------
LEMMA NextStep == Inv /\ [Next]_vars => Inv' /\ ReaderStep
<1> SUFFICES ASSUME Inv, [Next]_vars
             PROVE  Inv' /\ ReaderStep
  OBVIOUS
<1>1. CASE UNCHANGED vars
  BY <1>1 DEF vars, seeker, read, Inv, Typed, Serving, BodyInPlace, Streaming, Held,
              ReaderStep
<1>2. CASE Refuse \/ RequestFail \/ Reject
  BY <1>2, AttemptFailsStep DEF Refuse, RequestFail, Reject
<1>3. ASSUME NEW range \in {NoRange} \cup 0..Size, Accept(range)
      PROVE  Inv' /\ ReaderStep
  BY <1>3, AcceptStep
<1>4. ASSUME NEW n \in 0..Size, Read(n) \/ ReadBreak(n) \/ ReadError(n)
      PROVE  Inv' /\ ReaderStep
  BY <1>4, ReadStep, ReadBreakStep, ReadErrorStep
<1>5. CASE Step
  BY <1>2, <1>3, <1>4, <1>5, SilentStep, ReadEndStep DEF Step
<1>6. CASE Call
  BY <1>6, ReadAtStep, CloseStep DEF Call
<1>7. CASE Toggle
  BY <1>7, SilentStep
<1> QED
  BY <1>1, <1>5, <1>6, <1>7 DEF Next

THEOREM Invariance == Spec => []Inv
<1>1. Inv /\ [Next]_vars => Inv'
  BY NextStep
<1> QED
  BY InitInv, <1>1, PTL DEF Spec

-----------------------------------------------------------------------------
(* Types *)

\* What the properties do not need: the opening of a blob, and the bytes as such.
Opens ==
    /\ up \in BOOLEAN
    /\ attempts \in Seq({"url", "host"})
    /\ pc \in Opening => attempts # <<>> /\ attempts[Len(attempts)] = "host"
    /\ firstErr \in Error \cup {"none"}
    /\ tries \in 0..MaxResponses
    /\ noProgress \in 0..(maxRetry + 1)
    /\ got \in Seq(0..Size)

LEMMA SubsetOfInterval ==
  ASSUME NEW n \in Nat, NEW S \in SUBSET (1..n)
  PROVE  Cardinality(S) \in Nat
<1>1. IsFiniteSet(1..n)
  BY FS_Interval
<1>2. IsFiniteSet(S)
  BY <1>1, FS_Subset
<1> QED
  BY <1>2, FS_CardinalityType

\* The hosts are tried last, and there is one.
LEMMA HostIsLast ==
  Endpoints \in Seq({"url", "host"}) \ {<<>>} /\ Endpoints[Len(Endpoints)] = "host"
<1> DEFINE urls == Cardinality({i \in DOMAIN Urls : Urls[i] = "web"})
           U == [i \in 1..urls |-> "url"]
           H == [i \in 1..FilterHosts |-> "host"]
<1>1. urls \in Nat
  <2>1. {i \in DOMAIN Urls : Urls[i] = "web"} \subseteq 1..Len(Urls) /\ Len(Urls) \in Nat
    BY UrlsAssumption
  <2> QED
    BY <2>1, SubsetOfInterval
<1>2. FilterHosts \in Nat \ {0}
  <2>1. {i \in DOMAIN Hosts : Hosts[i]} \subseteq 1..Len(Hosts) /\ Len(Hosts) \in Nat \ {0}
    BY HostsAssumption
  <2>2. Cardinality({i \in DOMAIN Hosts : Hosts[i]}) \in Nat
    BY <2>1, SubsetOfInterval
  <2> QED
    BY <2>1, <2>2 DEF FilterHosts
<1>3. Endpoints = U \o H
  BY DEF Endpoints
<1> HIDE DEF urls
<1>4. /\ U \in Seq({"url", "host"}) /\ Len(U) = urls
      /\ H \in Seq({"url", "host"}) /\ Len(H) = FilterHosts /\ H[FilterHosts] = "host"
  BY <1>1, <1>2
<1> HIDE DEF U, H
<1>5. /\ U \o H \in Seq({"url", "host"}) /\ Len(U \o H) = urls + FilterHosts
      /\ (U \o H)[urls + FilterHosts] = H[FilterHosts]
  BY <1>1, <1>2, <1>4
<1> QED
  BY <1>1, <1>2, <1>3, <1>4, <1>5

LEMMA OpensInit == Init => Opens
BY DEF Init, Opens, Opening, Error, MaxResponses, maxRetry

\* A new open has its endpoints, and none is left when it ends.
LEMMA OpensStart ==
  ASSUME Opens, attempts' = Endpoints \/ (attempts' = <<>> /\ pc' \notin Opening),
         firstErr' = "none", tries' = 0, up' = up,
         noProgress' \in 0..(maxRetry + 1), got' \in Seq(0..Size)
  PROVE  Opens'
<1>1. tries' \in 0..MaxResponses
  BY DEF MaxResponses
<1>2. attempts' \in Seq({"url", "host"})
  <2>1. CASE attempts' = Endpoints
    BY <2>1, HostIsLast
  <2>2. CASE attempts' = <<>>
    BY <2>2
  <2> QED
    BY <2>1, <2>2
<1>3. pc' \in Opening => attempts' # <<>> /\ attempts'[Len(attempts')] = "host"
  BY HostIsLast
<1> QED
  BY <1>1, <1>2, <1>3 DEF Opens

\* An endpoint that fails leaves others to try, or ends the open.
LEMMA OpensAttempt ==
  ASSUME Opens, pc \in Opening, NEW e \in Error, AttemptFails(e)
  PROVE  Opens'
<1>1. up' = up /\ noProgress' = noProgress /\ got' = got
  BY DEF AttemptFails, OpenFails, seeker, read
<1>2. ASSUME NEW f \in Error, OpenFails(f)
      PROVE  Opens'
  <2>1. \/ attempts' = Endpoints /\ firstErr' = "none" /\ tries' = 0
        \/ attempts' = <<>> /\ firstErr' = "none" /\ tries' = 0 /\ pc' = "idle"
    BY <1>2 DEF OpenFails, Start, Ended, Stop, goto
  <2>2. noProgress' \in 0..(maxRetry + 1) /\ got' \in Seq(0..Size)
    BY <1>1 DEF Opens
  <2> QED
    BY <1>1, <2>1, <2>2, OpensStart DEF Opening
<1>3. ASSUME attempts' = Tail(attempts), tries' = 0, pc' = pc, Len(attempts) # 1,
             firstErr' \in Error \cup {"none"}
      PROVE  Opens'
  <2>1. /\ attempts \in Seq({"url", "host"}) /\ attempts # <<>>
        /\ attempts[Len(attempts)] = "host"
    BY DEF Opens
  <2>2. Len(attempts) \in Nat /\ Len(attempts) > 1
    <3>1. Len(attempts) \in Nat
      BY <2>1
    <3>2. Len(attempts) # 0
      BY <2>1
    <3>3. Len(attempts) # 1
      BY <1>3
    <3>4. \A n \in Nat : n # 0 /\ n # 1 => n > 1
      OBVIOUS
    <3> QED
      BY <3>1, <3>2, <3>3, <3>4, Zenon
  <2>3. /\ attempts' \in Seq({"url", "host"}) /\ Len(attempts') = Len(attempts) - 1
        /\ attempts' # <<>> /\ attempts'[Len(attempts')] = attempts[Len(attempts)]
    BY <1>3, <2>1, <2>2
  <2>4. tries' \in 0..MaxResponses
    BY <1>3 DEF MaxResponses
  <2> QED
    BY <1>1, <1>3, <2>1, <2>3, <2>4 DEF Opens
<1>4. CASE Head(attempts) = "url" /\ e # "notfound"
  BY <1>2, <1>4 DEF AttemptFails
<1>5. CASE Head(attempts) = "url" /\ e = "notfound"
  <2>1. attempts' = Tail(attempts) /\ tries' = 0 /\ pc' = pc /\ firstErr' = firstErr
    BY <1>5 DEF AttemptFails
  <2>2. Len(attempts) # 1
    BY <1>5 DEF Opens
  <2> QED
    BY <1>3, <2>1, <2>2 DEF Opens
<1>6. CASE Head(attempts) = "host"
  <2> DEFINE first == IF firstErr = "none" THEN e ELSE firstErr
  <2>1. first \in Error
    BY DEF Opens
  <2>2. CASE Len(attempts) = 1
    <3>1. OpenFails(first)
      BY <1>6, <2>2 DEF AttemptFails
    <3> QED
      BY <1>2, <2>1, <3>1
  <2>3. CASE Len(attempts) # 1
    <3>1. attempts' = Tail(attempts) /\ tries' = 0 /\ pc' = pc /\ firstErr' = first
      BY <1>6, <2>3 DEF AttemptFails
    <3> QED
      BY <1>3, <2>1, <2>3, <3>1
  <2> QED
    BY <2>2, <2>3
<1> QED
  BY <1>4, <1>5, <1>6 DEF AttemptFails

\* The bytes copied are bytes of the blob.
LEMMA CopyTyped ==
  ASSUME Inv, Opens, rc.kind = "live", NEW n \in Available, Copy(n)
  PROVE  got' \in Seq(0..Size)
<1>1. rc.pos \in 0..Size /\ n \in Nat /\ rc.pos + n <= Size
  <2>1. rc.pos \in 0..Size
    BY DEF Inv, Typed
  <2>2. want.len - Len(got) \in Nat
    BY DEF Inv, Typed
  <2> QED
    BY <2>1, <2>2, SizeAssumption DEF Available
<1>2. [i \in 1..n |-> rc.pos + i - 1] \in Seq(0..Size)
  <2>1. \A i \in 1..n : rc.pos + i - 1 \in 0..Size
    BY <1>1, SizeAssumption
  <2> QED
    BY <1>1, <2>1
<1> QED
  BY <1>2 DEF Copy, Opens

LEMMA OpensStep == Inv /\ Opens /\ [Next]_vars => Opens'
<1> SUFFICES ASSUME Inv, Opens, [Next]_vars
             PROVE  Opens'
  OBVIOUS
<1>0. /\ 0 \in 0..(maxRetry + 1) /\ <<>> \in Seq(0..Size)
      /\ noProgress \in 0..(maxRetry + 1) /\ got \in Seq(0..Size)
  BY DEF Opens, maxRetry
<1>1. CASE UNCHANGED vars \/ Toggle
  BY <1>1 DEF Toggle, vars, conn, seeker, read, Opens
<1>2. CASE Fetch \/ ReaderOpen
  <2>1. /\ attempts' = Endpoints /\ firstErr' = "none" /\ tries' = 0
        /\ up' = up /\ noProgress' = noProgress /\ got' = got
    BY <1>2 DEF Fetch, ReaderOpen, Start, seeker, read
  <2> QED
    BY <1>0, <2>1, OpensStart
<1>3. CASE Refuse \/ RequestFail \/ Reject
  <2>1. PICK e \in Error : pc \in Opening /\ AttemptFails(e)
    BY <1>3 DEF Refuse, RequestFail, Reject, Error
  <2> QED
    BY <2>1, OpensAttempt
<1>4. CASE Retry
  <2>1. /\ tries' = tries + 1 /\ tries < MaxResponses
        /\ UNCHANGED <<up, pc, attempts, firstErr, noProgress, got>>
    BY <1>4 DEF Retry, seeker, read
  <2>2. tries' \in 0..MaxResponses
    BY <2>1 DEF Opens, MaxResponses
  <2> QED
    BY <2>1, <2>2 DEF Opens
<1>5. ASSUME NEW range \in {NoRange} \cup 0..Size, Accept(range)
      PROVE  Opens'
  <2>1. CASE \E at \in 0..Size : Opened(at)
    <3>1. /\ attempts' = <<>> /\ firstErr' = "none" /\ tries' = 0 /\ pc' \notin Opening
          /\ up' = up /\ noProgress' = noProgress /\ got' = got
      BY <2>1 DEF Opened, Ended, Continue, goto, Opening
    <3> QED
      BY <1>0, <3>1, OpensStart
  <2>2. CASE AttemptFails("broken")
    BY <1>5, <2>2, OpensAttempt DEF Accept, Error
  <2>3. (IF pc = "probe" THEN 0 ELSE offset) \in 0..Size
    BY SizeAssumption DEF Inv, Typed
  <2> QED
    BY <1>5, <2>1, <2>2, <2>3 DEF Accept
<1>6. CASE Call
  <2>1. /\ UNCHANGED <<up, attempts, firstErr, tries, noProgress>>
        /\ got' \in {got, <<>>} /\ pc' \notin Opening
    BY <1>6 DEF Call, ReadAt, ReadAtClosed, Close, goto, conn, seeker, read, Opening
  <2> QED
    BY <1>0, <2>1 DEF Opens
<1>7. CASE FetchFail \/ ReaderEmpty \/ ReadEOF \/ ReadDead
  <2>1. UNCHANGED <<up, attempts, firstErr, tries, noProgress, got>> /\ pc' \notin Opening
    BY <1>7 DEF FetchFail, ReaderEmpty, ReadEOF, ReadDead, Stop, goto, conn, seeker, read,
                Opening
  <2> QED
    BY <2>1 DEF Opens
<1>8. CASE ReadGiveUp
  <2>1. /\ UNCHANGED <<up, attempts, firstErr, tries, got>> /\ pc' \notin Opening
        /\ noProgress' = Retried(0)
    BY <1>8 DEF ReadGiveUp, Stop, goto, conn, Opening
  <2>2. noProgress' \in 0..(maxRetry + 1)
    BY <1>0, <2>1 DEF Retried, maxRetry
  <2> QED
    BY <2>1, <2>2 DEF Opens
<1>9. ASSUME NEW n \in 0..Size, Read(n) \/ ReadError(n)
      PROVE  Opens'
  <2>1. /\ UNCHANGED <<up, attempts, firstErr, tries>> /\ pc' \notin Opening
        /\ noProgress' \in {0, noProgress}
        /\ rc.kind = "live" /\ n \in Available /\ Copy(n)
    BY <1>9 DEF Read, ReadError, Continue, Stop, goto, conn, Opening
  <2> QED
    BY <1>0, <2>1, CopyTyped DEF Opens
<1>10. ASSUME NEW n \in 0..Size, ReadBreak(n)
       PROVE  Opens'
  <2>1. /\ rc.kind = "live" /\ n \in Available /\ Copy(n) /\ up' = up
        /\ noProgress' = Retried(n)
    BY <1>10 DEF ReadBreak
  <2>2. noProgress' \in 0..(maxRetry + 1)
    BY <1>0, <2>1 DEF Retried, maxRetry
  <2>3. got' \in Seq(0..Size)
    BY <2>1, CopyTyped
  <2>4. CASE Start("reopen")
    BY <2>1, <2>2, <2>3, <2>4, OpensStart DEF Start
  <2>5. CASE UNCHANGED conn /\ pc' \notin Opening
    BY <2>1, <2>2, <2>3, <2>5 DEF conn, Opens
  <2> QED
    BY <1>10, <2>4, <2>5 DEF ReadBreak, Continue, goto, Opening
<1> QED
  BY <1>1, <1>2, <1>3, <1>4, <1>5, <1>6, <1>7, <1>8, <1>9, <1>10 DEF Next, Step

\* The state of Fetch and of its reader is well typed, for any size of the blob,
\* any URLs and any hosts; in particular an open always has an endpoint to try.
THEOREM TypeCorrect == Spec => []TypeOK
<1>1. Inv /\ Opens => TypeOK
  <2> SUFFICES ASSUME Inv, Opens
               PROVE  TypeOK
    OBVIOUS
  <2>1. Len(got) <= want.len
    BY DEF Inv, Typed
  <2> QED
    BY <2>1 DEF Inv, Typed, Opens, TypeOK
<1> QED
  BY <1>1, OpensInit, OpensStep, Invariance, PTL DEF Spec

\* The body that a reader holds is at its offset, so that no Read or Seek, and no
\* break of a connection, makes it answer with bytes from another place.
THEOREM BodyIsInPlace == Spec => []BodyInPlace
BY Invariance, PTL DEF Inv

\* However reads seek, break, fail and are retried, and however often the probe
\* of Fetch is repeated, at most one body is open beside that of the probe.
THEOREM StreamsAreReleased == Spec => []StreamsReleased
<1>1. Inv => StreamsReleased
  BY DEF Inv, Streaming, StreamsReleased, Held
<1> QED
  BY <1>1, Invariance, PTL

\* The reader of a remote blob is a reader of the blob.
THEOREM Refinement == Spec => ImplementsBlobReader
<1>1. Init => Reader!Init
  BY DEF Init, Reader!Init
<1>2. Inv /\ [Next]_vars => ReaderStep
  BY NextStep
<1> QED
  BY <1>1, <1>2, Invariance, PTL DEF Spec, ImplementsBlobReader, Reader!Spec, ReaderStep
=============================================================================
