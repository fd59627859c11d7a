----------------------------- MODULE RemoteReader -----------------------------
(***************************************************************************)
(* pkg/remote: the reader of a blob that is in a registry and not in the     *)
(* local store.                                                            *)
(*                                                                         *)
(* Content.ReaderAt calls Fetch for a blob that a conversion knows from its  *)
(* remote cache.  Fetch asks the registry once, to find out that it answers, *)
(* and returns an httpReadSeeker, which opens the blob at the offset of a    *)
(* read, follows the body of the response while reads are sequential, and    *)
(* opens it again when the connection breaks.  Opening tries the URLs of the *)
(* descriptor, then the hosts of the registry, each with retries.            *)
(*                                                                         *)
(* A reader has one caller at a time.  A byte of the blob is its offset.     *)
(***************************************************************************)
EXTENDS Integers, FiniteSets, SequencesExt

CONSTANTS Size,        \* desc.Size
          Urls,        \* desc.URLs: "web" or "other", by their scheme
          Hosts        \* registryHosts: whether a host has the pull capability

ASSUME SizeAssumption == Size \in Nat
ASSUME UrlsAssumption == Urls \in Seq({"web", "other"})
ASSUME HostsAssumption == Hosts \in Seq(BOOLEAN) /\ Hosts # <<>>

VARIABLES up,          \* the registry accepts connections
          pc,          \* where the caller is in Fetch or ReadAt
          attempts,    \* the endpoints that the open in progress has not tried
          firstErr,    \* the first error of its hosts
          tries,       \* the responses of its current endpoint so far
          offset,      \* hrs.offset, hrs.rc and hrs.errsWithNoProgress
          rc,
          noProgress,
          streams,     \* response bodies that nobody has closed
          want,        \* [at, len]: the ReadAt in progress, or the last
          got,         \* the bytes copied for it
          res          \* what it returned

conn == <<attempts, firstErr, tries>>
seeker == <<offset, rc, noProgress>>
read == <<want, got, res>>
vars == <<up, pc, conn, seeker, streams, read>>

maxRetry == 3

\* doWithRetries keeps the responses of a request, and retries up to five.
MaxResponses == 5

Opening == {"probe", "open", "reopen"}

Error == {"refused", "broken", "notfound", "status"}

\* rc: nil, an empty reader, the body of a response, such a body after an error.
NoBody == [kind |-> "none", pos |-> 0]
EmptyReader == [kind |-> "empty", pos |-> 0]
Body(kind, pos) == [kind |-> kind, pos |-> pos]

TypeOK ==
    /\ up \in BOOLEAN
    /\ pc \in Opening \cup {"called", "failed", "idle", "read", "closed"}
    /\ attempts \in Seq({"url", "host"})
    /\ pc \in Opening => attempts # <<>>
    /\ firstErr \in Error \cup {"none"}
    /\ tries \in 0..MaxResponses
    /\ offset \in 0..Size
    /\ rc \in [kind: {"none", "empty", "live", "dead"}, pos: 0..Size]
    /\ noProgress \in 0..(maxRetry + 1)
    /\ streams \in Nat
    /\ want \in [at: 0..Size, len: Nat \ {0}]
    /\ got \in Seq(0..Size) /\ Len(got) <= want.len
    /\ res \in {"none", "pending", "ok", "error"}

Init ==
    /\ up \in BOOLEAN
    /\ pc = "called"
    /\ attempts = <<>> /\ firstErr = "none" /\ tries = 0
    /\ offset = 0 /\ rc = NoBody /\ noProgress = 0
    /\ streams = 0
    /\ want = [at |-> 0, len |-> 1] /\ got = <<>> /\ res = "none"

goto(label) == pc' = label

-----------------------------------------------------------------------------
(* Fetch *)

\* filterHosts appends the hosts it selects to the ones it was given.
FilterHosts == Len(Hosts) + Cardinality({i \in DOMAIN Hosts : Hosts[i]})

\* What an open tries, in order: URLs of a scheme it supports, then the hosts.
Endpoints ==
    LET urls == Cardinality({i \in DOMAIN Urls : Urls[i] = "web"})
    IN  [i \in 1..urls |-> "url"] \o [i \in 1..FilterHosts |-> "host"]

Start(label) ==
    /\ goto(label)
    /\ attempts' = Endpoints /\ firstErr' = "none" /\ tries' = 0

Ended == attempts' = <<>> /\ firstErr' = "none" /\ tries' = 0

\* The probe of Fetch.
Fetch ==
    /\ pc = "called"
    /\ Start("probe")
    /\ UNCHANGED <<up, seeker, streams, read>>

\* The reference does not parse, or the registry is not configured.
FetchFail ==
    /\ pc = "called"
    /\ goto("failed")
    /\ UNCHANGED <<up, conn, seeker, streams, read>>

-----------------------------------------------------------------------------
(***************************************************************************)
(* io.ReadFull calls Read until it has the bytes or Read returns an error,   *)
(* which it drops when it has all of them.                                   *)
(***************************************************************************)
Continue(bytes) ==
    IF Len(bytes) = want.len
      THEN goto("idle") /\ res' = "ok"
      ELSE goto("read") /\ UNCHANGED res

Stop(bytes) ==
    /\ goto("idle")
    /\ res' = IF Len(bytes) = want.len THEN "ok" ELSE "error"

-----------------------------------------------------------------------------
(* open *)

\* Mutant: Fetch calls itself again whatever the error of the probe.
OpenFailsAgain(err) ==
    \/ /\ pc = "probe"
       /\ Start("probe")
       /\ UNCHANGED read
    \/ /\ pc \in {"open", "reopen"}
       /\ Stop(got) /\ Ended
       /\ UNCHANGED <<want, got>>

\* hrs.open returns an error.  Fetch calls itself again, with plain HTTP, when
\* the connection was refused or timed out, and ignores any other error.
OpenFails(err) ==
    \/ /\ pc = "probe" /\ err = "refused"
       /\ Start("probe")
       /\ UNCHANGED read
    \/ /\ pc = "probe" /\ err # "refused"
       /\ goto("idle") /\ Ended
       /\ UNCHANGED read
    \/ /\ pc \in {"open", "reopen"}
       /\ Stop(got) /\ Ended
       /\ UNCHANGED <<want, got>>

\* An endpoint fails: only a URL that has not the blob gives way to the next
\* endpoint; all hosts are tried, and the first of their errors is returned.
AttemptFails(err) ==
    /\ UNCHANGED <<up, seeker, streams>>
    /\ \/ /\ Head(attempts) = "url" /\ err # "notfound"
          /\ OpenFails(err)
       \/ /\ Head(attempts) = "url" /\ err = "notfound"
          /\ attempts' = Tail(attempts) /\ tries' = 0
          /\ UNCHANGED <<pc, firstErr, read>>
       \/ /\ Head(attempts) = "host"
          /\ LET first == IF firstErr = "none" THEN err ELSE firstErr
             IN  IF Len(attempts) = 1
                   THEN OpenFails(first)
                   ELSE /\ attempts' = Tail(attempts) /\ tries' = 0
                        /\ firstErr' = first
                        /\ UNCHANGED <<pc, read>>

\* The connection is refused or times out.
Refuse ==
    /\ pc \in Opening
    /\ ~up
    /\ AttemptFails("refused")

\* Any other failure of the request: authorization, TLS, a broken connection, a
\* body that ends before the offset to discard to.
RequestFail ==
    /\ pc \in Opening
    /\ AttemptFails("broken")

\* The registry is busy, or wants an authorization that the authorizer of a
\* host can give: doWithRetries repeats the request.
Retry ==
    /\ pc \in Opening
    /\ up
    /\ tries < MaxResponses
    /\ tries' = tries + 1
    /\ UNCHANGED <<up, pc, attempts, firstErr, seeker, streams, read>>

\* The status of the response is above 299.
Reject ==
    /\ pc \in Opening
    /\ up
    /\ \E err \in {"notfound", "status"} : AttemptFails(err)

\* hrs.open returns a body.  Fetch drops that of its probe without closing it.
Opened(pos) ==
    /\ Ended
    /\ streams' = streams + 1
    /\ \/ pc = "probe" /\ goto("idle") /\ UNCHANGED <<rc, res>>
       \/ pc = "open" /\ goto("read") /\ rc' = Body("live", pos) /\ UNCHANGED res
       \/ pc = "reopen" /\ Continue(got) /\ rc' = Body("live", pos)
    /\ UNCHANGED <<up, offset, noProgress, want, got>>

NoRange == -1

\* Mutant: a range that the registry gives is taken for the one asked for.
AcceptAnyRange(range) ==
    /\ pc \in Opening
    /\ up
    /\ LET at == IF pc = "probe" THEN 0 ELSE offset
       IN  IF at = 0 THEN range = NoRange /\ Opened(0)
           ELSE Opened(IF range = NoRange THEN at ELSE range)

\* The registry answers with the blob, or with its bytes from the range on that
\* its content-range header says.  Above offset 0 the range must be the one
\* asked for, and the bytes before it are discarded when there is no header.
Accept(range) ==
    /\ pc \in Opening
    /\ up
    /\ LET at == IF pc = "probe" THEN 0 ELSE offset
       IN  \/ at = 0 /\ range = NoRange /\ Opened(0)
           \/ at > 0 /\ range \in {NoRange, at} /\ Opened(at)
           \/ at > 0 /\ range \notin {NoRange, at} /\ AttemptFails("broken")

-----------------------------------------------------------------------------
(* ReadAt *)

\* The bodies of the reader that rc.Close would close.
Held == IF rc.kind \in {"live", "dead"} THEN 1 ELSE 0

\* Mutant: Seek drops the body without closing it.
ReadAtDrop(at, len) ==
    /\ pc = "idle"
    /\ want' = [at |-> at, len |-> len] /\ got' = <<>> /\ res' = "pending"
    /\ offset' = at
    /\ rc' = IF at = offset THEN rc ELSE NoBody
    /\ goto("read")
    /\ UNCHANGED <<up, conn, streams, noProgress>>

\* Seek, which closes the body unless it is at the offset already, then ReadFull.
ReadAt(at, len) ==
    /\ pc = "idle"
    /\ want' = [at |-> at, len |-> len] /\ got' = <<>> /\ res' = "pending"
    /\ offset' = at
    /\ rc' = IF at = offset THEN rc ELSE NoBody
    /\ streams' = IF at = offset THEN streams ELSE streams - Held
    /\ goto("read")
    /\ UNCHANGED <<up, conn, noProgress>>

\* Seek fails on a closed reader.
ReadAtClosed(at, len) ==
    /\ pc = "closed"
    /\ want' = [at |-> at, len |-> len] /\ got' = <<>> /\ res' = "error"
    /\ UNCHANGED <<up, pc, conn, seeker, streams>>

Close ==
    /\ pc = "idle"
    /\ goto("closed")
    /\ rc' = NoBody
    /\ streams' = streams - Held
    /\ UNCHANGED <<up, conn, offset, noProgress, read>>

\* reader(): open the blob at the offset, unless that is its end.
ReaderOpen ==
    /\ pc = "read" /\ rc = NoBody
    /\ offset < Size
    /\ Start("open")
    /\ UNCHANGED <<up, seeker, streams, read>>

ReaderEmpty ==
    /\ pc = "read" /\ rc = NoBody
    /\ offset >= Size
    /\ rc' = EmptyReader
    /\ UNCHANGED <<up, pc, conn, offset, noProgress, streams, read>>

\* The bytes that one Read of the body may give.
Available ==
    LET left == want.len - Len(got)
        rest == Size - rc.pos
    IN  0..(IF left < rest THEN left ELSE rest)

\* Mutant: the offset of the reader stays.
CopyBehind(n) ==
    /\ got' = got \o [i \in 1..n |-> rc.pos + i - 1]
    /\ UNCHANGED offset

\* rd.Read has copied n bytes.
Copy(n) ==
    /\ got' = got \o [i \in 1..n |-> rc.pos + i - 1]
    /\ offset' = offset + n

Read(n) ==
    /\ pc = "read" /\ rc.kind = "live"
    /\ n \in Available \ {0}
    /\ Copy(n)
    /\ rc' = [rc EXCEPT !.pos = @ + n]
    /\ noProgress' = 0
    /\ Continue(got')
    /\ UNCHANGED <<up, conn, streams, want>>

\* The end of the body, or of the empty reader.
ReadEOF ==
    /\ pc = "read"
    /\ \/ rc.kind = "empty"
       \/ rc.kind = "live" /\ rc.pos = Size
    /\ Stop(got)
    /\ UNCHANGED <<up, conn, seeker, streams, want, got>>

\* Mutant: retries without progress are not limited.
RetriedForever(n) == 0

\* errsWithNoProgress after a broken read of n bytes; it is only compared with
\* maxRetry, so that one value stands for all above.
Retried(n) ==
    IF n > 0 THEN 0
    ELSE IF noProgress > maxRetry THEN noProgress ELSE noProgress + 1

\* io.ErrUnexpectedEOF, after n bytes: Read closes the body and opens the blob
\* again at the new offset ...
ReadBreak(n) ==
    /\ pc = "read" /\ rc.kind = "live"
    /\ n \in Available
    /\ Copy(n)
    /\ noProgress' = Retried(n)
    /\ noProgress' <= maxRetry
    /\ streams' = streams - 1
    /\ \/ /\ offset' < Size
          /\ Start("reopen")
          /\ rc' = NoBody
          /\ UNCHANGED res
       \/ /\ offset' >= Size
          /\ Continue(got')
          /\ rc' = EmptyReader
          /\ UNCHANGED conn
    /\ UNCHANGED <<up, want>>

\* ... unless it did so too often without progress.
ReadGiveUp ==
    /\ pc = "read" /\ rc.kind = "live"
    /\ noProgress' = Retried(0)
    /\ noProgress' > maxRetry
    /\ rc' = [rc EXCEPT !.kind = "dead"]
    /\ Stop(got)
    /\ UNCHANGED <<up, conn, offset, streams, want, got>>

\* Any other error of the body: it stays the reader's, and says so again.
ReadError(n) ==
    /\ pc = "read" /\ rc.kind = "live"
    /\ n \in Available
    /\ Copy(n)
    /\ rc' = Body("dead", rc.pos + n)
    /\ noProgress' = IF n > 0 THEN 0 ELSE noProgress
    /\ Stop(got')
    /\ UNCHANGED <<up, conn, streams, want>>

ReadDead ==
    /\ pc = "read" /\ rc.kind = "dead"
    /\ Stop(got)
    /\ UNCHANGED <<up, conn, seeker, streams, want, got>>

-----------------------------------------------------------------------------
(* The registry *)

\* It goes away, or comes back.
Toggle ==
    /\ up' = ~up
    /\ UNCHANGED <<pc, conn, seeker, streams, read>>

-----------------------------------------------------------------------------
\* What goes on inside a call of Fetch or of ReadAt.
Step ==
    \/ Fetch \/ FetchFail
    \/ Refuse \/ RequestFail \/ Retry \/ Reject
    \/ \E range \in {NoRange} \cup 0..Size : Accept(range)
    \/ ReaderOpen \/ ReaderEmpty \/ ReadEOF \/ ReadGiveUp \/ ReadDead
    \/ \E n \in 0..Size : Read(n) \/ ReadBreak(n) \/ ReadError(n)

Call ==
    \/ \E at \in 0..Size, len \in 1..(Size + 1) : ReadAt(at, len) \/ ReadAtClosed(at, len)
    \/ Close

Next == Step \/ Call \/ Toggle

Spec == Init /\ [][Next]_vars

\* A request to the registry gets an answer or an error in the end.
FairSpec == Spec /\ WF_vars(Step)

-----------------------------------------------------------------------------
(* Properties *)

\* The body that a reader holds is at its offset: reads that follow each other
\* continue it, and every other read gets one opened at its own offset.
BodyInPlace ==
    rc.kind \in {"live", "dead"} => rc.pos = offset

\* A reader keeps at most one body open, beside that of the probe, and none of
\* its own after Close.
StreamsReleased ==
    streams <= Held + 1

\* Reads through Fetch are reads of the blob, whatever breaks between.
Reader == INSTANCE BlobReader WITH closed <- pc = "closed"

ImplementsBlobReader == Reader!Spec

\* A read returns, however often and wherever connections break, also when the
\* registry never comes back.
EveryReadReturns == res = "pending" ~> res # "pending"

\* Fetch returns when the registry accepts connections from some time on.
FetchReturns == <>[]up => (pc = "called" ~> pc \in {"idle", "failed"})
=============================================================================
