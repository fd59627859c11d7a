------------------------------ MODULE Converter ------------------------------
(***************************************************************************)
(* pkg/converter and pkg/content: conversions that share a provider.         *)
(*                                                                         *)
(* The provider keeps the image that each reference was last pulled at, and  *)
(* a switch to plain HTTP; every conversion reads and writes both.  The      *)
(* blobs of an image are fetched at once, each by one goroutine, and the     *)
(* goroutines of all conversions that want a blob share one fetch: it runs   *)
(* with the resolver, the context and the remote cache of the first.         *)
(*                                                                         *)
(* A conversion runs while its caller holds GcMutex.  The blobs of an image  *)
(* are its root (index, manifests and configs) and its layers.  What the     *)
(* remote cache does with its image in the registry is RemoteCache's.        *)
(***************************************************************************)
EXTENDS NydusManifest, FiniteSets

CONSTANTS Conversion,   \* calls of Converter.Convert
          Sync,         \* those with the context of a request
          Ref,          \* source references, as ParseDockerRef writes them
          Source,       \* Source[c]: the reference c converts
          Image,        \* Image[r][v]: what r names after v - 1 pushes
          Caching,      \* the conversions with a cache reference
          Cached,       \* Cached[c]: layers that the remote cache of c has
          Serves,       \* Serves[r]: the schemes that the registry of r answers
          MaxFault      \* bound: mishaps, and requests that are canceled

Nobody == "nobody"
Layers(image) == UNION {Range(m.layers) : m \in Range(GetManifests(image))}

ASSUME ConversionAssumption ==
    /\ Source \in [Conversion -> Ref]
    /\ Sync \subseteq Conversion /\ Caching \subseteq Conversion
    /\ Nobody \notin Conversion /\ IsFiniteSet(Conversion)
ASSUME ImageAssumption ==
    /\ DOMAIN Image = Ref
    /\ \A r \in Ref : Image[r] \in Seq(ImageType) \ {<<>>}
ASSUME ServesAssumption == Serves \in [Ref -> SUBSET {"http", "https"}]
ASSUME FaultAssumption == MaxFault \in Nat

Versions(r) == DOMAIN Image[r]
Root(r, v) == <<r, v>>
LayersOf == [r \in Ref |-> [v \in Versions(r) |-> Layers(Image[r][v])]]
BlobsOf == [r \in Ref |-> [v \in Versions(r) |-> {Root(r, v)} \cup LayersOf[r][v]]]
Layer == UNION {UNION Range(LayersOf[r]) : r \in Ref}
Blob == UNION {UNION Range(BlobsOf[r]) : r \in Ref}

ASSUME CachedAssumption ==
    \A c \in Conversion :
        Cached[c] \subseteq Layer /\ (Cached[c] # {} => c \in Caching)
ASSUME RootAssumption == \A r \in Ref : \A v \in Versions(r) : Root(r, v) \notin Layer

VARIABLES tag,        \* tag[r]: what r names
          target,     \* target[r]: the image at the target reference of r
          plainHTTP,  \* LocalProvider.usePlainHTTP
          images,     \* LocalProvider.images, 0 where there is none
          store,      \* the blobs in the content store
          leader,     \* leader[b]: whose fetch of b runs
          pc,         \* pc[c]: where conversion c is
          retried,    \* retried[c]: it is in the retry with plain HTTP
          plain,      \* plain[c]: the resolver of its pull is a plain one
          pulls,      \* pulls[c]: what its resolver resolved the reference to
          asked,      \* asked[c]: the blobs that it asked for
          waits,      \* waits[c]: those whose fetch has not returned
          err,        \* err[c]: the first error of its pull, or its error
          records,    \* records[c]: the layers of its remote cache
          made,       \* made[c]: the version that it converted, 0 at first
          desc,       \* desc[c]: the image that the driver made of it
          canceled,   \* the requests that were canceled
          mishaps,    \* how many requests timed out or got an error for an
                      \* answer, and writes to the store that failed
          met         \* history: the conversions that ran while another of their
                      \* reference did

provider == <<plainHTTP, images, store>>
fetches == <<leader, asked, waits>>
registry == <<tag, target>>
output == <<made, desc>>
faults == <<canceled, mishaps, met>>
vars == <<registry, provider, fetches, pc, retried, plain, pulls, err, records,
          output, faults>>

\* Refused: errdefs.NeedsRetryWithHTTP accepts it.  Error: any other answer of a
\* registry, or of the store.
Errors == {"none", "refused", "error", "canceled", "missing", "unmatched", "driver"}
Ended == {"done", "failed"}

TypeOK ==
    /\ tag \in [Ref -> Nat] /\ images \in [Ref -> Nat] /\ DOMAIN target = Ref
    /\ \A r \in Ref : tag[r] \in Versions(r) /\ images[r] \in {0} \cup Versions(r)
    /\ \A r \in Ref : target[r].kind \in {"none", "index"}
    /\ plainHTTP \in BOOLEAN
    /\ store \subseteq Blob
    /\ leader \in [Blob -> Conversion \cup {Nobody}]
    /\ pc \in [Conversion -> {"idle", "resolve", "fetch", "image", "convert",
                              "recurse", "pushCache", "push"} \cup Ended]
    /\ retried \in [Conversion -> BOOLEAN]
    /\ plain \in [Conversion -> BOOLEAN]
    /\ pulls \in [Conversion -> Nat] /\ made \in [Conversion -> Nat]
    /\ \A c \in Conversion : pulls[c] \in {0} \cup Versions(Source[c])
    /\ asked \in [Conversion -> SUBSET Blob]
    /\ waits \in [Conversion -> SUBSET Blob]
    /\ \A c \in Conversion : waits[c] \subseteq asked[c]
    /\ \A b \in Blob : leader[b] = Nobody <=> \A c \in Conversion : b \notin waits[c]
    /\ err \in [Conversion -> Errors]
    /\ records \in [Conversion -> SUBSET Layer]
    /\ \A c \in Conversion : made[c] \in {0} \cup Versions(Source[c])
    /\ DOMAIN desc = Conversion
    /\ \A c \in Conversion : desc[c].kind \in {"none", "index"}
    /\ canceled \subseteq Sync
    /\ mishaps \in 0..MaxFault
    /\ met \subseteq Conversion

NoImage == [kind |-> "none", manifests |-> <<>>]

Init ==
    /\ tag = [r \in Ref |-> 1]
    /\ target = [r \in Ref |-> NoImage]
    /\ plainHTTP = FALSE
    /\ images = [r \in Ref |-> 0]
    /\ store = {}
    /\ leader = [b \in Blob |-> Nobody]
    /\ pc = [c \in Conversion |-> "idle"]
    /\ retried = [c \in Conversion |-> FALSE]
    /\ plain = [c \in Conversion |-> FALSE]
    /\ pulls = [c \in Conversion |-> 0]
    /\ asked = [c \in Conversion |-> {}]
    /\ waits = [c \in Conversion |-> {}]
    /\ err = [c \in Conversion |-> "none"]
    /\ records = [c \in Conversion |-> {}]
    /\ made = [c \in Conversion |-> 0]
    /\ desc = [c \in Conversion |-> NoImage]
    /\ canceled = {}
    /\ mishaps = 0
    /\ met = {}

Runs(c) == pc[c] \notin {"idle"} \cup Ended

goto(c, label) == pc' = [pc EXCEPT ![c] = label]

\* A resolver made while the switch is at http reaches the registry of c.
Reaches(c, http) == (IF http THEN "http" ELSE "https") \in Serves[Source[c]]

Faults == mishaps + Cardinality(canceled)

Mishap == Faults < MaxFault /\ mishaps' = mishaps + 1

\* A request of c to its registry fails with e: it answers no such scheme, it
\* times out, or it gets a 401, a 404, a 5xx for an answer.
RequestFails(c, e) ==
    \/ e = "refused" /\ ~Reaches(c, plainHTTP) /\ UNCHANGED mishaps
    \/ e \in {"refused", "error"} /\ Mishap

-----------------------------------------------------------------------------
(* Errors *)

Fail(c, e) ==
    /\ goto(c, "failed")
    /\ err' = [err EXCEPT ![c] = e]
    /\ retried' = [retried EXCEPT ![c] = FALSE]
    /\ UNCHANGED plainHTTP

\* Mutant: a retry is never the last.
OrRetryAlways(c, e, from) ==
    IF e = "refused"
    THEN /\ plainHTTP' = TRUE
         /\ retried' = [retried EXCEPT ![c] = TRUE]
         /\ goto(c, from)
         /\ UNCHANGED err
    ELSE Fail(c, e)

\* errdefs.NeedsRetryWithHTTP, once in a pull and once in a push.
OrRetry(c, e, from) ==
    IF e = "refused" /\ ~retried[c]
    THEN /\ plainHTTP' = TRUE
         /\ retried' = [retried EXCEPT ![c] = TRUE]
         /\ goto(c, from)
         /\ UNCHANGED err
    ELSE Fail(c, e)

-----------------------------------------------------------------------------
(* The cache, and the pull *)

\* The conversion starts, with the records that Fetch got before it ended if it has
\* a cache; an error is only logged.
FetchCache(c) ==
    /\ pc[c] = "idle"
    /\ \/ c \notin Caching /\ UNCHANGED <<plainHTTP, mishaps>>
       \/ /\ c \in Caching /\ UNCHANGED mishaps
          /\ plainHTTP' = (plainHTTP \/ ~Reaches(c, plainHTTP))
       \/ c \in Caching /\ Mishap /\ plainHTTP' = TRUE
    /\ \E got \in SUBSET Cached[c] :
           /\ Reaches(c, plainHTTP') \/ got = {}
           /\ records' = [records EXCEPT ![c] = got]
    /\ LET others == {d \in Conversion \ {c} : Source[d] = Source[c] /\ Runs(d)}
       IN  met' = met \cup others \cup {d \in {c} : others # {}}
    /\ goto(c, "resolve")
    /\ UNCHANGED <<registry, images, store, fetches, retried, plain, pulls, err,
                   output, canceled>>

\* Mutant: the reference names the image before the fetch has brought it.
ResolveSet(c) ==
    /\ pc[c] = "resolve"
    /\ Reaches(c, plainHTTP)
    /\ plain' = [plain EXCEPT ![c] = plainHTTP]
    /\ pulls' = [pulls EXCEPT ![c] = tag[Source[c]]]
    /\ images' = [images EXCEPT ![Source[c]] = tag[Source[c]]]
    /\ goto(c, "fetch")
    /\ UNCHANGED <<registry, plainHTTP, store, fetches, retried, err, records,
                   output, faults>>

\* LocalProvider.Resolver, then fetch resolves the reference.
Resolve(c) ==
    /\ pc[c] = "resolve"
    /\ Reaches(c, plainHTTP)
    /\ plain' = [plain EXCEPT ![c] = plainHTTP]
    /\ pulls' = [pulls EXCEPT ![c] = tag[Source[c]]]
    /\ goto(c, "fetch")
    /\ UNCHANGED <<registry, provider, fetches, retried, err, records, output,
                   faults>>

ResolveFail(c) ==
    /\ pc[c] = "resolve"
    /\ \E e \in Errors : RequestFails(c, e) /\ OrRetry(c, e, "resolve")
    /\ UNCHANGED <<registry, images, store, fetches, plain, pulls, records, output,
                   canceled, met>>

\* images.Dispatch: the root first, the others when it is there.  They are asked
\* for whatever becomes of one of them.
Wanted(c) ==
    LET root == Root(Source[c], pulls[c])
    IN  IF root \in asked[c] \ waits[c] /\ (err[c] = "none" \/ asked[c] # {root})
        THEN BlobsOf[Source[c]][pulls[c]] ELSE {root}

\* fetchSingleflight.Do: as the first, or to wait for the first.
Ask(c, b) ==
    /\ pc[c] = "fetch"
    /\ b \in Wanted(c) \ asked[c]
    /\ asked' = [asked EXCEPT ![c] = @ \cup {b}]
    /\ waits' = [waits EXCEPT ![c] = @ \cup {b}]
    /\ leader' = [leader EXCEPT ![b] = IF @ = Nobody THEN c ELSE @]
    /\ UNCHANGED <<registry, provider, pc, retried, plain, pulls, err, records,
                   output, faults>>

-----------------------------------------------------------------------------
(* The fetch of a blob, by its leader *)

\* Mutant: those that wait are left behind.
ReturnAlone(b, e) ==
    /\ leader' = [leader EXCEPT ![b] = Nobody]
    /\ waits' = [waits EXCEPT ![leader[b]] = @ \ {b}]
    /\ err' = [c \in Conversion |->
                  IF b \in waits[c] /\ err[c] = "none" THEN e ELSE err[c]]

\* Do returns to all that wait for b.  Their errgroups keep the first error.
Return(b, e) ==
    /\ leader' = [leader EXCEPT ![b] = Nobody]
    /\ waits' = [c \in Conversion |-> waits[c] \ {b}]
    /\ err' = [c \in Conversion |->
                  IF b \in waits[c] /\ err[c] = "none" THEN e ELSE err[c]]

\* Content.Writer: in the store, or in the remote cache of the leader.
Exists(b) == b \in store \cup records[leader[b]]

\* The errgroup of the leader cancels its context with the first error.
Canceled(c) == c \in canceled \/ err[c] # "none"

Present(b) ==
    /\ leader[b] # Nobody /\ Exists(b)
    /\ Return(b, "none")
    /\ UNCHANGED <<store, mishaps>>

Download(b) ==
    /\ leader[b] # Nobody /\ ~Exists(b)
    /\ Reaches(leader[b], plain[leader[b]])
    /\ Return(b, "none")
    /\ store' = store \cup {b}
    /\ UNCHANGED mishaps

\* The request fails, or the write.
FetchFail(b) ==
    /\ leader[b] # Nobody /\ ~Exists(b)
    /\ Mishap
    /\ \E e \in {"refused", "error"} : Return(b, e)
    /\ UNCHANGED store

FetchCanceled(b) ==
    /\ leader[b] # Nobody /\ ~Exists(b)
    /\ Canceled(leader[b])
    /\ Return(b, "canceled")
    /\ UNCHANGED <<store, mishaps>>

Fetch(b) ==
    /\ Present(b) \/ Download(b) \/ FetchFail(b) \/ FetchCanceled(b)
    /\ UNCHANGED <<registry, plainHTTP, images, asked, pc, retried, plain, pulls,
                   records, output, canceled, met>>

-----------------------------------------------------------------------------
(* The rest of the conversion *)

Fetched(c) == pc[c] = "fetch" /\ asked[c] = Wanted(c) /\ waits[c] = {}

\* The locals of the pull.
Forget(c) ==
    /\ asked' = [asked EXCEPT ![c] = {}]
    /\ plain' = [plain EXCEPT ![c] = FALSE]

\* Mutant: an image that is there stays.
SetImageOnce(c) ==
    /\ Fetched(c) /\ err[c] = "none"
    /\ images' = [images EXCEPT ![Source[c]] = IF @ = 0 THEN pulls[c] ELSE @]
    /\ goto(c, "image")
    /\ retried' = [retried EXCEPT ![c] = FALSE]
    /\ Forget(c)
    /\ UNCHANGED <<registry, plainHTTP, store, leader, waits, pulls, err, records,
                   output, faults>>

\* Pull returns: setImage.
SetImage(c) ==
    /\ Fetched(c) /\ err[c] = "none"
    /\ images' = [images EXCEPT ![Source[c]] = pulls[c]]
    /\ goto(c, "image")
    /\ retried' = [retried EXCEPT ![c] = FALSE]
    /\ Forget(c)
    /\ UNCHANGED <<registry, plainHTTP, store, leader, waits, pulls, err, records,
                   output, faults>>

PullFail(c) ==
    /\ Fetched(c) /\ err[c] # "none"
    /\ IF err[c] = "refused" /\ ~retried[c]
       THEN /\ plainHTTP' = TRUE
            /\ retried' = [retried EXCEPT ![c] = TRUE]
            /\ err' = [err EXCEPT ![c] = "none"]
            /\ goto(c, "resolve")
       ELSE Fail(c, err[c])
    /\ Forget(c)
    /\ UNCHANGED <<registry, images, store, leader, waits, pulls, records, output,
                   faults>>

\* Mutant: only the store is asked.
ReadableInStore(c, v) == BlobsOf[Source[c]][v] \subseteq store

\* Content.Info and Content.ReaderAt know the layers of the remote cache.
Readable(c, v) == BlobsOf[Source[c]][v] \subseteq store \cup records[c]

\* The image that the reference names now, its layers get their diff IDs.
UpdateLayerDiffID(c) ==
    /\ pc[c] = "image"
    /\ LET v == images[Source[c]]
       IN  IF Readable(c, v) /\ Matched(Image[Source[c]][v])
           THEN goto(c, "convert") /\ UNCHANGED <<plainHTTP, retried, err>>
           ELSE Fail(c, IF Readable(c, v) THEN "unmatched" ELSE "missing")
    /\ UNCHANGED <<registry, images, store, fetches, plain, pulls, records, output,
                   faults>>

\* The driver does not convert the layers that its remote cache has: it reads what
\* they were converted to, from the registry and in plain HTTP, unless it finds
\* that in the store, where an earlier conversion may have left it.
FromCache(c) == LayersOf[Source[c]][images[Source[c]]] \cap records[c]
AlreadyMade ==
    UNION {LayersOf[Source[d]][made[d]] : d \in {e \in Conversion : made[e] # 0}}

\* The driver asks for the image again.  cache.Set records what it converts.
Convert(c) ==
    /\ pc[c] = "convert"
    /\ LET v == images[Source[c]]
       IN  \/ /\ Readable(c, v)
              /\ goto(c, IF c \in Caching THEN "pushCache" ELSE "push")
              /\ "http" \in Serves[Source[c]] \/ FromCache(c) \subseteq AlreadyMade
              /\ made' = [made EXCEPT ![c] = v]
              /\ desc' = [desc EXCEPT ![c] = DriverConvert(Image[Source[c]][v])]
              /\ records' = [records EXCEPT ![c] =
                                IF c \in Caching THEN @ \cup LayersOf[Source[c]][v] ELSE @]
              /\ UNCHANGED <<plainHTTP, retried, err>>
           \/ ~Readable(c, v) /\ Fail(c, "missing") /\ UNCHANGED <<output, records>>
    /\ UNCHANGED <<registry, images, store, fetches, plain, pulls, faults>>

\* remote.Fetch calls itself for as long as the registry refuses plain HTTP.
Recurse(c) ==
    /\ pc[c] = "convert"
    /\ FromCache(c) # {} /\ "http" \notin Serves[Source[c]]
    /\ goto(c, "recurse")
    /\ UNCHANGED <<registry, provider, fetches, retried, plain, pulls, err, records,
                   output, faults>>

\* The builder fails, or a read.
ConvertFail(c) ==
    /\ pc[c] = "convert"
    /\ Fail(c, "driver")
    /\ UNCHANGED <<registry, images, store, fetches, plain, pulls, records, output,
                   faults>>

\* The image that the reference names now is merged into the remote cache.
HasSource(c) == Root(Source[c], images[Source[c]]) \in store

\* RemoteCache.Push, which does not retry.
PushCache(c) ==
    /\ pc[c] = "pushCache"
    /\ HasSource(c)
    /\ Reaches(c, plainHTTP)
    /\ goto(c, "push")
    /\ UNCHANGED <<registry, provider, fetches, retried, plain, pulls, err, records,
                   output, faults>>

PushCacheFail(c) ==
    /\ pc[c] = "pushCache"
    /\ \E e \in Errors :
           /\ RequestFails(c, e) \/ (e = "missing" /\ ~HasSource(c) /\ UNCHANGED mishaps)
           /\ Fail(c, e)
    /\ UNCHANGED <<registry, images, store, fetches, plain, pulls, records, output,
                   canceled, met>>

Push(c) ==
    /\ pc[c] = "push"
    /\ Reaches(c, plainHTTP)
    /\ target' = [target EXCEPT ![Source[c]] = desc[c]]
    /\ goto(c, "done")
    /\ retried' = [retried EXCEPT ![c] = FALSE]
    /\ UNCHANGED <<tag, provider, fetches, plain, pulls, err, records, output,
                   faults>>

PushFail(c) ==
    /\ pc[c] = "push"
    /\ \E e \in Errors : RequestFails(c, e) /\ OrRetry(c, e, "push")
    /\ UNCHANGED <<registry, images, store, fetches, plain, pulls, records, output,
                   canceled, met>>

\* What talks to a registry ends when the request is gone.
Stop(c) ==
    /\ c \in canceled
    /\ pc[c] \in {"resolve", "convert", "recurse", "pushCache", "push"}
    /\ Fail(c, "canceled")
    /\ UNCHANGED <<registry, images, store, fetches, plain, pulls, records, output,
                   faults>>

-----------------------------------------------------------------------------
(* The environment *)

Cancel(c) ==
    /\ c \in Sync \ canceled /\ Faults < MaxFault
    /\ Runs(c)
    /\ canceled' = canceled \cup {c}
    /\ UNCHANGED <<registry, provider, fetches, pc, retried, plain, pulls, err, records,
                   output, mishaps, met>>

PushSource(r) ==
    /\ tag[r] + 1 \in Versions(r)
    /\ tag' = [tag EXCEPT ![r] = @ + 1]
    /\ UNCHANGED <<target, provider, fetches, pc, retried, plain, pulls, err, records,
                   output, faults>>

\* A collection holds GcMutex.  It deletes blobs and leaves images as it is.
Collect ==
    /\ \A c \in Conversion : ~Runs(c)
    /\ \E kept \in SUBSET store : store' = kept
    /\ UNCHANGED <<registry, plainHTTP, images, fetches, pc, retried, plain, pulls, err,
                   records, output, faults>>

\* The goroutines of a conversion that runs.
Go(c) ==
    /\ Runs(c)
    /\ \/ Resolve(c) \/ ResolveFail(c)
       \/ \E b \in Blob : Ask(c, b)
       \/ \E b \in Blob : leader[b] = c /\ Fetch(b)
       \/ SetImage(c) \/ PullFail(c)
       \/ UpdateLayerDiffID(c)
       \/ ConvertFail(c) \/ Convert(c) \/ Recurse(c)
       \/ PushCache(c) \/ PushCacheFail(c)
       \/ Push(c) \/ PushFail(c)
       \/ Stop(c)

Next ==
    \/ \E c \in Conversion : FetchCache(c) \/ Go(c) \/ Cancel(c)
    \/ \E r \in Ref : PushSource(r)
    \/ Collect

Spec == Init /\ [][Next]_vars

\* Some goroutine of a conversion runs: a request and the builder come to an end,
\* with an answer or an error.  A conversion that recurses has no step to take.
FairSpec == Spec /\ WF_vars(\E c \in Conversion : Go(c))

-----------------------------------------------------------------------------
(* Properties *)

Pulled == {"image", "convert", "pushCache"}

\* Whoever pulled it last, and whatever was collected before, the image that a
\* conversion is about to read is complete: a blob that is not in the store is
\* one that a conversion took from its remote cache (local.go:93, ported.go:155).
PulledIsReadable ==
    \A c \in Conversion : pc[c] \in Pulled =>
        /\ images[Source[c]] # 0
        /\ \A b \in BlobsOf[Source[c]][images[Source[c]]] \ store :
               \E d \in Conversion : b \in records[d]

\* Unless another conversion of its reference runs meanwhile, a conversion makes
\* its target of what it resolved in its last attempt to pull, whatever earlier
\* conversions left in images (converter.go:130-166, local.go:127).
LoneConversionIsFresh ==
    \A c \in Conversion \ met : made[c] \in {0, pulls[c]}

\* As long as no request failed otherwise and none was canceled, conversions that
\* share a provider fail each other in two ways only: one whose registry is not
\* served in plain HTTP finds the switch there, turned by one that needed it
\* (converter.go:132), or lacks a layer that another, and not its own, remote
\* cache has, so that the other left it out of the store (content.go:264).
FailsForACause ==
    [][\A c \in Conversion : (pc[c] # "failed" /\ pc'[c] = "failed" /\ Faults' = 0) =>
          LET image == Image[Source[c]][images[Source[c]]]
          IN  \/ err'[c] = "driver"
              \/ err'[c] = "unmatched" /\ ~Matched(image)
              \/ /\ err'[c] = "refused" /\ "http" \notin Serves[Source[c]]
                 /\ \E d \in Conversion :
                        pc[d] # "idle" /\ "https" \notin Serves[Source[d]]
              \/ /\ err'[c] = "missing"
                 /\ \E l \in Layers(image) \ (store \cup records[c]) :
                        \E d \in Conversion \ {c} : l \in records[d]]_vars

\* Conversions end, whomever their fetches wait for, so that a collection gets
\* its turn: nobody waits for one that waits, and a retry is the last
\* (ported.go:152, converter.go:132).  All but one that recurses: it keeps
\* GcMutex, and the collection waits for ever (content.go:312, ported.go:194).
EveryConversionEnds ==
    (\E c \in Conversion : Runs(c)) ~>
        (\A c \in Conversion : Runs(c) => pc[c] = "recurse")

\* A conversion pushes, for every manifest that it was to convert, the converted
\* one and the OCI one under its platform, and marks only the converted one
\* (nydus.go:371).
TargetHasBoth ==
    [][\A c \in Conversion : (pc[c] = "push" /\ pc'[c] = "done") =>
           FindsBoth(Image[Source[c]][made[c]], target'[Source[c]])]_vars

\* "So that no layer reuse can be possible between stock OCI images and
\* nydus-converted OCI images" (nydus.go:484), whichever source they are of.
TargetSharesNothing ==
    [][\A r \in Ref : target'[r] # target[r] =>
           \A s \in Ref : \A v \in Versions(s) : NoReuse(Image[s][v], target'[r])]_vars
=============================================================================
