# A TLA+ model of acceleration-service

This directory specifies `acceld`, the daemon that converts container images
to accelerated formats, in TLA+: what its components keep, what their steps do,
and what must be true of them when the steps of concurrent requests, garbage
collections, failing transactions and restarts interleave. TLC checks small
instances of every module; TLAPS proves the safety properties that the passing
runs check for all of them.

`PROJECT.json` lists the runs, the map from definitions to source lines, the
mutants that show that each property can fail, and the hazards.

## The system

A request (`POST /conversions`, usually a webhook of Harbor for a pushed
artifact) names an image. `LocalAdapter.Dispatch` creates a task and converts
the image, at once or as a job of a worker pool: pull the source, convert it,
push the target under another tag. Blobs go through a local content store on
disk; converted layers are remembered in a cache image in the registry.

| Component | State | Operations | Talks to |
|---|---|---|---|
| task manager (`pkg/task`) | `tasks` map and bolt bucket, one mutex | `Init`, `Create`, `Finish` (writes, saves, evicts expired tasks), `List` | called by the adapter and by the task list route, which encodes the returned pointers after the unlock |
| adapter (`pkg/adapter`) | `dispatchSingleflight`, `Worker.jobs`, `GcMutex` (in the content store) | `Dispatch`, `Convert`, hourly GC | task manager, rules, converter, content store |
| rules (`rule.go`) | none | `Map` | string rewriting |
| webhook (`pkg/router`, `pkg/handler`) | one request | `CreateTask`: checks, a loop over the named images, the reply | adapter |
| converter (`pkg/converter`) | none | `Convert`: cache fetch, pull, driver, cache push, target push, each with a retry over plain HTTP | provider, driver, remote cache |
| provider (`content/local.go`, `ported.go`) | `images` map, `usePlainHTTP`, `fetchSingleflight` | `Pull` (one fetch per blob, shared by all conversions), `Push`, `Image`, `NewRemoteCache` | registry, content store |
| content store (`content.go`, `bucket.go`) | blobs on disk, leases and their labels in bolt | `ReaderAt`, `Writer.Commit` (both update the lease), `GC` | containerd lease manager and metadata store |
| leaseCache (`lease.go`) | LRU lists by used count, `size` | `Init`, `Add`, `Remove` | content store |
| remote cache (`pkg/cache`) | records of one conversion; the cache image in the registry | `Fetch`, `Push` (fetch, update, push), `Get`, `Set`, `Update` | provider, content store, nydus driver |
| remote reader (`pkg/remote`) | one HTTP body, an offset, a counter of retries | `Fetch`, `Read`, `Seek`, `Close` | registry, called by `Content.ReaderAt` |
| drivers (`pkg/driver`) | none | nydus, estargz conversion, `makeManifestIndex`, `PrependEmptyLayer` | external builders |
| server, daemon, client, config, metrics | none that steps depend on | I/O, parsing, counters | |

### What is hard

* **Interleavings.** Listings encode tasks while `Finish` writes them. Jobs for
  one image arrive while it is being converted. Two conversions update the lease
  of one blob in several transactions. Two conversions of one repository read,
  merge and push one cache image. Collections are started by conversions that
  hold the lock the collection wants. Conversions share the fetch of a blob, the
  map of images and the switch to plain HTTP.
* **Crashes.** Tasks, leases and blobs are persisted separately, and one
  operation is several transactions.
* **Failures.** Every transaction, pull, conversion and push may fail, after
  some of its effects; memory is changed before the transaction that persists it.
  Connections break at any byte, and are opened again. One error of the many
  that wait for a fetch becomes the error of all.
* **Limits.** Size of the store against the threshold, layers in the cache
  against `cache_size`, tasks against their keep period.

### What makes each component correct

* task manager: a task has one outcome, which lasts, is shown after a restart,
  and is never left PROCESSING with nobody working on it; `Finish` never meets an
  evicted task.
* adapter: one conversion of a reference at a time; no collection during a
  conversion; COMPLETED means pushed; an older image never replaces a newer one;
  every task finishes and every collection ends.
* content store: blobs are held by leases; the leaseCache says what the leases
  say; evictions in LFRU order; a collection gets below its limit.
* webhook: a reply is true of every image of the request; the service's own
  pushes, which Harbor reports too, are not converted.
* converter and provider: the image about to be read is complete and is the one
  that was resolved; conversions do not fail each other, but for two ways that the
  model names, and end, but for one; the target has both forms of every manifest and no layer that another image could reuse.
* remote reader: a read gets the bytes at its offset, returns, and leaves no body
  open.
* remote cache: bounded; no needless copies; what was converted is found again;
  merging loses no lower layers; layers of another version are not used.

## Modules

| Module | Models | Source |
|---|---|---|
| `TaskRecord` | abstract: what a client sees of one task, open, closed once, evicted | `pkg/task/manager.go` |
| `TaskManager` | the manager in detail | `pkg/task/manager.go`, `pkg/router/task_list.go` |
| `Adapter` | dispatch, pool, singleflight, conversion lock; uses `TaskRecord` for the tasks | `pkg/adapter`, `Content.GC` |
| `Rule` | the rewriting of references, and when a rule refuses one | `pkg/adapter/rule.go` |
| `Webhook` | requests over `Adapter` and `Rule` | `pkg/router/task_create.go`, `pkg/handler` |
| `Selection` | `Keep`: loops that append what passes a test | `pkg/cache`, `pkg/utils` |
| `NydusManifest` | the index that the nydus driver makes of an image | `pkg/driver/nydus`, `pkg/utils` |
| `Converter` | conversions over one provider; extends `NydusManifest` | `pkg/converter`, `pkg/content/local.go`, `ported.go` |
| `Content` | store, leases, leaseCache, collection | `pkg/content` |
| `RemoteCache` | conversions around the cache image | `pkg/cache`, `pkg/converter`, `pkg/driver/nydus` |
| `BlobReader` | abstract: reads of a blob at an offset | `pkg/content/content.go` |
| `RemoteReader` | `Fetch` and `httpReadSeeker` | `pkg/remote` |
| `TaskManagerProofs`, `AdapterProofs`, `WebhookProofs`, `ConverterProofs`, `ContentProofs`, `RemoteCacheProofs`, `RemoteReaderProofs`, `SelectionProofs` | theorems of the module they extend | |
| `MC*` | instances for TLC | |

`TaskManager` implements `TaskRecord` (property `ImplementsTaskRecord`, theorem
`Refinement`); `Adapter` uses the actions of `TaskRecord` in the place of the
manager, so that what it says of tasks rests on that refinement. `Webhook` extends
`Adapter` and implements it (theorem `WebhookRefinesAdapter`). `RemoteReader`
implements `BlobReader` (property `ImplementsBlobReader`, theorem `Refinement`).

### TaskManager

`tasks` is the set of identifiers in the map, `obj[id]` the `Task` the map points
to (the listing keeps the pointer), `bucket[id]` the persisted record. `pc[id]` is
the place of the call that works on task `id`: `Create` is `CreateTask` (lock,
insert), then `CreateSave` or `CreateFail`. `Finish` is `FinishStatus`
(lock, status), `FinishReason`, `FinishStamp`, then `FinishSave` or `FinishFail`,
one `EvictKeep`, `EvictDelete` or `EvictFail` per task of the range loop, in any
order as for a Go map, and `FinishReturn`. The writes are separate steps because
`List` hands out the pointers and the route encodes them without the mutex
(`EncodeStatus`, `EncodeReason`). `Crash` loses memory, `Restart` is `Init`, which
drops PROCESSING records. A failing `Create` leaves the task in the map, PROCESSING
for as long as the daemon lives, as the code does; `NoOrphanProcessing` excepts calls
that were refused. Time is a counter; bounds `MaxClock` and `KeepPeriod`.

### Adapter

A call `t` of `Dispatch` has a program counter through `Send`, `Receive`, `Do`
(lead or join the singleflight of its reference), the two calls of `Rule.Map`
(`MapReturn`, `MapTarget`), `RLock`, `Pull`, the three outcomes of the
conversion, `RUnlock`, `Return` (to everybody in `Sharing`) and `Finish`. `Workers`
is `0..Count`: the pool starts one goroutine more than configured. `GcMutex` is
`readers` and `writer`, where a waiting writer keeps new readers out, as
`sync.RWMutex` does. A collection is `GcCheck` (size above the limit or not),
`GcDo` (lead or join), `GcLock`, `GcAcquire`, `GcUnlock`. `AdapterStep` are the steps of a
call in the adapter, `ConverterStep` those in `cvt.Convert`. `Finish` takes its
save for successful: a failure is only logged and is `TaskManager`'s. A reference is a
text, as the key of the singleflight is; two texts that name one target, `nginx` and
`nginx:latest`, are outside the model. `src[r]` counts pushes of
users, `target[r]` is the version that the pushed target was made from.

### Rule and Webhook

A reference is a record of a name, a tag and a digest, and a text the sequence of
those of its parts that rules can tell apart. `RuleMap` is what the two calls of
`Rule.Map` make of a reference: no rule, already converted (the suffix), the cache
image itself (`ErrSameTag`), a target, a target and a cache. `Webhook` computes the
constant `Map` of `Adapter` with it.

A request is in `check` until `CreateTask` has looked at all of its images
(`Ignore`, `Reject`, `Accept`), then dispatches them one by one: `Convert` is the
call of `Dispatch`, after which a sync request waits (`Converted`) and an async one
goes on; `ConvertRefused` is the error of `Dispatch`, which drops the images after
it; `ReplyOk` is the end. `AdapterNext` are the steps of `Adapter` with the entry
points that the handler drives taken out.

### NydusManifest and Converter

`NydusManifest` is data: `GetManifests`, the conversion by containerd's converter
(external), `PrependEmptyLayer`, `Marked` (which platform and features a manifest
of the new index gets) and `MakeManifestIndex`. `FindsBoth` and `NoReuse` say what the
index must be for a runtime that looks for either form.

A conversion `c` of `Converter` is `FetchCache`; `Resolve` or `ResolveFail`; one `Ask`
per blob, which leads a fetch or joins the one of another conversion; `SetImage` or
`PullFail`; `UpdateLayerDiffID`; `Convert`, `ConvertFail` or `Recurse`; `PushCache` if it is in
`Caching` (it has a cache reference), `Push`, and their failures. A fetch of blob `b`
runs in the name of `leader[b]`: `Present` (in the store or in the leader's remote
cache), `Download`, `FetchFail`, `FetchCanceled`, and returns to everybody that waits
(`Return`). A request fails (`RequestFails`) because the registry does not answer its
scheme, or by a mishap: a timeout, or an error for an answer (401, 404, 5xx). What
`NeedsRetryWithHTTP` accepts, a refusal or a timeout, sets the switch to plain HTTP
and retries the step once (`OrRetry`); any other error ends the conversion. `Recurse` is
a read of a layer that only the remote cache has: `Content.ReaderAt` asks `remote.Fetch`
for it in plain HTTP, which calls itself while the registry refuses that, and the
conversion stays there. `PushSource` is a user's push, `Cancel` a sync
request that its client gives up, `Collect` a collection, which has `GcMutex` to itself
and deletes any blobs.

### RemoteReader

`pc` is where the caller is in `Fetch` (`called`, `probe`) or `ReadAt`. An open, of the
probe or of the reader, has the list `attempts` of endpoints (the URLs, then the
hosts as `filterHosts` leaves them), each with its `tries`: `Refuse`, `RequestFail`, `Retry`,
`Reject`, `Accept`. The reader is `offset`, `rc` (none, empty, live, or dead: a body after
an error) and `noProgress`; `ReadAt` is `Seek` and a read of its length, done by
`Read`, `ReadEOF`, `ReadBreak` (reopen at the new offset), `ReadGiveUp`, `ReadError` and `ReadDead`.
`streams` counts the response bodies that nobody has closed. `Toggle` is the registry
going down or coming back. A byte of the blob is its offset, so that `got` shows
where the bytes came from.

### Content

`ReaderAt` and `Commit` start an update of a lease: `LeaseList`, `LeaseCreate`,
`LeaseResource`, `LeaseLabel`, each a transaction that may fail (`LeaseFail`,
`LeaseLabelFail`); `Commit` then writes the blob (`Store`, `StoreFail`). The
leaseCache is `lc[n][d]`, the place of blob `d` in the LRU list of count `n`, and its
separate `size`. A collection is `GcStart`, `GcLock`, turns of `cleanLeases`
(`CleanLease`, and its four ways out) and `Collect`. `Crash` may come anywhere,
`Restart` is `NewContent` with `leaseCache.Init` (`Loaded`).

### RemoteCache

A conversion is `FetchCache` (or `FetchCacheFail`: the error is logged and what was
imported is used), `Pull`, `Convert`, `UpdateCache` (`RemoteCache.Push` up to its
first push), one `PushCache` per manifest and one for the index, `PushTarget`; `Fail`
is any error return. Pushing a manifest by the cache reference moves the
reference to it, so the pushes of an index pass through single manifests. A
converted layer is its source and the `cache_version` it was made under; a cache
manifest carries a version of its own. `Upgrade` restarts the daemon with the
next version; `Delete` is the registry dropping a source layer, on which `Fetch`
answers NotFound. The order of new manifests in an index is arbitrary, as it is
that of a Go map.

## Runs

| Run | Instance | Checks |
|---|---|---|
| `task_manager` | 3 tasks, keep period 0, clock to 1, crashes at will | `TypeOK`, `FinishFindsTask`, `NoOrphanProcessing`, `SavedOutcomeShown`, `ListedOutcomeStands`, `SavedOutcomeKept`, `ImplementsTaskRecord` |
| `adapter` | 3 calls, two for an image that is pushed twice, the first of them sync or async, and one for an image that the rules skip; pool of 1, hourly collections | `TargetNeverRegresses`, `EveryTaskFinishes`, `EveryCollectionEnds` |
| `webhook` | a request with 2 images, sync or async, and an async one with 1; images of Harbor and targets of the service; pool of 1 | `WebhookTypeOK`, `OneConversionPerRef`, `NoCollectionDuringConversion`, `CompletedIsPublished`, `ReplyIsTrue`, `OwnPushesIgnored` |
| `converter` | 3 conversions, 2 of an image that is pushed twice (a manifest, then an index of two platforms) on a registry with HTTPS only, one of these with a remote cache, and 1 of an image on a registry with HTTP only; one fault | `TypeOK`, `PulledIsReadable`, `LoneConversionIsFresh`, `FailsForACause`, `EveryConversionEnds`, `TargetHasBoth`, `TargetSharesNothing` |
| `remote_reader` | a blob of 3 bytes, a URL to skip, one to use and one host | `BodyInPlace`, `StreamsReleased`, `ImplementsBlobReader`, `EveryReadReturns`, `FetchReturns` |
| `content` | 2 conversions, 3 blobs of sizes 3, 2, 2, threshold 5, 4 lease updates | `LeaseCacheSynced`, `BlobsHeld`, `EvictsInLFRUOrder`, `GcClears` |
| `content_faults` | 1 conversion, 3 lease updates, 2 failing transactions, 1 crash | `CacheDriftBounded`, `EvictsLeastUsed`, `CollectReachesLimit` |
| `remote_cache` | 3 conversions, 3 layers, 2 platforms, cache of 2 layers, 2 versions, 1 deleted layer | `TypeOK`, `CacheBounded`, `CachedAsOftenAsUsed`, `ConvertedIsCached`, `MergeKeepsLower` |
| `adapter_retry`, `content_restart`, `content_stuck`, `cache_version` | see below | one property each, violated |

Why the bounds are enough. Three tasks are one that finishes, one that it evicts
and one that runs, is listed or fails meanwhile; with keep period 0 a tick of the
clock expires a task. Three calls on a pool of count 1 (two receivers) are a leader
and one that joins it or comes later, which keep both receivers busy, and one that
has to wait for a receiver; or readers of `GcMutex` that meet a collection. Two pushes
make one image older than another. In `webhook` the request with two images can fail at the
first or the second, and each image is one to convert or one that the service
pushed itself.

Two conversions of one image share every fetch, as leader and as waiter, and may
resolve it before and after a push; one of them has the layer `lib` of the second
version in its remote cache, which is how a layer gets known to a waiter that does
not have it, and reads that layer from a registry that refuses plain HTTP, which is how
a conversion recurses. The third is of an image on a registry that refuses HTTPS, and
turns the switch for the others; it shares the layer `base` with the first version of
their image. One fault is a request (of a resolve, a fetch, a cache or a push) that
times out or gets an error for an answer, a write that fails, or a request of a client
that is canceled; a second would only add a reason for failures that the first already
makes possible.

Three bytes are a body that breaks at its start, within and at its end, and reads
that follow each other, skip or overlap; retries of `httpReadSeeker` and of
`doWithRetries` have the limits of the code.

Three blobs of unequal size and four uses give every order of used counts 1 to 3
and ties between them, and a store above and below both limits (4 and 1 of
threshold 5). A cache of two layers is filled by one image and overflowed by the
next; the images share layers, also one that is not the first of a cache, one
contains a layer twice, one has two platforms, so that the cache changes between manifest and index. Symmetry is used for the
tasks of `task_manager` and the goroutines of `content`, never in a run with liveness.

Deadlock is checked where the system cannot stop. `content_faults` and the runs
with a crash turn it off because a daemon that cannot start, or that panicked,
stops for good; `remote_cache` and `converter` because all their conversions end.

### Fairness

`Adapter!Fairness` is weak fairness for the steps of calls in the adapter, taken
together, and for those of each collector, and nothing for users, for new calls or for
the hourly timer. Goroutines are scheduled, a channel with a receiver accepts,
`sync.RWMutex` does not starve a waiting writer. It says nothing of the steps of
`cvt.Convert`: only the dial and the TLS handshake of a request are bounded
(`resolve.go:34-41`), the context of an async conversion is never canceled, and a read
of a cached layer may recurse for ever. `EveryTaskFinishes` and `EveryCollectionEnds` therefore
have the premise that every conversion returns (`ConversionsReturn`), and say that nothing
in the adapter, its pool, its singleflights or `GcMutex` keeps a task or a
collection from its end then. A single conversion that does not return keeps its task
PROCESSING, its worker, and `GcMutex` from every collection.

`Converter!FairSpec` has weak fairness for the steps of conversions and of the
fetches they lead, taken together: somebody goes on as long as anybody can. That is
enough because the steps of a conversion are finite in number, and it does not
assume that a goroutine which waits for another is served in any order. It assumes
that a single request, and a run of the builder, comes to an end. A conversion that
recurses has no step to take, and `EveryConversionEnds` excepts it: all others end.

`RemoteReader!FairSpec` has weak fairness for the steps of the caller and nothing for
the registry, which may go down for ever. `EveryReadReturns` holds nevertheless;
`FetchReturns` needs a registry that accepts connections from some time on, and says
so.

## What the checks show

The passing properties are as described with each definition. The runs that
end in a violation show where the code does something other than its texts say:

* `adapter_retry`: a conversion that is retried without the cache and succeeds is
  still reported as FAILED (`adapter.go:138` returns the outer `err`), and no
  collection follows.
* `content_restart`: a crash between `lm.Create` and the labels leaves a lease with
  which the daemon does not start any more.
* `content_stuck`: after a crash between the deletion of leases and
  `db.GarbageCollect`, later collections run out of leases and return an error
  before they collect, and the store stays above its limit.
* `cache_version`: `update` marks a manifest of an old `cache_version` with the new
  one while keeping its layers; the next conversion uses them.

Further divergences that the models exhibit and that are not kept as runs.

Tasks and requests:

* A listing may show FAILED without a reason (`docs/development.md:80`): `Finish`
  writes the status first and the encoding does not take the mutex.
* A push during a running conversion of the same reference leads to a task that is
  COMPLETED while the target is made from the older image: its job joins the
  conversion that runs (`adapter.go:162`).
* A task whose `Create` fails stays in the map, PROCESSING, until the daemon restarts
  (`manager.go:148`).
* `NewWorker` starts `count + 1` receivers (`worker.go:40` against lines 29-30).

Store and cache:

* After a restart, leases of equal used count are evicted most recently used first,
  because `leaseCache.Init` adds them in descending order (`lease.go:51`).
* A label transaction that fails and another use of the blob make `leaseCache.size`
  larger than the cache, as the key is added twice at one count; `cleanLeases` then passes its test for emptiness and `Remove` indexes an empty
  `cachesIndex`: the daemon panics (`CleanPanic`).
* An hourly collection that joins a running one ends at 80% of the threshold and
  not at 40% (`docs/garbage-collection.md:23-24`).
* Of two concurrent conversions of a repository, the later push of the cache drops
  what the earlier added (`cache.go:313` calls the second fetch a means to avoid
  that); a crash or a failure between the pushes of an index leaves a single
  manifest at the cache reference.
* `appendLayers` is to append new layers and "if the layers already exists, moving them
  to front" (`cache.go:516-517`). It moves nothing: `moveFront` only says which layers to
  leave out, a layer that is used again stays where it is, and a full manifest never
  takes a new one. That is what line 330 says ("it preferentially keep the lower
  layers if the cache capacity is full"), and `MergeKeepsLower`; its mutant
  `AppendLayersFront` is what lines 516-517 say, and violates it.
* An image with more layers than `cache_size` makes a cache manifest larger than
  it, since only merging cuts (`CacheBounded` says exactly that).

Conversions:

* One timeout or refusal switches every registry to plain HTTP until the daemon restarts
  (`local.go:66`); a registry that serves HTTPS only is then out of reach.
* A fetch that several conversions share runs with the context of the first
  (`ported.go:152`): when its client gives up, or another of its fetches fails, the
  others fail with "canceled".
* Its answer "already exists" is also that of the remote cache of the first
  (`ported.go:155`): a conversion with another cache takes the layer for present and
  fails when it reads it (`err` = `missing`).
* Of two overlapping conversions of one reference the one that resolved the newer
  image may convert the older, as both read `images` again after their pull
  (`converter.go:130-166`); `LoneConversionIsFresh` excepts exactly these.
* A conversion that reads a layer of its remote cache from a registry with HTTPS only
  does not return (`content.go:312`, `remote/ported.go:194`): it keeps its task PROCESSING
  and `GcMutex`, and no collection runs again (`Recurse`).
* A failing push of the cache fails the conversion before the target is pushed
  (`converter.go:178`).

Read from the code, and in no model:

* `nginx` and `nginx:latest` have different keys in `dispatchSingleflight`
  (`adapter.go:162`), and one target: their conversions may overlap.

Remote reader:

* `Fetch` leaves the body of its probe open (`remote/ported.go:192`); `StreamsReleased`
  counts it.
* `Fetch` calls itself as long as the registry refuses connections, without a
  bound (line 194). `ReaderAt` asks for plain HTTP to begin with (`content.go:312`), so
  that the retry changes nothing, and a registry with HTTPS only makes it recurse.
* `filterHosts` appends the hosts it selects to those it was given (line 604): hosts
  without the capability stay, those with it are asked twice.
* `Seek` does not reset `errsWithNoProgress` (line 250, "for this offset"): breaks at one
  offset count against the next. After a give-up or an error the dead body is kept, and the
  next read at that offset fails on it before it opens another.

## What is proved

`TaskManagerProofs` proves, for any set of tasks, keep period and bound of the
clock: type correctness (`TypeCorrect`), `FinishFindsTask` (`FinishIsSafe`),
`NoOrphanProcessing` (`ProcessingIsOwned`), `SavedOutcomeShown`
(`SavedOutcomeIsShown`), `ListedOutcomeStands` (`ListedOutcomeIsFinal`),
`SavedOutcomeKept` (`SavedOutcomeIsKept`) and the refinement of `TaskRecord`
(`Refinement`). The assumptions are those of the module: the period and the bound
are natural numbers.

None of the invariants is inductive alone. That `Finish` finds its task needs that
the task did not expire while its conversion ran, hence that it is PROCESSING in
memory until its own `Finish` (`Tracked`), that what is PROCESSING in the bucket has
a call (`Saved`), that no two calls are in the critical section (`Exclusion`: while
one call evicts, no other has set a status that it has not yet saved), and that
memory and bucket agree on outcomes (`Agreed`, whose second half is
`SavedOutcomeShown`). `ListedFinal` ties an encoding in progress to the object it
reads. `Inv` is their conjunction; `InvStep` has one step per action. The two
properties of steps and the refinement use `Inv` before and after the step.

`AdapterProofs` proves, for any tasks, references, rules, pool size and number of
pushes, type correctness (`TypeCorrect`) and every safety property of `Adapter` that
the passing runs check. `OneConversionPerRef` (`OneConversion`) rests on `Leading`: a
job that converts is the leader of its reference's singleflight, because only `Do`
makes it convert and only its own `Return` ends the flight.
`NoCollectionDuringConversion` (`CollectionIsAlone`) rests on `Locking`: the readers
of `GcMutex` are exactly the conversions between `RLock` and `RUnlock`, there is one
collector past `gcSingleflight`, and while it collects there is no reader.
`CompletedIsPublished` (`CompletionIsPublished`) rests on `Results`: a result comes
from a conversion of the same reference or from its rule, also for a waiter.
`TargetNeverRegresses` (`NoRegression`) speaks of references all of whose calls are
async: with `Leading` a conversion is alone on its reference, so the target is still
not newer than what it pulled when it pushes (`Ordered`). A sync call does not join
the singleflight, and the premise cannot be dropped.

`WebhookProofs` proves type correctness (`WebhookTypeCorrect`), `ReplyIsTrue`
(`RepliesAreTrue`), `OwnPushesIgnored` (`OwnPushesAreIgnored`) and that a step of
`Webhook` is a step of `Adapter` or leaves its variables alone (`WebhookRefinesAdapter`), so
that the theorems of `AdapterProofs` hold of it. The invariant says which calls a request has made at each of its places, and that the
images it has passed in a sync request were converted. `OwnPushesIgnored` is about the
ends of texts: a target ends with the suffix, and a cache reference has the tag, of the
first rule that has one (`EndsWith`, `FirstRule`), hence `RuleMap` maps it to converted,
or to the same tag, and a call that has the lock has an image with another outcome
(`Mapped`).

`ConverterProofs` proves, for any conversions, references, images, registries, remote
caches and number of faults, `TypeOK` (`TypeCorrect`), `PulledIsReadable`
(`PulledIsComplete`), `LoneConversionIsFresh` (`LoneIsFresh`) and `FailsForACause`
(`FailureHasCause`). None is inductive. A pulled image is complete (`Complete`) because
a blob that was asked for and is no more waited for has arrived (`Arrived`), unless there is
an error; a leader waits for its own fetch (`Led`), so that the blobs it leaves are known to
somebody; and what is in the store stays while anybody runs, because a collection has the
lock. `Alone` says that of two that run for one reference each has met the other, hence
that `images` is what a lone conversion resolved. `FailsForACause` speaks of histories
without mishap and without cancelation (`Undisturbed`), whose failures only conversions can
have caused: `Causes` says that then a conversion that runs has no error yet, that the
switch was turned for a registry that refuses HTTPS, and that a conversion which got
through by HTTPS meets a refusal later only because of the switch. A `missing` layer is
one of the image that is neither in the store nor in the records of the conversion,
hence (`Complete`) in the records of another. When a request fails otherwise the
property says nothing: any error of a registry ends a conversion.

`ContentProofs` proves, for any finite set of blobs, any goroutines, sizes, threshold, crashes
and failures: type correctness (`TypeCorrect`), `LeaseCacheSynced` (`CacheIsSynced`), `CacheDriftBounded`
(`DriftIsBounded`), `EvictsLeastUsed` (`LeastUsedGoesFirst`), and, when nothing fails and the
daemon does not die, `EvictsInLFRUOrder` (`EvictsInOrder`). The invariant adds to the two
about the leaseCache that absent leases have no labels (`Labels`), that the lease of
an update in progress is there and nobody updates one while leases are deleted
(`Excluded`, which is `GcMutex`), that a dead daemon has no leaseCache (`Down`), and that the times of use in
the leaseCache are those of the labels as long as nothing went wrong (`Stamped`, which a
restart breaks: see `lease.go:51` above). That the size is the number of
keys is proved step by step from the cardinalities of the set of keys and of that set with
one more or one less. That the places which `leaseCache.Init` gives are no later than the
present, so that what is used from then on comes after them, is part of the types and
rests on the times of use being all different (`Dated`).

`BlobsHeld` (`BlobsAreHeld`) and `GcClears` (`CollectionClears`) hold as long as the daemon
does not die and no transaction fails, as the theorems say; `content_stuck` shows why.
`CollectReachesLimit` (`CollectionIsEnough`) holds always. `Total` is a fold, so the
proofs count bytes instead: the size of a store is the cardinality of the set of its
bytes (`Bytes`). `Accounted` says that what a collection has still to free covers the
blobs that leases hold above the limit; `Kept`, that without failures a lease holds its blob and
has its labels, or a goroutine is about to see to it, and that no lease is missing when
a collection starts.

`RemoteReaderProofs` proves, for any size, URLs and hosts, `TypeOK` (`TypeCorrect`: an open
always has an endpoint left to try, as the hosts are tried last and there is one), `BodyInPlace`
(`BodyIsInPlace`), `StreamsReleased` (`StreamsAreReleased`) and that `RemoteReader` implements
`BlobReader` (`Refinement`). The invariant says that the bytes got so far are those from the
start of the read, and that the offset is behind the last of them (`Serving`), that a body is at the
offset, and how many are open (`Streaming`).

`SelectionProofs` says what `Keep`, `FlattenSeq` and minima and maxima of sets
return, for any sequence: the elements `Keep` returns, in which places they were,
how often each, and that it returns a sequence all of whose elements pass as it is.
Where this takes induction over the length, the numbers for which the claim fails are
a set of naturals, and its least element (`LeastElement`) contradicts the step. For
this `RemoteCache` and `NydusManifest` select with `Keep`, whose test is a set, and not
with `SelectSeq`, whose test is an operator.

`RemoteCacheProofs` proves, for any images, layers, platforms, cache size and number of
conversions, `TypeOK` (`TypeCorrect`), `CacheBounded` (`TheCacheIsBounded`),
`CachedAsOftenAsUsed` (`TheCacheHasNoCopies`), `ConvertedIsCached`
(`ConvertedLayersAreCached`) and `MergeKeepsLower` (`LowerLayersAreKept`). `CacheBounded`
and `CachedAsOftenAsUsed` speak of the cache in the registry; they are inductive only
together with what conversions have merged into and have still to push (`CachesSound`), since a push
replaces what another conversion has pushed meanwhile. `Merges` says that a conversion
has a record of every layer of its image when it merges, and that what it pushes last
has all of them and what it found. Most of the work is in what the operators of
`update` return: `AppendLayersMade`, `MergedIndexMade`, `UpdateMade`.

`ConverterProofs` also proves `TargetHasBoth` (`TargetsHaveBoth`) and
`TargetSharesNothing` (`TargetsShareNothing`), which are about the index of
`NydusManifest`: containerd's converter keeps the platforms, so that what the driver
finds again is what it converted, in the same order (`FoundAgain`), and `Marked` takes the
platform from the right OCI manifest. Both assume `StockSources`, that the images of
users are stock OCI images: none of their layers is nydus', no manifest is marked, and
none begins with the empty layer that `PrependEmptyLayer` puts in front. The run's
images are of this kind. An image that began with that layer would share it.

Model-checked only:

* liveness (`EveryTaskFinishes` and the like), which is out of the prover's reach
  together with ENABLED;
* what the four runs that end in a violation show: a theorem cannot say that a state is
  reached. `GcClears`, which `content_stuck` violates, is proved for a daemon that neither
  dies nor fails.

## Not modelled

Formats and texts: error classification by text, JSON, labels of blobs, metrics,
logging, the HTTP server, configuration. The packing of layers is external
(`nydus-image`, stargz), as are containerd's metadata store and lease manager, the
registry, singleflight and `RWMutex`, which are modelled by what the code relies on.

* The chunk dictionary of the nydus driver (`parser.go`, `nydus.go`) is a choice of
  options for the builder. `PullAsChunkDict` dereferences nil for an image without a
  bootstrap layer (`parser.go:74`), which depends on nothing but that image.
* `PackTargz` and the archive helpers stream files; only tests call them.
* The estargz driver and `annotation` rewrite one manifest and keep no state.
* With `merge_manifest` the converted index has two manifests per platform, which the
  cache model leaves out; `PrependEmptyLayer` of a manifest without the field `mediaType` is
  outside `NydusManifest`, which leaves media types out.
* The client, the command line and the parsing of configuration are I/O.

See `components` in `PROJECT.json` for the parts one by one.

## Plan

1. Done: `TaskRecord`, `TaskManager`, `Adapter`, `Rule`, `Webhook`, `Content`,
   `RemoteCache`, `NydusManifest`, `Converter`, `BlobReader`, `RemoteReader`.
2. Done: proofs of the safety properties of all of them.
3. Left: an abstract collection (a store that shrinks below a limit by losing the
   least used) that `Content` implements, and `RemoteCache` over `RemoteReader`, so
   that layers are read from the registry while they may be deleted there.
