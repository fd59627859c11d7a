------------------------------- MODULE Content -------------------------------
(***************************************************************************)
(* pkg/content: the local store of blobs, the leases that hold the blobs,    *)
(* the in-memory leaseCache that orders the leases, and the garbage          *)
(* collection that deletes leases until the store is small enough.           *)
(*                                                                         *)
(* Conversions run concurrently between GcMutex.RLock and RUnlock.  Each     *)
(* read or commit of a blob updates its lease in several bolt transactions.  *)
(* The daemon may die between any two of them, and any of them may fail.     *)
(*                                                                         *)
(* External: containerd's lease manager and db.GarbageCollect, which deletes *)
(* every blob that is not a resource of a lease (content.Update removes the  *)
(* labels that would link blobs).                                           *)
(***************************************************************************)
EXTENDS Integers, FiniteSets, FiniteSetsExt

CONSTANTS Digest,     \* blobs
          BlobSize,   \* BlobSize[d]: bytes of blob d
          Threshold,  \* cfg.Provider.GCPolicy.Threshold in bytes
          User,       \* goroutines of conversions
          MaxClock,   \* bound: how many times a lease is labelled
          MaxCrash,   \* bound: how many times the daemon dies
          MaxFault    \* bound: how many transactions fail

ASSUME DigestAssumption == IsFiniteSet(Digest)
ASSUME BlobSizeAssumption == BlobSize \in [Digest -> Nat \ {0}]
ASSUME ThresholdAssumption == Threshold \in Nat
ASSUME BoundAssumption == MaxClock \in Nat /\ MaxCrash \in Nat /\ MaxFault \in Nat

VARIABLES up,        \* the daemon runs
          blobs,     \* the blobs in the store
          lease,     \* lease[d]: the lease with id d
          lc,        \* lc[n][d]: place of d in leaseCache.caches[n], 0 when absent
          lcSize,    \* leaseCache.size
          clock,     \* time.Now(), one tick per label
          pc,        \* pc[u]: where goroutine u is
          op,        \* op[u]: "read" or "commit", the call that u is in
          arg,       \* arg[u]: the blob of that call
          gc,        \* where the gcSingleflight call is
          limit,     \* the size that this call collects down to
          need,      \* cleanLeases: bytes still to free
          crashes, faults

vars == <<up, blobs, lease, lc, lcSize, clock, pc, op, arg, gc, limit, need,
          crashes, faults>>

\* The used counts that occur.
Counts == 1..MaxClock

\* A lease: absent, without its resource, or holding its blob; count 0 is a
\* lease whose usedcount label was never written.
Lease == [state : {"none", "bare", "held"}, count : 0..MaxClock, at : 0..MaxClock]

NoLease == [state |-> "none", count |-> 0, at |-> 0]

exists(d) == lease[d].state # "none"

\* Content.Size
Total(S) == MapThenSumSet(LAMBDA d : BlobSize[d], S)

gcPercent == 80

\* The size that GC(threshold) collects down to.
Limit(threshold) == (threshold * gcPercent) \div 100

\* The calls of GC: after a conversion, and every hour with half the threshold.
Limits == {Limit(Threshold), Limit(Threshold \div 2)}

\* Inside updateLease or Writer.Commit.
Working == {"list", "create", "resource", "label", "store"}

TypeOK ==
    /\ up \in BOOLEAN
    /\ blobs \subseteq Digest
    /\ lease \in [Digest -> Lease]
    /\ lc \in [Counts -> [Digest -> 0..MaxClock]]
    /\ lcSize \in Int
    /\ clock \in 0..MaxClock
    /\ pc \in [User -> {"out", "in"} \cup Working]
    /\ op \in [User -> {"read", "commit"}]
    /\ arg \in [User -> Digest]
    /\ gc \in {"idle", "lock", "clean", "collect", "panic"}
    /\ limit \in Limits
    /\ need \in Int
    /\ crashes \in 0..MaxCrash
    /\ faults \in 0..MaxFault

EmptyCache == [n \in Counts |-> [d \in Digest |-> 0]]

Init ==
    /\ up = TRUE
    /\ blobs = {}
    /\ lease = [d \in Digest |-> NoLease]
    /\ lc = EmptyCache
    /\ lcSize = 0
    /\ clock = 0
    /\ pc = [u \in User |-> "out"]
    /\ op = [u \in User |-> "read"]
    /\ arg \in [User -> Digest]
    /\ gc = "idle"
    /\ limit = Limit(Threshold)
    /\ need = 0
    /\ crashes = 0
    /\ faults = 0

goto(u, label) == pc' = [pc EXCEPT ![u] = label]

cache == <<lc, lcSize>>
calls == <<op, arg>>
flight == <<gc, limit, need>>

\* A transaction that fails.
Fault == faults < MaxFault /\ faults' = faults + 1

-----------------------------------------------------------------------------
(* leaseCache *)

\* Mutant: the place in the count before is kept.
AddKeepOld(d, n) ==
    /\ lc' = [lc EXCEPT ![n][d] = clock + 1]
    /\ lcSize' = lcSize + 1

\* leaseCache.Add: to the newest place of its count, out of the count before.
Add(d, n) ==
    LET moved == n > 1 /\ lc[n - 1][d] # 0
    IN  /\ lc' = [k \in Counts |->
                    [lc[k] EXCEPT ![d] = IF k = n THEN clock + 1
                                         ELSE IF k = n - 1 THEN 0
                                         ELSE lc[k][d]]]
        /\ lcSize' = IF moved THEN lcSize ELSE lcSize + 1

\* leaseCache.cachesIndex: the counts that have a cache.
CachesIndex == {n \in Counts : \E d \in Digest : lc[n][d] # 0}

\* Mutant: the newest of the least used.
IsOldestReversed(d) ==
    \E n \in CachesIndex :
        /\ \A k \in CachesIndex : n <= k
        /\ lc[n][d] # 0
        /\ \A e \in Digest : lc[n][e] # 0 => lc[n][d] >= lc[n][e]

\* leaseCache.Remove takes the oldest of the least used.
IsOldest(d) ==
    \E n \in CachesIndex :
        /\ \A k \in CachesIndex : n <= k
        /\ lc[n][d] # 0
        /\ \A e \in Digest : lc[n][e] # 0 => lc[n][d] <= lc[n][e]

\* The caches without d (Remove has found it at the least count).
Without(d) ==
    [n \in Counts |->
        IF \A k \in CachesIndex : n <= k THEN [lc[n] EXCEPT ![d] = 0] ELSE lc[n]]

\* Mutant: every lease starts again at count 1.
LoadedAtOne ==
    [n \in Counts |->
        [d \in Digest |->
            IF exists(d) /\ n = 1
              THEN Cardinality({e \in Digest : exists(e) /\ lease[e].at >= lease[d].at})
              ELSE 0]]

\* leaseCache.Init adds the leases in the order of falling usedat, so a lease
\* gets the place after all those used later.
Loaded ==
    [n \in Counts |->
        [d \in Digest |->
            IF exists(d) /\ lease[d].count = n
              THEN Cardinality({e \in Digest : exists(e) /\ lease[e].at >= lease[d].at})
              ELSE 0]]

-----------------------------------------------------------------------------
(* Conversions *)

\* GcMutex.RLock and RUnlock around a conversion.
Begin(u) ==
    /\ up /\ pc[u] = "out"
    /\ gc = "idle"
    /\ goto(u, "in")
    /\ UNCHANGED <<up, blobs, lease, cache, clock, calls, flight, crashes, faults>>

End(u) ==
    /\ pc[u] = "in"
    /\ goto(u, "out")
    /\ UNCHANGED <<up, blobs, lease, cache, clock, calls, flight, crashes, faults>>

\* Bound: every call in progress may still label its lease.
LabelsLeft ==
    clock + Cardinality({u \in User : pc[u] \in Working \ {"store"}}) < MaxClock

\* ReaderAt(d), for a local blob or one in the remote cache: in both cases it
\* updates the lease of d when it returns.
ReaderAt(u, d) ==
    /\ pc[u] = "in"
    /\ LabelsLeft
    /\ goto(u, "list")
    /\ op' = [op EXCEPT ![u] = "read"]
    /\ arg' = [arg EXCEPT ![u] = d]
    /\ UNCHANGED <<up, blobs, lease, cache, clock, flight, crashes, faults>>

\* A writer for a blob that is not in the store reaches Commit.
Commit(u, d) ==
    /\ pc[u] = "in"
    /\ LabelsLeft
    /\ d \notin blobs
    /\ goto(u, "list")
    /\ op' = [op EXCEPT ![u] = "commit"]
    /\ arg' = [arg EXCEPT ![u] = d]
    /\ UNCHANGED <<up, blobs, lease, cache, clock, flight, crashes, faults>>

\* updateLease returns; both callers ignore its error.
Updated(u) == goto(u, IF op[u] = "commit" THEN "store" ELSE "in")

\* updateLease: lm.List
LeaseList(u) ==
    /\ pc[u] = "list"
    /\ goto(u, IF exists(arg[u]) THEN "label" ELSE "create")
    /\ UNCHANGED <<up, blobs, lease, cache, clock, calls, flight, crashes, faults>>

\* lm.Create, which fails when another goroutine was faster.
LeaseCreate(u) ==
    /\ pc[u] = "create"
    /\ IF exists(arg[u])
         THEN UNCHANGED lease /\ Updated(u)
         ELSE lease' = [lease EXCEPT ![arg[u]].state = "bare"] /\ goto(u, "resource")
    /\ UNCHANGED <<up, blobs, cache, clock, calls, flight, crashes, faults>>

\* Mutant: the blob is not made a resource of its lease.
LeaseResourceMissing(u) ==
    /\ pc[u] = "resource"
    /\ goto(u, "label")
    /\ UNCHANGED <<up, blobs, lease, cache, clock, calls, flight, crashes, faults>>

\* lm.AddResource
LeaseResource(u) ==
    /\ pc[u] = "resource"
    /\ lease' = [lease EXCEPT ![arg[u]].state = "held"]
    /\ goto(u, "label")
    /\ UNCHANGED <<up, blobs, cache, clock, calls, flight, crashes, faults>>

\* The transaction that counts the use: leaseCache.Add, then the labels.
LeaseLabel(u) ==
    /\ pc[u] = "label"
    /\ clock < MaxClock
    /\ Add(arg[u], lease[arg[u]].count + 1)
    /\ clock' = clock + 1
    /\ lease' = [lease EXCEPT ![arg[u]] =
                    [state |-> @.state, count |-> @.count + 1, at |-> clock + 1]]
    /\ Updated(u)
    /\ UNCHANGED <<up, blobs, calls, flight, crashes, faults>>

\* One of the transactions fails, and with it updateLease.
LeaseFail(u) ==
    /\ pc[u] \in {"list", "create", "resource"}
    /\ Fault
    /\ Updated(u)
    /\ UNCHANGED <<up, blobs, lease, cache, clock, calls, flight, crashes>>

\* The last transaction fails to commit: leaseCache has changed all the same.
LeaseLabelFail(u) ==
    /\ pc[u] = "label"
    /\ clock < MaxClock
    /\ Fault
    /\ Add(arg[u], lease[arg[u]].count + 1)
    /\ clock' = clock + 1
    /\ Updated(u)
    /\ UNCHANGED <<up, blobs, lease, calls, flight, crashes>>

\* The Commit of the store (which refuses a blob it has).
Store(u) ==
    /\ pc[u] = "store"
    /\ blobs' = blobs \cup {arg[u]}
    /\ goto(u, "in")
    /\ UNCHANGED <<up, lease, cache, clock, calls, flight, crashes, faults>>

\* It fails: the lease has no blob.
StoreFail(u) ==
    /\ pc[u] = "store"
    /\ Fault
    /\ goto(u, "in")
    /\ UNCHANGED <<up, blobs, lease, cache, clock, calls, flight, crashes>>

-----------------------------------------------------------------------------
(* GC *)

\* GC(threshold) with a store above the limit starts the singleflight.  A caller
\* that comes while one runs waits for it, and its own limit is forgotten.
GcStart(l) ==
    /\ up /\ gc = "idle"
    /\ Total(blobs) > l
    /\ gc' = "lock"
    /\ limit' = l
    /\ UNCHANGED <<up, blobs, lease, cache, clock, pc, calls, need, crashes, faults>>

\* GcMutex.Lock is granted; the size is computed again.
GcLock ==
    /\ gc = "lock"
    /\ \A u \in User : pc[u] = "out"
    /\ gc' = "clean"
    /\ need' = Total(blobs) - limit
    /\ UNCHANGED <<up, blobs, lease, cache, clock, pc, calls, limit, crashes, faults>>

\* Mutant: a lease counts whether its blob is in the store or not.
FreedAlways(d) == BlobSize[d]

\* The bytes that the deletion of the lease of d will free.
Freed(d) == IF d \in blobs THEN BlobSize[d] ELSE 0

gcReturn == gc' = "idle" /\ need' = 0 /\ UNCHANGED limit

\* One turn of cleanLeases.
CleanLease(d) ==
    /\ gc = "clean" /\ need > 0
    /\ lcSize # 0
    /\ IsOldest(d)
    /\ exists(d)
    /\ lc' = Without(d)
    /\ lcSize' = lcSize - 1
    /\ need' = need - Freed(d)
    /\ lease' = [lease EXCEPT ![d] = NoLease]
    /\ UNCHANGED <<up, blobs, clock, pc, calls, gc, limit, crashes, faults>>

\* The lease is not found, or its deletion fails: cleanLeases returns an error.
CleanFail(d) ==
    /\ gc = "clean" /\ need > 0
    /\ lcSize # 0
    /\ IsOldest(d)
    /\ IF exists(d) THEN Fault ELSE UNCHANGED faults
    /\ lc' = Without(d)
    /\ lcSize' = lcSize - 1
    /\ gcReturn
    /\ UNCHANGED <<up, blobs, lease, clock, pc, calls, crashes>>

\* "leaseCache is empty, error caches": nothing is collected.
CleanEmpty ==
    /\ gc = "clean" /\ need > 0
    /\ lcSize = 0
    /\ gcReturn
    /\ UNCHANGED <<up, blobs, lease, cache, clock, pc, calls, crashes, faults>>

\* cachesIndex[0] of an empty index: the daemon panics.
CleanPanic ==
    /\ gc = "clean" /\ need > 0
    /\ lcSize # 0
    /\ CachesIndex = {}
    /\ gc' = "panic"
    /\ UNCHANGED <<up, blobs, lease, cache, clock, pc, calls, limit, need,
                   crashes, faults>>

CleanDone ==
    /\ gc = "clean" /\ need <= 0
    /\ gc' = "collect"
    /\ UNCHANGED <<up, blobs, lease, cache, clock, pc, calls, limit, need,
                   crashes, faults>>

\* db.GarbageCollect deletes the blobs that no lease holds; everyone in the
\* singleflight returns.
Collect ==
    /\ gc = "collect"
    /\ blobs' = {d \in blobs : lease[d].state = "held"}
    /\ gcReturn
    /\ UNCHANGED <<up, lease, cache, clock, pc, calls, crashes, faults>>

CollectFail ==
    /\ gc = "collect"
    /\ Fault
    /\ gcReturn
    /\ UNCHANGED <<up, blobs, lease, cache, clock, pc, calls, crashes>>

-----------------------------------------------------------------------------
(* The daemon *)

\* The daemon dies; the database and the store stay.
Crash ==
    /\ up
    /\ crashes < MaxCrash
    /\ crashes' = crashes + 1
    /\ up' = FALSE
    /\ lc' = EmptyCache
    /\ lcSize' = 0
    /\ pc' = [u \in User |-> "out"]
    /\ gcReturn
    /\ UNCHANGED <<blobs, lease, clock, calls, faults>>

\* NewContent: leaseCache.Init must find a count in the labels of every lease.
Restart ==
    /\ ~ up
    /\ \A d \in Digest : exists(d) => lease[d].count # 0
    /\ up' = TRUE
    /\ lc' = Loaded
    /\ lcSize' = Cardinality({d \in Digest : exists(d)})
    /\ UNCHANGED <<blobs, lease, clock, pc, calls, flight, crashes, faults>>

-----------------------------------------------------------------------------
UpdateLease(u) ==
    \/ LeaseList(u) \/ LeaseCreate(u) \/ LeaseResource(u) \/ LeaseLabel(u)
    \/ LeaseFail(u) \/ LeaseLabelFail(u)

Convert(u) ==
    \/ Begin(u) \/ End(u)
    \/ \E d \in Digest : ReaderAt(u, d) \/ Commit(u, d)
    \/ UpdateLease(u)
    \/ Store(u) \/ StoreFail(u)

GC ==
    \/ \E l \in Limits : GcStart(l)
    \/ GcLock
    \/ \E d \in Digest : CleanLease(d) \/ CleanFail(d)
    \/ CleanEmpty \/ CleanPanic \/ CleanDone
    \/ Collect \/ CollectFail

Next ==
    \/ \E u \in User : Convert(u)
    \/ GC
    \/ Crash
    \/ Restart

Spec == Init /\ [][Next]_vars

-----------------------------------------------------------------------------
(* Properties *)

labelled(d) == exists(d) /\ lease[d].count # 0

\* "The leaseCache will sync with the leases which are persisted in boltdb"
\* (docs/garbage-collection.md): each labelled lease is in the cache of its
\* count and in no other, and size is their number, until a transaction fails.
LeaseCacheSynced ==
    up /\ faults = 0 =>
          /\ \A d \in Digest, n \in Counts :
                 lc[n][d] # 0 <=> labelled(d) /\ lease[d].count = n
          /\ lcSize = Cardinality({d \in Digest : labelled(d)})

\* Under failures and crashes the leaseCache can drift from the leases, but only
\* so far: a lease is in at most one cache, of its persisted count or the next,
\* and size never falls below the number of keys (cleanLeases stops at 0).
CacheDriftBounded ==
    /\ \A d \in Digest, n \in Counts :
          lc[n][d] # 0 => /\ exists(d) /\ n \in {lease[d].count, lease[d].count + 1}
                          /\ \A k \in Counts \ {n} : lc[k][d] = 0
    /\ lcSize >= Cardinality({d \in Digest : \E n \in Counts : lc[n][d] # 0})

\* "all resources(blobs) which are stored locally are held by leases at all
\* times": with no collection and no lease update in progress, a lease holds
\* every blob, whichever goroutines raced to create it.
BlobsHeld ==
    up /\ gc = "idle" /\ (\A u \in User : pc[u] \notin Working) =>
        \A d \in blobs : lease[d].state = "held"

evicted(d) == lease[d].state # "none" /\ lease'[d].state = "none"

\* A collection deletes a lease of the smallest used count, after a restart too ...
EvictsLeastUsed ==
    [][\A d, e \in Digest :
          faults = 0 /\ evicted(d) /\ labelled(e) => lease[d].count <= lease[e].count]_vars

\* ... and of these the one used longest ago: "LFRU(LFU first, LRU second) order".
EvictsInLFRUOrder ==
    [][\A d, e \in Digest :
          evicted(d) /\ labelled(e) =>
              \/ lease[d].count < lease[e].count
              \/ lease[d].count = lease[e].count /\ lease[d].at <= lease[e].at]_vars

gcEnds == gc # "idle" /\ gc' = "idle" /\ up'

\* "GC clears the blobs until local storage size below 80% of the threshold":
\* whenever a collection ends.
GcClears == [][gcEnds => Total(blobs') <= limit]_vars

\* A collection that reaches db.GarbageCollect has freed enough, whatever
\* crashes and failures came before it.
CollectReachesLimit ==
    [][gcEnds /\ gc = "collect" /\ faults' = faults => Total(blobs') <= limit]_vars

\* "The acceld will init leaseCache when daemon started": it can, whenever the
\* daemon stopped.
DaemonCanRestart ==
    ~ up => \A d \in Digest : exists(d) => labelled(d)

=============================================================================
