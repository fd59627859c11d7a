----------------------------- MODULE ContentProofs -----------------------------
(***************************************************************************)
(* Theorems of Content, for any blobs, goroutines, limits, failures and      *)
(* crashes: what the leaseCache says of the leases, and which leases a       *)
(* collection deletes.                                                     *)
(***************************************************************************)
EXTENDS Content, FiniteSetTheorems, WellFoundedInduction, TLAPS

Typed ==
    /\ blobs \subseteq Digest
    /\ lease \in [Digest -> Lease]
    /\ lc \in [Counts -> [Digest -> Nat]]
    /\ lcSize \in Int
    /\ clock \in 0..MaxClock
    /\ pc \in [User -> {"out", "in"} \cup Working]
    /\ arg \in [User -> Digest]
    /\ gc \in {"idle", "lock", "clean", "collect", "panic"}
    /\ crashes \in 0..MaxCrash
    /\ faults \in 0..MaxFault

\* A lease that is absent has no labels, and labels are of the past.
Labels ==
    \A d \in Digest :
        /\ ~exists(d) => lease[d] = NoLease
        /\ lease[d].count <= clock

\* While leases are deleted nobody works on one, and the lease that is to be
\* labelled is there.
Excluded ==
    /\ gc \in {"clean", "collect", "panic"} => \A u \in User : pc[u] = "out"
    /\ gc # "idle" => up
    /\ \A u \in User : pc[u] \in {"resource", "label"} => exists(arg[u])

\* The keys of leaseCache.
Keys == {d \in Digest : \E n \in Counts : lc[n][d] # 0}
Labelled == {d \in Digest : labelled(d)}

\* The times of use are those of the labels, as long as nothing went wrong.
Stamped ==
    crashes = 0 /\ faults = 0 =>
        \A d \in Digest, n \in Counts : lc[n][d] # 0 => lc[n][d] = lease[d].at

\* A daemon that is down has no leaseCache, and it goes down by a crash.
Down ==
    ~up => /\ crashes > 0 /\ lc = EmptyCache /\ lcSize = 0
           /\ \A u \in User : pc[u] = "out"

Inv ==
    /\ Typed /\ Labels /\ Excluded /\ Down
    /\ CacheDriftBounded /\ LeaseCacheSynced /\ Stamped

-----------------------------------------------------------------------------
LEMMA Finite ==
  ASSUME NEW S, S \subseteq Digest
  PROVE  IsFiniteSet(S) /\ Cardinality(S) \in Nat
BY DigestAssumption, FS_Subset, FS_CardinalityType

LEMMA InitInv == Init => Inv
<1> SUFFICES ASSUME Init
             PROVE  Inv
  OBVIOUS
<1>1. Typed /\ Labels /\ Excluded /\ Down
  BY BoundAssumption
     DEF Init, Typed, Labels, Excluded, Down, Lease, NoLease, EmptyCache, Counts, exists, Working
<1>2. Keys = {} /\ Labelled = {}
  BY DEF Init, Keys, Labelled, labelled, EmptyCache, NoLease, exists
<1>3. Cardinality(Keys) = 0 /\ Cardinality(Labelled) = 0
  BY <1>2, FS_EmptySet
<1>4. CacheDriftBounded /\ Stamped
  BY <1>3 DEF Init, CacheDriftBounded, Stamped, EmptyCache, Keys
<1>5. LeaseCacheSynced
  BY <1>3 DEF Init, LeaseCacheSynced, labelled, exists, NoLease, EmptyCache, Counts, Labelled
<1> QED
  BY <1>1, <1>4, <1>5 DEF Inv

-----------------------------------------------------------------------------
(* The leaseCache *)

\* Steps that leave it alone, and the labels of leases too.
LEMMA CacheKept ==
  ASSUME Inv, UNCHANGED <<lc, lcSize, up, crashes>>,
         faults' = faults \/ faults' = faults + 1,
         \A d \in Digest :
             /\ lease'[d].count = lease[d].count /\ lease'[d].at = lease[d].at
             /\ exists(d) => lease'[d].state # "none"
             /\ lease'[d].state # "none" /\ lease[d].count # 0 => exists(d)
  PROVE  CacheDriftBounded' /\ LeaseCacheSynced' /\ Stamped'
<1>0. faults \in Nat
  BY BoundAssumption DEF Inv, Typed
<1>1. CacheDriftBounded'
  BY DEF Inv, CacheDriftBounded, exists
<1>2. {d \in Digest : labelled(d)}' = {d \in Digest : labelled(d)}
  BY DEF labelled, exists
<1>3. LeaseCacheSynced'
  <2>1. ASSUME up, faults = 0, NEW d \in Digest, NEW n \in Counts
        PROVE  lc'[n][d] # 0 <=> /\ lease'[d].state # "none" /\ lease'[d].count # 0
                                 /\ lease'[d].count = n
    BY <2>1 DEF Inv, LeaseCacheSynced, labelled, exists
  <2>2. up /\ faults = 0 => lcSize' = Cardinality({d \in Digest : labelled(d)}')
    BY <1>2 DEF Inv, LeaseCacheSynced
  <2> QED
    BY <1>0, <2>1, <2>2 DEF LeaseCacheSynced, labelled, exists
<1>4. Stamped'
  <2>1. ASSUME crashes = 0, faults = 0, NEW d \in Digest, NEW n \in Counts, lc[n][d] # 0
        PROVE  lc[n][d] = lease'[d].at
    BY <2>1 DEF Inv, Stamped
  <2> QED
    BY <1>0, <2>1 DEF Stamped
<1> QED
  BY <1>1, <1>3, <1>4

\* Add: the lease of d goes from the count it was used before to the next.
LEMMA Added ==
  ASSUME Inv, NEW d \in Digest, NEW n \in Counts, Add(d, n), clock < MaxClock,
         n = lease[d].count + 1, exists(d)
  PROVE  /\ lc' \in [Counts -> [Digest -> Nat]] /\ lcSize' \in Int
         /\ \A k \in Counts, e \in Digest : e # d => lc'[k][e] = lc[k][e]
         /\ \A k \in Counts : lc'[k][d] # 0 <=> k = n
         /\ lc'[n][d] = clock + 1
         /\ Keys' = Keys \cup {d}
         /\ lcSize' >= lcSize
         /\ d \notin Keys => lcSize' = lcSize + 1
         /\ n = 1 => lcSize' = lcSize + 1
         /\ n > 1 /\ lc[n - 1][d] # 0 => lcSize' = lcSize
<1>0. /\ lc \in [Counts -> [Digest -> Nat]] /\ lcSize \in Int /\ clock \in Nat
      /\ MaxClock \in Nat
  BY BoundAssumption DEF Inv, Typed
<1>1. lc' = [k \in Counts |->
                 [lc[k] EXCEPT ![d] = IF k = n THEN clock + 1
                                      ELSE IF k = n - 1 THEN 0 ELSE lc[k][d]]]
  BY DEF Add
<1>2. /\ lc' \in [Counts -> [Digest -> Nat]]
      /\ \A k \in Counts, e \in Digest : e # d => lc'[k][e] = lc[k][e]
      /\ \A k \in Counts : lc'[k][d] = IF k = n THEN clock + 1
                                      ELSE IF k = n - 1 THEN 0 ELSE lc[k][d]
  BY <1>0, <1>1
<1>3. \A k \in Counts : lc[k][d] # 0 => k \in {n - 1, n}
  <2>1. lease[d] \in Lease
    BY DEF Inv, Typed
  <2>2. lease[d].count \in Nat
    BY <1>0, <2>1 DEF Lease
  <2>3. \A k \in Counts : lc[k][d] # 0 => k \in {lease[d].count, lease[d].count + 1}
    BY DEF Inv, CacheDriftBounded
  <2> QED
    BY <2>2, <2>3
<1>4. \A k \in Counts : lc'[k][d] # 0 <=> k = n
  BY <1>0, <1>2, <1>3
<1>5. Keys' = Keys \cup {d}
  <2>1. ASSUME NEW e \in Digest
        PROVE  (\E k \in Counts : lc'[k][e] # 0) <=> e = d \/ \E k \in Counts : lc[k][e] # 0
    BY <1>2, <1>4
  <2> QED
    BY <2>1 DEF Keys
<1>6. lcSize' = IF n > 1 /\ lc[n - 1][d] # 0 THEN lcSize ELSE lcSize + 1
  BY DEF Add
<1>7. n > 1 => n - 1 \in Counts
  BY <1>0 DEF Counts
<1>8. d \notin Keys => lcSize' = lcSize + 1
  BY <1>6, <1>7 DEF Keys
<1>9. lcSize' \in Int /\ lcSize' >= lcSize
  BY <1>0, <1>6
<1>10. lc'[n][d] = clock + 1
  BY <1>2
<1>11. n = 1 => lcSize' = lcSize + 1
  BY <1>6
<1>12. n > 1 /\ lc[n - 1][d] # 0 => lcSize' = lcSize
  BY <1>6
<1> QED
  BY <1>2, <1>4, <1>5, <1>8, <1>9, <1>10, <1>11, <1>12

\* Remove: the oldest of the least used is gone.
LEMMA Removed ==
  ASSUME Inv, NEW d \in Digest, IsOldest(d), lc' = Without(d)
  PROVE  /\ lc' \in [Counts -> [Digest -> Nat]]
         /\ \A k \in Counts, e \in Digest : e # d => lc'[k][e] = lc[k][e]
         /\ \A k \in Counts : lc'[k][d] = 0
         /\ d \in Keys /\ Keys' = Keys \ {d} /\ exists(d)
<1>0. lc \in [Counts -> [Digest -> Nat]]
  BY DEF Inv, Typed
<1>1. PICK n \in CachesIndex : (\A k \in CachesIndex : n <= k) /\ lc[n][d] # 0
  BY DEF IsOldest
<1>2. n \in Counts /\ exists(d) /\ \A k \in Counts \ {n} : lc[k][d] = 0
  BY <1>1 DEF CachesIndex, Inv, CacheDriftBounded
<1>3. lc' = [k \in Counts |->
                 IF \A m \in CachesIndex : k <= m THEN [lc[k] EXCEPT ![d] = 0] ELSE lc[k]]
  BY DEF Without
<1>4. /\ lc' \in [Counts -> [Digest -> Nat]]
      /\ \A k \in Counts, e \in Digest : e # d => lc'[k][e] = lc[k][e]
  BY <1>0, <1>3
<1>5. \A k \in Counts : lc'[k][d] = 0
  BY <1>0, <1>1, <1>2, <1>3
<1>6. d \in Keys
  BY <1>1, <1>2 DEF Keys
<1>7. Keys' = Keys \ {d}
  <2>1. ASSUME NEW e \in Digest
        PROVE  (\E k \in Counts : lc'[k][e] # 0) <=> e # d /\ \E k \in Counts : lc[k][e] # 0
    BY <1>4, <1>5
  <2> QED
    BY <2>1 DEF Keys
<1> QED
  BY <1>2, <1>4, <1>5, <1>6, <1>7

\* What remains of the drift when a blob is added to the keys or taken out.
LEMMA KeysCounted ==
  ASSUME Inv
  PROVE  /\ Cardinality(Keys) \in Nat /\ Cardinality(Labelled) \in Nat
         /\ lcSize >= Cardinality(Keys)
         /\ \A d \in Digest :
                /\ Cardinality(Keys \cup {d}) =
                       IF d \in Keys THEN Cardinality(Keys) ELSE Cardinality(Keys) + 1
                /\ Cardinality(Labelled \cup {d}) =
                       IF d \in Labelled THEN Cardinality(Labelled)
                                         ELSE Cardinality(Labelled) + 1
                /\ d \in Keys => Cardinality(Keys \ {d}) = Cardinality(Keys) - 1
                /\ d \in Labelled => Cardinality(Labelled \ {d}) = Cardinality(Labelled) - 1
<1>1. /\ IsFiniteSet(Keys) /\ Cardinality(Keys) \in Nat
      /\ IsFiniteSet(Labelled) /\ Cardinality(Labelled) \in Nat
  BY Finite DEF Keys, Labelled
<1>2. lcSize >= Cardinality(Keys)
  BY DEF Inv, CacheDriftBounded, Keys
<1> QED
  BY <1>1, <1>2, FS_AddElement, FS_RemoveElement

-----------------------------------------------------------------------------
(* The label of a lease *)

LEMMA LabelStep ==
  ASSUME Inv, NEW u \in User, LeaseLabel(u)
  PROVE  Inv'
<1>1. PICK d \in Digest : d = arg[u]
  BY DEF Inv, Typed
<1>2. PICK c \in Nat : c = lease[d].count
  BY BoundAssumption DEF Inv, Typed, Lease
<1>3. /\ lease \in [Digest -> Lease] /\ clock \in Nat /\ MaxClock \in Nat
      /\ pc \in [User -> {"out", "in"} \cup Working] /\ arg \in [User -> Digest]
      /\ blobs \subseteq Digest
      /\ lcSize \in Int
  BY BoundAssumption DEF Inv, Typed
<1>4. pc[u] = "label" /\ clock < MaxClock /\ up
      /\ gc \notin {"clean", "collect", "panic"}
  <2>1. pc[u] = "label" /\ clock < MaxClock
    BY DEF LeaseLabel
  <2>2. gc \notin {"clean", "collect", "panic"}
    BY <2>1 DEF Inv, Excluded
  <2> QED
    BY <2>1, <2>2 DEF Inv, Down
<1>5. exists(d) /\ c <= clock
  BY <1>1, <1>2, <1>4 DEF Inv, Excluded, Labels
<1>6. PICK n \in Counts : n = c + 1
  BY <1>2, <1>3, <1>4, <1>5 DEF Counts
<1>7. Add(d, n)
  BY <1>1, <1>2, <1>6 DEF LeaseLabel
<1>8. /\ lc' \in [Counts -> [Digest -> Nat]] /\ lcSize' \in Int
      /\ \A k \in Counts, e \in Digest : e # d => lc'[k][e] = lc[k][e]
      /\ \A k \in Counts : lc'[k][d] # 0 <=> k = n
      /\ lc'[n][d] = clock + 1
      /\ Keys' = Keys \cup {d}
      /\ lcSize' >= lcSize
      /\ d \notin Keys => lcSize' = lcSize + 1
      /\ n = 1 => lcSize' = lcSize + 1
      /\ n > 1 /\ lc[n - 1][d] # 0 => lcSize' = lcSize
  BY <1>2, <1>4, <1>5, <1>6, <1>7, Added
<1>9. /\ clock' = clock + 1
      /\ pc' = [pc EXCEPT ![u] = IF op[u] = "commit" THEN "store" ELSE "in"]
      /\ UNCHANGED <<up, blobs, arg, gc, crashes, faults>>
  BY DEF LeaseLabel, Updated, goto, calls, flight
<1>10. lease' = [lease EXCEPT ![d] =
                     [state |-> lease[d].state, count |-> n, at |-> clock + 1]]
  BY <1>1, <1>2, <1>6 DEF LeaseLabel
<1>11. /\ \A e \in Digest \ {d} : lease'[e] = lease[e]
       /\ lease'[d].state # "none" /\ lease'[d].count = n /\ lease'[d].at = clock + 1
       /\ lease'[d].state = lease[d].state
  BY <1>3, <1>5, <1>10 DEF exists
<1>12. Typed'
  <2>1. lease' \in [Digest -> Lease]
    BY <1>3, <1>4, <1>6, <1>10 DEF Lease, Counts
  <2>2. clock' \in 0..MaxClock /\ pc' \in [User -> {"out", "in"} \cup Working]
    BY <1>3, <1>4, <1>9 DEF Working
  <2> QED
    BY <1>8, <1>9, <2>1, <2>2 DEF Inv, Typed
<1>13. Labels'
  <2>1. ASSUME NEW e \in Digest
        PROVE  /\ lease'[e].state = "none" => lease'[e] = NoLease
               /\ lease'[e].count <= clock'
    <3>1. CASE e = d
      BY <1>3, <1>5, <1>2, <1>6, <1>9, <1>11, <3>1
    <3>2. CASE e # d
      <4>1. lease'[e] = lease[e]
        BY <1>11, <3>2
      <4>2. (lease[e].state = "none" => lease[e] = NoLease) /\ lease[e].count <= clock
        BY DEF Inv, Labels, exists
      <4>3. lease[e].count \in Nat
        BY <1>3 DEF Lease
      <4> QED
        BY <1>3, <1>9, <4>1, <4>2, <4>3
    <3> QED
      BY <3>1, <3>2
  <2> QED
    BY <2>1 DEF Labels, exists
<1>14. Excluded'
  <2>1. \A w \in User : pc'[w] \in {"resource", "label"} =>
           pc[w] \in {"resource", "label"} /\ arg'[w] = arg[w]
    BY <1>3, <1>9
  <2>2. ASSUME NEW w \in User, pc'[w] \in {"resource", "label"}
        PROVE  lease'[arg'[w]].state # "none"
    <3>1. lease[arg[w]].state # "none" /\ arg[w] \in Digest /\ arg'[w] = arg[w]
      BY <1>3, <2>1, <2>2 DEF Inv, Excluded, exists
    <3> QED
      BY <1>11, <3>1
  <2> QED
    BY <1>4, <1>9, <2>2 DEF Excluded, exists, Inv
<1>15. Down'
  BY <1>4, <1>9 DEF Down
<1>16. CacheDriftBounded'
  <2>1. ASSUME NEW e \in Digest, NEW k \in Counts, lc'[k][e] # 0
        PROVE  /\ lease'[e].state # "none"
               /\ k \in {lease'[e].count, lease'[e].count + 1}
               /\ \A m \in Counts \ {k} : lc'[m][e] = 0
    <3>1. CASE e = d
      BY <1>6, <1>8, <1>11, <2>1, <3>1
    <3>2. CASE e # d
      BY <1>8, <1>11, <2>1, <3>2 DEF Inv, CacheDriftBounded, exists
    <3> QED
      BY <3>1, <3>2
  <2>2. lcSize' >= Cardinality(Keys')
    <3>1. /\ lcSize >= Cardinality(Keys) /\ Cardinality(Keys) \in Nat
          /\ Cardinality(Keys \cup {d}) =
                IF d \in Keys THEN Cardinality(Keys) ELSE Cardinality(Keys) + 1
      BY KeysCounted
    <3> QED
      BY <1>3, <1>8, <3>1
  <2> QED
    BY <2>1, <2>2 DEF CacheDriftBounded, Keys, exists
<1>17. LeaseCacheSynced'
  <2> SUFFICES ASSUME up, faults = 0
               PROVE  LeaseCacheSynced'
    BY <1>9 DEF LeaseCacheSynced
  <2>1. ASSUME NEW e \in Digest, NEW k \in Counts
        PROVE  lc'[k][e] # 0 <=> /\ lease'[e].state # "none" /\ lease'[e].count # 0
                                 /\ lease'[e].count = k
    <3>1. CASE e = d
      BY <1>2, <1>6, <1>8, <1>11, <3>1
    <3>2. CASE e # d
      BY <1>8, <1>11, <3>2 DEF Inv, LeaseCacheSynced, labelled, exists
    <3> QED
      BY <3>1, <3>2
  <2>2. Labelled' = Labelled \cup {d}
    <3>1. ASSUME NEW e \in Digest
          PROVE  lease'[e].state # "none" /\ lease'[e].count # 0
                     <=> e = d \/ (lease[e].state # "none" /\ lease[e].count # 0)
      <4>1. CASE e = d
        BY <1>2, <1>6, <1>11, <4>1
      <4>2. CASE e # d
        BY <1>11, <4>2
      <4> QED
        BY <4>1, <4>2
    <3>2. Labelled' = {e \in Digest : lease'[e].state # "none" /\ lease'[e].count # 0}
      BY DEF Labelled, labelled, exists
    <3>3. Labelled = {e \in Digest : lease[e].state # "none" /\ lease[e].count # 0}
      BY DEF Labelled, labelled, exists
    <3>4. \A e : e \in Labelled' <=> e \in Labelled \cup {d}
      BY <3>1, <3>2, <3>3
    <3> QED
      BY <3>4
  <2>3. lcSize = Cardinality(Labelled)
    BY DEF Inv, LeaseCacheSynced, Labelled
  <2>4. lcSize' = Cardinality(Labelled')
    <3>1. CASE c = 0
      <4>1. d \notin Labelled
        BY <1>2, <3>1 DEF Labelled, labelled
      <4>2. Cardinality(Labelled \cup {d}) = Cardinality(Labelled) + 1
        BY <4>1, KeysCounted
      <4> QED
        BY <1>6, <1>8, <2>2, <2>3, <3>1, <4>2
    <3>2. CASE c # 0
      <4>1. n - 1 = c /\ c \in Counts /\ n > 1
        BY <1>2, <1>6, <1>3, <3>2 DEF Counts
      <4>2. d \in Labelled
        BY <1>2, <1>5, <3>2 DEF Labelled, labelled
      <4>3. lc[c][d] # 0
        BY <1>2, <4>1, <4>2 DEF Inv, LeaseCacheSynced, Labelled
      <4>4. Cardinality(Labelled \cup {d}) = Cardinality(Labelled)
        BY <4>2, KeysCounted
      <4> QED
        BY <1>8, <2>2, <2>3, <4>1, <4>3, <4>4
    <3> QED
      BY <3>1, <3>2
  <2> QED
    BY <2>1, <2>4 DEF LeaseCacheSynced, Labelled, labelled, exists
<1>18. Stamped'
  <2>1. ASSUME crashes = 0, faults = 0, NEW e \in Digest, NEW k \in Counts, lc'[k][e] # 0
        PROVE  lc'[k][e] = lease'[e].at
    <3>1. CASE e = d
      BY <1>8, <1>11, <2>1, <3>1
    <3>2. CASE e # d
      BY <1>8, <1>11, <2>1, <3>2 DEF Inv, Stamped
    <3> QED
      BY <3>1, <3>2
  <2> QED
    BY <1>9, <2>1 DEF Stamped
<1> QED
  BY <1>12, <1>13, <1>14, <1>15, <1>16, <1>17, <1>18 DEF Inv

\* The transaction fails to commit: the leaseCache is one use ahead.
LEMMA LabelFailStep ==
  ASSUME Inv, NEW u \in User, LeaseLabelFail(u)
  PROVE  Inv'
<1>1. PICK d \in Digest : d = arg[u]
  BY DEF Inv, Typed
<1>2. PICK c \in Nat : c = lease[d].count
  BY BoundAssumption DEF Inv, Typed, Lease
<1>3. /\ lease \in [Digest -> Lease] /\ clock \in Nat /\ MaxClock \in Nat
      /\ pc \in [User -> {"out", "in"} \cup Working] /\ arg \in [User -> Digest]
      /\ lcSize \in Int /\ faults \in Nat /\ MaxFault \in Nat
  BY BoundAssumption DEF Inv, Typed
<1>4. pc[u] = "label" /\ clock < MaxClock /\ up
      /\ gc \notin {"clean", "collect", "panic"}
  <2>1. pc[u] = "label" /\ clock < MaxClock
    BY DEF LeaseLabelFail
  <2>2. gc \notin {"clean", "collect", "panic"}
    BY <2>1 DEF Inv, Excluded
  <2> QED
    BY <2>1, <2>2 DEF Inv, Down
<1>5. exists(d) /\ c <= clock
  BY <1>1, <1>2, <1>4 DEF Inv, Excluded, Labels
<1>6. PICK n \in Counts : n = c + 1
  BY <1>2, <1>3, <1>4, <1>5 DEF Counts
<1>7. Add(d, n)
  BY <1>1, <1>2, <1>6 DEF LeaseLabelFail
<1>8. /\ lc' \in [Counts -> [Digest -> Nat]] /\ lcSize' \in Int
      /\ \A k \in Counts, e \in Digest : e # d => lc'[k][e] = lc[k][e]
      /\ \A k \in Counts : lc'[k][d] # 0 <=> k = n
      /\ Keys' = Keys \cup {d}
      /\ lcSize' >= lcSize
      /\ d \notin Keys => lcSize' = lcSize + 1
  BY <1>2, <1>4, <1>5, <1>6, <1>7, Added
<1>9. /\ clock' = clock + 1 /\ faults' = faults + 1 /\ faults < MaxFault
      /\ pc' = [pc EXCEPT ![u] = IF op[u] = "commit" THEN "store" ELSE "in"]
      /\ UNCHANGED <<up, blobs, lease, arg, gc, crashes>>
  BY DEF LeaseLabelFail, Updated, Fault, goto, calls, flight
<1>10. Typed'
  <2>1. clock' \in 0..MaxClock /\ faults' \in 0..MaxFault
        /\ pc' \in [User -> {"out", "in"} \cup Working]
    BY <1>3, <1>4, <1>9 DEF Working
  <2> QED
    BY <1>8, <1>9, <2>1 DEF Inv, Typed
<1>11. Labels'
  <2>1. ASSUME NEW e \in Digest
        PROVE  lease[e].count <= clock + 1
    <3>1. lease[e].count \in Nat
      BY <1>3 DEF Lease
    <3>2. lease[e].count <= clock
      BY DEF Inv, Labels
    <3> QED
      BY <1>3, <3>1, <3>2
  <2> QED
    BY <1>9, <2>1 DEF Inv, Labels, exists
<1>12. Excluded'
  <2>1. \A w \in User : pc'[w] \in {"resource", "label"} => pc[w] \in {"resource", "label"}
    BY <1>3, <1>9
  <2> QED
    BY <1>4, <1>9, <2>1 DEF Excluded, exists, Inv
<1>13. Down'
  BY <1>4, <1>9 DEF Down
<1>14. CacheDriftBounded'
  <2>1. ASSUME NEW e \in Digest, NEW k \in Counts, lc'[k][e] # 0
        PROVE  /\ lease[e].state # "none"
               /\ k \in {lease[e].count, lease[e].count + 1}
               /\ \A m \in Counts \ {k} : lc'[m][e] = 0
    <3>1. CASE e = d
      BY <1>2, <1>5, <1>6, <1>8, <2>1, <3>1 DEF exists
    <3>2. CASE e # d
      BY <1>8, <2>1, <3>2 DEF Inv, CacheDriftBounded, exists
    <3> QED
      BY <3>1, <3>2
  <2>2. lcSize' >= Cardinality(Keys')
    <3>1. /\ lcSize >= Cardinality(Keys) /\ Cardinality(Keys) \in Nat
          /\ Cardinality(Keys \cup {d}) =
                IF d \in Keys THEN Cardinality(Keys) ELSE Cardinality(Keys) + 1
      BY KeysCounted
    <3> QED
      BY <1>3, <1>8, <3>1
  <2> QED
    BY <1>9, <2>1, <2>2 DEF CacheDriftBounded, Keys, exists
<1>15. LeaseCacheSynced' /\ Stamped'
  BY <1>3, <1>9 DEF LeaseCacheSynced, Stamped
<1> QED
  BY <1>10, <1>11, <1>12, <1>13, <1>14, <1>15 DEF Inv

-----------------------------------------------------------------------------
(* A turn of cleanLeases *)

\* The lease and its key go together.
LEMMA CleanLeaseStep ==
  ASSUME Inv, NEW d \in Digest, CleanLease(d)
  PROVE  Inv'
<1>1. /\ gc = "clean" /\ IsOldest(d) /\ lc' = Without(d) /\ lcSize' = lcSize - 1
      /\ lease' = [lease EXCEPT ![d] = NoLease]
      /\ UNCHANGED <<up, blobs, clock, pc, arg, gc, crashes, faults>>
  BY DEF CleanLease, calls
<1>2. /\ lc' \in [Counts -> [Digest -> Nat]]
      /\ \A k \in Counts, e \in Digest : e # d => lc'[k][e] = lc[k][e]
      /\ \A k \in Counts : lc'[k][d] = 0
      /\ d \in Keys /\ Keys' = Keys \ {d}
  BY <1>1, Removed
<1>3. /\ lease \in [Digest -> Lease] /\ lcSize \in Int /\ clock \in Nat
      /\ arg \in [User -> Digest] /\ MaxClock \in Nat
  BY BoundAssumption DEF Inv, Typed
<1>4. /\ \A e \in Digest \ {d} : lease'[e] = lease[e]
      /\ lease'[d] = NoLease
  BY <1>1, <1>3
<1>5. NoLease.state = "none" /\ NoLease.count = 0 /\ NoLease \in Lease
  BY <1>3 DEF NoLease, Lease
<1>6. Typed'
  <2>1. lease' \in [Digest -> Lease] /\ lcSize' \in Int
    BY <1>1, <1>3, <1>5
  <2> QED
    BY <1>1, <1>2, <2>1 DEF Inv, Typed
<1>7. Labels'
  <2>1. ASSUME NEW e \in Digest
        PROVE  /\ lease'[e].state = "none" => lease'[e] = NoLease
               /\ lease'[e].count <= clock'
    <3>1. CASE e = d
      BY <1>1, <1>3, <1>4, <1>5, <3>1
    <3>2. CASE e # d
      BY <1>1, <1>4, <3>2 DEF Inv, Labels, exists
    <3> QED
      BY <3>1, <3>2
  <2> QED
    BY <2>1 DEF Labels, exists
<1>8. Excluded' /\ Down'
  <2>1. \A u \in User : pc[u] = "out"
    BY <1>1 DEF Inv, Excluded
  <2>2. up
    BY <1>1 DEF Inv, Excluded
  <2> QED
    BY <1>1, <2>1, <2>2 DEF Excluded, Down
<1>9. CacheDriftBounded'
  <2>1. ASSUME NEW e \in Digest, NEW k \in Counts, lc'[k][e] # 0
        PROVE  /\ lease'[e].state # "none"
               /\ k \in {lease'[e].count, lease'[e].count + 1}
               /\ \A m \in Counts \ {k} : lc'[m][e] = 0
    <3>1. e # d
      BY <1>2, <2>1
    <3> QED
      BY <1>2, <1>4, <2>1, <3>1 DEF Inv, CacheDriftBounded, exists
  <2>2. lcSize' >= Cardinality(Keys')
    <3>1. /\ lcSize >= Cardinality(Keys) /\ Cardinality(Keys) \in Nat
          /\ Cardinality(Keys \ {d}) = Cardinality(Keys) - 1
      BY <1>2, KeysCounted
    <3> QED
      BY <1>1, <1>2, <1>3, <3>1
  <2> QED
    BY <2>1, <2>2 DEF CacheDriftBounded, Keys, exists
<1>10. LeaseCacheSynced'
  <2> SUFFICES ASSUME up, faults = 0
               PROVE  LeaseCacheSynced'
    BY <1>1 DEF LeaseCacheSynced
  <2>1. ASSUME NEW e \in Digest, NEW k \in Counts
        PROVE  lc'[k][e] # 0 <=> /\ lease'[e].state # "none" /\ lease'[e].count # 0
                                 /\ lease'[e].count = k
    <3>1. CASE e = d
      BY <1>2, <1>4, <1>5, <3>1
    <3>2. CASE e # d
      BY <1>2, <1>4, <3>2 DEF Inv, LeaseCacheSynced, labelled, exists
    <3> QED
      BY <3>1, <3>2
  <2>2. d \in Labelled
    BY <1>2 DEF Keys, Labelled, Inv, LeaseCacheSynced
  <2>3. Labelled' = Labelled \ {d}
    <3>1. ASSUME NEW e \in Digest
          PROVE  lease'[e].state # "none" /\ lease'[e].count # 0
                     <=> e # d /\ lease[e].state # "none" /\ lease[e].count # 0
      <4>1. CASE e = d
        BY <1>4, <1>5, <4>1
      <4>2. CASE e # d
        BY <1>4, <4>2
      <4> QED
        BY <4>1, <4>2
    <3>2. Labelled' = {e \in Digest : lease'[e].state # "none" /\ lease'[e].count # 0}
      BY DEF Labelled, labelled, exists
    <3>3. Labelled = {e \in Digest : lease[e].state # "none" /\ lease[e].count # 0}
      BY DEF Labelled, labelled, exists
    <3>4. \A e : e \in Labelled' <=> e \in Labelled \ {d}
      BY <3>1, <3>2, <3>3
    <3> QED
      BY <3>4
  <2>4. lcSize' = Cardinality(Labelled')
    <3>1. lcSize = Cardinality(Labelled)
      BY DEF Inv, LeaseCacheSynced, Labelled
    <3>2. Cardinality(Labelled \ {d}) = Cardinality(Labelled) - 1
      BY <2>2, KeysCounted
    <3> QED
      BY <1>1, <2>3, <3>1, <3>2
  <2> QED
    BY <2>1, <2>4 DEF LeaseCacheSynced, Labelled, labelled, exists
<1>11. Stamped'
  <2>1. ASSUME crashes = 0, faults = 0, NEW e \in Digest, NEW k \in Counts, lc'[k][e] # 0
        PROVE  lc'[k][e] = lease'[e].at
    <3>1. e # d
      BY <1>2, <2>1
    <3> QED
      BY <1>2, <1>4, <2>1, <3>1 DEF Inv, Stamped
  <2> QED
    BY <1>1, <2>1 DEF Stamped
<1> QED
  BY <1>6, <1>7, <1>8, <1>9, <1>10, <1>11 DEF Inv

\* The key goes, the lease stays: a failure, as every key has its lease.
LEMMA CleanFailStep ==
  ASSUME Inv, NEW d \in Digest, CleanFail(d)
  PROVE  Inv'
<1>1. /\ gc = "clean" /\ gc' = "idle"
      /\ IsOldest(d) /\ lc' = Without(d) /\ lcSize' = lcSize - 1
      /\ UNCHANGED <<up, blobs, lease, clock, pc, arg, crashes>>
  BY DEF CleanFail, gcReturn, calls
<1>2. /\ lc' \in [Counts -> [Digest -> Nat]]
      /\ \A k \in Counts, e \in Digest : e # d => lc'[k][e] = lc[k][e]
      /\ \A k \in Counts : lc'[k][d] = 0
      /\ d \in Keys /\ Keys' = Keys \ {d} /\ exists(d)
  BY <1>1, Removed
<1>3. faults' = faults + 1 /\ faults < MaxFault
  BY <1>2 DEF CleanFail, Fault
<1>4. lcSize \in Int /\ faults \in Nat /\ MaxFault \in Nat
  BY BoundAssumption DEF Inv, Typed
<1>5. Typed'
  <2>1. lcSize' \in Int /\ faults' \in 0..MaxFault
    BY <1>1, <1>3, <1>4
  <2> QED
    BY <1>1, <1>2, <2>1 DEF Inv, Typed
<1>6. Labels'
  BY <1>1 DEF Inv, Labels, exists
<1>7. Excluded' /\ Down'
  <2>1. (\A u \in User : pc[u] = "out") /\ up
    BY <1>1 DEF Inv, Excluded
  <2> QED
    BY <1>1, <2>1 DEF Excluded, Down
<1>8. CacheDriftBounded'
  <2>1. ASSUME NEW e \in Digest, NEW k \in Counts, lc'[k][e] # 0
        PROVE  /\ lease[e].state # "none"
               /\ k \in {lease[e].count, lease[e].count + 1}
               /\ \A m \in Counts \ {k} : lc'[m][e] = 0
    <3>1. e # d
      BY <1>2, <2>1
    <3> QED
      BY <1>2, <2>1, <3>1 DEF Inv, CacheDriftBounded, exists
  <2>2. lcSize' >= Cardinality(Keys')
    <3>1. /\ lcSize >= Cardinality(Keys) /\ Cardinality(Keys) \in Nat
          /\ Cardinality(Keys \ {d}) = Cardinality(Keys) - 1
      BY <1>2, KeysCounted
    <3> QED
      BY <1>1, <1>2, <1>4, <3>1
  <2> QED
    BY <1>1, <2>1, <2>2 DEF CacheDriftBounded, Keys, exists
<1>9. LeaseCacheSynced' /\ Stamped'
  BY <1>3, <1>4 DEF LeaseCacheSynced, Stamped
<1> QED
  BY <1>5, <1>6, <1>7, <1>8, <1>9 DEF Inv

-----------------------------------------------------------------------------
(* The daemon *)

LEMMA CrashStep ==
  ASSUME Inv, Crash
  PROVE  Inv'
<1>1. /\ crashes' = crashes + 1 /\ crashes < MaxCrash /\ ~up'
      /\ lc' = EmptyCache /\ lcSize' = 0
      /\ pc' = [u \in User |-> "out"] /\ gc' = "idle"
      /\ UNCHANGED <<blobs, lease, clock, arg, faults>>
  BY DEF Crash, gcReturn, calls
<1>2. crashes \in Nat /\ MaxCrash \in Nat
  BY BoundAssumption DEF Inv, Typed
<1>3. \A n \in Counts, d \in Digest : EmptyCache[n][d] = 0
  BY DEF EmptyCache
<1>4. Typed'
  <2>1. /\ lc' \in [Counts -> [Digest -> Nat]] /\ lcSize' \in Int
        /\ pc' \in [User -> {"out", "in"} \cup Working] /\ crashes' \in 0..MaxCrash
    BY <1>1, <1>2 DEF EmptyCache
  <2> QED
    BY <1>1, <2>1 DEF Inv, Typed
<1>5. Labels' /\ Excluded' /\ Down'
  BY <1>1, <1>2 DEF Inv, Labels, Excluded, Down, exists, EmptyCache, Counts
<1>6. CacheDriftBounded'
  <2>1. Cardinality({d \in Digest : \E n \in Counts : lc'[n][d] # 0}) = 0
    BY <1>1, <1>3, FS_EmptySet
  <2> QED
    BY <1>1, <1>3, <2>1 DEF CacheDriftBounded
<1>7. LeaseCacheSynced' /\ Stamped'
  BY <1>1, <1>2 DEF LeaseCacheSynced, Stamped
<1> QED
  BY <1>4, <1>5, <1>6, <1>7 DEF Inv

\* leaseCache.Init gives every lease a place.
LEMMA RestartStep ==
  ASSUME Inv, Restart
  PROVE  Inv'
<1>1. /\ ~up /\ up'
      /\ \A d \in Digest : exists(d) => lease[d].count # 0
      /\ lc' = Loaded
      /\ lcSize' = Cardinality({d \in Digest : exists(d)})
      /\ UNCHANGED <<blobs, lease, clock, pc, arg, gc, crashes, faults>>
  BY DEF Restart, calls, flight
<1>2. ASSUME NEW n \in Counts, NEW d \in Digest
      PROVE  /\ Loaded[n][d] \in Nat
             /\ Loaded[n][d] # 0 <=> exists(d) /\ lease[d].count = n
  <2> DEFINE later == {e \in Digest : exists(e) /\ lease[e].at >= lease[d].at}
  <2>1. Loaded[n][d] = IF exists(d) /\ lease[d].count = n THEN Cardinality(later) ELSE 0
    BY DEF Loaded
  <2>2. IsFiniteSet(later) /\ Cardinality(later) \in Nat
    BY Finite
  <2>3. exists(d) => Cardinality(later) # 0
    <3>1. lease[d].at \in Nat
      BY BoundAssumption DEF Inv, Typed, Lease
    <3>2. exists(d) => d \in later
      BY <3>1
    <3> HIDE DEF later
    <3> QED
      BY <2>2, <3>2, FS_EmptySet
  <2> HIDE DEF later
  <2> QED
    BY <2>1, <2>2, <2>3 DEF exists
<1>3. lc' \in [Counts -> [Digest -> Nat]]
  <2> DEFINE Place(n, d) ==
               IF exists(d) /\ lease[d].count = n
                 THEN Cardinality({e \in Digest : exists(e) /\ lease[e].at >= lease[d].at})
                 ELSE 0
  <2>1. Loaded = [n \in Counts |-> [d \in Digest |-> Place(n, d)]]
    BY DEF Loaded
  <2>2. \A n \in Counts, d \in Digest : Place(n, d) \in Nat
    BY <1>2, <2>1
  <2> HIDE DEF Place
  <2>3. [n \in Counts |-> [d \in Digest |-> Place(n, d)]] \in [Counts -> [Digest -> Nat]]
    BY <2>2
  <2> QED
    BY <1>1, <2>1, <2>3
<1>4. crashes > 0 /\ gc = "idle" /\ \A u \in User : pc[u] = "out"
  BY <1>1 DEF Inv, Down, Excluded
<1>5. IsFiniteSet({d \in Digest : exists(d)}) /\ lcSize' \in Int
  <2>1. {d \in Digest : exists(d)} \subseteq Digest
    OBVIOUS
  <2>2. /\ IsFiniteSet({d \in Digest : exists(d)})
        /\ Cardinality({d \in Digest : exists(d)}) \in Nat
    BY <2>1, Finite
  <2> QED
    BY <1>1, <2>2
<1>6. Typed' /\ Labels' /\ Excluded' /\ Down'
  BY <1>1, <1>3, <1>4, <1>5 DEF Inv, Typed, Labels, Excluded, Down, exists
<1>7. CacheDriftBounded'
  <2>1. ASSUME NEW d \in Digest, NEW n \in Counts, lc'[n][d] # 0
        PROVE  /\ exists(d) /\ n = lease[d].count
               /\ \A k \in Counts \ {n} : lc'[k][d] = 0
    <3>1. \A k \in Counts : lc'[k][d] # 0 => exists(d) /\ lease[d].count = k
      BY <1>1, <1>2
    <3> QED
      BY <2>1, <3>1
  <2>2. Keys' \subseteq {d \in Digest : exists(d)}
    BY <2>1 DEF Keys
  <2>3. lcSize' >= Cardinality(Keys')
    <3>1. Cardinality(Keys') <= Cardinality({d \in Digest : exists(d)})
      BY <1>5, <2>2, FS_Subset
    <3>2. Cardinality(Keys') \in Nat
      BY <2>2, Finite
    <3> QED
      BY <1>1, <1>5, <3>1, <3>2
  <2> QED
    BY <1>1, <2>1, <2>3 DEF CacheDriftBounded, Keys, exists
<1>8. LeaseCacheSynced'
  <2>1. {d \in Digest : labelled(d)}' = {d \in Digest : exists(d)}
    BY <1>1 DEF labelled, exists
  <2>2. \A d \in Digest, n \in Counts : lc'[n][d] # 0 <=> exists(d) /\ lease[d].count = n
    BY <1>1, <1>2
  <2> QED
    BY <1>1, <2>1, <2>2 DEF LeaseCacheSynced, labelled, exists
<1>9. Stamped'
  BY <1>1, <1>4 DEF Stamped
<1> QED
  BY <1>6, <1>7, <1>8, <1>9 DEF Inv

-----------------------------------------------------------------------------
(* The other steps *)

\* Of a goroutine at work: up, no lease is being deleted, and it leaves the
\* leaseCache and the labels of the leases alone.
LEMMA CallStep ==
  ASSUME Inv, NEW u \in User, NEW l \in {"out", "in"} \cup Working,
         pc' = [pc EXCEPT ![u] = l], up, gc \notin {"clean", "collect", "panic"},
         UNCHANGED <<up, lc, lcSize, clock, gc, crashes>>,
         faults' = faults \/ (faults' = faults + 1 /\ faults < MaxFault),
         blobs' \subseteq Digest, arg' \in [User -> Digest],
         \A w \in User : pc'[w] \in {"resource", "label"} => arg'[w] = arg[w],
         l \in {"resource", "label"} => lease'[arg[u]].state # "none",
         lease' = lease \/
             \E s \in {"bare", "held"} :
                 /\ lease' = [lease EXCEPT ![arg[u]].state = s]
                 /\ lease[arg[u]].count # 0 => exists(arg[u])
  PROVE  Inv'
<1>1. /\ lease \in [Digest -> Lease] /\ faults \in Nat /\ MaxFault \in Nat
      /\ arg \in [User -> Digest] /\ pc \in [User -> {"out", "in"} \cup Working]
      /\ faults \in 0..MaxFault
  BY BoundAssumption DEF Inv, Typed
<1>2. /\ lease' \in [Digest -> Lease]
      /\ \A d \in Digest :
            /\ lease'[d].count = lease[d].count /\ lease'[d].at = lease[d].at
            /\ exists(d) => lease'[d].state # "none"
            /\ lease'[d].state # "none" /\ lease[d].count # 0 => exists(d)
            /\ lease'[d].state = "none" => lease'[d] = lease[d]
  <2>1. CASE lease' = lease
    BY <1>1, <2>1 DEF exists
  <2>2. ASSUME NEW s \in {"bare", "held"}, lease' = [lease EXCEPT ![arg[u]].state = s],
               lease[arg[u]].count # 0 => exists(arg[u])
        PROVE  <1>2!1 /\ <1>2!2
    <3>1. arg[u] \in Digest
      BY <1>1
    <3>2. [lease[arg[u]] EXCEPT !.state = s] \in Lease
      BY <1>1, <3>1 DEF Lease
    <3>3. lease' \in [Digest -> Lease]
      BY <1>1, <2>2, <3>2
    <3>4. \A d \in Digest :
              lease'[d] = IF d = arg[u] THEN [lease[d] EXCEPT !.state = s] ELSE lease[d]
      BY <1>1, <2>2
    <3>5. /\ lease'[arg[u]].state = s /\ lease'[arg[u]].count = lease[arg[u]].count
          /\ lease'[arg[u]].at = lease[arg[u]].at
      <4>1. lease'[arg[u]] = [lease[arg[u]] EXCEPT !.state = s]
        BY <3>1, <3>4
      <4>2. lease[arg[u]] \in [state : {"none", "bare", "held"}, count : 0..MaxClock,
                               at : 0..MaxClock]
        BY <1>1, <3>1 DEF Lease
      <4> QED
        BY <4>1, <4>2
    <3>6. ASSUME NEW d \in Digest
          PROVE  /\ lease'[d].count = lease[d].count /\ lease'[d].at = lease[d].at
                 /\ exists(d) => lease'[d].state # "none"
                 /\ lease'[d].state # "none" /\ lease[d].count # 0 => exists(d)
                 /\ lease'[d].state = "none" => lease'[d] = lease[d]
      <4>1. CASE d = arg[u]
        BY <2>2, <3>5, <4>1
      <4>2. CASE d # arg[u]
        BY <3>4, <4>2 DEF exists
      <4> QED
        BY <4>1, <4>2
    <3> QED
      BY <3>3, <3>6
  <2> QED
    BY <2>1, <2>2
<1>3. CacheDriftBounded' /\ LeaseCacheSynced' /\ Stamped'
  BY <1>2, CacheKept
<1>4. Typed'
  <2>1. pc' \in [User -> {"out", "in"} \cup Working] /\ faults' \in 0..MaxFault
    BY <1>1
  <2> QED
    BY <1>2, <2>1 DEF Inv, Typed
<1>5. Labels'
  <2>1. ASSUME NEW d \in Digest
        PROVE  /\ lease'[d].state = "none" => lease'[d] = NoLease
               /\ lease'[d].count <= clock
    BY <1>2 DEF Inv, Labels, exists
  <2> QED
    BY <2>1 DEF Labels, exists
<1>6. Excluded'
  <2>1. ASSUME NEW w \in User, pc'[w] \in {"resource", "label"}
        PROVE  lease'[arg'[w]].state # "none"
    <3>1. arg'[w] = arg[w] /\ arg[w] \in Digest
      BY <1>1, <2>1
    <3>2. CASE w = u
      BY <1>1, <2>1, <3>1, <3>2
    <3>3. CASE w # u
      <4>1. exists(arg[w])
        BY <1>1, <2>1, <3>3 DEF Inv, Excluded
      <4> QED
        BY <1>2, <3>1, <4>1
    <3> QED
      BY <3>2, <3>3
  <2> QED
    BY <2>1 DEF Excluded, exists
<1>7. Down'
  BY DEF Down
<1> QED
  BY <1>3, <1>4, <1>5, <1>6, <1>7 DEF Inv

\* Of a collection: the leases stay as they are.
LEMMA CollectionStep ==
  ASSUME Inv, UNCHANGED <<up, lease, lc, lcSize, clock, pc, arg, crashes>>,
         faults' = faults \/ (faults' = faults + 1 /\ faults < MaxFault),
         blobs' \subseteq Digest,
         up, gc' \in {"idle", "lock", "clean", "collect", "panic"},
         gc' \in {"clean", "collect", "panic"} => \A u \in User : pc[u] = "out"
  PROVE  Inv'
<1>1. faults \in 0..MaxFault /\ MaxFault \in Nat
  BY BoundAssumption DEF Inv, Typed
<1>2. faults' \in 0..MaxFault
  BY <1>1
<1>3. CacheDriftBounded' /\ LeaseCacheSynced' /\ Stamped'
  BY CacheKept DEF exists
<1>4. Typed' /\ Labels' /\ Excluded' /\ Down'
  BY <1>2 DEF Inv, Typed, Labels, Excluded, Down, exists
<1> QED
  BY <1>3, <1>4 DEF Inv

\* A goroutine that is in a conversion.
LEMMA Running ==
  ASSUME Inv, NEW u \in User, pc[u] # "out"
  PROVE  up /\ gc \notin {"clean", "collect", "panic"}
BY DEF Inv, Excluded, Down

LEMMA ConvertStep ==
  ASSUME Inv, NEW u \in User, Convert(u)
  PROVE  Inv'
<1>1. /\ blobs \subseteq Digest /\ arg \in [User -> Digest]
      /\ pc \in [User -> {"out", "in"} \cup Working]
  BY DEF Inv, Typed
<1>2. arg[u] \in Digest
  BY <1>1
<1>3. CASE Begin(u)
  <2>1. /\ pc' = [pc EXCEPT ![u] = "in"] /\ up /\ gc = "idle"
        /\ UNCHANGED <<up, blobs, lease, lc, lcSize, clock, arg, gc, crashes, faults>>
    BY <1>3 DEF Begin, goto, cache, calls, flight
  <2> QED
    BY <1>1, <2>1, CallStep
<1>4. CASE End(u)
  <2>1. /\ pc' = [pc EXCEPT ![u] = "out"] /\ pc[u] = "in"
        /\ UNCHANGED <<up, blobs, lease, lc, lcSize, clock, arg, gc, crashes, faults>>
    BY <1>4 DEF End, goto, cache, calls, flight
  <2> QED
    BY <1>1, <2>1, Running, CallStep
<1>5. ASSUME NEW d \in Digest, ReaderAt(u, d) \/ Commit(u, d)
      PROVE  Inv'
  <2>1. /\ pc' = [pc EXCEPT ![u] = "list"] /\ pc[u] = "in"
        /\ arg' = [arg EXCEPT ![u] = d]
        /\ UNCHANGED <<up, blobs, lease, lc, lcSize, clock, gc, crashes, faults>>
    BY <1>5 DEF ReaderAt, Commit, goto, cache, flight
  <2>2. arg' \in [User -> Digest]
    BY <1>1, <2>1
  <2>3. \A w \in User : pc'[w] \in {"resource", "label"} => arg'[w] = arg[w]
    BY <1>1, <2>1
  <2>4. "list" \in {"out", "in"} \cup Working
    BY DEF Working
  <2> QED
    BY <1>1, <2>1, <2>2, <2>3, <2>4, Running, CallStep
<1>6. CASE LeaseList(u)
  <2>1. PICK l \in {"label", "create"} :
           /\ pc' = [pc EXCEPT ![u] = l] /\ pc[u] = "list"
           /\ l = "label" => exists(arg[u])
           /\ UNCHANGED <<up, blobs, lease, lc, lcSize, clock, arg, gc, crashes, faults>>
    BY <1>6 DEF LeaseList, goto, cache, calls, flight
  <2>2. l \in {"out", "in"} \cup Working
    BY DEF Working
  <2> QED
    BY <1>1, <2>1, <2>2, Running, CallStep DEF exists
<1>7. CASE LeaseCreate(u)
  <2>1. /\ pc[u] = "create"
        /\ UNCHANGED <<up, blobs, lc, lcSize, clock, arg, gc, crashes, faults>>
    BY <1>7 DEF LeaseCreate, cache, calls, flight
  <2>2. CASE exists(arg[u])
    <3>1. PICK l \in {"store", "in"} : pc' = [pc EXCEPT ![u] = l] /\ lease' = lease
      BY <1>7, <2>2 DEF LeaseCreate, Updated, goto
    <3>2. l \in {"out", "in"} \cup Working
      BY DEF Working
    <3> QED
      BY <1>1, <2>1, <3>1, <3>2, Running, CallStep
  <2>3. CASE ~exists(arg[u])
    <3>1. /\ pc' = [pc EXCEPT ![u] = "resource"]
          /\ lease' = [lease EXCEPT ![arg[u]].state = "bare"]
      BY <1>7, <2>3 DEF LeaseCreate, goto
    <3>2. "resource" \in {"out", "in"} \cup Working
      BY DEF Working
    <3>3. lease[arg[u]].count = 0
      <4>1. lease[arg[u]] = NoLease
        BY <1>2, <2>3 DEF Inv, Labels
      <4> QED
        BY <4>1 DEF NoLease
    <3>4. lease'[arg[u]].state # "none"
      BY <1>2, <3>1 DEF Inv, Typed, Lease
    <3> QED
      BY <1>1, <2>1, <3>1, <3>2, <3>3, <3>4, Running, CallStep
  <2> QED
    BY <2>2, <2>3
<1>8. CASE LeaseResource(u)
  <2>1. /\ pc[u] = "resource" /\ pc' = [pc EXCEPT ![u] = "label"]
        /\ lease' = [lease EXCEPT ![arg[u]].state = "held"]
        /\ UNCHANGED <<up, blobs, lc, lcSize, clock, arg, gc, crashes, faults>>
    BY <1>8 DEF LeaseResource, goto, cache, calls, flight
  <2>2. "label" \in {"out", "in"} \cup Working
    BY DEF Working
  <2>3. exists(arg[u])
    BY <2>1 DEF Inv, Excluded
  <2>4. lease'[arg[u]].state # "none"
    BY <1>2, <2>1 DEF Inv, Typed, Lease
  <2> QED
    BY <1>1, <2>1, <2>2, <2>3, <2>4, Running, CallStep
<1>9. CASE LeaseFail(u) \/ StoreFail(u)
  <2>1. PICK l \in {"store", "in"} :
           /\ pc' = [pc EXCEPT ![u] = l] /\ pc[u] # "out"
           /\ faults' = faults + 1 /\ faults < MaxFault
           /\ UNCHANGED <<up, blobs, lease, lc, lcSize, clock, arg, gc, crashes>>
    BY <1>9 DEF LeaseFail, StoreFail, Updated, Fault, goto, cache, calls, flight
  <2>2. l \in {"out", "in"} \cup Working
    BY DEF Working
  <2> QED
    BY <1>1, <2>1, <2>2, Running, CallStep
<1>10. CASE Store(u)
  <2>1. /\ pc' = [pc EXCEPT ![u] = "in"] /\ pc[u] = "store"
        /\ blobs' = blobs \cup {arg[u]}
        /\ UNCHANGED <<up, lease, lc, lcSize, clock, arg, gc, crashes, faults>>
    BY <1>10 DEF Store, goto, cache, calls, flight
  <2>2. blobs' \subseteq Digest
    BY <1>1, <1>2, <2>1
  <2> QED
    BY <1>1, <2>1, <2>2, Running, CallStep
<1> QED
  BY <1>3, <1>4, <1>5, <1>6, <1>7, <1>8, <1>9, <1>10, LabelStep, LabelFailStep
     DEF Convert, UpdateLease

LEMMA GCStep ==
  ASSUME Inv, GC
  PROVE  Inv'
<1>1. blobs \subseteq Digest
  BY DEF Inv, Typed
<1>2. gc # "idle" => up
  BY DEF Inv, Excluded
<1>3. ASSUME NEW l \in Limits, GcStart(l)
      PROVE  Inv'
  <2>1. /\ up /\ gc' = "lock"
        /\ UNCHANGED <<up, blobs, lease, lc, lcSize, clock, pc, arg, crashes, faults>>
    BY <1>3 DEF GcStart, cache, calls
  <2> QED
    BY <1>1, <2>1, CollectionStep
<1>4. CASE GcLock
  <2>1. /\ gc = "lock" /\ gc' = "clean" /\ \A u \in User : pc[u] = "out"
        /\ UNCHANGED <<up, blobs, lease, lc, lcSize, clock, pc, arg, crashes, faults>>
    BY <1>4 DEF GcLock, cache, calls
  <2> QED
    BY <1>1, <1>2, <2>1, CollectionStep
<1>5. CASE CleanEmpty \/ CleanPanic \/ CleanDone
  <2>1. /\ gc = "clean" /\ gc' \in {"idle", "panic", "collect"}
        /\ UNCHANGED <<up, blobs, lease, lc, lcSize, clock, pc, arg, crashes, faults>>
    BY <1>5 DEF CleanEmpty, CleanPanic, CleanDone, gcReturn, cache, calls
  <2>2. \A u \in User : pc[u] = "out"
    BY <2>1 DEF Inv, Excluded
  <2> QED
    BY <1>1, <1>2, <2>1, <2>2, CollectionStep
<1>6. CASE Collect
  <2>1. /\ gc = "collect" /\ gc' = "idle" /\ blobs' = {d \in blobs : lease[d].state = "held"}
        /\ UNCHANGED <<up, lease, lc, lcSize, clock, pc, arg, crashes, faults>>
    BY <1>6 DEF Collect, gcReturn, cache, calls
  <2>2. blobs' \subseteq Digest
    BY <1>1, <2>1
  <2> QED
    BY <1>2, <2>1, <2>2, CollectionStep
<1>7. CASE CollectFail
  <2>1. /\ gc = "collect" /\ gc' = "idle" /\ faults' = faults + 1 /\ faults < MaxFault
        /\ UNCHANGED <<up, blobs, lease, lc, lcSize, clock, pc, arg, crashes>>
    BY <1>7 DEF CollectFail, Fault, gcReturn, cache, calls
  <2> QED
    BY <1>1, <1>2, <2>1, CollectionStep
<1> QED
  BY <1>3, <1>4, <1>5, <1>6, <1>7, CleanLeaseStep, CleanFailStep DEF GC

LEMMA StepInv == Inv /\ [Next]_vars => Inv'
<1> SUFFICES ASSUME Inv, [Next]_vars
             PROVE  Inv'
  OBVIOUS
<1>1. CASE UNCHANGED vars
  <2>1. UNCHANGED <<up, blobs, lease, lc, lcSize, clock, pc, arg, gc, crashes, faults>>
    BY <1>1 DEF vars
  <2>2. CacheDriftBounded' /\ LeaseCacheSynced' /\ Stamped'
    BY <2>1, CacheKept DEF exists
  <2>3. Typed' /\ Labels' /\ Excluded' /\ Down'
    BY <2>1 DEF Inv, Typed, Labels, Excluded, Down, exists
  <2> QED
    BY <2>2, <2>3 DEF Inv
<1> QED
  BY <1>1, ConvertStep, GCStep, CrashStep, RestartStep DEF Next

LEMMA Invariant == Spec => []Inv
BY InitInv, StepInv, PTL DEF Spec

-----------------------------------------------------------------------------
(* Theorems *)

\* "The leaseCache will sync with the leases which are persisted in boltdb":
\* whatever goroutines race and however often the daemon dies, the leaseCache
\* has exactly the labelled leases, until a transaction fails.
THEOREM CacheIsSynced == Spec => []LeaseCacheSynced
BY Invariant, PTL DEF Inv

\* Whatever fails, every key has its lease, its count is off by at most one use,
\* and the size does not fall below the number of keys: a collection never asks
\* the lease manager for a lease that is not there.
THEOREM DriftIsBounded == Spec => []CacheDriftBounded
BY Invariant, PTL DEF Inv

\* Only a turn of cleanLeases deletes a lease, the one of its key.
LEMMA Evicted ==
  ASSUME Inv, Next, NEW d \in Digest, evicted(d)
  PROVE  CleanLease(d)
<1>1. lease \in [Digest -> Lease] /\ arg \in [User -> Digest]
  BY DEF Inv, Typed
<1>2. lease[d].state # "none" /\ lease'[d].state = "none"
  BY DEF evicted
<1>3. ASSUME NEW u \in User, NEW s \in {"bare", "held"},
             lease' = [lease EXCEPT ![arg[u]].state = s]
      PROVE  FALSE
  <2>1. lease'[d] = IF d = arg[u] THEN [lease[d] EXCEPT !.state = s] ELSE lease[d]
    BY <1>1, <1>3
  <2>2. lease[d] \in Lease
    BY <1>1
  <2>3. d = arg[u] => lease'[d].state = s
    BY <2>1, <2>2 DEF Lease
  <2> QED
    BY <1>2, <2>1, <2>3
<1>4. ASSUME NEW u \in User, LeaseLabel(u)
      PROVE  FALSE
  <2>1. PICK k, t : lease' = [lease EXCEPT ![arg[u]] =
                                  [state |-> lease[arg[u]].state, count |-> k, at |-> t]]
    BY <1>1, <1>4 DEF LeaseLabel
  <2> QED
    BY <1>1, <1>2, <2>1
<1>5. ASSUME NEW u \in User, Convert(u)
      PROVE  FALSE
  <2>1. CASE lease' = lease
    BY <1>2, <2>1
  <2>2. CASE LeaseCreate(u)
    BY <1>3, <2>1, <2>2 DEF LeaseCreate
  <2>3. CASE LeaseResource(u)
    BY <1>3, <2>3 DEF LeaseResource
  <2> QED
    BY <1>4, <1>5, <2>1, <2>2, <2>3
       DEF Convert, Begin, End, ReaderAt, Commit, UpdateLease, LeaseList, LeaseFail,
           LeaseLabelFail, Store, StoreFail
<1>6. CASE GC
  <2>1. ASSUME NEW e \in Digest, CleanLease(e)
        PROVE  CleanLease(d)
    <3>1. lease' = [lease EXCEPT ![e] = NoLease]
      BY <2>1 DEF CleanLease
    <3>2. e = d
      BY <1>1, <1>2, <3>1
    <3> QED
      BY <2>1, <3>2
  <2> QED
    BY <1>2, <1>6, <2>1
       DEF GC, GcStart, GcLock, CleanFail, CleanEmpty, CleanPanic, CleanDone, Collect,
           CollectFail
<1> QED
  BY <1>2, <1>5, <1>6 DEF Next, Crash, Restart

\* The lease that goes is the least used, and of those the one with the oldest
\* place.
LEMMA EvictedIsLeastUsed ==
  ASSUME Inv, Next, faults = 0, NEW d \in Digest, evicted(d), NEW e \in Digest, labelled(e)
  PROVE  \E n \in Counts :
            /\ lease[d].count = n /\ n <= lease[e].count /\ lc[n][d] # 0
            /\ n = lease[e].count => lc[n][e] # 0 /\ lc[n][d] <= lc[n][e]
<1>1. CleanLease(d)
  BY Evicted
<1>2. up /\ IsOldest(d)
  BY <1>1 DEF CleanLease, Inv, Excluded
<1>3. \A c \in Digest, n \in Counts : lc[n][c] # 0 <=> labelled(c) /\ lease[c].count = n
  BY <1>2 DEF Inv, LeaseCacheSynced
<1>4. PICK n \in CachesIndex :
         /\ \A k \in CachesIndex : n <= k
         /\ lc[n][d] # 0
         /\ \A c \in Digest : lc[n][c] # 0 => lc[n][d] <= lc[n][c]
  BY <1>2 DEF IsOldest
<1>5. n \in Counts /\ lease[d].count = n
  BY <1>3, <1>4 DEF CachesIndex
<1>6. lease[e].count \in Counts
  <2>1. lease[e] \in Lease /\ lease[e].count # 0
    BY DEF Inv, Typed, labelled
  <2> QED
    BY <2>1, BoundAssumption DEF Lease, Counts
<1>7. lc[lease[e].count][e] # 0
  BY <1>3, <1>6
<1>8. n <= lease[e].count
  BY <1>4, <1>6, <1>7 DEF CachesIndex
<1> QED
  BY <1>4, <1>5, <1>7, <1>8

\* Until a transaction fails a collection deletes leases of the smallest used
\* count only, after any number of crashes.
THEOREM LeastUsedGoesFirst == Spec => EvictsLeastUsed
<1>1. ASSUME Inv, [Next]_vars, NEW d \in Digest, NEW e \in Digest,
             faults = 0, evicted(d), labelled(e)
      PROVE  lease[d].count <= lease[e].count
  <2>1. Next
    BY <1>1 DEF vars, evicted
  <2> QED
    BY <1>1, <2>1, EvictedIsLeastUsed
<1>2. Inv /\ [Next]_vars =>
         [\A d, e \in Digest :
             faults = 0 /\ evicted(d) /\ labelled(e) => lease[d].count <= lease[e].count]_vars
  BY <1>1
<1> QED
  BY <1>2, Invariant, PTL DEF Spec, EvictsLeastUsed

\* In a daemon that never dies and whose transactions succeed the leases go in
\* LFRU order: of the least used, the one used longest ago.
THEOREM EvictsInOrder ==
  ASSUME MaxCrash = 0, MaxFault = 0
  PROVE  Spec => EvictsInLFRUOrder
<1>1. ASSUME Inv, [Next]_vars, NEW d \in Digest, NEW e \in Digest, evicted(d), labelled(e)
      PROVE  \/ lease[d].count < lease[e].count
             \/ lease[d].count = lease[e].count /\ lease[d].at <= lease[e].at
  <2>1. Next
    BY <1>1 DEF vars, evicted
  <2>2. crashes = 0 /\ faults = 0
    BY <1>1 DEF Inv, Typed
  <2>3. PICK n \in Counts :
           /\ lease[d].count = n /\ n <= lease[e].count /\ lc[n][d] # 0
           /\ n = lease[e].count => lc[n][e] # 0 /\ lc[n][d] <= lc[n][e]
    BY <1>1, <2>1, <2>2, EvictedIsLeastUsed
  <2>4. \A c \in Digest : lc[n][c] # 0 => lc[n][c] = lease[c].at
    BY <1>1, <2>2 DEF Inv, Stamped
  <2>5. lease[e].count \in Nat /\ n \in Nat
    BY <1>1, BoundAssumption DEF Inv, Typed, Lease, Counts
  <2> QED
    BY <2>3, <2>4, <2>5
<1>2. Inv /\ [Next]_vars =>
         [\A d, e \in Digest :
             evicted(d) /\ labelled(e) =>
                 \/ lease[d].count < lease[e].count
                 \/ lease[d].count = lease[e].count /\ lease[d].at <= lease[e].at]_vars
  BY <1>1
<1> QED
  BY <1>2, Invariant, PTL DEF Spec, EvictsInLFRUOrder

-----------------------------------------------------------------------------
(* The size of a store *)

\* The bytes of blobs.
Bytes(S) == UNION {{d} \X (1..BlobSize[d]) : d \in S}

\* The bytes of a blob more.
LEMMA BytesOfOneMore ==
  ASSUME NEW S \in SUBSET Digest, NEW d \in S
  PROVE  /\ IsFiniteSet(Bytes(S \ {d})) => IsFiniteSet(Bytes(S))
         /\ IsFiniteSet(Bytes(S \ {d})) =>
               Cardinality(Bytes(S)) = BlobSize[d] + Cardinality(Bytes(S \ {d}))
<1> DEFINE one == {d} \X (1..BlobSize[d])
           rest == Bytes(S \ {d})
<1>1. BlobSize[d] \in Nat
  BY BlobSizeAssumption
<1>2. IsFiniteSet(one) /\ Cardinality(one) = BlobSize[d]
  <2>1. IsFiniteSet({d}) /\ Cardinality({d}) = 1
    BY FS_Singleton
  <2>2. IsFiniteSet(1..BlobSize[d]) /\ Cardinality(1..BlobSize[d]) = BlobSize[d]
    BY SMTT(30), <1>1, FS_Interval
  <2> HIDE DEF one
  <2>3. IsFiniteSet(one) /\ Cardinality(one) = 1 * BlobSize[d]
    BY ZenonT(30), <2>1, <2>2, FS_Product DEF one
  <2> QED
    BY <1>1, <2>3
<1>3. Bytes(S) = one \cup rest
  BY DEF Bytes
<1>4. one \cap rest = {}
  BY DEF Bytes
<1> HIDE DEF one, rest
<1>5. ASSUME IsFiniteSet(rest)
      PROVE  IsFiniteSet(Bytes(S)) /\ Cardinality(Bytes(S)) = BlobSize[d] + Cardinality(rest)
  <2>1. /\ IsFiniteSet(one \cup rest)
        /\ Cardinality(one \cup rest) = Cardinality(one) + Cardinality(rest) - Cardinality(one \cap rest)
    BY <1>2, <1>5, FS_Union
  <2>2. Cardinality(one \cap rest) = 0 /\ Cardinality(rest) \in Nat
    BY <1>4, <1>5, FS_EmptySet, FS_CardinalityType
  <2> QED
    BY <1>1, <1>2, <1>3, <2>1, <2>2
<1> QED
  BY <1>5 DEF rest

\* The number of bytes solves the recursion of the sum, and nothing else does.
LEMMA TotalIsBytes ==
  ASSUME NEW S \in SUBSET Digest
  PROVE  IsFiniteSet(Bytes(S)) /\ Total(S) = Cardinality(Bytes(S))
<1> DEFINE pick(s) == CHOOSE x \in s : TRUE
           Solves(f) == f = [s \in SUBSET S |->
                                IF s = {} THEN 0 ELSE BlobSize[pick(s)] + f[s \ {pick(s)}]]
           count == [s \in SUBSET S |-> Cardinality(Bytes(s))]
           iter == CHOOSE f : Solves(f)
           smaller == StrictSubsetOrdering(S)
<1>1. IsFiniteSet(S)
  BY DigestAssumption, FS_Subset
<1>2. IsWellFoundedOn(smaller, SUBSET S)
  <2>1. FiniteSubsetsOf(S) = SUBSET S
    BY <1>1, FS_FiniteSubsetsOfFinite
  <2> QED
    BY <2>1, FS_StrictSubsetOrderingWellFounded
<1>3. \A s \in SUBSET S : s # {} => pick(s) \in s
  OBVIOUS
<1>4. \A s \in SUBSET S : \A t \in SUBSET S : t \subseteq s /\ t # s => <<t, s>> \in smaller
  BY DEF StrictSubsetOrdering
<1>5. Bytes({}) = {}
  BY DEF Bytes
<1> HIDE DEF pick, smaller
<1>6. \A s \in SUBSET S : IsFiniteSet(Bytes(s))
  <2> DEFINE bad == {s \in SUBSET S : ~IsFiniteSet(Bytes(s))}
  <2> SUFFICES ASSUME bad # {}
               PROVE  FALSE
    OBVIOUS
  <2>1. PICK s \in bad : \A t \in bad : <<t, s>> \notin smaller
    BY <1>2, WFMin, Zenon
  <2>2. s # {}
    BY <1>5, <2>1, FS_EmptySet
  <2>3. s \ {pick(s)} \notin bad
    BY <1>3, <1>4, <2>1, <2>2
  <2>4. IsFiniteSet(Bytes(s))
    BY <1>3, <2>1, <2>2, <2>3, BytesOfOneMore
  <2> QED
    BY <2>1, <2>4
<1>7. \A s \in SUBSET S : s # {} => count[s] = BlobSize[pick(s)] + count[s \ {pick(s)}]
  <2> TAKE s \in SUBSET S
  <2> HAVE s # {}
  <2>1. pick(s) \in s /\ s \ {pick(s)} \in SUBSET S /\ s \in SUBSET Digest
    BY <1>3
  <2>2. Cardinality(Bytes(s)) = BlobSize[pick(s)] + Cardinality(Bytes(s \ {pick(s)}))
    BY <1>6, <2>1, BytesOfOneMore
  <2> QED
    BY <2>1, <2>2
<1>8. count[{}] = 0
  BY <1>5, FS_EmptySet
<1>9. Solves(count)
  BY <1>7, <1>8
<1>10. Solves(iter)
  BY <1>9, Zenon
<1> HIDE DEF iter
<1>11. \A s \in SUBSET S : iter[s] = IF s = {} THEN 0 ELSE BlobSize[pick(s)] + iter[s \ {pick(s)}]
  BY <1>10
<1>12. \A s \in SUBSET S : iter[s] = count[s]
  <2> DEFINE bad == {s \in SUBSET S : iter[s] # count[s]}
  <2> SUFFICES ASSUME bad # {}
               PROVE  FALSE
    OBVIOUS
  <2>1. PICK s \in bad : \A t \in bad : <<t, s>> \notin smaller
    BY <1>2, WFMin, Zenon
  <2>2. s # {}
    BY <1>8, <1>11, <2>1
  <2>3. s \ {pick(s)} \notin bad
    BY <1>3, <1>4, <2>1, <2>2
  <2>4. iter[s] = count[s]
    BY <1>7, <1>11, <2>1, <2>2, <2>3
  <2> QED
    BY <2>1, <2>4
<1>13. Total(S) = iter[S]
  BY Zenon DEF iter, pick, Total, MapThenSumSet, MapThenFoldSet
<1> QED
  BY <1>6, <1>12, <1>13

\* What the proofs about collections use of the size of a store.
LEMMA TotalProperties ==
  ASSUME NEW S \in SUBSET Digest
  PROVE  /\ Total(S) \in Nat
         /\ Total({}) = 0
         /\ \A R \in SUBSET S : Total(R) <= Total(S)
         /\ \A d \in S : Total(S) = BlobSize[d] + Total(S \ {d})
<1>1. IsFiniteSet(Bytes(S)) /\ Total(S) = Cardinality(Bytes(S))
  BY TotalIsBytes
<1>2. Total({}) = 0
  <2>1. Bytes({}) = {}
    BY DEF Bytes
  <2> QED
    BY <2>1, TotalIsBytes, FS_EmptySet
<1>3. ASSUME NEW R \in SUBSET S
      PROVE  Total(R) <= Total(S)
  <2>1. Bytes(R) \subseteq Bytes(S)
    BY DEF Bytes
  <2>2. Total(R) = Cardinality(Bytes(R))
    BY TotalIsBytes
  <2> QED
    BY <1>1, <2>1, <2>2, FS_Subset
<1>4. ASSUME NEW d \in S
      PROVE  Total(S) = BlobSize[d] + Total(S \ {d})
  <2>1. IsFiniteSet(Bytes(S \ {d})) /\ Total(S \ {d}) = Cardinality(Bytes(S \ {d}))
    BY TotalIsBytes
  <2> QED
    BY <1>1, <2>1, BytesOfOneMore
<1> QED
  BY <1>1, <1>2, <1>3, <1>4, FS_CardinalityType
-----------------------------------------------------------------------------
(* What a collection frees *)

Leased == {d \in blobs : exists(d)}

\* When a collection has freed what it needs, the blobs that still have a lease
\* are within the limit.
Accounted ==
    /\ limit \in Nat /\ need \in Int
    /\ gc = "clean" => Total(Leased) <= limit + need
    /\ gc = "collect" => Total(Leased) <= limit

\* As long as nothing goes wrong a lease holds its blob and has its labels, or the
\* goroutine that will do it is on the way; a lease is created before its blob is
\* stored; and a collection needs no more than the leases that are left can free.
Kept ==
    crashes = 0 /\ faults = 0 =>
        /\ \A d \in Digest : exists(d) =>
               /\ \/ lease[d].state = "held"
                  \/ \E u \in User : pc[u] = "resource" /\ arg[u] = d
               /\ \/ labelled(d)
                  \/ \E u \in User : pc[u] \in {"resource", "label"} /\ arg[u] = d
        /\ gc \in {"idle", "lock"} => \A d \in blobs : exists(d)
        /\ \A u \in User : pc[u] = "store" => exists(arg[u])
        /\ gc = "clean" => need = Total(Leased) - limit

LEMMA LimitIsNat == Limits \subseteq Nat
BY ThresholdAssumption DEF Limits, Limit, gcPercent

LEMMA InitKept == Init => Accounted /\ Kept
<1> SUFFICES ASSUME Init
             PROVE  Accounted /\ Kept
  OBVIOUS
<1>1. limit \in Nat
  BY LimitIsNat DEF Init, Limits
<1> QED
  BY <1>1 DEF Init, Accounted, Kept, NoLease, exists

\* Conversions leave the state of a collection alone.
LEMMA FlightKept ==
  ASSUME NEW u \in User, Convert(u)
  PROVE  UNCHANGED flight
BY DEF Convert, UpdateLease, Begin, End, ReaderAt, Commit, LeaseList, LeaseCreate,
       LeaseResource, LeaseLabel, LeaseFail, LeaseLabelFail, Store, StoreFail

LEMMA AccountedStep == Inv /\ Accounted /\ [Next]_vars => Accounted'
<1> SUFFICES ASSUME Inv, Accounted, [Next]_vars
             PROVE  Accounted'
  OBVIOUS
<1>1. blobs \subseteq Digest /\ lease \in [Digest -> Lease] /\ Leased \in SUBSET Digest
  BY DEF Inv, Typed, Leased
<1>2. CASE UNCHANGED vars
  BY <1>2 DEF vars, Accounted, Leased, exists
<1>3. ASSUME NEW u \in User, Convert(u)
      PROVE  Accounted'
  <2>1. pc[u] # "out" \/ gc = "idle"
    BY <1>3 DEF Convert, UpdateLease, Begin, End, ReaderAt, Commit, LeaseList, LeaseCreate,
                LeaseResource, LeaseLabel, LeaseFail, LeaseLabelFail, Store, StoreFail
  <2>2. gc \notin {"clean", "collect"}
    BY <2>1, Running
  <2>3. UNCHANGED flight
    BY <1>3, FlightKept
  <2> QED
    BY <2>2, <2>3 DEF flight, Accounted
<1>4. ASSUME NEW l \in Limits, GcStart(l)
      PROVE  Accounted'
  <2>1. l \in Nat
    BY LimitIsNat
  <2> QED
    BY <1>4, <2>1 DEF GcStart, Accounted
<1>5. CASE GcLock
  <2>1. Total(blobs) \in Nat /\ Total(Leased) <= Total(blobs)
    BY <1>1, TotalProperties DEF Leased
  <2>2. Total(Leased) \in Nat
    BY <1>1, TotalProperties
  <2>3. Leased' = Leased /\ gc' = "clean" /\ need' = Total(blobs) - limit /\ limit' = limit
    BY <1>5 DEF GcLock, Leased, exists
  <2> QED
    BY <2>1, <2>2, <2>3 DEF Accounted
<1>6. ASSUME NEW d \in Digest, CleanLease(d)
      PROVE  Accounted'
  <2>1. /\ gc = "clean" /\ gc' = "clean" /\ exists(d) /\ need' = need - Freed(d)
        /\ UNCHANGED <<blobs, limit>> /\ lease' = [lease EXCEPT ![d] = NoLease]
    BY <1>6 DEF CleanLease
  <2>2. Leased' = Leased \ {d}
    BY <1>1, <2>1 DEF Leased, exists, NoLease
  <2>3. Leased \ {d} \in SUBSET Digest
    BY <1>1
  <2>4. Total(Leased) \in Nat /\ Total(Leased \ {d}) \in Nat /\ BlobSize[d] \in Nat
    BY <1>1, <2>3, TotalProperties, BlobSizeAssumption
  <2>5. CASE d \in blobs
    <3>1. d \in Leased /\ Freed(d) = BlobSize[d]
      BY <2>1, <2>5 DEF Leased, Freed
    <3>2. Total(Leased) = BlobSize[d] + Total(Leased \ {d})
      BY <1>1, <3>1, TotalProperties
    <3> QED
      BY <2>1, <2>2, <2>4, <3>1, <3>2 DEF Accounted
  <2>6. CASE d \notin blobs
    <3>1. Leased \ {d} = Leased /\ Freed(d) = 0
      BY <2>6 DEF Leased, Freed
    <3>2. need' = need
      BY <2>1, <3>1 DEF Accounted
    <3>3. Total(Leased') = Total(Leased)
      BY <2>2, <3>1
    <3> QED
      BY <2>1, <3>2, <3>3 DEF Accounted
  <2> QED
    BY <2>5, <2>6
<1>7. CASE CleanDone
  <2>1. Total(Leased) \in Nat
    BY <1>1, TotalProperties
  <2>2. /\ gc = "clean" /\ need <= 0 /\ gc' = "collect"
        /\ Leased' = Leased /\ UNCHANGED <<limit, need>>
    BY <1>7 DEF CleanDone, Leased, exists
  <2> QED
    BY <2>1, <2>2 DEF Accounted
<1>8. CASE CleanPanic
  BY <1>8 DEF CleanPanic, Accounted
<1>9. CASE \/ \E d \in Digest : CleanFail(d)
           \/ CleanEmpty \/ Collect \/ CollectFail \/ Crash
  <2>1. gc' = "idle" /\ need' = 0 /\ limit' = limit
    BY <1>9 DEF CleanFail, CleanEmpty, Collect, CollectFail, Crash, gcReturn
  <2> QED
    BY <2>1 DEF Accounted
<1>10. CASE Restart
  <2>1. gc' = gc /\ need' = need /\ limit' = limit /\ gc = "idle"
    BY <1>10 DEF Restart, flight, Inv, Excluded
  <2> QED
    BY <2>1 DEF Accounted
<1> QED
  BY <1>2, <1>3, <1>4, <1>5, <1>6, <1>7, <1>8, <1>9, <1>10 DEF Next, GC

\* Conversions.
LEMMA ConvertKept ==
  ASSUME Inv, Kept, NEW u \in User, Convert(u)
  PROVE  Kept'
<1> SUFFICES ASSUME crashes' = 0, faults' = 0
             PROVE  Kept'
  BY DEF Kept
<1>1. /\ arg \in [User -> Digest] /\ pc \in [User -> {"out", "in"} \cup Working]
      /\ lease \in [Digest -> Lease] /\ blobs \subseteq Digest
      /\ arg[u] \in Digest
  BY DEF Inv, Typed
<1>2. /\ crashes' = crashes /\ UNCHANGED flight
      /\ faults' = faults \/ faults' = faults + 1
  BY DEF Convert, UpdateLease, Begin, End, ReaderAt, Commit, LeaseList, LeaseCreate,
         LeaseResource, LeaseLabel, LeaseFail, LeaseLabelFail, Store, StoreFail, Fault
<1>3. crashes = 0 /\ faults = 0 /\ faults' = faults
  BY <1>2 DEF Inv, Typed
<1>4. pc[u] # "out" \/ gc = "idle"
  BY DEF Convert, UpdateLease, Begin, End, ReaderAt, Commit, LeaseList, LeaseCreate,
         LeaseResource, LeaseLabel, LeaseFail, LeaseLabelFail, Store, StoreFail
<1>5. gc \in {"idle", "lock"} /\ gc' = gc
  BY <1>2, <1>4, Running DEF flight, Inv, Typed
<1>6. /\ \A d \in Digest : exists(d) =>
             /\ \/ lease[d].state = "held"
                \/ \E w \in User : pc[w] = "resource" /\ arg[w] = d
             /\ \/ labelled(d)
                \/ \E w \in User : pc[w] \in {"resource", "label"} /\ arg[w] = d
      /\ \A d \in blobs : exists(d)
      /\ \A w \in User : pc[w] = "store" => exists(arg[w])
  BY <1>3, <1>5 DEF Kept
<1>7. CASE Begin(u) \/ End(u)
  <2>1. PICK l \in {"in", "out"} :
           /\ pc' = [pc EXCEPT ![u] = l] /\ pc[u] \in {"in", "out"}
           /\ UNCHANGED <<lease, arg, blobs>>
    BY <1>7 DEF Begin, End, goto, calls
  <2> QED
    BY <1>1, <1>5, <1>6, <2>1 DEF Kept, exists, labelled
<1>8. ASSUME NEW d \in Digest, ReaderAt(u, d) \/ Commit(u, d)
      PROVE  Kept'
  <2>1. /\ pc' = [pc EXCEPT ![u] = "list"] /\ pc[u] = "in"
        /\ arg' = [arg EXCEPT ![u] = d]
        /\ UNCHANGED <<lease, blobs>>
    BY <1>8 DEF ReaderAt, Commit, goto
  <2> QED
    BY <1>1, <1>5, <1>6, <2>1 DEF Kept, exists, labelled
<1>9. CASE LeaseList(u)
  <2>1. PICK l \in {"label", "create"} :
           /\ pc' = [pc EXCEPT ![u] = l] /\ pc[u] = "list"
           /\ UNCHANGED <<lease, arg, blobs>>
    BY <1>9 DEF LeaseList, goto, calls
  <2> QED
    BY <1>1, <1>5, <1>6, <2>1 DEF Kept, exists, labelled
<1>10. CASE LeaseCreate(u) /\ exists(arg[u])
  <2>1. PICK l \in {"store", "in"} :
           /\ pc' = [pc EXCEPT ![u] = l] /\ pc[u] = "create"
           /\ UNCHANGED <<lease, arg, blobs>>
    BY <1>10 DEF LeaseCreate, Updated, goto, calls
  <2> QED
    BY <1>1, <1>5, <1>6, <1>10, <2>1 DEF Kept, exists, labelled
<1>11. CASE LeaseCreate(u) /\ ~exists(arg[u])
  <2>1. /\ pc' = [pc EXCEPT ![u] = "resource"] /\ pc[u] = "create"
        /\ lease' = [lease EXCEPT ![arg[u]].state = "bare"]
        /\ UNCHANGED <<arg, blobs>>
    BY <1>11 DEF LeaseCreate, goto, calls
  <2>2. \A d \in Digest : d # arg[u] => lease'[d] = lease[d]
    BY <1>1, <2>1
  <2>3. \A d \in Digest : exists(d) => lease'[d] = lease[d] /\ lease'[d].state # "none"
    BY <1>11, <2>2 DEF exists
  <2>4. lease'[arg[u]].state # "none"
    BY <1>1, <2>1 DEF Lease
  <2>5. pc'[u] = "resource" /\ \A w \in User : w # u => pc'[w] = pc[w]
    BY <1>1, <2>1
  <2> QED
    BY <1>1, <1>5, <1>6, <2>1, <2>2, <2>3, <2>4, <2>5 DEF Kept, exists, labelled
<1>12. CASE LeaseResource(u)
  <2>1. /\ pc' = [pc EXCEPT ![u] = "label"] /\ pc[u] = "resource"
        /\ lease' = [lease EXCEPT ![arg[u]].state = "held"]
        /\ UNCHANGED <<arg, blobs>>
    BY <1>12 DEF LeaseResource, goto, calls
  <2>2. \A d \in Digest : d # arg[u] => lease'[d] = lease[d]
    BY <1>1, <2>1
  <2>3. lease'[arg[u]].state = "held"
    BY <1>1, <2>1 DEF Lease
  <2>4. pc'[u] = "label" /\ \A w \in User : w # u => pc'[w] = pc[w]
    BY <1>1, <2>1
  <2> QED
    BY <1>1, <1>5, <1>6, <2>1, <2>2, <2>3, <2>4 DEF Kept, exists, labelled
<1>13. CASE LeaseLabel(u)
  <2>1. PICK l \in {"store", "in"} : pc' = [pc EXCEPT ![u] = l]
    BY <1>13 DEF LeaseLabel, Updated, goto
  <2>2. /\ pc[u] = "label" /\ UNCHANGED <<arg, blobs>>
        /\ lease' = [lease EXCEPT ![arg[u]] =
                        [state |-> @.state, count |-> @.count + 1, at |-> clock + 1]]
    BY <1>13 DEF LeaseLabel, calls
  <2>3. \A d \in Digest : d # arg[u] => lease'[d] = lease[d]
    BY <1>1, <2>2
  <2>4. /\ lease'[arg[u]].state = lease[arg[u]].state
        /\ lease'[arg[u]].count # 0
    <3>1. lease[arg[u]].count \in Nat
      BY <1>1 DEF Lease
    <3> QED
      BY <1>1, <2>2, <3>1
  <2>5. /\ \A w \in User : w # u => pc'[w] = pc[w]
        /\ pc'[u] \notin {"resource", "label"}
    BY <1>1, <2>1
  <2>6. exists(arg[u])
    BY <2>2 DEF Inv, Excluded
  <2>7. \A d \in Digest : exists(d)' <=> exists(d)
    BY <2>3, <2>4 DEF exists
  <2>8. \A d \in Digest : exists(d)' =>
             /\ \/ lease'[d].state = "held"
                \/ \E w \in User : pc'[w] = "resource" /\ arg'[w] = d
             /\ \/ labelled(d)'
                \/ \E w \in User : pc'[w] \in {"resource", "label"} /\ arg'[w] = d
    BY <1>6, <2>2, <2>3, <2>4, <2>5, <2>7 DEF labelled, exists
  <2>9. \A d \in blobs' : exists(d)'
    BY <1>1, <1>6, <2>2, <2>7
  <2>10. \A w \in User : pc'[w] = "store" => lease'[arg'[w]].state # "none"
    BY <1>1, <1>6, <2>2, <2>5, <2>6, <2>7 DEF exists
  <2> QED
    BY <1>5, <2>8, <2>9, <2>10 DEF Kept, exists
<1>14. CASE LeaseFail(u) \/ LeaseLabelFail(u) \/ StoreFail(u)
  <2>1. faults' = faults + 1
    BY <1>14 DEF LeaseFail, LeaseLabelFail, StoreFail, Fault
  <2> QED
    BY <1>3, <2>1
<1>15. CASE Store(u)
  <2>1. /\ pc' = [pc EXCEPT ![u] = "in"] /\ pc[u] = "store"
        /\ blobs' = blobs \cup {arg[u]}
        /\ UNCHANGED <<lease, arg>>
    BY <1>15 DEF Store, goto, calls
  <2> QED
    BY <1>1, <1>5, <1>6, <2>1 DEF Kept, exists, labelled
<1> QED
  BY <1>7, <1>8, <1>9, <1>10, <1>11, <1>12, <1>13, <1>14, <1>15 DEF Convert, UpdateLease

\* A collection that nothing disturbs has enough leases.
LEMMA LeasesLeft ==
  ASSUME Inv, Accounted, Kept, crashes = 0, faults = 0, gc = "clean", need > 0
  PROVE  lcSize # 0
<1> SUFFICES ASSUME lcSize = 0
             PROVE  FALSE
  OBVIOUS
<1>1. up
  BY DEF Inv, Down, Typed
<1>2. lcSize = Cardinality(Labelled)
  BY <1>1 DEF Inv, LeaseCacheSynced, Labelled
<1>3. Labelled = {}
  BY <1>2, Finite, FS_EmptySet DEF Labelled
<1>4. \A u \in User : pc[u] = "out"
  BY DEF Inv, Excluded
<1>5. \A d \in Digest : exists(d) => labelled(d)
  BY <1>4 DEF Kept
<1>6. Leased = {}
  BY <1>3, <1>5 DEF Leased, Labelled, Inv, Typed
<1>7. need = 0 - limit
  <2>1. Total({}) = 0
    BY TotalProperties
  <2> QED
    BY <1>6, <2>1 DEF Kept
<1>8. limit \in Nat
  BY DEF Accounted
<1> QED
  BY <1>7, <1>8

\* Nor does it come to a key that has no lease.
LEMMA LeaseFound ==
  ASSUME Inv, NEW d \in Digest, IsOldest(d)
  PROVE  exists(d)
BY DEF IsOldest, CachesIndex, Inv, CacheDriftBounded

LEMMA GCKept ==
  ASSUME Inv, Accounted, Kept, GC
  PROVE  Kept'
<1> SUFFICES ASSUME crashes' = 0, faults' = 0
             PROVE  Kept'
  BY DEF Kept
<1>1. /\ pc \in [User -> {"out", "in"} \cup Working]
      /\ lease \in [Digest -> Lease] /\ blobs \subseteq Digest
  BY DEF Inv, Typed
<1>2. /\ crashes' = crashes /\ UNCHANGED <<pc, arg>>
      /\ faults' = faults \/ faults' = faults + 1
  BY DEF GC, GcStart, GcLock, CleanLease, CleanFail, CleanEmpty, CleanPanic, CleanDone,
         Collect, CollectFail, Fault, calls
<1>3. crashes = 0 /\ faults = 0 /\ faults' = faults
  BY <1>2 DEF Inv, Typed
<1>4. /\ \A d \in Digest : exists(d) =>
             /\ \/ lease[d].state = "held"
                \/ \E w \in User : pc[w] = "resource" /\ arg[w] = d
             /\ \/ labelled(d)
                \/ \E w \in User : pc[w] \in {"resource", "label"} /\ arg[w] = d
      /\ gc \in {"idle", "lock"} => \A d \in blobs : exists(d)
      /\ \A w \in User : pc[w] = "store" => exists(arg[w])
      /\ gc = "clean" => need = Total(Leased) - limit
  BY <1>3 DEF Kept
<1>5. CASE \E l \in Limits : GcStart(l)
  <2>1. gc = "idle" /\ gc' = "lock" /\ UNCHANGED <<blobs, lease>>
    BY <1>5 DEF GcStart
  <2> QED
    BY <1>2, <1>4, <2>1 DEF Kept, exists, labelled
<1>6. CASE GcLock
  <2>1. /\ gc = "lock" /\ gc' = "clean" /\ need' = Total(blobs) - limit
        /\ UNCHANGED <<blobs, lease, limit>>
    BY <1>6 DEF GcLock
  <2>2. Leased' = blobs
    BY <1>4, <2>1 DEF Leased, exists
  <2> QED
    BY <1>2, <1>4, <2>1, <2>2 DEF Kept, exists, labelled
<1>7. ASSUME NEW d \in Digest, CleanLease(d)
      PROVE  Kept'
  <2>1. /\ gc = "clean" /\ gc' = "clean" /\ exists(d) /\ need' = need - Freed(d)
        /\ UNCHANGED <<blobs, limit>> /\ lease' = [lease EXCEPT ![d] = NoLease]
    BY <1>7 DEF CleanLease
  <2>2. Leased' = Leased \ {d} /\ Leased \in SUBSET Digest /\ Leased \ {d} \in SUBSET Digest
    BY <1>1, <2>1 DEF Leased, exists, NoLease
  <2>3. /\ Total(Leased) \in Nat /\ Total(Leased \ {d}) \in Nat /\ BlobSize[d] \in Nat
        /\ limit \in Int
    BY <2>2, TotalProperties, BlobSizeAssumption DEF Accounted
  <2>4. Total(Leased \ {d}) = Total(Leased) - Freed(d)
    <3>1. CASE d \in blobs
      <4>1. d \in Leased /\ Freed(d) = BlobSize[d]
        BY <2>1, <3>1 DEF Leased, Freed
      <4>2. Total(Leased) = BlobSize[d] + Total(Leased \ {d})
        BY <2>2, <4>1, TotalProperties
      <4> QED
        BY <2>3, <4>1, <4>2
    <3>2. CASE d \notin blobs
      <4>1. Leased \ {d} = Leased /\ Freed(d) = 0
        BY <3>2 DEF Leased, Freed
      <4> QED
        BY <2>3, <4>1
    <3> QED
      BY <3>1, <3>2
  <2>5. Freed(d) \in Int
    BY <2>3 DEF Freed
  <2>6. need' = Total(Leased') - limit'
    <3>1. need = Total(Leased) - limit
      BY <1>4, <2>1
    <3>2. need' = (Total(Leased) - limit) - Freed(d)
      BY <2>1, <3>1
    <3>3. Total(Leased)' = Total(Leased) - Freed(d)
      BY <2>2, <2>4
    <3> QED
      BY <2>1, <2>3, <2>5, <3>2, <3>3
  <2>7. \A w \in User : pc[w] = "out"
    BY <2>1 DEF Inv, Excluded
  <2>8. \A e \in Digest : exists(e)' => exists(e) /\ lease'[e] = lease[e]
    BY <1>1, <2>1 DEF exists, NoLease
  <2> QED
    BY <1>2, <1>4, <2>1, <2>6, <2>7, <2>8 DEF Kept, exists, labelled
<1>8. ASSUME NEW d \in Digest, CleanFail(d)
      PROVE  Kept'
  <2>1. exists(d)
    BY <1>8, LeaseFound DEF CleanFail
  <2>2. faults' = faults + 1
    BY <1>8, <2>1 DEF CleanFail, Fault
  <2> QED
    BY <1>3, <2>2
<1>9. CASE CleanEmpty
  BY <1>3, <1>9, LeasesLeft DEF CleanEmpty
<1>10. CASE CleanPanic \/ CleanDone
  <2>1. gc' \in {"panic", "collect"} /\ UNCHANGED <<blobs, lease>>
    BY <1>10 DEF CleanPanic, CleanDone
  <2> QED
    BY <1>2, <1>4, <2>1 DEF Kept, exists, labelled
<1>11. CASE Collect
  <2>1. gc' = "idle" /\ lease' = lease /\ blobs' = {d \in blobs : lease[d].state = "held"}
    BY <1>11 DEF Collect, gcReturn
  <2> QED
    BY <1>1, <1>2, <1>4, <2>1 DEF Kept, exists, labelled
<1>12. CASE CollectFail
  <2>1. faults' = faults + 1
    BY <1>12 DEF CollectFail, Fault
  <2> QED
    BY <1>3, <2>1
<1> QED
  BY <1>5, <1>6, <1>7, <1>8, <1>9, <1>10, <1>11, <1>12 DEF GC

LEMMA KeptStep == Inv /\ Accounted /\ Kept /\ [Next]_vars => Kept'
<1> SUFFICES ASSUME Inv, Accounted, Kept, [Next]_vars
             PROVE  Kept'
  OBVIOUS
<1>1. CASE UNCHANGED vars
  BY <1>1 DEF vars, Kept, Leased, exists, labelled
<1>2. CASE Crash
  <2>1. crashes' # 0
    BY <1>2 DEF Crash, Inv, Typed
  <2> QED
    BY <2>1 DEF Kept
<1>3. CASE Restart
  <2>1. crashes' # 0
    BY <1>3 DEF Restart, Inv, Typed, Down
  <2> QED
    BY <2>1 DEF Kept
<1> QED
  BY <1>1, <1>2, <1>3, ConvertKept, GCKept DEF Next

LEMMA KeptInvariant == Spec => [](Accounted /\ Kept)
BY InitInv, StepInv, InitKept, AccountedStep, KeptStep, PTL DEF Spec

\* db.GarbageCollect, once cleanLeases is done.
LEMMA CollectFrees ==
  ASSUME Inv, Accounted, Collect
  PROVE  Total(blobs') <= limit
<1>1. Leased \in SUBSET Digest
  BY DEF Leased, Inv, Typed
<1>2. blobs' \in SUBSET Leased
  BY DEF Collect, Leased, exists
<1>3. Total(blobs') \in Nat /\ Total(Leased) \in Nat /\ Total(blobs') <= Total(Leased)
  BY <1>1, <1>2, TotalProperties
<1>4. Total(Leased) <= limit /\ limit \in Nat
  BY DEF Accounted, Collect
<1> QED
  BY <1>3, <1>4

\* "All resources(blobs) which are stored locally are held by leases at all times":
\* until the daemon dies or a transaction fails, whichever goroutines raced to
\* create a lease, and whatever was collected.
THEOREM BlobsAreHeld == Spec => [](crashes = 0 /\ faults = 0 => BlobsHeld)
<1>1. Inv /\ Kept => (crashes = 0 /\ faults = 0 => BlobsHeld)
  BY DEF Kept, BlobsHeld, Working, Inv, Typed
<1> QED
  BY <1>1, Invariant, KeptInvariant, PTL

\* A collection that deletes blobs brings the store below the limit, whatever
\* crashes and failures came before it.
THEOREM CollectionIsEnough == Spec => CollectReachesLimit
<1>1. ASSUME Inv, Accounted, [Next]_vars, gcEnds, gc = "collect", faults' = faults
      PROVE  Total(blobs') <= limit
  <2>1. faults + 1 # faults /\ gc' = "idle" /\ up'
    BY <1>1 DEF Inv, Typed, gcEnds
  <2>2. CASE Collect
    BY <1>1, <2>2, CollectFrees
  <2>3. ~Crash /\ ~CollectFail
    BY <1>1, <2>1 DEF Crash, CollectFail, Fault
  <2>4. ASSUME NEW u \in User, Convert(u)
        PROVE  FALSE
    BY <1>1, <2>1, <2>4, FlightKept DEF flight
  <2>5. ~UNCHANGED vars /\ ~Restart
    BY <1>1, <2>1 DEF vars, Restart, flight
  <2>6. GC => Collect
    BY <1>1, <2>1, <2>3
       DEF GC, GcStart, GcLock, CleanLease, CleanFail, CleanEmpty, CleanPanic, CleanDone
  <2> QED
    BY <1>1, <2>2, <2>3, <2>4, <2>5, <2>6 DEF Next
<1>2. Inv /\ Accounted /\ [Next]_vars
        => [gcEnds /\ gc = "collect" /\ faults' = faults => Total(blobs') <= limit]_vars
  BY <1>1
<1> QED
  BY <1>2, Invariant, KeptInvariant, PTL DEF Spec, CollectReachesLimit

\* "GC clears the blobs until local storage size below 80% of the threshold": in a
\* daemon that never dies and whose transactions succeed, every collection ends
\* below its limit, as the leases that are left can always free enough.
THEOREM CollectionClears ==
  ASSUME MaxCrash = 0, MaxFault = 0
  PROVE  Spec => GcClears
<1>1. ASSUME Inv, Accounted, Kept, [Next]_vars, gcEnds
      PROVE  Total(blobs') <= limit
  <2>1. crashes = 0 /\ faults = 0 /\ ~Fault
    BY <1>1 DEF Inv, Typed, Fault
  <2>2. gc # "idle" /\ gc' = "idle" /\ up'
    BY <1>1 DEF gcEnds
  <2>3. CASE Collect
    BY <1>1, <2>3, CollectFrees
  <2>4. ~CleanEmpty /\ ~CollectFail /\ ~Crash
    BY <1>1, <2>1, <2>2, LeasesLeft DEF CleanEmpty, CollectFail, Crash
  <2>5. \A d \in Digest : ~CleanFail(d)
    BY <1>1, <2>1, LeaseFound DEF CleanFail
  <2>6. ASSUME NEW u \in User, Convert(u)
        PROVE  FALSE
    BY <2>2, <2>6, FlightKept DEF flight
  <2>7. ~UNCHANGED vars /\ ~Restart
    BY <2>2 DEF vars, Restart, flight
  <2>8. GC => Collect
    BY <2>2, <2>4, <2>5
       DEF GC, GcStart, GcLock, CleanLease, CleanPanic, CleanDone
  <2> QED
    BY <1>1, <2>3, <2>4, <2>6, <2>7, <2>8 DEF Next
<1>2. Inv /\ Accounted /\ Kept /\ [Next]_vars => [gcEnds => Total(blobs') <= limit]_vars
  BY <1>1
<1> QED
  BY <1>2, Invariant, KeptInvariant, PTL DEF Spec, GcClears

-----------------------------------------------------------------------------
(* Types *)

\* No two labelled leases have the same usedat, and none is of the future: the
\* places that leaseCache.Init gives do not grow past the clock.
Dated ==
    \A d \in Digest : labelled(d) =>
        /\ lease[d].at \in 1..clock
        /\ \A e \in Digest : labelled(e) /\ lease[e].at = lease[d].at => e = d

\* Steps that label no lease.
LEMMA DatesKept ==
  ASSUME Typed, Typed', Dated, clock' >= clock,
         \A d \in Digest : labelled(d)' => labelled(d) /\ lease'[d].at = lease[d].at
  PROVE  Dated'
<1>1. clock \in Nat /\ clock' \in Nat
  BY DEF Typed
<1> SUFFICES ASSUME NEW d \in Digest, labelled(d)'
             PROVE  /\ lease'[d].at \in 1..clock'
                    /\ \A e \in Digest : labelled(e)' /\ lease'[e].at = lease'[d].at => e = d
  BY DEF Dated
<1>2. lease'[d].at \in 1..clock
  BY DEF Dated
<1>3. \A e \in Digest : labelled(e)' /\ lease'[e].at = lease'[d].at => e = d
  BY Zenon DEF Dated
<1> QED
  BY <1>1, <1>2, <1>3

LEMMA LoadedInPlace ==
  ASSUME Inv, Dated, \A d \in Digest : exists(d) => lease[d].count # 0
  PROVE  Loaded \in [Counts -> [Digest -> 0..MaxClock]]
<1>1. clock \in 0..MaxClock /\ MaxClock \in Nat
  BY BoundAssumption DEF Inv, Typed
<1>2. ASSUME NEW d \in Digest
      PROVE  Cardinality({e \in Digest : exists(e) /\ lease[e].at >= lease[d].at})
                 \in 0..MaxClock
  <2> DEFINE S == {e \in Digest : exists(e) /\ lease[e].at >= lease[d].at}
             f == [e \in S |-> lease[e].at]
  <2>1. \A e \in S : labelled(e)
    BY DEF labelled
  <2>2. f \in Injection(S, 1..clock)
    BY <2>1 DEF Dated, Injection, IsInjective
  <2>3. IsFiniteSet(1..clock) /\ Cardinality(1..clock) = clock
    BY <1>1, FS_Interval
  <2>4. Cardinality(S) <= clock
    BY <2>2, <2>3, FS_Injection
  <2>5. Cardinality(S) \in Nat
    BY Finite
  <2> HIDE DEF S
  <2> QED
    BY <1>1, <2>4, <2>5 DEF S
<1>3. 0 \in 0..MaxClock
  BY <1>1
<1> QED
  BY <1>2, <1>3 DEF Loaded

LEMMA TypeStep ==
  ASSUME Inv, Accounted, TypeOK, Dated, [Next]_vars
  PROVE  TypeOK' /\ Dated'
<1>1. Typed /\ Typed' /\ need' \in Int
  BY StepInv, AccountedStep DEF Inv, Accounted
<1>2. clock \in Nat /\ MaxClock \in Nat
  BY <1>1, BoundAssumption DEF Typed
<1>3. up' \in BOOLEAN /\ op' \in [User -> {"read", "commit"}] /\ limit' \in Limits
  <2>1. CASE \E u \in User : Convert(u)
    BY <2>1 DEF TypeOK, Convert, Begin, End, ReaderAt, Commit, UpdateLease, LeaseList,
       LeaseCreate, LeaseResource, LeaseLabel, LeaseFail, LeaseLabelFail, Store,
       StoreFail, calls, flight
  <2>2. CASE GC
    BY <2>2 DEF TypeOK, GC, GcStart, GcLock, CleanLease, CleanFail, CleanEmpty,
       CleanPanic, CleanDone, Collect, CollectFail, gcReturn, calls, flight
  <2>3. CASE Crash \/ Restart \/ UNCHANGED vars
    BY <2>3 DEF TypeOK, Crash, Restart, vars, gcReturn, calls, flight
  <2> QED
    BY <2>1, <2>2, <2>3 DEF Next
<1>4. lc' \in [Counts -> [Digest -> 0..MaxClock]]
  <2>1. CASE UNCHANGED lc
    BY <2>1 DEF TypeOK
  <2>2. ASSUME NEW d \in Digest, NEW n, Add(d, n), clock < MaxClock
        PROVE  lc' \in [Counts -> [Digest -> 0..MaxClock]]
    BY <1>2, <2>2 DEF TypeOK, Add
  <2>3. ASSUME NEW d \in Digest, lc' = Without(d)
        PROVE  lc' \in [Counts -> [Digest -> 0..MaxClock]]
    BY <1>2, <2>3 DEF TypeOK, Without
  <2>4. CASE Crash
    BY <1>2, <2>4 DEF Crash, EmptyCache
  <2>5. CASE Restart
    BY <2>5, LoadedInPlace DEF Restart
  <2>6. ASSUME NEW u \in User, LeaseLabel(u) \/ LeaseLabelFail(u)
        PROVE  lc' \in [Counts -> [Digest -> 0..MaxClock]]
    <3>1. arg[u] \in Digest
      BY <1>1 DEF Typed
    <3>2. clock < MaxClock /\ Add(arg[u], lease[arg[u]].count + 1)
      BY <2>6 DEF LeaseLabel, LeaseLabelFail
    <3> QED
      BY <2>2, <3>1, <3>2
  <2>7. ASSUME NEW u \in User, Convert(u), ~LeaseLabel(u), ~LeaseLabelFail(u)
        PROVE  UNCHANGED lc
    BY <2>7 DEF Convert, Begin, End, ReaderAt, Commit, UpdateLease, LeaseList,
       LeaseCreate, LeaseResource, LeaseFail, Store, StoreFail, cache
  <2>8. CASE GC
    <3>1. UNCHANGED lc \/ \E d \in Digest : lc' = Without(d)
      BY <2>8 DEF GC, GcStart, GcLock, CleanLease, CleanFail, CleanEmpty,
         CleanPanic, CleanDone, Collect, CollectFail, cache
    <3> QED
      BY <2>1, <2>3, <3>1
  <2> QED
    BY <2>1, <2>4, <2>5, <2>6, <2>7, <2>8 DEF Next, vars
<1>5. Dated'
  <2>1. ASSUME NEW u \in User, LeaseLabel(u)
        PROVE  Dated'
    <3>1. PICK d \in Digest : d = arg[u]
      BY <1>1 DEF Typed
    <3>2. /\ clock' = clock + 1
          /\ lease' = [lease EXCEPT ![d] = [state |-> @.state, count |-> @.count + 1,
                                            at |-> clock + 1]]
      BY <2>1, <3>1 DEF LeaseLabel
    <3>3. /\ lease'[d].at = clock + 1
          /\ \A e \in Digest \ {d} : lease'[e] = lease[e]
      BY <1>1, <3>2 DEF Typed
    <3>4. \A e \in Digest \ {d} : labelled(e)' => labelled(e) /\ lease'[e].at = lease[e].at
      BY <3>3 DEF labelled, exists
    <3> SUFFICES ASSUME NEW e \in Digest, labelled(e)'
                 PROVE  /\ lease'[e].at \in 1..clock'
                        /\ \A g \in Digest :
                              labelled(g)' /\ lease'[g].at = lease'[e].at => g = e
      BY DEF Dated
    <3>5. \A g \in Digest \ {d} : labelled(g)' => lease'[g].at \in 1..clock
      BY <3>4 DEF Dated
    <3>6. \A g \in Digest \ {d} : labelled(g)' => lease'[g].at # clock + 1
      BY <1>2, <3>5
    <3>7. CASE e = d
      BY <1>2, <3>2, <3>3, <3>6, <3>7
    <3>8. CASE e # d
      <4>1. lease'[e].at \in 1..clock'
        BY <1>2, <3>2, <3>5, <3>8
      <4>2. ASSUME NEW g \in Digest, labelled(g)', lease'[g].at = lease'[e].at
            PROVE  g = e
        <5>1. g # d
          BY <3>3, <3>6, <3>8, <4>2
        <5> QED
          BY <3>4, <3>8, <4>2, <5>1 DEF Dated
      <4> QED
        BY <4>1, <4>2
    <3> QED
      BY <3>7, <3>8
  <2>2. ASSUME NEW u \in User, Convert(u), ~LeaseLabel(u)
        PROVE  /\ clock' >= clock
               /\ \A d \in Digest : labelled(d)' => labelled(d) /\ lease'[d].at = lease[d].at
    <3>1. CASE LeaseCreate(u) \/ LeaseResource(u)
      <4>1. clock' = clock
        BY <3>1 DEF LeaseCreate, LeaseResource
      <4>2. \A d \in Digest :
               /\ lease'[d].count = lease[d].count /\ lease'[d].at = lease[d].at
               /\ lease'[d].state = lease[d].state \/ lease[d].count = 0 \/ exists(d)
        <5>1. CASE LeaseCreate(u)
          <6>1. \A d \in Digest : ~exists(d) => lease[d].count = 0
            <7>1. NoLease.count = 0
              BY DEF NoLease
            <7> QED
              BY <7>1, Zenon DEF Inv, Labels
          <6> QED
            BY SMTT(30), <1>1, <5>1, <6>1 DEF LeaseCreate, Typed, Lease, exists
        <5>2. CASE LeaseResource(u)
          <6>1. exists(arg[u])
            BY <5>2 DEF LeaseResource, Inv, Excluded
          <6> QED
            BY <1>1, <5>2, <6>1 DEF LeaseResource, Typed, Lease
        <5> QED
          BY <3>1, <5>1, <5>2
      <4> QED
        BY <1>2, <4>1, <4>2 DEF labelled, exists
    <3>2. CASE ~LeaseCreate(u) /\ ~LeaseResource(u)
      <4>1. lease' = lease /\ (clock' = clock \/ clock' = clock + 1)
        BY <2>2, <3>2 DEF Convert, Begin, End, ReaderAt, Commit, UpdateLease, LeaseList,
           LeaseFail, LeaseLabelFail, Store, StoreFail
      <4> QED
        BY <1>2, <4>1 DEF labelled, exists
    <3> QED
      BY <3>1, <3>2
  <2>3. CASE GC \/ Crash \/ Restart \/ UNCHANGED vars
    <3>1. /\ clock' = clock
          /\ lease' = lease \/ \E d \in Digest : lease' = [lease EXCEPT ![d] = NoLease]
      BY <2>3 DEF GC, GcStart, GcLock, CleanLease, CleanFail, CleanEmpty, CleanPanic,
         CleanDone, Collect, CollectFail, Crash, Restart, vars
    <3>2. \A d \in Digest : labelled(d)' => labelled(d) /\ lease'[d].at = lease[d].at
      <4>1. CASE lease' = lease
        BY <4>1 DEF labelled, exists
      <4>2. ASSUME NEW e \in Digest, lease' = [lease EXCEPT ![e] = NoLease]
            PROVE  \A d \in Digest :
                      labelled(d)' => labelled(d) /\ lease'[d].at = lease[d].at
        <5>1. lease'[e].state = "none" /\ \A d \in Digest \ {e} : lease'[d] = lease[d]
          BY <1>1, <4>2 DEF Typed, NoLease
        <5> QED
          BY <5>1 DEF labelled, exists
      <4> QED
        BY <3>1, <4>1, <4>2
    <3> QED
      BY <1>1, <1>2, <3>1, <3>2, DatesKept
  <2> QED
    BY <1>1, <2>1, <2>2, <2>3, DatesKept DEF Next
<1> QED
  BY <1>1, <1>3, <1>4, <1>5 DEF TypeOK, Typed

\* Content is well typed; in particular the places that leaseCache.Init gives to
\* the leases it finds are no later than the present, so that what is used from
\* then on comes after them.
THEOREM TypeCorrect == Spec => []TypeOK
<1>1. Init => TypeOK /\ Dated
  BY BoundAssumption
     DEF Init, TypeOK, Dated, labelled, exists, Lease, NoLease, EmptyCache, Working, Limits
<1> QED
  BY <1>1, TypeStep, Invariant, KeptInvariant, PTL DEF Spec

=============================================================================
