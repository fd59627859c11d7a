--------------------------- MODULE RemoteCacheProofs ---------------------------
(***************************************************************************)
(* That RemoteCache is type correct, that what the conversions make of the   *)
(* shared cache is bounded and has no copies, that a conversion leaves its   *)
(* layers in the cache it pushes and takes nothing from the one it found:    *)
(* for any images, layers, platforms and any number of conversions.         *)
(***************************************************************************)
EXTENDS RemoteCache, SelectionProofs

\* The manifests of the images of the conversions.
SourceManifest == UNION {Range(Image[c].manifests) : c \in Conversion}

\* A manifest that conversions can have made: as CacheBounded and
\* CachedAsOftenAsUsed have it of the one cache that the registry has.
Sound(m) ==
    /\ \/ Len(m.layers) <= Size
       \/ \E s \in SourceManifest : Len(m.layers) <= Len(s.layers)
    /\ \A e \in Range(m.layers) : \E s \in SourceManifest :
           Count(m.layers, e) <= Count(s.layers, e[1])

SoundCache(cache) ==
    /\ cache.kind = "manifest" => Len(cache.manifests) = 1
    /\ \A m \in Range(cache.manifests) : Sound(m)

\* What is in the registry, what a conversion merges into, all that it has
\* still to push.
CachesSound ==
    /\ SoundCache(registry)
    /\ \A c \in Conversion :
           /\ SoundCache(merged[c])
           /\ \A i \in DOMAIN toPush[c] : SoundCache(toPush[c][i])

\* A conversion has a record of all it converted; what it pushes last has all
\* its layers and what it found.
Merges ==
    \A c \in Conversion :
        /\ pc[c] = "converted" => \A l \in SourceLayers(c) : records[c][l] # None
        /\ pc[c] = "pushing" =>
               LET last == Last(toPush[c])
               IN  /\ CachesImage(last, c)
                   /\ merged[c].kind = last.kind => KeepsLowerLayers(merged[c], last)

CacheInv == TypeOK /\ CachesSound /\ Merges

-----------------------------------------------------------------------------
(* Sequences of layers *)

LEMMA SomePlaces ==
  ASSUME NEW T, NEW s \in Seq(T), NEW e
  PROVE  IsFiniteSet({i \in DOMAIN s : s[i] = e})
<1>1. IsFiniteSet(1..Len(s))
  BY FS_Interval
<1>2. {i \in DOMAIN s : s[i] = e} \in SUBSET (1..Len(s))
  OBVIOUS
<1> QED
  BY <1>1, <1>2, FS_Subset, Zenon

\* getTargetLayers: a target for a layer at most as often as the layer is there,
\* and one for every layer with a record.
LEMMA TargetLayersMade ==
  ASSUME NEW layers \in Seq(Layer), NEW r \in [Layer -> Version \cup {None}]
  PROVE  LET made == TargetLayers(layers, r)
         IN  /\ made \in Seq(Layer \X Version)
             /\ Len(made) <= Len(layers)
             /\ \A e \in Range(made) : Count(made, e) <= Count(layers, e[1])
             /\ (\A l \in Range(layers) : r[l] # None) =>
                    \A l \in Range(layers) : \E e \in Range(made) : e[1] = l
<1> DEFINE some == {l \in Layer : r[l] # None}
           known == Keep(layers, some)
           made == TargetLayers(layers, r)
<1>1. known \in Seq(Layer) /\ Range(known) = Range(layers) \cap some
  BY KeepPlaces, KeepElements
<1>2. made = [i \in DOMAIN known |-> <<known[i], r[known[i]]>>]
  BY DEF TargetLayers
<1>3. \A e : Count(known, e) <= Count(layers, e)
  BY KeepCount
<1>4. Len(known) <= Len(layers)
  BY KeepCount
<1> HIDE DEF known, made
<1>5. \A i \in DOMAIN known : known[i] \in Layer /\ r[known[i]] \in Version
  <2> TAKE i \in DOMAIN known
  <2>1. known[i] \in Range(known)
    BY DEF Range
  <2> QED
    BY <1>1, <2>1
<1>6. made \in Seq(Layer \X Version) /\ DOMAIN made = DOMAIN known /\ Len(made) = Len(known)
  <2>1. DOMAIN known = 1..Len(known) /\ Len(known) \in Nat
    BY <1>1
  <2> QED
    BY <1>2, <1>5, <2>1
<1>7. ASSUME NEW e \in Range(made)
      PROVE  Count(made, e) <= Count(layers, e[1])
  <2> DEFINE A == {i \in DOMAIN made : made[i] = e}
             B == {i \in DOMAIN known : known[i] = e[1]}
  <2>1. A \in SUBSET B
    BY <1>2, <1>6
  <2>2. IsFiniteSet(B)
    BY <1>1, SomePlaces, Zenon
  <2>3. Cardinality(A) <= Cardinality(B) /\ IsFiniteSet(A)
    <3> HIDE DEF A, B
    <3> QED
      BY <2>1, <2>2, FS_Subset
  <2>4. Cardinality(B) <= Cardinality({i \in DOMAIN layers : layers[i] = e[1]})
    BY <1>3, Zenon DEF Count
  <2>5. IsFiniteSet({i \in DOMAIN layers : layers[i] = e[1]})
    BY SomePlaces, Zenon
  <2>6. /\ Cardinality(A) \in Nat /\ Cardinality(B) \in Nat
        /\ Cardinality({i \in DOMAIN layers : layers[i] = e[1]}) \in Nat
    <3> HIDE DEF A, B
    <3> QED
      BY <2>2, <2>3, <2>5, FS_CardinalityType
  <2>7. Cardinality(A) <= Cardinality({i \in DOMAIN layers : layers[i] = e[1]})
    <3> HIDE DEF A, B
    <3> QED
      BY <2>3, <2>4, <2>6
  <2> QED
    BY <2>7 DEF Count
<1>8. ASSUME \A l \in Range(layers) : r[l] # None, NEW l \in Range(layers)
      PROVE  \E e \in Range(made) : e[1] = l
  <2>1. l \in Range(known)
    BY <1>1, <1>8 DEF Range
  <2>2. PICK i \in DOMAIN known : known[i] = l
    BY <2>1 DEF Range
  <2>3. made[i] \in Range(made) /\ made[i][1] = l
    BY <1>2, <1>6, <2>2 DEF Range
  <2> QED
    BY <2>3
<1> QED
  BY <1>4, <1>6, <1>7, <1>8 DEF made

\* appendLayers: what was there first, what is new after it, no more than size.
LEMMA AppendLayersMade ==
  ASSUME NEW T, NEW org \in Seq(T), NEW new \in Seq(T)
  PROVE  LET made == AppendLayers(org, new)
         IN  /\ made \in Seq(T)
             /\ Len(made) <= Size
             /\ IsPrefix(SubSeq(org, 1, Min({Size, Len(org)})), made)
             /\ \A e \in Range(made) :
                    \/ e \in Range(org) /\ Count(made, e) <= Count(org, e)
                    \/ e \in Range(new) /\ Count(made, e) <= Count(new, e)
             /\ \/ Len(made) >= Size
                \/ Range(org) \cup Range(new) \subseteq Range(made)
<1> DEFINE other == Range(new) \ Range(org)
           kept == Keep(new, other)
           all == org \o kept
           made == AppendLayers(org, new)
           n == Min({Size, Len(all)})
<1>1. kept \in Seq(T) /\ Range(kept) = other
  BY KeepPlaces, KeepElements
<1>2. \A e : Count(kept, e) <= Count(new, e)
  BY KeepCount
<1>3. made = SubSeq(all, 1, n)
  BY DEF AppendLayers
<1> HIDE DEF kept, made
<1>4. /\ all \in Seq(T) /\ Len(all) = Len(org) + Len(kept)
      /\ Len(org) \in Nat /\ Len(kept) \in Nat
      /\ \A i \in 1..Len(org) : all[i] = org[i]
      /\ \A i \in 1..Len(kept) : all[Len(org) + i] = kept[i]
  BY <1>1
<1> HIDE DEF all
<1>5. /\ n = IF Size <= Len(all) THEN Size ELSE Len(all)
      /\ n \in Nat /\ n <= Size /\ n <= Len(all)
  <2>1. Size \in Nat /\ Len(all) \in Nat
    BY <1>4, BoundAssumption
  <2> QED
    BY <2>1, MinOfTwo
<1> HIDE DEF n
<1>6. made \in Seq(T) /\ Len(made) = n /\ \A i \in 1..n : made[i] = all[i]
  BY <1>3, <1>4, <1>5
<1>7. IsPrefix(SubSeq(org, 1, Min({Size, Len(org)})), made)
  <2> DEFINE k == Min({Size, Len(org)})
  <2>1. /\ k = IF Size <= Len(org) THEN Size ELSE Len(org)
        /\ Size \in Nat
    BY <1>4, BoundAssumption, MinOfTwo
  <2> HIDE DEF k
  <2>2. k \in Nat /\ k <= n /\ k <= Len(org)
    BY <1>4, <1>5, <2>1
  <2> DEFINE p == SubSeq(org, 1, k)
  <2>3. p \in Seq(T) /\ Len(p) = k /\ \A i \in 1..k : p[i] = org[i]
    BY <2>2
  <2> HIDE DEF p
  <2>4. \A i \in 1..k : p[i] = made[i]
    <3> TAKE i \in 1..k
    <3>1. i \in 1..n /\ i \in 1..Len(org)
      BY <1>4, <1>5, <2>2
    <3> QED
      BY <1>4, <1>6, <2>3, <3>1
  <2>5. SubSeq(p, 1, k) = SubSeq(made, 1, k)
    BY <1>6, <2>2, <2>3, <2>4
  <2>6. IsPrefix(p, made)
    BY <1>6, <2>2, <2>3, <2>5 DEF IsPrefix
  <2> QED
    BY <2>6 DEF p, k
<1>8. ASSUME NEW e \in Range(made)
      PROVE  \/ e \in Range(org) /\ Count(made, e) <= Count(org, e)
             \/ e \in Range(new) /\ Count(made, e) <= Count(new, e)
  <2> DEFINE A == {i \in DOMAIN made : made[i] = e}
             O == {i \in DOMAIN org : org[i] = e}
             K == {i \in DOMAIN kept : kept[i] = e}
             N == {i \in DOMAIN new : new[i] = e}
  <2>1. IsFiniteSet(O) /\ IsFiniteSet(K) /\ IsFiniteSet(N)
    BY <1>1, SomePlaces, Zenon
  <2>2. /\ DOMAIN made = 1..n /\ DOMAIN org = 1..Len(org) /\ DOMAIN kept = 1..Len(kept)
    BY <1>1, <1>6
  <2>3. CASE e \in Range(org)
    <3>1. \A i \in DOMAIN kept : kept[i] # e
      BY <1>1, <2>3 DEF Range
    <3>2. ASSUME NEW i \in A
          PROVE  i \in O
      <4>1. i \in 1..Len(all) /\ all[i] = e
        BY <1>4, <1>5, <1>6, <2>2
      <4>2. CASE i <= Len(org)
        BY <1>4, <2>2, <4>1, <4>2
      <4>3. CASE i > Len(org)
        <5>1. i - Len(org) \in 1..Len(kept) /\ i = Len(org) + (i - Len(org))
          BY <1>4, <4>1, <4>3
        <5>2. all[Len(org) + (i - Len(org))] = kept[i - Len(org)]
          BY <1>4, <5>1
        <5> QED
          BY <2>2, <3>1, <4>1, <5>1, <5>2
      <4> QED
        BY <1>4, <4>1, <4>2, <4>3
    <3>3. A \in SUBSET O
      BY <3>2
    <3>4. Cardinality(A) <= Cardinality(O)
      <4> HIDE DEF A, O
      <4> QED
        BY <2>1, <3>3, FS_Subset
    <3> QED
      BY <2>3, <3>4 DEF Count
  <2>4. CASE e \notin Range(org)
    <3>1. \A i \in DOMAIN org : org[i] # e
      BY <2>4 DEF Range
    <3>2. ASSUME NEW i \in A
          PROVE  /\ i \in Nat /\ i > Len(org) /\ i - Len(org) \in K
      <4>1. i \in 1..Len(all) /\ all[i] = e
        BY <1>4, <1>5, <1>6, <2>2
      <4>2. i > Len(org)
        BY <1>4, <2>2, <3>1, <4>1
      <4>3. i - Len(org) \in 1..Len(kept) /\ i = Len(org) + (i - Len(org))
        BY <1>4, <4>1, <4>2
      <4>4. all[Len(org) + (i - Len(org))] = kept[i - Len(org)]
        BY <1>4, <4>3
      <4> QED
        BY <2>2, <4>1, <4>2, <4>3, <4>4
    <3> DEFINE g == [i \in A |-> i - Len(org)]
    <3>3. g \in Injection(A, K)
      <4>1. \A i, j \in A : i - Len(org) = j - Len(org) => i = j
        BY <1>4, <3>2
      <4> HIDE DEF A, K
      <4> QED
        BY <3>2, <4>1 DEF Injection, IsInjective
    <3>4. Cardinality(A) <= Cardinality(K) /\ IsFiniteSet(A)
      <4> HIDE DEF A, K, g
      <4> QED
        BY <2>1, <3>3, FS_Injection
    <3>5. Cardinality(K) <= Cardinality(N)
      BY <1>2, Zenon DEF Count
    <3>6. Cardinality(A) <= Cardinality(N)
      <4> HIDE DEF A, K, N
      <4>1. Cardinality(A) \in Nat /\ Cardinality(K) \in Nat /\ Cardinality(N) \in Nat
        BY <2>1, <3>4, FS_CardinalityType
      <4> QED
        BY <3>4, <3>5, <4>1
    <3>7. e \in Range(new)
      <4>1. PICK i \in DOMAIN made : made[i] = e
        BY <1>8 DEF Range
      <4>2. i \in A
        BY <4>1
      <4>3. kept[i - Len(org)] = e /\ i - Len(org) \in DOMAIN kept
        BY <3>2, <4>2
      <4> QED
        BY <1>1, <4>3 DEF Range
    <3> QED
      BY <3>6, <3>7 DEF Count
  <2> QED
    BY <2>3, <2>4
<1>9. ASSUME ~(Len(made) >= Size)
      PROVE  Range(org) \cup Range(new) \subseteq Range(made)
  <2>1. n = Len(all)
    BY <1>4, <1>5, <1>6, <1>9, BoundAssumption
  <2>2. /\ DOMAIN made = 1..Len(all) /\ DOMAIN org = 1..Len(org) /\ DOMAIN kept = 1..Len(kept)
    BY <1>1, <1>6, <2>1
  <2>3. ASSUME NEW e \in Range(org)
        PROVE  e \in Range(made)
    <3>1. PICK i \in 1..Len(org) : org[i] = e
      BY <2>2 DEF Range
    <3>2. i \in 1..Len(all)
      BY <1>4
    <3> QED
      BY <1>4, <1>6, <2>1, <2>2, <3>1, <3>2 DEF Range
  <2>4. ASSUME NEW e \in Range(kept)
        PROVE  e \in Range(made)
    <3>1. PICK i \in 1..Len(kept) : kept[i] = e
      BY <2>2 DEF Range
    <3>2. Len(org) + i \in 1..Len(all)
      BY <1>4
    <3>3. made[Len(org) + i] = e
      BY <1>4, <1>6, <2>1, <3>1, <3>2
    <3> QED
      BY <2>2, <3>2, <3>3 DEF Range
  <2> QED
    BY <1>1, <2>3, <2>4
<1> QED
  BY <1>5, <1>6, <1>7, <1>8, <1>9 DEF made

-----------------------------------------------------------------------------
(* Manifests *)

SourceType == [platform: Platform, layers: Seq(Layer)]

\* All layers of manifest m have a record in r.
Recorded(r, m) == \A l \in Range(m.layers) : r[l] # None

LEMMA CountIsNat ==
  ASSUME NEW T, NEW s \in Seq(T), NEW e
  PROVE  Count(s, e) \in Nat
BY SomePlaces, FS_CardinalityType, Zenon DEF Count

\* No two manifests of an image are for one platform.
LEMMA SourceManifests ==
  ASSUME NEW c \in Conversion
  PROVE  LET ms == GetManifests(Image[c])
         IN  /\ ms \in Seq(SourceType)
             /\ Range(ms) \subseteq SourceManifest
             /\ \A a, b \in Range(ms) : a.platform = b.platform => a = b
<1> DEFINE all == Image[c].manifests
           ms == GetManifests(Image[c])
<1>1. all \in Seq(SourceType)
  BY ImageAssumption DEF ImageType, SourceType
<1>2. \A i, j \in DOMAIN all : i # j => all[i].platform # all[j].platform
  BY ImageAssumption
<1>3. ms \in Seq(SourceType) /\ Range(ms) \subseteq Range(all)
  <2>1. CASE Image[c].kind = "index"
    <3> DEFINE some == {m \in Range(all) : m.platform \in Selected}
    <3>1. ms = Keep(all, some)
      BY <2>1 DEF GetManifests
    <3>2. Keep(all, some) \in Seq(SourceType) /\ Range(Keep(all, some)) = Range(all) \cap some
      BY <1>1, KeepPlaces, KeepElements
    <3> QED
      BY <3>1, <3>2
  <2>2. CASE Image[c].kind # "index"
    BY <1>1, <2>2 DEF GetManifests
  <2> QED
    BY <2>1, <2>2
<1>4. \A a, b \in Range(all) : a.platform = b.platform => a = b
  BY <1>2 DEF Range
<1>5. Range(all) \subseteq SourceManifest
  BY DEF SourceManifest
<1> QED
  BY <1>3, <1>4, <1>5

LEMMA NewManifestMade ==
  ASSUME version \in Version,
         NEW r \in [Layer -> Version \cup {None}],
         NEW m \in SourceType, m \in SourceManifest
  PROVE  LET new == NewManifest(m, r)
         IN  /\ new \in ManifestType /\ Sound(new)
             /\ new.platform = m.platform
             /\ Recorded(r, m) => HasLayersOf(new, m)
<1> DEFINE made == TargetLayers(m.layers, r)
           new == NewManifest(m, r)
<1>1. m.layers \in Seq(Layer) /\ m.platform \in Platform
  BY DEF SourceType
<1>2. /\ made \in Seq(Layer \X Version)
      /\ Len(made) <= Len(m.layers)
      /\ \A e \in Range(made) : Count(made, e) <= Count(m.layers, e[1])
      /\ (\A l \in Range(m.layers) : r[l] # None) =>
             \A l \in Range(m.layers) : \E e \in Range(made) : e[1] = l
  BY <1>1, TargetLayersMade
<1>3. new = [platform |-> m.platform, version |-> version, layers |-> made]
  BY DEF NewManifest
<1> HIDE DEF made, new
<1>4. new.layers = made /\ new.platform = m.platform /\ new \in ManifestType
  BY <1>1, <1>2, <1>3 DEF ManifestType
<1>5. Sound(new)
  BY <1>2, <1>4 DEF Sound
<1>6. Recorded(r, m) => HasLayersOf(new, m)
  BY <1>2, <1>4 DEF Recorded, HasLayersOf
<1> QED
  BY <1>4, <1>5, <1>6 DEF new

LEMMA MergedManifestMade ==
  ASSUME version \in Version,
         NEW r \in [Layer -> Version \cup {None}],
         NEW m \in SourceType, m \in SourceManifest,
         NEW old \in ManifestType, Sound(old)
  PROVE  LET new == MergedManifest(old, m, r)
         IN  /\ new \in ManifestType /\ Sound(new)
             /\ new.platform = old.platform
             /\ IsPrefix(SubSeq(old.layers, 1, Min({Size, Len(old.layers)})), new.layers)
             /\ Recorded(r, m) => Full(new) \/ HasLayersOf(new, m)
<1> DEFINE found == TargetLayers(m.layers, r)
           made == AppendLayers(old.layers, found)
           new == MergedManifest(old, m, r)
<1>1. /\ m.layers \in Seq(Layer)
      /\ old.layers \in Seq(Layer \X Version) /\ old.platform \in Platform
  BY DEF SourceType, ManifestType
<1>2. /\ found \in Seq(Layer \X Version)
      /\ \A e \in Range(found) : Count(found, e) <= Count(m.layers, e[1])
      /\ (\A l \in Range(m.layers) : r[l] # None) =>
             \A l \in Range(m.layers) : \E e \in Range(found) : e[1] = l
  BY <1>1, TargetLayersMade
<1> HIDE DEF found
<1>3. /\ made \in Seq(Layer \X Version)
      /\ Len(made) <= Size
      /\ IsPrefix(SubSeq(old.layers, 1, Min({Size, Len(old.layers)})), made)
      /\ \A e \in Range(made) :
             \/ e \in Range(old.layers) /\ Count(made, e) <= Count(old.layers, e)
             \/ e \in Range(found) /\ Count(made, e) <= Count(found, e)
      /\ \/ Len(made) >= Size
         \/ Range(old.layers) \cup Range(found) \subseteq Range(made)
  BY <1>1, <1>2, AppendLayersMade
<1>4. new = [platform |-> old.platform, version |-> version, layers |-> made]
  BY DEF MergedManifest, found
<1> HIDE DEF made, new
<1>5. new.layers = made /\ new.platform = old.platform /\ new \in ManifestType
  BY <1>1, <1>3, <1>4 DEF ManifestType
<1>6. ASSUME NEW e \in Range(made)
      PROVE  \E s \in SourceManifest : Count(made, e) <= Count(s.layers, e[1])
  <2>1. \A s \in SourceManifest : Count(s.layers, e[1]) \in Nat
    <3> TAKE s \in SourceManifest
    <3>1. PICK c \in Conversion : s \in Range(Image[c].manifests)
      BY DEF SourceManifest
    <3>2. Image[c].manifests \in Seq(SourceType)
      BY ImageAssumption DEF ImageType, SourceType
    <3>3. s \in SourceType
      BY <3>1, <3>2 DEF Range
    <3>4. s.layers \in Seq(Layer)
      BY <3>3 DEF SourceType
    <3> QED
      BY <3>4, CountIsNat
  <2>2. /\ Count(made, e) \in Nat
        /\ Count(old.layers, e) \in Nat
        /\ Count(found, e) \in Nat
    BY <1>1, <1>2, <1>3, CountIsNat
  <2>3. CASE e \in Range(old.layers) /\ Count(made, e) <= Count(old.layers, e)
    <3>1. PICK s \in SourceManifest : Count(old.layers, e) <= Count(s.layers, e[1])
      BY <2>3 DEF Sound
    <3> QED
      BY <2>1, <2>2, <2>3, <3>1
  <2>4. CASE e \in Range(found) /\ Count(made, e) <= Count(found, e)
    BY <1>2, <2>1, <2>2, <2>4
  <2> QED
    BY <1>3, <2>3, <2>4
<1>7. Sound(new)
  BY <1>3, <1>5, <1>6 DEF Sound
<1>8. Recorded(r, m) => Full(new) \/ HasLayersOf(new, m)
  BY <1>2, <1>3, <1>5 DEF Recorded, Full, HasLayersOf
<1> QED
  BY <1>3, <1>5, <1>7, <1>8 DEF new

\* The manifests of an index after a merge: each still in its place.
LEMMA MergedIndexMade ==
  ASSUME version \in Version,
         NEW r \in [Layer -> Version \cup {None}],
         NEW c \in Conversion,
         NEW cache, cache.manifests \in Seq(ManifestType),
         \A m \in Range(cache.manifests) : Sound(m)
  PROVE  LET old == cache.manifests
             ms == GetManifests(Image[c])
             new == MergedIndex(cache, ms, r)
         IN  /\ new \in Seq(ManifestType) /\ Len(new) = Len(old)
             /\ \A i \in 1..Len(old) :
                    /\ Sound(new[i])
                    /\ new[i].platform = old[i].platform
                    /\ \/ new[i].layers = old[i].layers
                       \/ IsPrefix(SubSeq(old[i].layers, 1, Min({Size, Len(old[i].layers)})),
                                   new[i].layers)
                    /\ \A s \in Range(ms) :
                           (s.platform = old[i].platform /\ Recorded(r, s)) =>
                               Full(new[i]) \/ HasLayersOf(new[i], s)
<1> DEFINE old == cache.manifests
           ms == GetManifests(Image[c])
           new == MergedIndex(cache, ms, r)
<1>1. /\ ms \in Seq(SourceType)
      /\ Range(ms) \subseteq SourceManifest
      /\ \A a, b \in Range(ms) : a.platform = b.platform => a = b
  BY SourceManifests
<1> HIDE DEF ms
<1>2. ASSUME NEW i \in 1..Len(old)
      PROVE  /\ new[i] \in ManifestType /\ Sound(new[i])
             /\ new[i].platform = old[i].platform
             /\ \/ new[i].layers = old[i].layers
                \/ IsPrefix(SubSeq(old[i].layers, 1, Min({Size, Len(old[i].layers)})),
                            new[i].layers)
             /\ \A s \in Range(ms) :
                    (s.platform = old[i].platform /\ Recorded(r, s)) =>
                        Full(new[i]) \/ HasLayersOf(new[i], s)
  <2> DEFINE match == {j \in DOMAIN ms : ms[j].platform = old[i].platform}
  <2>1. old[i] \in ManifestType /\ Sound(old[i])
    BY DEF Range
  <2>2. new[i] = IF match = {} THEN old[i] ELSE MergedManifest(old[i], ms[Min(match)], r)
    BY DEF MergedIndex
  <2>3. CASE match = {}
    <3>1. \A s \in Range(ms) : s.platform # old[i].platform
      BY <2>3 DEF Range
    <3> QED
      BY <2>1, <2>2, <2>3, <3>1
  <2>4. CASE match # {}
    <3>1. match \in SUBSET Nat
      BY <1>1
    <3>2. Min(match) \in match
      BY <2>4, <3>1, MinIsLeast
    <3> DEFINE m == ms[Min(match)]
    <3>3. m \in SourceType /\ m \in Range(ms) /\ m.platform = old[i].platform
      <4>1. Min(match) \in DOMAIN ms /\ m.platform = old[i].platform
        BY <3>2
      <4>2. \A k \in DOMAIN ms : ms[k] \in SourceType /\ ms[k] \in Range(ms)
        BY <1>1 DEF Range
      <4> HIDE DEF match
      <4> QED
        BY <4>1, <4>2
    <3> HIDE DEF m, match
    <3>4. new[i] = MergedManifest(old[i], m, r)
      BY <2>2, <2>4 DEF m
    <3> HIDE DEF new, old
    <3>5. m \in SourceManifest
      BY <1>1, <3>3
    <3>6. /\ new[i] \in ManifestType /\ Sound(new[i])
          /\ new[i].platform = old[i].platform
          /\ IsPrefix(SubSeq(old[i].layers, 1, Min({Size, Len(old[i].layers)})),
                      new[i].layers)
          /\ Recorded(r, m) => Full(new[i]) \/ HasLayersOf(new[i], m)
      BY ZenonT(30), <2>1, <3>3, <3>4, <3>5, MergedManifestMade
    <3>7. \A s \in Range(ms) : s.platform = old[i].platform => s = m
      BY <1>1, <3>3
    <3> QED
      BY <3>6, <3>7
  <2> QED
    BY <2>3, <2>4
<1>3. new \in Seq(ManifestType) /\ Len(new) = Len(old)
  <2>1. DOMAIN new = 1..Len(old) /\ Len(old) \in Nat /\ new = [i \in DOMAIN new |-> new[i]]
    BY DEF MergedIndex
  <2> HIDE DEF new
  <2>2. \A i \in 1..Len(old) : new[i] \in ManifestType
    BY <1>2
  <2> HIDE DEF old
  <2> QED
    BY <2>1, <2>2
<1> QED
  BY <1>2, <1>3 DEF ms

-----------------------------------------------------------------------------
(* What an update pushes *)

LEMMA SingleMade ==
  ASSUME NEW m \in ManifestType, Sound(m)
  PROVE  /\ Single(m) \in CacheType /\ SoundCache(Single(m))
         /\ Single(m).kind = "manifest"
         /\ Single(m).manifests = <<m>>
<1>1. Single(m) = [kind |-> "manifest", manifests |-> <<m>>]
  BY DEF Single
<1>2. <<m>> \in Seq(ManifestType) /\ Len(<<m>>) = 1 /\ Range(<<m>>) = {m}
  BY DEF Range
<1> QED
  BY <1>1, <1>2 DEF CacheType, Kind, SoundCache

\* The index comes last.
LEMMA PushIndexMade ==
  ASSUME NEW ms \in Seq(ManifestType), \A m \in Range(ms) : Sound(m)
  PROVE  /\ PushIndex(ms) \in Seq(CacheType)
         /\ PushIndex(ms) # <<>>
         /\ \A i \in DOMAIN PushIndex(ms) : SoundCache(PushIndex(ms)[i])
         /\ Last(PushIndex(ms)) = [kind |-> "index", manifests |-> ms]
<1> DEFINE front == [i \in DOMAIN ms |-> Single(ms[i])]
           index == [kind |-> "index", manifests |-> ms]
           all == PushIndex(ms)
<1>1. \A i \in 1..Len(ms) : ms[i] \in ManifestType /\ Sound(ms[i])
  BY DEF Range
<1>2. DOMAIN ms = 1..Len(ms) /\ Len(ms) \in Nat
  OBVIOUS
<1>3. /\ front \in Seq(CacheType) /\ Len(front) = Len(ms)
      /\ \A i \in 1..Len(ms) : SoundCache(front[i])
  <2>1. \A i \in 1..Len(ms) : Single(ms[i]) \in CacheType /\ SoundCache(Single(ms[i]))
    BY <1>1, SingleMade
  <2> QED
    BY <1>2, <2>1
<1>4. index \in CacheType /\ SoundCache(index)
  BY DEF CacheType, Kind, SoundCache
<1>5. all = front \o <<index>>
  BY DEF PushIndex
<1> HIDE DEF front, index, all
<1>6. /\ all \in Seq(CacheType) /\ Len(all) = Len(ms) + 1
      /\ \A i \in 1..Len(ms) : all[i] = front[i]
      /\ all[Len(ms) + 1] = index
  BY <1>2, <1>3, <1>4, <1>5
<1>7. \A i \in DOMAIN all : SoundCache(all[i])
  <2> TAKE i \in DOMAIN all
  <2>1. i \in 1..Len(ms) \/ i = Len(ms) + 1
    BY <1>2, <1>6
  <2> QED
    BY <1>3, <1>4, <1>6, <2>1
<1>8. all # <<>> /\ Last(all) = index
  BY <1>2, <1>6 DEF Last
<1> QED
  BY <1>6, <1>7, <1>8 DEF all, index

\* In any order of a finite set there is every element of it.
LEMMA OrderHasAll ==
  ASSUME NEW S, IsFiniteSet(S), NEW ord \in SetToSeqs(S)
  PROVE  ord \in Seq(S) /\ Range(ord) = S
<1> DEFINE D == 1..Cardinality(S)
<1>1. Cardinality(S) \in Nat
  BY FS_CardinalityType
<1>2. ord \in [D -> S] /\ \A i, j \in D : i # j => ord[i] # ord[j]
  BY DEF SetToSeqs
<1>3. ord \in Injection(D, S)
  BY <1>2 DEF Injection, IsInjective
<1>4. IsFiniteSet(D) /\ Cardinality(D) = Cardinality(S)
  BY <1>1, FS_Interval
<1>5. ord \in Surjection(D, S)
  <2> HIDE DEF D
  <2> QED
    BY <1>3, <1>4, FS_Injection
<1>6. Range(ord) = S
  BY <1>2, <1>5 DEF Surjection, Range
<1>7. ord \in Seq(S)
  BY <1>1, <1>2
<1> QED
  BY <1>6, <1>7

\* update makes of a cache that is sound what is sound, has all layers of the
\* image that have a record, and keeps the lower layers.
LEMMA UpdateMade ==
  ASSUME version \in Version,
         NEW c \in Conversion,
         NEW r \in [Layer -> Version \cup {None}],
         NEW cache \in CacheType, SoundCache(cache),
         NEW new \in Update(c, cache, r)
  PROVE  /\ new \in Seq(CacheType) /\ new # <<>>
         /\ \A i \in DOMAIN new : SoundCache(new[i])
         /\ cache.kind = Last(new).kind => KeepsLowerLayers(cache, Last(new))
         /\ (\A l \in SourceLayers(c) : r[l] # None) => CachesImage(Last(new), c)
<1> DEFINE ms == GetManifests(Image[c])
           old == cache.manifests
<1>1. /\ ms \in Seq(SourceType)
      /\ Range(ms) \subseteq SourceManifest
      /\ \A a, b \in Range(ms) : a.platform = b.platform => a = b
  BY SourceManifests
<1>2. /\ old \in Seq(ManifestType)
      /\ \A m \in Range(old) : Sound(m)
      /\ cache.kind = "none" \/ cache.kind \in Kind
  <2>1. CASE cache = NoCache
    BY <2>1 DEF NoCache, SoundCache
  <2>2. CASE cache \in [kind: Kind, manifests: Seq(ManifestType)]
    BY <2>2 DEF SoundCache
  <2> QED
    BY <2>1, <2>2 DEF CacheType
<1>3. (\A l \in SourceLayers(c) : r[l] # None) => \A s \in Range(ms) : Recorded(r, s)
  BY DEF SourceLayers, Recorded
<1>4. \A s \in Range(ms) : s \in SourceType /\ s \in SourceManifest
  BY <1>1 DEF Range
<1> DEFINE one == Len(ms) = 1
<1>5. ASSUME one
      PROVE  ms[1] \in Range(ms) /\ Range(ms) = {ms[1]}
  BY <1>1, <1>5 DEF Range
<1>6. CASE cache.kind = "manifest" /\ one
  <2> DEFINE m == MergedManifest(old[1], ms[1], r)
  <2>1. new = <<Single(m)>>
    BY <1>6 DEF Update
  <2>2. Len(old) = 1 /\ old[1] \in Range(old) /\ old[1] \in ManifestType /\ DOMAIN old = {1}
    BY <1>2, <1>6 DEF SoundCache, Range
  <2>3. /\ m \in ManifestType /\ Sound(m)
        /\ IsPrefix(SubSeq(old[1].layers, 1, Min({Size, Len(old[1].layers)})), m.layers)
        /\ Recorded(r, ms[1]) => Full(m) \/ HasLayersOf(m, ms[1])
    <3> HIDE DEF ms, old
    <3>1. ms[1] \in SourceType /\ ms[1] \in SourceManifest /\ Sound(old[1])
      BY <1>2, <1>4, <1>5, <1>6, <2>2
    <3> QED
      BY <2>2, <3>1, MergedManifestMade
  <2> HIDE DEF m
  <2>4. /\ Single(m) \in CacheType /\ SoundCache(Single(m))
        /\ Single(m).kind = "manifest" /\ Single(m).manifests = <<m>>
    BY <2>3, SingleMade
  <2>5. Last(new) = Single(m) /\ new \in Seq(CacheType) /\ new # <<>> /\ DOMAIN new = {1}
    BY <2>1, <2>4 DEF Last
  <2>6. KeepsLowerLayers(cache, Single(m))
    BY <2>2, <2>3, <2>4 DEF KeepsLowerLayers
  <2>7. (\A l \in SourceLayers(c) : r[l] # None) => CachesImage(Single(m), c)
    <3>1. m \in Range(<<m>>)
      BY DEF Range
    <3> QED
      BY <1>3, <1>5, <1>6, <2>3, <2>4, <3>1 DEF CachesImage
  <2> QED
    BY <2>1, <2>4, <2>5, <2>6, <2>7
<1>7. CASE cache = NoCache /\ one
  <2> DEFINE m == NewManifest(ms[1], r)
  <2>1. new = <<Single(m)>> /\ cache.kind = "none"
    BY <1>7 DEF Update, NoCache
  <2>2. /\ m \in ManifestType /\ Sound(m)
        /\ Recorded(r, ms[1]) => HasLayersOf(m, ms[1])
    <3> HIDE DEF ms
    <3>1. ms[1] \in SourceType /\ ms[1] \in SourceManifest
      BY <1>4, <1>5, <1>7
    <3> QED
      BY <3>1, NewManifestMade
  <2> HIDE DEF m
  <2>3. /\ Single(m) \in CacheType /\ SoundCache(Single(m))
        /\ Single(m).kind = "manifest" /\ Single(m).manifests = <<m>>
    BY <2>2, SingleMade
  <2>4. Last(new) = Single(m) /\ new \in Seq(CacheType) /\ new # <<>> /\ DOMAIN new = {1}
    BY <2>1, <2>3 DEF Last
  <2>5. (\A l \in SourceLayers(c) : r[l] # None) => CachesImage(Single(m), c)
    <3>1. m \in Range(<<m>>)
      BY DEF Range
    <3> QED
      BY <1>3, <1>5, <1>7, <2>2, <2>3, <3>1 DEF CachesImage
  <2> QED
    BY <2>1, <2>3, <2>4, <2>5
<1>8. CASE ~(cache.kind = "manifest" /\ one) /\ ~(cache = NoCache /\ one)
  <2> DEFINE kept == IF cache.kind = "index" THEN MergedIndex(cache, ms, r) ELSE <<>>
             fresh == {m \in Range(ms) :
                          cache.kind = "index" =>
                              \A o \in Range(old) : o.platform # m.platform}
  <2>1. PICK ord \in SetToSeqs(fresh) :
           new = PushIndex(kept \o [i \in DOMAIN ord |-> NewManifest(ord[i], r)])
    BY <1>8 DEF Update
  <2> DEFINE added == [i \in DOMAIN ord |-> NewManifest(ord[i], r)]
             all == kept \o added
             index == [kind |-> "index", manifests |-> all]
  <2>2. IsFiniteSet(fresh)
    <3>1. IsFiniteSet(1..Len(ms)) /\ DOMAIN ms = 1..Len(ms)
      BY <1>1, FS_Interval
    <3>2. [i \in 1..Len(ms) |-> ms[i]] \in Surjection(1..Len(ms), Range(ms))
      BY <3>1 DEF Surjection, Range
    <3>3. IsFiniteSet(Range(ms))
      BY <3>1, <3>2, FS_Surjection
    <3> HIDE DEF ms, old
    <3> QED
      BY <3>3, FS_Subset
  <2>3. ord \in Seq(fresh) /\ Range(ord) = fresh
    <3> HIDE DEF fresh
    <3> QED
      BY <2>1, <2>2, OrderHasAll
  <2>4. \A i \in DOMAIN ord : ord[i] \in fresh /\ ord[i] \in Range(ms)
    <3>1. \A i \in DOMAIN ord : ord[i] \in Range(ord)
      BY DEF Range
    <3> QED
      BY <2>3, <3>1
  <2>5. \A i \in DOMAIN ord :
           /\ NewManifest(ord[i], r) \in ManifestType
           /\ Sound(NewManifest(ord[i], r))
           /\ NewManifest(ord[i], r).platform = ord[i].platform
           /\ Recorded(r, ord[i]) => HasLayersOf(NewManifest(ord[i], r), ord[i])
    <3> HIDE DEF fresh, ms
    <3> QED
      BY <1>4, <2>4, NewManifestMade
  <2>6. added \in Seq(ManifestType) /\ Len(added) = Len(ord) /\ Len(ord) \in Nat
        /\ DOMAIN ord = 1..Len(ord)
    <3>1. DOMAIN ord = 1..Len(ord) /\ Len(ord) \in Nat
      BY <2>3
    <3> HIDE DEF fresh, ms
    <3> QED
      BY <2>5, <3>1
  <2>7. /\ kept \in Seq(ManifestType)
        /\ \A i \in 1..Len(kept) : Sound(kept[i])
        /\ cache.kind = "index" =>
               /\ Len(kept) = Len(old)
               /\ \A i \in 1..Len(old) :
                    /\ kept[i].platform = old[i].platform
                    /\ \/ kept[i].layers = old[i].layers
                       \/ IsPrefix(SubSeq(old[i].layers, 1, Min({Size, Len(old[i].layers)})),
                                   kept[i].layers)
                    /\ \A s \in Range(ms) :
                           (s.platform = old[i].platform /\ Recorded(r, s)) =>
                               Full(kept[i]) \/ HasLayersOf(kept[i], s)
    <3>1. CASE cache.kind = "index"
      <4>1. kept = MergedIndex(cache, ms, r)
        BY <3>1
      <4> HIDE DEF kept
      <4> QED
        BY <1>2, <4>1, MergedIndexMade
    <3>2. CASE cache.kind # "index"
      <4>1. kept = <<>>
        BY <3>2
      <4> HIDE DEF kept
      <4> QED
        BY <3>2, <4>1
    <3> QED
      BY <3>1, <3>2
  <2> HIDE DEF kept
  <2>8. /\ all \in Seq(ManifestType) /\ Len(all) = Len(kept) + Len(ord)
        /\ Len(kept) \in Nat
        /\ \A i \in 1..Len(kept) : all[i] = kept[i]
        /\ \A i \in 1..Len(ord) : all[Len(kept) + i] = NewManifest(ord[i], r)
    <3>1. \A i \in 1..Len(ord) : added[i] = NewManifest(ord[i], r)
      BY <2>6
    <3>2. \A a, b \in Seq(ManifestType) :
             /\ a \o b \in Seq(ManifestType) /\ Len(a \o b) = Len(a) + Len(b)
             /\ Len(a) \in Nat
             /\ \A i \in 1..Len(a) : (a \o b)[i] = a[i]
             /\ \A i \in 1..Len(b) : (a \o b)[Len(a) + i] = b[i]
      OBVIOUS
    <3>3. added \in Seq(ManifestType) /\ Len(added) = Len(ord)
      BY <2>6
    <3> HIDE DEF added, fresh
    <3>4. /\ all \in Seq(ManifestType) /\ Len(all) = Len(kept) + Len(added)
          /\ Len(kept) \in Nat
          /\ \A i \in 1..Len(kept) : all[i] = kept[i]
          /\ \A i \in 1..Len(added) : all[Len(kept) + i] = added[i]
      BY <2>7, <3>2, <3>3, Zenon
    <3> HIDE DEF all
    <3> QED
      BY <3>1, <3>3, <3>4
  <2> HIDE DEF all, added, fresh
  <2>9. \A m \in Range(all) : Sound(m)
    <3> TAKE m \in Range(all)
    <3>1. PICK i \in 1..Len(all) : all[i] = m
      BY <2>8 DEF Range
    <3>2. CASE i \in 1..Len(kept)
      BY <2>7, <2>8, <3>1, <3>2
    <3>3. CASE i \notin 1..Len(kept)
      <4>1. i - Len(kept) \in 1..Len(ord) /\ i = Len(kept) + (i - Len(kept))
        BY <2>6, <2>8, <3>1, <3>3
      <4>2. m = NewManifest(ord[i - Len(kept)], r)
        BY <2>8, <3>1, <4>1
      <4> QED
        BY <2>5, <2>6, <4>1, <4>2
    <3> QED
      BY <3>2, <3>3
  <2>10. /\ new \in Seq(CacheType) /\ new # <<>>
         /\ \A i \in DOMAIN new : SoundCache(new[i])
         /\ Last(new) = index
    BY <2>1, <2>8, <2>9, PushIndexMade DEF all, added
  <2>11. cache.kind = "index" => KeepsLowerLayers(cache, index)
    <3> SUFFICES ASSUME cache.kind = "index", NEW i \in 1..Len(old)
                 PROVE  \/ all[i].layers = old[i].layers
                        \/ IsPrefix(SubSeq(old[i].layers, 1, Min({Size, Len(old[i].layers)})),
                                    all[i].layers)
      BY <1>2 DEF KeepsLowerLayers
    <3> QED
      BY <2>7, <2>8
  <2>12. ASSUME \A s \in Range(ms) : Recorded(r, s), NEW s \in Range(ms)
         PROVE  \E m \in Range(all) :
                    /\ m.platform = s.platform
                    /\ Full(m) \/ HasLayersOf(m, s)
    <3>1. CASE s \in fresh
      <4>1. PICK i \in DOMAIN ord : ord[i] = s
        BY <2>3, <3>1 DEF Range
      <4>2. Len(kept) + i \in DOMAIN all /\ all[Len(kept) + i] = NewManifest(s, r)
        BY <2>6, <2>8, <4>1
      <4>3. NewManifest(s, r) \in Range(all)
        BY <4>2 DEF Range
      <4> QED
        BY <2>5, <2>12, <4>1, <4>3
    <3>2. CASE s \notin fresh
      <4>1. cache.kind = "index" /\ \E o \in Range(old) : o.platform = s.platform
        BY <3>2 DEF fresh
      <4>2. PICK i \in 1..Len(old) : old[i].platform = s.platform
        BY <1>2, <4>1 DEF Range
      <4>3. i \in DOMAIN all /\ all[i] = kept[i]
        BY <2>6, <2>7, <2>8, <4>1
      <4>4. kept[i] \in Range(all)
        BY <4>3 DEF Range
      <4> QED
        BY <2>7, <2>12, <4>1, <4>2, <4>4
    <3> QED
      BY <3>1, <3>2
  <2>13. (\A l \in SourceLayers(c) : r[l] # None) => CachesImage(index, c)
    BY <1>3, <2>12 DEF CachesImage
  <2> QED
    BY <2>10, <2>11, <2>13
<1> QED
  BY <1>6, <1>7, <1>8

-----------------------------------------------------------------------------
(* What a fetch records *)

RecordType == [Layer -> Version \cup {None}]

LEMMA SetMade ==
  ASSUME NEW r \in RecordType, NEW layers \in Seq(Layer \X Version)
  PROVE  /\ Set(r, layers) \in RecordType
         /\ \A l \in Layer : r[l] # None => Set(r, layers)[l] # None
<1>1. \A i \in DOMAIN layers : layers[i][2] \in Version
  OBVIOUS
<1>2. ASSUME NEW l \in Layer
      PROVE  \/ Set(r, layers)[l] = r[l]
             \/ Set(r, layers)[l] \in Version
  <2> DEFINE hits == {i \in DOMAIN layers : layers[i][1] = l}
  <2>1. Set(r, layers)[l] = IF hits = {} THEN r[l] ELSE layers[Max(hits)][2]
    BY DEF Set
  <2>2. CASE hits # {}
    <3>1. hits \in SUBSET (0..Len(layers)) /\ Len(layers) \in Nat
      OBVIOUS
    <3>2. Max(hits) \in hits
      BY <2>2, <3>1, MaxIsGreatest
    <3>3. Max(hits) \in DOMAIN layers
      BY <3>2
    <3> HIDE DEF hits
    <3> QED
      BY <1>1, <2>1, <2>2, <3>3
  <2> QED
    BY <2>1, <2>2
<1>3. None \notin Version
  BY DEF None, Version
<1>4. Set(r, layers) = [l \in Layer |-> Set(r, layers)[l]]
  BY DEF Set
<1> QED
  BY <1>2, <1>3, <1>4 DEF RecordType

LEMMA ImportsMade ==
  ASSUME registry \in CacheType
  PROVE  Imports(registry) \in Seq(Layer \X Version)
<1> DEFINE ms == GetManifests(registry)
           layers == [i \in DOMAIN ms |-> ImportManifestRecords(ms[i])]
<1>1. registry.manifests \in Seq(ManifestType)
  <2>1. <<>> \in Seq(ManifestType)
    OBVIOUS
  <2>2. NoCache.manifests = <<>>
    BY DEF NoCache
  <2>3. registry = NoCache \/ registry \in [kind: Kind, manifests: Seq(ManifestType)]
    BY DEF CacheType
  <2> QED
    BY <2>1, <2>2, <2>3
<1>2. ms \in Seq(ManifestType)
  <2> DEFINE some == {m \in Range(registry.manifests) : m.platform \in Selected}
  <2>1. Keep(registry.manifests, some) \in Seq(ManifestType)
    BY <1>1, KeepPlaces
  <2> HIDE DEF some
  <2>2. ms = IF registry.kind = "index" THEN Keep(registry.manifests, some)
                                        ELSE registry.manifests
    BY DEF GetManifests, some
  <2> QED
    BY <1>1, <2>1, <2>2
<1> HIDE DEF ms
<1>3. \A i \in DOMAIN ms : ImportManifestRecords(ms[i]) \in Seq(Layer \X Version)
  <2> TAKE i \in DOMAIN ms
  <2>1. ms[i] \in ManifestType
    BY <1>2
  <2>2. ms[i].layers \in Seq(Layer \X Version)
    BY <2>1 DEF ManifestType
  <2> QED
    BY <2>2 DEF ImportManifestRecords
<1>4. layers \in Seq(Seq(Layer \X Version))
  <2>1. DOMAIN ms = 1..Len(ms) /\ Len(ms) \in Nat
    BY <1>2
  <2> QED
    BY <1>3, <2>1
<1> HIDE DEF layers
<1>5. FlattenSeq(layers) \in Seq(Layer \X Version)
  BY <1>4, FlattenType
<1> QED
  BY <1>5 DEF Imports, layers, ms

LEMMA ReachedMade ==
  ASSUME NEW layers \in Seq(Layer \X Version)
  PROVE  /\ Reached(layers) \in Seq(Layer \X Version)
         /\ \A done \in Prefixes(Reached(layers)) : done \in Seq(Layer \X Version)
<1> DEFINE reached == Reached(layers)
<1>1. reached \in Seq(Layer \X Version)
  <2>1. CASE Missing(layers) = {}
    BY <2>1 DEF Reached
  <2>2. CASE Missing(layers) # {}
    <3>1. Missing(layers) \in SUBSET Nat /\ Missing(layers) \subseteq 1..Len(layers)
      BY DEF Missing
    <3>2. Min(Missing(layers)) \in 1..Len(layers)
      BY <2>2, <3>1, MinIsLeast
    <3>3. reached = SubSeq(layers, 1, Min(Missing(layers)) - 1)
      BY <2>2 DEF Reached
    <3> QED
      BY <3>2, <3>3
  <2> QED
    BY <2>1, <2>2
<1> HIDE DEF reached
<1>2. \A done \in Prefixes(reached) : done \in Seq(Layer \X Version)
  BY <1>1 DEF Prefixes
<1> QED
  BY <1>1, <1>2 DEF reached

LEMMA FetchedMade ==
  ASSUME TypeOK, NEW c \in Conversion
  PROVE  /\ Fetched(c) \in RecordType
         /\ \A l \in Layer : records[c][l] # None => Fetched(c)[l] # None
<1>1. registry \in CacheType /\ records[c] \in RecordType
  BY DEF TypeOK, RecordType
<1> QED
  BY <1>1, ImportsMade, ReachedMade, SetMade DEF Fetched

-----------------------------------------------------------------------------
(* The invariant *)

LEMMA CacheInitial == Init => CacheInv
<1> SUFFICES ASSUME Init
             PROVE  CacheInv
  OBVIOUS
<1>1. /\ NoCache \in CacheType /\ SoundCache(NoCache)
  BY DEF CacheType, NoCache, SoundCache, Range
<1>2. TypeOK
  <2>1. version \in Version
    BY BoundAssumption DEF Init, Version
  <2>2. [c \in Conversion |-> <<>>] \in [Conversion -> Seq(CacheType)]
    OBVIOUS
  <2> QED
    BY <1>1, <2>1, <2>2 DEF Init, TypeOK, Running
<1>3. CachesSound
  BY <1>1 DEF Init, CachesSound
<1>4. Merges
  BY DEF Init, Merges
<1> QED
  BY <1>2, <1>3, <1>4 DEF CacheInv

LEMMA SourceLayersAre ==
  ASSUME NEW c \in Conversion
  PROVE  SourceLayers(c) \subseteq Layer
<1>1. \A m \in Range(GetManifests(Image[c])) : m \in SourceType
  BY SourceManifests DEF Range
<1>2. \A m \in SourceType : Range(m.layers) \subseteq Layer
  BY DEF SourceType, Range
<1> QED
  BY <1>1, <1>2 DEF SourceLayers

LEMMA FetchCacheKeeps ==
  ASSUME CacheInv, NEW c \in Conversion, FetchCache(c) \/ FetchCacheFail(c)
  PROVE  CacheInv'
<1>1. /\ pc[c] = "start" /\ pc' = [pc EXCEPT ![c] = "fetched"]
      /\ UNCHANGED <<version, registry, gone, pulled, target, merged, toPush>>
  BY DEF FetchCache, FetchCacheFail, Goto
<1>2. TypeOK /\ CachesSound /\ Merges
  BY DEF CacheInv
<1>3. \E r \in RecordType : records' = [records EXCEPT ![c] = r]
  <2>1. CASE FetchCache(c)
    BY <1>2, <2>1, FetchedMade DEF FetchCache
  <2>2. CASE FetchCacheFail(c)
    <3>1. registry \in CacheType /\ records[c] \in RecordType
      BY <1>2 DEF TypeOK, RecordType
    <3>2. PICK done \in Prefixes(Reached(Imports(registry))) :
             records' = [records EXCEPT ![c] = Set(records[c], done)]
      BY <1>2, <2>2 DEF FetchCacheFail, TypeOK
    <3>3. done \in Seq(Layer \X Version)
      BY <3>1, <3>2, ImportsMade, ReachedMade
    <3> QED
      BY <3>1, <3>2, <3>3, SetMade
  <2> QED
    BY <2>1, <2>2
<1>4. TypeOK'
  BY <1>1, <1>2, <1>3 DEF TypeOK, Running, RecordType
<1>5. CachesSound'
  BY <1>1, <1>2 DEF CachesSound
<1>6. Merges'
  <2> SUFFICES ASSUME NEW d \in Conversion, pc'[d] \in {"converted", "pushing"}
               PROVE  pc'[d] = pc[d] /\ records'[d] = records[d]
    BY <1>1, <1>2 DEF Merges
  <2> QED
    BY <1>1, <1>2, <1>3 DEF TypeOK
<1> QED
  BY <1>4, <1>5, <1>6 DEF CacheInv

LEMMA ConvertKeeps ==
  ASSUME CacheInv, NEW c \in Conversion, Convert(c)
  PROVE  CacheInv'
<1>1. /\ pc[c] = "pulled" /\ pc' = [pc EXCEPT ![c] = "converted"]
      /\ UNCHANGED <<version, registry, gone, pulled, merged, toPush>>
  BY DEF Convert, Goto
<1>2. TypeOK /\ CachesSound /\ Merges
  BY DEF CacheInv
<1> DEFINE convert(l) == IF records[c][l] # None THEN records[c][l] ELSE version
           layers == [l \in Layer |-> IF l \in SourceLayers(c) THEN convert(l) ELSE None]
           after == [l \in Layer |-> IF layers[l] # None THEN layers[l] ELSE records[c][l]]
<1>3. /\ target' = [target EXCEPT ![c] = layers]
      /\ records' = [records EXCEPT ![c] = after]
  BY <1>2 DEF Convert, TypeOK
<1>4. None \notin Version
  BY DEF None, Version
<1>5. /\ layers \in RecordType /\ after \in RecordType
      /\ \A l \in SourceLayers(c) : after[l] # None
  <2>1. records[c] \in RecordType /\ version \in Version
    BY <1>2 DEF TypeOK, RecordType
  <2>2. layers \in RecordType /\ \A l \in SourceLayers(c) : layers[l] # None
    BY <1>4, <2>1, SourceLayersAre DEF RecordType
  <2> HIDE DEF layers
  <2> QED
    BY <2>1, <2>2, SourceLayersAre DEF RecordType
<1> HIDE DEF layers, after
<1>6. TypeOK'
  BY <1>1, <1>2, <1>3, <1>5 DEF TypeOK, Running, RecordType
<1>7. CachesSound'
  BY <1>1, <1>2 DEF CachesSound
<1>8. Merges'
  <2> SUFFICES ASSUME NEW d \in Conversion
               PROVE  /\ pc'[d] = "converted" =>
                             \A l \in SourceLayers(d) : records'[d][l] # None
                      /\ pc'[d] = "pushing" => pc[d] = "pushing"
    BY <1>1, <1>2 DEF Merges
  <2>1. CASE d = c
    BY <1>1, <1>2, <1>3, <1>5, <2>1 DEF TypeOK
  <2>2. CASE d # c
    BY <1>1, <1>2, <1>3, <2>2 DEF TypeOK, Merges
  <2> QED
    BY <2>1, <2>2
<1> QED
  BY <1>6, <1>7, <1>8 DEF CacheInv

LEMMA UpdateCacheKeeps ==
  ASSUME CacheInv, NEW c \in Conversion, UpdateCache(c)
  PROVE  CacheInv'
<1> DEFINE cache == IF Found THEN registry ELSE NoCache
           r == Fetched(c)
<1>1. /\ pc[c] = "converted" /\ pc' = [pc EXCEPT ![c] = "pushing"]
      /\ UNCHANGED <<version, registry, gone, pulled, target>>
      /\ records' = [records EXCEPT ![c] = r]
      /\ merged' = [merged EXCEPT ![c] = cache]
  BY DEF UpdateCache, Goto
<1>2. TypeOK /\ CachesSound /\ Merges
  BY DEF CacheInv
<1>3. PICK new \in Update(c, cache, r) : toPush' = [toPush EXCEPT ![c] = new]
  BY DEF UpdateCache
<1>4. r \in RecordType /\ \A l \in SourceLayers(c) : r[l] # None
  <2>1. \A l \in SourceLayers(c) : l \in Layer /\ records[c][l] # None
    BY <1>1, <1>2, SourceLayersAre DEF Merges
  <2> QED
    BY <1>2, <2>1, FetchedMade
<1>5. cache \in CacheType /\ SoundCache(cache)
  <2>1. NoCache \in CacheType /\ SoundCache(NoCache)
    BY DEF CacheType, NoCache, SoundCache, Range
  <2> QED
    BY <1>2, <2>1 DEF TypeOK, CachesSound
<1> HIDE DEF cache, r
<1>6. /\ new \in Seq(CacheType) /\ new # <<>>
      /\ \A i \in DOMAIN new : SoundCache(new[i])
      /\ cache.kind = Last(new).kind => KeepsLowerLayers(cache, Last(new))
      /\ CachesImage(Last(new), c)
  <2>1. version \in Version /\ r \in [Layer -> Version \cup {None}]
    BY <1>2, <1>4 DEF TypeOK, RecordType
  <2> QED
    BY <1>3, <1>4, <1>5, <2>1, UpdateMade
<1>7. TypeOK'
  BY <1>1, <1>2, <1>3, <1>4, <1>5, <1>6 DEF TypeOK, Running, RecordType
<1>8. \A d \in Conversion :
         /\ toPush'[d] = IF d = c THEN new ELSE toPush[d]
         /\ merged'[d] = IF d = c THEN cache ELSE merged[d]
         /\ pc'[d] = IF d = c THEN "pushing" ELSE pc[d]
         /\ records'[d] = IF d = c THEN r ELSE records[d]
  BY <1>1, <1>2, <1>3 DEF TypeOK
<1>9. CachesSound'
  BY <1>1, <1>2, <1>5, <1>6, <1>8 DEF CachesSound
<1>10. Merges'
  BY <1>2, <1>6, <1>8 DEF Merges
<1> QED
  BY <1>7, <1>9, <1>10 DEF CacheInv

LEMMA PushCacheKeeps ==
  ASSUME CacheInv, NEW c \in Conversion, PushCache(c)
  PROVE  CacheInv'
<1> DEFINE push == toPush[c]
<1>1. /\ pc[c] = "pushing"
      /\ registry' = Head(push) /\ toPush' = [toPush EXCEPT ![c] = Tail(push)]
      /\ pc' = IF Len(push) = 1 THEN [pc EXCEPT ![c] = "cached"] ELSE pc
      /\ UNCHANGED <<version, gone, records, pulled, target, merged>>
  BY DEF PushCache, Goto, CacheInv, TypeOK
<1>2. TypeOK /\ CachesSound /\ Merges
  BY DEF CacheInv
<1>3. push \in Seq(CacheType) /\ push # <<>> /\ \A i \in DOMAIN push : SoundCache(push[i])
  BY <1>1, <1>2 DEF TypeOK, CachesSound
<1> HIDE DEF push
<1>4. /\ Head(push) \in CacheType /\ SoundCache(Head(push))
      /\ Tail(push) \in Seq(CacheType)
      /\ \A i \in DOMAIN Tail(push) : SoundCache(Tail(push)[i])
      /\ Len(push) # 1 => Tail(push) # <<>> /\ Last(Tail(push)) = Last(push)
  <2>1. /\ Len(push) \in Nat /\ Len(push) >= 1 /\ Head(push) = push[1]
        /\ Tail(push) \in Seq(CacheType) /\ Len(Tail(push)) = Len(push) - 1
        /\ \A i \in 1..(Len(push) - 1) : Tail(push)[i] = push[i + 1]
    BY <1>3
  <2>2. 1 \in DOMAIN push /\ \A i \in 1..(Len(push) - 1) : i + 1 \in DOMAIN push
    BY <1>3, <2>1
  <2>3. \A i \in DOMAIN Tail(push) : SoundCache(Tail(push)[i])
    BY <1>3, <2>1, <2>2
  <2>4. ASSUME Len(push) # 1
        PROVE  Tail(push) # <<>> /\ Last(Tail(push)) = Last(push)
    <3>1. Len(Tail(push)) \in 1..(Len(push) - 1) /\ Len(Tail(push)) + 1 = Len(push)
      BY <2>1, <2>4
    <3>2. Tail(push)[Len(Tail(push))] = push[Len(push)]
      BY <2>1, <3>1
    <3>3. Tail(push) # <<>>
      <4> DEFINE t == Tail(push)
      <4>1. Len(t) \in 1..(Len(push) - 1)
        BY <3>1
      <4> HIDE DEF t
      <4>2. t # <<>>
        BY <2>1, <4>1
      <4> QED
        BY <4>2 DEF t
    <3>4. Last(Tail(push)) = Last(push)
      BY <3>2, Zenon DEF Last
    <3> QED
      BY <3>3, <3>4
  <2> QED
    BY <1>3, <2>1, <2>2, <2>3, <2>4
<1>5. \A d \in Conversion :
         /\ toPush'[d] = IF d = c THEN Tail(push) ELSE toPush[d]
         /\ pc'[d] = IF d = c /\ Len(push) = 1 THEN "cached" ELSE pc[d]
  BY <1>1, <1>2 DEF TypeOK
<1>6. TypeOK'
  <2>1. /\ toPush' \in [Conversion -> Seq(CacheType)]
        /\ pc' \in [Conversion -> Running \cup {"done", "failed"}]
    BY <1>1, <1>2, <1>4 DEF TypeOK, Running
  <2>2. \A d \in Conversion : pc'[d] = "pushing" => toPush'[d] # <<>>
    BY <1>2, <1>4, <1>5 DEF TypeOK
  <2> QED
    BY <1>1, <1>2, <1>4, <2>1, <2>2 DEF TypeOK
<1>7. CachesSound'
  BY <1>1, <1>2, <1>4, <1>5 DEF CachesSound
<1>8. Merges'
  <2> SUFFICES ASSUME NEW d \in Conversion, pc'[d] \in {"converted", "pushing"}
               PROVE  pc'[d] = pc[d] /\ (pc[d] = "pushing" => Last(toPush'[d]) = Last(toPush[d]))
    BY <1>1, <1>2 DEF Merges
  <2>1. CASE d = c
    BY <1>1, <1>4, <1>5, <2>1 DEF push
  <2>2. CASE d # c
    BY <1>5, <2>2
  <2> QED
    BY <2>1, <2>2
<1> QED
  BY <1>6, <1>7, <1>8 DEF CacheInv

\* The other steps take a conversion further, or end it, and push nothing.
LEMMA QuietKeeps ==
  ASSUME CacheInv,
         \/ \E c \in Conversion : Pull(c) \/ PushTarget(c) \/ Fail(c)
         \/ Upgrade
         \/ \E l \in Layer : Delete(l)
         \/ UNCHANGED vars
  PROVE  CacheInv'
<1>1. TypeOK /\ CachesSound /\ Merges
  BY DEF CacheInv
<1>2. /\ UNCHANGED <<registry, records, target, merged, toPush>>
      /\ pc' \in [Conversion -> Running \cup {"done", "failed"}]
      /\ \A d \in Conversion : pc'[d] \in {"converted", "pushing"} => pc'[d] = pc[d]
  <2>1. CASE \E c \in Conversion : Pull(c) \/ PushTarget(c) \/ Fail(c)
    BY <1>1, <2>1 DEF Pull, PushTarget, Fail, Goto, TypeOK, Running
  <2>2. CASE Upgrade
    BY <1>1, <2>2 DEF Upgrade, TypeOK, Running
  <2>3. CASE (\E l \in Layer : Delete(l)) \/ UNCHANGED vars
    BY <1>1, <2>3 DEF Delete, vars, TypeOK
  <2> QED
    BY <2>1, <2>2, <2>3
<1>3. version' \in Version
  BY <1>1, BoundAssumption
     DEF Pull, PushTarget, Fail, Upgrade, Delete, vars, TypeOK, Version
<1>4. gone' \subseteq Layer
  BY <1>1 DEF Pull, PushTarget, Fail, Upgrade, Delete, vars, TypeOK
<1>5. pulled' \in [Conversion -> SUBSET Layer]
  <2>1. CASE \E c \in Conversion : Pull(c)
    <3>1. PICK c \in Conversion :
             pulled' = [pulled EXCEPT ![c] = {l \in SourceLayers(c) : records[c][l] = None}]
      BY <2>1 DEF Pull
    <3> QED
      BY <1>1, <3>1, SourceLayersAre DEF TypeOK
  <2>2. CASE UNCHANGED pulled
    BY <1>1, <2>2 DEF TypeOK
  <2> QED
    BY <2>1, <2>2 DEF PushTarget, Fail, Upgrade, Delete, vars
<1>6. TypeOK'
  BY <1>1, <1>2, <1>3, <1>4, <1>5 DEF TypeOK
<1>7. CachesSound'
  BY <1>1, <1>2 DEF CachesSound
<1>8. Merges'
  BY <1>1, <1>2 DEF Merges
<1> QED
  BY <1>6, <1>7, <1>8 DEF CacheInv

LEMMA CacheStep == CacheInv /\ [Next]_vars => CacheInv'
BY FetchCacheKeeps, ConvertKeeps, UpdateCacheKeeps, PushCacheKeeps, QuietKeeps DEF Next

LEMMA CacheInvariant == Spec => []CacheInv
BY CacheInitial, CacheStep, PTL DEF Spec

-----------------------------------------------------------------------------
(* Theorems *)

\* Every variable of RemoteCache keeps its type; a conversion that pushes the
\* cache has something to push.
THEOREM TypeCorrect == Spec => []TypeOK
<1>1. CacheInv => TypeOK
  BY DEF CacheInv
<1> QED
  BY <1>1, CacheInvariant, PTL

\* A manifest of the cache has more layers than cache_size only if one image
\* has as many, however many conversions merged into it.
THEOREM TheCacheIsBounded == Spec => []CacheBounded
<1>1. CacheInv => CacheBounded
  BY DEF CacheInv, CachesSound, SoundCache, Sound, SourceManifest, CacheBounded
<1> QED
  BY <1>1, CacheInvariant, PTL

\* A target layer is in the cache at most as often as one image has its source.
THEOREM TheCacheHasNoCopies == Spec => []CachedAsOftenAsUsed
<1>1. CacheInv => CachedAsOftenAsUsed
  BY DEF CacheInv, CachesSound, SoundCache, Sound, SourceManifest, CachedAsOftenAsUsed
<1> QED
  BY <1>1, CacheInvariant, PTL

\* Only the last push of a conversion takes it on, and that is of the last value.
LEMMA LastPush ==
  ASSUME CacheInv, [Next]_vars, NEW c \in Conversion, Completes(c)
  PROVE  registry' = Last(toPush[c])
<1>1. PICK d \in Conversion : PushCache(d) /\ pc'[d] # pc[d] /\ d = c
  BY DEF CacheInv, TypeOK, Running, Completes, Next, vars, Goto, FetchCache, FetchCacheFail, Pull,
         Convert, UpdateCache, PushCache, PushTarget, Fail, Upgrade, Delete
<1>2. Len(toPush[c]) = 1 /\ registry' = Head(toPush[c])
  BY <1>1 DEF PushCache, Goto
<1> QED
  BY <1>2 DEF CacheInv, TypeOK, Last

\* When a conversion has pushed the cache, all its layers are in it unless the
\* manifest for its platform is full.
THEOREM ConvertedLayersAreCached == Spec => ConvertedIsCached
<1>1. ASSUME CacheInv, [Next]_vars, NEW c \in Conversion, Completes(c)
      PROVE  CachesImage(registry', c)
  BY <1>1, LastPush DEF CacheInv, Merges, Completes
<1>2. CacheInv /\ [Next]_vars =>
          [\A c \in Conversion : Completes(c) => CachesImage(registry', c)]_vars
  BY <1>1
<1> QED
  BY <1>2, CacheInvariant, PTL DEF Spec, ConvertedIsCached

\* Merging keeps the manifests found and, first in each, its lower layers.
THEOREM LowerLayersAreKept == Spec => MergeKeepsLower
<1>1. ASSUME CacheInv, [Next]_vars, NEW c \in Conversion, Completes(c),
             merged[c].kind = registry'.kind
      PROVE  KeepsLowerLayers(merged[c], registry')
  BY <1>1, LastPush DEF CacheInv, Merges, Completes
<1>2. CacheInv /\ [Next]_vars =>
          [\A c \in Conversion : (Completes(c) /\ merged[c].kind = registry'.kind) =>
               KeepsLowerLayers(merged[c], registry')]_vars
  BY <1>1
<1> QED
  BY <1>2, CacheInvariant, PTL DEF Spec, MergeKeepsLower
=============================================================================
