----------------------------- MODULE RemoteCache -----------------------------
(***************************************************************************)
(* pkg/cache and Converter.Convert: conversions that share a remote cache.   *)
(*                                                                         *)
(* The cache of a repository is an image in the registry, at the tag the     *)
(* rules give (cache_tag), whose layers are converted layers annotated with  *)
(* the digest of their source.  A conversion fetches it into its records,    *)
(* does not pull the layers it finds there, converts the others, fetches the *)
(* cache again, merges its records into it, pushes the result manifest by    *)
(* manifest, and only then pushes the target image.  Images of a repository  *)
(* have the same cache and different singleflight keys: their conversions    *)
(* run concurrently, and nothing guards the cache.                           *)
(*                                                                         *)
(* A layer is a digest.  A converted layer is determined by its source and   *)
(* by the cache_version configured when it was made: <<source, made>>.       *)
(***************************************************************************)
EXTENDS Selection

CONSTANTS Conversion,  \* the conversions, each of an image of its own
          Layer,       \* digests of source layers
          Platform,
          Selected,    \* the platforms that platformMC matches
          Image,       \* Image[c]: the source image of c
          Size,        \* cache_size
          MaxVersion,  \* bound: cache_version is 1, then 2, ...
          MaxGone      \* bound: source layers deleted from the registry

Version == 1..MaxVersion
None == 0       \* no record

\* A manifest of an image, and an image: one manifest or an index of several.
Kind == {"manifest", "index"}
ImageType == [kind: Kind, manifests: Seq([platform: Platform, layers: Seq(Layer)])]

ASSUME ImageAssumption ==
    \A c \in Conversion :
        /\ Image[c] \in ImageType
        /\ Image[c].kind = "manifest" => Len(Image[c].manifests) = 1
        /\ Image[c].kind = "index" =>
               \E m \in Range(Image[c].manifests) : m.platform \in Selected
        /\ \A i, j \in DOMAIN Image[c].manifests : i # j =>
               Image[c].manifests[i].platform # Image[c].manifests[j].platform
ASSUME SelectedAssumption == Selected \subseteq Platform
ASSUME BoundAssumption ==
    Size \in Nat /\ MaxVersion \in Nat \ {0} /\ MaxGone \in Nat

VARIABLES version,   \* cache_version of the running daemon
          registry,  \* what the cache reference resolves to
          gone,      \* source layers the registry has no more
          pc,        \* pc[c]: where conversion c is
          records,   \* records[c][l]: the version the target of l was made in
          pulled,    \* pulled[c]: the layers that c pulled
          target,    \* target[c][l]: what the layers of the target image are
          merged,    \* merged[c]: the cache that c merged its records into
          toPush     \* toPush[c]: the values of the cache reference still to push

vars == <<version, registry, gone, pc, records, pulled, target, merged, toPush>>

NoCache == [kind |-> "none", manifests |-> <<>>]

\* A cache image: manifests with the version they are annotated with.
ManifestType == [platform: Platform, version: Version, layers: Seq(Layer \X Version)]
CacheType == {NoCache} \cup [kind: Kind, manifests: Seq(ManifestType)]

Running == {"start", "fetched", "pulled", "converted", "pushing", "cached"}

TypeOK ==
    /\ version \in Version
    /\ registry \in CacheType
    /\ gone \subseteq Layer
    /\ pc \in [Conversion -> Running \cup {"done", "failed"}]
    /\ records \in [Conversion -> [Layer -> Version \cup {None}]]
    /\ pulled \in [Conversion -> SUBSET Layer]
    /\ target \in [Conversion -> [Layer -> Version \cup {None}]]
    /\ merged \in [Conversion -> CacheType]
    /\ toPush \in [Conversion -> Seq(CacheType)]
    /\ \A c \in Conversion : pc[c] = "pushing" => toPush[c] # <<>>

Init ==
    /\ version = 1
    /\ registry = NoCache
    /\ gone = {}
    /\ pc = [c \in Conversion |-> "start"]
    /\ records = [c \in Conversion |-> [l \in Layer |-> None]]
    /\ pulled = [c \in Conversion |-> {}]
    /\ target = [c \in Conversion |-> [l \in Layer |-> None]]
    /\ merged = [c \in Conversion |-> NoCache]
    /\ toPush = [c \in Conversion |-> <<>>]

-----------------------------------------------------------------------------
\* utils.GetManifests: a single manifest whatever its platform, of an index the
\* manifests of the selected platforms.
GetManifests(image) ==
    IF image.kind = "index"
    THEN Keep(image.manifests,
              {m \in Range(image.manifests) : m.platform \in Selected})
    ELSE image.manifests

SourceLayers(c) ==
    UNION {Range(m.layers) : m \in Range(GetManifests(Image[c]))}

-----------------------------------------------------------------------------
(***************************************************************************)
(* Fetch.  importManifestRecords ignores a manifest of another version.  It  *)
(* asks the registry for the source of every layer and stops at the first    *)
(* that is gone, with the error of a cache that does not exist.              *)
(***************************************************************************)
ImportManifestRecords(manifest) ==
    IF manifest.version = version THEN manifest.layers ELSE <<>>

Imports(cache) ==
    LET ms == GetManifests(cache)
    IN  FlattenSeq([i \in DOMAIN ms |-> ImportManifestRecords(ms[i])])

\* rc.set, layer after layer.
Set(r, layers) ==
    [l \in Layer |->
        LET hits == {i \in DOMAIN layers : layers[i][1] = l}
        IN  IF hits = {} THEN r[l] ELSE layers[Max(hits)][2]]

Missing(layers) == {i \in DOMAIN layers : layers[i][1] \in gone}

Reached(layers) ==
    IF Missing(layers) = {} THEN layers
                            ELSE SubSeq(layers, 1, Min(Missing(layers)) - 1)

Found == registry # NoCache /\ Missing(Imports(registry)) = {}

Fetched(c) == Set(records[c], Reached(Imports(registry)))

-----------------------------------------------------------------------------
(***************************************************************************)
(* update.                                                                 *)
(***************************************************************************)
\* getTargetLayers
TargetLayers(layers, r) ==
    LET known == Keep(layers, {l \in Layer : r[l] # None})
    IN  [i \in DOMAIN known |-> <<known[i], r[known[i]]>>]

\* Mutants: a layer already cached is appended again; nothing is cut off; layers
\* already cached move to the front, as the comment of appendLayers has it; the
\* loop stops one layer early.
AppendLayersAgain(orgDescs, newDescs) ==
    LET all == orgDescs \o newDescs
    IN  SubSeq(all, 1, Min({Size, Len(all)}))

AppendLayersUncut(orgDescs, newDescs) ==
    orgDescs \o Keep(newDescs, Range(newDescs) \ Range(orgDescs))

AppendLayersFront(orgDescs, newDescs) ==
    LET all == Keep(orgDescs, Range(newDescs))
                   \o Keep(orgDescs, Range(orgDescs) \ Range(newDescs))
                   \o Keep(newDescs, Range(newDescs) \ Range(orgDescs))
    IN  SubSeq(all, 1, Min({Size, Len(all)}))

AppendLayersShort(orgDescs, newDescs) ==
    LET new == Keep(newDescs, Range(newDescs) \ Range(orgDescs))
        all == orgDescs \o new
    IN  SubSeq(all, 1, Min({Size - 1, Len(all)}))

\* appendLayers: the loop stops at size, what is beyond size is cut off.
AppendLayers(orgDescs, newDescs) ==
    LET new == Keep(newDescs, Range(newDescs) \ Range(orgDescs))
        all == orgDescs \o new
    IN  SubSeq(all, 1, Min({Size, Len(all)}))

\* A manifest of a platform made new, or merged with the one in the cache.
NewManifest(m, r) ==
    [platform |-> m.platform, version |-> version,
     layers |-> TargetLayers(m.layers, r)]

MergedManifest(old, m, r) ==
    [platform |-> old.platform, version |-> version,
     layers |-> AppendLayers(old.layers, TargetLayers(m.layers, r))]

\* A manifest on its own, and what is pushed for an index: pushing a manifest
\* by the reference moves the reference to it, so an index comes last.
Single(manifest) == [kind |-> "manifest", manifests |-> <<manifest>>]

PushIndex(manifests) ==
    [i \in DOMAIN manifests |-> Single(manifests[i])]
        \o <<[kind |-> "index", manifests |-> manifests]>>

\* The manifests of the cache index after the merge with the image's manifests.
MergedIndex(cache, ms, r) ==
    [i \in DOMAIN cache.manifests |->
        LET old == cache.manifests[i]
            match == {j \in DOMAIN ms : ms[j].platform = old.platform}
        IN  IF match = {} THEN old
                          ELSE MergedManifest(old, ms[Min(match)], r)]

\* What Push will push, one by one, for the image of c, records r and the
\* cache that Fetch found.  New manifests come in the order of a Go map.
Update(c, cache, r) ==
    LET ms == GetManifests(Image[c])
        old == IF cache.kind = "index" THEN MergedIndex(cache, ms, r) ELSE <<>>
        fresh == {m \in Range(ms) :
                     cache.kind = "index" =>
                         \A o \in Range(cache.manifests) : o.platform # m.platform}
        NewManifests(ord) == [i \in DOMAIN ord |-> NewManifest(ord[i], r)]
    IN  IF cache.kind = "manifest" /\ Len(ms) = 1
        THEN {<<Single(MergedManifest(cache.manifests[1], ms[1], r))>>}
        ELSE IF cache = NoCache /\ Len(ms) = 1
        THEN {<<Single(NewManifest(ms[1], r))>>}
        ELSE {PushIndex(old \o NewManifests(ord)) : ord \in SetToSeqs(fresh)}

-----------------------------------------------------------------------------
(***************************************************************************)
(* Converter.Convert, step by step.                                        *)
(***************************************************************************)
Goto(c, l) == pc' = [pc EXCEPT ![c] = l]

\* The cache is fetched; that it does not exist is no error.
FetchCache(c) ==
    /\ pc[c] = "start"
    /\ records' = [records EXCEPT ![c] = Fetched(c)]
    /\ Goto(c, "fetched")
    /\ UNCHANGED <<version, registry, gone, pulled, target, merged, toPush>>

\* Any other error is only logged: what was imported before it is used.
FetchCacheFail(c) ==
    /\ pc[c] = "start"
    /\ \E done \in Prefixes(Reached(Imports(registry))) :
           records' = [records EXCEPT ![c] = Set(@, done)]
    /\ Goto(c, "fetched")
    /\ UNCHANGED <<version, registry, gone, pulled, target, merged, toPush>>

\* The content store takes a layer with a record for present: Writer answers
\* ErrAlreadyExists and the layer is not pulled.
Pull(c) ==
    /\ pc[c] = "fetched"
    /\ pulled' = [pulled EXCEPT
                     ![c] = {l \in SourceLayers(c) : records[c][l] = None}]
    /\ pulled'[c] \cap gone = {}
    /\ Goto(c, "pulled")
    /\ UNCHANGED <<version, registry, gone, records, target, merged, toPush>>

\* The driver converts the layers that have no target yet; cache.Set records
\* every layer of the target image.
Convert(c) ==
    /\ pc[c] = "pulled"
    /\ LET convert(l) == IF records[c][l] # None THEN records[c][l] ELSE version
           layers == [l \in Layer |-> IF l \in SourceLayers(c) THEN convert(l)
                                                              ELSE None]
       IN  /\ target' = [target EXCEPT ![c] = layers]
           /\ records' = [records EXCEPT
                  ![c] = [l \in Layer |-> IF layers[l] # None THEN layers[l]
                                                              ELSE @[l]]]
    /\ Goto(c, "converted")
    /\ UNCHANGED <<version, registry, gone, pulled, merged, toPush>>

\* RemoteCache.Push: Fetch once more, then update.
UpdateCache(c) ==
    /\ pc[c] = "converted"
    /\ LET cache == IF Found THEN registry ELSE NoCache
       IN  /\ records' = [records EXCEPT ![c] = Fetched(c)]
           /\ merged' = [merged EXCEPT ![c] = cache]
           /\ \E new \in Update(c, cache, Fetched(c)) :
                  toPush' = [toPush EXCEPT ![c] = new]
    /\ Goto(c, "pushing")
    /\ UNCHANGED <<version, registry, gone, pulled, target>>

\* Mutant: the loop over the manifests goes one too far.
PushCacheOver(c) ==
    /\ pc[c] = "pushing"
    /\ registry' = Head(toPush[c])
    /\ toPush' = [toPush EXCEPT ![c] = Tail(@)]
    /\ IF toPush[c] = <<>> THEN Goto(c, "cached") ELSE UNCHANGED pc
    /\ UNCHANGED <<version, gone, records, pulled, target, merged>>

\* provider.Push of one manifest, or of the index in the end.
PushCache(c) ==
    /\ pc[c] = "pushing"
    /\ registry' = Head(toPush[c])
    /\ toPush' = [toPush EXCEPT ![c] = Tail(@)]
    /\ IF Len(toPush[c]) = 1 THEN Goto(c, "cached") ELSE UNCHANGED pc
    /\ UNCHANGED <<version, gone, records, pulled, target, merged>>

PushTarget(c) ==
    /\ pc[c] = "cached"
    /\ Goto(c, "done")
    /\ UNCHANGED <<version, registry, gone, records, pulled, target, merged, toPush>>

\* The error returns of the pull, of the driver, of Fetch in Push, of pushing
\* the cache and of pushing the target.
Fail(c) ==
    /\ pc[c] \in Running \ {"start"}
    /\ Goto(c, "failed")
    /\ UNCHANGED <<version, registry, gone, records, pulled, target, merged, toPush>>

-----------------------------------------------------------------------------
(***************************************************************************)
(* The environment.                                                        *)
(***************************************************************************)
\* The daemon is restarted with another cache_version; what runs is lost.
Upgrade ==
    /\ version < MaxVersion
    /\ version' = version + 1
    /\ pc' = [c \in Conversion |->
                 IF pc[c] \in Running \ {"start"} THEN "failed" ELSE pc[c]]
    /\ UNCHANGED <<registry, gone, records, pulled, target, merged, toPush>>

\* The registry drops a layer after its images were deleted.
Delete(l) ==
    /\ Cardinality(gone) < MaxGone
    /\ l \notin gone
    /\ \A c \in Conversion : pc[c] \in Running => l \notin SourceLayers(c)
    /\ gone' = gone \cup {l}
    /\ UNCHANGED <<version, registry, pc, records, pulled, target, merged, toPush>>

Next ==
    \/ \E c \in Conversion :
           \/ FetchCache(c) \/ FetchCacheFail(c)
           \/ Pull(c)
           \/ Convert(c)
           \/ UpdateCache(c) \/ PushCache(c)
           \/ PushTarget(c)
           \/ Fail(c)
    \/ Upgrade
    \/ \E l \in Layer : Delete(l)

Spec == Init /\ [][Next]_vars

-----------------------------------------------------------------------------
(***************************************************************************)
(* Properties.                                                             *)
(***************************************************************************)
\* However many conversions merge into it, a manifest of the cache grows past
\* cache_size only if one image alone has more layers: update cuts what it
\* appends to, but not a manifest that it makes new (cache.go:462-467, 533).
CacheBounded ==
    \A m \in Range(registry.manifests) :
        \/ Len(m.layers) <= Size
        \/ \E c \in Conversion : \E s \in Range(Image[c].manifests) :
               Len(m.layers) <= Len(s.layers)

\* Conversions of images that share layers do not fill the cache with copies of
\* one target layer: it is cached at most as often as one image contains its
\* source (cache.go:518-526).
CachedAsOftenAsUsed ==
    \A m \in Range(registry.manifests) : \A e \in Range(m.layers) :
        \E c \in Conversion : \E s \in Range(Image[c].manifests) :
            Count(m.layers, e) <= Count(s.layers, e[1])

\* The last push of conversion c, of the index or of the only manifest.
Completes(c) == pc[c] = "pushing" /\ pc'[c] = "cached"

Full(m) == Len(m.layers) >= Size

\* Every layer of manifest s is a source of layers of the cached manifest m.
HasLayersOf(m, s) == \A l \in Range(s.layers) : \E e \in Range(m.layers) : e[1] = l

CachesImage(cache, c) ==
    \A s \in Range(GetManifests(Image[c])) :
        \E m \in Range(cache.manifests) :
            /\ cache.kind = "index" => m.platform = s.platform
            /\ Full(m) \/ HasLayersOf(m, s)

\* When a conversion has pushed the cache, every layer of its image is found
\* there under the platform it was converted for, unless the manifest is full:
\* the next conversion need not convert it again (cache.go:312-328).
ConvertedIsCached ==
    [][\A c \in Conversion : Completes(c) => CachesImage(registry', c)]_vars

KeepsLowerLayers(cache, new) ==
    \A i \in DOMAIN cache.manifests :
        LET old == cache.manifests[i].layers
        IN  \/ new.manifests[i].layers = old
            \/ IsPrefix(SubSeq(old, 1, Min({Size, Len(old)})), new.manifests[i].layers)

\* Merging takes nothing from the cache it merges into as long as that keeps
\* its kind: the manifests found stay, in their places, and each keeps its
\* layers in their order, first, up to cache_size ("it preferentially keep the
\* lower layers if the cache capacity is full", cache.go:330).  The comment "if
\* the layers already exists, moving them to front" (cache.go:516-517) says
\* otherwise, and is not so: a layer used again stays where it is.
MergeKeepsLower ==
    [][\A c \in Conversion : (Completes(c) /\ merged[c].kind = registry'.kind) =>
           KeepsLowerLayers(merged[c], registry')]_vars

\* "cache in remote must match the specified version, or discard cache"
\* (misc/config/config.nydus.yaml:37): the layers of a target image were made
\* under the configured version.
TargetMatchesVersion ==
    \A c \in Conversion : pc[c] \in {"converted", "pushing", "cached"} =>
        \A l \in SourceLayers(c) : target[c][l] = version

=============================================================================
