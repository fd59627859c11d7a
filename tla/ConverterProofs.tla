---------------------------- MODULE ConverterProofs ----------------------------
(***************************************************************************)
(* Theorems of Converter, for any conversions, references and images: what   *)
(* the state that conversions share does to one of them.                     *)
(***************************************************************************)
EXTENDS Converter, SelectionProofs

\* A blob is in the store, or a conversion has it in its remote cache.
There(b) == b \in store \/ \E d \in Conversion : b \in records[d]

\* A conversion has asked for blobs only while it fetches, an image that it has
\* resolved, and runs once.
Local ==
    \A c \in Conversion :
        /\ pc[c] # "fetch" => asked[c] = {}
        /\ pc[c] = "fetch" => pulls[c] # 0
        /\ pc[c] = "idle" => records[c] = {}
        /\ pc[c] \in {"idle", "resolve", "fetch", "image", "convert",
                        "recurse"} => made[c] = 0

\* The leader of a fetch waits for it as the others do.
Led == \A b \in Blob : leader[b] # Nobody => b \in waits[leader[b]]

\* A fetch that returned without an error has brought its blob.
Arrived ==
    \A c \in Conversion : pc[c] = "fetch" /\ err[c] = "none" =>
        \A b \in asked[c] \ waits[c] : There(b)

\* What a reference names has been pulled as long as someone is to read it.
Complete ==
    \A c \in Conversion : pc[c] \in Pulled =>
        /\ images[Source[c]] # 0
        /\ \A b \in BlobsOf[Source[c]][images[Source[c]]] : There(b)

\* Two that run for one reference have met; one that has met none reads what it
\* resolved.
Alone ==
    /\ \A c, d \in Conversion :
           c # d /\ Source[c] = Source[d] /\ Runs(c) /\ Runs(d) => c \in met
    /\ \A c \in Conversion \ met : pc[c] \in Pulled => images[Source[c]] = pulls[c]
    /\ LoneConversionIsFresh

\* No request failed otherwise than for its scheme, and none was canceled.
Undisturbed == mishaps = 0 /\ canceled = {}

\* The errors of conversions that run, and the switch to plain HTTP.
Causes ==
    /\ \A c \in Conversion :
           /\ retried[c] => plainHTTP
           /\ pc[c] \notin {"idle", "resolve"} \cup Ended =>
                  plainHTTP \/ "https" \in Serves[Source[c]]
           /\ pc[c] \notin {"fetch"} \cup Ended => err[c] = "none"
           /\ Undisturbed /\ Runs(c) => err[c] = "none"
    /\ Undisturbed /\ plainHTTP =>
           \E d \in Conversion : pc[d] # "idle" /\ "https" \notin Serves[Source[d]]

Inv == TypeOK /\ Local /\ Led /\ Arrived /\ Complete /\ Alone /\ Causes

-----------------------------------------------------------------------------
LEMMA ImageFacts ==
  \A r \in Ref :
      /\ 1 \in Versions(r) /\ Versions(r) \subseteq Nat \ {0}
      /\ \A v \in Versions(r) :
             /\ Root(r, v) \in BlobsOf[r][v] /\ BlobsOf[r][v] \subseteq Blob
             /\ LayersOf[r][v] \subseteq BlobsOf[r][v] /\ LayersOf[r][v] \subseteq Layer
<1> SUFFICES ASSUME NEW r \in Ref
             PROVE  /\ 1 \in Versions(r) /\ Versions(r) \subseteq Nat \ {0}
                    /\ \A v \in Versions(r) :
                         /\ Root(r, v) \in BlobsOf[r][v] /\ BlobsOf[r][v] \subseteq Blob
                         /\ LayersOf[r][v] \subseteq BlobsOf[r][v]
                         /\ LayersOf[r][v] \subseteq Layer
  OBVIOUS
<1>1. Versions(r) = 1..Len(Image[r]) /\ Len(Image[r]) \in Nat \ {0}
  BY ImageAssumption DEF Versions
<1>2. ASSUME NEW v \in Versions(r)
      PROVE  /\ Root(r, v) \in BlobsOf[r][v] /\ BlobsOf[r][v] \subseteq Blob
             /\ LayersOf[r][v] \subseteq BlobsOf[r][v] /\ LayersOf[r][v] \subseteq Layer
  <2>1. /\ BlobsOf[r][v] = {Root(r, v)} \cup LayersOf[r][v]
        /\ v \in DOMAIN BlobsOf[r] /\ v \in DOMAIN LayersOf[r]
    BY <1>2 DEF BlobsOf, LayersOf
  <2>2. BlobsOf[r][v] \in Range(BlobsOf[r]) /\ LayersOf[r][v] \in Range(LayersOf[r])
    BY <2>1 DEF Range
  <2>3. BlobsOf[r][v] \subseteq Blob
    BY <2>2 DEF Blob
  <2>4. LayersOf[r][v] \subseteq Layer
    BY <2>2 DEF Layer
  <2> QED
    BY <2>1, <2>3, <2>4
<1> QED
  BY <1>1, <1>2

LEMMA Counted == ASSUME TypeOK PROVE Cardinality(canceled) \in Nat
<1>1. canceled \subseteq Conversion
  BY ConversionAssumption DEF TypeOK
<1> QED
  BY <1>1, ConversionAssumption, FS_Subset, FS_CardinalityType

LEMMA MishapBound ==
  ASSUME TypeOK, Mishap
  PROVE  mishaps' \in 0..MaxFault /\ mishaps' > 0 /\ mishaps' >= mishaps
BY Counted, FaultAssumption DEF Mishap, Faults, TypeOK

LEMMA NoFaults ==
  ASSUME NEW n \in Nat, NEW S \in SUBSET Conversion
  PROVE  n + Cardinality(S) = 0 <=> n = 0 /\ S = {}
<1>1. IsFiniteSet(S)
  BY ConversionAssumption, FS_Subset
<1>2. (Cardinality(S) = 0 <=> S = {}) /\ Cardinality(S) \in Nat
  BY <1>1, FS_EmptySet, FS_CardinalityType
<1> QED
  BY <1>2

\* A request that fails does so for its scheme, or there was a mishap.
LEMMA Refusal ==
  ASSUME TypeOK, NEW c \in Conversion, NEW e, RequestFails(c, e)
  PROVE  /\ e \in {"refused", "error"}
         /\ mishaps' \in 0..MaxFault /\ mishaps' >= mishaps
         /\ mishaps' = 0 => e = "refused" /\ ~Reaches(c, plainHTTP) /\ mishaps = 0
<1>1. mishaps \in 0..MaxFault /\ MaxFault \in Nat
  BY FaultAssumption DEF TypeOK
<1>2. CASE Mishap
  BY <1>1, <1>2, MishapBound DEF RequestFails
<1>3. CASE ~Mishap
  BY <1>1, <1>3 DEF RequestFails
<1> QED
  BY <1>2, <1>3

\* What a failure or a retry does to the types, and whom it touches.
LEMMA RetryTypes ==
  ASSUME TypeOK, NEW c \in Conversion, NEW e \in Errors, NEW from \in {"resolve", "push"},
         OrRetry(c, e, from) \/ Fail(c, e)
  PROVE  /\ pc' \in [Conversion -> {"idle", "resolve", "fetch", "image", "convert",
                                    "recurse", "pushCache", "push"} \cup Ended]
         /\ err' \in [Conversion -> Errors] /\ retried' \in [Conversion -> BOOLEAN]
         /\ plainHTTP' \in BOOLEAN
         /\ plainHTTP => plainHTTP'
         /\ pc'[c] \in {from, "failed"}
         /\ pc'[c] = from => /\ e = "refused" /\ plainHTTP' /\ err' = err
         /\ pc'[c] # "failed" => OrRetry(c, e, from)
         /\ \A d \in Conversion : d # c =>
                pc'[d] = pc[d] /\ err'[d] = err[d] /\ retried'[d] = retried[d]
<1>1. CASE Fail(c, e)
  BY <1>1 DEF Fail, goto, TypeOK, Ended
<1>2. CASE OrRetry(c, e, from) /\ e = "refused" /\ ~retried[c]
  <2>1. /\ plainHTTP' = TRUE /\ UNCHANGED err
        /\ retried' = [retried EXCEPT ![c] = TRUE] /\ pc' = [pc EXCEPT ![c] = from]
    BY <1>2 DEF OrRetry, goto
  <2> QED
    BY <1>2, <2>1 DEF TypeOK
<1>3. CASE OrRetry(c, e, from) /\ ~(e = "refused" /\ ~retried[c])
  <2>1. Fail(c, e)
    BY <1>3 DEF OrRetry
  <2> QED
    BY <1>1, <2>1
<1> QED
  BY <1>1, <1>2, <1>3

\* Steps that make nothing, and after which no more conversions run or read.
LEMMA AloneKept ==
  ASSUME Alone, UNCHANGED <<images, pulls, made, met>>,
         \A c \in Conversion :
             /\ Runs(c)' => Runs(c)
             /\ pc'[c] \in Pulled => pc[c] \in Pulled
  PROVE  Alone'
<1>1. \A c, d \in Conversion :
         c # d /\ Source[c] = Source[d] /\ Runs(c)' /\ Runs(d)' => c \in met'
  BY DEF Alone, Runs
<1>2. \A c \in Conversion \ met' : pc'[c] \in Pulled => images'[Source[c]] = pulls'[c]
  BY DEF Alone, Runs
<1>3. LoneConversionIsFresh'
  BY DEF Alone, LoneConversionIsFresh
<1> QED
  BY <1>1, <1>2, <1>3 DEF Alone

\* Steps that delete no blob and leave fetches alone.
LEMMA ArrivedKept ==
  ASSUME Arrived, \A b : There(b) => There(b)',
         \A c \in Conversion : pc'[c] = "fetch" =>
             /\ pc[c] = "fetch"
             /\ err'[c] = err[c] /\ asked'[c] = asked[c] /\ waits'[c] = waits[c]
  PROVE  Arrived'
BY DEF Arrived

-----------------------------------------------------------------------------
(* Every action keeps the invariant *)

LEMMA FetchCacheStep ==
  ASSUME Inv, NEW c \in Conversion, FetchCache(c)
  PROVE  Inv'
<1> USE ConversionAssumption
    DEF Inv, FetchCache, goto, Reaches, Runs, Ended, registry, provider, fetches, output,
        faults
<1>a. /\ mishaps' \in 0..MaxFault /\ mishaps' >= mishaps
      /\ mishaps' # mishaps => plainHTTP' = TRUE
  BY MishapBound DEF TypeOK
<1>b. /\ plainHTTP' \in BOOLEAN /\ (plainHTTP => plainHTTP')
      /\ plainHTTP' /\ ~plainHTTP /\ mishaps' = mishaps => "https" \notin Serves[Source[c]]
  <2>1. CASE UNCHANGED plainHTTP
    BY <2>1 DEF TypeOK
  <2>2. CASE plainHTTP' = (plainHTTP \/ ~Reaches(c, plainHTTP))
    BY <2>2 DEF TypeOK
  <2>3. CASE Mishap /\ plainHTTP' = TRUE
    <3>1. mishaps' # mishaps
      BY <2>3, FaultAssumption DEF Mishap, TypeOK
    <3> QED
      BY <2>3, <3>1
  <2> QED
    BY <2>1, <2>2, <2>3
<1>1. TypeOK'
  <2>1. records' \in [Conversion -> SUBSET Layer]
    BY CachedAssumption DEF TypeOK
  <2>2. met' \subseteq Conversion
    BY DEF TypeOK
  <2> QED
    BY <1>a, <1>b, <2>1, <2>2 DEF TypeOK
<1>2. Local'
  BY ImageFacts DEF TypeOK, Local, Ended
<1>3. Led'
  BY DEF TypeOK, Led
<1>4. Arrived'
  BY DEF TypeOK, Local, Arrived, There
<1>5. Complete'
  BY DEF TypeOK, Local, Complete, There, Pulled
<1>6. Alone'
  BY DEF TypeOK, Local, Alone, LoneConversionIsFresh, Pulled, Runs, Ended
<1>7. Causes'
  <2>1. /\ UNCHANGED <<err, retried, canceled>>
        /\ pc[c] = "idle" /\ pc'[c] = "resolve"
        /\ \A d \in Conversion : d # c => pc'[d] = pc[d]
    BY DEF TypeOK
  <2>2. ASSUME Undisturbed'
        PROVE  Undisturbed /\ mishaps' = mishaps
    BY <1>a, <2>1, <2>2, FaultAssumption DEF Undisturbed, TypeOK
  <2>3. err[c] = "none"
    BY <2>1 DEF Causes
  <2>4. ASSUME NEW d \in Conversion
        PROVE  /\ retried'[d] => plainHTTP'
               /\ pc'[d] \notin {"idle", "resolve"} \cup Ended =>
                      plainHTTP' \/ "https" \in Serves[Source[d]]
               /\ pc'[d] \notin {"fetch"} \cup Ended => err'[d] = "none"
               /\ Undisturbed' /\ Runs(d)' => err'[d] = "none"
    BY <1>b, <2>1, <2>2, <2>3 DEF Causes
  <2>5. ASSUME Undisturbed', plainHTTP'
        PROVE  \E d \in Conversion : pc'[d] # "idle" /\ "https" \notin Serves[Source[d]]
    <3>1. CASE plainHTTP
      BY <2>1, <2>2, <2>5, <3>1 DEF Causes
    <3>2. CASE ~plainHTTP
      BY <1>b, <2>1, <2>2, <2>5, <3>2
    <3> QED
      BY <3>1, <3>2
  <2> QED
    BY <2>4, <2>5 DEF Causes
<1> QED
  BY <1>1, <1>2, <1>3, <1>4, <1>5, <1>6, <1>7

LEMMA ResolveStep ==
  ASSUME Inv, NEW c \in Conversion, Resolve(c)
  PROVE  Inv'
<1> USE ConversionAssumption
    DEF Inv, Resolve, goto, Reaches, registry, provider, fetches, output, faults
<1>a. tag[Source[c]] \in Versions(Source[c]) /\ tag[Source[c]] \in Nat \ {0}
  BY ImageFacts DEF TypeOK
<1>1. TypeOK'
  <2>1. /\ pulls' \in [Conversion -> Nat]
        /\ \A d \in Conversion : pulls'[d] \in {0} \cup Versions(Source[d])
    BY <1>a DEF TypeOK
  <2> QED
    BY <2>1 DEF TypeOK
<1>2. Local'
  BY <1>a DEF TypeOK, Local
<1>3. Led'
  BY DEF TypeOK, Led
<1>4. Arrived'
  BY DEF TypeOK, Local, Arrived, There
<1>5. Complete'
  BY DEF TypeOK, Local, Complete, There, Pulled
<1>6. Alone'
  BY DEF TypeOK, Local, Alone, LoneConversionIsFresh, Pulled, Runs, Ended
<1>7. Causes'
  BY DEF TypeOK, Causes, Undisturbed, Runs, Ended
<1> QED
  BY <1>1, <1>2, <1>3, <1>4, <1>5, <1>6, <1>7

LEMMA ResolveFailStep ==
  ASSUME Inv, NEW c \in Conversion, ResolveFail(c)
  PROVE  Inv'
<1> USE ConversionAssumption
    DEF Inv, ResolveFail, registry, provider, fetches, output, faults
<1>e. PICK e \in Errors : RequestFails(c, e) /\ OrRetry(c, e, "resolve")
  OBVIOUS
<1>a. /\ mishaps' \in 0..MaxFault /\ mishaps' >= mishaps
      /\ mishaps' = 0 => e = "refused" /\ ~Reaches(c, plainHTTP) /\ mishaps = 0
  BY <1>e, Refusal
<1>b. /\ pc[c] = "resolve" /\ pc'[c] \in {"resolve", "failed"}
      /\ plainHTTP' \in BOOLEAN /\ (plainHTTP => plainHTTP')
      /\ pc'[c] = "resolve" => plainHTTP' /\ err' = err
      /\ \A d \in Conversion : d # c =>
             pc'[d] = pc[d] /\ err'[d] = err[d] /\ retried'[d] = retried[d]
  BY <1>e, RetryTypes
<1>1. TypeOK'
  <2>1. /\ pc' \in [Conversion -> {"idle", "resolve", "fetch", "image", "convert",
                                  "recurse", "pushCache", "push"} \cup Ended]
        /\ err' \in [Conversion -> Errors] /\ retried' \in [Conversion -> BOOLEAN]
        /\ plainHTTP' \in BOOLEAN
    BY <1>e, RetryTypes
  <2> QED
    BY <1>a, <2>1 DEF TypeOK
<1>2. Local'
  BY <1>b, ImageFacts DEF TypeOK, Local, Ended
<1>3. Led'
  BY DEF TypeOK, Led
<1>4. Arrived'
  <2>1. \A d \in Conversion : pc'[d] = "fetch" =>
             /\ pc[d] = "fetch"
             /\ err'[d] = err[d] /\ asked'[d] = asked[d] /\ waits'[d] = waits[d]
    BY <1>b DEF TypeOK
  <2>2. \A b : There(b) => There(b)'
    BY DEF TypeOK, There
  <2> QED
    BY <2>1, <2>2, ArrivedKept
<1>5. Complete'
  BY <1>b DEF TypeOK, Local, Complete, There, Pulled
<1>6. Alone'
  <2>1. \A d \in Conversion :
             /\ Runs(d)' => Runs(d)
             /\ pc'[d] \in Pulled => pc[d] \in Pulled
    BY <1>b DEF TypeOK, Runs, Ended, Pulled
  <2> QED
    BY <2>1, AloneKept
<1>7. Causes'
  <2>1. /\ retried'[c] => plainHTTP'
        /\ plainHTTP' # plainHTTP => e = "refused"
        /\ \A d \in Conversion : Runs(d)' => err'[d] = err[d] /\ Runs(d)
    BY <1>b, <1>e DEF TypeOK, OrRetry, Fail, goto, Runs, Ended
  <2>2. ASSUME Undisturbed'
        PROVE  Undisturbed /\ ~Reaches(c, plainHTTP)
    BY <1>a, <2>2, FaultAssumption DEF Undisturbed, TypeOK
  <2>3. ASSUME NEW d \in Conversion
        PROVE  /\ retried'[d] => plainHTTP'
               /\ pc'[d] \notin {"idle", "resolve"} \cup Ended =>
                      plainHTTP' \/ "https" \in Serves[Source[d]]
               /\ pc'[d] \notin {"fetch"} \cup Ended => err'[d] = "none"
               /\ Undisturbed' /\ Runs(d)' => err'[d] = "none"
    <3>1. CASE d = c
      BY <1>b, <2>1, <2>2, <3>1 DEF Causes, Runs, Ended
    <3>2. CASE d # c
      BY <1>b, <2>1, <2>2, <3>2 DEF Causes, Runs, Ended
    <3> QED
      BY <3>1, <3>2
  <2>4. ASSUME Undisturbed', plainHTTP'
        PROVE  \E d \in Conversion : pc'[d] # "idle" /\ "https" \notin Serves[Source[d]]
    <3>1. CASE plainHTTP
      BY <1>b, <2>2, <2>4, <3>1 DEF Causes
    <3>2. CASE ~plainHTTP
      BY <1>b, <2>2, <2>4, <3>2 DEF Reaches
    <3> QED
      BY <3>1, <3>2 DEF TypeOK
  <2> QED
    BY <2>3, <2>4 DEF Causes
<1> QED
  BY <1>1, <1>2, <1>3, <1>4, <1>5, <1>6, <1>7

LEMMA SetImageStep ==
  ASSUME Inv, NEW c \in Conversion, SetImage(c)
  PROVE  Inv'
<1> USE ConversionAssumption
    DEF Inv, SetImage, Forget, goto, Fetched, registry, provider, fetches, output, faults
<1>a. /\ asked[c] = BlobsOf[Source[c]][pulls[c]] /\ waits[c] = {}
      /\ pulls[c] \in Versions(Source[c]) /\ pulls[c] # 0
  BY ImageFacts DEF TypeOK, Local, Wanted
<1>b. \A b \in BlobsOf[Source[c]][pulls[c]] : There(b)
  BY <1>a DEF Arrived
<1>1. TypeOK'
  <2>1. /\ images' \in [Ref -> Nat]
        /\ \A r \in Ref : images'[r] \in {0} \cup Versions(r)
    BY <1>a DEF TypeOK
  <2> QED
    BY <2>1 DEF TypeOK
<1>2. Local'
  BY ImageFacts DEF TypeOK, Local, Ended
<1>3. Led'
  BY DEF TypeOK, Led
<1>4. Arrived'
  BY DEF TypeOK, Local, Arrived, There
<1>5. Complete'
  <2>1. \A r \in Ref : images'[r] = IF r = Source[c] THEN pulls[c] ELSE images[r]
    BY DEF TypeOK
  <2>2. \A b : There(b) => There(b)'
    BY DEF There
  <2>3. ASSUME NEW d \in Conversion, pc'[d] \in Pulled
        PROVE  /\ images'[Source[d]] # 0
               /\ \A b \in BlobsOf[Source[d]][images'[Source[d]]] : There(b)'
    <3>1. CASE Source[d] = Source[c]
      BY <1>a, <1>b, <2>1, <2>2, <3>1
    <3>2. CASE Source[d] # Source[c]
      BY <2>1, <2>2, <2>3, <3>2 DEF TypeOK, Complete, Pulled
    <3> QED
      BY <3>1, <3>2
  <2> QED
    BY <2>3 DEF Complete
<1>6. Alone'
  <2>1. /\ images' = [images EXCEPT ![Source[c]] = pulls[c]]
        /\ UNCHANGED <<pulls, met, made>>
        /\ Runs(c) /\ \A d \in Conversion : Runs(d)' <=> Runs(d)
        /\ \A d \in Conversion : d # c => pc'[d] = pc[d]
    BY DEF TypeOK, Runs, Ended
  <2>2. ASSUME NEW d \in Conversion \ met', pc'[d] \in Pulled
        PROVE  images'[Source[d]] = pulls'[d]
    <3>1. CASE d = c
      <4>1. images \in [Ref -> Nat] /\ Source[c] \in Ref
        BY DEF TypeOK
      <4> QED
        BY <2>1, <3>1, <4>1
    <3>2. CASE d # c /\ Source[d] = Source[c]
      <4>1. Runs(d)
        BY <2>1, <2>2, <3>2 DEF Pulled, Runs, Ended
      <4> QED
        BY <2>1, <2>2, <3>2, <4>1 DEF Alone
    <3>3. CASE Source[d] # Source[c]
      BY <2>1, <2>2, <3>3 DEF TypeOK, Alone
    <3> QED
      BY <3>1, <3>2, <3>3
  <2> QED
    BY <2>1, <2>2 DEF Alone, LoneConversionIsFresh
<1>7. Causes'
  BY DEF TypeOK, Causes, Undisturbed, Runs, Ended
<1> QED
  BY <1>1, <1>2, <1>3, <1>4, <1>5, <1>6, <1>7

LEMMA PullFailStep ==
  ASSUME Inv, NEW c \in Conversion, PullFail(c)
  PROVE  Inv'
<1> USE ConversionAssumption
    DEF Inv, PullFail, Fail, Forget, goto, Fetched, registry, provider, fetches, output,
        faults
<1>1. TypeOK'
  <2>1. /\ pc' \in [Conversion -> {"idle", "resolve", "fetch", "image", "convert",
                                  "recurse", "pushCache", "push"} \cup Ended]
        /\ err' \in [Conversion -> Errors] /\ retried' \in [Conversion -> BOOLEAN]
        /\ plainHTTP' \in BOOLEAN
    <3>1. CASE err[c] = "refused" /\ ~retried[c]
      <4>1. /\ plainHTTP' = TRUE /\ pc' = [pc EXCEPT ![c] = "resolve"]
            /\ retried' = [retried EXCEPT ![c] = TRUE] /\ err' = [err EXCEPT ![c] = "none"]
        BY <3>1
      <4> QED
        BY <4>1 DEF TypeOK, Errors
    <3>2. CASE ~(err[c] = "refused" /\ ~retried[c])
      <4>1. Fail(c, err[c]) /\ err[c] \in Errors
        BY <3>2 DEF TypeOK
      <4> QED
        BY <4>1, RetryTypes
    <3> QED
      BY <3>1, <3>2
  <2>2. /\ asked' \in [Conversion -> SUBSET Blob] /\ plain' \in [Conversion -> BOOLEAN]
        /\ \A d \in Conversion : waits'[d] \subseteq asked'[d]
    BY DEF TypeOK
  <2> QED
    BY <2>1, <2>2 DEF TypeOK
<1>2. Local'
  BY ImageFacts DEF TypeOK, Local, Ended
<1>3. Led'
  BY DEF TypeOK, Led
<1>4. Arrived'
  <2>1. \A d \in Conversion : pc'[d] = "fetch" =>
             /\ pc[d] = "fetch"
             /\ err'[d] = err[d] /\ asked'[d] = asked[d] /\ waits'[d] = waits[d]
    BY DEF TypeOK
  <2>2. \A b : There(b) => There(b)'
    BY DEF TypeOK, There
  <2> QED
    BY <2>1, <2>2, ArrivedKept
<1>5. Complete'
  BY DEF TypeOK, Local, Complete, There, Pulled
<1>6. Alone'
  <2>1. \A d \in Conversion :
             /\ Runs(d)' => Runs(d)
             /\ pc'[d] \in Pulled => pc[d] \in Pulled
    BY DEF TypeOK, Runs, Ended, Pulled
  <2> QED
    BY <2>1, AloneKept
<1>7. Causes'
  BY DEF TypeOK, Causes, Undisturbed, Runs, Ended
<1> QED
  BY <1>1, <1>2, <1>3, <1>4, <1>5, <1>6, <1>7

LEMMA UpdateLayerDiffIDStep ==
  ASSUME Inv, NEW c \in Conversion, UpdateLayerDiffID(c)
  PROVE  Inv'
<1> USE ConversionAssumption
    DEF Inv, UpdateLayerDiffID, Fail, goto, registry, provider, fetches, output, faults
<1>a. /\ pc[c] = "image"
      /\ UNCHANGED <<registry, images, store, fetches, plain, pulls, records, output,
                     faults>>
      /\ \/ goto(c, "convert") /\ UNCHANGED <<plainHTTP, retried, err>>
         \/ \E e \in {"unmatched", "missing"} : Fail(c, e)
  OBVIOUS
<1>1. TypeOK'
  <2>1. CASE goto(c, "convert") /\ UNCHANGED <<plainHTTP, retried, err>>
    BY <1>a, <2>1 DEF TypeOK
  <2>2. CASE \E e \in {"unmatched", "missing"} : Fail(c, e)
    <3>1. PICK e \in Errors : Fail(c, e)
      BY <2>2 DEF Errors
    <3>2. /\ pc' \in [Conversion -> {"idle", "resolve", "fetch", "image", "convert",
                                    "recurse", "pushCache", "push"} \cup Ended]
          /\ err' \in [Conversion -> Errors] /\ retried' \in [Conversion -> BOOLEAN]
          /\ plainHTTP' \in BOOLEAN
      BY <3>1, RetryTypes
    <3> QED
      BY <1>a, <3>2 DEF TypeOK
  <2> QED
    BY <1>a, <2>1, <2>2
<1>2. Local'
  BY ImageFacts DEF TypeOK, Local, Ended
<1>3. Led'
  BY DEF TypeOK, Led
<1>4. Arrived'
  <2>1. \A d \in Conversion : pc'[d] = "fetch" =>
             /\ pc[d] = "fetch"
             /\ err'[d] = err[d] /\ asked'[d] = asked[d] /\ waits'[d] = waits[d]
    BY DEF TypeOK
  <2>2. \A b : There(b) => There(b)'
    BY DEF TypeOK, There
  <2> QED
    BY <2>1, <2>2, ArrivedKept
<1>5. Complete'
  BY DEF TypeOK, Local, Complete, There, Pulled
<1>6. Alone'
  <2>1. \A d \in Conversion :
             /\ Runs(d)' => Runs(d)
             /\ pc'[d] \in Pulled => pc[d] \in Pulled
    BY DEF TypeOK, Runs, Ended, Pulled
  <2> QED
    BY <2>1, AloneKept
<1>7. Causes'
  <2>1. \A d \in Conversion :
            /\ retried'[d] => retried[d]
            /\ pc'[d] # "failed" => err'[d] = err[d]
            /\ pc[d] # "idle" => pc'[d] # "idle"
            /\ pc'[d] = pc[d] \/ (d = c /\ pc'[d] \in {"convert", "failed"})
    BY DEF TypeOK
  <2>2. UNCHANGED <<plainHTTP, mishaps, canceled>>
    BY <1>a
  <2> QED
    BY <1>a, <2>1, <2>2 DEF Causes, Undisturbed, Runs, Ended
<1> QED
  BY <1>1, <1>2, <1>3, <1>4, <1>5, <1>6, <1>7

\* A step of the driver touches one conversion: it makes an image, or fails.
LEMMA ConvertStep ==
  ASSUME Inv, NEW c \in Conversion, Convert(c)
  PROVE  Inv'
<1> USE ConversionAssumption
    DEF Inv, registry, provider, fetches, output, faults
<1>a. /\ images[Source[c]] \in Versions(Source[c]) /\ images[Source[c]] \in Nat
      /\ LayersOf[Source[c]][images[Source[c]]] \subseteq Layer
      /\ pc[c] = "convert"
      /\ UNCHANGED <<registry, images, store, fetches, plain, pulls, faults>>
  BY ImageFacts DEF Convert, TypeOK, Complete, Pulled
<1>b. CASE Readable(c, images[Source[c]])
  <2> DEFINE v == images[Source[c]]
             label == IF c \in Caching THEN "pushCache" ELSE "push"
             layers == IF c \in Caching THEN records[c] \cup LayersOf[Source[c]][v]
                       ELSE records[c]
  <2>a. /\ pc' = [pc EXCEPT ![c] = label]
        /\ made' = [made EXCEPT ![c] = v]
        /\ desc' = [desc EXCEPT ![c] = DriverConvert(Image[Source[c]][v])]
        /\ records' = [records EXCEPT ![c] = layers]
        /\ UNCHANGED <<plainHTTP, retried, err>>
    BY <1>b DEF Convert, goto
  <2>b. label \in {"pushCache", "push"} /\ records[c] \subseteq layers /\ layers \subseteq Layer
    BY <1>a DEF TypeOK
  <2> HIDE DEF label, layers
  <2>1. TypeOK'
    <3>1. /\ made' \in [Conversion -> Nat]
          /\ \A d \in Conversion : made'[d] \in {0} \cup Versions(Source[d])
      BY <1>a, <2>a DEF TypeOK
    <3>2. records' \in [Conversion -> SUBSET Layer]
      BY <2>a, <2>b DEF TypeOK
    <3>3. DOMAIN desc' = Conversion /\ \A d \in Conversion : desc'[d].kind \in {"none", "index"}
      <4>1. DriverConvert(Image[Source[c]][v]).kind = "index"
        BY DEF DriverConvert, MakeManifestIndex
      <4>2. DOMAIN desc = Conversion /\ \A d \in Conversion : desc[d].kind \in {"none", "index"}
        BY DEF TypeOK
      <4> QED
        BY <2>a, <4>1, <4>2
    <3>4. pc' \in [Conversion -> {"idle", "resolve", "fetch", "image", "convert",
                                 "recurse", "pushCache", "push"} \cup Ended]
      BY <2>a, <2>b DEF TypeOK
    <3> QED
      BY <1>a, <2>a, <3>1, <3>2, <3>3, <3>4 DEF TypeOK
  <2>c. /\ \A d \in Conversion : d # c =>
               pc'[d] = pc[d] /\ made'[d] = made[d] /\ records'[d] = records[d]
        /\ pc'[c] = label /\ made'[c] = v
        /\ \A b : There(b) => There(b)'
    BY <1>a, <2>a, <2>b DEF TypeOK, There
  <2>2. Local' /\ Led' /\ Arrived'
    BY <1>a, <2>a, <2>b, <2>c DEF Local, Led, Arrived
  <2>3. Complete'
    BY <1>a, <2>b, <2>c DEF Complete, Pulled
  <2>4. Alone'
    <3>1. \A d, e \in Conversion :
              d # e /\ Source[d] = Source[e] /\ Runs(d)' /\ Runs(e)' => d \in met'
      BY <1>a, <2>b, <2>c DEF Alone, Runs, Ended
    <3>2. \A d \in Conversion \ met' : pc'[d] \in Pulled => images'[Source[d]] = pulls'[d]
      BY <1>a, <2>b, <2>c DEF Alone, Pulled
    <3>3. \A d \in Conversion \ met' : made'[d] \in {0, pulls'[d]}
      BY <1>a, <2>b, <2>c DEF Alone, LoneConversionIsFresh, Pulled
    <3> QED
      BY <3>1, <3>2, <3>3 DEF Alone, LoneConversionIsFresh
  <2>5. Causes'
    BY <1>a, <2>a, <2>b, <2>c DEF Causes, Undisturbed, Runs, Ended
  <2> QED
    BY <2>1, <2>2, <2>3, <2>4, <2>5
<1>c. CASE ~Readable(c, images[Source[c]])
  <2>a. Fail(c, "missing") /\ UNCHANGED <<output, records>>
    BY <1>c DEF Convert
  <2>1. TypeOK'
    <3>1. "missing" \in Errors
      BY DEF Errors
    <3>2. /\ pc' \in [Conversion -> {"idle", "resolve", "fetch", "image", "convert",
                                    "recurse", "pushCache", "push"} \cup Ended]
          /\ err' \in [Conversion -> Errors] /\ retried' \in [Conversion -> BOOLEAN]
          /\ plainHTTP' \in BOOLEAN
      BY <2>a, <3>1, RetryTypes
    <3> QED
      BY <1>a, <2>a, <3>2 DEF TypeOK
  <2>b. /\ \A d \in Conversion : d # c =>
               pc'[d] = pc[d] /\ err'[d] = err[d] /\ retried'[d] = retried[d]
        /\ pc'[c] = "failed" /\ retried'[c] = FALSE
        /\ UNCHANGED plainHTTP
        /\ \A b : There(b) => There(b)'
    BY <1>a, <2>a DEF TypeOK, There, Fail, goto
  <2>2. Local' /\ Led' /\ Arrived'
    BY <1>a, <2>a, <2>b DEF Local, Led, Arrived
  <2>3. Complete'
    BY <1>a, <2>b DEF Complete, Pulled
  <2>4. Alone'
    BY <1>a, <2>a, <2>b, AloneKept DEF Runs, Ended, Pulled
  <2>5. Causes'
    BY <1>a, <2>a, <2>b DEF Causes, Undisturbed, Runs, Ended
  <2> QED
    BY <2>1, <2>2, <2>3, <2>4, <2>5
<1> QED
  BY <1>b, <1>c

LEMMA ConvertFailStep ==
  ASSUME Inv, NEW c \in Conversion, ConvertFail(c)
  PROVE  Inv'
<1> USE ConversionAssumption
    DEF Inv, ConvertFail, Fail, goto, registry, provider, fetches, output, faults
<1>1. TypeOK'
  BY DEF TypeOK, Errors, Ended
<1>2. Local'
  BY ImageFacts DEF TypeOK, Local, Ended
<1>3. Led'
  BY DEF TypeOK, Led
<1>4. Arrived'
  <2>1. \A d \in Conversion : pc'[d] = "fetch" =>
             /\ pc[d] = "fetch"
             /\ err'[d] = err[d] /\ asked'[d] = asked[d] /\ waits'[d] = waits[d]
    BY DEF TypeOK
  <2>2. \A b : There(b) => There(b)'
    BY DEF TypeOK, There
  <2> QED
    BY <2>1, <2>2, ArrivedKept
<1>5. Complete'
  BY DEF TypeOK, Local, Complete, There, Pulled
<1>6. Alone'
  <2>1. \A d \in Conversion :
             /\ Runs(d)' => Runs(d)
             /\ pc'[d] \in Pulled => pc[d] \in Pulled
    BY DEF TypeOK, Runs, Ended, Pulled
  <2> QED
    BY <2>1, AloneKept
<1>7. Causes'
  BY DEF TypeOK, Causes, Undisturbed, Runs, Ended
<1> QED
  BY <1>1, <1>2, <1>3, <1>4, <1>5, <1>6, <1>7

LEMMA RecurseStep ==
  ASSUME Inv, NEW c \in Conversion, Recurse(c)
  PROVE  Inv'
<1> USE ConversionAssumption
    DEF Inv, Recurse, goto, registry, provider, fetches, output, faults
<1>1. TypeOK'
  BY DEF TypeOK, Errors, Ended
<1>2. Local'
  BY ImageFacts DEF TypeOK, Local, Ended
<1>3. Led'
  BY DEF TypeOK, Led
<1>4. Arrived'
  <2>1. \A d \in Conversion : pc'[d] = "fetch" =>
             /\ pc[d] = "fetch"
             /\ err'[d] = err[d] /\ asked'[d] = asked[d] /\ waits'[d] = waits[d]
    BY DEF TypeOK
  <2>2. \A b : There(b) => There(b)'
    BY DEF TypeOK, There
  <2> QED
    BY <2>1, <2>2, ArrivedKept
<1>5. Complete'
  BY DEF TypeOK, Local, Complete, There, Pulled
<1>6. Alone'
  <2>1. \A d \in Conversion :
             /\ Runs(d)' => Runs(d)
             /\ pc'[d] \in Pulled => pc[d] \in Pulled
    BY DEF TypeOK, Runs, Ended, Pulled
  <2> QED
    BY <2>1, AloneKept
<1>7. Causes'
  BY DEF TypeOK, Causes, Undisturbed, Runs, Ended
<1> QED
  BY <1>1, <1>2, <1>3, <1>4, <1>5, <1>6, <1>7

LEMMA PushCacheStep ==
  ASSUME Inv, NEW c \in Conversion, PushCache(c)
  PROVE  Inv'
<1> USE ConversionAssumption
    DEF Inv, PushCache, goto, registry, provider, fetches, output, faults
<1>1. TypeOK'
  BY DEF TypeOK, Errors, Ended
<1>2. Local'
  BY ImageFacts DEF TypeOK, Local, Ended
<1>3. Led'
  BY DEF TypeOK, Led
<1>4. Arrived'
  <2>1. \A d \in Conversion : pc'[d] = "fetch" =>
             /\ pc[d] = "fetch"
             /\ err'[d] = err[d] /\ asked'[d] = asked[d] /\ waits'[d] = waits[d]
    BY DEF TypeOK
  <2>2. \A b : There(b) => There(b)'
    BY DEF TypeOK, There
  <2> QED
    BY <2>1, <2>2, ArrivedKept
<1>5. Complete'
  BY DEF TypeOK, Local, Complete, There, Pulled
<1>6. Alone'
  <2>1. \A d \in Conversion :
             /\ Runs(d)' => Runs(d)
             /\ pc'[d] \in Pulled => pc[d] \in Pulled
    BY DEF TypeOK, Runs, Ended, Pulled
  <2> QED
    BY <2>1, AloneKept
<1>7. Causes'
  BY DEF TypeOK, Causes, Undisturbed, Runs, Ended
<1> QED
  BY <1>1, <1>2, <1>3, <1>4, <1>5, <1>6, <1>7

LEMMA PushCacheFailStep ==
  ASSUME Inv, NEW c \in Conversion, PushCacheFail(c)
  PROVE  Inv'
<1> USE ConversionAssumption
    DEF Inv, PushCacheFail, Fail, goto, registry, provider, fetches, output, faults
<1>e. PICK e \in Errors :
          /\ RequestFails(c, e) \/ (e = "missing" /\ ~HasSource(c) /\ UNCHANGED mishaps)
          /\ Fail(c, e)
  OBVIOUS
<1>a. mishaps' \in 0..MaxFault /\ mishaps' >= mishaps
  <2>1. CASE RequestFails(c, e)
    BY <2>1, Refusal
  <2>2. CASE UNCHANGED mishaps
    BY <2>2, FaultAssumption DEF TypeOK
  <2> QED
    BY <1>e, <2>1, <2>2
<1>1. TypeOK'
  <2>1. /\ pc' \in [Conversion -> {"idle", "resolve", "fetch", "image", "convert",
                                  "recurse", "pushCache", "push"} \cup Ended]
        /\ err' \in [Conversion -> Errors] /\ retried' \in [Conversion -> BOOLEAN]
        /\ plainHTTP' \in BOOLEAN
    BY <1>e, RetryTypes
  <2> QED
    BY <1>a, <2>1 DEF TypeOK
<1>2. Local'
  BY ImageFacts DEF TypeOK, Local, Ended
<1>3. Led'
  BY DEF TypeOK, Led
<1>4. Arrived'
  <2>1. \A d \in Conversion : pc'[d] = "fetch" =>
             /\ pc[d] = "fetch"
             /\ err'[d] = err[d] /\ asked'[d] = asked[d] /\ waits'[d] = waits[d]
    BY DEF TypeOK
  <2>2. \A b : There(b) => There(b)'
    BY DEF TypeOK, There
  <2> QED
    BY <2>1, <2>2, ArrivedKept
<1>5. Complete'
  BY DEF TypeOK, Local, Complete, There, Pulled
<1>6. Alone'
  <2>1. \A d \in Conversion :
             /\ Runs(d)' => Runs(d)
             /\ pc'[d] \in Pulled => pc[d] \in Pulled
    BY DEF TypeOK, Runs, Ended, Pulled
  <2> QED
    BY <2>1, AloneKept
<1>7. Causes'
  <2>1. Undisturbed' => Undisturbed
    BY <1>a, FaultAssumption DEF Undisturbed, TypeOK
  <2> QED
    BY <1>e, <2>1 DEF TypeOK, Causes, Runs, Ended
<1> QED
  BY <1>1, <1>2, <1>3, <1>4, <1>5, <1>6, <1>7

LEMMA PushStep ==
  ASSUME Inv, NEW c \in Conversion, Push(c)
  PROVE  Inv'
<1> USE ConversionAssumption
    DEF Inv, Push, goto, registry, provider, fetches, output, faults
<1>1. TypeOK'
  <2>1. DOMAIN target' = Ref /\ \A r \in Ref : target'[r].kind \in {"none", "index"}
    BY DEF TypeOK, DriverConvert, MakeManifestIndex
  <2> QED
    BY <2>1 DEF TypeOK, Ended
<1>2. Local'
  BY ImageFacts DEF TypeOK, Local, Ended
<1>3. Led'
  BY DEF TypeOK, Led
<1>4. Arrived'
  <2>1. \A d \in Conversion : pc'[d] = "fetch" =>
             /\ pc[d] = "fetch"
             /\ err'[d] = err[d] /\ asked'[d] = asked[d] /\ waits'[d] = waits[d]
    BY DEF TypeOK
  <2>2. \A b : There(b) => There(b)'
    BY DEF TypeOK, There
  <2> QED
    BY <2>1, <2>2, ArrivedKept
<1>5. Complete'
  BY DEF TypeOK, Local, Complete, There, Pulled
<1>6. Alone'
  <2>1. \A d \in Conversion :
             /\ Runs(d)' => Runs(d)
             /\ pc'[d] \in Pulled => pc[d] \in Pulled
    BY DEF TypeOK, Runs, Ended, Pulled
  <2> QED
    BY <2>1, AloneKept
<1>7. Causes'
  BY DEF TypeOK, Causes, Undisturbed, Runs, Ended
<1> QED
  BY <1>1, <1>2, <1>3, <1>4, <1>5, <1>6, <1>7

LEMMA PushFailStep ==
  ASSUME Inv, NEW c \in Conversion, PushFail(c)
  PROVE  Inv'
<1> USE ConversionAssumption
    DEF Inv, PushFail, registry, provider, fetches, output, faults
<1>e. PICK e \in Errors : RequestFails(c, e) /\ OrRetry(c, e, "push")
  OBVIOUS
<1>a. /\ mishaps' \in 0..MaxFault /\ mishaps' >= mishaps
      /\ mishaps' = 0 => e = "refused" /\ ~Reaches(c, plainHTTP) /\ mishaps = 0
  BY <1>e, Refusal
<1>b. /\ pc[c] = "push" /\ pc'[c] \in {"push", "failed"}
      /\ plainHTTP' \in BOOLEAN /\ (plainHTTP => plainHTTP')
      /\ pc'[c] = "push" => plainHTTP' /\ err' = err
      /\ \A d \in Conversion : d # c =>
             pc'[d] = pc[d] /\ err'[d] = err[d] /\ retried'[d] = retried[d]
  BY <1>e, RetryTypes
<1>1. TypeOK'
  <2>1. /\ pc' \in [Conversion -> {"idle", "resolve", "fetch", "image", "convert",
                                  "recurse", "pushCache", "push"} \cup Ended]
        /\ err' \in [Conversion -> Errors] /\ retried' \in [Conversion -> BOOLEAN]
        /\ plainHTTP' \in BOOLEAN
    BY <1>e, RetryTypes
  <2> QED
    BY <1>a, <2>1 DEF TypeOK
<1>2. Local'
  BY <1>b, ImageFacts DEF TypeOK, Local, Ended
<1>3. Led'
  BY DEF TypeOK, Led
<1>4. Arrived'
  <2>1. \A d \in Conversion : pc'[d] = "fetch" =>
             /\ pc[d] = "fetch"
             /\ err'[d] = err[d] /\ asked'[d] = asked[d] /\ waits'[d] = waits[d]
    BY <1>b DEF TypeOK
  <2>2. \A b : There(b) => There(b)'
    BY DEF TypeOK, There
  <2> QED
    BY <2>1, <2>2, ArrivedKept
<1>5. Complete'
  BY <1>b DEF TypeOK, Local, Complete, There, Pulled
<1>6. Alone'
  <2>1. \A d \in Conversion :
             /\ Runs(d)' => Runs(d)
             /\ pc'[d] \in Pulled => pc[d] \in Pulled
    BY <1>b DEF TypeOK, Runs, Ended, Pulled
  <2> QED
    BY <2>1, AloneKept
<1>7. Causes'
  <2>1. /\ retried'[c] => plainHTTP'
        /\ plainHTTP' # plainHTTP => e = "refused"
        /\ \A d \in Conversion : Runs(d)' => err'[d] = err[d] /\ Runs(d)
    BY <1>b, <1>e DEF TypeOK, OrRetry, Fail, goto, Runs, Ended
  <2>2. ASSUME Undisturbed'
        PROVE  Undisturbed /\ ~Reaches(c, plainHTTP)
    BY <1>a, <2>2, FaultAssumption DEF Undisturbed, TypeOK
  <2>3. ASSUME NEW d \in Conversion
        PROVE  /\ retried'[d] => plainHTTP'
               /\ pc'[d] \notin {"idle", "resolve"} \cup Ended =>
                      plainHTTP' \/ "https" \in Serves[Source[d]]
               /\ pc'[d] \notin {"fetch"} \cup Ended => err'[d] = "none"
               /\ Undisturbed' /\ Runs(d)' => err'[d] = "none"
    <3>1. CASE d = c
      BY <1>b, <2>1, <2>2, <3>1 DEF Causes, Runs, Ended
    <3>2. CASE d # c
      BY <1>b, <2>1, <2>2, <3>2 DEF Causes, Runs, Ended
    <3> QED
      BY <3>1, <3>2
  <2>4. ASSUME Undisturbed', plainHTTP'
        PROVE  \E d \in Conversion : pc'[d] # "idle" /\ "https" \notin Serves[Source[d]]
    <3>1. CASE plainHTTP
      BY <1>b, <2>2, <2>4, <3>1 DEF Causes
    <3>2. CASE ~plainHTTP
      BY <1>b, <2>2, <2>4, <3>2 DEF Reaches
    <3> QED
      BY <3>1, <3>2 DEF TypeOK
  <2> QED
    BY <2>3, <2>4 DEF Causes
<1> QED
  BY <1>1, <1>2, <1>3, <1>4, <1>5, <1>6, <1>7

LEMMA StopStep ==
  ASSUME Inv, NEW c \in Conversion, Stop(c)
  PROVE  Inv'
<1> USE ConversionAssumption
    DEF Inv, Stop, Fail, goto, registry, provider, fetches, output, faults
<1>1. TypeOK'
  BY DEF TypeOK, Errors, Ended
<1>2. Local'
  BY ImageFacts DEF TypeOK, Local, Ended
<1>3. Led'
  BY DEF TypeOK, Led
<1>4. Arrived'
  <2>1. \A d \in Conversion : pc'[d] = "fetch" =>
             /\ pc[d] = "fetch"
             /\ err'[d] = err[d] /\ asked'[d] = asked[d] /\ waits'[d] = waits[d]
    BY DEF TypeOK
  <2>2. \A b : There(b) => There(b)'
    BY DEF TypeOK, There
  <2> QED
    BY <2>1, <2>2, ArrivedKept
<1>5. Complete'
  BY DEF TypeOK, Local, Complete, There, Pulled
<1>6. Alone'
  <2>1. \A d \in Conversion :
             /\ Runs(d)' => Runs(d)
             /\ pc'[d] \in Pulled => pc[d] \in Pulled
    BY DEF TypeOK, Runs, Ended, Pulled
  <2> QED
    BY <2>1, AloneKept
<1>7. Causes'
  BY DEF TypeOK, Causes, Undisturbed, Runs, Ended
<1> QED
  BY <1>1, <1>2, <1>3, <1>4, <1>5, <1>6, <1>7

LEMMA CancelStep ==
  ASSUME Inv, NEW c \in Conversion, Cancel(c)
  PROVE  Inv'
<1> USE ConversionAssumption
    DEF Inv, Cancel, Faults, registry, provider, fetches, output, faults
<1>1. TypeOK'
  BY DEF TypeOK, Errors, Ended
<1>2. Local'
  BY ImageFacts DEF TypeOK, Local, Ended
<1>3. Led'
  BY DEF TypeOK, Led
<1>4. Arrived'
  BY DEF TypeOK, Local, Arrived, There
<1>5. Complete'
  BY DEF TypeOK, Local, Complete, There, Pulled
<1>6. Alone'
  BY DEF TypeOK, Local, Alone, LoneConversionIsFresh, Pulled, Runs, Ended
<1>7. Causes'
  BY DEF TypeOK, Causes, Undisturbed, Runs, Ended
<1> QED
  BY <1>1, <1>2, <1>3, <1>4, <1>5, <1>6, <1>7

LEMMA AskStep ==
  ASSUME Inv, NEW c \in Conversion, NEW b \in Blob, Ask(c, b)
  PROVE  Inv'
<1> USE ConversionAssumption
    DEF Inv, Ask, registry, provider, fetches, output, faults
<1>a. /\ asked' = [asked EXCEPT ![c] = @ \cup {b}]
      /\ waits' = [waits EXCEPT ![c] = @ \cup {b}]
      /\ pc[c] = "fetch" /\ b \notin asked[c]
  OBVIOUS
<1>1. TypeOK'
  <2>1. /\ asked' \in [Conversion -> SUBSET Blob]
        /\ waits' \in [Conversion -> SUBSET Blob]
        /\ \A d \in Conversion : waits'[d] \subseteq asked'[d]
    BY <1>a DEF TypeOK
  <2>2. /\ leader' \in [Blob -> Conversion \cup {Nobody}]
        /\ \A x \in Blob : x # b => leader'[x] = leader[x]
        /\ leader'[b] # Nobody
    BY DEF TypeOK
  <2>3. /\ \A x \in Blob, d \in Conversion : x # b => (x \in waits'[d] <=> x \in waits[d])
        /\ b \in waits'[c]
    BY <1>a DEF TypeOK
  <2>4. \A x \in Blob : leader'[x] = Nobody <=> \A d \in Conversion : x \notin waits'[d]
    BY <2>2, <2>3 DEF TypeOK
  <2> QED
    BY <2>1, <2>2, <2>4 DEF TypeOK
<1>2. Local'
  BY ImageFacts DEF TypeOK, Local, Ended
<1>3. Led'
  BY <1>a DEF TypeOK, Led
<1>4. Arrived'
  <2>1. \A x : There(x)' <=> There(x)
    BY DEF There
  <2>2. \A d \in Conversion : asked'[d] \ waits'[d] = asked[d] \ waits[d]
    <3> SUFFICES ASSUME NEW d \in Conversion
                 PROVE  asked'[d] \ waits'[d] = asked[d] \ waits[d]
      OBVIOUS
    <3>1. d # c => asked'[d] = asked[d] /\ waits'[d] = waits[d]
      BY <1>a DEF TypeOK
    <3>2. asked'[c] = asked[c] \cup {b} /\ waits'[c] = waits[c] \cup {b}
      BY <1>a DEF TypeOK
    <3> QED
      BY <1>a, <3>1, <3>2
  <2> QED
    BY <2>1, <2>2 DEF Arrived
<1>5. Complete'
  BY DEF TypeOK, Local, Complete, There, Pulled
<1>6. Alone'
  <2>1. \A d \in Conversion :
             /\ Runs(d)' => Runs(d)
             /\ pc'[d] \in Pulled => pc[d] \in Pulled
    BY DEF TypeOK, Runs, Ended, Pulled
  <2> QED
    BY <2>1, AloneKept
<1>7. Causes'
  BY DEF TypeOK, Causes, Undisturbed, Runs, Ended
<1> QED
  BY <1>1, <1>2, <1>3, <1>4, <1>5, <1>6, <1>7

LEMMA FetchStep ==
  ASSUME Inv, NEW b \in Blob, Fetch(b)
  PROVE  Inv'
<1> USE ConversionAssumption
    DEF Inv, Fetch, Present, Download, FetchFail, FetchCanceled, Return, Exists, Canceled,
        registry, provider, fetches, output, faults
<1>a. mishaps' \in 0..MaxFault /\ mishaps' >= mishaps
  BY MishapBound DEF TypeOK
<1>b. /\ leader[b] \in Conversion /\ b \in waits[leader[b]]
      /\ pc[leader[b]] = "fetch"
  BY DEF TypeOK, Local, Led
<1>c. PICK e \in {"none", "refused", "error", "canceled"} :
          /\ Return(b, e)
          /\ e = "none" => There(b)'
          /\ e \in {"refused", "error"} => mishaps' > 0
          /\ e = "canceled" => leader[b] \in canceled \/ err[leader[b]] # "none"
  BY MishapBound, <1>b DEF There
<1>d. /\ UNCHANGED <<pc, plainHTTP, images, asked, retried, plain, pulls, records, made,
                     canceled, met, tag, target>>
      /\ store \subseteq store' /\ (store' \subseteq store \cup {b})
  OBVIOUS
<1>e. /\ leader' = [leader EXCEPT ![b] = Nobody]
      /\ waits' = [d \in Conversion |-> waits[d] \ {b}]
      /\ err' = [d \in Conversion |->
                    IF b \in waits[d] /\ err[d] = "none" THEN e ELSE err[d]]
  BY <1>c
<1>1. TypeOK'
  <2>1. err' \in [Conversion -> Errors]
    BY <1>e DEF TypeOK, Errors
  <2>2. /\ leader' \in [Blob -> Conversion \cup {Nobody}]
        /\ waits' \in [Conversion -> SUBSET Blob]
        /\ \A d \in Conversion : waits'[d] \subseteq asked'[d]
        /\ \A x \in Blob : leader'[x] = Nobody <=> \A d \in Conversion : x \notin waits'[d]
    BY <1>d, <1>e DEF TypeOK
  <2>3. store' \subseteq Blob
    BY <1>d DEF TypeOK
  <2> QED
    BY <1>a, <1>d, <2>1, <2>2, <2>3 DEF TypeOK
<1>2. Local'
  BY ImageFacts DEF TypeOK, Local, Ended
<1>3. Led'
  BY <1>d, <1>e DEF TypeOK, Led
<1>4. Arrived'
  <2>1. \A x : There(x) => There(x)'
    BY <1>d DEF There
  <2>2. ASSUME NEW d \in Conversion, pc'[d] = "fetch", err'[d] = "none",
               NEW x \in asked'[d] \ waits'[d]
        PROVE  There(x)'
    <3>1. err[d] = "none" /\ pc[d] = "fetch" /\ x \in asked[d]
      BY <1>d, <1>e, <2>2
    <3>2. CASE x \in waits[d]
      <4>1. x = b /\ e = "none"
        BY <1>e, <2>2, <3>1, <3>2
      <4> QED
        BY <1>c, <4>1
    <3>3. CASE x \notin waits[d]
      BY <2>1, <3>1, <3>3 DEF Arrived
    <3> QED
      BY <3>2, <3>3
  <2> QED
    BY <2>2 DEF Arrived
<1>5. Complete'
  <2>1. \A x : There(x) => There(x)'
    BY <1>d DEF There
  <2> QED
    BY <1>d, <2>1 DEF Complete
<1>6. Alone'
  BY DEF TypeOK, Local, Alone, LoneConversionIsFresh, Pulled, Runs, Ended
<1>7. Causes'
  <2>1. \A d \in Conversion : b \in waits[d] => pc[d] = "fetch"
    BY DEF TypeOK, Local
  <2>2. ASSUME Undisturbed'
        PROVE  Undisturbed /\ err' = err
    <3>1. mishaps = 0 /\ mishaps' = 0 /\ canceled = {}
      BY <1>a, <1>d, <2>2, FaultAssumption DEF TypeOK, Undisturbed
    <3>2. err[leader[b]] = "none"
      BY <1>b, <3>1 DEF Causes, Undisturbed, Runs, Ended
    <3>3. e = "none"
      BY <1>c, <3>1, <3>2
    <3> QED
      BY <1>e, <3>1, <3>3 DEF TypeOK, Undisturbed
  <2> QED
    BY <1>d, <1>e, <2>1, <2>2 DEF TypeOK, Causes, Runs, Ended
<1> QED
  BY <1>1, <1>2, <1>3, <1>4, <1>5, <1>6, <1>7

LEMMA PushSourceStep ==
  ASSUME Inv, NEW r \in Ref, PushSource(r)
  PROVE  Inv'
<1> USE ConversionAssumption
    DEF Inv, PushSource, registry, provider, fetches, output, faults
<1>1. TypeOK'
  BY DEF TypeOK, Errors, Ended
<1>2. Local'
  BY ImageFacts DEF TypeOK, Local, Ended
<1>3. Led'
  BY DEF TypeOK, Led
<1>4. Arrived'
  BY DEF TypeOK, Local, Arrived, There
<1>5. Complete'
  BY DEF TypeOK, Local, Complete, There, Pulled
<1>6. Alone'
  BY DEF TypeOK, Local, Alone, LoneConversionIsFresh, Pulled, Runs, Ended
<1>7. Causes'
  BY DEF TypeOK, Causes, Undisturbed, Runs, Ended
<1> QED
  BY <1>1, <1>2, <1>3, <1>4, <1>5, <1>6, <1>7

LEMMA CollectStep ==
  ASSUME Inv, Collect
  PROVE  Inv'
<1> USE ConversionAssumption
    DEF Inv, Collect, registry, provider, fetches, output, faults
<1>a. \A c \in Conversion : pc[c] \in {"idle"} \cup Ended
  BY DEF Runs
<1>1. TypeOK'
  BY DEF TypeOK, Errors, Ended
<1>2. Local'
  BY ImageFacts DEF TypeOK, Local, Ended
<1>3. Led'
  BY DEF TypeOK, Led
<1>4. Arrived'
  BY <1>a DEF Arrived, Ended
<1>5. Complete'
  BY <1>a DEF Complete, Pulled, Ended
<1>6. Alone'
  BY DEF TypeOK, Local, Alone, LoneConversionIsFresh, Pulled, Runs, Ended
<1>7. Causes'
  BY DEF TypeOK, Causes, Undisturbed, Runs, Ended
<1> QED
  BY <1>1, <1>2, <1>3, <1>4, <1>5, <1>6, <1>7

-----------------------------------------------------------------------------
LEMMA InitInv == Init => Inv
<1> SUFFICES ASSUME Init
             PROVE  Inv
  OBVIOUS
<1>1. TypeOK
  <2>1. /\ tag \in [Ref -> Nat] /\ images \in [Ref -> Nat] /\ DOMAIN target = Ref
        /\ \A r \in Ref : tag[r] \in Versions(r) /\ images[r] \in {0} \cup Versions(r)
        /\ \A r \in Ref : target[r].kind \in {"none", "index"}
    BY ImageFacts DEF Init, NoImage
  <2>2. /\ asked \in [Conversion -> SUBSET Blob] /\ waits \in [Conversion -> SUBSET Blob]
        /\ \A c \in Conversion : waits[c] \subseteq asked[c]
        /\ leader \in [Blob -> Conversion \cup {Nobody}]
        /\ \A b \in Blob : leader[b] = Nobody <=> \A c \in Conversion : b \notin waits[c]
    BY DEF Init
  <2>3. mishaps \in 0..MaxFault
    BY FaultAssumption DEF Init
  <2>4. DOMAIN desc = Conversion /\ \A c \in Conversion : desc[c].kind \in {"none", "index"}
    BY DEF Init, NoImage
  <2> QED
    BY <2>1, <2>2, <2>3, <2>4 DEF Init, TypeOK, Errors
<1>2. Local /\ Led /\ Arrived /\ Complete
  BY DEF Init, Local, Led, Arrived, Complete, Pulled
<1>3. Alone /\ Causes
  BY DEF Init, Alone, LoneConversionIsFresh, Causes, Runs, Ended, Pulled
<1> QED
  BY <1>1, <1>2, <1>3 DEF Inv

LEMMA IdleStep == ASSUME Inv, UNCHANGED vars PROVE Inv'
<1> USE DEF Inv, vars, registry, provider, fetches, output, faults
<1>1. TypeOK' /\ Local' /\ Led'
  BY DEF TypeOK, Local, Led
<1>2. Arrived' /\ Complete'
  BY DEF Arrived, Complete, There
<1>3. Alone' /\ Causes'
  BY DEF Alone, LoneConversionIsFresh, Causes, Undisturbed, Runs
<1> QED
  BY <1>1, <1>2, <1>3

LEMMA InvStep == Inv /\ [Next]_vars => Inv'
<1> SUFFICES ASSUME Inv, [Next]_vars
             PROVE  Inv'
  OBVIOUS
<1>1. ASSUME NEW c \in Conversion, FetchCache(c) \/ Cancel(c)
      PROVE  Inv'
  BY <1>1, FetchCacheStep, CancelStep
<1>2. ASSUME NEW c \in Conversion, Go(c)
      PROVE  Inv'
  <2>1. CASE \/ Resolve(c) \/ ResolveFail(c) \/ SetImage(c) \/ PullFail(c)
             \/ UpdateLayerDiffID(c) \/ Convert(c) \/ Recurse(c) \/ ConvertFail(c)
    BY <2>1, ResolveStep, ResolveFailStep, SetImageStep, PullFailStep,
       UpdateLayerDiffIDStep, ConvertStep, RecurseStep, ConvertFailStep
  <2>2. CASE \/ PushCache(c) \/ PushCacheFail(c) \/ Push(c) \/ PushFail(c) \/ Stop(c)
    BY <2>2, PushCacheStep, PushCacheFailStep, PushStep, PushFailStep, StopStep
  <2>3. CASE \E b \in Blob : Ask(c, b) \/ (leader[b] = c /\ Fetch(b))
    BY <2>3, AskStep, FetchStep
  <2> QED
    BY <1>2, <2>1, <2>2, <2>3 DEF Go
<1>3. CASE \E r \in Ref : PushSource(r)
  BY <1>3, PushSourceStep
<1>4. CASE Collect
  BY <1>4, CollectStep
<1>5. CASE UNCHANGED vars
  BY <1>5, IdleStep
<1> QED
  BY <1>1, <1>2, <1>3, <1>4, <1>5 DEF Next

THEOREM Invariance == Spec => []Inv
BY InitInv, InvStep, PTL DEF Spec

\* The state of conversions and of what they share is well typed, for any
\* conversions, references, images and registries.
THEOREM TypeCorrect == Spec => []TypeOK
<1>1. Inv => TypeOK
  BY DEF Inv
<1> QED
  BY <1>1, Invariance, PTL

\* The image that a conversion is about to read is complete, in the store or in
\* remote caches, whoever shared its fetches and whatever was collected before.
THEOREM PulledIsComplete == Spec => []PulledIsReadable
<1>1. Inv => PulledIsReadable
  BY DEF Inv, Complete, There, PulledIsReadable
<1> QED
  BY <1>1, Invariance, PTL

\* A conversion that no other of its reference meets converts the image that it
\* resolved, and never one that an earlier conversion left behind.
THEOREM LoneIsFresh == Spec => []LoneConversionIsFresh
<1>1. Inv => LoneConversionIsFresh
  BY DEF Inv, Alone
<1> QED
  BY <1>1, Invariance, PTL

-----------------------------------------------------------------------------
(* Failures *)

\* A conversion fails by a step of its own.
LEMMA FailureStep ==
  ASSUME Inv, Next, NEW c \in Conversion, pc[c] # "failed", pc'[c] = "failed"
  PROVE  \/ ResolveFail(c) \/ PullFail(c) \/ UpdateLayerDiffID(c) \/ Convert(c)
         \/ ConvertFail(c) \/ PushCacheFail(c) \/ PushFail(c) \/ Stop(c)
<1> USE DEF goto, registry, faults
<1>0. DOMAIN pc = Conversion
  BY DEF Inv, TypeOK
<1>1. ASSUME NEW d \in Conversion, FetchCache(d) \/ Cancel(d)
      PROVE  pc'[c] # "failed"
  BY <1>0, <1>1 DEF FetchCache, Cancel
<1>2. ASSUME NEW d \in Conversion, d # c, Go(d)
      PROVE  pc'[c] = pc[c]
  <2>1. CASE \/ Resolve(d) \/ ResolveFail(d) \/ SetImage(d) \/ PullFail(d)
             \/ UpdateLayerDiffID(d) \/ Convert(d) \/ Recurse(d) \/ ConvertFail(d)
    BY <1>0, <1>2, <2>1 DEF Resolve, ResolveFail, SetImage, PullFail,
       UpdateLayerDiffID, Convert, Recurse, ConvertFail, OrRetry, Fail
  <2>2. CASE \/ PushCache(d) \/ PushCacheFail(d) \/ Push(d) \/ PushFail(d) \/ Stop(d)
             \/ \E b \in Blob : Ask(d, b) \/ (leader[b] = d /\ Fetch(b))
    BY <1>0, <1>2, <2>2 DEF PushCache, PushCacheFail, Push, PushFail, Stop, Ask,
       Fetch, OrRetry, Fail
  <2> QED
    BY <1>2, <2>1, <2>2 DEF Go
<1>3. (\E r \in Ref : PushSource(r)) \/ Collect => pc' = pc
  BY DEF PushSource, Collect
<1>4. ~(\/ Resolve(c) \/ SetImage(c) \/ Recurse(c) \/ PushCache(c) \/ Push(c)
        \/ \E b \in Blob : Ask(c, b) \/ (leader[b] = c /\ Fetch(b)))
  BY <1>0 DEF Resolve, SetImage, Recurse, PushCache, Push, Ask, Fetch
<1> QED
  BY <1>1, <1>2, <1>3, <1>4 DEF Next, Go

\* A registry that is not reached while nothing disturbs: the switch is at plain
\* HTTP, and a conversion that needs it is why.
LEMMA RefusalExplained ==
  ASSUME Inv, NEW c \in Conversion, Undisturbed', pc'[c] = "failed",
         ResolveFail(c) \/ PushCacheFail(c) \/ PushFail(c)
  PROVE  /\ err'[c] = "refused" /\ "http" \notin Serves[Source[c]]
         /\ \E d \in Conversion : pc[d] # "idle" /\ "https" \notin Serves[Source[d]]
<1>1. /\ pc[c] \in {"resolve", "pushCache", "push"}
      /\ DOMAIN pc = Conversion /\ DOMAIN err = Conversion
      /\ plainHTTP \in BOOLEAN /\ canceled' = canceled /\ mishaps \in Nat /\ mishaps' = 0
  BY FaultAssumption
     DEF Inv, TypeOK, ResolveFail, PushCacheFail, PushFail, Undisturbed
<1>2. PICK e : /\ Fail(c, e)
               /\ RequestFails(c, e) \/ (pc[c] = "pushCache" /\ ~HasSource(c))
               /\ pc[c] # "pushCache" => e # "refused" \/ retried[c]
  BY <1>1 DEF ResolveFail, PushCacheFail, PushFail, OrRetry, goto
<1>3. pc[c] = "pushCache" => HasSource(c)
  <2> SUFFICES ASSUME pc[c] = "pushCache"
               PROVE  HasSource(c)
    OBVIOUS
  <2> DEFINE root == Root(Source[c], images[Source[c]])
  <2>1. /\ Source[c] \in Ref /\ images[Source[c]] \in Versions(Source[c])
        /\ \A b \in BlobsOf[Source[c]][images[Source[c]]] : There(b)
    BY ConversionAssumption DEF Inv, TypeOK, Complete, Pulled
  <2>2. There(root) /\ root \notin Layer
    BY <2>1, ImageFacts, RootAssumption
  <2>3. \A d \in Conversion : records[d] \subseteq Layer
    BY DEF Inv, TypeOK
  <2> QED
    BY <2>2, <2>3 DEF There, HasSource
<1>4. e = "refused" /\ ~Reaches(c, plainHTTP) /\ mishaps = 0
  BY <1>1, <1>2, <1>3, Refusal DEF Inv
<1>5. plainHTTP
  <2>1. CASE pc[c] = "pushCache"
    BY <1>4, <2>1 DEF Inv, Causes, Reaches, Ended
  <2>2. CASE pc[c] # "pushCache"
    BY <1>2, <1>4, <2>2 DEF Inv, Causes
  <2> QED
    BY <2>1, <2>2
<1>6. "http" \notin Serves[Source[c]]
  BY <1>4, <1>5 DEF Reaches
<1>7. Undisturbed
  BY <1>1, <1>4 DEF Undisturbed
<1>8. err'[c] = "refused"
  BY <1>1, <1>2, <1>4 DEF Fail
<1> QED
  BY <1>5, <1>6, <1>7, <1>8 DEF Inv, Causes

\* A layer that is missing is one that another conversion has in its cache.
LEMMA MissingExplained ==
  ASSUME Inv, NEW c \in Conversion, pc'[c] = "failed",
         UpdateLayerDiffID(c) \/ Convert(c)
  PROVE  LET image == Image[Source[c]][images[Source[c]]]
         IN  \/ err'[c] = "unmatched" /\ ~Matched(image)
             \/ /\ err'[c] = "missing"
                /\ \E l \in Layers(image) \ (store \cup records[c]) :
                       \E d \in Conversion \ {c} : l \in records[d]
<1> DEFINE v == images[Source[c]]
<1>1. /\ pc[c] \in Pulled /\ DOMAIN pc = Conversion /\ DOMAIN err = Conversion
      /\ Source[c] \in Ref /\ v \in Versions(Source[c])
  BY ConversionAssumption, ImageFacts
     DEF Inv, TypeOK, Complete, Pulled, UpdateLayerDiffID, Convert
<1>2. \/ ~Readable(c, v) /\ Fail(c, "missing")
      \/ ~Matched(Image[Source[c]][v]) /\ Fail(c, "unmatched")
  BY <1>1 DEF UpdateLayerDiffID, Convert, goto
<1>3. CASE ~Readable(c, v) /\ Fail(c, "missing")
  <2>1. PICK b \in BlobsOf[Source[c]][v] : b \notin store /\ b \notin records[c]
    BY <1>3 DEF Readable
  <2>2. PICK d \in Conversion : b \in records[d]
    BY <1>1, <2>1 DEF Inv, Complete, There
  <2>3. b \in Layer
    BY <2>2 DEF Inv, TypeOK
  <2>4. b \in Layers(Image[Source[c]][v])
    BY <1>1, <2>1, <2>3, RootAssumption DEF BlobsOf, LayersOf
  <2> QED
    BY <1>1, <1>3, <2>1, <2>2, <2>4 DEF Fail
<1>4. CASE ~Matched(Image[Source[c]][v]) /\ Fail(c, "unmatched")
  BY <1>1, <1>4 DEF Fail
<1> QED
  BY <1>2, <1>3, <1>4

\* While nothing disturbs, a conversion fails only for its driver, for an image
\* with configs that do not match, for the scheme that another needed, or for a
\* layer that another had in its remote cache: never for what it found left
\* behind by those that failed or by a collection.
THEOREM FailureHasCause == Spec => FailsForACause
<1>1. ASSUME Inv, Inv', Next, NEW c \in Conversion, pc[c] # "failed", pc'[c] = "failed",
             Faults' = 0
      PROVE  LET image == Image[Source[c]][images[Source[c]]]
             IN  \/ err'[c] = "driver"
                 \/ err'[c] = "unmatched" /\ ~Matched(image)
                 \/ /\ err'[c] = "refused" /\ "http" \notin Serves[Source[c]]
                    /\ \E d \in Conversion :
                           pc[d] # "idle" /\ "https" \notin Serves[Source[d]]
                 \/ /\ err'[c] = "missing"
                    /\ \E l \in Layers(image) \ (store \cup records[c]) :
                           \E d \in Conversion \ {c} : l \in records[d]
  <2>1. Undisturbed' /\ DOMAIN err = Conversion
    <3>1. mishaps' \in Nat /\ canceled' \in SUBSET Conversion
      BY <1>1, ConversionAssumption, FaultAssumption DEF Inv, TypeOK
    <3> QED
      BY <1>1, <3>1, NoFaults DEF Inv, TypeOK, Faults, Undisturbed
  <2>2. CASE ResolveFail(c) \/ PushCacheFail(c) \/ PushFail(c)
    BY <1>1, <2>1, <2>2, RefusalExplained
  <2>3. CASE UpdateLayerDiffID(c) \/ Convert(c)
    BY <1>1, <2>3, MissingExplained
  <2>4. CASE ConvertFail(c)
    BY <2>1, <2>4 DEF ConvertFail, Fail
  <2>5. CASE PullFail(c) \/ Stop(c)
    <3>1. UNCHANGED <<mishaps, canceled>>
      BY <2>5 DEF PullFail, Stop, faults
    <3>2. Undisturbed /\ Runs(c)
      BY <2>1, <2>5, <3>1 DEF Undisturbed, PullFail, Stop, Fetched, Runs, Ended
    <3>3. err[c] = "none" /\ canceled = {}
      BY <1>1, <3>2 DEF Inv, Causes, Undisturbed
    <3> QED
      BY <2>5, <3>3 DEF PullFail, Stop
  <2> QED
    BY <1>1, <2>2, <2>3, <2>4, <2>5, FailureStep
<1>2. Inv /\ Inv' /\ [Next]_vars =>
          [\A c \in Conversion : (pc[c] # "failed" /\ pc'[c] = "failed" /\ Faults' = 0) =>
              LET image == Image[Source[c]][images[Source[c]]]
              IN  \/ err'[c] = "driver"
                  \/ err'[c] = "unmatched" /\ ~Matched(image)
                  \/ /\ err'[c] = "refused" /\ "http" \notin Serves[Source[c]]
                     /\ \E d \in Conversion :
                            pc[d] # "idle" /\ "https" \notin Serves[Source[d]]
                  \/ /\ err'[c] = "missing"
                     /\ \E l \in Layers(image) \ (store \cup records[c]) :
                            \E d \in Conversion \ {c} : l \in records[d]]_vars
  BY <1>1
<1> QED
  BY <1>2, Invariance, PTL DEF Spec, FailsForACause

-----------------------------------------------------------------------------
(* The index that the driver makes *)

\* A manifest of a stock OCI image: neither it nor its layers are nydus', and
\* it does not begin with the empty layer itself.
Stock(m) ==
    /\ m.artifactType = "none"
    /\ \A l \in Range(m.layers) \cup Range(m.diffIDs) : l[1] = "oci"
    /\ m.diffIDs # <<>> => m.diffIDs[1] # Empty

StockSources ==
    \A r \in Ref : \A v \in Versions(r) :
        \A m \in Range(Image[r][v].manifests) : Stock(m)

\* The driver converts every manifest that it finds, and finds all that it has
\* converted, in their order.
LEMMA FoundAgain ==
  ASSUME NEW image \in ImageType
  PROVE  LET found == GetManifests(image)
             refound == GetManifests(ConvertImage(image))
         IN  /\ found \in Seq(ManifestType) /\ Range(found) \subseteq Range(image.manifests)
             /\ refound = [i \in DOMAIN found |-> Converted(found[i])]
<1> DEFINE some == {m \in Range(image.manifests) :
                       m.platform \in Selected \cup {NoPlatform}}
           found == GetManifests(image)
           converted == [i \in DOMAIN found |-> Converted(found[i])]
           image2 == ConvertImage(image)
           again == {m \in Range(converted) : m.platform \in Selected \cup {NoPlatform}}
<1>1. image.manifests \in Seq(ManifestType) /\ image.kind \in {"manifest", "index"}
  BY DEF ImageType
<1>2. /\ Keep(image.manifests, some) \in Seq(ManifestType)
      /\ Range(Keep(image.manifests, some)) = Range(image.manifests) \cap some
  BY <1>1, KeepPlaces, KeepElements
<1>3. found = IF image.kind = "index" THEN Keep(image.manifests, some) ELSE image.manifests
  BY DEF GetManifests
<1>4. found \in Seq(ManifestType) /\ Range(found) \subseteq Range(image.manifests)
  BY <1>1, <1>2, <1>3
<1>5. image2.kind = image.kind /\ image2.manifests = converted
  BY DEF ConvertImage, ImageType
<1>6. GetManifests(image2) = IF image.kind = "index" THEN Keep(converted, again)
                                                     ELSE converted
  BY <1>5 DEF GetManifests
<1> HIDE DEF found, image2
<1>7. ASSUME image.kind = "index"
      PROVE  Keep(converted, again) = converted
  <2>1. DOMAIN found = 1..Len(found) /\ Len(found) \in Nat
    BY <1>4
  <2>2. converted \in Seq(Range(converted)) /\ Len(converted) = Len(found)
    BY <2>1 DEF Range
  <2>3. ASSUME NEW i \in 1..Len(converted)
        PROVE  converted[i] \in again
    <3>1. found[i] \in Range(found) /\ converted[i] = Converted(found[i])
          /\ converted[i] \in Range(converted)
      BY <2>1, <2>2 DEF Range
    <3>2. found[i] \in some /\ found[i] \in ManifestType
      BY <1>2, <1>3, <1>4, <1>7, <2>1, <2>2, <3>1
    <3>3. Converted(found[i]).platform = found[i].platform
      BY <3>2 DEF Converted, ManifestType
    <3> HIDE DEF converted
    <3> QED
      BY <3>1, <3>2, <3>3
  <2> HIDE DEF again, converted
  <2> QED
    BY <2>2, <2>3, KeepAll
<1> QED
  BY <1>4, <1>6, <1>7 DEF found, image2

\* One entry with the layers of a stock manifest, after the empty one.
LEMMA OciEntry ==
  ASSUME NEW m \in ManifestType
  PROVE  LET e == PrependEmptyLayer(m)
         IN  /\ e.platform = PlatformOf(m) /\ e.platform \in Platform
             /\ e.artifactType = m.artifactType
             /\ Range(m.layers) \subseteq Range(e.layers)
             /\ e.diffIDs # <<>> /\ e.diffIDs[1] = Empty
<1> DEFINE e == PrependEmptyLayer(m)
           D == LayerName \cup {Empty}
<1>1. /\ m.layers \in Seq(LayerName) /\ m.diffIDs \in Seq(LayerName)
      /\ m.platform \in Platform \cup {NoPlatform} /\ m.os \in Platform
  BY DEF ManifestType
<1>2. /\ e.layers = <<Empty>> \o m.layers /\ e.diffIDs = <<Empty>> \o m.diffIDs
      /\ e.artifactType = m.artifactType
      /\ e.platform = IF m.platform = NoPlatform THEN m.os ELSE m.platform
  BY DEF PrependEmptyLayer, ManifestType
<1>3. \A s \in Seq(LayerName) :
         /\ DOMAIN (<<Empty>> \o s) = 1..(Len(s) + 1)
         /\ (<<Empty>> \o s)[1] = Empty
         /\ \A i \in 1..Len(s) : (<<Empty>> \o s)[i + 1] = s[i]
         /\ <<Empty>> \o s # <<>>
  <2> TAKE s \in Seq(LayerName)
  <2>1. Len(s) \in Nat /\ s \in Seq(D)
    <3>1. s = [i \in 1..Len(s) |-> s[i]] /\ Len(s) \in Nat
          /\ \A i \in 1..Len(s) : s[i] \in D
      OBVIOUS
    <3> HIDE DEF D
    <3> QED
      BY <3>1
  <2>2. <<Empty>> \in Seq(D) /\ Len(<<Empty>>) = 1
    OBVIOUS
  <2> HIDE DEF D
  <2> QED
    BY <2>1, <2>2
<1> HIDE DEF e
<1>4. Range(m.layers) \subseteq Range(e.layers)
  <2> SUFFICES ASSUME NEW i \in 1..Len(m.layers)
               PROVE  m.layers[i] \in Range(e.layers)
    BY <1>1 DEF Range
  <2>1. i + 1 \in DOMAIN e.layers /\ e.layers[i + 1] = m.layers[i]
    BY <1>1, <1>2, <1>3
  <2> QED
    BY <2>1 DEF Range
<1> QED
  BY <1>1, <1>2, <1>3, <1>4 DEF PlatformOf, e

\* One entry with those layers converted, marked.
LEMMA NydusEntry ==
  ASSUME NEW m \in ManifestType, NEW descs, NEW i \in DOMAIN descs,
         descs[i].platform = PlatformOf(m), descs[i].platform \in Platform
  PROVE  LET e == Marked(Converted(m), i, descs)
         IN  /\ e.platform = PlatformOf(m)
             /\ e.artifactType = "nydus"
             /\ \A l \in Range(m.layers) : <<"nydus", l[2]>> \in Range(e.layers)
             /\ e.diffIDs[1][1] = "nydus"
<1> DEFINE nydus == [k \in DOMAIN m.layers |-> Nydus(m.layers[k])]
           all == Append(nydus, Bootstrap)
           e == Marked(Converted(m), i, descs)
           D == Range(nydus) \cup {Bootstrap}
<1>1. /\ m.layers \in Seq(LayerName)
      /\ DOMAIN m.layers = 1..Len(m.layers) /\ Len(m.layers) \in Nat
      /\ m.platform \in Platform \cup {NoPlatform}
      /\ NoPlatform \notin Platform
  BY PlatformAssumption DEF ManifestType
<1>2. /\ Converted(m).layers = all /\ Converted(m).diffIDs = all
      /\ Converted(m).platform = m.platform
      /\ DOMAIN Converted(m) = DOMAIN m
  BY DEF Converted, ManifestType
<1>3. /\ e.layers = all /\ e.diffIDs = all /\ e.artifactType = "nydus"
      /\ e.platform = IF m.platform # NoPlatform THEN m.platform ELSE descs[i].platform
  BY <1>1, <1>2 DEF Marked, ManifestType
<1>4. nydus \in Seq(D) /\ Len(nydus) = Len(m.layers)
  <2>1. \A k \in 1..Len(m.layers) : nydus[k] \in D
    BY <1>1 DEF Range
  <2>2. nydus = [k \in 1..Len(m.layers) |-> nydus[k]]
    BY <1>1
  <2> HIDE DEF D, nydus
  <2> QED
    BY <1>1, <2>1, <2>2
<1>5. /\ all \in Seq(D) /\ Len(all) = Len(m.layers) + 1
      /\ \A k \in 1..Len(m.layers) : all[k] = Nydus(m.layers[k])
      /\ all[Len(m.layers) + 1] = Bootstrap
  <2>1. Bootstrap \in D
    OBVIOUS
  <2>2. \A k \in 1..Len(m.layers) : nydus[k] = Nydus(m.layers[k])
    BY <1>1
  <2> HIDE DEF D, nydus
  <2> QED
    BY <1>1, <1>4, <2>1, <2>2
<1> HIDE DEF e, all, nydus, D
<1>6. \A l \in Range(m.layers) : <<"nydus", l[2]>> \in Range(e.layers)
  <2> SUFFICES ASSUME NEW k \in 1..Len(m.layers)
               PROVE  <<"nydus", m.layers[k][2]>> \in Range(e.layers)
    BY <1>1 DEF Range
  <2>1. k \in DOMAIN all /\ all[k] = <<"nydus", m.layers[k][2]>>
    BY <1>1, <1>5 DEF Nydus
  <2> QED
    BY <1>3, <2>1 DEF Range
<1>7. all[1][1] = "nydus"
  <2>1. CASE Len(m.layers) = 0
    <3>1. all[1] = Bootstrap
      BY <1>5, <2>1
    <3> QED
      BY <3>1 DEF Bootstrap
  <2>2. CASE Len(m.layers) # 0
    <3>1. 1 \in 1..Len(m.layers)
      BY <1>1, <2>2
    <3> QED
      BY <1>1, <1>5, <3>1 DEF Nydus
  <2> QED
    BY <2>1, <2>2
<1> QED
  BY <1>3, <1>6, <1>7 DEF PlatformOf, e

\* The entries of the index: an OCI one and a nydus one for each manifest found.
LEMMA IndexEntries ==
  ASSUME NEW image \in ImageType
  PROVE  LET found == GetManifests(image)
             descs == [i \in DOMAIN found |-> PrependEmptyLayer(found[i])]
         IN  Range(DriverConvert(image).manifests) =
                 {descs[i] : i \in DOMAIN found}
                     \cup {Marked(Converted(found[i]), i, descs) : i \in DOMAIN found}
<1> DEFINE found == GetManifests(image)
           descs == [i \in DOMAIN found |-> PrependEmptyLayer(found[i])]
           refound == GetManifests(ConvertImage(image))
           marked == [i \in DOMAIN refound |-> Marked(refound[i], i, descs)]
<1>1. /\ found \in Seq(ManifestType)
      /\ refound = [i \in DOMAIN found |-> Converted(found[i])]
  BY FoundAgain
<1>2. DriverConvert(image).manifests = descs \o marked
  BY DEF DriverConvert, MakeManifestIndex
<1> HIDE DEF found, refound
<1>3. DOMAIN found = 1..Len(found) /\ Len(found) \in Nat /\ DOMAIN refound = DOMAIN found
  BY <1>1
<1>4. \A i \in DOMAIN found : marked[i] = Marked(Converted(found[i]), i, descs)
  BY <1>1, <1>3
<1> DEFINE D == Range(descs) \cup Range(marked)
<1>5. /\ descs \in Seq(D) /\ Len(descs) = Len(found)
      /\ marked \in Seq(D) /\ Len(marked) = Len(found)
  <2>1. /\ descs = [i \in 1..Len(found) |-> descs[i]]
        /\ marked = [i \in 1..Len(found) |-> marked[i]]
    BY <1>3
  <2>2. \A i \in 1..Len(found) : descs[i] \in D /\ marked[i] \in D
    BY <1>3 DEF Range
  <2> HIDE DEF descs, marked, D
  <2> QED
    BY <1>3, <2>1, <2>2
<1> DEFINE all == descs \o marked
<1>6. /\ DOMAIN all = 1..(Len(found) + Len(found))
      /\ \A i \in 1..Len(found) : all[i] = descs[i]
      /\ \A i \in 1..Len(found) : all[Len(found) + i] = marked[i]
  <2> HIDE DEF D, descs, marked
  <2> QED
    BY <1>3, <1>5
<1> HIDE DEF all, marked, descs
<1>7. ASSUME NEW i \in DOMAIN found
      PROVE  descs[i] \in Range(all) /\ marked[i] \in Range(all)
  <2>1. i \in DOMAIN all /\ Len(found) + i \in DOMAIN all
    BY <1>3, <1>6
  <2> QED
    BY <1>3, <1>6, <2>1 DEF Range
<1>8. ASSUME NEW e \in Range(all)
      PROVE  \E i \in DOMAIN found : e = descs[i] \/ e = marked[i]
  <2>1. PICK j \in DOMAIN all : all[j] = e
    BY DEF Range
  <2>2. CASE j \in 1..Len(found)
    BY <1>3, <1>6, <2>1, <2>2
  <2>3. CASE j \notin 1..Len(found)
    <3>1. j - Len(found) \in 1..Len(found) /\ j = Len(found) + (j - Len(found))
      BY <1>3, <1>6, <2>1, <2>3
    <3> QED
      BY <1>3, <1>6, <2>1, <3>1
  <2> QED
    BY <2>2, <2>3
<1>9. Range(all) = {descs[i] : i \in DOMAIN found}
                       \cup {Marked(Converted(found[i]), i, descs) : i \in DOMAIN found}
  BY <1>4, <1>7, <1>8
<1> QED
  BY <1>2, <1>9 DEF all, marked, descs, found, refound

LEMMA IndexFindsBoth ==
  ASSUME NEW image \in ImageType,
         \A m \in Range(image.manifests) : Stock(m)
  PROVE  FindsBoth(image, DriverConvert(image))
<1> DEFINE found == GetManifests(image)
           descs == [i \in DOMAIN found |-> PrependEmptyLayer(found[i])]
           entries == Range(DriverConvert(image).manifests)
           marked(i) == Marked(Converted(found[i]), i, descs)
<1>1. found \in Seq(ManifestType) /\ Range(found) \subseteq Range(image.manifests)
  BY FoundAgain
<1>2. \A i \in DOMAIN found : descs[i] \in entries /\ marked(i) \in entries
  BY IndexEntries
<1> HIDE DEF found, entries
<1>3. ASSUME NEW m \in Range(found), NEW type \in {"oci", "nydus"}
      PROVE  \E e \in entries :
                /\ e.platform = PlatformOf(m)
                /\ e.artifactType = "nydus" <=> type = "nydus"
                /\ \A l \in Range(m.layers) : <<type, l[2]>> \in Range(e.layers)
  <2>1. PICK i \in DOMAIN found : found[i] = m
    BY DEF Range
  <2>2. m \in ManifestType /\ Stock(m)
    BY <1>1, <2>1
  <2>3. /\ descs[i].platform = PlatformOf(m) /\ descs[i].platform \in Platform
        /\ descs[i].artifactType = "none"
        /\ Range(m.layers) \subseteq Range(descs[i].layers)
    <3>1. descs[i] = PrependEmptyLayer(m)
      BY <2>1
    <3> HIDE DEF descs
    <3> QED
      BY <2>2, <3>1, OciEntry DEF Stock
  <2>4. CASE type = "oci"
    <3>1. \A l \in Range(m.layers) : <<"oci", l[2]>> = l
      BY <2>2 DEF Stock, ManifestType, LayerName, Range
    <3> QED
      BY <1>2, <2>1, <2>3, <2>4, <3>1
  <2>5. CASE type = "nydus"
    <3>1. /\ marked(i).platform = PlatformOf(m)
          /\ marked(i).artifactType = "nydus"
          /\ \A l \in Range(m.layers) : <<"nydus", l[2]>> \in Range(marked(i).layers)
      <4>1. i \in DOMAIN descs
        BY <2>1
      <4> HIDE DEF descs
      <4> QED
        BY <2>1, <2>2, <2>3, <4>1, NydusEntry
    <3>2. marked(i) \in entries
      BY <1>2, <2>1
    <3> HIDE DEF marked
    <3> QED
      BY <2>5, <3>1, <3>2
  <2> QED
    BY <2>4, <2>5
<1> QED
  BY <1>3 DEF FindsBoth, found, entries

LEMMA IndexSharesNothing ==
  ASSUME NEW image \in ImageType, NEW other \in ImageType,
         \A m \in Range(other.manifests) : Stock(m)
  PROVE  NoReuse(other, DriverConvert(image))
<1> DEFINE found == GetManifests(image)
           descs == [i \in DOMAIN found |-> PrependEmptyLayer(found[i])]
           entries == Range(DriverConvert(image).manifests)
           marked(i) == Marked(Converted(found[i]), i, descs)
<1>1. found \in Seq(ManifestType)
  BY FoundAgain
<1>2. entries = {descs[i] : i \in DOMAIN found} \cup {marked(i) : i \in DOMAIN found}
  BY IndexEntries
<1> HIDE DEF found, entries
<1>3. ASSUME NEW e \in entries
      PROVE  e.diffIDs[1] = Empty \/ e.diffIDs[1][1] = "nydus"
  <2>1. PICK i \in DOMAIN found : e = descs[i] \/ e = marked(i)
    BY <1>2
  <2>2. found[i] \in ManifestType /\ i \in DOMAIN descs /\ descs[i] = PrependEmptyLayer(found[i])
    BY <1>1
  <2> HIDE DEF descs
  <2>3. /\ descs[i].platform = PlatformOf(found[i]) /\ descs[i].platform \in Platform
        /\ descs[i].diffIDs[1] = Empty
    BY <2>2, OciEntry
  <2>4. marked(i).diffIDs[1][1] = "nydus"
    BY <2>2, <2>3, NydusEntry
  <2> QED
    BY <2>1, <2>3, <2>4
<1>4. ASSUME NEW m \in Range(other.manifests), NEW e \in entries,
             NEW p \in Unpacked(m), p \in Unpacked(e)
      PROVE  FALSE
  <2>1. m \in ManifestType /\ Stock(m)
    BY DEF ImageType, Range
  <2>2. PICK n \in 1..Len(m.diffIDs) : p = SubSeq(m.diffIDs, 1, n)
    BY DEF Unpacked
  <2>3. PICK k \in 1..Len(e.diffIDs) : p = SubSeq(e.diffIDs, 1, k)
    BY <1>4 DEF Unpacked
  <2>4. m.diffIDs \in Seq(LayerName) /\ m.diffIDs # <<>> /\ 1 \in DOMAIN m.diffIDs
        /\ n \in Nat /\ n >= 1 /\ Len(p) = n /\ p[1] = m.diffIDs[1]
    BY <2>1, <2>2 DEF ManifestType
  <2>5. p[1] = e.diffIDs[1]
    <3>1. p = [i \in 1..k |-> e.diffIDs[i]] /\ k \in Int
      BY <2>3
    <3>2. 1 \in 1..k
      BY <2>4, <3>1
    <3> QED
      BY <3>1, <3>2
  <2>6. m.diffIDs[1][1] = "oci" /\ m.diffIDs[1] # Empty
    <3>1. m.diffIDs[1] \in Range(m.diffIDs)
      BY <2>4 DEF Range
    <3> QED
      BY <2>1, <2>4, <3>1 DEF Stock
  <2> QED
    BY <1>3, <2>4, <2>5, <2>6
<1> QED
  BY <1>4 DEF NoReuse, entries

\* What a conversion is to push it has made, of a version of its image.
Made ==
    \A c \in Conversion : pc[c] \in {"pushCache", "push"} =>
        made[c] # 0 /\ desc[c] = DriverConvert(Image[Source[c]][made[c]])

LEMMA MadeStep ==
  ASSUME Inv, Made, [Next]_vars
  PROVE  Made'
<1>1. TypeOK /\ Complete
  BY DEF Inv
<1>2. ASSUME NEW c \in Conversion, NEW d \in Conversion, Go(d),
             pc'[c] \in {"pushCache", "push"}
      PROVE  made'[c] # 0 /\ desc'[c] = DriverConvert(Image[Source[c]][made'[c]])
  <2>1. CASE Convert(d)
    <3>1. CASE c = d
      <4>1. /\ made' = [made EXCEPT ![c] = images[Source[c]]]
            /\ desc' = [desc EXCEPT ![c] = DriverConvert(Image[Source[c]][images[Source[c]]])]
            /\ images[Source[c]] # 0
        BY <1>1, <1>2, <2>1, <3>1 DEF Convert, Fail, goto, Complete, Pulled, TypeOK
      <4> QED
        BY <1>1, <4>1 DEF TypeOK
    <3>2. CASE c # d
      <4>1. pc'[c] = pc[c] /\ made'[c] = made[c] /\ desc'[c] = desc[c]
        BY <1>1, <2>1, <3>2 DEF Convert, Fail, goto, TypeOK, output
      <4> QED
        BY <1>2, <4>1 DEF Made
    <3> QED
      BY <3>1, <3>2
  <2>2. CASE PushCache(d) \/ PushCacheFail(d) \/ Push(d) \/ PushFail(d)
    <3>1. /\ made' = made /\ desc' = desc
          /\ pc'[c] \in {"pushCache", "push"} => pc[c] \in {"pushCache", "push"}
      BY <1>1, <2>2
         DEF PushCache, PushCacheFail, Push, PushFail, OrRetry, Fail, goto, TypeOK, output
    <3> QED
      BY <1>2, <3>1 DEF Made
  <2>3. CASE \/ Resolve(d) \/ ResolveFail(d) \/ SetImage(d) \/ PullFail(d)
             \/ UpdateLayerDiffID(d) \/ Recurse(d) \/ ConvertFail(d) \/ Stop(d)
             \/ \E b \in Blob : Ask(d, b) \/ (leader[b] = d /\ Fetch(b))
    <3>1. /\ made' = made /\ desc' = desc
          /\ \A e \in Conversion : pc'[e] \in {"pushCache", "push"} => pc'[e] = pc[e]
      BY <1>1, <2>3 DEF Resolve, ResolveFail, SetImage, PullFail, UpdateLayerDiffID,
         Recurse, ConvertFail, Stop, Ask, Fetch, OrRetry, Fail, goto, TypeOK, output
    <3> QED
      BY <1>2, <3>1 DEF Made
  <2> QED
    BY <1>2, <2>1, <2>2, <2>3 DEF Go
<1>3. CASE \/ \E c \in Conversion : FetchCache(c) \/ Cancel(c)
           \/ \E r \in Ref : PushSource(r)
           \/ Collect \/ UNCHANGED vars
  <2>1. /\ made' = made /\ desc' = desc
        /\ \A e \in Conversion : pc'[e] \in {"pushCache", "push"} => pc'[e] = pc[e]
    BY <1>1, <1>3 DEF FetchCache, Cancel, PushSource, Collect, vars, goto, TypeOK, output
  <2> QED
    BY <2>1 DEF Made
<1> QED
  BY <1>2, <1>3 DEF Next, Made

\* Only a push sets a target, to the index made of an image of the source.
LEMMA TargetSet ==
  ASSUME Inv, Made, [Next]_vars,
         \/ target' # target
         \/ \E c \in Conversion : pc[c] = "push" /\ pc'[c] = "done"
  PROVE  \E c \in Conversion : \E v \in Versions(Source[c]) :
             /\ v = made[c]
             /\ target' = [target EXCEPT ![Source[c]] = DriverConvert(Image[Source[c]][v])]
             /\ \A d \in Conversion : pc[d] = "push" /\ pc'[d] = "done" => d = c
<1>1. TypeOK
  BY DEF Inv
<1>2. ASSUME \A c \in Conversion : ~Push(c)
      PROVE  FALSE
  <2>1. /\ target' = target
        /\ \A d \in Conversion : pc'[d] = "done" => pc'[d] = pc[d]
    <3>1. ASSUME NEW c \in Conversion, Go(c)
          PROVE  /\ target' = target
                 /\ \A d \in Conversion : pc'[d] = "done" => pc'[d] = pc[d]
      <4>1. CASE \/ Resolve(c) \/ ResolveFail(c) \/ SetImage(c) \/ PullFail(c)
                 \/ UpdateLayerDiffID(c) \/ Convert(c) \/ Recurse(c) \/ ConvertFail(c)
        BY <1>1, <4>1 DEF Resolve, ResolveFail, SetImage, PullFail, UpdateLayerDiffID,
           Convert, Recurse, ConvertFail, OrRetry, Fail, goto, TypeOK, registry
      <4>2. CASE \/ PushCache(c) \/ PushCacheFail(c) \/ PushFail(c) \/ Stop(c)
                 \/ \E b \in Blob : Ask(c, b) \/ (leader[b] = c /\ Fetch(b))
        BY <1>1, <4>2 DEF PushCache, PushCacheFail, PushFail, Stop, Ask, Fetch,
           OrRetry, Fail, goto, TypeOK, registry
      <4> QED
        BY <1>2, <3>1, <4>1, <4>2 DEF Go
    <3>2. CASE \/ \E c \in Conversion : FetchCache(c) \/ Cancel(c)
               \/ \E r \in Ref : PushSource(r)
               \/ Collect \/ UNCHANGED vars
      BY <1>1, <3>2 DEF FetchCache, Cancel, PushSource, Collect, vars, goto, TypeOK, registry
    <3> QED
      BY <3>1, <3>2 DEF Next
  <2> QED
    BY <2>1
<1>3. PICK c \in Conversion : Push(c)
  BY <1>2
<1>4. /\ made[c] \in Versions(Source[c])
      /\ desc[c] = DriverConvert(Image[Source[c]][made[c]])
  BY <1>1, <1>3 DEF Push, Made, TypeOK
<1>5. \A d \in Conversion : pc[d] = "push" /\ pc'[d] = "done" => d = c
  BY <1>1, <1>3 DEF Push, goto, TypeOK
<1> QED
  BY <1>3, <1>4, <1>5 DEF Push

LEMMA SourceImages ==
  ASSUME NEW r \in Ref, NEW v \in Versions(r)
  PROVE  Image[r][v] \in ImageType
BY ImageAssumption DEF Versions

LEMMA MadeInvariant == Spec => []Made
<1>1. Init => Made
  BY DEF Init, Made
<1> QED
  BY <1>1, MadeStep, Invariance, PTL DEF Spec

\* The target of a conversion has, for every manifest that was to be converted,
\* the converted one and the OCI one under its platform; only the converted one
\* is marked.
THEOREM TargetsHaveBoth ==
  ASSUME StockSources
  PROVE  Spec => TargetHasBoth
<1>1. ASSUME Inv, Made, [Next]_vars, NEW c \in Conversion, pc[c] = "push", pc'[c] = "done"
      PROVE  FindsBoth(Image[Source[c]][made[c]], target'[Source[c]])
  <2>1. /\ made[c] \in Versions(Source[c])
        /\ target' = [target EXCEPT
               ![Source[c]] = DriverConvert(Image[Source[c]][made[c]])]
    BY <1>1, TargetSet
  <2>2. Source[c] \in Ref /\ DOMAIN target = Ref
    BY <1>1, ConversionAssumption DEF Inv, TypeOK
  <2>3. FindsBoth(Image[Source[c]][made[c]], DriverConvert(Image[Source[c]][made[c]]))
    BY <2>1, <2>2, SourceImages, IndexFindsBoth DEF StockSources
  <2> QED
    BY <2>1, <2>2, <2>3
<1>2. Inv /\ Made /\ [Next]_vars =>
          [\A c \in Conversion : (pc[c] = "push" /\ pc'[c] = "done") =>
               FindsBoth(Image[Source[c]][made[c]], target'[Source[c]])]_vars
  BY <1>1
<1> QED
  BY <1>2, Invariance, MadeInvariant, PTL DEF Spec, TargetHasBoth

\* No entry of a target has layers below which a runtime has unpacked those of a
\* stock image, whatever it was made of.
THEOREM TargetsShareNothing ==
  ASSUME StockSources
  PROVE  Spec => TargetSharesNothing
<1>1. ASSUME Inv, Made, [Next]_vars, NEW r \in Ref, target'[r] # target[r],
             NEW s \in Ref, NEW v \in Versions(s)
      PROVE  NoReuse(Image[s][v], target'[r])
  <2>1. PICK c \in Conversion : \E w \in Versions(Source[c]) :
           target' = [target EXCEPT ![Source[c]] = DriverConvert(Image[Source[c]][w])]
    BY <1>1, TargetSet
  <2>2. PICK w \in Versions(Source[c]) :
           target' = [target EXCEPT ![Source[c]] = DriverConvert(Image[Source[c]][w])]
    BY <2>1
  <2>3. DOMAIN target = Ref /\ Source[c] \in Ref
    BY <1>1, ConversionAssumption DEF Inv, TypeOK
  <2>4. target'[r] = DriverConvert(Image[Source[c]][w])
    BY <1>1, <2>2, <2>3
  <2> QED
    BY <2>3, <2>4, SourceImages, IndexSharesNothing DEF StockSources
<1>2. Inv /\ Made /\ [Next]_vars =>
          [\A r \in Ref : target'[r] # target[r] =>
               \A s \in Ref : \A v \in Versions(s) : NoReuse(Image[s][v], target'[r])]_vars
  BY <1>1
<1> QED
  BY <1>2, Invariance, MadeInvariant, PTL DEF Spec, TargetSharesNothing
=============================================================================
