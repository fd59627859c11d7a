---------------------------------- MODULE Rule ----------------------------------
(***************************************************************************)
(* pkg/adapter/rule.go: the references of the target image and of the remote *)
(* cache of a source image.                                                 *)
(*                                                                         *)
(* A reference has a name in normal form (registry and repository) and a     *)
(* tag, a digest, both or neither.  A text is the sequence of those of its   *)
(* parts that the rules can tell apart.                                     *)
(***************************************************************************)
EXTENDS SequencesExt

CONSTANT Rules   \* cfg.Converter.Rules: [suffix, cache], <<>> where not set

Text == Seq(STRING)

ASSUME RulesAssumption == Rules \in Seq([suffix: Text, cache: Text])

Reference == [name: Text, tag: Text, digest: Text]

\* A reference as it is written.
Written(ref) ==
    ref.name
        \o (IF ref.tag = <<>> THEN <<>> ELSE <<":">> \o ref.tag)
        \o (IF ref.digest = <<>> THEN <<>> ELSE <<"@">> \o ref.digest)

\* What both rewritings do first: drop the digest and keep a tag beside it.
Undigested(ref) == [ref EXCEPT !.digest = <<>>]

\* addSuffix: a reference without a tag gets the default one.
addSuffix(ref, suffix) ==
    LET tag == IF ref.tag = <<>> THEN <<"latest">> ELSE ref.tag
    IN  [Undigested(ref) EXCEPT !.tag = tag \o suffix]

setReferenceTag(ref, tag) == [Undigested(ref) EXCEPT !.tag = tag]

SuffixRules == {i \in DOMAIN Rules : Rules[i].suffix # <<>>}
CacheRules == {i \in DOMAIN Rules : Rules[i].cache # <<>>}

\* The first rule with a suffix, or with a cache tag, is the one that counts.
TagSuffix == Rules[Min(SuffixRules)].suffix
CacheTag == Rules[Min(CacheRules)].cache

TargetRef(ref) == addSuffix(ref, TagSuffix)
CacheRef(ref) == setReferenceTag(ref, CacheTag)

\* Mutant: a reference is never taken for one that was converted.
RuleMapAlways(ref) ==
    IF SuffixRules = {} THEN "invalid"
    ELSE IF CacheRules = {} THEN "plain"
    ELSE IF ref.tag = CacheTag THEN "cacheImage"
    ELSE "cached"

\* The outcome of Map for TagSuffix and then for CacheTag: no rule with a suffix;
\* ErrAlreadyConverted; no cache; ErrSameTag; a target and a cache.
RuleMap(ref) ==
    IF SuffixRules = {} THEN "invalid"
    ELSE IF IsSuffix(TagSuffix, Written(ref)) THEN "converted"
    ELSE IF CacheRules = {} THEN "plain"
    ELSE IF ref.tag = CacheTag THEN "cacheImage"
    ELSE "cached"
=============================================================================
