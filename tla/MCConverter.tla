----------------------------- MODULE MCConverter -----------------------------
(***************************************************************************)
(* Two conversions of app, which is pushed again, one of them with the layer *)
(* lib in its remote cache, and one of tool, without a cache, whose layer app *)
(* has too.  The registry of app speaks HTTPS, that of tool only plain HTTP.  *)
(***************************************************************************)
EXTENDS Converter, TLC

CONSTANTS first, second, other, app, tool, amd64, arm64

Manifest(platform, os, names) ==
    LET layers == [i \in DOMAIN names |-> <<"oci", names[i]>>]
    IN  [platform |-> platform, os |-> os, artifactType |-> "none",
         layers |-> layers, diffIDs |-> layers]

MCSource == first :> app @@ second :> app @@ other :> tool

MCImage ==
    app :> << [kind |-> "manifest",
               manifests |-> <<Manifest(NoPlatform, arm64, <<"base">>)>>],
              [kind |-> "index",
               manifests |-> <<Manifest(amd64, amd64, <<"lib">>),
                               Manifest(arm64, arm64, <<"lib", "lib">>)>>] >>
 @@ tool :> << [kind |-> "manifest",
                manifests |-> <<Manifest(NoPlatform, amd64, <<"base">>)>>] >>

MCCached == [c \in Conversion |-> IF c = second THEN {<<"oci", "lib">>} ELSE {}]

MCServes == app :> {"https"} @@ tool :> {"http"}
=============================================================================
