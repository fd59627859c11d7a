---------------------------- MODULE NydusManifest ----------------------------
(***************************************************************************)
(* pkg/driver/nydus: the image that the driver makes of a source image, with *)
(* merge_manifest on.                                                        *)
(*                                                                         *)
(* An image is a manifest, or an index of manifests.  The blobs of a         *)
(* manifest are its layers; those of its config are the uncompressed layers, *)
(* its diff IDs.  A layer and its diff ID go by one name, <<format, name>>.  *)
(* The history of the config is extended like the diff IDs and left out.     *)
(***************************************************************************)
EXTENDS Selection

CONSTANTS Platform,         \* platforms of images
          Selected,         \* those that platformMC matches
          DefaultPlatform   \* platforms.DefaultSpec()

\* A descriptor need not state the platform of its manifest.
NoPlatform == "none"

ASSUME PlatformAssumption ==
    Selected \cup {DefaultPlatform} \subseteq Platform /\ NoPlatform \notin Platform

LayerName == {"oci", "nydus"} \X STRING
ManifestType == [platform: Platform \cup {NoPlatform}, os: Platform,
                 artifactType: {"none", "nydus"},
                 layers: Seq(LayerName), diffIDs: Seq(LayerName)]
ImageType == [kind: {"manifest", "index"}, manifests: Seq(ManifestType)]

Empty == <<"oci", "empty">>
Bootstrap == <<"nydus", "bootstrap">>

\* utils.GetManifests: a manifest itself, of an index those that match.
GetManifests(image) ==
    IF image.kind = "index"
    THEN Keep(image.manifests,
              {m \in Range(image.manifests) :
                  m.platform \in Selected \cup {NoPlatform}})
    ELSE image.manifests

\* Every manifest found has as many layers as its config has diff IDs.
Matched(image) ==
    \A m \in Range(GetManifests(image)) : Len(m.layers) = Len(m.diffIDs)

-----------------------------------------------------------------------------
\* External: containerd's converter with nydusify's hooks.  The layers of each
\* manifest are converted in their order, a bootstrap layer is appended.
Nydus(layer) == <<"nydus", layer[2]>>

Converted(m) ==
    LET layers == Append([i \in DOMAIN m.layers |-> Nydus(m.layers[i])], Bootstrap)
    IN  [m EXCEPT !.layers = layers, !.diffIDs = layers]

ConvertImage(image) ==
    LET ms == GetManifests(image)
    IN  [image EXCEPT !.manifests = [i \in DOMAIN ms |-> Converted(ms[i])]]

-----------------------------------------------------------------------------
\* Mutant: the empty layer goes last.
AppendEmptyLayer(m) ==
    [m EXCEPT !.layers = Append(@, Empty),
              !.diffIDs = Append(@, Empty),
              !.platform = IF @ = NoPlatform THEN m.os ELSE @]

\* PrependEmptyLayer: the platform of the config is that of the descriptor, if
\* that has none.
PrependEmptyLayer(m) ==
    [m EXCEPT !.layers = <<Empty>> \o @,
              !.diffIDs = <<Empty>> \o @,
              !.platform = IF @ = NoPlatform THEN m.os ELSE @]

\* Mutant: a manifest without a platform is one of the default platform.
MarkedDefault(m, i, ociDescs) ==
    [m EXCEPT !.artifactType = "nydus",
              !.platform = IF @ # NoPlatform THEN @ ELSE DefaultPlatform]

\* A nydus manifest in the index: one without a platform takes that of the OCI
\* manifest in the same place.
Marked(m, i, ociDescs) ==
    [m EXCEPT !.artifactType = "nydus",
              !.platform =
                  IF @ # NoPlatform THEN @
                  ELSE IF i \in DOMAIN ociDescs /\ ociDescs[i].platform # NoPlatform
                       THEN ociDescs[i].platform
                       ELSE DefaultPlatform]

MakeManifestIndex(oci, nydus) ==
    LET found == GetManifests(oci)
        ociDescs == [i \in DOMAIN found |-> PrependEmptyLayer(found[i])]
        made == GetManifests(nydus)
        nydusDescs == [i \in DOMAIN made |-> Marked(made[i], i, ociDescs)]
    IN  [kind |-> "index", manifests |-> ociDescs \o nydusDescs]

\* Driver.Convert
DriverConvert(image) == MakeManifestIndex(image, ConvertImage(image))

-----------------------------------------------------------------------------
(* What a merged index is made for *)

\* The platform a manifest runs on, whether its descriptor states it or not.
PlatformOf(m) == IF m.platform = NoPlatform THEN m.os ELSE m.platform

\* A runtime finds, for every manifest that was to be converted, one entry of
\* its platform with its layers and one, marked, with its layers converted.
FindsBoth(image, index) ==
    \A m \in Range(GetManifests(image)) :
        \A type \in {"oci", "nydus"} :
            \E e \in Range(index.manifests) :
                /\ e.platform = PlatformOf(m)
                /\ e.artifactType = "nydus" <=> type = "nydus"
                /\ \A l \in Range(m.layers) : <<type, l[2]>> \in Range(e.layers)

\* A runtime unpacks layer upon layer, and reuses a layer that it has unpacked
\* upon the same ones.
Unpacked(m) == {SubSeq(m.diffIDs, 1, n) : n \in 1..Len(m.diffIDs)}

NoReuse(image, index) ==
    \A m \in Range(image.manifests), e \in Range(index.manifests) :
        Unpacked(m) \cap Unpacked(e) = {}
=============================================================================
