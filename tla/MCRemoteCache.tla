---------------------------- MODULE MCRemoteCache ----------------------------
(***************************************************************************)
(* Three images of one repository: two for one platform, which share the     *)
(* lowest layer of one that is not the lowest of the other, and one for two  *)
(* platforms.  One has a layer twice.                                        *)
(***************************************************************************)
EXTENDS RemoteCache

CONSTANTS app, tool, multi,   \* conversions
          base, bin, lib,     \* layers
          amd64, arm64        \* platforms

MCImage ==
    app   :> [kind |-> "manifest",
              manifests |-> <<[platform |-> amd64, layers |-> <<base, bin>>]>>]
 @@ tool  :> [kind |-> "manifest",
              manifests |-> <<[platform |-> amd64, layers |-> <<lib, base, lib>>]>>]
 @@ multi :> [kind |-> "index",
              manifests |-> <<[platform |-> amd64, layers |-> <<base>>],
                              [platform |-> arm64, layers |-> <<lib, bin>>]>>]
=============================================================================
