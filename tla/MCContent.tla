------------------------------ MODULE MCContent ------------------------------
(* Small instances of Content for TLC. *)
EXTENDS Content, TLC

CONSTANTS a, b, c

\* Blobs of two sizes.
Sizes == [d \in Digest |-> IF d = a THEN 3 ELSE 2]

Symmetry == Permutations(User)
=============================================================================
