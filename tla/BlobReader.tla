------------------------------ MODULE BlobReader ------------------------------
(***************************************************************************)
(* What Content.ReaderAt promises of a blob, wherever its bytes come from:   *)
(* a read gets the bytes of the blob at the offset it asked for, in order,   *)
(* and succeeds when it got all of them; after Close reads get nothing.      *)
(*                                                                         *)
(* A byte of the blob is its offset.                                         *)
(***************************************************************************)
EXTENDS Naturals, Sequences

CONSTANT Size   \* the size of the blob, a natural number

VARIABLES want,    \* [at, len]: the last read that was asked for
          got,     \* the bytes it got so far
          res,     \* "none", "pending", "ok", "error": what came of it
          closed

\* n bytes of the blob from an offset.
Bytes(at, n) == [i \in 1..n |-> at + i - 1]

Request == [at: 0..Size, len: Nat \ {0}]

Init ==
    /\ want = [at |-> 0, len |-> 1] /\ got = <<>>
    /\ res = "none"
    /\ closed = FALSE

Ask ==
    /\ res # "pending"
    /\ want' \in Request
    /\ got' = <<>>
    /\ \/ ~closed /\ res' = "pending"
       \/ closed /\ res' = "error"
    /\ UNCHANGED closed

\* More bytes arrive, or the read ends, or both.
Serve ==
    /\ res = "pending"
    /\ \E n \in Len(got)..want.len :
           /\ want.at + n <= Size \/ n = 0
           /\ got' = Bytes(want.at, n)
           /\ \/ res' = "pending"
              \/ n = want.len /\ res' = "ok"
              \/ n < want.len /\ res' = "error"
    /\ UNCHANGED <<want, closed>>

Close ==
    /\ res # "pending"
    /\ closed' = TRUE
    /\ UNCHANGED <<want, got, res>>

Next == Ask \/ Serve \/ Close

Spec == Init /\ [][Next]_<<want, got, res, closed>>
=============================================================================
