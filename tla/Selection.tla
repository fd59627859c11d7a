------------------------------- MODULE Selection -------------------------------
(***************************************************************************)
(* Loops of the code that go through a slice and append what passes a test.  *)
(* SelectSeq says the same of a test; here the test is the set of what       *)
(* passes, so that Keep takes values only and SelectionProofs can state what *)
(* it returns.                                                              *)
(***************************************************************************)
EXTENDS Naturals, FiniteSets, SequencesExt

\* What of the sequence s is in S, in the order of s.
Keep(s, S) ==
    LET kept[n \in 0..Len(s)] ==
            IF n = 0 THEN <<>>
            ELSE IF s[n] \in S THEN Append(kept[n-1], s[n])
            ELSE kept[n-1]
    IN  kept[Len(s)]

\* How often e is in the sequence s.
Count(s, e) == Cardinality({i \in DOMAIN s : s[i] = e})
=============================================================================
