------------------------------ MODULE MCAdapter ------------------------------
(* Small instances of Adapter for TLC. *)
EXTENDS Adapter

CONSTANTS rCached, rSkip, rBad, t1, t2, t3

\* References that the rules treat differently.
MapMixed == [r \in Ref |-> CASE r = rCached -> "cached"
                             [] r = rSkip -> "converted"
                             [] r = rBad -> "invalid"
                             [] OTHER -> "plain"]

\* Users push rCached once more.
PushOnce == [r \in Ref |-> IF r = rCached THEN 1 ELSE 0]
NoPush == [r \in Ref |-> 0]

\* Two calls for rCached, one for rSkip.  When all are async, one job of three has
\* to wait for one of the two workers.
InitMC ==
    /\ Init
    /\ ref = [t \in Task |-> IF t = t3 THEN rSkip ELSE rCached]
    /\ mode[t2] = "async" /\ mode[t3] = "async"
FairSpecMC == InitMC /\ [][Next]_vars /\ Fairness
=============================================================================
