----------------------------- MODULE TaskRecord -----------------------------
(***************************************************************************)
(* What the service promises about the durable record of one conversion    *)
(* task: it appears once, as PROCESSING; it gets one outcome, which never   *)
(* changes; once it is gone it never comes back.  The task manager (over    *)
(* the bolt bucket) is shown to implement this specification.               *)
(***************************************************************************)
CONSTANT TaskId        \* the identifiers uuid.NewString can return

VARIABLE rec           \* rec[id]: where the record of id is in its life

Outcome == {"COMPLETED", "FAILED"}

Stage == {"absent", "PROCESSING", "gone"} \cup Outcome

RecordType == rec \in [TaskId -> Stage]

Init == rec = [id \in TaskId |-> "absent"]

\* A new task is recorded.
Open(id) ==
    /\ rec[id] = "absent"
    /\ rec' = [rec EXCEPT ![id] = "PROCESSING"]

\* The outcome of a task is recorded.
Close(id, outcome) ==
    /\ rec[id] = "PROCESSING"
    /\ rec' = [rec EXCEPT ![id] = outcome]

\* A finished record is dropped when it is old.
Evict(id) ==
    /\ rec[id] \in Outcome
    /\ rec' = [rec EXCEPT ![id] = "gone"]

\* The tasks that were not finished when the daemon stopped are dropped.
Forget(S) ==
    /\ \A id \in S : rec[id] \in {"absent", "PROCESSING"}
    /\ rec' = [id \in TaskId |-> IF id \in S THEN "gone" ELSE rec[id]]

Next ==
    \/ \E id \in TaskId : Open(id) \/ Evict(id)
    \/ \E id \in TaskId, outcome \in Outcome : Close(id, outcome)
    \/ \E S \in SUBSET TaskId : Forget(S)

Spec == Init /\ [][Next]_rec
=============================================================================
