---------------------------- MODULE TaskManager ----------------------------
(***************************************************************************)
(* pkg/task/manager.go: the table of conversion tasks, kept in memory and   *)
(* in a bolt bucket, and the goroutines that call Create, Finish and List.  *)
(*                                                                         *)
(* Create and Finish run under one mutex.  Their steps are separate actions *)
(* because two things can happen in the middle: the daemon can die, and a   *)
(* listing, which gets pointers to the tasks under the mutex but encodes    *)
(* them to JSON after releasing it, can read a task that Finish is writing. *)
(* Every bolt transaction may fail.                                         *)
(***************************************************************************)
EXTENDS Naturals

CONSTANTS TaskId,      \* the identifiers uuid.NewString can return
          KeepPeriod,  \* taskMaximumKeepPeriod
          MaxClock     \* bound: the clock stops there

ASSUME KeepPeriodAssumption == KeepPeriod \in Nat
ASSUME MaxClockAssumption == MaxClock \in Nat

VARIABLES up,       \* the daemon runs
          clock,    \* time.Now()
          tasks,    \* the keys of manager.tasks
          obj,      \* obj[id]: the Task that the pointer of id leads to
          bucket,   \* bucket[id]: the record of id in task.db
          holder,   \* which goroutine holds manager.mutex: its task, or {}
          pc,       \* pc[id]: where the Dispatch call of task id is
          visit,    \* the keys the eviction loop of Finish has yet to visit
          todo,     \* List: the tasks of the response not encoded yet
          item      \* List: the task being encoded, with what was read of it

vars == <<up, clock, tasks, obj, bucket, holder, pc, visit, todo, item>>

Outcome == {"COMPLETED", "FAILED"}

Status == {"NONE", "PROCESSING"} \cup Outcome

\* The text of an error, or none.
Reason == {"none", "error"}

\* Source and sizes are left out: nothing below depends on them.
Task == [status : Status, reason : Reason, created : Nat, finished : Nat]

\* No task: the zero value of the struct, and an absent record.
Blank == [status |-> "NONE", reason |-> "none", created |-> 0, finished |-> 0]

NewTask(now) == [Blank EXCEPT !.status = "PROCESSING", !.created = now]

\* The calls between Create's return and the unlocking of Finish.
Unfinished == {"open", "reason", "stamp", "save"}

CallState == {"unborn", "create", "refused", "evict", "done", "unsaved", "lost"}
                \cup Unfinished

\* What a listing has read: nothing, the status, then the reason too.
NoItem == [id |-> {}, status |-> "NONE", reason |-> "none", read |-> 0]

Item == [id : SUBSET TaskId, status : Status, reason : Reason, read : 0..2]

TypeOK ==
    /\ up \in BOOLEAN
    /\ clock \in 0..MaxClock
    /\ tasks \in SUBSET TaskId
    /\ obj \in [TaskId -> Task]
    /\ bucket \in [TaskId -> Task]
    /\ holder \in SUBSET TaskId
    /\ pc \in [TaskId -> CallState]
    /\ visit \in SUBSET TaskId
    /\ todo \in SUBSET TaskId
    /\ item \in Item

-----------------------------------------------------------------------------
Init ==
    /\ up = TRUE
    /\ clock = 0
    /\ tasks = {}
    /\ obj = [id \in TaskId |-> Blank]
    /\ bucket = [id \in TaskId |-> Blank]
    /\ holder = {}
    /\ pc = [id \in TaskId |-> "unborn"]
    /\ visit = {}
    /\ todo = {}
    /\ item = NoItem

\* Mutants of IsExpired: without the test of the status; without the age.
IsExpiredAnyStatus(task, now) == now > task.finished + KeepPeriod
IsExpiredAnyAge(task, now) == task.status # "PROCESSING"

\* Task.IsExpired
IsExpired(task, now) ==
    /\ task.status # "PROCESSING"
    /\ now > task.finished + KeepPeriod

goto(id, label) == pc' = [pc EXCEPT ![id] = label]

listing == <<todo, item>>

-----------------------------------------------------------------------------
(* Create *)

\* Lock, make a task under a fresh id and put it in the map.
CreateTask(id) ==
    /\ up
    /\ pc[id] = "unborn"
    /\ holder = {}
    /\ holder' = {id}
    /\ tasks' = tasks \cup {id}
    /\ obj' = [obj EXCEPT ![id] = NewTask(clock)]
    /\ goto(id, "create")
    /\ UNCHANGED <<up, clock, bucket, visit, listing>>

\* updateBucket succeeds: Create returns the id and Dispatch goes on with it.
CreateSave(id) ==
    /\ pc[id] = "create"
    /\ bucket' = [bucket EXCEPT ![id] = obj[id]]
    /\ holder' = {}
    /\ goto(id, "open")
    /\ UNCHANGED <<up, clock, tasks, obj, visit, listing>>

\* updateBucket fails: Create returns an error, the task stays in the map.
CreateFail(id) ==
    /\ pc[id] = "create"
    /\ holder' = {}
    /\ goto(id, "refused")
    /\ UNCHANGED <<up, clock, tasks, obj, bucket, visit, listing>>

-----------------------------------------------------------------------------
(* Finish *)

\* Lock and write the status.
FinishStatus(id, outcome) ==
    /\ pc[id] = "open"
    /\ holder = {}
    /\ holder' = {id}
    /\ obj' = IF id \in tasks THEN [obj EXCEPT ![id].status = outcome] ELSE obj
    /\ goto(id, IF outcome = "FAILED" THEN "reason" ELSE "stamp")
    /\ UNCHANGED <<up, clock, tasks, bucket, visit, listing>>

\* A failed task gets the text of the error.
FinishReason(id) ==
    /\ pc[id] = "reason"
    /\ obj' = IF id \in tasks THEN [obj EXCEPT ![id].reason = "error"] ELSE obj
    /\ goto(id, "stamp")
    /\ UNCHANGED <<up, clock, tasks, bucket, holder, visit, listing>>

\* Mutant: the end is stored one tick early.
FinishStampEarly(id) ==
    /\ pc[id] = "stamp"
    /\ obj' = [obj EXCEPT ![id].finished = clock - 1]
    /\ goto(id, "save")
    /\ UNCHANGED <<up, clock, tasks, bucket, holder, visit, listing>>

\* The time of the end.
FinishStamp(id) ==
    /\ pc[id] = "stamp"
    /\ obj' = IF id \in tasks THEN [obj EXCEPT ![id].finished = clock] ELSE obj
    /\ goto(id, "save")
    /\ UNCHANGED <<up, clock, tasks, bucket, holder, visit, listing>>

\* updateBucket succeeds and the eviction loop starts.
FinishSave(id) ==
    /\ pc[id] = "save"
    /\ bucket' = [bucket EXCEPT ![id] = obj[id]]
    /\ visit' = tasks
    /\ goto(id, "evict")
    /\ UNCHANGED <<up, clock, tasks, obj, holder, listing>>

\* Mutant: a failed save puts the task back to PROCESSING.
FinishFailRollback(id) ==
    /\ pc[id] = "save"
    /\ holder' = {}
    /\ obj' = [obj EXCEPT ![id].status = "PROCESSING"]
    /\ goto(id, "unsaved")
    /\ UNCHANGED <<up, clock, tasks, bucket, visit, listing>>

\* updateBucket fails: Finish returns without evicting.
FinishFail(id) ==
    /\ pc[id] = "save"
    /\ holder' = {}
    /\ goto(id, "unsaved")
    /\ UNCHANGED <<up, clock, tasks, obj, bucket, visit, listing>>

\* The eviction loop, in the map's order: a task that is kept.
EvictKeep(id, x) ==
    /\ pc[id] = "evict"
    /\ x \in visit
    /\ ~ IsExpired(obj[x], clock)
    /\ visit' = visit \ {x}
    /\ UNCHANGED <<up, clock, tasks, obj, bucket, holder, pc, listing>>

\* An expired task leaves the map, then the bucket.
EvictDelete(id, x) ==
    /\ pc[id] = "evict"
    /\ x \in visit
    /\ IsExpired(obj[x], clock)
    /\ visit' = visit \ {x}
    /\ tasks' = tasks \ {x}
    /\ bucket' = [bucket EXCEPT ![x] = Blank]
    /\ UNCHANGED <<up, clock, obj, holder, pc, listing>>

\* deleteBucket fails: the task has left the map only, and Finish returns.
EvictFail(id, x) ==
    /\ pc[id] = "evict"
    /\ x \in visit
    /\ IsExpired(obj[x], clock)
    /\ tasks' = tasks \ {x}
    /\ visit' = {}
    /\ holder' = {}
    /\ goto(id, "done")
    /\ UNCHANGED <<up, clock, obj, bucket, listing>>

FinishReturn(id) ==
    /\ pc[id] = "evict"
    /\ visit = {}
    /\ holder' = {}
    /\ goto(id, "done")
    /\ UNCHANGED <<up, clock, tasks, obj, bucket, visit, listing>>

-----------------------------------------------------------------------------
(* List, and the router that encodes what it returns *)

\* Under the mutex: the pointers of every task.
List ==
    /\ up
    /\ holder = {}
    /\ todo = {} /\ item.read # 1
    /\ todo' = tasks
    /\ item' = NoItem
    /\ UNCHANGED <<up, clock, tasks, obj, bucket, holder, pc, visit>>

\* The newest task not encoded yet comes next; the encoder reads its status ...
EncodeStatus(id) ==
    /\ item.read # 1
    /\ id \in todo
    /\ \A other \in todo : obj[other].created <= obj[id].created
    /\ todo' = todo \ {id}
    /\ item' = [id |-> {id}, status |-> obj[id].status, reason |-> "none", read |-> 1]
    /\ UNCHANGED <<up, clock, tasks, obj, bucket, holder, pc, visit>>

\* ... and then its reason.
EncodeReason(id) ==
    /\ item.read = 1 /\ item.id = {id}
    /\ item' = [id |-> {id}, status |-> item.status, reason |-> obj[id].reason, read |-> 2]
    /\ UNCHANGED <<up, clock, tasks, obj, bucket, holder, pc, visit, todo>>

-----------------------------------------------------------------------------
(* The daemon and time *)

\* The daemon dies: memory and every call in progress are lost.
Crash ==
    /\ up
    /\ up' = FALSE
    /\ tasks' = {}
    /\ obj' = [id \in TaskId |-> Blank]
    /\ holder' = {}
    /\ pc' = [id \in TaskId |->
                IF pc[id] \in {"create", "evict"} \cup Unfinished
                  THEN "lost" ELSE pc[id]]
    /\ visit' = {}
    /\ todo' = {}
    /\ item' = NoItem
    /\ UNCHANGED <<clock, bucket>>

\* Mutant: a restart keeps every record.
LoadedAll(task) == task

\* The record a restart keeps of the one found in the bucket.
Loaded(task) == IF task.status = "PROCESSING" THEN Blank ELSE task

\* Manager.Init: one transaction drops the PROCESSING records of the bucket
\* and loads the others.  (When it fails, the daemon does not start.)
Restart ==
    /\ ~ up
    /\ up' = TRUE
    /\ bucket' = [id \in TaskId |-> Loaded(bucket[id])]
    /\ obj' = bucket'
    /\ tasks' = {id \in TaskId : bucket'[id].status # "NONE"}
    /\ UNCHANGED <<clock, holder, pc, visit, listing>>

Tick ==
    /\ clock < MaxClock
    /\ clock' = clock + 1
    /\ UNCHANGED <<up, tasks, obj, bucket, holder, pc, visit, listing>>

-----------------------------------------------------------------------------
Create(id) == CreateTask(id) \/ CreateSave(id) \/ CreateFail(id)

Finish(id) ==
    \/ \E outcome \in Outcome : FinishStatus(id, outcome)
    \/ FinishReason(id)
    \/ FinishStamp(id)
    \/ FinishSave(id)
    \/ FinishFail(id)
    \/ \E x \in TaskId : EvictKeep(id, x) \/ EvictDelete(id, x) \/ EvictFail(id, x)
    \/ FinishReturn(id)

Encode(id) == EncodeStatus(id) \/ EncodeReason(id)

Next ==
    \/ \E id \in TaskId : Create(id) \/ Finish(id) \/ Encode(id)
    \/ List
    \/ Crash
    \/ Restart
    \/ Tick

Spec == Init /\ [][Next]_vars

-----------------------------------------------------------------------------
(* Properties *)

\* Finish always finds its task in the map: a task is not evicted while its
\* conversion runs, however long that takes.  (updateBucket would dereference
\* a nil task and stop the daemon.)
FinishFindsTask ==
    \A id \in TaskId : pc[id] \in Unfinished => id \in tasks

\* A task shown as PROCESSING is one that a call is still working on, or one
\* whose Create failed to save it; after a restart none is left over from
\* before, neither in memory nor in the bucket.
NoOrphanProcessing ==
    up => \A id \in TaskId :
        /\ id \in tasks /\ obj[id].status = "PROCESSING"
             => pc[id] \in {"create", "open", "refused"}
        /\ bucket[id].status = "PROCESSING"
             => pc[id] \in Unfinished \cup {"unsaved"}

\* An outcome saved in the bucket is the one that memory shows, field by field,
\* for as long as the keep period lasts, through crashes and restarts too.
SavedOutcomeShown ==
    up => \A id \in TaskId :
        bucket[id].status \in Outcome =>
            \/ id \in tasks /\ obj[id] = bucket[id]
            \/ clock > bucket[id].finished + KeepPeriod

\* No step changes a saved outcome, and only age removes it.
SavedOutcomeKept ==
    [][\A id \in TaskId :
          bucket[id].status \in Outcome /\ bucket'[id] # bucket[id] =>
              /\ bucket'[id] = Blank
              /\ clock > bucket[id].finished + KeepPeriod]_vars

\* An outcome that a listing has read stays the task's outcome.
ListedOutcomeStands ==
    \A id \in item.id : item.status \in Outcome => obj[id].status = item.status

\* The durable record of a task, as the abstract specification sees it.
recordOf ==
    [id \in TaskId |->
        IF bucket[id].status # "NONE" THEN bucket[id].status
        ELSE IF pc[id] \in {"unborn", "create", "refused"} THEN "absent"
        ELSE "gone"]

Record == INSTANCE TaskRecord WITH rec <- recordOf

\* The bucket implements the abstract life of a task record: one outcome, no
\* return after eviction or after the cleaning of a restart.
ImplementsTaskRecord == Record!Spec

=============================================================================
