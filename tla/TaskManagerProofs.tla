------------------------- MODULE TaskManagerProofs -------------------------
(***************************************************************************)
(* The safety properties of TaskManager for any set of tasks, any keep      *)
(* period and any bound on the clock.                                       *)
(*                                                                         *)
(* FinishFindsTask is not inductive: it needs that a task in the map whose   *)
(* conversion runs is PROCESSING (so that it does not expire) unless its     *)
(* own Finish is writing it, and that then no other Finish is evicting,      *)
(* which is the mutex (Exclusion).                                          *)
(***************************************************************************)
EXTENDS TaskManager, TLAPS

\* The calls that hold the mutex.
Critical == {"create", "reason", "stamp", "save", "evict"}

\* manager.mutex is held by one call, the one inside Create or Finish.
Exclusion ==
    \A id \in TaskId : pc[id] \in Critical => holder = {id}

\* A stopped daemon has no memory and no call.
Stopped ==
    ~ up => /\ tasks = {}
            /\ todo = {}
            /\ item.id = {}
            /\ \A id \in TaskId : pc[id] \notin Critical \cup {"open"}

\* The status of a task in memory, by the place of its call.
Tracked ==
    \A id \in TaskId :
        /\ pc[id] \in Unfinished \cup {"create"} => id \in tasks
        /\ pc[id] = "unborn" => obj[id].status = "NONE"
        /\ pc[id] \in {"create", "open"} => obj[id].status = "PROCESSING"
        /\ pc[id] = "refused" /\ id \in tasks => obj[id].status = "PROCESSING"
        /\ pc[id] \in {"reason", "stamp", "save"} => obj[id].status \in Outcome
        /\ up /\ id \in tasks /\ obj[id].status = "PROCESSING"
              => pc[id] \in {"create", "open", "refused"}
        /\ up /\ id \in tasks => obj[id].status # "NONE"

\* The record of a task in the bucket, by the place of its call.
Saved ==
    \A id \in TaskId :
        /\ up /\ bucket[id].status = "PROCESSING"
              => pc[id] \in Unfinished \cup {"unsaved"}
        /\ pc[id] = "unborn" => bucket[id].status = "NONE"
        /\ bucket[id].status \in Outcome => pc[id] \in {"evict", "done", "lost"}
        /\ bucket[id].status = "NONE" => bucket[id] = Blank
        /\ pc[id] \in Unfinished => bucket[id].status = "PROCESSING"
        /\ pc[id] \in {"create", "refused"} => bucket[id].status = "NONE"

\* A record with an outcome and the object in memory.
Agreed ==
    \A id \in TaskId :
        /\ up /\ id \in tasks /\ pc[id] \in {"evict", "done", "lost"}
              => obj[id] = bucket[id]
        /\ up /\ bucket[id].status \in Outcome /\ id \notin tasks
              => clock > bucket[id].finished + KeepPeriod

\* Outcomes in memory are final.
ListedFinal ==
    \A id \in item.id :
        /\ id \in TaskId
        /\ item.status \in Outcome => obj[id].status = item.status

Inv ==
    /\ TypeOK
    /\ Exclusion
    /\ Stopped
    /\ Tracked
    /\ Saved
    /\ Agreed
    /\ ListedFinal
    /\ visit \subseteq tasks

-----------------------------------------------------------------------------
(* The records that the actions write. *)

\* The zero value of a task is a task, and so is the one that Create makes.
LEMMA NewTaskType == /\ Blank \in Task
                     /\ \A now \in Nat : NewTask(now) \in Task
  BY DEF Blank, NewTask, Task, Reason, Status

\* A listing that has read nothing yet.
LEMMA NoItemType == NoItem \in Item
  BY DEF NoItem, Item, Reason, Status

\* Finish writes one field of the task at a time.
LEMMA FinishFields ==
  ASSUME NEW task \in Task, NEW outcome \in Outcome, NEW now \in Nat
  PROVE  /\ [task EXCEPT !.status = outcome] \in Task
         /\ [task EXCEPT !.reason = "error"] \in Task
         /\ [task EXCEPT !.finished = now] \in Task
  BY DEF Task, Reason, Status

-----------------------------------------------------------------------------
\* TypeOK holds initially and no step leaves it: statuses, times and call
\* states stay in their sets through every Create, Finish, List and restart.
LEMMA TypeInitial == Init => TypeOK
  BY MaxClockAssumption, NewTaskType, NoItemType DEF Init, TypeOK, CallState

\* No step of the manager leaves TypeOK.
LEMMA TypeStep == TypeOK /\ [Next]_vars => TypeOK'
<1> SUFFICES ASSUME TypeOK, [Next]_vars
             PROVE  TypeOK'
  OBVIOUS
<1>0. clock \in Nat
  BY MaxClockAssumption DEF TypeOK
<1> USE DEF TypeOK, listing
<1>1. ASSUME NEW id \in TaskId, Create(id)
      PROVE  TypeOK'
  <2>1. CASE CreateTask(id)
    BY <1>0, <2>1, NewTaskType DEF CreateTask, goto, CallState
  <2>2. CASE CreateSave(id) \/ CreateFail(id)
    BY <2>2 DEF CreateSave, CreateFail, goto, CallState, Unfinished
  <2> QED
    BY <1>1, <2>1, <2>2 DEF Create
<1>2. ASSUME NEW id \in TaskId, Finish(id)
      PROVE  TypeOK'
  <2>1. CASE \E outcome \in Outcome : FinishStatus(id, outcome)
    <3> PICK outcome \in Outcome : FinishStatus(id, outcome)
      BY <2>1
    <3>1. [obj[id] EXCEPT !.status = outcome] \in Task
      BY <1>0, FinishFields
    <3> QED
      BY <3>1 DEF FinishStatus, goto, CallState, Unfinished
  <2>2. CASE FinishReason(id)
    BY <1>0, <2>2, FinishFields DEF FinishReason, goto, CallState, Unfinished, Outcome
  <2>3. CASE FinishStamp(id)
    <3>1. "FAILED" \in Outcome
      BY DEF Outcome
    <3>2. [obj[id] EXCEPT !.finished = clock] \in Task
      BY <1>0, <3>1, FinishFields
    <3> QED
      BY <2>3, <3>2 DEF FinishStamp, goto, CallState, Unfinished
  <2>4. CASE FinishSave(id) \/ FinishFail(id) \/ FinishReturn(id)
    BY <2>4 DEF FinishSave, FinishFail, FinishReturn, goto, CallState, Unfinished
  <2>5. CASE \E x \in TaskId :
                EvictKeep(id, x) \/ EvictDelete(id, x) \/ EvictFail(id, x)
    BY <2>5, NewTaskType DEF EvictKeep, EvictDelete, EvictFail, goto, CallState
  <2> QED
    BY <1>2, <2>1, <2>2, <2>3, <2>4, <2>5 DEF Finish
<1>3. ASSUME NEW id \in TaskId, Encode(id)
      PROVE  TypeOK'
  <2>1. item' \in Item
    <3>1. CASE EncodeStatus(id)
      BY <3>1 DEF EncodeStatus, Item, Task, Reason
    <3>2. CASE EncodeReason(id)
      <4>1. obj[id].reason \in Reason
        BY DEF Task
      <4> QED
        BY <3>2, <4>1 DEF EncodeReason, Item
    <3> QED
      BY <1>3, <3>1, <3>2 DEF Encode
  <2> QED
    BY <1>3, <2>1 DEF Encode, EncodeStatus, EncodeReason
<1>4. CASE List
  BY <1>4, NoItemType DEF List
<1>5. CASE Crash
  BY <1>5, NewTaskType, NoItemType DEF Crash, CallState
<1>6. CASE Restart
  BY <1>6, NewTaskType DEF Restart, Loaded
<1>7. CASE Tick
  BY <1>7, MaxClockAssumption DEF Tick
<1>8. CASE UNCHANGED vars
  BY <1>8 DEF vars
<1> QED
  BY <1>1, <1>2, <1>3, <1>4, <1>5, <1>6, <1>7, <1>8 DEF Next

\* Every reachable state is well typed, for any tasks, period and bound.
THEOREM TypeCorrect == Spec => []TypeOK
<1>1. Init => TypeOK
  BY TypeInitial
<1>2. TypeOK /\ [Next]_vars => TypeOK'
  BY TypeStep
<1> QED
  BY <1>1, <1>2, PTL DEF Spec

-----------------------------------------------------------------------------
\* manager.mutex: while one call is between its lock and its unlock, no other is.
LEMMA Alone ==
  ASSUME Exclusion, NEW id \in TaskId, pc[id] \in Critical
  PROVE  \A other \in TaskId : pc[other] \in Critical => other = id
<1> SUFFICES ASSUME NEW other \in TaskId, pc[other] \in Critical
             PROVE  other = id
  OBVIOUS
<1>1. holder = {id} /\ holder = {other}
  BY DEF Exclusion
<1> QED
  BY <1>1

\* Each step of Create, Finish, List, eviction, crash and restart preserves Inv.
LEMMA InvStep == Inv /\ [Next]_vars => Inv'
<1> SUFFICES ASSUME Inv, [Next]_vars
             PROVE  Inv'
  OBVIOUS
<1>t. TypeOK'
  BY TypeStep DEF Inv
<1>0. clock \in Nat
  BY MaxClockAssumption DEF Inv, TypeOK
<1> USE <1>0, <1>t, KeepPeriodAssumption
    DEF Inv, TypeOK, Task, Status, listing, Critical, Unfinished, Outcome,
        Exclusion, Stopped, Tracked, Saved, Agreed, ListedFinal
<1>1. ASSUME NEW id \in TaskId, CreateTask(id)
      PROVE  Inv'
  BY <1>1 DEF CreateTask, NewTask, Blank, goto
<1>2. ASSUME NEW id \in TaskId, CreateSave(id)
      PROVE  Inv'
  <2>1. \A other \in TaskId : pc[other] \in Critical => other = id
    BY <1>2, Alone DEF CreateSave
  <2> QED
    BY <1>2, <2>1 DEF CreateSave, goto
<1>3. ASSUME NEW id \in TaskId, CreateFail(id)
      PROVE  Inv'
  <2>1. \A other \in TaskId : pc[other] \in Critical => other = id
    BY <1>3, Alone DEF CreateFail
  <2> QED
    BY <1>3, <2>1 DEF CreateFail, goto
<1>4. ASSUME NEW id \in TaskId, NEW outcome \in Outcome, FinishStatus(id, outcome)
      PROVE  Inv'
  BY <1>4 DEF FinishStatus, goto
<1>5. ASSUME NEW id \in TaskId, FinishReason(id)
      PROVE  Inv'
  <2>1. \A other \in TaskId : pc[other] \in Critical => other = id
    BY <1>5, Alone DEF FinishReason
  <2> QED
    BY <1>5, <2>1 DEF FinishReason, goto
<1>6. ASSUME NEW id \in TaskId, FinishStamp(id)
      PROVE  Inv'
  <2>1. \A other \in TaskId : pc[other] \in Critical => other = id
    BY <1>6, Alone DEF FinishStamp
  <2> QED
    BY <1>6, <2>1 DEF FinishStamp, goto
<1>7. ASSUME NEW id \in TaskId, FinishSave(id)
      PROVE  Inv'
  <2>1. \A other \in TaskId : pc[other] \in Critical => other = id
    BY <1>7, Alone DEF FinishSave
  <2> QED
    BY <1>7, <2>1 DEF FinishSave, goto
<1>8. ASSUME NEW id \in TaskId, FinishFail(id)
      PROVE  Inv'
  <2>1. \A other \in TaskId : pc[other] \in Critical => other = id
    BY <1>8, Alone DEF FinishFail
  <2> QED
    BY <1>8, <2>1 DEF FinishFail, goto
<1>9. ASSUME NEW id \in TaskId, NEW x \in TaskId, EvictKeep(id, x)
      PROVE  Inv'
  <2>1. \A other \in TaskId : pc[other] \in Critical => other = id
    BY <1>9, Alone DEF EvictKeep
  <2> QED
    BY <1>9, <2>1 DEF EvictKeep
<1>10. ASSUME NEW id \in TaskId, NEW x \in TaskId, EvictDelete(id, x)
      PROVE  Inv'
  <2>1. \A other \in TaskId : pc[other] \in Critical => other = id
    BY <1>10, Alone DEF EvictDelete
  <2> QED
    BY <1>10, <2>1 DEF EvictDelete, IsExpired, Blank
<1>11. ASSUME NEW id \in TaskId, NEW x \in TaskId, EvictFail(id, x)
      PROVE  Inv'
  <2>1. \A other \in TaskId : pc[other] \in Critical => other = id
    BY <1>11, Alone DEF EvictFail
  <2> QED
    BY <1>11, <2>1 DEF EvictFail, IsExpired, goto
<1>12. ASSUME NEW id \in TaskId, FinishReturn(id)
      PROVE  Inv'
  <2>1. \A other \in TaskId : pc[other] \in Critical => other = id
    BY <1>12, Alone DEF FinishReturn
  <2> QED
    BY <1>12, <2>1 DEF FinishReturn, goto
<1>13. ASSUME NEW id \in TaskId, EncodeStatus(id)
      PROVE  Inv'
  BY <1>13 DEF EncodeStatus
<1>14. ASSUME NEW id \in TaskId, EncodeReason(id)
      PROVE  Inv'
  BY <1>14 DEF EncodeReason
<1>15. CASE List
  BY <1>15 DEF List, NoItem
<1>16. CASE Crash
  BY <1>16 DEF Crash, NoItem, Blank
<1>17. CASE Restart
  BY <1>17 DEF Restart, Loaded, Blank
<1>18. CASE Tick
  BY <1>18 DEF Tick
<1>19. CASE UNCHANGED vars
  BY <1>19 DEF vars
<1> HIDE DEF Inv, TypeOK, Task, Status, listing, Critical, Unfinished,
        Exclusion, Stopped, Tracked, Saved, Agreed, ListedFinal
<1>20. ASSUME NEW id \in TaskId, Create(id) \/ Finish(id) \/ Encode(id)
       PROVE  Inv'
  BY <1>1, <1>2, <1>3, <1>4, <1>5, <1>6, <1>7, <1>8, <1>9, <1>10, <1>11, <1>12,
     <1>13, <1>14, <1>20 DEF Create, Finish, Encode
<1> QED
  BY <1>15, <1>16, <1>17, <1>18, <1>19, <1>20 DEF Next

\* Every reachable state satisfies the inductive invariant.
LEMMA Invariance == Spec => []Inv
<1>1. Init => Inv
  BY TypeInitial
  DEF Init, Inv, Exclusion, Stopped, Tracked, Saved, Agreed, ListedFinal,
      Blank, NoItem, Critical, Unfinished, Outcome
<1>2. Inv /\ [Next]_vars => Inv'
  BY InvStep
<1> QED
  BY <1>1, <1>2, PTL DEF Spec

\* Finish never meets a task that was evicted while its conversion ran, so
\* updateBucket never dereferences nil.
THEOREM FinishIsSafe == Spec => []FinishFindsTask
<1>1. Inv => FinishFindsTask
  BY DEF Inv, Tracked, FinishFindsTask
<1> QED
  BY <1>1, Invariance, PTL

\* A PROCESSING task always has a call behind it, or a Create that failed;
\* the leftovers of a crash are gone when the daemon is up again.
THEOREM ProcessingIsOwned == Spec => []NoOrphanProcessing
<1>1. Inv => NoOrphanProcessing
  BY DEF Inv, Tracked, Saved, NoOrphanProcessing
<1> QED
  BY <1>1, Invariance, PTL

\* A saved outcome is shown unchanged until its keep period is over, through
\* any number of crashes and restarts.
THEOREM SavedOutcomeIsShown == Spec => []SavedOutcomeShown
<1>1. Inv => SavedOutcomeShown
  BY DEF Inv, Saved, Agreed, SavedOutcomeShown
<1> QED
  BY <1>1, Invariance, PTL

\* A listing that reads a task while Finish writes it never reads an outcome
\* that the task does not keep.
THEOREM ListedOutcomeIsFinal == Spec => []ListedOutcomeStands
<1>1. Inv => ListedOutcomeStands
  BY DEF Inv, ListedFinal, ListedOutcomeStands
<1> QED
  BY <1>1, Invariance, PTL

-----------------------------------------------------------------------------
\* What one step does to the bucket.  Saving and evicting are the only steps of
\* a running daemon that change it, and they change one record.
LEMMA BucketStep ==
  ASSUME Inv, [Next]_vars
  PROVE  \/ UNCHANGED bucket
         \/ \E id \in TaskId : CreateSave(id)
         \/ \E id \in TaskId : FinishSave(id)
         \/ \E id, x \in TaskId : EvictDelete(id, x)
         \/ Restart
<1>1. ASSUME NEW id \in TaskId, Create(id), ~ CreateSave(id)
      PROVE  UNCHANGED bucket
  BY <1>1 DEF Create, CreateTask, CreateFail
<1>2. ASSUME NEW id \in TaskId, Finish(id), ~ FinishSave(id),
             \A x \in TaskId : ~ EvictDelete(id, x)
      PROVE  UNCHANGED bucket
  BY <1>2 DEF Finish, FinishStatus, FinishReason, FinishStamp, FinishFail,
              EvictKeep, EvictFail, FinishReturn
<1>3. ASSUME NEW id \in TaskId, Encode(id)
      PROVE  UNCHANGED bucket
  BY <1>3 DEF Encode, EncodeStatus, EncodeReason
<1>4. CASE List \/ Crash \/ Tick \/ UNCHANGED vars
  BY <1>4 DEF List, Crash, Tick, vars
<1> QED
  BY <1>1, <1>2, <1>3, <1>4 DEF Next

\* No step changes a saved outcome and only an expired one is removed.
THEOREM SavedOutcomeIsKept == Spec => SavedOutcomeKept
<1> DEFINE Kept == \A id \in TaskId :
               bucket[id].status \in Outcome /\ bucket'[id] # bucket[id] =>
                   /\ bucket'[id] = Blank
                   /\ clock > bucket[id].finished + KeepPeriod
<1>1. Inv /\ [Next]_vars => [Kept]_vars
  <2> SUFFICES ASSUME Inv, [Next]_vars, NEW y \in TaskId,
                      bucket[y].status \in Outcome, bucket'[y] # bucket[y]
               PROVE  /\ bucket'[y] = Blank
                      /\ clock > bucket[y].finished + KeepPeriod
    OBVIOUS
  <2>0. bucket \in [TaskId -> Task] /\ obj \in [TaskId -> Task]
    BY DEF Inv, TypeOK
  <2>1. ASSUME NEW id \in TaskId, CreateSave(id)
        PROVE  FALSE
    BY <2>0, <2>1 DEF CreateSave, Inv, Saved, Outcome
  <2>2. ASSUME NEW id \in TaskId, FinishSave(id)
        PROVE  FALSE
    BY <2>0, <2>2 DEF FinishSave, Inv, Saved, Outcome
  <2>3. ASSUME NEW id \in TaskId, NEW x \in TaskId, EvictDelete(id, x)
        PROVE  /\ bucket'[y] = Blank
               /\ clock > bucket[y].finished + KeepPeriod
    <3>1. y = x /\ bucket'[y] = Blank
      BY <2>0, <2>3 DEF EvictDelete
    <3>2. up /\ x \in tasks
      BY <2>3 DEF EvictDelete, Inv, Stopped
    <3>3. obj[y] = bucket[y]
      BY <3>1, <3>2 DEF Inv, Saved, Agreed
    <3> QED
      BY <2>3, <3>1, <3>3 DEF EvictDelete, IsExpired
  <2>4. CASE Restart
    BY <2>4 DEF Restart, Loaded, Outcome
  <2> QED
    BY <2>1, <2>2, <2>3, <2>4, BucketStep
<1> QED
  BY <1>1, Invariance, PTL DEF Spec, SavedOutcomeKept

-----------------------------------------------------------------------------
\* The steps of the manager are steps of the abstract record or change nothing
\* of it.
LEMMA RecordStep ==
  ASSUME Inv, Inv', [Next]_vars
  PROVE  [Record!Next]_recordOf
<1>0. /\ bucket \in [TaskId -> Task] /\ bucket' \in [TaskId -> Task]
      /\ obj \in [TaskId -> Task]
      /\ pc \in [TaskId -> CallState]
  BY DEF Inv, TypeOK
<1>1. ASSUME NEW id \in TaskId, CreateSave(id)
      PROVE  Record!Open(id)
  <2>1. bucket[id].status = "NONE" /\ obj[id].status = "PROCESSING"
    BY <1>1 DEF CreateSave, Inv, Saved, Tracked
  <2>2. recordOf[id] = "absent"
    BY <1>1, <2>1 DEF CreateSave, recordOf
  <2>3. recordOf' = [recordOf EXCEPT ![id] = "PROCESSING"]
    BY <1>0, <1>1, <2>1 DEF CreateSave, goto, recordOf
  <2> QED
    BY <2>2, <2>3 DEF Record!Open
<1>2. ASSUME NEW id \in TaskId, FinishSave(id)
      PROVE  Record!Close(id, obj[id].status) /\ obj[id].status \in Outcome
  <2>1. bucket[id].status = "PROCESSING" /\ obj[id].status \in Outcome
    BY <1>2 DEF FinishSave, Inv, Saved, Tracked, Unfinished
  <2>2. recordOf[id] = "PROCESSING"
    BY <2>1 DEF recordOf
  <2>3. recordOf' = [recordOf EXCEPT ![id] = obj[id].status]
    BY <1>0, <1>2, <2>1 DEF FinishSave, goto, recordOf, Outcome
  <2> QED
    BY <2>1, <2>2, <2>3 DEF Record!Close
<1>3. ASSUME NEW id \in TaskId, NEW x \in TaskId, EvictDelete(id, x)
      PROVE  [Record!Next]_recordOf
  <2>1. /\ up /\ x \in tasks
        /\ obj[x].status \in Outcome
    BY <1>0, <1>3 DEF EvictDelete, IsExpired, Inv, Stopped, Critical, Tracked, Task, Status
  <2>2. pc[x] \in {"evict", "done", "lost", "unsaved"}
    <3>1. pc[x] \notin {"reason", "stamp", "save"}
      BY <1>3, Alone DEF EvictDelete, Inv, Critical
    <3> QED
      BY <1>0, <2>1, <3>1 DEF Inv, Tracked, CallState, Unfinished, Outcome
  <2>3. recordOf' = [recordOf EXCEPT ![x] = "gone"]
    BY <1>0, <1>3, <2>2 DEF EvictDelete, recordOf, Blank
  <2>4. CASE bucket[x].status \in Outcome
    BY <2>3, <2>4 DEF Record!Next, Record!Evict, Record!Outcome, recordOf, Outcome
  <2>5. CASE bucket[x].status = "PROCESSING"
    <3>1. Record!Forget({x})
      BY <2>3, <2>5 DEF Record!Forget, recordOf
    <3> QED
      BY <3>1 DEF Record!Next
  <2>6. CASE bucket[x].status = "NONE"
    BY <2>2, <2>3, <2>6 DEF recordOf
  <2> QED
    BY <1>0, <2>4, <2>5, <2>6 DEF Task, Status
<1>4. CASE Restart
  <2> DEFINE S == {id \in TaskId : bucket[id].status = "PROCESSING"}
  <2>1. Record!Forget(S)
    BY <1>0, <1>4 DEF Restart, Loaded, Blank, Record!Forget, recordOf, Inv, Saved
  <2> QED
    BY <2>1 DEF Record!Next
<1>5. CASE Crash
  <2> DEFINE S == {id \in TaskId : pc[id] = "create"}
  <2>1. \A id \in S : recordOf[id] = "absent"
    BY DEF recordOf, Inv, Saved
  <2>2. recordOf' = [id \in TaskId |-> IF id \in S THEN "gone" ELSE recordOf[id]]
    BY <1>0, <1>5 DEF Crash, recordOf, Inv, Saved, Unfinished
  <2>3. Record!Forget(S)
    BY <2>1, <2>2 DEF Record!Forget
  <2> QED
    BY <2>3 DEF Record!Next
<1>6. CASE UNCHANGED bucket /\ ~ Crash
  <2> DEFINE Before == {"unborn", "create", "refused"}
             SameSide == \A y \in TaskId : bucket[y].status = "NONE" =>
                            (pc[y] \in Before <=> pc'[y] \in Before)
  <2>1. SameSide
    <3>1. ASSUME NEW id \in TaskId, Create(id)
          PROVE  SameSide
      BY <1>0, <1>6, <3>1
      DEF Create, CreateTask, CreateFail, CreateSave, goto, Inv, Tracked
    <3>2. ASSUME NEW id \in TaskId, Finish(id)
          PROVE  SameSide
      BY <1>0, <1>6, <3>2
      DEF Finish, FinishStatus, FinishReason, FinishStamp, FinishSave, FinishFail,
          EvictKeep, EvictDelete, EvictFail, FinishReturn, goto, Inv, Saved, Unfinished
    <3>3. CASE UNCHANGED pc
      BY <3>3
    <3> QED
      BY <1>6, <3>1, <3>2, <3>3
      DEF Next, Encode, EncodeStatus, EncodeReason, List, Restart, Tick, vars
  <2> QED
    BY <1>6, <2>1 DEF recordOf
<1> QED
  BY <1>1, <1>2, <1>3, <1>4, <1>5, <1>6, BucketStep
  DEF Record!Next, Record!Outcome, Outcome

\* The bucket implements the abstract life of a task record.
THEOREM Refinement == Spec => ImplementsTaskRecord
<1>1. Init => Record!Init
  BY DEF Init, Record!Init, recordOf, Blank
<1>2. Inv /\ Inv' /\ [Next]_vars => [Record!Next]_recordOf
  BY RecordStep
<1> QED
  BY <1>1, <1>2, Invariance, PTL DEF Spec, ImplementsTaskRecord, Record!Spec

=============================================================================
