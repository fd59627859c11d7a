--------------------------- MODULE AdapterProofs ---------------------------
(***************************************************************************)
(* The safety properties of Adapter for any tasks, references, rules, pool   *)
(* size and number of pushes.                                              *)
(*                                                                         *)
(* Each rests on what a shared structure says of the goroutines: the entry   *)
(* of a singleflight is its leader (Leading), the readers of GcMutex are the *)
(* conversions between RLock and RUnlock and a collector that has it is      *)
(* alone (Locking), the result of a call comes from a conversion of its own  *)
(* reference (Results).                                                    *)
(***************************************************************************)
EXTENDS Adapter, TLAPS

\* dispatchSingleflight: a job that converts is the leader for its reference.
Leading ==
    \A t \in Task : mode[t] = "async" /\ pc[t] \in Converting
                        => flight[ref[t]] = {t}

\* gcSingleflight has one leader, and GcMutex is as it left it.
Locking ==
    /\ \A t \in Task : t \in readers <=> pc[t] \in Locked
    /\ \A g, h \in Collector :
           /\ gc[g] \in {"lock", "acquire", "collect"}
           /\ gc[h] \in {"lock", "acquire", "collect"}
           => g = h
    /\ \A g \in Collector : gc[g] = "collect" => writer = "held" /\ readers = {}

\* What a call works on and what it returns.
Results ==
    /\ \A r \in Ref : src[r] # 0
    /\ \A t \in Task :
           /\ pc[t] \in {"push", "repush"} => pulled[t] # 0
           /\ pc[t] \in {"unlock", "return", "finish"} => result[t] # "none"
           /\ result[t] = "ok" => target[ref[t]] # 0
           /\ result[t] = "skip" => Map[ref[t]] \in {"converted", "cacheImage"}
           /\ rec[t] = "COMPLETED" => pc[t] = "done" /\ result[t] \in {"ok", "skip"}

\* No target is newer than its source, or than what its conversion has pulled.
Ordered ==
    /\ \A r \in Ref : target[r] <= src[r]
    /\ \A t \in Task :
           pc[t] \in {"push", "repush"} =>
               /\ pulled[t] <= src[ref[t]]
               /\ AllAsync(ref[t]) => target[ref[t]] <= pulled[t]

-----------------------------------------------------------------------------
\* Initially everything is well typed; no task runs.
LEMMA TypeInitial == Init => TypeOK
<1> SUFFICES ASSUME Init
             PROVE  TypeOK
  OBVIOUS
<1>1. {src, target} \subseteq [Ref -> Version] /\ pulled \in [Task -> Version]
  BY MaxPushAssumption DEF Init, Version
<1>2. Records!RecordType
  BY DEF Init, Records!RecordType, Records!Init, Records!Stage
<1>3. /\ pc \in [Task -> CallState]
      /\ gc \in [Collector -> GcState]
      /\ result \in [Task -> {"none", "ok", "skip", "error"}]
  BY DEF Init, CallState, GcState
<1>4. ref \in [Task -> Ref] /\ mode \in [Task -> {"sync", "async"}]
  BY ModeAssumption DEF Init
<1>5. jobs \in Seq(Task) /\ flight \in [Ref -> SUBSET Task] /\ readers \in SUBSET Task
  BY DEF Init
<1> QED
  BY <1>1, <1>2, <1>3, <1>4, <1>5 DEF Init, TypeOK

\* Every step of a call, of a collector and of a user keeps the types.
LEMMA TypeStep == TypeOK /\ [Next]_vars => TypeOK'
<1> SUFFICES ASSUME TypeOK, [Next]_vars
             PROVE  TypeOK'
  OBVIOUS
<1> USE DEF TypeOK, args, registry, locks, goto, gcGoto
<1>1. ASSUME NEW r \in Ref, PushImage(r)
      PROVE  TypeOK'
  BY <1>1, MaxPushAssumption DEF PushImage, Version, Records!RecordType
<1>2. ASSUME NEW t \in Task, Dispatch(t)
      PROVE  TypeOK'
  BY <1>2 DEF Dispatch, Records!Open, Records!RecordType, Records!Stage, CallState,
              Converting
<1>3. ASSUME NEW t \in Task, DispatchFail(t)
      PROVE  TypeOK'
  BY <1>3 DEF DispatchFail, Records!RecordType, CallState
<1>4. ASSUME NEW t \in Task, Send(t) \/ Receive(t)
      PROVE  TypeOK'
  <2>1. CASE Send(t)
    <3>1. jobs' \in Seq(Task)
      BY <2>1 DEF Send
    <3>2. pc' \in [Task -> CallState]
      BY <2>1 DEF Send, CallState
    <3>3. UNCHANGED <<src, target, rec, ref, mode, pulled, result, flight,
                      readers, writer, gc>>
      BY <2>1 DEF Send
    <3> QED
      BY <3>1, <3>2, <3>3 DEF Records!RecordType
  <2>2. CASE Receive(t)
    <3>1. jobs' \in Seq(Task)
      BY <2>2 DEF Receive
    <3>2. pc' \in [Task -> CallState]
      BY <2>2 DEF Receive, CallState
    <3>3. UNCHANGED <<src, target, rec, ref, mode, pulled, result, flight,
                      readers, writer, gc>>
      BY <2>2 DEF Receive
    <3> QED
      BY <3>1, <3>2, <3>3 DEF Records!RecordType
  <2> QED
    BY <1>4, <2>1, <2>2
<1>5. ASSUME NEW t \in Task, Do(t)
      PROVE  TypeOK'
  BY SMTT(30), <1>5 DEF Do, Records!RecordType, CallState, Converting
<1>6. ASSUME NEW t \in Task, MapReturn(t) \/ MapTarget(t)
      PROVE  TypeOK'
  BY <1>6 DEF MapReturn, MapTarget, Records!RecordType, CallState, Converting
<1>7. ASSUME NEW t \in Task, RLock(t) \/ RUnlock(t)
      PROVE  TypeOK'
  BY <1>7 DEF RLock, RUnlock, Records!RecordType, CallState, Converting, Locked
<1>8. ASSUME NEW t \in Task, Pull(t)
      PROVE  TypeOK'
  BY <1>8 DEF Pull, Records!RecordType, CallState, Converting, Locked
<1>9. ASSUME NEW t \in Task, ConvertOk(t) \/ RetryOk(t)
      PROVE  TypeOK'
  <2>1. "unlock" \in CallState /\ "check" \in GcState /\ t \in Collector
    BY DEF CallState, Converting, Locked, GcState, Collector
  <2>2. CASE ConvertOk(t)
    BY <2>1, <2>2 DEF ConvertOk, Records!RecordType
  <2>3. CASE RetryOk(t)
    BY <2>1, <2>3 DEF RetryOk, Records!RecordType
  <2> QED
    BY <1>9, <2>2, <2>3
<1>10. ASSUME NEW t \in Task, ConvertMismatch(t) \/ ConvertFail(t)
       PROVE  TypeOK'
  <2>1. "unlock" \in CallState /\ "repull" \in CallState
    BY DEF CallState, Converting, Locked
  <2>2. CASE ConvertMismatch(t)
    BY <2>1, <2>2 DEF ConvertMismatch, Records!RecordType
  <2>3. CASE ConvertFail(t)
    BY <2>1, <2>3 DEF ConvertFail, Records!RecordType
  <2> QED
    BY <1>10, <2>2, <2>3
<1>11. ASSUME NEW t \in Task, Return(t)
       PROVE  TypeOK'
  BY <1>11 DEF Return, Sharing, Records!RecordType, CallState
<1>12. ASSUME NEW t \in Task, Finish(t)
       PROVE  TypeOK'
  BY <1>12 DEF Finish, Records!Close, Records!RecordType, Records!Stage,
               Records!Outcome, CallState
<1>13. CASE ScheduledGC
  BY <1>13 DEF ScheduledGC, Records!RecordType, GcState
<1>14. ASSUME NEW g \in Collector, GcCheck(g) \/ GcDo(g)
       PROVE  TypeOK'
  BY <1>14 DEF GcCheck, GcDo, Records!RecordType, GcState
<1>15. ASSUME NEW g \in Collector, GcLock(g) \/ GcAcquire(g)
       PROVE  TypeOK'
  BY <1>15 DEF GcLock, GcAcquire, Records!RecordType, GcState
<1>16. ASSUME NEW g \in Collector, GcUnlock(g)
       PROVE  TypeOK'
  BY <1>16 DEF GcUnlock, Records!RecordType, GcState, CallState, Converting, Locked
<1>17. CASE UNCHANGED vars
  BY <1>17 DEF vars, Records!RecordType
<1> QED
  BY <1>1, <1>2, <1>3, <1>4, <1>5, <1>6, <1>7, <1>8, <1>9, <1>10, <1>11, <1>12,
     <1>13, <1>14, <1>15, <1>16, <1>17 DEF Next, Step, AdapterStep, ConverterStep, GcStep

\* Every reachable state is well typed.
THEOREM TypeCorrect == Spec => []TypeOK
<1>1. Init => TypeOK
  BY TypeInitial
<1>2. TypeOK /\ [Next]_vars => TypeOK'
  BY TypeStep
<1> QED
  BY <1>1, <1>2, PTL DEF Spec

-----------------------------------------------------------------------------
\* Only Do makes a job convert, and it makes it the leader; only the leader's
\* Return ends its singleflight.
LEMMA LeadingStep == TypeOK /\ Leading /\ [Next]_vars => Leading'
<1> SUFFICES ASSUME TypeOK, Leading, [Next]_vars,
                    NEW u \in Task, mode'[u] = "async", pc'[u] \in Converting
             PROVE  flight'[ref'[u]] = {u}
  BY DEF Leading
<1> USE DEF TypeOK, Leading, args, registry, locks, goto, gcGoto
<1>1. ASSUME NEW t \in Task, Dispatch(t) \/ DispatchFail(t)
      PROVE  flight'[ref'[u]] = {u}
  BY <1>1 DEF Dispatch, DispatchFail, Converting, Locked
<1>2. ASSUME NEW t \in Task, Send(t) \/ Receive(t)
      PROVE  flight'[ref'[u]] = {u}
  BY SMTT(30), <1>2 DEF Send, Receive, Converting, Locked
<1>3. ASSUME NEW t \in Task, Do(t)
      PROVE  flight'[ref'[u]] = {u}
  <2>1. CASE u = t
    BY <1>3, <2>1 DEF Do, Converting, Locked
  <2>2. CASE u # t
    <3>1. pc'[u] = pc[u] /\ UNCHANGED <<ref, mode>>
      BY <1>3, <2>2 DEF Do
    <3>2. flight[ref[u]] = {u}
      BY <3>1
    <3>3. flight'[ref[u]] = flight[ref[u]]
      BY ZenonT(30), <1>3, <3>2 DEF Do
    <3> QED
      BY <3>1, <3>2, <3>3
  <2> QED
    BY <2>1, <2>2
<1>4. ASSUME NEW t \in Task,
             \/ MapReturn(t) \/ MapTarget(t) \/ RLock(t) \/ Pull(t) \/ RUnlock(t)
             \/ ConvertOk(t) \/ ConvertMismatch(t) \/ ConvertFail(t) \/ RetryOk(t)
      PROVE  flight'[ref'[u]] = {u}
  <2>1. pc[u] \in Converting
    <3>1. pc[t] \in Converting
      BY <1>4 DEF MapReturn, MapTarget, RLock, Pull, RUnlock, ConvertOk,
                  ConvertMismatch, ConvertFail, RetryOk, Converting, Locked
    <3>2. \A w \in Task : w # t => pc'[w] = pc[w]
      BY <1>4 DEF MapReturn, MapTarget, RLock, Pull, RUnlock, ConvertOk,
                  ConvertMismatch, ConvertFail, RetryOk
    <3> QED
      BY <3>1, <3>2
  <2>2. UNCHANGED <<flight, ref, mode>>
    BY <1>4 DEF MapReturn, MapTarget, RLock, Pull, RUnlock, ConvertOk,
                ConvertMismatch, ConvertFail, RetryOk
  <2> QED
    BY <2>1, <2>2
<1>5. ASSUME NEW t \in Task, Return(t)
      PROVE  flight'[ref'[u]] = {u}
  <2>1. u \notin Sharing(t) /\ pc[u] \in Converting /\ UNCHANGED <<ref, mode>>
    <3>1. "finish" \notin Converting
      BY DEF Converting, Locked
    <3>2. pc'[u] = IF u \in Sharing(t) THEN "finish" ELSE pc[u]
      BY <1>5 DEF Return
    <3> QED
      BY <1>5, <3>1, <3>2 DEF Return
  <2>2. u # t /\ pc[t] \in Converting
    BY <1>5, <2>1 DEF Return, Sharing, Converting
  <2>3. flight[ref[u]] = {u}
    BY <2>1
  <2>4. mode[t] = "async" => ref[u] # ref[t]
    BY <2>2, <2>3
  <2> QED
    BY <1>5, <2>1, <2>3, <2>4 DEF Return
<1>6. ASSUME NEW t \in Task, Finish(t)
      PROVE  flight'[ref'[u]] = {u}
  BY <1>6 DEF Finish, Converting, Locked
<1>7. ASSUME NEW g \in Collector, GcUnlock(g)
      PROVE  flight'[ref'[u]] = {u}
  BY <1>7 DEF GcUnlock, Converting, Locked
<1>8. ASSUME NEW g \in Collector, GcCheck(g) \/ GcDo(g) \/ GcLock(g) \/ GcAcquire(g)
      PROVE  flight'[ref'[u]] = {u}
  BY <1>8 DEF GcCheck, GcDo, GcLock, GcAcquire
<1>9. CASE ScheduledGC \/ (\E r \in Ref : PushImage(r)) \/ UNCHANGED vars
  BY <1>9 DEF ScheduledGC, PushImage, vars
<1> QED
  BY <1>1, <1>2, <1>3, <1>4, <1>5, <1>6, <1>7, <1>8, <1>9
     DEF Next, Step, AdapterStep, ConverterStep, GcStep

\* Two jobs for one reference never convert at the same time.
THEOREM OneConversion == Spec => []OneConversionPerRef
<1>1. Init => TypeOK /\ Leading
  BY TypeInitial DEF Init, Leading, Converting, Locked
<1>2. TypeOK /\ Leading /\ [Next]_vars => (TypeOK /\ Leading)'
  BY TypeStep, LeadingStep
<1>3. TypeOK /\ Leading => OneConversionPerRef
  BY ZenonT(30) DEF TypeOK, Leading, OneConversionPerRef
<1> QED
  BY <1>1, <1>2, <1>3, PTL DEF Spec

-----------------------------------------------------------------------------
\* GcMutex and the collector's singleflight: readers enter only while nobody
\* writes or waits to, and the lock is granted only when they have left.
LEMMA LockingStep == TypeOK /\ Locking /\ [Next]_vars => Locking'
<1> SUFFICES ASSUME TypeOK, Locking, [Next]_vars
             PROVE  Locking'
  OBVIOUS
<1> USE DEF TypeOK, Locking, args, registry, locks, goto, gcGoto
<1>1. ASSUME NEW t \in Task, Dispatch(t) \/ DispatchFail(t) \/ Send(t) \/ Receive(t) \/ Do(t)
      PROVE  Locking'
  <2>1. UNCHANGED <<readers, writer, gc>>
    BY <1>1 DEF Dispatch, DispatchFail, Send, Receive, Do
  <2>2. \A u \in Task : pc'[u] \in Locked <=> pc[u] \in Locked
    <3>1. pc[t] \notin Locked /\ pc'[t] \notin Locked
      BY <1>1 DEF Dispatch, DispatchFail, Send, Receive, Do, Locked
    <3>2. \A u \in Task : u # t => pc'[u] = pc[u]
      BY <1>1 DEF Dispatch, DispatchFail, Send, Receive, Do
    <3> QED
      BY <3>1, <3>2
  <2> QED
    BY <2>1, <2>2
<1>2. ASSUME NEW t \in Task,
             \/ MapReturn(t) \/ MapTarget(t) \/ Pull(t)
             \/ ConvertMismatch(t) \/ ConvertFail(t) \/ RetryOk(t)
             \/ Return(t) \/ Finish(t)
      PROVE  Locking'
  <2>1. UNCHANGED <<readers, writer, gc>>
    BY <1>2 DEF MapReturn, MapTarget, Pull, ConvertMismatch, ConvertFail, RetryOk,
                Return, Finish
  <2>2. \A u \in Task : pc'[u] \in Locked <=> pc[u] \in Locked
    BY <1>2 DEF MapReturn, MapTarget, Pull, ConvertMismatch, ConvertFail, RetryOk,
                Return, Sharing, Finish, Locked
  <2> QED
    BY <2>1, <2>2
<1>3. ASSUME NEW t \in Task, ConvertOk(t)
      PROVE  Locking'
  BY <1>3 DEF ConvertOk, Locked
<1>4. ASSUME NEW t \in Task, RLock(t)
      PROVE  Locking'
  BY <1>4 DEF RLock, Locked
<1>5. ASSUME NEW t \in Task, RUnlock(t)
      PROVE  Locking'
  BY <1>5 DEF RUnlock, Locked
<1>6. ASSUME NEW g \in Collector, GcCheck(g)
      PROVE  Locking'
  BY <1>6 DEF GcCheck
<1>7. ASSUME NEW g \in Collector, GcDo(g)
      PROVE  Locking'
  BY <1>7 DEF GcDo
<1>8. ASSUME NEW g \in Collector, GcLock(g)
      PROVE  Locking'
  BY <1>8 DEF GcLock
<1>9. ASSUME NEW g \in Collector, GcAcquire(g)
      PROVE  Locking'
  BY <1>9 DEF GcAcquire
<1>10. ASSUME NEW g \in Collector, GcUnlock(g)
       PROVE  Locking'
  BY <1>10 DEF GcUnlock, Locked
<1>11. CASE ScheduledGC
  BY <1>11 DEF ScheduledGC, Collector
<1>12. CASE (\E r \in Ref : PushImage(r)) \/ UNCHANGED vars
  BY <1>12 DEF PushImage, vars
<1> QED
  BY <1>1, <1>2, <1>3, <1>4, <1>5, <1>6, <1>7, <1>8, <1>9, <1>10, <1>11, <1>12
  DEF Next, Step, AdapterStep, ConverterStep, GcStep

\* While garbage is collected no conversion is between its pull and its push.
THEOREM CollectionIsAlone == Spec => []NoCollectionDuringConversion
<1>1. Init => TypeOK /\ Locking
  BY TypeInitial DEF Init, Locking, Locked
<1>2. TypeOK /\ Locking /\ [Next]_vars => (TypeOK /\ Locking)'
  BY TypeStep, LockingStep
<1>3. Locking => NoCollectionDuringConversion
  BY DEF Locking, NoCollectionDuringConversion
<1> QED
  BY <1>1, <1>2, <1>3, PTL DEF Spec

-----------------------------------------------------------------------------
\* A result comes from a conversion of the same reference, or from its rule, and
\* Finish reports what the result says.
LEMMA ResultsStep == TypeOK /\ Results /\ [Next]_vars => Results'
<1> SUFFICES ASSUME TypeOK, Results, [Next]_vars
             PROVE  Results'
  OBVIOUS
<1> USE MapAssumption, MaxPushAssumption
    DEF TypeOK, Results, args, registry, locks, goto, gcGoto
<1>1. ASSUME NEW r \in Ref, PushImage(r)
      PROVE  Results'
  BY <1>1 DEF PushImage, Version
<1>2. ASSUME NEW t \in Task, Dispatch(t)
      PROVE  Results'
  BY <1>2 DEF Dispatch, Records!Open, Records!RecordType
<1>3. ASSUME NEW t \in Task, DispatchFail(t) \/ Send(t) \/ Receive(t) \/ Do(t)
      PROVE  Results'
  <2>1. UNCHANGED <<src, target, ref, pulled, result, rec>>
    BY <1>3 DEF DispatchFail, Send, Receive, Do
  <2>2. /\ \A u \in Task : u # t => pc'[u] = pc[u]
        /\ pc[t] # "done" /\ pc'[t] \in {"refused", "queue", "job", "map", "wait"}
    BY <1>3 DEF DispatchFail, Send, Receive, Do
  <2> QED
    BY <2>1, <2>2
<1>4. ASSUME NEW t \in Task, MapReturn(t)
      PROVE  Results'
  BY <1>4 DEF MapReturn, MapResult
<1>5. ASSUME NEW t \in Task, MapTarget(t) \/ RLock(t) \/ ConvertMismatch(t) \/ RUnlock(t)
      PROVE  Results'
  <2>1. UNCHANGED <<src, target, ref, pulled, result, rec>>
    BY <1>5 DEF MapTarget, RLock, ConvertMismatch, RUnlock
  <2>2. /\ \A u \in Task : u # t => pc'[u] = pc[u]
        /\ pc[t] # "done"
        /\ \/ pc'[t] \in {"lock", "pull", "blocked", "repull"}
           \/ pc[t] = "unlock" /\ pc'[t] = "return"
    BY <1>5 DEF MapTarget, RLock, ConvertMismatch, RUnlock
  <2> QED
    BY <2>1, <2>2
<1>6. ASSUME NEW t \in Task, Pull(t)
      PROVE  Results'
  BY <1>6 DEF Pull
<1>7. ASSUME NEW t \in Task, ConvertOk(t) \/ RetryOk(t)
      PROVE  Results'
  <2>1. CASE ConvertOk(t)
    BY <2>1 DEF ConvertOk
  <2>2. CASE RetryOk(t)
    BY <2>2 DEF RetryOk
  <2> QED
    BY <1>7, <2>1, <2>2
<1>8. ASSUME NEW t \in Task, ConvertFail(t)
      PROVE  Results'
  BY <1>8 DEF ConvertFail
<1>9. ASSUME NEW t \in Task, Return(t)
      PROVE  Results'
  <2>1. \A w \in Task : w \in Sharing(t) => ref[w] = ref[t] /\ pc[w] # "done"
    BY <1>9 DEF Return, Sharing
  <2> QED
    BY <1>9, <2>1 DEF Return
<1>10. ASSUME NEW t \in Task, Finish(t)
       PROVE  Results'
  <2>1. result[t] # "error" => result[t] \in {"ok", "skip"}
    BY <1>10 DEF Finish
  <2> QED
    BY <1>10, <2>1 DEF Finish, Records!Close, Records!RecordType
<1>11. ASSUME NEW g \in Collector, GcUnlock(g)
       PROVE  Results'
  BY <1>11 DEF GcUnlock
<1>12. CASE \/ ScheduledGC \/ UNCHANGED vars
            \/ \E g \in Collector : GcCheck(g) \/ GcDo(g) \/ GcLock(g) \/ GcAcquire(g)
  <2>1. UNCHANGED <<src, target, ref, pulled, result, rec, pc>>
    BY <1>12 DEF ScheduledGC, GcCheck, GcDo, GcLock, GcAcquire, vars
  <2> QED
    BY <2>1
<1> QED
  BY <1>1, <1>2, <1>3, <1>4, <1>5, <1>6, <1>7, <1>8, <1>9, <1>10, <1>11, <1>12
  DEF Next, Step, AdapterStep, ConverterStep, GcStep

\* A task that reports COMPLETED finds its target image in the registry.
THEOREM CompletionIsPublished == Spec => []CompletedIsPublished
<1>1. Init => TypeOK /\ Results
  BY TypeInitial DEF Init, Results, Records!Init
<1>2. TypeOK /\ Results /\ [Next]_vars => (TypeOK /\ Results)'
  BY TypeStep, ResultsStep
<1>3. Results => CompletedIsPublished
  BY DEF Results, CompletedIsPublished
<1> QED
  BY <1>1, <1>2, <1>3, PTL DEF Spec

-----------------------------------------------------------------------------
\* No action changes the arguments of a call.
LEMMA ArgsStep == [Next]_vars => UNCHANGED args
BY DEF Next, vars, args, Step, AdapterStep, ConverterStep, GcStep, PushImage,
       Dispatch, DispatchFail, Send, Receive, Do, MapReturn, MapTarget, RLock, Pull,
       ConvertOk, ConvertMismatch, ConvertFail, RetryOk, RUnlock, Return, Finish,
       ScheduledGC, GcCheck, GcDo, GcLock, GcAcquire, GcUnlock

\* Where all calls are async, only the leader for a reference replaces its target
\* image, with one made from what it pulled when the target was not newer.
LEMMA OrderedStep ==
    TypeOK /\ Leading /\ Ordered /\ [Next]_vars
        => Ordered' /\ \A r \in Ref : AllAsync(r) => target'[r] >= target[r]
<1> SUFFICES ASSUME TypeOK, Leading, Ordered, [Next]_vars
             PROVE  Ordered' /\ \A r \in Ref : AllAsync(r) => target'[r] >= target[r]
  OBVIOUS
<1> DEFINE Goal == Ordered' /\ \A r \in Ref : AllAsync(r) => target'[r] >= target[r]
<1>0. /\ \A r \in Ref : src[r] \in Nat /\ target[r] \in Nat
      /\ \A t \in Task : pulled[t] \in Nat /\ ref[t] \in Ref
  BY MaxPushAssumption DEF TypeOK, Version
<1>a. \A r : AllAsync(r)' <=> AllAsync(r)
  BY ArgsStep DEF AllAsync, args
<1>1. ASSUME NEW r \in Ref, PushImage(r)
      PROVE  Goal
  BY <1>0, <1>1, <1>a DEF PushImage, TypeOK, Ordered, args
<1>2. ASSUME NEW t \in Task, ConvertOk(t) \/ RetryOk(t)
      PROVE  Goal
  <2>1. /\ UNCHANGED <<src, ref, pulled>>
        /\ target' = [target EXCEPT ![ref[t]] = pulled[t]]
        /\ pc[t] \in {"push", "repush"} /\ pc' = [pc EXCEPT ![t] = "unlock"]
    BY <1>2 DEF ConvertOk, RetryOk, args, goto
  <2>2. /\ pulled[t] <= src[ref[t]]
        /\ AllAsync(ref[t]) => target[ref[t]] <= pulled[t]
    BY <2>1 DEF Ordered
  <2>3. /\ \A r \in Ref : target'[r] <= src'[r]
        /\ \A r \in Ref : AllAsync(r) => target'[r] >= target[r]
    BY <1>0, <2>1, <2>2 DEF Ordered, TypeOK
  <2>4. ASSUME NEW u \in Task, pc'[u] \in {"push", "repush"}
        PROVE  /\ pulled'[u] <= src'[ref'[u]]
               /\ AllAsync(ref[u])' => target'[ref'[u]] <= pulled'[u]
    <3>1. u # t /\ pc[u] \in {"push", "repush"}
      BY <2>1, <2>4 DEF TypeOK
    <3>2. pulled'[u] <= src'[ref'[u]]
      BY <2>1, <3>1 DEF Ordered
    <3>3. ASSUME AllAsync(ref[u])
          PROVE  target'[ref'[u]] <= pulled'[u]
      <4>1. target[ref[u]] <= pulled[u]
        BY <3>1, <3>3 DEF Ordered
      <4>2. CASE ref[u] = ref[t]
        <5>1. mode[u] = "async" /\ mode[t] = "async"
          BY <3>3, <4>2 DEF AllAsync
        <5>2. flight[ref[u]] = {u} /\ flight[ref[t]] = {t}
          BY <2>1, <3>1, <5>1 DEF Leading, Converting, Locked
        <5> QED
          BY <3>1, <4>2, <5>2
      <4>3. CASE ref[u] # ref[t]
        BY <1>0, <2>1, <4>1, <4>3 DEF TypeOK
      <4> QED
        BY <4>2, <4>3
    <3>4. AllAsync(ref[u])' <=> AllAsync(ref[u])
      <4>1. ref' = ref /\ mode' = mode
        BY ArgsStep DEF args
      <4> QED
        BY <4>1 DEF AllAsync
    <3> QED
      BY <3>2, <3>3, <3>4
  <2> QED
    BY <2>3, <2>4 DEF Ordered
<1>3. ASSUME NEW t \in Task, Pull(t)
      PROVE  Goal
  BY <1>0, <1>3, <1>a DEF Pull, TypeOK, Ordered, args, registry, goto
<1>4. ASSUME NEW t \in Task,
             \/ Dispatch(t) \/ DispatchFail(t) \/ Send(t) \/ Receive(t) \/ Do(t)
             \/ MapReturn(t) \/ MapTarget(t) \/ RLock(t) \/ ConvertMismatch(t)
             \/ ConvertFail(t) \/ RUnlock(t) \/ Finish(t)
      PROVE  Goal
  <2>1. UNCHANGED <<src, target, ref, pulled>>
    BY <1>4 DEF Dispatch, DispatchFail, Send, Receive, Do, MapReturn, MapTarget,
                RLock, ConvertMismatch, ConvertFail, RUnlock, Finish, args, registry
  <2>2. /\ \A u \in Task : u # t => pc'[u] = pc[u]
        /\ pc'[t] \notin {"push", "repush"}
    BY <1>4 DEF Dispatch, DispatchFail, Send, Receive, Do, MapReturn, MapTarget,
                RLock, ConvertMismatch, ConvertFail, RUnlock, Finish, goto, TypeOK
  <2> QED
    BY <1>0, <1>a, <2>1, <2>2 DEF Ordered
<1>5. ASSUME NEW t \in Task, Return(t)
      PROVE  Goal
  BY <1>0, <1>5, <1>a DEF Return, Ordered, args, registry
<1>6. ASSUME NEW g \in Collector, GcUnlock(g)
      PROVE  Goal
  BY <1>0, <1>6, <1>a DEF GcUnlock, Ordered, args, registry
<1>7. CASE \/ ScheduledGC \/ UNCHANGED vars
           \/ \E g \in Collector : GcCheck(g) \/ GcDo(g) \/ GcLock(g) \/ GcAcquire(g)
  <2>1. UNCHANGED <<src, target, ref, pulled, pc>>
    BY <1>7 DEF ScheduledGC, GcCheck, GcDo, GcLock, GcAcquire, vars, args, registry
  <2> QED
    BY <1>0, <1>a, <2>1 DEF Ordered
<1> QED
  BY <1>1, <1>2, <1>3, <1>4, <1>5, <1>6, <1>7
     DEF Next, Step, AdapterStep, ConverterStep, GcStep

\* Where every call is async, a target image is never overwritten with one made
\* from an older source, however users push and conversions interleave.
THEOREM NoRegression == Spec => TargetNeverRegresses
<1> DEFINE IInv == TypeOK /\ Leading /\ Ordered
<1>1. Init => IInv
  <2> SUFFICES ASSUME Init
               PROVE  IInv
    OBVIOUS
  <2>1. TypeOK
    BY TypeInitial
  <2>2. Leading /\ Ordered
    BY <2>1 DEF Init, Leading, Ordered, Converting, Locked, TypeOK
  <2> QED
    BY <2>1, <2>2
<1>2. IInv /\ [Next]_vars => IInv'
  BY TypeStep, LeadingStep, OrderedStep
<1>3. IInv /\ [Next]_vars
        => [\A r \in Ref : AllAsync(r) => target'[r] >= target[r]]_vars
  BY OrderedStep
<1> QED
  BY <1>1, <1>2, <1>3, PTL DEF Spec, TargetNeverRegresses

=============================================================================
