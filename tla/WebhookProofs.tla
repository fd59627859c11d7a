----------------------------- MODULE WebhookProofs -----------------------------
(***************************************************************************)
(* Theorems of Webhook, for any requests, images and rules.  The steps of a  *)
(* request are steps of the adapter (RequestStep), which keep what was       *)
(* dispatched and what was recorded (FateStep); between them CreateTask is   *)
(* where the tasks of its resources say it is (Progress).                    *)
(***************************************************************************)
EXTENDS Webhook, AdapterProofs, SequenceTheorems, WellFoundedInduction

\* The outcome of a task that is done is the one recorded.
Recorded ==
    \A t \in Task : pc[t] = "done" =>
        rec[t] = IF result[t] = "error" THEN "FAILED" ELSE "COMPLETED"

\* A resource that CreateTask has left behind without an error.
Passed(t) == Created(t) /\ (mode[t] = "sync" => rec[t] = "COMPLETED")

\* The resources before the current one are passed, those after it are idle.
Progress(q) ==
    LET calls == Resources[q]
    IN  handling[q] # "done" =>
            /\ \A i \in DOMAIN calls : i < next[q] => Passed(calls[i])
            /\ \A i \in DOMAIN calls : i > next[q] => pc[calls[i]] = "idle"
            /\ handling[q] = "check" => next[q] = 1
            /\ handling[q] \in {"check", "convert"} /\ More(q)
                   => pc[Current(q)] = "idle"
            /\ handling[q] = "wait" => More(q) /\ Created(Current(q))

\* What ReplyIsTrue says of one request.
Replied(q) ==
    LET calls == Resources[q]
    IN  /\ reply[q] \in {"ignored", "rejected"} =>
               \A i \in DOMAIN calls : pc[calls[i]] = "idle"
        /\ reply[q] = "ok" => \A i \in DOMAIN calls : Passed(calls[i])
        /\ reply[q] = "failed" =>
               \E i \in DOMAIN calls :
                   /\ pc[calls[i]] = "refused" \/ rec[calls[i]] = "FAILED"
                   /\ \A j \in 1..(i - 1) : Created(calls[j])
                   /\ \A j \in (i + 1)..Len(calls) : pc[calls[j]] = "idle"

WebhookInv ==
    /\ WebhookTypeOK
    /\ Recorded
    /\ \A q \in Request : Progress(q) /\ Replied(q)

-----------------------------------------------------------------------------
\* The resources of a request are calls of Dispatch.
LEMMA ResourceIsTask ==
  ASSUME NEW q \in Request
  PROVE  /\ Len(Resources[q]) \in Nat
         /\ DOMAIN Resources[q] = 1..Len(Resources[q])
         /\ \A i \in DOMAIN Resources[q] : Resources[q][i] \in Task
BY ResourcesAssumption

\* A step of a request is a step of the adapter or leaves it alone.
LEMMA RequestStep == WebhookTypeOK /\ [WebhookNext]_webhookVars => [Next]_vars
<1> SUFFICES ASSUME WebhookTypeOK, [WebhookNext]_webhookVars
             PROVE  [Next]_vars
  OBVIOUS
<1>1. CASE AdapterNext
  BY <1>1 DEF AdapterNext, Next
<1>2. ASSUME NEW q \in Request, Handle(q)
      PROVE  [Next]_vars
  <2>1. CASE Ignore(q) \/ Reject(q) \/ Accept(q) \/ Converted(q) \/ ReplyOk(q)
    BY <2>1 DEF Ignore, Reject, Accept, Converted, ReplyOk
  <2>2. CASE Convert(q) \/ ConvertRefused(q)
    <3>1. next[q] \in DOMAIN Resources[q]
      BY <2>2, ResourceIsTask DEF Convert, ConvertRefused, More, WebhookTypeOK
    <3>2. Current(q) \in Task
      BY <3>1, ResourceIsTask DEF Current
    <3>3. Dispatch(Current(q)) \/ DispatchFail(Current(q))
      BY <2>2 DEF Convert, ConvertRefused
    <3> QED
      BY <3>2, <3>3 DEF Next
  <2> QED
    BY <1>2, <2>1, <2>2 DEF Handle
<1>3. CASE UNCHANGED webhookVars
  BY <1>3 DEF webhookVars
<1> QED
  BY <1>1, <1>2, <1>3 DEF WebhookNext

\* What was dispatched stays so and what was recorded lasts, in every step; only
\* a request dispatches.
LEMMA FateStep ==
    TypeOK /\ [Next]_vars =>
        /\ UNCHANGED mode
        /\ \A t \in Task :
               /\ Created(t) => Created(t)'
               /\ pc[t] = "refused" => pc'[t] = "refused"
               /\ rec[t] \in {"COMPLETED", "FAILED"} => rec'[t] = rec[t]
<1> SUFFICES ASSUME TypeOK, [Next]_vars
             PROVE  \A t \in Task :
                        /\ Created(t) => Created(t)'
                        /\ pc[t] = "refused" => pc'[t] = "refused"
                        /\ rec[t] \in {"COMPLETED", "FAILED"} => rec'[t] = rec[t]
  BY ArgsStep DEF args
<1> DEFINE Kept(t) == /\ Created(t) => Created(t)'
                      /\ pc[t] = "refused" => pc'[t] = "refused"
                      /\ rec[t] \in {"COMPLETED", "FAILED"} => rec'[t] = rec[t]
<1>1. ASSUME NEW u \in Task, Dispatch(u) \/ DispatchFail(u) \/ Finish(u)
      PROVE  \A t \in Task : Kept(t)
  BY <1>1 DEF Dispatch, DispatchFail, Finish, goto, TypeOK, Created, Records!Open,
              Records!Close, Records!RecordType
<1>2. ASSUME NEW u \in Task,
             \/ Send(u) \/ Receive(u) \/ Do(u) \/ MapReturn(u) \/ MapTarget(u)
             \/ RLock(u) \/ Pull(u) \/ ConvertOk(u) \/ ConvertMismatch(u)
             \/ ConvertFail(u) \/ RetryOk(u) \/ RUnlock(u)
      PROVE  \A t \in Task : Kept(t)
  BY <1>2 DEF Send, Receive, Do, MapReturn, MapTarget, RLock, Pull, ConvertOk,
              ConvertMismatch, ConvertFail, RetryOk, RUnlock, goto, TypeOK, Created
<1>3. ASSUME NEW u \in Task, Return(u)
      PROVE  \A t \in Task : Kept(t)
  BY <1>3 DEF Return, Sharing, TypeOK, Created
<1>4. ASSUME NEW g \in Collector, GcUnlock(g)
      PROVE  \A t \in Task : Kept(t)
  BY <1>4 DEF GcUnlock, TypeOK, Created
<1>5. CASE \/ UNCHANGED vars \/ ScheduledGC \/ \E r \in Ref : PushImage(r)
           \/ \E g \in Collector : GcCheck(g) \/ GcDo(g) \/ GcLock(g) \/ GcAcquire(g)
  BY <1>5 DEF vars, ScheduledGC, PushImage, GcCheck, GcDo, GcLock, GcAcquire, Created
<1> QED
  BY <1>1, <1>2, <1>3, <1>4, <1>5 DEF Next, Step, AdapterStep, ConverterStep, GcStep

\* The adapter alone dispatches nothing.
LEMMA IdleStep ==
    TypeOK /\ AdapterNext => \A t \in Task : pc[t] = "idle" => pc'[t] = "idle"
<1> SUFFICES ASSUME TypeOK, AdapterNext, NEW t \in Task, pc[t] = "idle"
             PROVE  pc'[t] = "idle"
  OBVIOUS
<1>1. ASSUME NEW u \in Task,
             \/ Send(u) \/ Receive(u) \/ Do(u) \/ MapReturn(u) \/ MapTarget(u)
             \/ RLock(u) \/ Pull(u) \/ ConvertOk(u) \/ ConvertMismatch(u)
             \/ ConvertFail(u) \/ RetryOk(u) \/ RUnlock(u) \/ Finish(u)
      PROVE  pc'[t] = "idle"
  BY <1>1 DEF Send, Receive, Do, MapReturn, MapTarget, RLock, Pull, ConvertOk,
              ConvertMismatch, ConvertFail, RetryOk, RUnlock, Finish, goto, TypeOK
<1>2. ASSUME NEW u \in Task, Return(u)
      PROVE  pc'[t] = "idle"
  BY <1>2 DEF Return, Sharing, TypeOK
<1>3. ASSUME NEW g \in Collector, GcUnlock(g)
      PROVE  pc'[t] = "idle"
  BY <1>3 DEF GcUnlock, TypeOK
<1>4. CASE \/ ScheduledGC \/ \E r \in Ref : PushImage(r)
           \/ \E g \in Collector : GcCheck(g) \/ GcDo(g) \/ GcLock(g) \/ GcAcquire(g)
  BY <1>4 DEF ScheduledGC, PushImage, GcCheck, GcDo, GcLock, GcAcquire
<1> QED
  BY <1>1, <1>2, <1>3, <1>4 DEF AdapterNext, Step, AdapterStep, ConverterStep, GcStep

\* A task is done by Finish, which records its result; a result that a task was
\* done with is not changed.
LEMMA RecordedStep == TypeOK /\ Recorded /\ [Next]_vars => Recorded'
<1> SUFFICES ASSUME TypeOK, Recorded, [Next]_vars, NEW t \in Task, pc'[t] = "done"
             PROVE  rec'[t] = IF result'[t] = "error" THEN "FAILED" ELSE "COMPLETED"
  BY DEF Recorded
<1> DEFINE Goal == rec'[t] = IF result'[t] = "error" THEN "FAILED" ELSE "COMPLETED"
<1>1. ASSUME NEW u \in Task, Finish(u)
      PROVE  Goal
  BY <1>1 DEF Finish, goto, TypeOK, Recorded, Records!Close, Records!RecordType
<1>2. ASSUME NEW u \in Task, Dispatch(u)
      PROVE  Goal
  BY <1>2 DEF Dispatch, goto, TypeOK, Recorded, Records!Open, Records!RecordType
<1>3. ASSUME NEW u \in Task,
             \/ Send(u) \/ Receive(u) \/ Do(u) \/ MapReturn(u) \/ MapTarget(u)
             \/ RLock(u) \/ Pull(u) \/ ConvertOk(u) \/ ConvertMismatch(u)
             \/ ConvertFail(u) \/ RetryOk(u) \/ RUnlock(u) \/ DispatchFail(u)
      PROVE  Goal
  BY <1>3 DEF Send, Receive, Do, MapReturn, MapTarget, RLock, Pull, ConvertOk,
              ConvertMismatch, ConvertFail, RetryOk, RUnlock, DispatchFail, goto,
              TypeOK, Recorded
<1>4. ASSUME NEW u \in Task, Return(u)
      PROVE  Goal
  BY <1>4 DEF Return, Sharing, TypeOK, Recorded
<1>5. ASSUME NEW g \in Collector, GcUnlock(g)
      PROVE  Goal
  BY <1>5 DEF GcUnlock, TypeOK, Recorded
<1>6. CASE \/ UNCHANGED vars \/ ScheduledGC \/ \E r \in Ref : PushImage(r)
           \/ \E g \in Collector : GcCheck(g) \/ GcDo(g) \/ GcLock(g) \/ GcAcquire(g)
  BY <1>6 DEF vars, ScheduledGC, PushImage, GcCheck, GcDo, GcLock, GcAcquire, Recorded
<1> QED
  BY <1>1, <1>2, <1>3, <1>4, <1>5, <1>6 DEF Next, Step, AdapterStep, ConverterStep, GcStep

-----------------------------------------------------------------------------
\* Where a request does not move, what is said of it lasts.
LEMMA StillStep ==
  ASSUME NEW q \in Request,
         WebhookInv, [Next]_vars,
         handling'[q] = handling[q], next'[q] = next[q], reply'[q] = reply[q],
         \A i \in DOMAIN Resources[q] :
             pc[Resources[q][i]] = "idle" => pc'[Resources[q][i]] = "idle"
  PROVE  Progress(q)' /\ Replied(q)'
<1> DEFINE calls == Resources[q]
<1>1. /\ UNCHANGED mode
      /\ \A t \in Task :
             /\ Created(t) => Created(t)'
             /\ pc[t] = "refused" => pc'[t] = "refused"
             /\ rec[t] \in {"COMPLETED", "FAILED"} => rec'[t] = rec[t]
  BY FateStep DEF WebhookInv, WebhookTypeOK
<1>2. \A t \in Task : Passed(t) => Passed(t)'
  BY <1>1 DEF Passed
<1>3. \A i \in DOMAIN calls : calls[i] \in Task
  BY ResourceIsTask
<1>4. Len(calls) \in Nat /\ DOMAIN calls = 1..Len(calls) /\ next[q] \in Nat \ {0}
  BY ResourceIsTask DEF WebhookInv, WebhookTypeOK
<1>5. Progress(q)'
  <2>1. Progress(q)
    BY DEF WebhookInv
  <2>2. More(q)' <=> More(q)
    BY DEF More
  <2>3. More(q) => Current(q) \in Task /\ Current(q)' = Current(q)
    BY <1>3, <1>4 DEF More, Current
  <2>4. More(q) /\ pc[Current(q)] = "idle" => pc'[Current(q)] = "idle"
    BY <1>4 DEF More, Current
  <2> QED
    BY <1>1, <1>2, <1>3, <2>1, <2>2, <2>3, <2>4 DEF Progress
<1>6. Replied(q)'
  <2>1. Replied(q)
    BY DEF WebhookInv
  <2>2. ASSUME reply[q] = "failed"
        PROVE  Replied(q)'
    <3>1. PICK i \in DOMAIN calls :
              /\ pc[calls[i]] = "refused" \/ rec[calls[i]] = "FAILED"
              /\ \A j \in 1..(i - 1) : Created(calls[j])
              /\ \A j \in (i + 1)..Len(calls) : pc[calls[j]] = "idle"
      BY <2>1, <2>2 DEF Replied
    <3>2. pc'[calls[i]] = "refused" \/ rec'[calls[i]] = "FAILED"
      BY <1>1, <1>3, <3>1
    <3>3. \A j \in 1..(i - 1) : Created(calls[j])'
      BY <1>1, <1>3, <1>4, <3>1 DEF Created
    <3>4. \A j \in (i + 1)..Len(calls) : pc'[calls[j]] = "idle"
      BY <1>4, <3>1
    <3> QED
      BY <2>2, <3>2, <3>3, <3>4 DEF Replied
  <2> QED
    BY <1>2, <1>3, <2>1, <2>2 DEF Replied
<1> QED
  BY <1>5, <1>6

\* A step of a request leaves the resources of the others alone.
LEMMA OtherIdle ==
  ASSUME NEW q \in Request, NEW p \in Request, WebhookTypeOK,
         p # q, Handle(q), NEW i \in DOMAIN Resources[p]
  PROVE  pc'[Resources[p][i]] = pc[Resources[p][i]]
<1>1. CASE Ignore(q) \/ Reject(q) \/ Accept(q) \/ Converted(q) \/ ReplyOk(q)
  BY <1>1 DEF Ignore, Reject, Accept, Converted, ReplyOk, vars
<1>2. CASE Convert(q) \/ ConvertRefused(q)
  <2>1. next[q] \in DOMAIN Resources[q]
    BY <1>2, ResourceIsTask DEF Convert, ConvertRefused, More, WebhookTypeOK
  <2>2. Current(q) # Resources[p][i]
    BY <2>1, ResourcesAssumption DEF Current
  <2> QED
    BY <1>2, <2>2, ResourceIsTask
    DEF Convert, ConvertRefused, Dispatch, DispatchFail, goto, WebhookTypeOK, TypeOK
<1> QED
  BY <1>1, <1>2 DEF Handle

\* CreateTask keeps its own account.
LEMMA OwnStep ==
  ASSUME NEW q \in Request, WebhookInv, Handle(q)
  PROVE  Progress(q)' /\ Replied(q)'
<1> DEFINE calls == Resources[q]
<1>0. /\ Progress(q) /\ Replied(q)
      /\ \A i \in DOMAIN calls : calls[i] \in Task
      /\ Len(calls) \in Nat /\ DOMAIN calls = 1..Len(calls)
      /\ next[q] \in 1..(Len(calls) + 1)
      /\ handling \in [Request -> {"check", "convert", "wait", "done"}]
      /\ next \in [Request -> Nat \ {0}] /\ reply \in [Request -> Reply]
      /\ handling[q] = "done" <=> reply[q] # "none"
      /\ pc \in [Task -> CallState]
  BY ResourceIsTask DEF WebhookInv, WebhookTypeOK, TypeOK
<1>1. CASE Ignore(q) \/ Reject(q)
  <2>1. /\ handling[q] = "check" /\ handling'[q] = "done"
        /\ reply'[q] \in {"ignored", "rejected"} /\ pc' = pc
    BY <1>0, <1>1 DEF Ignore, Reject, Answer, vars
  <2>2. \A i \in DOMAIN calls : pc[calls[i]] = "idle"
    BY <1>0, <2>1 DEF Progress, More, Current
  <2> QED
    BY <2>1, <2>2 DEF Progress, Replied
<1>2. CASE Accept(q)
  <2>1. /\ handling[q] = "check" /\ handling'[q] = "convert"
        /\ UNCHANGED <<vars, next, reply>>
    BY <1>0, <1>2 DEF Accept
  <2> QED
    BY <1>0, <2>1 DEF Progress, Replied, More, Current, Passed, Created, vars, args
<1>3. CASE Convert(q)
  <2>0. PICK n \in DOMAIN calls : n = next[q]
    BY <1>0, <1>3 DEF Convert, More
  <2>1. handling[q] = "convert" /\ Dispatch(calls[n])
    BY <1>3, <2>0 DEF Convert, Current
  <2>2. /\ UNCHANGED mode /\ pc'[calls[n]] \in {"map", "send"}
        /\ \A i \in DOMAIN calls : i # n => calls[i] # calls[n]
    BY SMTT(30), <1>0, <2>1, ResourcesAssumption DEF Dispatch, goto, args
  <2>3. /\ \A i \in DOMAIN calls : i # n => pc'[calls[i]] = pc[calls[i]]
        /\ \A i \in DOMAIN calls : i # n => rec'[calls[i]] = rec[calls[i]]
    BY <1>0, <2>1, <2>2
    DEF Dispatch, goto, Records!Open, WebhookInv, WebhookTypeOK, TypeOK,
        Records!RecordType
  <2>4. \A i \in DOMAIN calls : i # n /\ Passed(calls[i]) => Passed(calls[i])'
    BY <2>2, <2>3 DEF Passed, Created
  <2>5. reply'[q] = "none"
    BY <1>0, <1>3, <2>1 DEF Convert, Advance
  <2>6. CASE mode[calls[n]] = "sync"
    <3>1. handling'[q] = "wait" /\ next'[q] = n
      BY <1>0, <1>3, <2>0, <2>6 DEF Convert, Current
    <3>2. Created(calls[n])'
      BY <2>2 DEF Created
    <3> QED
      BY <1>0, <2>0, <2>1, <2>3, <2>4, <2>5, <3>1, <3>2
      DEF Progress, Replied, More, Current
  <2>7. CASE mode[calls[n]] # "sync"
    <3>1. handling'[q] = "convert" /\ next'[q] = n + 1
      BY <1>0, <1>3, <2>0, <2>7 DEF Convert, Advance, Current
    <3>2. Passed(calls[n])'
      BY <2>2, <2>7 DEF Passed, Created
    <3>3. \A i \in DOMAIN calls : i < n + 1 => Passed(calls[i])'
      BY <1>0, <2>0, <2>1, <2>4, <3>2 DEF Progress
    <3>4. \A i \in DOMAIN calls : i > n => pc'[calls[i]] = "idle"
      BY <1>0, <2>0, <2>1, <2>3 DEF Progress
    <3>5. More(q)' => n + 1 \in DOMAIN calls /\ Current(q)' = calls[n + 1]
      BY <1>0, <3>1 DEF More, Current
    <3> QED
      BY <1>0, <2>5, <3>1, <3>3, <3>4, <3>5 DEF Progress, Replied
  <2> QED
    BY <2>6, <2>7
<1>4. CASE ConvertRefused(q)
  <2>0. PICK n \in DOMAIN calls : n = next[q]
    BY <1>0, <1>4 DEF ConvertRefused, More
  <2>1. /\ handling[q] = "convert"
        /\ pc' = [pc EXCEPT ![calls[n]] = "refused"]
        /\ handling'[q] = "done" /\ reply'[q] = "failed"
    BY <1>0, <1>4, <2>0 DEF ConvertRefused, Current, DispatchFail, goto, Answer
  <2>2. pc'[calls[n]] = "refused"
    BY <1>0, <2>1
  <2>3. \A i \in DOMAIN calls : i # n => pc'[calls[i]] = pc[calls[i]]
    <3>1. \A i \in DOMAIN calls : i # n => calls[i] # calls[n]
      BY ResourcesAssumption
    <3> QED
      BY <1>0, <2>1, <3>1
  <2>4. \A j \in 1..(n - 1) : Created(calls[j])'
    <3>1. \A j \in 1..(n - 1) : j \in DOMAIN calls /\ j < n /\ j # n
      BY <1>0
    <3>2. \A j \in DOMAIN calls : j < n => Passed(calls[j])
      BY <1>0, <2>0, <2>1 DEF Progress
    <3> QED
      BY <2>3, <3>1, <3>2 DEF Passed, Created
  <2>5. \A j \in (n + 1)..Len(calls) : pc'[calls[j]] = "idle"
    <3>1. \A j \in (n + 1)..Len(calls) : j \in DOMAIN calls /\ j > n
      BY <1>0
    <3>2. \A j \in DOMAIN calls : j > n => pc[calls[j]] = "idle"
      BY <1>0, <2>0, <2>1 DEF Progress
    <3> QED
      BY <2>3, <3>1, <3>2
  <2> QED
    BY <2>1, <2>2, <2>4, <2>5 DEF Progress, Replied
<1>5. CASE Converted(q)
  <2>1. /\ handling[q] = "wait" /\ More(q) /\ next[q] \in DOMAIN calls
        /\ Current(q) = calls[next[q]] /\ pc[calls[next[q]]] = "done"
        /\ UNCHANGED vars
    BY <1>0, <1>5 DEF Converted, Progress, More, Current
  <2>2. /\ UNCHANGED <<pc, rec, mode>>
        /\ \A t : Created(t)' <=> Created(t)
        /\ \A t : Passed(t)' <=> Passed(t)
    BY <2>1 DEF vars, args, Created, Passed
  <2>3. CASE result[Current(q)] = "error"
    <3>1. handling'[q] = "done" /\ reply'[q] = "failed"
      BY <1>0, <1>5, <2>3 DEF Converted, Answer
    <3>2. rec[calls[next[q]]] = "FAILED"
      BY <1>0, <2>1, <2>3 DEF WebhookInv, Recorded
    <3>3. \A j \in 1..(next[q] - 1) : Created(calls[j])
      <4>1. \A j \in 1..(next[q] - 1) : j \in DOMAIN calls /\ j < next[q]
        BY <1>0, <2>1
      <4>2. \A j \in DOMAIN calls : j < next[q] => Passed(calls[j])
        BY <1>0, <2>1 DEF Progress
      <4> QED
        BY <4>1, <4>2 DEF Passed
    <3>4. \A j \in (next[q] + 1)..Len(calls) : pc[calls[j]] = "idle"
      BY <1>0, <2>1 DEF Progress
    <3> QED
      BY <2>1, <2>2, <3>1, <3>2, <3>3, <3>4 DEF Progress, Replied
  <2>4. CASE result[Current(q)] # "error"
    <3>1. /\ handling'[q] = "convert" /\ next'[q] = next[q] + 1
          /\ reply'[q] = "none"
      BY <1>0, <1>5, <2>1, <2>4 DEF Converted, Advance
    <3>2. Passed(calls[next[q]])
      BY <1>0, <2>1, <2>4 DEF WebhookInv, Recorded, Passed, Created
    <3> QED
      BY <1>0, <2>1, <2>2, <3>1, <3>2 DEF Progress, Replied, More, Current
  <2> QED
    BY <2>3, <2>4
<1>6. CASE ReplyOk(q)
  <2>1. /\ handling[q] = "convert" /\ ~More(q) /\ UNCHANGED vars
        /\ handling'[q] = "done" /\ reply'[q] = "ok"
    BY <1>0, <1>6 DEF ReplyOk, Answer
  <2>2. \A i \in DOMAIN calls : Passed(calls[i])
    BY <1>0, <2>1 DEF Progress, More
  <2>3. \A t : Passed(t)' <=> Passed(t)
    BY <2>1 DEF vars, args, Passed, Created
  <2> QED
    BY <2>1, <2>2, <2>3 DEF Progress, Replied
<1> QED
  BY <1>1, <1>2, <1>3, <1>4, <1>5, <1>6 DEF Handle

-----------------------------------------------------------------------------
LEMMA WebhookInitial == WebhookInit => WebhookInv
<1> SUFFICES ASSUME WebhookInit
             PROVE  WebhookInv
  OBVIOUS
<1>1. TypeOK
  BY TypeInitial DEF WebhookInit
<1>2. WebhookTypeOK
  BY <1>1, ResourceIsTask DEF WebhookInit, WebhookTypeOK, Reply
<1>3. \A t \in Task : pc[t] = "idle"
  BY DEF WebhookInit, Init
<1>4. Recorded
  BY <1>3 DEF Recorded
<1>5. ASSUME NEW q \in Request
      PROVE  Progress(q) /\ Replied(q)
  <2>1. \A i \in DOMAIN Resources[q] : pc[Resources[q][i]] = "idle"
    BY <1>3, ResourceIsTask
  <2>2. /\ handling[q] = "check" /\ next[q] = 1 /\ reply[q] = "none"
        /\ DOMAIN Resources[q] = 1..Len(Resources[q])
    BY ResourceIsTask DEF WebhookInit
  <2> QED
    BY <2>1, <2>2 DEF Progress, Replied, More, Current
<1> QED
  BY <1>2, <1>4, <1>5 DEF WebhookInv

LEMMA WebhookTypeStep == WebhookInv /\ [WebhookNext]_webhookVars => WebhookTypeOK'
<1> SUFFICES ASSUME WebhookInv, [WebhookNext]_webhookVars
             PROVE  WebhookTypeOK'
  OBVIOUS
<1>1. TypeOK'
  BY RequestStep, TypeStep DEF WebhookInv, WebhookTypeOK
<1>2. CASE UNCHANGED request
  BY <1>1, <1>2 DEF request, WebhookInv, WebhookTypeOK
<1>3. ASSUME NEW q \in Request, Handle(q)
      PROVE  WebhookTypeOK'
  <2>1. CASE Ignore(q) \/ Reject(q) \/ Accept(q) \/ ConvertRefused(q) \/ ReplyOk(q)
    BY <1>1, <2>1 DEF Ignore, Reject, Accept, ConvertRefused, ReplyOk, Answer, Reply,
                      WebhookInv, WebhookTypeOK
  <2> DEFINE Moved == /\ next' = [next EXCEPT ![q] = @ + 1]
                     /\ handling' = [handling EXCEPT ![q] = "convert"]
                     /\ reply' = reply
  <2>2. ASSUME Moved, More(q), handling[q] # "done"
        PROVE  WebhookTypeOK'
    <3>1. \A p \in Request : Len(Resources[p]) \in Nat
      BY ResourceIsTask
    <3>2. next' \in [Request -> Nat \ {0}]
      BY <2>2 DEF WebhookInv, WebhookTypeOK
    <3>3. \A p \in Request : next'[p] <= Len(Resources[p]) + 1
      BY <2>2, <3>1 DEF More, WebhookInv, WebhookTypeOK
    <3>4. handling' \in [Request -> {"check", "convert", "wait", "done"}]
      BY <2>2 DEF WebhookInv, WebhookTypeOK
    <3>5. \A p \in Request : handling'[p] = "done" <=> reply'[p] # "none"
      BY <2>2 DEF WebhookInv, WebhookTypeOK
    <3> HIDE DEF Moved
    <3>6. reply' \in [Request -> Reply]
      BY <2>2 DEF Moved, WebhookInv, WebhookTypeOK
    <3> QED
      BY <1>1, <3>2, <3>3, <3>4, <3>5, <3>6 DEF WebhookTypeOK, Reply
  <2>3. ASSUME handling' = [handling EXCEPT ![q] = "wait"], handling[q] # "done",
               next' = next, reply' = reply
        PROVE  WebhookTypeOK'
    BY <1>1, <2>3 DEF WebhookInv, WebhookTypeOK, Reply
  <2>4. CASE Convert(q)
    <3>1. handling[q] = "convert" /\ More(q)
      BY <2>4 DEF Convert
    <3>2. CASE mode[Current(q)] = "sync"
      BY <2>4, <3>1, <3>2, <2>3 DEF Convert
    <3>3. CASE mode[Current(q)] # "sync"
      BY <2>4, <3>1, <3>3, <2>2 DEF Convert, Advance
    <3> QED
      BY <3>2, <3>3
  <2>5. CASE Converted(q)
    <3>1. handling[q] = "wait" /\ More(q)
      BY <2>5 DEF Converted, WebhookInv, Progress
    <3>2. CASE result[Current(q)] = "error"
      BY <1>1, <2>5, <3>2 DEF Converted, Answer, Reply, WebhookInv, WebhookTypeOK
    <3>3. CASE result[Current(q)] # "error"
      BY <2>5, <3>1, <3>3, <2>2 DEF Converted, Advance
    <3> QED
      BY <3>2, <3>3
  <2> QED
    BY <1>3, <2>1, <2>4, <2>5 DEF Handle
<1> QED
  BY <1>2, <1>3 DEF WebhookNext, AdapterNext, webhookVars

LEMMA WebhookStep == WebhookInv /\ [WebhookNext]_webhookVars => WebhookInv'
<1> SUFFICES ASSUME WebhookInv, [WebhookNext]_webhookVars
             PROVE  WebhookInv'
  OBVIOUS
<1>1. WebhookTypeOK' /\ [Next]_vars
  BY WebhookTypeStep, RequestStep DEF WebhookInv
<1>2. Recorded'
  BY <1>1, RecordedStep DEF WebhookInv, WebhookTypeOK
<1>3. ASSUME NEW p \in Request
      PROVE  Progress(p)' /\ Replied(p)'
  <2>1. CASE AdapterNext
    <3>1. \A i \in DOMAIN Resources[p] :
              pc[Resources[p][i]] = "idle" => pc'[Resources[p][i]] = "idle"
      BY <2>1, IdleStep, ResourceIsTask DEF WebhookInv, WebhookTypeOK
    <3> QED
      BY <1>1, <2>1, <3>1, StillStep DEF AdapterNext, request
  <2>2. ASSUME NEW q \in Request, Handle(q), q # p
        PROVE  Progress(p)' /\ Replied(p)'
    <3>1. \A i \in DOMAIN Resources[p] : pc'[Resources[p][i]] = pc[Resources[p][i]]
      BY <2>2, OtherIdle DEF WebhookInv
    <3>2. handling'[p] = handling[p] /\ next'[p] = next[p] /\ reply'[p] = reply[p]
      BY <2>2 DEF Handle, Ignore, Reject, Accept, Convert, ConvertRefused, Converted,
                  ReplyOk, Answer, Advance, WebhookInv, WebhookTypeOK
    <3> QED
      BY <1>1, <3>1, <3>2, StillStep
  <2>3. CASE Handle(p)
    BY <2>3, OwnStep
  <2>4. CASE UNCHANGED webhookVars
    BY <1>1, <2>4, StillStep DEF webhookVars, vars, request
  <2> QED
    BY <2>1, <2>2, <2>3, <2>4 DEF WebhookNext
<1> QED
  BY <1>1, <1>2, <1>3 DEF WebhookInv

\* Webhook is well typed.
THEOREM WebhookTypeCorrect == WebhookSpec => []WebhookTypeOK
<1>1. WebhookInv => WebhookTypeOK
  BY DEF WebhookInv
<1> QED
  BY <1>1, WebhookInitial, WebhookStep, PTL DEF WebhookSpec

\* What CreateTask replies is true of the tasks of all its resources, and stays
\* so, whatever other requests and the conversions do meanwhile.
THEOREM RepliesAreTrue == WebhookSpec => []ReplyIsTrue
<1>1. WebhookInv => ReplyIsTrue
  BY DEF WebhookInv, Replied, ReplyIsTrue, Passed
<1> QED
  BY <1>1, WebhookInitial, WebhookStep, PTL DEF WebhookSpec

\* Requests add nothing to what the adapter may do: its theorems hold for them.
THEOREM WebhookRefinesAdapter == WebhookSpec => ImplementsAdapter
<1>1. WebhookInit => Init
  BY DEF WebhookInit
<1>2. WebhookInv => WebhookTypeOK
  BY DEF WebhookInv
<1> QED
  BY <1>1, <1>2, WebhookInitial, WebhookStep, RequestStep, PTL
  DEF WebhookSpec, ImplementsAdapter, Spec

-----------------------------------------------------------------------------
(* Rules *)

\* A call that has the lock, or waits for it, has an image to convert.
Mapped ==
    \A t \in Task : pc[t] \in Locked \cup {"lock", "blocked"} =>
        Map[ref[t]] \in {"plain", "cached"}

LEMMA MappedStep == TypeOK /\ Mapped /\ [Next]_vars => Mapped'
<1> SUFFICES ASSUME TypeOK, Mapped, [Next]_vars
             PROVE  Mapped'
  OBVIOUS
<1>1. ref' = ref
  BY ArgsStep DEF args
<1>2. ASSUME NEW t \in Task, Dispatch(t) \/ DispatchFail(t) \/ Step(t)
      PROVE  Mapped'
  <2>1. CASE Return(t)
    BY <1>1, <2>1 DEF Return, Mapped, Locked
  <2>2. CASE MapTarget(t)
    BY <1>1, <2>2 DEF MapTarget, goto, Mapped, TypeOK
  <2>3. CASE \/ RLock(t) \/ Pull(t) \/ ConvertOk(t) \/ ConvertMismatch(t)
             \/ ConvertFail(t) \/ RetryOk(t)
    <3>1. /\ \A u \in Task : u # t => pc'[u] = pc[u]
          /\ pc[t] \in Locked \cup {"lock"}
      BY <2>3 DEF RLock, Pull, ConvertOk, ConvertMismatch, ConvertFail, RetryOk, goto,
                  TypeOK, Locked
    <3> QED
      BY <1>1, <3>1 DEF Mapped
  <2>4. CASE \/ Dispatch(t) \/ DispatchFail(t) \/ Send(t) \/ Receive(t) \/ Do(t)
             \/ MapReturn(t) \/ RUnlock(t) \/ Finish(t)
    <3>1. /\ \A u \in Task : u # t => pc'[u] = pc[u]
          /\ pc'[t] \notin Locked \cup {"lock", "blocked"}
      BY <2>4 DEF Dispatch, DispatchFail, Send, Receive, Do, MapReturn, RUnlock, Finish,
                  goto, TypeOK, Locked
    <3> QED
      BY <1>1, <3>1 DEF Mapped
  <2> QED
    BY <1>2, <2>1, <2>2, <2>3, <2>4 DEF Step, AdapterStep, ConverterStep
<1>3. ASSUME NEW g \in Collector, GcUnlock(g)
      PROVE  Mapped'
  BY <1>1, <1>3 DEF GcUnlock, Mapped, Locked
<1>4. CASE \/ ScheduledGC \/ UNCHANGED vars \/ \E r \in Ref : PushImage(r)
           \/ \E g \in Collector : GcCheck(g) \/ GcDo(g) \/ GcLock(g) \/ GcAcquire(g)
  <2>1. pc' = pc
    BY <1>4 DEF ScheduledGC, GcCheck, GcDo, GcLock, GcAcquire, PushImage, vars
  <2> QED
    BY <1>1, <2>1 DEF Mapped
<1> QED
  BY <1>2, <1>3, <1>4 DEF Next, GcStep

\* The first of some rules is one of them.
LEMMA FirstRule ==
  ASSUME NEW S \in SUBSET (DOMAIN Rules), S # {}
  PROVE  Min(S) \in S
<1>1. S \in SUBSET Nat
  BY RulesAssumption
<1>2. PICK i \in S : \A j \in S : <<j, i>> \notin OpToRel(<, Nat)
  BY <1>1, WFMin, NatLessThanWellFounded, Zenon
<1>3. \A j \in S : ~(j < i)
  BY <1>1, <1>2, Zenon DEF OpToRel
<1>4. \A j \in S : i <= j
  BY <1>1, <1>3
<1> QED
  BY <1>4 DEF Min

\* What was appended is what it ends with.
LEMMA EndsWith ==
  ASSUME NEW S, NEW s \in Seq(S), NEW t \in Seq(S)
  PROVE  IsSuffix(t, s \o t)
<1>1. /\ s \o t \in Seq(S) /\ Len(s \o t) = Len(s) + Len(t)
      /\ Len(s) \in Nat /\ Len(t) \in Nat
      /\ \A i \in 1..Len(t) : (s \o t)[Len(s) + i] = t[i]
  OBVIOUS
<1> DEFINE rt == Reverse(t)
           rst == Reverse(s \o t)
<1>2. /\ rt \in Seq(S) /\ Len(rt) = Len(t)
      /\ rst \in Seq(S) /\ Len(rst) = Len(s) + Len(t)
  BY <1>1 DEF Reverse
<1>3. \A i \in 1..Len(t) : rt[i] = rst[i]
  <2> TAKE i \in 1..Len(t)
  <2>1. rt[i] = t[(Len(t) - i) + 1]
    BY <1>1 DEF Reverse
  <2>2. rst[i] = (s \o t)[((Len(s) + Len(t)) - i) + 1]
    BY <1>1 DEF Reverse
  <2>3. /\ (Len(t) - i) + 1 \in 1..Len(t)
        /\ ((Len(s) + Len(t)) - i) + 1 = Len(s) + ((Len(t) - i) + 1)
    BY <1>1
  <2> QED
    BY <1>1, <2>1, <2>2, <2>3
<1> HIDE DEF rt, rst
<1>4. SubSeq(rt, 1, Len(rt)) = SubSeq(rst, 1, Len(rt))
  BY <1>1, <1>2, <1>3
<1> QED
  BY <1>1, <1>2, <1>4 DEF IsSuffix, IsPrefix, rt, rst

\* The parts that a text is written with; the provers know no set that the
\* literals are in.
Part == STRING \cup {":", "latest"}

LEMMA TextOfParts ==
  ASSUME NEW t \in Text
  PROVE  t \in Seq(Part)
<1>1. Len(t) \in Nat /\ \A i \in 1..Len(t) : t[i] \in STRING
  BY DEF Text
<1>2. t = [i \in 1..Len(t) |-> t[i]]
  BY DEF Text
<1>3. \A i \in 1..Len(t) : t[i] \in Part
  BY <1>1 DEF Part
<1> QED
  BY <1>1, <1>2, <1>3

LEMMA OneRule ==
  ASSUME NEW i \in DOMAIN Rules
  PROVE  Rules[i].suffix \in Text /\ Rules[i].cache \in Text
<1> DEFINE R == [suffix: Text, cache: Text]
<1>1. Rules \in Seq(R)
  BY RulesAssumption
<1> HIDE DEF R
<1>2. Rules[i] \in R
  BY <1>1, ElementOfSeq
<1> QED
  BY <1>2 DEF R

\* What was pushed for an image is not taken for an image to convert.
LEMMA OwnPushIsMapped ==
  ASSUME NEW r \in Ref, Map[r] = "cached", NEW o \in Ref, o \in {TargetRef(r), CacheRef(r)}
  PROVE  Map[o] \in {"converted", "cacheImage"}
<1>1. /\ Ref \subseteq Reference
      /\ Map[r] = RuleMap(r) /\ Map[o] = RuleMap(o)
  BY RuleMapAssumption
<1>2. /\ SuffixRules # {} /\ CacheRules # {}
  BY <1>1 DEF RuleMap
<1>3. r.name \in Seq(Part) /\ r.tag \in Seq(Part)
  BY <1>1, TextOfParts DEF Reference
<1>4. TagSuffix \in Seq(Part)
  <2>1. Min(SuffixRules) \in DOMAIN Rules
    BY <1>2, FirstRule DEF SuffixRules
  <2> QED
    BY <2>1, OneRule, TextOfParts DEF TagSuffix
<1>5. CASE o = TargetRef(r)
  <2> DEFINE tag == IF r.tag = <<>> THEN <<"latest">> ELSE r.tag
             colon == <<":">>
  <2>1. /\ tag \in Seq(Part) /\ tag # <<>>
        /\ colon \in Seq(Part)
    <3>1. ":" \in Part /\ "latest" \in Part
      BY DEF Part
    <3>2. <<"latest">> \in Seq(Part) /\ <<"latest">> # <<>> /\ colon \in Seq(Part)
      BY <3>1
    <3> QED
      BY <1>3, <3>2
  <2>2. o.name = r.name /\ o.tag = tag \o TagSuffix /\ o.digest = <<>>
    BY <1>1, <1>5 DEF TargetRef, addSuffix, Undigested, Reference
  <2> HIDE DEF tag
  <2>3. tag \o TagSuffix # <<>> /\ tag \o TagSuffix \in Seq(Part)
    BY <1>4, <2>1
  <2>4. Written(o) = (r.name \o (colon \o (tag \o TagSuffix))) \o <<>>
    BY <2>2, <2>3 DEF Written
  <2> HIDE DEF colon
  <2>5. /\ colon \o (tag \o TagSuffix) \in Seq(Part)
        /\ colon \o tag \in Seq(Part)
    BY <2>1, <2>3
  <2>6. r.name \o (colon \o (tag \o TagSuffix)) \in Seq(Part)
    BY <1>3, <2>5
  <2>7. Written(o) = r.name \o (colon \o (tag \o TagSuffix))
    BY <2>4, <2>6, ConcatEmptySeq
  <2>8. colon \o (tag \o TagSuffix) = (colon \o tag) \o TagSuffix
    <3>1. \A a, b, d \in Seq(Part) : a \o (b \o d) = (a \o b) \o d
      BY ConcatAssociative
    <3>2. colon \in Seq(Part) /\ tag \in Seq(Part)
      BY <2>1
    <3> QED
      BY <1>4, <3>1, <3>2, ZenonT(30)
  <2>9. Written(o) = (r.name \o (colon \o tag)) \o TagSuffix
    <3> DEFINE ct == colon \o tag
    <3>1. ct \in Seq(Part)
      BY <2>5
    <3> HIDE DEF ct
    <3>2. \A a, b, d \in Seq(Part) : a \o (b \o d) = (a \o b) \o d
      BY ConcatAssociative
    <3>3. r.name \o (ct \o TagSuffix) = (r.name \o ct) \o TagSuffix
      BY <1>3, <1>4, <3>1, <3>2, ZenonT(30)
    <3> QED
      BY <2>7, <2>8, <3>3 DEF ct
  <2>10. r.name \o (colon \o tag) \in Seq(Part)
    BY <1>3, <2>5
  <2>11. IsSuffix(TagSuffix, Written(o))
    BY <1>4, <2>9, <2>10, EndsWith
  <2> QED
    BY <1>1, <1>2, <2>11 DEF RuleMap
<1>6. CASE o = CacheRef(r)
  <2>1. o.tag = CacheTag
    BY <1>1, <1>6 DEF CacheRef, setReferenceTag, Undigested, Reference
  <2> QED
    BY <1>1, <1>2, <2>1 DEF RuleMap
<1> QED
  BY <1>5, <1>6

\* The service never converts an image that it pushed itself, target or cache,
\* whatever its rules, when Harbor tells of the push.
THEOREM OwnPushesAreIgnored == WebhookSpec => []OwnPushesIgnored
<1>1. WebhookInit => Mapped
  BY DEF WebhookInit, Init, Mapped, Locked
<1>2. WebhookInv => WebhookTypeOK /\ TypeOK
  BY DEF WebhookInv, WebhookTypeOK
<1>3. WebhookInv /\ Mapped /\ [WebhookNext]_webhookVars => Mapped'
  BY <1>2, RequestStep, MappedStep
<1>4. TypeOK /\ Mapped => OwnPushesIgnored
  BY OwnPushIsMapped DEF Mapped, OwnPushesIgnored, TypeOK
<1> QED
  BY <1>1, <1>2, <1>3, <1>4, WebhookInitial, WebhookStep, PTL DEF WebhookSpec

=============================================================================
