------------------------------- MODULE Webhook -------------------------------
(***************************************************************************)
(* pkg/router and pkg/handler: the requests that start conversions, composed *)
(* with the adapter they call and the rules it follows.                      *)
(*                                                                         *)
(* A request of Harbor, or of a user, names one or more images.  CreateTask  *)
(* checks all of them before it dispatches the first, and stops at the first *)
(* whose Dispatch fails; a sync Dispatch returns when its conversion ended.  *)
(* Harbor also reports the images that the service pushes itself.            *)
(***************************************************************************)
EXTENDS Adapter, Rule

CONSTANTS Request,    \* the webhook requests
          Resources   \* Resources[q]: the calls of Dispatch that q makes

ASSUME RuleMapAssumption ==
    Ref \subseteq Reference /\ Map = [r \in Ref |-> RuleMap(r)]
ASSUME ResourcesAssumption ==
    /\ Resources \in [Request -> Seq(Task)]
    /\ \A p, q \in Request : \A i \in DOMAIN Resources[p], j \in DOMAIN Resources[q] :
           Resources[p][i] = Resources[q][j] => p = q /\ i = j

VARIABLES handling,   \* handling[q]: where CreateTask is
          next,       \* next[q]: the resource it is at
          reply       \* reply[q]: what it answered

request == <<handling, next, reply>>
webhookVars == <<vars, request>>

Reply == {"none", "ok", "ignored", "rejected", "failed"}

WebhookTypeOK ==
    /\ TypeOK
    /\ handling \in [Request -> {"check", "convert", "wait", "done"}]
    /\ next \in [Request -> Nat \ {0}]
    /\ \A q \in Request : next[q] <= Len(Resources[q]) + 1
    /\ reply \in [Request -> Reply]
    /\ \A q \in Request : handling[q] = "done" <=> reply[q] # "none"

\* The sync parameter is that of the request.
WebhookInit ==
    /\ Init
    /\ \A q \in Request : \A i, j \in DOMAIN Resources[q] :
           mode[Resources[q][i]] = mode[Resources[q][j]]
    /\ handling = [q \in Request |-> "check"]
    /\ next = [q \in Request |-> 1]
    /\ reply = [q \in Request |-> "none"]

Current(q) == Resources[q][next[q]]
More(q) == next[q] <= Len(Resources[q])

Answer(q, what) ==
    /\ handling' = [handling EXCEPT ![q] = "done"]
    /\ reply' = [reply EXCEPT ![q] = what]

Advance(q) ==
    /\ handling' = [handling EXCEPT ![q] = "convert"]
    /\ next' = [next EXCEPT ![q] = @ + 1]
    /\ UNCHANGED reply

-----------------------------------------------------------------------------
\* The payload has a type other than PUSH_ARTIFACT.
Ignore(q) ==
    /\ handling[q] = "check"
    /\ Answer(q, "ignored")
    /\ UNCHANGED <<vars, next>>

\* Mutant: a resource is checked when its turn comes.
RejectLate(q) ==
    /\ handling[q] \in {"check", "convert"}
    /\ Answer(q, "rejected")
    /\ UNCHANGED <<vars, next>>

\* The payload is invalid, or a URL, or the authorization for a host.
Reject(q) ==
    /\ handling[q] = "check"
    /\ Answer(q, "rejected")
    /\ UNCHANGED <<vars, next>>

\* All resources are checked.
Accept(q) ==
    /\ handling[q] = "check"
    /\ handling' = [handling EXCEPT ![q] = "convert"]
    /\ UNCHANGED <<vars, next, reply>>

\* handler.Convert: a sync call stays in it.
Convert(q) ==
    /\ handling[q] = "convert" /\ More(q)
    /\ Dispatch(Current(q))
    /\ IF mode[Current(q)] = "sync"
         THEN /\ handling' = [handling EXCEPT ![q] = "wait"]
              /\ UNCHANGED <<next, reply>>
         ELSE Advance(q)

ConvertRefused(q) ==
    /\ handling[q] = "convert" /\ More(q)
    /\ DispatchFail(Current(q))
    /\ Answer(q, "failed")
    /\ UNCHANGED next

\* The sync call returns: the loop goes on, unless it returns an error.
Converted(q) ==
    /\ handling[q] = "wait"
    /\ pc[Current(q)] = "done"
    /\ IF result[Current(q)] = "error" THEN Answer(q, "failed") /\ UNCHANGED next
                                       ELSE Advance(q)
    /\ UNCHANGED vars

ReplyOk(q) ==
    /\ handling[q] = "convert" /\ ~More(q)
    /\ Answer(q, "ok")
    /\ UNCHANGED <<vars, next>>

Handle(q) ==
    \/ Ignore(q) \/ Reject(q) \/ Accept(q)
    \/ Convert(q) \/ ConvertRefused(q) \/ Converted(q) \/ ReplyOk(q)

\* The adapter takes its steps, except that requests make the calls of Dispatch.
AdapterNext ==
    /\ \/ \E r \in Ref : PushImage(r)
       \/ \E t \in Task : Step(t)
       \/ ScheduledGC
       \/ \E g \in Collector : GcStep(g)
    /\ UNCHANGED request

WebhookNext == AdapterNext \/ \E q \in Request : Handle(q)

WebhookSpec == WebhookInit /\ [][WebhookNext]_webhookVars

-----------------------------------------------------------------------------
(* Properties *)

Created(t) == pc[t] \notin {"idle", "refused"}

\* A reply says what became of the resources.  Ok: all have a task, and the task
\* of a sync request is COMPLETED.  Ignored and rejected: none has.  Failed: those
\* before one that failed have a task, those after it do not.
ReplyIsTrue ==
    \A q \in Request :
        LET calls == Resources[q]
        IN  /\ reply[q] \in {"ignored", "rejected"} =>
                   \A i \in DOMAIN calls : pc[calls[i]] = "idle"
            /\ reply[q] = "ok" =>
                   \A i \in DOMAIN calls :
                       /\ Created(calls[i])
                       /\ mode[calls[i]] = "sync" => rec[calls[i]] = "COMPLETED"
            /\ reply[q] = "failed" =>
                   \E i \in DOMAIN calls :
                       /\ pc[calls[i]] = "refused" \/ rec[calls[i]] = "FAILED"
                       /\ \A j \in 1..(i - 1) : Created(calls[j])
                       /\ \A j \in (i + 1)..Len(calls) : pc[calls[j]] = "idle"

\* The service does not convert what it pushed itself, when it is told of it.
OwnPushesIgnored ==
    \A t \in Task : pc[t] \in Locked =>
        ~\E r \in Ref : /\ Map[r] = "cached"
                        /\ ref[t] \in {TargetRef(r), CacheRef(r)}

\* The steps are steps of the adapter: what is proved of it holds for requests.
ImplementsAdapter == Spec
=============================================================================
