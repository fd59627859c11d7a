------------------------------- MODULE Adapter -------------------------------
(***************************************************************************)
(* pkg/adapter: the dispatching of conversions and what they share.         *)
(*                                                                         *)
(* A call of Dispatch creates a task and converts its image, either in the   *)
(* request (sync) or as a job of the worker pool.  Jobs for one reference    *)
(* share one conversion through dispatchSingleflight.  A conversion holds    *)
(* GcMutex for reading; the garbage collection that follows a conversion, or *)
(* comes every hour, holds it for writing and is itself a singleflight.      *)
(*                                                                         *)
(* The record of a task is the one of TaskRecord, which the task manager     *)
(* implements.  The conversion itself is a pull of the source image and a    *)
(* push of the target image, the two points where it meets the registry.     *)
(***************************************************************************)
EXTENDS Naturals, Sequences, FiniteSets

CONSTANTS Task,      \* the calls of Dispatch
          Ref,       \* image references
          Map,       \* Map[ref]: what Rule.Map says of ref, for both options
          Mode,      \* the ways of calling Dispatch: "sync", "async"
          Count,     \* cfg.Converter.Worker
          MaxPush,   \* bound: how often users push to each reference
          Hourly     \* the goroutine of startScheduledGC

\* Map: ErrAlreadyConverted, ErrSameTag, another error, a target without a
\* remote cache, a target and a cache reference.
MapResult == {"converted", "cacheImage", "invalid", "plain", "cached"}

ASSUME MapAssumption == Map \in [Ref -> MapResult]
ASSUME CountAssumption == Count \in Nat \ {0}   \* NewWorker refuses others
ASSUME MaxPushAssumption == MaxPush \in [Ref -> Nat]
ASSUME HourlyAssumption == Hourly \notin Task
ASSUME ModeAssumption == Mode \subseteq {"sync", "async"}

VARIABLES src,       \* src[ref]: version of the source image in the registry
          target,    \* target[ref]: version the target image was made from
          rec,       \* the task records
          pc,        \* pc[t]: where the goroutine of call t is
          ref,       \* ref[t], mode[t]: the arguments of call t
          mode,
          pulled,    \* pulled[t]: version that the conversion of t works on
          result,    \* result[t]: what Convert or the singleflight returned
          jobs,      \* Worker.jobs, a buffered channel
          flight,    \* flight[r]: the leader of the singleflight call for r
          readers,   \* GcMutex: the conversions that hold it for reading
          writer,    \* GcMutex: "free", "waiting" or "held" for writing
          gc         \* gc[g]: where the goroutine g is in Content.GC

vars == <<src, target, rec, pc, ref, mode, pulled, result, jobs, flight,
          readers, writer, gc>>

\* The calls of content.GC: one by each conversion, one every hour.
Collector == Task \cup {Hourly}

\* A target image that was never pushed has version 0, sources start at 1.
Version == Nat

\* Inside adp.Convert, and within it under GcMutex.
Locked == {"pull", "push", "repull", "repush", "unlock"}

Converting == {"map", "lock", "blocked", "return"} \cup Locked

CallState == {"idle", "refused", "send", "queue", "job", "wait", "finish", "done"}
                \cup Converting

GcState == {"idle", "check", "call", "join", "lock", "acquire", "collect"}

Records == INSTANCE TaskRecord WITH TaskId <- Task

TypeOK ==
    /\ src \in [Ref -> Version] /\ target \in [Ref -> Version]
    /\ Records!RecordType
    /\ pc \in [Task -> CallState]
    /\ ref \in [Task -> Ref] /\ mode \in [Task -> {"sync", "async"}]
    /\ pulled \in [Task -> Version]
    /\ result \in [Task -> {"none", "ok", "skip", "error"}]
    /\ jobs \in Seq(Task)
    /\ flight \in [Ref -> SUBSET Task]
    /\ readers \in SUBSET Task
    /\ writer \in {"free", "waiting", "held"}
    /\ gc \in [Collector -> GcState]

Init ==
    /\ src = [r \in Ref |-> 1] /\ target = [r \in Ref |-> 0]
    /\ Records!Init
    /\ pc = [t \in Task |-> "idle"]
    /\ ref \in [Task -> Ref] /\ mode \in [Task -> Mode]
    /\ pulled = [t \in Task |-> 0]
    /\ result = [t \in Task |-> "none"]
    /\ jobs = <<>>
    /\ flight = [r \in Ref |-> {}]
    /\ readers = {}
    /\ writer = "free"
    /\ gc = [g \in Collector |-> "idle"]

goto(t, label) == pc' = [pc EXCEPT ![t] = label]

args == <<ref, mode>>
registry == <<src, target>>
locks == <<readers, writer>>

-----------------------------------------------------------------------------
(* Dispatch *)

\* A user pushes a new version of an image.
PushImage(r) ==
    /\ src[r] <= MaxPush[r]
    /\ src' = [src EXCEPT ![r] = @ + 1]
    /\ UNCHANGED <<target, rec, pc, args, pulled, result, jobs, flight,
                   locks, gc>>

\* Manager.Create succeeds; a sync call converts in this goroutine, the job of
\* an async call goes to a goroutine that waits to send it.
Dispatch(t) ==
    /\ pc[t] = "idle"
    /\ Records!Open(t)
    /\ goto(t, IF mode[t] = "sync" THEN "map" ELSE "send")
    /\ UNCHANGED <<registry, args, pulled, result, jobs, flight, locks, gc>>

\* Manager.Create fails: Dispatch returns its error.
DispatchFail(t) ==
    /\ pc[t] = "idle"
    /\ goto(t, "refused")
    /\ UNCHANGED <<registry, rec, args, pulled, result, jobs, flight,
                   locks, gc>>

-----------------------------------------------------------------------------
(* The worker pool *)

\* NewWorker: for i := 0; i <= count; i++ { go ... }
Workers == 0..Count

\* The jobs that a worker is executing.
Running == {t \in Task : mode[t] = "async"
                           /\ pc[t] \in Converting \cup {"job", "wait", "finish"}}

\* The sending goroutine gets a place in the channel.
Send(t) ==
    /\ pc[t] = "send"
    /\ Len(jobs) < Count
    /\ jobs' = Append(jobs, t)
    /\ goto(t, "queue")
    /\ UNCHANGED <<registry, rec, args, pulled, result, flight, locks, gc>>

\* An idle worker takes the next job.
Receive(t) ==
    /\ jobs # <<>> /\ t = Head(jobs) /\ pc[t] = "queue"
    /\ Cardinality(Running) < Cardinality(Workers)
    /\ jobs' = Tail(jobs)
    /\ goto(t, "job")
    /\ UNCHANGED <<registry, rec, args, pulled, result, flight, locks, gc>>

\* Mutant: no singleflight, every job converts.
DoAlone(t) ==
    /\ pc[t] = "job"
    /\ flight' = [flight EXCEPT ![ref[t]] = {t}]
    /\ goto(t, "map")
    /\ UNCHANGED <<registry, rec, args, pulled, result, jobs, locks, gc>>

\* dispatchSingleflight.Do: lead the call for the reference, or wait for it.  The
\* key is the text of the reference, as the caller wrote it.
Do(t) ==
    /\ pc[t] = "job"
    /\ IF flight[ref[t]] = {}
         THEN flight' = [flight EXCEPT ![ref[t]] = {t}] /\ goto(t, "map")
         ELSE UNCHANGED flight /\ goto(t, "wait")
    /\ UNCHANGED <<registry, rec, args, pulled, result, jobs, locks, gc>>

-----------------------------------------------------------------------------
(* Convert *)

\* The rules say that there is nothing to do, or fail: Convert returns early.
MapReturn(t) ==
    /\ pc[t] = "map"
    /\ Map[ref[t]] \in {"converted", "cacheImage", "invalid"}
    /\ result' = [result EXCEPT ![t] =
                    IF Map[ref[t]] = "invalid" THEN "error" ELSE "skip"]
    /\ goto(t, "return")
    /\ UNCHANGED <<registry, rec, args, pulled, jobs, flight, locks, gc>>

MapTarget(t) ==
    /\ pc[t] = "map"
    /\ Map[ref[t]] \in {"plain", "cached"}
    /\ goto(t, "lock")
    /\ UNCHANGED <<registry, rec, args, pulled, result, jobs, flight,
                   locks, gc>>

\* Mutant: a writer that waits is respected, one that holds the lock is not.
RLockBarging(t) ==
    /\ pc[t] = "lock"
    /\ IF writer # "waiting"
         THEN readers' = readers \cup {t} /\ goto(t, "pull")
         ELSE UNCHANGED readers /\ goto(t, "blocked")
    /\ UNCHANGED <<registry, rec, args, pulled, result, jobs, flight,
                   writer, gc>>

\* GcMutex.RLock: a writer that holds the lock or waits for it goes first.
RLock(t) ==
    /\ pc[t] = "lock"
    /\ IF writer = "free"
         THEN readers' = readers \cup {t} /\ goto(t, "pull")
         ELSE UNCHANGED readers /\ goto(t, "blocked")
    /\ UNCHANGED <<registry, rec, args, pulled, result, jobs, flight,
                   writer, gc>>

\* cvt.Convert starts: it pulls the source image.
Pull(t) ==
    /\ pc[t] \in {"pull", "repull"}
    /\ pulled' = [pulled EXCEPT ![t] = src[ref[t]]]
    /\ goto(t, IF pc[t] = "pull" THEN "push" ELSE "repush")
    /\ UNCHANGED <<registry, rec, args, result, jobs, flight, locks, gc>>

\* cvt.Convert succeeds: it has pushed the target image.  Convert starts a
\* garbage collection.
ConvertOk(t) ==
    /\ pc[t] = "push"
    /\ target' = [target EXCEPT ![ref[t]] = pulled[t]]
    /\ result' = [result EXCEPT ![t] = "ok"]
    /\ gc' = [gc EXCEPT ![t] = "check"]
    /\ goto(t, "unlock")
    /\ UNCHANGED <<src, rec, args, pulled, jobs, flight, locks>>

\* cvt.Convert fails because of the cache: once more without it.
ConvertMismatch(t) ==
    /\ pc[t] = "push"
    /\ Map[ref[t]] = "cached"
    /\ goto(t, "repull")
    /\ UNCHANGED <<registry, rec, args, pulled, result, jobs, flight,
                   locks, gc>>

\* Mutant: the error of the second attempt is kept as a result of its own.
ConvertFailUntyped(t) ==
    /\ pc[t] \in {"push", "repush"}
    /\ result' = [result EXCEPT ![t] = pc[t]]
    /\ goto(t, "unlock")
    /\ UNCHANGED <<registry, rec, args, pulled, jobs, flight, locks, gc>>

\* cvt.Convert fails, the first time or again.
ConvertFail(t) ==
    /\ pc[t] \in {"push", "repush"}
    /\ result' = [result EXCEPT ![t] = "error"]
    /\ goto(t, "unlock")
    /\ UNCHANGED <<registry, rec, args, pulled, jobs, flight, locks, gc>>

\* The second attempt succeeds: Convert returns the error of the first.
RetryOk(t) ==
    /\ pc[t] = "repush"
    /\ target' = [target EXCEPT ![ref[t]] = pulled[t]]
    /\ result' = [result EXCEPT ![t] = "error"]
    /\ goto(t, "unlock")
    /\ UNCHANGED <<src, rec, args, pulled, jobs, flight, locks, gc>>

RUnlock(t) ==
    /\ pc[t] = "unlock"
    /\ readers' = readers \ {t}
    /\ goto(t, "return")
    /\ UNCHANGED <<registry, rec, args, pulled, result, jobs, flight,
                   writer, gc>>

\* Mutant: the waiters of a singleflight are forgotten.
SharingNone(t) == {t}

\* The calls that get the result of the conversion of t.
Sharing(t) ==
    IF mode[t] = "sync" THEN {t}
    ELSE {t} \cup {w \in Task : pc[w] = "wait" /\ ref[w] = ref[t]}

\* Mutant: the waiters return without the error of the leader.
ReturnNoError(t) ==
    /\ pc[t] = "return"
    /\ flight' = IF mode[t] = "sync" THEN flight ELSE [flight EXCEPT ![ref[t]] = {}]
    /\ pc' = [w \in Task |-> IF w \in Sharing(t) THEN "finish" ELSE pc[w]]
    /\ UNCHANGED <<registry, rec, args, pulled, result, jobs, locks, gc>>

\* Convert returns.  The leader of a singleflight ends it and everyone in it
\* gets the result.
Return(t) ==
    /\ pc[t] = "return"
    /\ flight' = IF mode[t] = "sync" THEN flight ELSE [flight EXCEPT ![ref[t]] = {}]
    /\ result' = [w \in Task |-> IF w \in Sharing(t) THEN result[t] ELSE result[w]]
    /\ pc' = [w \in Task |-> IF w \in Sharing(t) THEN "finish" ELSE pc[w]]
    /\ UNCHANGED <<registry, rec, args, pulled, jobs, locks, gc>>

\* Manager.Finish; the worker is idle again, or the request is answered.  Whether
\* the record was also saved is not asked: rec is the one in memory.
Finish(t) ==
    /\ pc[t] = "finish"
    /\ Records!Close(t, IF result[t] = "error" THEN "FAILED" ELSE "COMPLETED")
    /\ goto(t, "done")
    /\ UNCHANGED <<registry, args, pulled, result, jobs, flight, locks, gc>>

-----------------------------------------------------------------------------
(* Content.GC *)

gcGoto(g, label) == gc' = [gc EXCEPT ![g] = label]

\* The ticker of startScheduledGC.
ScheduledGC ==
    /\ gc[Hourly] = "idle"
    /\ gcGoto(Hourly, "check")
    /\ UNCHANGED <<registry, rec, pc, args, pulled, result, jobs, flight, locks>>

\* The size of the store is below the limit, or there is something to do.
GcCheck(g) ==
    /\ gc[g] = "check"
    /\ gcGoto(g, "idle") \/ gcGoto(g, "call")
    /\ UNCHANGED <<registry, rec, pc, args, pulled, result, jobs, flight, locks>>

\* gcSingleflight.Do
GcDo(g) ==
    /\ gc[g] = "call"
    /\ gcGoto(g, IF \E other \in Collector : gc[other] \in {"lock", "acquire", "collect"}
                   THEN "join" ELSE "lock")
    /\ UNCHANGED <<registry, rec, pc, args, pulled, result, jobs, flight, locks>>

\* GcMutex.Lock: from now on new readers wait ...
GcLock(g) ==
    /\ gc[g] = "lock"
    /\ writer' = "waiting"
    /\ gcGoto(g, "acquire")
    /\ UNCHANGED <<registry, rec, pc, args, pulled, result, jobs, flight, readers>>

\* ... and the lock is granted when the last reader has left.
GcAcquire(g) ==
    /\ gc[g] = "acquire"
    /\ readers = {}
    /\ writer' = "held"
    /\ gcGoto(g, "collect")
    /\ UNCHANGED <<registry, rec, pc, args, pulled, result, jobs, flight, readers>>

\* Mutant: Unlock without the end of the singleflight for those who joined it.
GcUnlockAlone(g) ==
    /\ gc[g] = "collect"
    /\ writer' = "free"
    /\ readers' = {t \in Task : pc[t] = "blocked"}
    /\ pc' = [t \in Task |-> IF pc[t] = "blocked" THEN "pull" ELSE pc[t]]
    /\ gcGoto(g, "idle")
    /\ UNCHANGED <<registry, rec, args, pulled, result, jobs, flight>>

\* garbageCollect has run.  Unlock lets every waiting reader in, and the
\* singleflight returns to all its callers.
GcUnlock(g) ==
    /\ gc[g] = "collect"
    /\ writer' = "free"
    /\ readers' = {t \in Task : pc[t] = "blocked"}
    /\ pc' = [t \in Task |-> IF pc[t] = "blocked" THEN "pull" ELSE pc[t]]
    /\ gc' = [c \in Collector |-> IF c = g \/ gc[c] = "join" THEN "idle" ELSE gc[c]]
    /\ UNCHANGED <<registry, rec, args, pulled, result, jobs, flight>>

-----------------------------------------------------------------------------
\* The steps of the goroutine of one call, after its Dispatch: in the adapter ...
AdapterStep(t) ==
    \/ Send(t) \/ Receive(t) \/ Do(t)
    \/ MapReturn(t) \/ MapTarget(t) \/ RLock(t)
    \/ RUnlock(t) \/ Return(t) \/ Finish(t)

\* ... and in cvt.Convert, which it may never return from.
ConverterStep(t) ==
    \/ Pull(t)
    \/ ConvertOk(t) \/ ConvertMismatch(t) \/ ConvertFail(t) \/ RetryOk(t)

Step(t) == AdapterStep(t) \/ ConverterStep(t)

GcStep(g) ==
    GcCheck(g) \/ GcDo(g) \/ GcLock(g) \/ GcAcquire(g) \/ GcUnlock(g)

Next ==
    \/ \E r \in Ref : PushImage(r)
    \/ \E t \in Task : Dispatch(t) \/ DispatchFail(t) \/ Step(t)
    \/ ScheduledGC
    \/ \E g \in Collector : GcStep(g)

Spec == Init /\ [][Next]_vars

\* The scheduler runs the goroutines of the adapter and those that collect.  A call
\* takes finitely many steps, so that it is enough that some of them goes on.
\* Nothing is said of the steps of cvt.Convert.
Fairness ==
    /\ WF_vars(\E t \in Task : AdapterStep(t))
    /\ WF_vars(\E t \in Task : GcStep(t))
    /\ WF_vars(GcStep(Hourly))

FairSpec == Spec /\ Fairness

-----------------------------------------------------------------------------
(* Properties *)

\* Jobs for one reference share one conversion: the comment in Dispatch says
\* "If the ref is same, we only convert once in the same time."
OneConversionPerRef ==
    \A t, u \in Task :
        /\ mode[t] = "async" /\ mode[u] = "async"
        /\ pc[t] \in Converting /\ pc[u] \in Converting
        /\ ref[t] = ref[u]
        => t = u

\* Garbage is collected only while no conversion works on the local store,
\* between its pull and its push: GcMutex "works between gc and convert".
NoCollectionDuringConversion ==
    (\E g \in Collector : gc[g] = "collect") =>
        \A t \in Task : pc[t] \notin Locked

\* A task that reports COMPLETED for an image to convert finds the target image
\* in the registry, also when another call made the conversion.
CompletedIsPublished ==
    \A t \in Task :
        rec[t] = "COMPLETED" /\ Map[ref[t]] \in {"plain", "cached"}
            => target[ref[t]] # 0

AllAsync(r) == \A t \in Task : ref[t] = r => mode[t] = "async"

\* When all calls for a reference are async, no conversion overwrites its target
\* image with one made from an older source.
TargetNeverRegresses ==
    [][\A r \in Ref : AllAsync(r) => target'[r] >= target[r]]_vars

InConverter == {"pull", "push", "repull", "repush"}

\* No call stays in cvt.Convert for ever.  The code does not see to it: a
\* conversion has no deadline, and one that reads a layer of its remote cache
\* recurses for as long as the registry refuses plain HTTP (ported.go:194; see
\* EveryConversionEnds of Converter).
ConversionsReturn == []<>(\A t \in Task : pc[t] \notin InConverter)

\* Every task that was created gets an outcome if conversions return, whatever
\* conversion its job waits for or shares, and however few workers there are.
EveryTaskFinishes ==
    ConversionsReturn => <>[](\A t \in Task : rec[t] # "PROCESSING")

\* A garbage collection that was started ends if conversions return, whatever
\* conversions come: GcMutex is free for it, or the one that it joined returns.
EveryCollectionEnds ==
    ConversionsReturn => \A g \in Collector : []<>(gc[g] = "idle")

\* Dispatch retries a conversion without the cache that made it fail; a
\* conversion that pushed its target is not reported as failed.
PushedIsNotFailed ==
    [][\A t \in Task :
          pc[t] \in {"push", "repush"} /\ pc'[t] = "unlock" /\ target' # target
              => result'[t] # "error"]_vars

=============================================================================
