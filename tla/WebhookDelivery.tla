-------------------------- MODULE WebhookDelivery --------------------------
(***************************************************************************)
(* Outbound webhooks: WebhookService.dispatch() and its delivery pipeline   *)
(* (openwa/src/modules/webhook/webhook.service.ts) behind the dispatch      *)
(* limiter, and the queue worker (queue/processors/webhook.processor.ts).   *)
(* A task of the limiter is one delivery: one webhook, one event.  Hooks    *)
(* never throw and change nothing here, so waiting for one is no step of    *)
(* its own, except webhook:before, which may cancel or poison a delivery.   *)
(***************************************************************************)
EXTENDS ConcurrencyLimiter

CONSTANTS
  RetryCount,  \* webhook.retryCount
  MaxCrashes,  \* bound on the deaths of a process that runs the worker
  MaxJobs      \* bound on the jobs Redis accepts: jobs do not act on each other

ASSUME WebhookAssumption == {RetryCount, MaxCrashes, MaxJobs} \subseteq Nat

VARIABLES
  queueEnabled,
  phase,     \* the process that dispatches: up, draining, down or crashed
  at,        \* where dispatchWithLimit() of each delivery is
  direct,    \* POSTs of its deliverWebhook(), the attempt number
  job,       \* its BullMQ job: place, failed attempts, stalls, POSTs
  acked,     \* paths whose POST was answered 2xx
  rows,      \* dead-letter rows (webhook_delivery_failures)
  reported,  \* cancelled by a plugin, or its loss is in the error log
  crashes

jobVars == <<job, crashes>>
vars == <<limiterVars, queueEnabled, phase, at, direct, jobVars, acked, rows, reported>>

InSlot == {"preflight", "refuse", "add", "post", "touch", "backoff", "file"}
Recording == {"full", "shut"}
Places == {"new", "line", "done", "exited", "crashed"} \cup InSlot \cup Recording
Active == {"posting", "touching", "filing", "filed"}
JobPlaces == {"none", "waiting", "delayed", "completed", "exhausted", "failing", "failed",
              "unrecorded"} \cup Active

Init ==
  /\ LimiterInit
  /\ queueEnabled \in BOOLEAN
  /\ phase = "up"
  /\ at = [d \in Tasks |-> "new"]
  /\ direct = [d \in Tasks |-> 0]
  /\ job = [d \in Tasks |-> [place |-> "none", made |-> 0, stalls |-> 0, posts |-> 0]]
  /\ acked = [d \in Tasks |-> {}]
  /\ rows = [d \in Tasks |-> 0]
  /\ reported = [d \in Tasks |-> FALSE]
  /\ crashes = 0

Move(d, l) == at' = [at EXCEPT ![d] = l]
Report(d) == reported' = [reported EXCEPT ![d] = TRUE]
JobTo(d, l) == job' = [job EXCEPT ![d].place = l]

\* recordWebhookDeliveryFailure: one row, or an insert that failed and is logged; it
\* never throws.
RecordFailure(d) ==
  \/ rows' = [rows EXCEPT ![d] = @ + 1] /\ UNCHANGED reported
  \/ Report(d) /\ UNCHANGED rows

\* deliverOne() returned: the delivery leaves inFlightDeliveries and gives its slot up.
Return(d) == Settle(d) /\ Move(d, "done")

-----------------------------------------------------------------------------
(* dispatch() and the limiter *)

\* dispatchWithLimit: admitted, parked, or rejected into its catch.
Dispatch(d) ==
  /\ phase \in {"up", "draining"}
  /\ Run(d)
  /\ Move(d, CASE task'[d] = "running" -> "preflight"
               [] task'[d] = "parked"  -> "line"
               [] task'[d] = "refused" -> "full"
               [] task'[d] = "closed"  -> "shut")
  /\ UNCHANGED <<queueEnabled, phase, direct, jobVars, acked, rows, reported>>

Begin(d) ==
  /\ at[d] = "line"
  /\ Resume(d)
  /\ Move(d, "preflight")
  /\ UNCHANGED <<queueEnabled, phase, direct, jobVars, acked, rows, reported>>

\* preflightDelivery: cancelled by a plugin, refused (over the size cap, or a poisoned
\* hook result), or on to its transport.
Preflight(d) ==
  /\ at[d] = "preflight"
  /\ \/ Return(d) /\ Report(d) /\ UNCHANGED direct
     \/ Move(d, "refuse") /\ UNCHANGED <<limiterVars, direct, reported>>
     \/ queueEnabled /\ Move(d, "add") /\ UNCHANGED <<limiterVars, direct, reported>>
     \/ /\ ~queueEnabled
        /\ Move(d, "post") /\ direct' = [direct EXCEPT ![d] = 1]
        /\ UNCHANGED <<limiterVars, reported>>
  /\ UNCHANGED <<queueEnabled, phase, jobVars, acked, rows>>

\* recordUndelivered: from preflight it still holds its slot, from the limiter's
\* rejections it never had one.
RecordUndelivered(d) ==
  /\ at[d] \in {"refuse"} \cup Recording
  /\ RecordFailure(d)
  /\ \/ at[d] = "refuse" /\ Return(d)
     \/ at[d] \in Recording /\ Move(d, "done") /\ UNCHANGED limiterVars
  /\ UNCHANGED <<queueEnabled, phase, direct, jobVars, acked>>

Accepted(d) ==
  /\ Cardinality({o \in Tasks : job[o].place # "none"}) < MaxJobs
  /\ JobTo(d, "waiting")

\* enqueueWithFallback: the job is durable once add() resolves; a rejected add(), which
\* may have reached Redis all the same, falls back to a direct delivery.
Enqueue(d) ==
  /\ at[d] = "add"
  /\ \/ Accepted(d) /\ Return(d) /\ UNCHANGED direct
     \/ /\ Accepted(d) \/ UNCHANGED job
        /\ Move(d, "post") /\ direct' = [direct EXCEPT ![d] = 1]
        /\ UNCHANGED limiterVars
  /\ UNCHANGED <<queueEnabled, phase, crashes, acked, rows, reported>>

-----------------------------------------------------------------------------
(* deliverWebhook() *)

\* Mutant: the comparison is not strict.
RetryOnceMore(d) == direct[d] <= RetryCount
MayRetry(d) == direct[d] < RetryCount

\* Answered 2xx, or not: another status, an error, or no answer within the timeout.
Answered(d) ==
  /\ at[d] = "post"
  /\ \/ /\ acked' = [acked EXCEPT ![d] = @ \cup {"direct"}]
        /\ Move(d, "touch")
     \/ /\ Move(d, IF MayRetry(d) THEN "backoff" ELSE "file")
        /\ UNCHANGED acked
  /\ UNCHANGED <<limiterVars, queueEnabled, phase, direct, jobVars, rows, reported>>

\* Mutant: a failed lastTriggeredAt update reaches the catch of the POST.
TouchOrRetry(d) ==
  /\ at[d] = "touch"
  /\ \/ Return(d)
     \/ Move(d, IF MayRetry(d) THEN "backoff" ELSE "file") /\ UNCHANGED limiterVars
  /\ UNCHANGED <<queueEnabled, phase, direct, jobVars, acked, rows, reported>>
\* The lastTriggeredAt update, whatever comes of it.
Touch(d) ==
  /\ at[d] = "touch"
  /\ Return(d)
  /\ UNCHANGED <<queueEnabled, phase, direct, jobVars, acked, rows, reported>>

Retry(d) ==
  /\ at[d] = "backoff"
  /\ Move(d, "post") /\ direct' = [direct EXCEPT ![d] = @ + 1]
  /\ UNCHANGED <<limiterVars, queueEnabled, phase, jobVars, acked, rows, reported>>

\* The attempts are used up: the dead letter is filed, and deliverWebhook() throws into
\* a catch that only tells the hooks.
File(d) ==
  /\ at[d] = "file"
  /\ RecordFailure(d)
  /\ Return(d)
  /\ UNCHANGED <<queueEnabled, phase, direct, jobVars, acked>>

-----------------------------------------------------------------------------
(* WebhookProcessor and BullMQ *)

dispatchVars == <<limiterVars, queueEnabled, phase, at, direct>>

\* process(): one POST for each time the worker takes the job up.
Process(d) ==
  /\ job[d].place = "waiting"
  /\ job' = [job EXCEPT ![d].place = "posting", ![d].posts = @ + 1]
  /\ UNCHANGED <<dispatchVars, crashes, acked, rows, reported>>

IsFinalAttempt(d) == job[d].made + 1 >= RetryCount

\* recordSuccessfulDelivery, or recordDeliveryFailure: the dead letter on the final
\* attempt, the rethrow and BullMQ's back-off before it.
JobAnswered(d) ==
  /\ job[d].place = "posting"
  /\ \/ acked' = [acked EXCEPT ![d] = @ \cup {"job"}] /\ JobTo(d, "touching")
     \/ IsFinalAttempt(d) /\ JobTo(d, "filing") /\ UNCHANGED acked
     \/ /\ ~IsFinalAttempt(d)
        /\ job' = [job EXCEPT ![d].place = "delayed", ![d].made = @ + 1]
        /\ UNCHANGED acked
  /\ UNCHANGED <<dispatchVars, crashes, rows, reported>>

\* The row is written before BullMQ hears of the failure.
JobFiles(d) ==
  /\ job[d].place = "filing"
  /\ RecordFailure(d)
  /\ JobTo(d, "filed")
  /\ UNCHANGED <<dispatchVars, crashes, acked>>

\* Mutants: the failed event is recorded whatever its reason; or not at all.
RecordEveryFailure(reason) == "failing"
RecordNoFailure(reason) == "failed"
\* onWorkerFailed records only a job that process() never saw fail.
OnFailed(reason) == IF reason = "stalled" THEN "failing" ELSE "failed"

\* process() settled, BullMQ moves the job; or its back-off is over.
JobMoves(d) ==
  /\ \/ job[d].place = "touching" /\ JobTo(d, "completed")
     \/ job[d].place = "filed" /\ JobTo(d, OnFailed("thrown"))
     \/ job[d].place = "exhausted" /\ JobTo(d, OnFailed("stalled"))
     \/ job[d].place = "delayed" /\ JobTo(d, "waiting")
  /\ UNCHANGED <<dispatchVars, crashes, acked, rows, reported>>

\* The row onWorkerFailed writes.
StallRecorded(d) ==
  /\ job[d].place = "failing"
  /\ RecordFailure(d)
  /\ JobTo(d, "failed")
  /\ UNCHANGED <<dispatchVars, crashes, acked>>

-----------------------------------------------------------------------------
(* Shutdown and crashes *)

\* onModuleDestroy: direct mode closes the limiter, whose parked deliveries reject.
ShutDown ==
  /\ phase = "up"
  /\ phase' = "draining"
  /\ IF queueEnabled THEN UNCHANGED <<limiterVars, at>>
     ELSE /\ Close
          /\ at' = [d \in Tasks |-> IF task[d] = "parked" THEN "shut" ELSE at[d]]
  /\ UNCHANGED <<queueEnabled, direct, jobVars, acked, rows, reported>>

\* The drain is complete, or WEBHOOK_SHUTDOWN_DRAIN_MS is over: what is still in flight
\* is logged, the process exits.  (A handed-over slot is taken up before any timer.)
Exit ==
  /\ phase = "draining"
  /\ \A d \in Tasks : task[d] # "resumed"
  /\ phase' = "down"
  /\ reported' = [d \in Tasks |-> reported[d] \/ at[d] \in InSlot]
  /\ at' = [d \in Tasks |-> IF at[d] \in {"new", "done"} THEN at[d] ELSE "exited"]
  /\ UNCHANGED <<limiterVars, queueEnabled, direct, jobVars, acked, rows>>

\* BullMQ gives a job whose worker died back to the queue, once; the second time the
\* next worker fails it without a call of process().
Stalled(j) ==
  CASE j.place \in Active /\ j.stalls = 0 -> [j EXCEPT !.place = "waiting", !.stalls = 1]
    [] j.place \in Active /\ j.stalls > 0 -> [j EXCEPT !.place = "exhausted", !.stalls = @ + 1]
    [] j.place = "failing" -> [j EXCEPT !.place = "unrecorded"]
    [] OTHER -> j

\* The process dies with its dispatches, and with the jobs its worker had taken up.
Crash ==
  /\ crashes < MaxCrashes
  /\ crashes' = crashes + 1
  /\ job' = [d \in Tasks |-> Stalled(job[d])]
  /\ \/ /\ phase \in {"up", "draining"}
        /\ phase' = "crashed"
        /\ at' = [d \in Tasks |-> IF at[d] \in {"new", "done"} THEN at[d] ELSE "crashed"]
     \/ phase \in {"down", "crashed"} /\ UNCHANGED <<phase, at>>
  /\ UNCHANGED <<limiterVars, queueEnabled, direct, acked, rows, reported>>

-----------------------------------------------------------------------------
DeliveryStep(d) ==
  \/ Begin(d) \/ Preflight(d) \/ RecordUndelivered(d) \/ Enqueue(d)
  \/ Answered(d) \/ Touch(d) \/ Retry(d) \/ File(d)

JobStep(d) ==
  \/ Process(d) \/ JobAnswered(d) \/ JobFiles(d) \/ JobMoves(d) \/ StallRecorded(d)

Next ==
  \/ \E d \in Tasks : Dispatch(d) \/ DeliveryStep(d) \/ JobStep(d)
  \/ ShutDown \/ Exit \/ Crash

Spec == Init /\ [][Next]_vars

(* Every await is bounded: fetches by WEBHOOK_TIMEOUT, back-offs by timers; the database *)
(* and Redis answer.  Nothing obliges a client to dispatch, or the process to end.       *)
FairSpec == Spec /\ WF_vars(\E d \in Tasks : DeliveryStep(d) \/ JobStep(d))

-----------------------------------------------------------------------------
(* Properties *)

\* Each field keeps its shape, and a delivery works inside a slot exactly while the
\* limiter counts it there.
TypeOK ==
  /\ LimiterTypeOK
  /\ queueEnabled \in BOOLEAN
  /\ phase \in {"up", "draining", "down", "crashed"}
  /\ at \in [Tasks -> Places]
  /\ direct \in [Tasks -> Nat]
  /\ job \in [Tasks -> [place : JobPlaces, made : Nat, stalls : 0..2, posts : Nat]]
  /\ acked \in [Tasks -> SUBSET {"direct", "job"}]
  /\ rows \in [Tasks -> Nat]
  /\ reported \in [Tasks -> BOOLEAN]
  /\ crashes \in 0..MaxCrashes
  /\ phase \in {"up", "draining"} =>
       \A d \in Tasks : at[d] \in InSlot <=> task[d] = "running"

DispatchOver(d) == at[d] \in {"done", "exited", "crashed"}
JobOver(d) == job[d].place \in {"completed", "failed", "unrecorded"}

\* A delivery that is over was received, has a dead-letter row, or is in the log; a job
\* Redis accepted keeps that promise across crashes.  (A delivery whose process died
\* before it was enqueued is lost with it, and a job whose worker died in the very
\* recording of its stall exhaustion.)
NoSilentLoss ==
  \A d \in Tasks :
    \/ at[d] = "done" /\ job[d].place = "none"
    \/ DispatchOver(d) /\ job[d].place \in {"completed", "failed"}
    => acked[d] # {} \/ rows[d] > 0 \/ reported[d]

\* Both transports of one delivery were used: add() rejected after reaching Redis.
Both(d) == job[d].place # "none" /\ direct[d] > 0

\* A delivery that was received is not dead-lettered, unless a crash or the fallback made
\* it be sent again.
NoFalseDeadLetter ==
  \A d \in Tasks : acked[d] # {} /\ rows[d] > 0 => job[d].stalls > 0 \/ Both(d)

\* One failure is one dead letter, and one more for each crash and for the fallback.
OneRowPerFailure ==
  \A d \in Tasks : rows[d] <= 1 + job[d].stalls + (IF Both(d) THEN 1 ELSE 0)

Attempts == IF RetryCount = 0 THEN 1 ELSE RetryCount

\* retryCount bounds the POSTs of a delivery, on either path.
PostsBounded ==
  \A d \in Tasks : /\ direct[d] <= Attempts
                   /\ job[d].posts <= Attempts + job[d].stalls

\* What the receiver answered 2xx is not sent again by the same path, short of a crash.
NoRepostAfterAck ==
  [][\A d \in Tasks :
       /\ direct'[d] > direct[d] => "direct" \notin acked[d]
       /\ job'[d].posts > job[d].posts => "job" \notin acked[d] \/ job[d].stalls > 0]_vars

\* Every delivery ends, wherever it waits: in line, for an answer, between attempts.
DeliveriesSettle ==
  \A d \in Tasks :
    at[d] # "new" ~> DispatchOver(d) /\ (job[d].place = "none" \/ JobOver(d))

\* What the bounded drain abandons is in the log or has a row.
DrainAccountsForAll ==
  \A d \in Tasks :
    at[d] = "exited" /\ job[d].place = "none" => acked[d] # {} \/ rows[d] > 0 \/ reported[d]
=============================================================================
