----------------------- MODULE WebhookDeliveryProofs -----------------------
(***************************************************************************)
(* Webhook delivery for every set of deliveries, retry count, number of     *)
(* crashes and limiter configuration.  It uses the limiter as the limiter   *)
(* expects, so what is proved of the limiter holds of it; and nothing is    *)
(* lost in silence, called lost though received, filed twice or posted too  *)
(* often.                                                                   *)
(***************************************************************************)
EXTENDS WebhookDelivery, ConcurrencyLimiterProofs

\* A step of the delivery pipeline, the worker or the process is a step of the limiter
\* or leaves it alone.
LEMMA StepUsesLimiter ==
  ASSUME [Next]_vars
  PROVE  [LimiterNext]_limiterVars
  <1>1. CASE UNCHANGED vars
    BY <1>1 DEF vars
  <1>2. ASSUME NEW d \in Tasks, Dispatch(d)
        PROVE  LimiterNext
    BY <1>2 DEF Dispatch, LimiterNext
  <1>3. ASSUME NEW d \in Tasks, DeliveryStep(d)
        PROVE  [LimiterNext]_limiterVars
    <2>1. Resume(d) \/ Settle(d) \/ UNCHANGED limiterVars
      BY <1>3 DEF DeliveryStep, Begin, Preflight, RecordUndelivered, Enqueue, Answered, Touch,
         Retry, File, Return
    <2> QED
      BY <2>1 DEF LimiterNext
  <1>4. ASSUME NEW d \in Tasks, JobStep(d)
        PROVE  UNCHANGED limiterVars
    BY <1>4 DEF JobStep, Process, JobAnswered, JobFiles, JobMoves, StallRecorded, dispatchVars
  <1>5. CASE ShutDown
    BY <1>5 DEF ShutDown, LimiterNext
  <1>6. CASE Exit \/ Crash
    BY <1>6 DEF Exit, Crash
  <1> QED
    BY <1>1, <1>2, <1>3, <1>4, <1>5, <1>6 DEF Next

\* Every behaviour of the delivery pipeline is one of the limiter it runs in.
THEOREM DeliveryUsesLimiter == Spec => LimiterSpec
  <1>1. Init => LimiterInit
    BY DEF Init
  <1> QED
    BY <1>1, StepUsesLimiter, PTL DEF Spec, LimiterSpec

\* Deliveries in flight never exceed WEBHOOK_DISPATCH_CONCURRENCY, and the limiter's
\* count is the number of deliveries that hold a slot.
THEOREM DeliveriesBounded == Spec => []SlotsBounded
  BY DeliveryUsesLimiter, LimiterBounds, PTL

\* To those who dispatch, the deliveries are served by a pool of slots.
THEOREM DeliveriesPooled == Spec => ImplementsPool
  BY DeliveryUsesLimiter, LimiterImplementsPool, PTL

-----------------------------------------------------------------------------
(* The inductive invariant of the deliveries *)

\* The fields of the pipeline, next to those of the limiter.
Fields ==
  /\ queueEnabled \in BOOLEAN
  /\ phase \in {"up", "draining", "down", "crashed"}
  /\ at \in [Tasks -> Places]
  /\ direct \in [Tasks -> Nat]
  /\ job \in [Tasks -> [place : JobPlaces, made : Nat, stalls : 0..2, posts : Nat]]
  /\ acked \in [Tasks -> SUBSET {"direct", "job"}]
  /\ rows \in [Tasks -> Nat]
  /\ reported \in [Tasks -> BOOLEAN]
  /\ crashes \in 0..MaxCrashes

\* While the process is up, where a delivery is and what its call of run() is doing
\* go together; afterwards nothing is in a handler.
Placed(d) ==
  IF phase \in {"up", "draining"}
  THEN /\ task[d] = "idle" <=> at[d] = "new"
       /\ task[d] \in {"parked", "resumed"} <=> at[d] = "line"
       /\ task[d] = "running" <=> at[d] \in InSlot
       /\ at[d] \notin {"exited", "crashed"}
  ELSE at[d] \in {"new", "done", "exited", "crashed"}

Untried == {"new", "line", "preflight", "refuse", "add"} \cup Recording
Trying == {"post", "touch", "backoff", "file"}

\* Nothing has left the process before a transport is chosen.
NothingSent(d) ==
  at[d] \in Untried => direct[d] = 0 /\ job[d].place = "none" /\ rows[d] = 0 /\ acked[d] = {}

\* The attempt number of deliverWebhook() stays within the limit, and an answer 2xx ends it.
DirectHolds(d) ==
  /\ direct[d] <= Attempts
  /\ "direct" \in acked[d] => direct[d] > 0
  /\ at[d] \in Trying => direct[d] > 0
  /\ at[d] \in Trying => ("direct" \in acked[d] <=> at[d] = "touch")
  /\ at[d] = "backoff" => direct[d] < RetryCount

\* Each POST of a job is one of its failed attempts, a stall, or the one it is at.
JobHolds(d) ==
  /\ job[d].place = "none" => job[d].stalls = 0 /\ "job" \notin acked[d]
  /\ job[d].made + 1 <= Attempts
  /\ job[d].posts <= job[d].made + job[d].stalls
                       + (IF job[d].place \in {"none", "waiting", "delayed"} THEN 0 ELSE 1)
  /\ job[d].place \in {"waiting", "delayed"} \cup Active => job[d].stalls <= 1
  /\ job[d].place \in {"touching", "completed"} => "job" \in acked[d]
  /\ "job" \in acked[d] => job[d].place \in {"touching", "completed"} \/ job[d].stalls > 0
  /\ job[d].place \in {"filed", "failed"} => rows[d] > 0 \/ reported[d]

\* The row a dispatch that is over may have written, and the one of its job.
DirectRow(d) == IF at[d] = "done" /\ (direct[d] > 0 \/ job[d].place = "none") THEN 1 ELSE 0
JobRow(d) == IF job[d].place \in {"filed", "failed"} THEN 1 ELSE 0

\* Every row has its cause, and a dispatch that ends without a job leaves a trace.
RowsHold(d) ==
  /\ rows[d] <= DirectRow(d) + job[d].stalls + JobRow(d)
  /\ "direct" \in acked[d] /\ job[d].place = "none" => rows[d] = 0
  /\ at[d] = "done" /\ job[d].place = "none" => acked[d] # {} \/ rows[d] > 0 \/ reported[d]

Holds(d) == NothingSent(d) /\ DirectHolds(d) /\ JobHolds(d) /\ RowsHold(d)

IInv == Fields /\ \A d \in Tasks : Placed(d) /\ Holds(d)

\* retryCount, with the one attempt that zero still makes.
LEMMA AttemptsType == Attempts \in Nat \ {0} /\ RetryCount \in Nat /\ RetryCount <= Attempts
  BY WebhookAssumption DEF Attempts

\* A new pipeline has sent nothing.
LEMMA InitHolds == ASSUME Init PROVE IInv
  <1>1. Fields
    BY WebhookAssumption DEF Init, Fields, Places, JobPlaces
  <1>2. ASSUME NEW d \in Tasks PROVE Placed(d)
    BY DEF Init, LimiterInit, Placed, InSlot
  <1>3. ASSUME NEW d \in Tasks PROVE Holds(d)
    BY AttemptsType DEF Init, Holds, NothingSent, DirectHolds, JobHolds, RowsHold, DirectRow,
       JobRow, Untried, Trying, Active
  <1> QED
    BY <1>1, <1>2, <1>3 DEF IInv

\* The other deliveries are where they were.
Others(d) ==
  \A e \in Tasks \ {d} :
    /\ at'[e] = at[e] /\ direct'[e] = direct[e] /\ job'[e] = job[e]
    /\ acked'[e] = acked[e] /\ rows'[e] = rows[e] /\ reported'[e] = reported[e]

\* A step of one delivery concerns that delivery.
LEMMA Frame ==
  ASSUME IInv, NEW d \in Tasks, Others(d), Holds(d)'
  PROVE  \A e \in Tasks : Holds(e)'
  <1> SUFFICES ASSUME NEW e \in Tasks, e # d PROVE Holds(e)'
    OBVIOUS
  <1>1. Holds(e)
    BY DEF IInv
  <1> QED
    BY <1>1 DEF Others, Holds, NothingSent, DirectHolds, JobHolds, RowsHold, DirectRow, JobRow

-----------------------------------------------------------------------------
(* Places *)

\* A delivery that returns gives its slot to the head of the line, which stays in line
\* until its turn.
LEMMA ReturnPlaced ==
  ASSUME LimiterInv, IInv, NEW d \in Tasks, Return(d), phase \in {"up", "draining"},
         phase' = phase, at[d] # "line"
  PROVE  \A e \in Tasks : Placed(e)'
  <1>1. task \in [Tasks -> TaskStates] /\ at \in [Tasks -> Places] /\ task[d] = "running"
    BY DEF LimiterInv, LimiterTypeOK, IInv, Fields, Return, Settle
  <1>2. waiters # <<>> => Head(waiters) \in Tasks /\ task[Head(waiters)] = "parked"
    BY DEF LimiterInv, LimiterTypeOK
  <1> SUFFICES ASSUME NEW e \in Tasks PROVE Placed(e)'
    OBVIOUS
  <1>3. Placed(e) /\ Placed(d)
    BY DEF IInv
  <1>4. at'[e] = IF e = d THEN "done" ELSE at[e]
    BY <1>1 DEF Return, Move
  <1>5. CASE waiters = <<>>
    <2>1. task'[e] = IF e = d THEN "done" ELSE task[e]
      BY <1>1, <1>5 DEF Return, Settle, HandOver
    <2> QED
      BY <2>1, <1>3, <1>4 DEF Placed, InSlot
  <1>6. CASE waiters # <<>>
    <2>1. task'[e] = IF e = Head(waiters) THEN "resumed" ELSE IF e = d THEN "done" ELSE task[e]
      BY <1>1, <1>2, <1>6 DEF Return, Settle, HandOver
    <2> QED
      BY <2>1, <1>1, <1>2, <1>3, <1>4, <1>6 DEF Placed, InSlot
  <1> QED
    BY <1>5, <1>6

\* A delivery that moves on within its slot, or that never had one.
LEMMA MovePlaced ==
  ASSUME LimiterInv, IInv, NEW d \in Tasks, NEW l \in Places, Move(d, l), phase' = phase,
         task' = task, \/ at[d] \in InSlot /\ l \in InSlot
                       \/ at[d] \in Recording /\ l = "done"
  PROVE  \A e \in Tasks : Placed(e)'
  <1> SUFFICES ASSUME NEW e \in Tasks PROVE Placed(e)'
    OBVIOUS
  <1>1. Placed(e) /\ Placed(d)
    BY DEF IInv
  <1>2. at'[e] = IF e = d THEN l ELSE at[e]
    BY DEF Move, IInv, Fields
  <1> QED
    BY <1>1, <1>2 DEF Placed, InSlot, Recording

\* A delivery that is taken up, parked, rejected, or whose turn has come.
LEMMA DispatchPlaced ==
  ASSUME LimiterInv, IInv, NEW d \in Tasks, Dispatch(d) \/ Begin(d)
  PROVE  \A e \in Tasks : Placed(e)'
  <1>1. task \in [Tasks -> TaskStates] /\ at \in [Tasks -> Places] /\ phase' = phase
    BY DEF LimiterInv, LimiterTypeOK, IInv, Fields, Dispatch, Begin
  <1> SUFFICES ASSUME NEW e \in Tasks PROVE Placed(e)'
    OBVIOUS
  <1>2. Placed(e) /\ Placed(d)
    BY DEF IInv
  <1>3. CASE Begin(d)
    <2>1. at'[e] = (IF e = d THEN "preflight" ELSE at[e])
          /\ task'[e] = (IF e = d THEN "running" ELSE task[e])
      BY <1>1, <1>3 DEF Begin, Move, Resume
    <2> QED
      BY <2>1, <1>1, <1>2, <1>3 DEF Placed, InSlot, Begin
  <1>4. ASSUME NEW s \in {"running", "parked", "refused", "closed"}, Dispatch(d),
               task' = [task EXCEPT ![d] = s]
        PROVE  Placed(e)'
    <2>1. task'[e] = (IF e = d THEN s ELSE task[e]) /\ task'[d] = s
      BY <1>1, <1>4
    <2>2. at'[e] = IF e # d THEN at[e]
                   ELSE CASE s = "running" -> "preflight" [] s = "parked" -> "line"
                          [] s = "refused" -> "full" [] s = "closed" -> "shut"
      BY <1>1, <1>4, <2>1 DEF Dispatch, Move
    <2> QED
      BY <2>1, <2>2, <1>1, <1>2, <1>4 DEF Placed, InSlot, Dispatch
  <1>5. CASE Dispatch(d)
    BY <1>4, <1>5 DEF Dispatch, Run, Admit, Park, RefuseFull, RefuseClosed
  <1> QED
    BY <1>3, <1>5

-----------------------------------------------------------------------------
(* What each delivery keeps, step by step *)

\* The field of the job that JobTo sets.
LEMMA JobToType ==
  ASSUME Fields, NEW d \in Tasks, NEW l \in JobPlaces, JobTo(d, l)
  PROVE  /\ job' \in [Tasks -> [place : JobPlaces, made : Nat, stalls : 0..2, posts : Nat]]
         /\ job'[d].place = l /\ job'[d].made = job[d].made
         /\ job'[d].stalls = job[d].stalls /\ job'[d].posts = job[d].posts
         /\ \A e \in Tasks \ {d} : job'[e] = job[e]
  <1>1. job \in [Tasks -> [place : JobPlaces, made : Nat, stalls : 0..2, posts : Nat]]
    BY DEF Fields
  <1>2. job' = [job EXCEPT ![d] = [job[d] EXCEPT !.place = l]]
    BY <1>1 DEF JobTo
  <1> QED
    BY <1>1, <1>2

\* A dead letter is one row more, or a line in the log.
LEMMA RecordType ==
  ASSUME Fields, NEW d \in Tasks, RecordFailure(d)
  PROVE  /\ rows' \in [Tasks -> Nat] /\ reported' \in [Tasks -> BOOLEAN]
         /\ rows'[d] \in {rows[d], rows[d] + 1} /\ (rows'[d] > 0 \/ reported'[d])
         /\ reported[d] => reported'[d]
         /\ \A e \in Tasks \ {d} : rows'[e] = rows[e] /\ reported'[e] = reported[e]
  <1>1. CASE rows' = [rows EXCEPT ![d] = @ + 1] /\ UNCHANGED reported
    BY <1>1 DEF Fields
  <1>2. CASE Report(d) /\ UNCHANGED rows
    <2>1. rows' = rows /\ reported'[d] = TRUE /\ reported' \in [Tasks -> BOOLEAN]
          /\ \A e \in Tasks \ {d} : reported'[e] = reported[e]
      BY <1>2 DEF Fields, Report
    <2> QED
      BY <2>1 DEF Fields
  <1> QED
    BY <1>1, <1>2 DEF RecordFailure

\* A delivery moves to a place.
LEMMA MoveType ==
  ASSUME Fields, NEW d \in Tasks, NEW l \in Places, Move(d, l)
  PROVE  /\ at' \in [Tasks -> Places] /\ at'[d] = l
         /\ \A e \in Tasks \ {d} : at'[e] = at[e]
  BY DEF Fields, Move

\* Taken up, parked, rejected, or resumed.
LEMMA DispatchHolds ==
  ASSUME LimiterInv, IInv, NEW d \in Tasks, Dispatch(d) \/ Begin(d)
  PROVE  Fields' /\ \A e \in Tasks : Holds(e)'
  <1>1. Fields /\ Placed(d) /\ Holds(d) /\ task \in [Tasks -> TaskStates]
    BY DEF IInv, LimiterInv, LimiterTypeOK
  <1>2. PICK l \in {"preflight", "line", "full", "shut"} : Move(d, l)
    <2>1. CASE Begin(d)
      BY <2>1 DEF Begin
    <2>2. CASE Dispatch(d)
      <3>1. task'[d] \in {"running", "parked", "refused", "closed"}
        BY <1>1, <2>2 DEF Dispatch, Run, Admit, Park, RefuseFull, RefuseClosed
      <3> QED
        BY <2>2, <3>1 DEF Dispatch
    <2> QED
      BY <2>1, <2>2
  <1>3. at[d] \in {"new", "line"}
    BY <1>1 DEF Placed, Dispatch, Begin, Run, Admit, Park, RefuseFull, RefuseClosed
  <1>4. UNCHANGED <<queueEnabled, phase, direct, job, crashes, acked, rows, reported>>
    BY DEF Dispatch, Begin, jobVars
  <1>5. /\ at' \in [Tasks -> Places] /\ at'[d] = l
        /\ \A e \in Tasks \ {d} : at'[e] = at[e]
    BY <1>1, <1>2, MoveType DEF Places, InSlot, Recording
  <1>6. Fields' /\ Others(d)
    BY <1>1, <1>4, <1>5 DEF Fields, Others
  <1>7. Holds(d)'
    BY <1>1, <1>3, <1>4, <1>5 DEF Holds, NothingSent, DirectHolds, JobHolds, RowsHold,
       DirectRow, JobRow, Untried, Trying, Recording
  <1> QED
    BY <1>6, <1>7, Frame

\* Cancelled, refused, or on to a transport.
LEMMA PreflightHolds ==
  ASSUME LimiterInv, IInv, NEW d \in Tasks, Preflight(d)
  PROVE  Fields' /\ \A e \in Tasks : Holds(e)'
  <1>1. Fields /\ Holds(d) /\ at[d] = "preflight"
    BY DEF IInv, Preflight
  <1>2. UNCHANGED <<queueEnabled, phase, job, crashes, acked, rows>>
    BY DEF Preflight, jobVars
  <1>3. PICK l \in {"done", "refuse", "add", "post"} :
          /\ Move(d, l)
          /\ IF l = "done" THEN Report(d) ELSE UNCHANGED reported
          /\ IF l = "post" THEN direct' = [direct EXCEPT ![d] = 1] ELSE UNCHANGED direct
    BY DEF Preflight, Return
  <1>4. /\ at' \in [Tasks -> Places] /\ at'[d] = l
        /\ \A e \in Tasks \ {d} : at'[e] = at[e]
    BY <1>1, <1>3, MoveType DEF Places, InSlot
  <1>5. /\ reported' \in [Tasks -> BOOLEAN] /\ direct' \in [Tasks -> Nat]
        /\ \A e \in Tasks \ {d} : reported'[e] = reported[e] /\ direct'[e] = direct[e]
        /\ l = "done" => reported'[d]
        /\ direct'[d] = IF l = "post" THEN 1 ELSE 0
    <2>1. /\ direct' \in [Tasks -> Nat] /\ \A e \in Tasks \ {d} : direct'[e] = direct[e]
          /\ direct'[d] = IF l = "post" THEN 1 ELSE 0
      BY <1>1, <1>3 DEF Fields, Holds, NothingSent, Untried
    <2>2. CASE l = "done"
      <3>1. reported' = [reported EXCEPT ![d] = TRUE] /\ reported \in [Tasks -> BOOLEAN]
        BY <1>1, <1>3, <2>2 DEF Fields, Report
      <3>2. reported'[d] /\ \A e \in Tasks \ {d} : reported'[e] = reported[e]
        BY <3>1
      <3> QED
        BY <2>1, <3>1, <3>2
    <2>3. CASE l # "done"
      BY <1>1, <1>3, <2>1, <2>3 DEF Fields
    <2> QED
      BY <2>2, <2>3
  <1>6. Fields' /\ Others(d)
    BY <1>1, <1>2, <1>4, <1>5 DEF Fields, Others
  <1>7. Holds(d)'
    <2>1. reported[d] => reported'[d]
      BY <1>1, <1>3, <1>5 DEF Report, Fields
    <2> QED
      BY <1>1, <1>2, <1>4, <1>5, <2>1, AttemptsType DEF Holds, NothingSent, DirectHolds,
         JobHolds, RowsHold, DirectRow, JobRow, Untried, Trying, Recording, Active
  <1> QED
    BY <1>6, <1>7, Frame

\* Refused, or rejected by the limiter: recorded, and over.
LEMMA UndeliveredHolds ==
  ASSUME LimiterInv, IInv, NEW d \in Tasks, RecordUndelivered(d)
  PROVE  Fields' /\ \A e \in Tasks : Holds(e)'
  <1>1. Fields /\ Holds(d) /\ at[d] \in {"refuse"} \cup Recording
    BY DEF IInv, RecordUndelivered
  <1>2. UNCHANGED <<queueEnabled, phase, direct, job, crashes, acked>>
    BY DEF RecordUndelivered, jobVars
  <1>3. /\ at' \in [Tasks -> Places] /\ at'[d] = "done"
        /\ \A e \in Tasks \ {d} : at'[e] = at[e]
    BY <1>1, MoveType DEF RecordUndelivered, Return, Places, InSlot
  <1>4. /\ rows' \in [Tasks -> Nat] /\ reported' \in [Tasks -> BOOLEAN]
        /\ rows'[d] \in {rows[d], rows[d] + 1} /\ (rows'[d] > 0 \/ reported'[d])
        /\ reported[d] => reported'[d]
        /\ \A e \in Tasks \ {d} : rows'[e] = rows[e] /\ reported'[e] = reported[e]
    BY <1>1, RecordType DEF RecordUndelivered
  <1>5. Fields' /\ Others(d)
    BY <1>1, <1>2, <1>3, <1>4 DEF Fields, Others
  <1>6. Holds(d)'
    BY <1>1, <1>2, <1>3, <1>4 DEF Holds, NothingSent, DirectHolds, JobHolds, RowsHold,
       DirectRow, JobRow, Untried, Trying, Recording, Active
  <1> QED
    BY <1>5, <1>6, Frame

\* Queued, or back on the direct path, with or without a job.
LEMMA EnqueueHolds ==
  ASSUME LimiterInv, IInv, NEW d \in Tasks, Enqueue(d)
  PROVE  Fields' /\ \A e \in Tasks : Holds(e)'
  <1>1. Fields /\ Holds(d) /\ at[d] = "add"
    BY DEF IInv, Enqueue
  <1>2. UNCHANGED <<queueEnabled, phase, crashes, acked, rows, reported>>
    BY DEF Enqueue
  <1>3. PICK l \in {"done", "post"} :
          /\ Move(d, l)
          /\ l = "done" => JobTo(d, "waiting")
          /\ IF l = "post" THEN direct' = [direct EXCEPT ![d] = 1] ELSE UNCHANGED direct
    BY DEF Enqueue, Return, Accepted
  <1>4. /\ at' \in [Tasks -> Places] /\ at'[d] = l
        /\ \A e \in Tasks \ {d} : at'[e] = at[e]
    BY <1>1, <1>3, MoveType DEF Places, InSlot
  <1>5. JobTo(d, "waiting") \/ UNCHANGED job
    BY DEF Enqueue, Accepted
  <1>6. /\ job' \in [Tasks -> [place : JobPlaces, made : Nat, stalls : 0..2, posts : Nat]]
        /\ job'[d].place = "waiting" \/ (job' = job /\ l = "post")
        /\ job'[d].made = job[d].made /\ job'[d].stalls = job[d].stalls
        /\ job'[d].posts = job[d].posts
        /\ \A e \in Tasks \ {d} : job'[e] = job[e]
    BY <1>1, <1>3, <1>5, JobToType DEF JobPlaces, Fields
  <1>7. /\ direct' \in [Tasks -> Nat] /\ \A e \in Tasks \ {d} : direct'[e] = direct[e]
        /\ direct'[d] = IF l = "post" THEN 1 ELSE 0
    BY <1>1, <1>3 DEF Fields, Holds, NothingSent, Untried
  <1>8. Fields' /\ Others(d)
    BY <1>1, <1>2, <1>4, <1>6, <1>7 DEF Fields, Others
  <1>9. Holds(d)'
    BY <1>1, <1>2, <1>4, <1>6, <1>7, AttemptsType DEF Holds, NothingSent, DirectHolds,
       JobHolds, RowsHold, DirectRow, JobRow, Untried, Trying, Recording, Active
  <1> QED
    BY <1>8, <1>9, Frame

\* A POST was answered: 2xx, or the attempt failed.
LEMMA AnsweredHolds ==
  ASSUME LimiterInv, IInv, NEW d \in Tasks, Answered(d)
  PROVE  Fields' /\ \A e \in Tasks : Holds(e)'
  <1>1. Fields /\ Holds(d) /\ at[d] = "post"
    BY DEF IInv, Answered
  <1>2. UNCHANGED <<queueEnabled, phase, direct, job, crashes, rows, reported>>
    BY DEF Answered, jobVars
  <1>3. CASE acked' = [acked EXCEPT ![d] = @ \cup {"direct"}] /\ Move(d, "touch")
    <2>1. /\ at' \in [Tasks -> Places] /\ at'[d] = "touch"
          /\ \A e \in Tasks \ {d} : at'[e] = at[e]
      BY <1>1, <1>3, MoveType DEF Places, InSlot
    <2>2. /\ acked' \in [Tasks -> SUBSET {"direct", "job"}]
          /\ acked'[d] = acked[d] \cup {"direct"}
          /\ \A e \in Tasks \ {d} : acked'[e] = acked[e]
      BY <1>1, <1>3 DEF Fields
    <2>3. Fields' /\ Others(d)
      BY <1>1, <1>2, <2>1, <2>2 DEF Fields, Others
    <2>4. rows[d] = 0 \/ job[d].place # "none"
      BY <1>1 DEF Holds, DirectHolds, JobHolds, RowsHold, DirectRow, JobRow, Fields
    <2>5. Holds(d)'
      BY <1>1, <1>2, <2>1, <2>2, <2>4 DEF Holds, NothingSent, DirectHolds, JobHolds, RowsHold,
         DirectRow, JobRow, Untried, Trying, Recording
    <2> QED
      BY <2>3, <2>5, Frame
  <1>4. CASE Move(d, IF MayRetry(d) THEN "backoff" ELSE "file") /\ UNCHANGED acked
    <2>1. PICK l \in {"backoff", "file"} : Move(d, l) /\ (l = "backoff" => MayRetry(d))
      BY <1>4
    <2>2. /\ at' \in [Tasks -> Places] /\ at'[d] = l
          /\ \A e \in Tasks \ {d} : at'[e] = at[e]
      BY <1>1, <2>1, MoveType DEF Places, InSlot
    <2>3. Fields' /\ Others(d)
      BY <1>1, <1>2, <1>4, <2>2 DEF Fields, Others
    <2>4. Holds(d)'
      BY <1>1, <1>2, <1>4, <2>1, <2>2 DEF MayRetry, Holds, NothingSent, DirectHolds, JobHolds,
         RowsHold, DirectRow, JobRow, Untried, Trying, Recording
    <2> QED
      BY <2>3, <2>4, Frame
  <1> QED
    BY <1>3, <1>4 DEF Answered

\* Received, and over.
LEMMA TouchHolds ==
  ASSUME LimiterInv, IInv, NEW d \in Tasks, Touch(d)
  PROVE  Fields' /\ \A e \in Tasks : Holds(e)'
  <1>1. Fields /\ Holds(d) /\ at[d] = "touch"
    BY DEF IInv, Touch
  <1>2. UNCHANGED <<queueEnabled, phase, direct, job, crashes, acked, rows, reported>>
    BY DEF Touch, jobVars
  <1>3. /\ at' \in [Tasks -> Places] /\ at'[d] = "done"
        /\ \A e \in Tasks \ {d} : at'[e] = at[e]
    BY <1>1, MoveType DEF Touch, Return, Places
  <1>4. Fields' /\ Others(d)
    BY <1>1, <1>2, <1>3 DEF Fields, Others
  <1>5. Holds(d)'
    BY <1>1, <1>2, <1>3 DEF Fields, Holds, NothingSent, DirectHolds, JobHolds, RowsHold, DirectRow,
       JobRow, Untried, Trying, Recording
  <1> QED
    BY <1>4, <1>5, Frame

\* The next attempt, of those that are left.
LEMMA RetryHolds ==
  ASSUME LimiterInv, IInv, NEW d \in Tasks, Retry(d)
  PROVE  Fields' /\ \A e \in Tasks : Holds(e)'
  <1>1. Fields /\ Holds(d) /\ at[d] = "backoff"
    BY DEF IInv, Retry
  <1>2. UNCHANGED <<queueEnabled, phase, job, crashes, acked, rows, reported>>
    BY DEF Retry, jobVars
  <1>3. /\ at' \in [Tasks -> Places] /\ at'[d] = "post"
        /\ \A e \in Tasks \ {d} : at'[e] = at[e]
    BY <1>1, MoveType DEF Retry, Places, InSlot
  <1>4. /\ direct' \in [Tasks -> Nat] /\ direct'[d] = direct[d] + 1
        /\ \A e \in Tasks \ {d} : direct'[e] = direct[e]
    BY <1>1 DEF Retry, Fields
  <1>5. Fields' /\ Others(d)
    BY <1>1, <1>2, <1>3, <1>4 DEF Fields, Others
  <1>6. direct[d] \in Nat /\ direct[d] < Attempts
    BY <1>1, AttemptsType DEF Fields, Holds, DirectHolds
  <1>7. Holds(d)'
    BY <1>1, <1>2, <1>3, <1>4, <1>6, AttemptsType DEF Holds, NothingSent, DirectHolds,
       JobHolds, RowsHold, DirectRow, JobRow, Untried, Trying, Recording
  <1> QED
    BY <1>5, <1>7, Frame

\* Given up: recorded, and over.
LEMMA FileHolds ==
  ASSUME LimiterInv, IInv, NEW d \in Tasks, File(d)
  PROVE  Fields' /\ \A e \in Tasks : Holds(e)'
  <1>1. Fields /\ Holds(d) /\ at[d] = "file"
    BY DEF IInv, File
  <1>2. UNCHANGED <<queueEnabled, phase, direct, job, crashes, acked>>
    BY DEF File, jobVars
  <1>3. /\ at' \in [Tasks -> Places] /\ at'[d] = "done"
        /\ \A e \in Tasks \ {d} : at'[e] = at[e]
    BY <1>1, MoveType DEF File, Return, Places
  <1>4. /\ rows' \in [Tasks -> Nat] /\ reported' \in [Tasks -> BOOLEAN]
        /\ rows'[d] \in {rows[d], rows[d] + 1} /\ (rows'[d] > 0 \/ reported'[d])
        /\ reported[d] => reported'[d]
        /\ \A e \in Tasks \ {d} : rows'[e] = rows[e] /\ reported'[e] = reported[e]
    BY <1>1, RecordType DEF File
  <1>5. Fields' /\ Others(d)
    BY <1>1, <1>2, <1>3, <1>4 DEF Fields, Others
  <1>6. rows[d] \in Nat /\ direct[d] \in Nat /\ job[d].stalls \in 0..2
    BY <1>1 DEF Fields
  <1>7. Holds(d)'
    BY <1>1, <1>2, <1>3, <1>4, <1>6 DEF Holds, NothingSent, DirectHolds, JobHolds, RowsHold,
       DirectRow, JobRow, Untried, Trying, Recording
  <1> QED
    BY <1>5, <1>7, Frame

\* A job moves on with one count changed.
LEMMA JobCountType ==
  ASSUME NEW j \in [place : JobPlaces, made : Nat, stalls : 0..2, posts : Nat],
         NEW l \in JobPlaces, NEW n \in Nat, NEW s \in 0..2
  PROVE  /\ [j EXCEPT !.place = l, !.posts = n]
              \in [place : JobPlaces, made : Nat, stalls : 0..2, posts : Nat]
         /\ [j EXCEPT !.place = l, !.made = n]
              \in [place : JobPlaces, made : Nat, stalls : 0..2, posts : Nat]
         /\ [j EXCEPT !.place = l, !.stalls = s]
              \in [place : JobPlaces, made : Nat, stalls : 0..2, posts : Nat]
  OBVIOUS

\* The worker takes a job up.
LEMMA ProcessHolds ==
  ASSUME LimiterInv, IInv, NEW d \in Tasks, Process(d)
  PROVE  Fields' /\ \A e \in Tasks : Holds(e)'
  <1>1. Fields /\ Holds(d) /\ job[d].place = "waiting"
        /\ job \in [Tasks -> [place : JobPlaces, made : Nat, stalls : 0..2, posts : Nat]]
    BY DEF IInv, Process, Fields
  <1>2. UNCHANGED <<queueEnabled, phase, at, direct, crashes, acked, rows, reported>>
    BY DEF Process, dispatchVars
  <1>3. PICK j \in [place : JobPlaces, made : Nat, stalls : 0..2, posts : Nat] :
          /\ job' = [job EXCEPT ![d] = j] /\ j.place = "posting" /\ j.made = job[d].made
          /\ j.stalls = job[d].stalls /\ j.posts = job[d].posts + 1
    <2> DEFINE j == [job[d] EXCEPT !.place = "posting", !.posts = job[d].posts + 1]
    <2>1. job' = [job EXCEPT ![d] = j]
      BY <1>1 DEF Process
    <2>2. job[d] \in [place : JobPlaces, made : Nat, stalls : 0..2, posts : Nat]
          /\ "posting" \in JobPlaces
      BY <1>1 DEF JobPlaces, Active
    <2>3. j \in [place : JobPlaces, made : Nat, stalls : 0..2, posts : Nat]
          /\ j.place = "posting" /\ j.made = job[d].made
          /\ j.stalls = job[d].stalls /\ j.posts = job[d].posts + 1
      <3>1. job[d].posts + 1 \in Nat
        BY <2>2
      <3>2. j \in [place : JobPlaces, made : Nat, stalls : 0..2, posts : Nat]
        BY <2>2, <3>1, JobCountType
      <3> QED
        BY <2>2, <3>2
    <2> QED
      BY <2>1, <2>3
  <1>4. /\ job' \in [Tasks -> [place : JobPlaces, made : Nat, stalls : 0..2, posts : Nat]]
        /\ job'[d].place = "posting" /\ job'[d].made = job[d].made
        /\ job'[d].stalls = job[d].stalls /\ job'[d].posts = job[d].posts + 1
        /\ \A e \in Tasks \ {d} : job'[e] = job[e]
    BY <1>1, <1>3
  <1>5. Fields' /\ Others(d)
    BY <1>1, <1>2, <1>4 DEF Fields, Others
  <1>6. Holds(d)'
    BY <1>1, <1>2, <1>4 DEF Fields, Holds, NothingSent, DirectHolds, JobHolds, RowsHold,
       DirectRow, JobRow, Active
  <1> QED
    BY <1>5, <1>6, Frame

\* Its POST was answered.
LEMMA JobAnsweredHolds ==
  ASSUME LimiterInv, IInv, NEW d \in Tasks, JobAnswered(d)
  PROVE  Fields' /\ \A e \in Tasks : Holds(e)'
  <1>1. Fields /\ Holds(d) /\ job[d].place = "posting"
        /\ job \in [Tasks -> [place : JobPlaces, made : Nat, stalls : 0..2, posts : Nat]]
    BY DEF IInv, JobAnswered, Fields
  <1>2. UNCHANGED <<queueEnabled, phase, at, direct, crashes, rows, reported>>
    BY DEF JobAnswered, dispatchVars
  <1>3. CASE acked' = [acked EXCEPT ![d] = @ \cup {"job"}] /\ JobTo(d, "touching")
    <2>1. /\ job' \in [Tasks -> [place : JobPlaces, made : Nat, stalls : 0..2, posts : Nat]]
          /\ job'[d].place = "touching" /\ job'[d].made = job[d].made
          /\ job'[d].stalls = job[d].stalls /\ job'[d].posts = job[d].posts
          /\ \A e \in Tasks \ {d} : job'[e] = job[e]
      BY <1>1, <1>3, JobToType DEF JobPlaces, Active
    <2>2. /\ acked' \in [Tasks -> SUBSET {"direct", "job"}]
          /\ acked'[d] = acked[d] \cup {"job"}
          /\ \A e \in Tasks \ {d} : acked'[e] = acked[e]
      BY <1>1, <1>3 DEF Fields
    <2>3. Fields' /\ Others(d)
      BY <1>1, <1>2, <2>1, <2>2 DEF Fields, Others
    <2>4. Holds(d)'
      BY <1>1, <1>2, <2>1, <2>2 DEF Holds, NothingSent, DirectHolds, JobHolds, RowsHold,
         DirectRow, JobRow, Active
    <2> QED
      BY <2>3, <2>4, Frame
  <1>4. CASE JobTo(d, "filing") /\ UNCHANGED acked
    <2>1. /\ job' \in [Tasks -> [place : JobPlaces, made : Nat, stalls : 0..2, posts : Nat]]
          /\ job'[d].place = "filing" /\ job'[d].made = job[d].made
          /\ job'[d].stalls = job[d].stalls /\ job'[d].posts = job[d].posts
          /\ \A e \in Tasks \ {d} : job'[e] = job[e]
      BY <1>1, <1>4, JobToType DEF JobPlaces, Active
    <2>2. Fields' /\ Others(d)
      BY <1>1, <1>2, <1>4, <2>1 DEF Fields, Others
    <2>3. Holds(d)'
      BY <1>1, <1>2, <1>4, <2>1 DEF Holds, NothingSent, DirectHolds, JobHolds, RowsHold,
         DirectRow, JobRow, Active
    <2> QED
      BY <2>2, <2>3, Frame
  <1>5. CASE /\ ~IsFinalAttempt(d)
             /\ job' = [job EXCEPT ![d].place = "delayed", ![d].made = @ + 1]
             /\ UNCHANGED acked
    <2>1. PICK j \in [place : JobPlaces, made : Nat, stalls : 0..2, posts : Nat] :
            /\ job' = [job EXCEPT ![d] = j] /\ j.place = "delayed" /\ j.made = job[d].made + 1
            /\ j.stalls = job[d].stalls /\ j.posts = job[d].posts
      <3> DEFINE j == [job[d] EXCEPT !.place = "delayed", !.made = job[d].made + 1]
      <3>1. job' = [job EXCEPT ![d] = j]
        BY <1>1, <1>5
      <3>2. job[d] \in [place : JobPlaces, made : Nat, stalls : 0..2, posts : Nat]
            /\ "delayed" \in JobPlaces
        BY <1>1 DEF JobPlaces
      <3>3. j \in [place : JobPlaces, made : Nat, stalls : 0..2, posts : Nat]
            /\ j.place = "delayed" /\ j.made = job[d].made + 1
            /\ j.stalls = job[d].stalls /\ j.posts = job[d].posts
        <4>1. j \in [place : JobPlaces, made : Nat, stalls : 0..2, posts : Nat]
          <5>1. job[d].made + 1 \in Nat
            BY <3>2
          <5> QED
            BY <3>2, <5>1, JobCountType
        <4> QED
          BY <3>2, <4>1
      <3> QED
        BY <3>1, <3>3
    <2>2. /\ job' \in [Tasks -> [place : JobPlaces, made : Nat, stalls : 0..2, posts : Nat]]
          /\ job'[d].place = "delayed" /\ job'[d].made = job[d].made + 1
          /\ job'[d].stalls = job[d].stalls /\ job'[d].posts = job[d].posts
          /\ \A e \in Tasks \ {d} : job'[e] = job[e]
      BY <1>1, <2>1
    <2>3. job[d].made + 1 < RetryCount
      BY <1>1, <1>5, AttemptsType DEF IsFinalAttempt
    <2>4. Fields' /\ Others(d)
      BY <1>1, <1>2, <1>5, <2>2 DEF Fields, Others
    <2>5. Holds(d)'
      BY <1>1, <1>2, <1>5, <2>2, <2>3, AttemptsType DEF Holds, NothingSent, DirectHolds,
         JobHolds, RowsHold, DirectRow, JobRow, Active
    <2> QED
      BY <2>4, <2>5, Frame
  <1> QED
    BY <1>3, <1>4, <1>5 DEF JobAnswered

\* A dead letter of the worker, on the final attempt or for a job that stalled too often.
LEMMA JobRecordedHolds ==
  ASSUME LimiterInv, IInv, NEW d \in Tasks, JobFiles(d) \/ StallRecorded(d)
  PROVE  Fields' /\ \A e \in Tasks : Holds(e)'
  <1>1. Fields /\ Holds(d)
    BY DEF IInv
  <1>2. UNCHANGED <<queueEnabled, phase, at, direct, crashes, acked>>
    BY DEF JobFiles, StallRecorded, dispatchVars
  <1>3. PICK l \in {"filed", "failed"} :
          JobTo(d, l) /\ job[d].place = IF l = "filed" THEN "filing" ELSE "failing"
    BY DEF JobFiles, StallRecorded
  <1>4. /\ job' \in [Tasks -> [place : JobPlaces, made : Nat, stalls : 0..2, posts : Nat]]
        /\ job'[d].place = l /\ job'[d].made = job[d].made
        /\ job'[d].stalls = job[d].stalls /\ job'[d].posts = job[d].posts
        /\ \A e \in Tasks \ {d} : job'[e] = job[e]
    BY <1>1, <1>3, JobToType DEF JobPlaces, Active
  <1>5. /\ rows' \in [Tasks -> Nat] /\ reported' \in [Tasks -> BOOLEAN]
        /\ rows'[d] \in {rows[d], rows[d] + 1} /\ (rows'[d] > 0 \/ reported'[d])
        /\ reported[d] => reported'[d]
        /\ \A e \in Tasks \ {d} : rows'[e] = rows[e] /\ reported'[e] = reported[e]
    BY <1>1, RecordType DEF JobFiles, StallRecorded
  <1>6. Fields' /\ Others(d)
    BY <1>1, <1>2, <1>4, <1>5 DEF Fields, Others
  <1>7. rows[d] \in Nat /\ job[d].stalls \in 0..2
    BY <1>1 DEF Fields
  <1>8. Holds(d)'
    BY <1>1, <1>2, <1>3, <1>4, <1>5, <1>7 DEF Holds, NothingSent, DirectHolds, JobHolds,
       RowsHold, DirectRow, JobRow, Active
  <1> QED
    BY <1>6, <1>8, Frame

\* BullMQ moves a job.
LEMMA JobMovesHolds ==
  ASSUME LimiterInv, IInv, NEW d \in Tasks, JobMoves(d)
  PROVE  Fields' /\ \A e \in Tasks : Holds(e)'
  <1>1. Fields /\ Holds(d)
    BY DEF IInv
  <1>2. UNCHANGED <<queueEnabled, phase, at, direct, crashes, acked, rows, reported>>
    BY DEF JobMoves, dispatchVars
  <1>3. PICK l \in {"completed", "failed", "failing", "waiting"} :
          /\ JobTo(d, l)
          /\ job[d].place = CASE l = "completed" -> "touching" [] l = "failed" -> "filed"
                              [] l = "failing" -> "exhausted" [] l = "waiting" -> "delayed"
    BY DEF JobMoves, OnFailed
  <1>4. /\ job' \in [Tasks -> [place : JobPlaces, made : Nat, stalls : 0..2, posts : Nat]]
        /\ job'[d].place = l /\ job'[d].made = job[d].made
        /\ job'[d].stalls = job[d].stalls /\ job'[d].posts = job[d].posts
        /\ \A e \in Tasks \ {d} : job'[e] = job[e]
    BY <1>1, <1>3, JobToType DEF JobPlaces
  <1>5. Fields' /\ Others(d)
    BY <1>1, <1>2, <1>4 DEF Fields, Others
  <1>6. Holds(d)'
    BY <1>1, <1>2, <1>3, <1>4 DEF Holds, NothingSent, DirectHolds, JobHolds, RowsHold,
       DirectRow, JobRow, Active
  <1> QED
    BY <1>5, <1>6, Frame

\* The limiter is closed: parked deliveries go to their catch.
LEMMA ShutDownHolds ==
  ASSUME LimiterInv, IInv, ShutDown
  PROVE  Fields' /\ \A e \in Tasks : Placed(e)' /\ Holds(e)'
  <1>1. Fields /\ task \in [Tasks -> TaskStates]
    BY DEF IInv, LimiterInv, LimiterTypeOK
  <1>2. UNCHANGED <<queueEnabled, direct, job, crashes, acked, rows, reported>>
        /\ phase = "up" /\ phase' = "draining"
    BY DEF ShutDown, jobVars
  <1>3. \/ UNCHANGED <<task, at>>
        \/ \A e \in Tasks : IF task[e] = "parked" THEN task'[e] = "closed" /\ at'[e] = "shut"
                            ELSE task'[e] = task[e] /\ at'[e] = at[e]
    BY <1>1 DEF ShutDown, Close, limiterVars
  <1>4. Fields'
    BY <1>1, <1>2 DEF Fields, ShutDown, Places, Recording
  <1> SUFFICES ASSUME NEW e \in Tasks PROVE Placed(e)' /\ Holds(e)'
    BY <1>4
  <1>5. Placed(e) /\ Holds(e)
    BY DEF IInv
  <1>6. Placed(e)'
    BY <1>2, <1>3, <1>5 DEF Placed, InSlot
  <1>7. Holds(e)'
    BY <1>1, <1>2, <1>3, <1>5 DEF Placed, Holds, NothingSent, DirectHolds, JobHolds, RowsHold,
       DirectRow, JobRow, Untried, Trying, Recording
  <1> QED
    BY <1>6, <1>7

\* The process exits: what is in flight is abandoned, and in the log.
LEMMA ExitHolds ==
  ASSUME LimiterInv, IInv, Exit
  PROVE  Fields' /\ \A e \in Tasks : Placed(e)' /\ Holds(e)'
  <1>1. Fields
    BY DEF IInv
  <1>2. UNCHANGED <<queueEnabled, direct, job, crashes, acked, rows, task>>
        /\ phase = "draining" /\ phase' = "down"
    BY DEF Exit, jobVars, limiterVars
  <1>3. \A e \in Tasks : /\ reported'[e] = (reported[e] \/ at[e] \in InSlot)
                         /\ at'[e] = IF at[e] \in {"new", "done"} THEN at[e] ELSE "exited"
    BY DEF Exit
  <1>4. reported' \in [Tasks -> BOOLEAN]
    BY DEF Exit
  <1>5. at' \in [Tasks -> Places]
    BY <1>1 DEF Exit, Fields, Places
  <1>6. Fields'
    BY <1>1, <1>2, <1>4, <1>5 DEF Fields
  <1> SUFFICES ASSUME NEW e \in Tasks PROVE Placed(e)' /\ Holds(e)'
    BY <1>6
  <1>7. Holds(e)
    BY DEF IInv
  <1>8. Placed(e)'
    BY <1>2, <1>3 DEF Placed
  <1>9. Holds(e)'
    BY <1>1, <1>2, <1>3, <1>7 DEF Holds, NothingSent, DirectHolds, JobHolds, RowsHold,
       DirectRow, JobRow, Untried, Trying, Recording
  <1> QED
    BY <1>8, <1>9

\* What a dying worker leaves of a job.
LEMMA StalledType ==
  ASSUME NEW j \in [place : JobPlaces, made : Nat, stalls : 0..2, posts : Nat],
         j.place \in Active => j.stalls <= 1
  PROVE  /\ Stalled(j) \in [place : JobPlaces, made : Nat, stalls : 0..2, posts : Nat]
         /\ Stalled(j).made = j.made /\ Stalled(j).posts = j.posts
         /\ \/ Stalled(j).place = j.place /\ Stalled(j).stalls = j.stalls /\ j.place \notin Active
            \/ /\ j.place \in Active /\ j.stalls = 0
               /\ Stalled(j).place = "waiting" /\ Stalled(j).stalls = 1
            \/ /\ j.place \in Active /\ j.stalls = 1
               /\ Stalled(j).place = "exhausted" /\ Stalled(j).stalls = 2
            \/ j.place = "failing" /\ Stalled(j).place = "unrecorded" /\ Stalled(j).stalls = j.stalls
  <1>0. "waiting" \in JobPlaces /\ "exhausted" \in JobPlaces /\ "unrecorded" \in JobPlaces
        /\ "failing" \notin Active
    BY DEF JobPlaces, Active
  <1>1. CASE j.place \in Active /\ j.stalls = 0
    <2>1. ~(j.place \in Active /\ j.stalls > 0) /\ j.place # "failing"
      BY <1>0, <1>1
    <2>2. Stalled(j) = [j EXCEPT !.place = "waiting", !.stalls = 1]
      BY <1>1, <2>1, Zenon DEF Stalled
    <2>3. Stalled(j) \in [place : JobPlaces, made : Nat, stalls : 0..2, posts : Nat]
      <3>1. 1 \in 0..2
        OBVIOUS
      <3> QED
        BY <2>2, <3>1, <1>0, JobCountType
    <2> QED
      BY <2>2, <2>3, <1>1
  <1>2. CASE j.place \in Active /\ j.stalls # 0
    <2>1. j.stalls = 1 /\ j.stalls > 0 /\ ~(j.place \in Active /\ j.stalls = 0)
          /\ j.place # "failing"
      BY <1>0, <1>2
    <2>2. Stalled(j) = [j EXCEPT !.place = "exhausted", !.stalls = j.stalls + 1]
      BY <1>2, <2>1, Zenon DEF Stalled
    <2>3. j.stalls + 1 \in 0..2
      BY <2>1
    <2>4. Stalled(j) \in [place : JobPlaces, made : Nat, stalls : 0..2, posts : Nat]
      BY <2>2, <2>3, <1>0, JobCountType
    <2> QED
      BY <2>1, <2>2, <2>4, <1>2
  <1>3. CASE j.place = "failing"
    <2>1. Stalled(j) = [j EXCEPT !.place = "unrecorded"]
      BY <1>0, <1>3 DEF Stalled
    <2> QED
      BY <2>1, <1>0, <1>3
  <1>4. CASE j.place \notin Active /\ j.place # "failing"
    <2>1. Stalled(j) = j
      BY <1>4 DEF Stalled
    <2> QED
      BY <2>1, <1>4
  <1> QED
    BY <1>1, <1>2, <1>3, <1>4

\* The process dies, with its worker.
LEMMA CrashHolds ==
  ASSUME LimiterInv, IInv, Crash
  PROVE  Fields' /\ \A e \in Tasks : Placed(e)' /\ Holds(e)'
  <1>1. Fields /\ \A e \in Tasks : Placed(e) /\ Holds(e)
    BY DEF IInv
  <1>2. UNCHANGED <<queueEnabled, direct, acked, rows, reported, task>>
        /\ job' = [e \in Tasks |-> Stalled(job[e])] /\ crashes' \in 0..MaxCrashes
    BY <1>1, WebhookAssumption DEF Crash, limiterVars, Fields
  <1>3. \A e \in Tasks :
          /\ job[e] \in [place : JobPlaces, made : Nat, stalls : 0..2, posts : Nat]
          /\ job[e].place \in Active => job[e].stalls <= 1
    BY <1>1 DEF Fields, Holds, JobHolds
  <1>4. job' \in [Tasks -> [place : JobPlaces, made : Nat, stalls : 0..2, posts : Nat]]
    BY <1>2, <1>3, StalledType
  <1>5. \A e \in Tasks : at'[e] = at[e] \/ (at'[e] = "crashed" /\ at[e] \notin {"new", "done"})
    BY <1>1 DEF Crash
  <1>6. Fields'
    BY <1>1, <1>2, <1>4 DEF Fields, Crash, Places
  <1> SUFFICES ASSUME NEW e \in Tasks PROVE Placed(e)' /\ Holds(e)'
    BY <1>6
  <1>7. Placed(e)'
    BY <1>1 DEF Placed, Crash, Fields
  <1>8. /\ job'[e].made = job[e].made /\ job'[e].posts = job[e].posts
        /\ job[e].stalls \in 0..2 /\ job[e].made \in Nat /\ job[e].posts \in Nat
        /\ \/ job'[e].place = job[e].place /\ job'[e].stalls = job[e].stalls
           \/ /\ job[e].place \in Active /\ job[e].stalls = 0
              /\ job'[e].place = "waiting" /\ job'[e].stalls = 1
           \/ /\ job[e].place \in Active /\ job[e].stalls = 1
              /\ job'[e].place = "exhausted" /\ job'[e].stalls = 2
           \/ /\ job[e].place = "failing"
              /\ job'[e].place = "unrecorded" /\ job'[e].stalls = job[e].stalls
    BY <1>2, <1>3, StalledType
  <1>9. rows[e] \in Nat /\ direct[e] \in Nat
    BY <1>1 DEF Fields
  <1>10. Holds(e)'
    BY <1>1, <1>2, <1>5, <1>8, <1>9 DEF Holds, NothingSent, DirectHolds, JobHolds, RowsHold,
       DirectRow, JobRow, Untried, Trying, Recording, Active
  <1> QED
    BY <1>7, <1>10

-----------------------------------------------------------------------------
(* The invariant *)

\* A delivery moves about while the process is up.
LEMMA StepPlaced ==
  ASSUME LimiterInv, IInv, NEW d \in Tasks, DeliveryStep(d)
  PROVE  \A e \in Tasks : Placed(e)'
  <1>1. phase' = phase
    BY DEF DeliveryStep, Begin, Preflight, RecordUndelivered, Enqueue, Answered, Touch, Retry, File
  <1>2. at[d] \in {"line"} \cup InSlot \cup Recording
    BY DEF DeliveryStep, Begin, Preflight, RecordUndelivered, Enqueue, Answered, Touch, Retry,
       File, InSlot
  <1>3. phase \in {"up", "draining"}
    BY <1>2 DEF IInv, Placed, InSlot, Recording
  <1>4. CASE Begin(d)
    BY <1>4, DispatchPlaced
  <1>5. CASE Return(d)
    BY <1>1, <1>3, <1>5, ReturnPlaced DEF IInv, Placed, Return, Settle
  <1>6. CASE ~Begin(d) /\ ~Return(d)
    <2>1. /\ task' = task
          /\ \E l \in Places : /\ Move(d, l)
                               /\ \/ at[d] \in InSlot /\ l \in InSlot
                                  \/ at[d] \in Recording /\ l = "done"
      BY <1>6 DEF DeliveryStep, Preflight, RecordUndelivered, Enqueue, Answered, Touch, Retry,
         File, InSlot, Places, Recording, limiterVars
    <2> QED
      BY <2>1, <1>1, MovePlaced
  <1> QED
    BY <1>4, <1>5, <1>6

\* A step of a job leaves the deliveries where they are.
LEMMA JobPlaced ==
  ASSUME IInv, NEW d \in Tasks, JobStep(d)
  PROVE  \A e \in Tasks : Placed(e)'
  <1>1. UNCHANGED <<phase, at, task>>
    BY DEF JobStep, Process, JobAnswered, JobFiles, JobMoves, StallRecorded, dispatchVars,
       limiterVars
  <1> QED
    BY <1>1 DEF IInv, Placed

\* Every step keeps the invariant.
LEMMA StepHolds ==
  ASSUME LimiterInv, IInv, [Next]_vars
  PROVE  IInv'
  <1>1. CASE UNCHANGED vars
    BY <1>1 DEF vars, limiterVars, jobVars, IInv, Fields, Placed, Holds, NothingSent,
       DirectHolds, JobHolds, RowsHold, DirectRow, JobRow
  <1>2. ASSUME NEW d \in Tasks, Dispatch(d)
        PROVE  IInv'
    BY <1>2, DispatchPlaced, DispatchHolds DEF IInv
  <1>3. ASSUME NEW d \in Tasks, DeliveryStep(d)
        PROVE  IInv'
    <2>1. \A e \in Tasks : Placed(e)'
      BY <1>3, StepPlaced
    <2>2. Fields' /\ \A e \in Tasks : Holds(e)'
      BY <1>3, DispatchHolds, PreflightHolds, UndeliveredHolds, EnqueueHolds, AnsweredHolds,
         TouchHolds, RetryHolds, FileHolds DEF DeliveryStep
    <2> QED
      BY <2>1, <2>2 DEF IInv
  <1>4. ASSUME NEW d \in Tasks, JobStep(d)
        PROVE  IInv'
    <2>1. \A e \in Tasks : Placed(e)'
      BY <1>4, JobPlaced
    <2>2. Fields' /\ \A e \in Tasks : Holds(e)'
      BY <1>4, ProcessHolds, JobAnsweredHolds, JobRecordedHolds, JobMovesHolds DEF JobStep
    <2> QED
      BY <2>1, <2>2 DEF IInv
  <1>5. CASE ShutDown \/ Exit \/ Crash
    BY <1>5, ShutDownHolds, ExitHolds, CrashHolds DEF IInv
  <1> QED
    BY <1>1, <1>2, <1>3, <1>4, <1>5 DEF Next

\* In every reachable state the limiter and each delivery are as they should be.
THEOREM DeliveryInductive == Spec => [](LimiterInv /\ IInv)
  <1>1. Init => IInv
    BY InitHolds
  <1>2. LimiterInv /\ IInv /\ [Next]_vars => IInv'
    BY StepHolds
  <1>3. Spec => []LimiterInv
    BY DeliveryUsesLimiter, LimiterInductive, PTL
  <1> QED
    BY <1>1, <1>2, <1>3, PTL DEF Spec

\* Every field has its type, and a delivery works inside a slot exactly while the limiter
\* counts it there.
THEOREM DeliveryTyped == Spec => []TypeOK
  <1>1. LimiterInv /\ IInv => TypeOK
    BY DEF LimiterInv, IInv, Fields, Placed, TypeOK
  <1> QED
    BY <1>1, DeliveryInductive, PTL

\* A delivery that is over was received, has a dead-letter row, or is in the log, whatever
\* fails on the way, and a job Redis accepted keeps that promise across crashes.
THEOREM NothingLost == Spec => []NoSilentLoss
  <1>1. LimiterInv /\ IInv => NoSilentLoss
    BY DEF IInv, Holds, JobHolds, RowsHold, NoSilentLoss
  <1> QED
    BY <1>1, DeliveryInductive, PTL

\* What was received is not dead-lettered, but for a crash or the fallback.
THEOREM DeadLettersTrue == Spec => []NoFalseDeadLetter
  <1>1. ASSUME LimiterInv, IInv, NEW d \in Tasks, acked[d] # {}, rows[d] > 0
        PROVE  job[d].stalls > 0 \/ Both(d)
    <2>1. Fields /\ Holds(d)
      BY <1>1 DEF IInv
    <2>2. rows[d] \in Nat /\ direct[d] \in Nat /\ job[d].stalls \in 0..2
          /\ acked[d] \subseteq {"direct", "job"}
      BY <2>1 DEF Fields
    <2>3. CASE "direct" \in acked[d]
      BY <1>1, <2>1, <2>2, <2>3 DEF Holds, DirectHolds, RowsHold, Both
    <2>4. CASE "job" \in acked[d]
      BY <1>1, <2>1, <2>2, <2>4 DEF Holds, JobHolds, RowsHold, DirectRow, JobRow, Both
    <2> QED
      BY <1>1, <2>2, <2>3, <2>4
  <1>2. LimiterInv /\ IInv => NoFalseDeadLetter
    BY <1>1 DEF NoFalseDeadLetter
  <1> QED
    BY <1>2, DeliveryInductive, PTL

\* One failure is one dead letter, and one more for each crash and for the fallback.
THEOREM RowsCounted == Spec => []OneRowPerFailure
  <1>1. ASSUME LimiterInv, IInv, NEW d \in Tasks
        PROVE  rows[d] <= 1 + job[d].stalls + (IF Both(d) THEN 1 ELSE 0)
    <2>1. Fields /\ Holds(d)
      BY <1>1 DEF IInv
    <2>2. rows[d] \in Nat /\ direct[d] \in Nat /\ job[d].stalls \in 0..2
      BY <2>1 DEF Fields
    <2> QED
      BY <2>1, <2>2 DEF Holds, JobHolds, RowsHold, DirectRow, JobRow, Both
  <1>2. LimiterInv /\ IInv => OneRowPerFailure
    BY <1>1 DEF OneRowPerFailure
  <1> QED
    BY <1>2, DeliveryInductive, PTL

\* retryCount bounds the POSTs of a delivery on either path, one more for each stall.
THEOREM PostsCounted == Spec => []PostsBounded
  <1>1. ASSUME LimiterInv, IInv, NEW d \in Tasks
        PROVE  direct[d] <= Attempts /\ job[d].posts <= Attempts + job[d].stalls
    <2>1. Fields /\ Holds(d)
      BY <1>1 DEF IInv
    <2>2. /\ job[d].stalls \in 0..2 /\ job[d].made \in Nat /\ job[d].posts \in Nat
      BY <2>1 DEF Fields
    <2> QED
      BY <2>1, <2>2, AttemptsType DEF Holds, DirectHolds, JobHolds
  <1>2. LimiterInv /\ IInv => PostsBounded
    BY <1>1 DEF PostsBounded
  <1> QED
    BY <1>2, DeliveryInductive, PTL

\* The attempt number of a delivery rises where a POST is about to be sent.
LEMMA DirectRises ==
  ASSUME IInv, Next, NEW d \in Tasks, direct'[d] > direct[d]
  PROVE  at[d] \in {"preflight", "add", "backoff"}
  <1>1. direct \in [Tasks -> Nat]
    BY DEF IInv, Fields
  <1>2. direct' # direct
    BY <1>1
  <1>3. PICK e \in Tasks : Preflight(e) \/ Enqueue(e) \/ Retry(e)
    BY <1>2 DEF Next, Dispatch, DeliveryStep, Begin, RecordUndelivered, Answered, Touch, File,
       JobStep, Process, JobAnswered, JobFiles, JobMoves, StallRecorded, dispatchVars, ShutDown,
       Exit, Crash
  <1>4. \A f \in Tasks \ {e} : direct'[f] = direct[f]
    BY <1>1, <1>3 DEF Preflight, Enqueue, Retry
  <1> QED
    BY <1>1, <1>3, <1>4 DEF Preflight, Enqueue, Retry

\* The POSTs of a job rise when the worker takes it up.
LEMMA PostsRise ==
  ASSUME IInv, Next, NEW d \in Tasks, job'[d].posts > job[d].posts
  PROVE  job[d].place = "waiting"
  <1>1. Fields /\ job[d] \in [place : JobPlaces, made : Nat, stalls : 0..2, posts : Nat]
        /\ (job[d].place \in Active => job[d].stalls <= 1)
    BY DEF IInv, Fields, Holds, JobHolds
  <1>2. job'[d] # job[d]
    BY <1>1
  <1>3. ~Crash
    BY <1>1, StalledType DEF Crash
  <1>4. PICK e \in Tasks : Enqueue(e) \/ JobStep(e)
    BY <1>2, <1>3 DEF Next, Dispatch, DeliveryStep, Begin, Preflight, RecordUndelivered, Answered,
       Touch, Retry, File, ShutDown, Exit, jobVars
  <1>5. ASSUME NEW l \in JobPlaces, JobTo(e, l)
        PROVE  FALSE
    BY <1>1, <1>2, <1>5, JobToType
  <1>6. ASSUME job' = [job EXCEPT ![e].place = "delayed", ![e].made = @ + 1]
        PROVE  FALSE
    BY <1>1, <1>6 DEF Fields
  <1>7. CASE Enqueue(e)
    BY <1>2, <1>5, <1>7 DEF Enqueue, Accepted, JobPlaces
  <1>8. CASE JobStep(e) /\ ~Process(e)
    BY <1>2, <1>5, <1>6, <1>8 DEF JobStep, JobAnswered, JobFiles, JobMoves, OnFailed,
       StallRecorded, JobPlaces, Active
  <1>9. CASE Process(e)
    BY <1>1, <1>2, <1>9 DEF Process, Fields
  <1> QED
    BY <1>4, <1>7, <1>8, <1>9

\* What the receiver answered 2xx is not sent again by the same path, short of a crash.
THEOREM AckEndsPosts == Spec => NoRepostAfterAck
  <1>1. ASSUME IInv, Next, NEW d \in Tasks
        PROVE  /\ direct'[d] > direct[d] => "direct" \notin acked[d]
               /\ job'[d].posts > job[d].posts => "job" \notin acked[d] \/ job[d].stalls > 0
    <2>1. Holds(d)
      BY <1>1 DEF IInv
    <2>2. ASSUME direct'[d] > direct[d]
          PROVE  "direct" \notin acked[d]
      BY <1>1, <2>1, <2>2, DirectRises DEF Holds, NothingSent, DirectHolds, Untried, Trying
    <2>3. ASSUME job'[d].posts > job[d].posts
          PROVE  "job" \notin acked[d] \/ job[d].stalls > 0
      BY <1>1, <2>1, <2>3, PostsRise DEF Holds, JobHolds
    <2> QED
      BY <2>2, <2>3
  <1>2. LimiterInv /\ IInv /\ [Next]_vars =>
          [\A d \in Tasks :
             /\ direct'[d] > direct[d] => "direct" \notin acked[d]
             /\ job'[d].posts > job[d].posts => "job" \notin acked[d] \/ job[d].stalls > 0]_vars
    BY <1>1
  <1> QED
    BY <1>2, DeliveryInductive, PTL DEF Spec, NoRepostAfterAck
=============================================================================
