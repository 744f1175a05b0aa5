--------------------------- MODULE IngressPipeline ---------------------------
(***************************************************************************)
(* Inbound deliveries of a plugin's provider (openwa/src/modules/           *)
(* integration): the row written before the answer, the dispatch through    *)
(* BullMQ or inline (IngressEnqueueService), the worker (IngressProcessor), *)
(* the sweep that replays stranded rows (IngressReconcilerService) and the  *)
(* operator's replay of dead letters (RedriveService), in one process.      *)
(*                                                                         *)
(* A step is a query, a queue call or a dispatch as its other side executes *)
(* it, with the code that runs on the answer up to the next await.  BullMQ  *)
(* is modelled from how the code uses it: a job id is added once, also when *)
(* the job has failed (it is kept a day), a job whose worker died goes back *)
(* to waiting MaxStalled times and fails after that without its processor.  *)
(***************************************************************************)
EXTENDS Integers, FiniteSets

CONSTANTS
  Deliveries, Instances, InstanceOf, None,
  Letters,     \* ids of integration_delivery_failures rows (a bound)
  QueueOn,     \* QUEUE_ENABLED
  JobAttempts, \* INGRESS_MAX_ATTEMPTS
  MaxAttempts, \* INGRESS_RECONCILE_MAX_ATTEMPTS
  BatchSize,   \* INGRESS_RECONCILE_BATCH_SIZE
  MaxStalled,  \* maxStalledCount of the worker (BullMQ's default is 1)
  Prompt,      \* a live dispatch ends within the sweep's grace period
  SaveFails,   \* the worker's dead-letter write may fail
  MaxFaults,   \* bound on the queries and queue calls that fail
  MaxCrashes,  \* bound on the ends of the process
  MaxOrders    \* bound on the operator's orders: to enable or disable an instance, to redrive

ASSUME IngressAssumption ==
  /\ IsFiniteSet(Deliveries) /\ IsFiniteSet(Letters)
  /\ Deliveries \cap Letters = {} /\ None \notin Deliveries \cup Letters
  /\ InstanceOf \in [Deliveries -> Instances]
  /\ {JobAttempts, MaxAttempts, BatchSize} \subseteq Nat \ {0}
  /\ {MaxStalled, MaxFaults, MaxCrashes, MaxOrders} \subseteq Nat
  /\ {QueueOn, Prompt, SaveFails} \subseteq BOOLEAN

VARIABLES
  event,     \* ingress_events: createdAt, dispatch columns; a payload exactly while pending
  letter,    \* integration_delivery_failures
  job,       \* BullMQ: the job of a delivery id, and of redrive:<row id>
  live,      \* the request that recorded the delivery
  sweep,     \* the reconciler's pass: the row at work, those left of what it read, their attempts
  redrive,   \* redriveBatch: the rows it read, and the one being replayed
  up, enabled,
  reach,     \* the queue is on and its connection stands
  delivered, \* deliveries a handler has answered with success
  replays,   \* dispatches the sweep made of each delivery
  last,      \* the latest dead letter of each delivery
  faults, crashes, orders

tables == <<event, letter>>
memory == <<live, sweep, redrive>>
ghosts == <<delivered, replays, last>>
bounds == <<faults, crashes, orders>>
outside == <<up, enabled, reach>>
vars == <<tables, job, memory, outside, ghosts, bounds>>

Jobs == Deliveries \cup Letters
NoJob == [state |-> "none", made |-> 0, stalls |-> 0]
NoLetter == [of |-> None, redriven |-> FALSE]
NoTries == [d \in Deliveries |-> 0]
NoSweep == [at |-> "idle", row |-> None, rows |-> {}, tries |-> NoTries]
NoRedrive == [at |-> "idle", rows |-> {}, row |-> None]

Init ==
  /\ event = [d \in Deliveries |-> [state |-> "none", born |-> 0, tries |-> 0, aged |-> FALSE, touched |-> FALSE]]
  /\ letter = [l \in Letters |-> NoLetter]
  /\ job = [j \in Jobs |-> NoJob]
  /\ live = [d \in Deliveries |-> "off"]
  /\ sweep = NoSweep /\ redrive = NoRedrive
  /\ up = TRUE /\ enabled = Instances /\ reach = QueueOn
  /\ delivered = {} /\ replays = [d \in Deliveries |-> 0] /\ last = [d \in Deliveries |-> None]
  /\ faults = 0 /\ crashes = 0 /\ orders = 0

Fault == faults < MaxFaults /\ faults' = faults + 1

-----------------------------------------------------------------------------
(* The tables *)

Recorded(d) == event[d].state # "none"
Pending(d) == event[d].state = "pending"
LettersOf(d) == {l \in Letters : letter[l].of = d}
Open(l) == letter[l].of # None /\ ~letter[l].redriven

\* The payload is retired with the mark.
MarkDispatched(d) == event' = [event EXCEPT ![d].state = "dispatched", ![d].touched = TRUE]

Free == {l \in Letters : letter[l] = NoLetter}
\* Ids are opaque: any free one will do.
NewLetter == CHOOSE l \in Free : TRUE
WriteLetter(d) ==
  /\ Free # {} /\ letter' = [letter EXCEPT ![NewLetter].of = d]
  /\ last' = [last EXCEPT ![d] = NewLetter]

-----------------------------------------------------------------------------
(* IngressEnqueueService.enqueue *)

WithJob(j) == IF job[j].state = "none" THEN [job EXCEPT ![j].state = "waiting"] ELSE job

\* queue.add answers: the outcome is 'queued', also when the id was known.
Queued(j) == reach /\ job' = WithJob(j)

\* The queue is off, or add rejects (with or without the job): dispatch inline.
Refused(j) == ~reach /\ job' \in (IF QueueOn THEN {job, WithJob(j)} ELSE {job})

Handled(d) == delivered' = delivered \cup {d}

-----------------------------------------------------------------------------
(* IngressService.handle and the enqueue it is given *)

LiveAt(d, l) == live[d] = l
LiveTo(d, l) == live' = [live EXCEPT ![d] = l]

\* The row is UNIQUE per delivery: a retry is answered as a duplicate and changes nothing.
NewRow(d) == event[d].state = "none"

\* What precedes the row (unknown or disabled instance, size, signature, preflight)
\* leaves nothing.
Post(d) ==
  /\ up /\ InstanceOf[d] \in enabled /\ NewRow(d)
  /\ event' = [event EXCEPT ![d].state = "pending", ![d].born = Cardinality({e \in Deliveries : Recorded(e)})]
  /\ LiveTo(d, "enqueue")
  /\ UNCHANGED <<letter, job, sweep, redrive, outside, ghosts, bounds>>

LiveEnqueue(d) ==
  /\ LiveAt(d, "enqueue")
  /\ \/ Queued(d) /\ LiveTo(d, "mark")
     \/ Refused(d) /\ LiveTo(d, "inline")
  /\ UNCHANGED <<tables, sweep, redrive, outside, ghosts, bounds>>

LiveInline(d) ==
  /\ LiveAt(d, "inline")
  /\ \/ Handled(d) /\ LiveTo(d, "mark")
     \/ UNCHANGED delivered /\ LiveTo(d, "bump")
  /\ UNCHANGED <<tables, job, sweep, redrive, outside, replays, last, bounds>>

LiveMark(d) ==
  /\ LiveAt(d, "mark")
  /\ MarkDispatched(d) /\ LiveTo(d, "off")
  /\ UNCHANGED <<letter, job, sweep, redrive, outside, ghosts, bounds>>

\* A failed outcome: the increment, the time of the attempt, then the dead letter.
LiveBump(d) ==
  /\ LiveAt(d, "bump")
  /\ event' = [event EXCEPT ![d].tries = @ + 1] /\ LiveTo(d, "touch")
  /\ UNCHANGED <<letter, job, sweep, redrive, outside, ghosts, bounds>>

LiveTouch(d) ==
  /\ LiveAt(d, "touch")
  /\ event' = [event EXCEPT ![d].touched = TRUE] /\ LiveTo(d, "letter")
  /\ UNCHANGED <<letter, job, sweep, redrive, outside, ghosts, bounds>>

LiveLetter(d) ==
  /\ LiveAt(d, "letter")
  /\ WriteLetter(d) /\ LiveTo(d, "off")
  /\ UNCHANGED <<event, job, sweep, redrive, outside, delivered, replays, bounds>>

\* Both writes are best effort; the first one's failure does not skip the second.
LiveFault(d) ==
  /\ live[d] \in {"mark", "bump", "touch", "letter"} /\ Fault
  /\ LiveTo(d, IF live[d] \in {"bump", "touch"} THEN "letter" ELSE "off")
  /\ UNCHANGED <<tables, job, sweep, redrive, outside, ghosts, crashes, orders>>

-----------------------------------------------------------------------------
(* IngressProcessor *)

Of(j) == IF j \in Deliveries THEN j ELSE letter[j].of
JobAt(j, s) == job[j].state = s

Take(j) ==
  /\ up /\ JobAt(j, "waiting")
  /\ job' = [job EXCEPT ![j].state = "running"]
  /\ UNCHANGED <<tables, memory, outside, ghosts, bounds>>

Complete(j) ==
  /\ JobAt(j, "running")
  /\ job' = [job EXCEPT ![j].state = "completed"] /\ Handled(Of(j))
  /\ UNCHANGED <<tables, memory, outside, replays, last, bounds>>

Final(j) == job[j].made + 1 >= JobAttempts

\* Retried after a backoff; the final attempt runs ingress:error before the dead letter.
Throw(j) ==
  /\ JobAt(j, "running")
  /\ job' = IF Final(j) THEN [job EXCEPT ![j].state = "saving"]
            ELSE [job EXCEPT ![j].state = "waiting", ![j].made = @ + 1]
  /\ UNCHANGED <<tables, memory, outside, ghosts, bounds>>

JobLetter(j) ==
  /\ JobAt(j, "saving")
  /\ job' = [job EXCEPT ![j].state = "thrown"]
  /\ WriteLetter(Of(j)) \/ (SaveFails /\ UNCHANGED <<letter, last>>)
  /\ UNCHANGED <<event, memory, outside, delivered, replays, bounds>>

\* The rethrown error reaches BullMQ.
JobFails(j) ==
  /\ JobAt(j, "thrown")
  /\ job' = [job EXCEPT ![j].state = "failed", ![j].made = @ + 1]
  /\ UNCHANGED <<tables, memory, outside, ghosts, bounds>>

\* The stalled check of a running worker, for a job whose own worker died.
Unstall(j) ==
  /\ up /\ JobAt(j, "stalled")
  /\ job' = [job EXCEPT ![j].stalls = @ + 1,
               ![j].state = IF job[j].stalls < MaxStalled THEN "waiting" ELSE "failed"]
  /\ UNCHANGED <<tables, memory, outside, ghosts, bounds>>

-----------------------------------------------------------------------------
(* IngressReconcilerService.sweep *)

SweepAt(l) == sweep.at = l
SweepTo(l) == sweep' = [sweep EXCEPT !.at = l]
Row == sweep.row
Older(d, rows) == {e \in rows : event[e].born < event[d].born}
\* The oldest of the rows left.
SweepGoes(rows, tries) ==
  IF rows = {} THEN sweep' = NoSweep
  ELSE \E d \in rows : /\ Older(d, rows) = {}
                       /\ sweep' = [at |-> "turn", row |-> d, rows |-> rows \ {d}, tries |-> tries]
SweepNext == SweepGoes(sweep.rows, sweep.tries)
\* Mutant: an error leaves the overlap guard set.
SweepStuck == sweep' = [sweep EXCEPT !.at = "stuck"]
\* The row stays pending for a later sweep.
SweepSkips == SweepNext

\* The oldest rows that are pending and older than the grace period; of these, the ones
\* whose latest attempt is not inside it.
Stale == {d \in Deliveries : Pending(d) /\ event[d].aged}
Due == {d \in Stale : Cardinality(Older(d, Stale)) < BatchSize /\ ~event[d].touched}

SweepFind ==
  /\ up /\ SweepAt("idle") /\ Due # {}
  /\ SweepGoes(Due, [d \in Deliveries |-> IF d \in Due THEN event[d].tries ELSE 0])
  /\ UNCHANGED <<tables, job, live, redrive, outside, ghosts, bounds>>

SweepTurn ==
  /\ SweepAt("turn")
  /\ IF InstanceOf[Row] \in enabled THEN SweepTo("enqueue") ELSE SweepSkips
  /\ UNCHANGED <<tables, job, live, redrive, outside, ghosts, bounds>>

SweepEnqueue ==
  /\ SweepAt("enqueue")
  /\ replays' = [replays EXCEPT ![Row] = @ + 1]
  /\ \/ Queued(Row) /\ SweepTo("mark")
     \/ Refused(Row) /\ SweepTo("inline")
  /\ UNCHANGED <<tables, live, redrive, outside, delivered, last, bounds>>

Tries == sweep.tries[Row] + 1
Exhausted == Tries >= MaxAttempts
\* Mutant: the row is closed without looking for its dead letter.
ClosesFirst == IF Exhausted THEN "close" ELSE "bump"
AfterFailure == IF Exhausted THEN "count" ELSE "bump"

SweepInline ==
  /\ SweepAt("inline")
  /\ \/ Handled(Row) /\ SweepTo("mark")
     \/ UNCHANGED delivered /\ SweepTo(AfterFailure)
  /\ UNCHANGED <<tables, job, live, redrive, outside, replays, last, bounds>>

SweepMark ==
  /\ SweepAt("mark")
  /\ MarkDispatched(Row) /\ SweepTo("retire")
  /\ UNCHANGED <<letter, job, live, redrive, outside, ghosts, bounds>>

\* Every open dead letter of the delivery.
SweepRetire ==
  /\ SweepAt("retire")
  /\ letter' = [l \in Letters |-> IF l \in LettersOf(Row) THEN [letter[l] EXCEPT !.redriven = TRUE]
                                  ELSE letter[l]]
  /\ SweepNext
  /\ UNCHANGED <<event, job, live, redrive, outside, ghosts, bounds>>

\* ensureDeadLetterRow: a row of the delivery counts whether or not it is open.
SweepCount ==
  /\ SweepAt("count")
  /\ SweepTo(IF LettersOf(Row) = {} THEN "letter" ELSE "close")
  /\ UNCHANGED <<tables, job, live, redrive, outside, ghosts, bounds>>

SweepLetter ==
  /\ SweepAt("letter")
  /\ WriteLetter(Row) /\ SweepTo("close")
  /\ UNCHANGED <<event, job, live, redrive, outside, delivered, replays, bounds>>

SweepClose ==
  /\ SweepAt("close")
  /\ event' = [event EXCEPT ![Row] = [@ EXCEPT !.state = "failed", !.tries = Tries, !.touched = TRUE]]
  /\ SweepNext
  /\ UNCHANGED <<letter, job, live, redrive, outside, ghosts, bounds>>

\* Mutant: the attempt is not counted.
NotCounted(e) == [e EXCEPT !.touched = TRUE]
Counted(e) == [e EXCEPT !.tries = Tries, !.touched = TRUE]

SweepBump ==
  /\ SweepAt("bump")
  /\ event' = [event EXCEPT ![Row] = Counted(@)]
  /\ SweepNext
  /\ UNCHANGED <<letter, job, live, redrive, outside, ghosts, bounds>>

\* A query of a row fails: caught, the batch goes on.
SweepFault ==
  /\ sweep.at \in {"turn", "mark", "retire", "count", "letter", "close", "bump"} /\ Fault
  /\ SweepSkips
  /\ UNCHANGED <<tables, job, live, redrive, outside, ghosts, crashes, orders>>

-----------------------------------------------------------------------------
(* RedriveService.redriveBatch *)

RedriveAt(l) == redrive.at = l
RedriveTo(l) == redrive' = [redrive EXCEPT !.at = l]
Letter == redrive.row
LetterOf == letter[Letter].of
RedriveNext == redrive' = IF redrive.rows = {} THEN NoRedrive ELSE [redrive EXCEPT !.at = "turn", !.row = None]

RedriveFind ==
  /\ up /\ RedriveAt("idle") /\ orders < MaxOrders
  /\ LET rows == {l \in Letters : Open(l)} IN
     rows # {} /\ redrive' = [NoRedrive EXCEPT !.at = "turn", !.rows = rows]
  /\ orders' = orders + 1
  /\ UNCHANGED <<tables, job, live, sweep, outside, ghosts, faults, crashes>>

\* The rows as they were read: one the sweep has retired since is replayed all the same.
RedriveEnqueue(l) ==
  /\ RedriveAt("turn") /\ l \in redrive.rows
  /\ \E at \in {"retire", "inline"} :
       /\ IF at = "retire" THEN Queued(l) ELSE Refused(l)
       /\ redrive' = [at |-> at, rows |-> redrive.rows \ {l}, row |-> l]
  /\ UNCHANGED <<tables, live, sweep, outside, ghosts, bounds>>

\* A failed replay leaves its row open.
RedriveInline ==
  /\ RedriveAt("inline")
  /\ \/ Handled(LetterOf) /\ RedriveTo("retire")
     \/ UNCHANGED delivered /\ RedriveNext
  /\ UNCHANGED <<tables, job, live, sweep, outside, replays, last, bounds>>

StillPending(d) == Pending(d)

\* The event first, so that the sweep does not replay it.
RedriveRetire ==
  /\ RedriveAt("retire")
  /\ IF StillPending(LetterOf) THEN MarkDispatched(LetterOf) ELSE UNCHANGED event
  /\ RedriveTo("close")
  /\ UNCHANGED <<letter, job, live, sweep, outside, ghosts, bounds>>

RedriveClose ==
  /\ RedriveAt("close")
  /\ letter' = [letter EXCEPT ![Letter].redriven = TRUE]
  /\ RedriveNext
  /\ UNCHANGED <<event, job, live, sweep, outside, ghosts, bounds>>

\* A query fails: the request is answered with an error and the rest of the batch is left.
RedriveFault ==
  /\ redrive.at \in {"turn", "retire", "close"} /\ Fault
  /\ redrive' = NoRedrive
  /\ UNCHANGED <<tables, job, live, sweep, outside, ghosts, crashes, orders>>

-----------------------------------------------------------------------------
(* The environment *)

\* Time: the row, or its latest attempt, gets older than the grace period.
Settled(d) == Prompt => LiveAt(d, "off")

Age(d) ==
  /\ Pending(d) /\ ~event[d].aged /\ Settled(d)
  /\ event' = [event EXCEPT ![d].aged = TRUE]
  /\ UNCHANGED <<letter, job, memory, outside, ghosts, bounds>>

Cool(d) ==
  /\ Pending(d) /\ event[d].touched /\ Settled(d)
  /\ event' = [event EXCEPT ![d].touched = FALSE]
  /\ UNCHANGED <<letter, job, memory, outside, ghosts, bounds>>

Toggle(i) ==
  /\ up /\ orders < MaxOrders /\ orders' = orders + 1
  /\ enabled' = IF i \in enabled THEN enabled \ {i} ELSE enabled \cup {i}
  /\ UNCHANGED <<tables, job, memory, up, reach, ghosts, faults, crashes>>

\* The queue's connection breaks, and comes back.
Outage ==
  /\ reach /\ Fault /\ reach' = FALSE
  /\ UNCHANGED <<tables, job, memory, up, enabled, ghosts, crashes, orders>>

Reconnect ==
  /\ QueueOn /\ ~reach /\ reach' = TRUE
  /\ UNCHANGED <<tables, job, memory, up, enabled, ghosts, bounds>>

Crash ==
  /\ up /\ crashes < MaxCrashes /\ crashes' = crashes + 1
  /\ up' = FALSE
  /\ live' = [d \in Deliveries |-> "off"] /\ sweep' = NoSweep /\ redrive' = NoRedrive
  /\ job' = [j \in Jobs |-> IF job[j].state \in {"running", "saving", "thrown"}
                            THEN [job[j] EXCEPT !.state = "stalled"] ELSE job[j]]
  /\ UNCHANGED <<tables, enabled, reach, ghosts, faults, orders>>

Boot ==
  /\ ~up /\ up' = TRUE
  /\ UNCHANGED <<tables, job, memory, enabled, reach, ghosts, bounds>>

Live(d) == LiveEnqueue(d) \/ LiveInline(d) \/ LiveMark(d) \/ LiveBump(d) \/ LiveTouch(d) \/ LiveLetter(d)
Work(j) == Take(j) \/ Complete(j) \/ Throw(j) \/ JobLetter(j) \/ JobFails(j) \/ Unstall(j)
Sweep == SweepFind \/ SweepTurn \/ SweepEnqueue \/ SweepInline \/ SweepMark \/ SweepRetire
         \/ SweepCount \/ SweepLetter \/ SweepClose \/ SweepBump
Redrive == RedriveFind \/ (\E l \in Letters : RedriveEnqueue(l)) \/ RedriveInline \/ RedriveRetire
           \/ RedriveClose

Next ==
  \/ \E d \in Deliveries : Post(d) \/ Live(d) \/ LiveFault(d) \/ Age(d) \/ Cool(d)
  \/ \E j \in Jobs : Work(j)
  \/ Sweep \/ SweepFault \/ Redrive \/ RedriveFault
  \/ (\E i \in Instances : Toggle(i)) \/ Outage \/ Reconnect \/ Crash \/ Boot

Spec == Init /\ [][Next]_vars

\* A live process answers its own awaits, its timer sweeps again and again, workers take
\* what waits, time passes, and a process that ended is started again.
FairSpec ==
  /\ Spec /\ WF_vars(Sweep) /\ WF_vars(Boot)
  /\ WF_vars(\E d \in Deliveries : Live(d))
  /\ WF_vars(\E d \in Deliveries : Age(d) \/ Cool(d))
  /\ WF_vars(\E j \in Jobs : Work(j))

-----------------------------------------------------------------------------
(* Properties *)

\* Types; a job's attempts and stalls stay within their budgets.
TypeOK ==
  /\ event \in [Deliveries -> [state : {"none", "pending", "dispatched", "failed"},
                               born : Nat, tries : Nat, aged : BOOLEAN, touched : BOOLEAN]]
  /\ letter \in [Letters -> [of : Deliveries \cup {None}, redriven : BOOLEAN]]
  /\ job \in [Jobs -> [state : {"none", "waiting", "running", "saving", "thrown", "stalled", "completed", "failed"},
                       made : 0..JobAttempts, stalls : 0..(MaxStalled + 1)]]
  /\ live \in [Deliveries -> {"off", "enqueue", "inline", "mark", "bump", "touch", "letter"}]
  /\ sweep \in [at : {"idle", "turn", "enqueue", "inline", "mark", "retire", "count", "letter", "close", "bump"},
                row : Deliveries \cup {None}, rows : SUBSET Deliveries,
                tries : [Deliveries -> Nat]]
  /\ redrive \in [at : {"idle", "turn", "inline", "retire", "close"}, rows : SUBSET Letters,
                  row : Letters \cup {None}]
  /\ {up, reach} \subseteq BOOLEAN /\ enabled \subseteq Instances
  /\ delivered \subseteq Deliveries /\ replays \in [Deliveries -> Nat]
  /\ last \in [Deliveries -> Letters \cup {None}]
  /\ {faults, crashes, orders} \subseteq Nat

Working(j) == job[j].state \in {"waiting", "running", "saving", "thrown", "stalled"}
InQueue(d) == \E j \in Jobs : Working(j) /\ Of(j) = d
Dead(d) == \E l \in LettersOf(d) : Open(l)

\* A recorded delivery that no handler took is never lost: its row is pending, a job of it
\* is in the queue, or a dead letter of it is open.
Recoverable(d) == d \in delivered \/ Pending(d) \/ InQueue(d) \/ Dead(d)
\* The exception: a replay was absorbed by the job of the delivery, which had failed, and
\* retired the dead letter that job had left.
Absorbed(d) == JobAt(d, "failed") /\ LettersOf(d) # {}
NoSilentLoss == \A d \in Deliveries : Recorded(d) => Recoverable(d) \/ Absorbed(d)

\* "The replay just delivered it" (ingress-reconciler.service.ts:183): what a replay retires
\* has been delivered, or is still on its way.
RetiredIsDelivered ==
  \A l \in Letters : letter[l].redriven => Recoverable(letter[l].of)

\* The sweep dispatches a delivery at most MaxAttempts times, and once more for each query,
\* queue call or process that failed it.
ReplaysBounded == \A d \in Deliveries : replays[d] <= MaxAttempts + faults + crashes

\* What the sweep has closed as failed stays so: an operator's replay reaches the plugin
\* through the dead letter and does not open the row again.
FailedStands ==
  [][\A d \in Deliveries : event[d].state = "failed" => event'[d].state = "failed"]_vars

\* A delivery recorded and left pending is delivered or dead-lettered, while its instance is
\* enabled.
Ends(d) == d \in delivered \/ LettersOf(d) # {} \/ InstanceOf[d] \notin enabled
PendingEnds == \A d \in Deliveries : Pending(d) ~> Ends(d)
=============================================================================
