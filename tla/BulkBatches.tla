----------------------------- MODULE BulkBatches -----------------------------
(***************************************************************************)
(* Bulk sends of one session: BulkMessageService (createBatch, processBatch, *)
(* cancelBatch, the reapers of a boot and of a takeover), on gateway nodes  *)
(* that share a database (openwa/src/modules/message).  Which node holds    *)
(* the session comes from SessionOwnership, reduced to the claim its row     *)
(* carries: taken by a start, given back by a stop, lapsing once it covers  *)
(* no engine.                                                              *)
(*                                                                         *)
(* A step is a query as the database executes it with the code that runs    *)
(* on its answer, up to the next await: that code touches only memory of    *)
(* its own process, which nothing else reads but the cancellation flag.     *)
(***************************************************************************)
EXTENDS Integers, FiniteSets

CONSTANTS
  Nodes, Batches, None,
  Runs,      \* POST send-bulk requests, each with the loop it leaves behind (a bound)
  Cancels,   \* cancel requests (a bound)
  First,     \* the node that has the session at first
  Total,     \* messages of a batch
  Cadence,   \* progress is saved every so many messages (10)
  Cap,       \* BULK_MAX_CONCURRENT_BATCHES; 0 is no cap
  Lapses,    \* leases may lapse under a node that is alive
  Manual,    \* an operator may start a lapsed session on another node
  MaxFaults, \* bound on the queries that fail
  MaxEvents  \* bound on the processes that end, engines that go, POST starts, status writes
             \* and renewals that are missed

ASSUME BulkAssumption ==
  /\ None \notin Nodes \cup Batches
  /\ First \in Nodes
  /\ {Cap, MaxFaults, MaxEvents} \subseteq Nat
  /\ {Total, Cadence} \subseteq Nat \ {0}
  /\ {Lapses, Manual} \subseteq BOOLEAN
  /\ IsFiniteSet(Runs)

VARIABLES
  row,      \* message_batches: status and progress
  run,      \* createBatch and the processBatch it starts
  cancel,   \* cancelBatch
  reap,     \* of each node: the reaper at work, and the entities it read
  flag,     \* processingBatches of each node: on while driven, off once cancelled there
  inFlight, \* inFlightBatches of each node
  up,       \* nodes whose process serves requests
  engine,   \* nodes with an engine of the session in the registry
  owner,    \* the node whose claim the session's row carries, if any
  lapsed,   \* that claim has lapsed
  eligible, \* the session has a phone and a status a sweep adopts
  out,      \* messages of each batch the engine accepted
  ackedAt,  \* the node that answered a cancel of the batch with success
  late,     \* messages begun after that answer
  deserted, \* batches whose process ended after the session had left it
  faults, events

memory == <<run, cancel, reap, flag, inFlight>>
session == <<up, engine, owner, lapsed, eligible>>
ghosts == <<out, ackedAt, late, deserted>>
bounds == <<faults, events>>
vars == <<row, memory, session, ghosts, bounds>>

NoRow == [status |-> "none", sent |-> 0, failed |-> 0, pending |-> 0, cancelled |-> 0]
Idle == [at |-> "idle", node |-> None, batch |-> None, item |-> 0,
         mine |-> NoRow, live |-> FALSE]
Ended == [Idle EXCEPT !.at = "ended"]
NoCancel == [at |-> "idle", node |-> None, batch |-> None, mine |-> NoRow]
CancelEnded == [NoCancel EXCEPT !.at = "ended"]
NoReap == [at |-> "idle", boot |-> FALSE, mine |-> <<>>]
NoFlags == [b \in Batches |-> "none"]

Init ==
  /\ row = [b \in Batches |-> NoRow]
  /\ run = [r \in Runs |-> Idle]
  /\ cancel = [c \in Cancels |-> NoCancel]
  /\ reap = [n \in Nodes |-> NoReap]
  /\ flag = [n \in Nodes |-> NoFlags]
  /\ inFlight = [n \in Nodes |-> 0]
  /\ up = Nodes /\ engine = {First} /\ owner = First
  /\ lapsed = FALSE /\ eligible = TRUE
  /\ out = [b \in Batches |-> 0]
  /\ ackedAt = [b \in Batches |-> None]
  /\ late = [b \in Batches |-> 0]
  /\ deserted = {}
  /\ faults = 0 /\ events = 0

Terminal == {"completed", "cancelled", "failed"}
OnNode(n) == {r \in Runs : run[r].node = n}

\* r is the loop that sends b.
Drives(r, b) ==
  run[r].batch = b /\ run[r].at \in {"gate", "send", "save", "sleep", "reread", "final"}

\* The WHERE of every write of a loop: Not(CANCELLED).
NotCancelled(b) == row[b].status # "cancelled"
\* The WHERE of cancelBatch.
Cancellable(b) == row[b].status \in {"pending", "processing"}

-----------------------------------------------------------------------------
(* createBatch *)

At(r, l) == run[r].at = l
To(r, l) == run' = [run EXCEPT ![r].at = l]
Stops(r) == run' = [run EXCEPT ![r] = Ended]
Node(r) == run[r].node
Batch(r) == run[r].batch

\* Mutant: the cap is not checked.
NeverFull(n) == FALSE
Full(n) == Cap > 0 /\ inFlight[n] >= Cap

\* An engine is registered and no batch has the id: the reservation, in the turn that
\* checks the cap.  A refused request leaves nothing.
Create(r, n, b) ==
  /\ At(r, "idle") /\ n \in up /\ n \in engine
  /\ row[b].status = "none" /\ ~Full(n)
  /\ run' = [run EXCEPT ![r] = [Idle EXCEPT !.at = "insert", !.node = n, !.batch = b]]
  /\ inFlight' = [inFlight EXCEPT ![n] = @ + 1]
  /\ UNCHANGED <<row, cancel, reap, flag, session, ghosts, bounds>>

\* The end of createBatch without a batch, or of processBatch: what `finally` gives back.
Leave(r, driven) ==
  /\ Stops(r)
  /\ inFlight' = [inFlight EXCEPT ![Node(r)] = @ - 1]
  /\ flag' = IF driven THEN [flag EXCEPT ![Node(r)][Batch(r)] = "none"] ELSE flag

\* The row is UNIQUE per session and batch id.
Insert(r) ==
  /\ At(r, "insert")
  /\ IF row[Batch(r)].status # "none"
     THEN Leave(r, FALSE) /\ UNCHANGED row
     ELSE /\ row' = [row EXCEPT ![Batch(r)] = [NoRow EXCEPT !.status = "pending", !.pending = Total]]
          /\ To(r, "load") /\ UNCHANGED <<inFlight, flag>>
  /\ UNCHANGED <<cancel, reap, session, ghosts, bounds>>

-----------------------------------------------------------------------------
(* processBatch *)

\* A cancel that came first is not revived; else the loop owns the flag.
Load(r) ==
  /\ At(r, "load")
  /\ LET b == Batch(r)  n == Node(r) IN
     IF flag[n][b] = "off" \/ ~NotCancelled(b)
     THEN Leave(r, TRUE)
     ELSE /\ run' = [run EXCEPT ![r].at = "mark", ![r].mine = row[b]]
          /\ flag' = [flag EXCEPT ![n][b] = "on"]
          /\ UNCHANGED inFlight
  /\ UNCHANGED <<row, cancel, reap, session, ghosts, bounds>>

\* The messages it was told to cancel before it began this one are counted.
Counted(r) == late' = IF ackedAt[Batch(r)] = None THEN late ELSE [late EXCEPT ![Batch(r)] = @ + 1]

\* The loop turns to item i of s, the run's state: the cancellation check comes first.
Turn(r, s, i) ==
  IF i < Total /\ flag[Node(r)][Batch(r)] = "on"
  THEN run' = [run EXCEPT ![r] = [s EXCEPT !.at = "gate", !.item = i]] /\ Counted(r)
  ELSE run' = [run EXCEPT ![r] = [s EXCEPT !.at = "reread", !.item = i]] /\ UNCHANGED late

\* Mutant: the move to PROCESSING is not guarded.
AnyStatus(b) == TRUE
MayStart(b) == NotCancelled(b)

\* PROCESSING unless a cancel has committed; the engine is looked up once for all messages.
Mark(r) ==
  /\ At(r, "mark")
  /\ LET b == Batch(r)  n == Node(r) IN
     \/ /\ ~MayStart(b)
        /\ Leave(r, TRUE) /\ UNCHANGED <<row, late>>
     \/ /\ MayStart(b)
        /\ row' = [row EXCEPT ![b].status = "processing"]
        /\ IF n \in engine
           THEN Turn(r, [run[r] EXCEPT !.live = TRUE], 0)
           ELSE To(r, "noengine") /\ UNCHANGED late
        /\ UNCHANGED <<flag, inFlight>>
  /\ UNCHANGED <<cancel, reap, session, out, ackedAt, deserted, bounds>>

\* failBatchWithoutEngine
NoEngine(r) ==
  /\ At(r, "noengine")
  /\ row' = IF NotCancelled(Batch(r)) THEN [row EXCEPT ![Batch(r)].status = "failed"] ELSE row
  /\ Leave(r, TRUE)
  /\ UNCHANGED <<cancel, reap, session, ghosts, bounds>>

\* The outcome of an item in the loop's own counters.
Sent(s) == [s EXCEPT !.mine.sent = @ + 1, !.mine.pending = @ - 1]
Failed(s) == [s EXCEPT !.mine.failed = @ + 1, !.mine.pending = @ - 1]

\* After an item, in state s: the loop saves progress or waits out the delay; the flag is
\* read again, for a cancelled batch needs no delay.
SavesAt(i) == i % Cadence = 0 \/ i = Total - 1
After(r, s) ==
  run' = [run EXCEPT ![r] = [s EXCEPT !.at =
    IF SavesAt(s.item) THEN "save"
    ELSE IF flag[Node(r)][Batch(r)] = "on" THEN "sleep" ELSE "reread"]]

\* With stopOnError the first failure ends the loop, without it none does.
AfterFailure(r) ==
  LET s == Failed(run[r]) IN
  \/ s.mine.failed = 1 /\ run' = [run EXCEPT ![r] = [s EXCEPT !.at = "reread", !.mine.status = "failed"]]
  \/ After(r, s)

\* Pacing, message:sending and the media cap, all before the engine is asked.
Gate(r) ==
  /\ At(r, "gate")
  /\ To(r, "send") \/ AfterFailure(r)
  /\ UNCHANGED <<row, cancel, reap, flag, inFlight, session, ghosts, bounds>>

\* The engine of the loop accepts the message, if it is still alive, or refuses it.  That
\* the message's own row is saved, at best effort, or message:failed fired, changes no more.
Send(r) ==
  /\ At(r, "send")
  /\ \/ /\ run[r].live
        /\ After(r, Sent(run[r]))
        /\ out' = [out EXCEPT ![Batch(r)] = @ + 1]
     \/ AfterFailure(r) /\ UNCHANGED out
  /\ UNCHANGED <<row, cancel, reap, flag, inFlight, session, ackedAt, late, deserted, bounds>>

Progress(old, s) == [s EXCEPT !.status = old.status]

\* The progress write: none when a cancel, of whatever process, has committed.
Save(r) ==
  /\ At(r, "save")
  /\ LET b == Batch(r) IN
     IF NotCancelled(b)
     THEN /\ row' = [row EXCEPT ![b] = Progress(@, run[r].mine)]
          /\ run' = [run EXCEPT ![r].at = IF run[r].item < Total - 1 /\ flag[Node(r)][b] = "on"
                                          THEN "sleep" ELSE "reread"]
     ELSE /\ run' = [run EXCEPT ![r].at = "final", ![r].mine.status = "cancelled",
                                ![r].mine.cancelled = @ + run[r].mine.pending, ![r].mine.pending = 0]
          /\ UNCHANGED row
  /\ UNCHANGED <<cancel, reap, flag, inFlight, session, ghosts, bounds>>

Sleep(r) ==
  /\ At(r, "sleep")
  /\ Turn(r, run[r], run[r].item + 1)
  /\ UNCHANGED <<row, cancel, reap, flag, inFlight, session, out, ackedAt, deserted, bounds>>

\* resolveFinalBatchStatus
Resolve(s) ==
  IF s.status = "failed" \/ (s.failed > 0 /\ s.sent = 0) THEN "failed" ELSE "completed"

\* finalizeBatch reads the status again, then writes what it made of it.
Reread(r) ==
  /\ At(r, "reread")
  /\ LET b == Batch(r)  s == run[r].mine
         cancelled == ~NotCancelled(b) \/ flag[Node(r)][b] # "on"
     IN run' = [run EXCEPT ![r].at = "final", ![r].mine =
                  IF cancelled
                  THEN [s EXCEPT !.status = "cancelled", !.cancelled = s.pending, !.pending = 0]
                  ELSE [s EXCEPT !.status = Resolve(s)]]
  /\ UNCHANGED <<row, cancel, reap, flag, inFlight, session, ghosts, bounds>>

\* Mutant: the last write is not guarded.
AlwaysFinish(r) == TRUE
MayFinish(r) == run[r].mine.status = "cancelled" \/ NotCancelled(Batch(r))

\* CANCELLED is saved whatever the row says; another status unless it says CANCELLED.
Final(r) ==
  /\ At(r, "final")
  /\ row' = IF MayFinish(r) THEN [row EXCEPT ![Batch(r)] = run[r].mine] ELSE row
  /\ Leave(r, TRUE)
  /\ UNCHANGED <<cancel, reap, session, ghosts, bounds>>

\* A query of the loop fails: it ends where it is, and gives back what it holds.
RunFails(r) ==
  /\ run[r].at \in {"insert", "load", "mark", "noengine", "save", "reread", "final"}
  /\ faults < MaxFaults /\ faults' = faults + 1
  /\ Leave(r, run[r].at \notin {"insert", "load"})
  /\ UNCHANGED <<row, cancel, reap, session, ghosts, events>>

-----------------------------------------------------------------------------
(* cancelBatch *)

\* A batch that is not over: the flag of this process, and a write of what was read.
CancelRead(c, n, b) ==
  /\ cancel[c].at = "idle" /\ n \in up
  /\ Cancellable(b)
  /\ cancel' = [cancel EXCEPT ![c] = [at |-> "write", node |-> n, batch |-> b, mine |-> row[b]]]
  /\ flag' = [flag EXCEPT ![n][b] = "off"]
  /\ UNCHANGED <<row, run, reap, inFlight, session, ghosts, bounds>>

\* Mutant: what is pending stays pending.
CancelledStatus(s) == [s EXCEPT !.status = "cancelled", !.cancelled = s.pending]
CancelledRow(s) == [s EXCEPT !.status = "cancelled", !.cancelled = s.pending, !.pending = 0]

CancelWrite(c) ==
  /\ cancel[c].at = "write"
  /\ LET b == cancel[c].batch IN
     IF Cancellable(b)
     THEN /\ row' = [row EXCEPT ![b] = CancelledRow(cancel[c].mine)]
          /\ ackedAt' = [ackedAt EXCEPT ![b] = cancel[c].node]
     ELSE UNCHANGED <<row, ackedAt>>
  /\ cancel' = [cancel EXCEPT ![c] = CancelEnded]
  /\ UNCHANGED <<run, reap, flag, inFlight, session, out, late, deserted, bounds>>

CancelFails(c) ==
  /\ cancel[c].at = "write"
  /\ faults < MaxFaults /\ faults' = faults + 1
  /\ cancel' = [cancel EXCEPT ![c] = CancelEnded]
  /\ UNCHANGED <<row, run, reap, flag, inFlight, session, ghosts, events>>

-----------------------------------------------------------------------------
(* The reapers *)

\* Mutant: the batches that have not begun.
Waiting == {b \in Batches : row[b].status = "pending"}
Processing == {b \in Batches : row[b].status = "processing"}

\* Mutant: a booting node takes every batch for its own.
Everyone(n) == TRUE
\* claimableWhere(): nobody's, its own, or lapsed.
Claims(n) == owner \in {None, n} \/ lapsed

\* onApplicationBootstrap(), before the node serves anything, and reapProcessingBatches().
ReapFind(n) ==
  /\ reap[n].at = "find"
  /\ LET found == IF reap[n].boot /\ ~Claims(n) THEN {} ELSE Processing
     IN reap' = [reap EXCEPT ![n].at = "save", ![n].mine = [b \in found |-> row[b]]]
  /\ UNCHANGED <<row, run, cancel, flag, inFlight, session, ghosts, bounds>>

\* failOrphanedBatch(): the entity that was read, as FAILED.
ReapSave(n, b) ==
  /\ reap[n].at = "save" /\ b \in DOMAIN reap[n].mine
  /\ row' = [row EXCEPT ![b] = [reap[n].mine[b] EXCEPT !.status = "failed"]]
  /\ reap' = [reap EXCEPT ![n].mine = [x \in DOMAIN @ \ {b} |-> @[x]]]
  /\ UNCHANGED <<run, cancel, flag, inFlight, session, ghosts, bounds>>

ReapEnd(n) ==
  /\ reap[n].at = "save" /\ DOMAIN reap[n].mine = {}
  /\ reap' = [reap EXCEPT ![n] = NoReap]
  /\ up' = up \cup {n}
  /\ UNCHANGED <<row, run, cancel, flag, inFlight, engine, owner, lapsed, eligible, ghosts, bounds>>

-----------------------------------------------------------------------------
(* The session and the processes *)

\* No loop of n has a live engine any more; it keeps the one it looked up.
Deaf(n) == run' = [r \in Runs |-> IF r \in OnNode(n) THEN [run[r] EXCEPT !.live = FALSE] ELSE run[r]]

Counts == events < MaxEvents /\ events' = events + 1 /\ UNCHANGED faults

\* The engine is stopped, lost or, on a node that lost its claim, torn down: it sends no more.
EngineGone(n) ==
  /\ n \in engine
  /\ engine' = engine \ {n}
  /\ Deaf(n)
  /\ Counts
  /\ UNCHANGED <<row, cancel, reap, flag, inFlight, up, owner, lapsed, eligible, ghosts>>

\* releaseUnlessEngineActive(), last in stop(), logout(), forceKill() and a start() that
\* failed, and the release of delete() and of a shutdown: its own claim or a lapsed one.
Release(n) ==
  /\ n \in up /\ n \notin engine
  /\ owner = n \/ lapsed
  /\ owner' = None /\ lapsed' = FALSE
  /\ UNCHANGED <<row, memory, up, engine, eligible, ghosts, bounds>>

\* start(): the claim, and the engine it registers.
Launch(n) == engine' = engine \cup {n} /\ owner' = n /\ lapsed' = FALSE

\* POST start on a node that may claim the session.
StartEngine(n) ==
  /\ n \in up /\ Claims(n)
  /\ owner \in {None, n} \/ Manual
  /\ Launch(n)
  /\ Counts
  /\ UNCHANGED <<row, memory, up, eligible, ghosts>>

\* The engine's reports, the verbs and the reset of a boot write the status and the phone.
Status(n) ==
  /\ n \in up \/ reap[n].boot
  /\ Claims(n)
  /\ eligible' = ~eligible
  /\ Counts
  /\ UNCHANGED <<row, memory, up, engine, owner, lapsed, ghosts>>

ReapAt(n, l) == reap' = [reap EXCEPT ![n].at = l]

\* The sweep lists the session: another node's, lapsed, and worth adopting.
Sweep(n) ==
  /\ n \in up /\ reap[n].at = "idle"
  /\ lapsed /\ owner # n /\ eligible
  /\ ReapAt(n, "listed")
  /\ UNCHANGED <<row, run, cancel, flag, inFlight, session, ghosts, bounds>>

\* Its start() is refused unless the claim still is for the taking; the sweep passes over it.
Adopt(n) ==
  /\ reap[n].at = "listed"
  /\ IF Claims(n)
     THEN Launch(n) /\ ReapAt(n, IF n \in engine THEN "idle" ELSE "start")
     ELSE ReapAt(n, "idle") /\ UNCHANGED <<engine, owner, lapsed>>
  /\ UNCHANGED <<row, run, cancel, flag, inFlight, up, eligible, ghosts, bounds>>

\* The start returns, and the batches are reaped; or it fails, and nothing is.
Adopted(n) ==
  /\ reap[n].at = "start"
  /\ \/ ReapAt(n, "find") /\ UNCHANGED <<run, engine>>
     \/ ReapAt(n, "idle") /\ engine' = engine \ {n} /\ Deaf(n)
  /\ UNCHANGED <<row, cancel, flag, inFlight, up, owner, lapsed, eligible, ghosts, bounds>>

Gone(n) == n \notin up /\ reap[n].at = "idle"

\* Nobody renews the claim of a process that is gone; one that lives does not renew a claim
\* that covers no engine, and may be late with another.
Lapse ==
  /\ owner # None /\ ~lapsed /\ lapsed' = TRUE
  /\ \/ Gone(owner) /\ UNCHANGED bounds
     \/ (owner \notin engine \/ Lapses) /\ Counts
  /\ UNCHANGED <<row, memory, up, engine, owner, eligible, ghosts>>

\* r has stored b, and it is not over for r.
Has(r, b) == Batch(r) = b /\ ~At(r, "insert")

\* n holds b, without the engine to send it.
Deserts(n, b) == \E r \in OnNode(n) : Has(r, b) /\ ~run[r].live

\* A process ends; a shutdown is the end of its engine and a release before.
Crash(n) ==
  /\ ~Gone(n)
  /\ Counts
  /\ up' = up \ {n} /\ engine' = engine \ {n}
  /\ run' = [r \in Runs |-> IF r \in OnNode(n) THEN Ended ELSE run[r]]
  /\ cancel' = [c \in Cancels |-> IF cancel[c].node = n THEN CancelEnded ELSE cancel[c]]
  /\ reap' = [reap EXCEPT ![n] = NoReap]
  /\ flag' = [flag EXCEPT ![n] = NoFlags]
  /\ inFlight' = [inFlight EXCEPT ![n] = 0]
  /\ deserted' = deserted \cup {b \in Batches : Deserts(n, b)}
  /\ UNCHANGED <<row, owner, lapsed, eligible, out, ackedAt, late>>

Boot(n) ==
  /\ Gone(n)
  /\ reap' = [reap EXCEPT ![n] = [NoReap EXCEPT !.at = "find", !.boot = TRUE]]
  /\ UNCHANGED <<row, run, cancel, flag, inFlight, session, ghosts, bounds>>

RunStep(r) ==
  \/ Insert(r) \/ Load(r) \/ Mark(r) \/ NoEngine(r) \/ Gate(r) \/ Send(r)
  \/ Save(r) \/ Sleep(r) \/ Reread(r) \/ Final(r)

ReapStep(n) ==
  Adopt(n) \/ Adopted(n) \/ ReapFind(n) \/ (\E b \in Batches : ReapSave(n, b)) \/ ReapEnd(n)

Next ==
  \/ \E r \in Runs : RunStep(r) \/ RunFails(r)
  \/ \E r \in Runs, n \in Nodes, b \in Batches : Create(r, n, b)
  \/ \E c \in Cancels : CancelWrite(c) \/ CancelFails(c)
  \/ \E c \in Cancels, n \in Nodes, b \in Batches : CancelRead(c, n, b)
  \/ \E n \in Nodes :
       \/ ReapStep(n) \/ Sweep(n) \/ Status(n)
       \/ EngineGone(n) \/ StartEngine(n) \/ Release(n) \/ Crash(n) \/ Boot(n)
  \/ Lapse

Spec == Init /\ [][Next]_vars

\* Queries, hooks, engine calls and timers end, the sweep of a live node comes round, and
\* nobody renews the claim of a dead one.
Fairness ==
  /\ \A r \in Runs : WF_vars(RunStep(r))
  /\ \A n \in Nodes : WF_vars(ReapStep(n)) /\ WF_vars(Sweep(n))
  /\ WF_vars(owner \in Nodes /\ Gone(owner) /\ Lapse)

FairSpec == Spec /\ Fairness

-----------------------------------------------------------------------------
(* Properties *)

RowTypes == [status : {"none", "pending", "processing"} \cup Terminal,
             sent : 0..Total, failed : 0..Total, pending : 0..Total, cancelled : 0..Total]
RunTypes == [at : {"idle", "insert", "load", "mark", "noengine", "gate", "send",
                   "save", "sleep", "reread", "final", "ended"},
             node : Nodes \cup {None}, batch : Batches \cup {None},
             item : 0..Total, mine : RowTypes, live : BOOLEAN]
CancelTypes == [at : {"idle", "write", "ended"}, node : Nodes \cup {None},
                batch : Batches \cup {None}, mine : RowTypes]

\* Type correctness.
TypeOK ==
  /\ row \in [Batches -> RowTypes]
  /\ run \in [Runs -> RunTypes]
  /\ cancel \in [Cancels -> CancelTypes]
  /\ \A n \in Nodes : /\ reap[n].at \in {"idle", "listed", "start", "find", "save"} /\ reap[n].boot \in BOOLEAN
                      /\ DOMAIN reap[n].mine \subseteq Batches
  /\ flag \in [Nodes -> [Batches -> {"none", "on", "off"}]]
  /\ inFlight \in [Nodes -> 0..Cardinality(Runs)]
  /\ up \subseteq Nodes /\ engine \subseteq Nodes /\ owner \in Nodes \cup {None}
  /\ lapsed \in BOOLEAN /\ eligible \in BOOLEAN /\ deserted \subseteq Batches
  /\ out \in [Batches -> 0..Total] /\ late \in [Batches -> 0..Total]
  /\ ackedAt \in [Batches -> Nodes \cup {None}]
  /\ faults \in 0..MaxFaults /\ events \in 0..MaxEvents

\* inFlightBatches counts the batches a process holds in memory, however they end, and
\* stays within BULK_MAX_CONCURRENT_BATCHES.
Held(n) == {r \in OnNode(n) : run[r].at \notin {"idle", "ended"}}
InFlightCounted ==
  \A n \in Nodes : inFlight[n] = Cardinality(Held(n)) /\ (Cap > 0 => inFlight[n] <= Cap)

\* Every message of a stored batch is accounted for exactly once, and no more are reported
\* sent than the engine took, whoever wrote the row last and from whatever it had read.
CountersHonest ==
  \A b \in Batches : row[b].status # "none" =>
    /\ row[b].sent + row[b].failed + row[b].pending + row[b].cancelled = Total
    /\ row[b].sent <= out[b]

\* Once a cancel was answered with success, the node that answered begins no message, and
\* the loop of another node notices at its next progress save, unless a reaper that had
\* read the batch reports it FAILED in between.
CancelStops ==
  \A b \in Batches :
    /\ row[b].status \in {"processing", "cancelled"} => late[b] <= Cadence
    /\ \A r \in Runs : Drives(r, b) /\ ackedAt[b] = run[r].node => late[b] = 0

\* A cancelled batch is never COMPLETED or taken up again; only a reaper that had already
\* read it can still relabel it.
CancelIsKept ==
  [][\A b \in Batches : row[b].status = "cancelled" /\ row'[b].status # "cancelled" =>
       row'[b].status = "failed" /\ \E n \in Nodes : reap[n].at = "save" /\ b \in DOMAIN reap[n].mine]_vars

\* A node that boots never fails a batch whose loop still has an engine to send it with
\* (onApplicationBootstrap: "the caller is told the send failed, and the messages go out
\* anyway").
BootSparesPeers ==
  [][\A n \in Nodes, b \in Batches : reap[n].boot /\ ReapSave(n, b) =>
       ~\E r \in Runs : Drives(r, b) /\ run[r].live]_vars

Attended(b) == \E r \in Runs : Has(r, b)

\* No process holds b, and no sweep will adopt the session: nobody claims it, or a node that
\* lives, without an engine; or its status or its missing phone says not to; or no node lives.
Abandoned(b) ==
  /\ ~Attended(b)
  /\ owner = None \/ owner \in up \ engine \/ ~eligible \/ up = {}

\* A batch in the hands of a process ends: its loop finishes or is cancelled, or, when the
\* process dies, a reaper fails it.  Excepted are a failed query of its own, a session that
\* comes to be one no sweep adopts, and a process that dies after its session has left it.
BatchEnds ==
  \A b \in Batches : row[b].status = "processing" /\ Attended(b) ~>
    row[b].status \in Terminal \/ faults > 0 \/ Abandoned(b) \/ b \in deserted

\* Nothing is sent for a batch that is reported FAILED (onApplicationBootstrap: "the caller
\* is told the send failed, and the messages go out anyway").
FailedIsTrue ==
  [][\A b \in Batches : out'[b] > out[b] => row[b].status # "failed"]_vars
=============================================================================
