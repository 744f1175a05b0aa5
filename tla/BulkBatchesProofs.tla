--------------------------- MODULE BulkBatchesProofs ---------------------------
(***************************************************************************)
(* Bulk batches, for every set of nodes, batches, requests and cancels, and *)
(* every cap, batch size and cadence: type correctness, the exact count of  *)
(* batches in flight under the cap, progress that adds up and never         *)
(* overstates what was sent, cancels that are kept and that stop the loop,  *)
(* and boots that spare the batches a loop can still send.                 *)
(***************************************************************************)
EXTENDS BulkBatches, FiniteSetTheorems, TLAPS

\* Places of a run: its batch has a row; it has read that row.
Stored == {"load", "mark", "noengine", "gate", "send", "save", "sleep", "reread", "final"}
Loaded == Stored \ {"load"}
Holds(r) == run[r].at \notin {"idle", "ended"}

AddsUp(s) == s.sent + s.failed + s.pending + s.cancelled = Total
Fresh(s) == s.sent = 0 /\ s.failed = 0 /\ s.cancelled = 0 /\ s.pending = Total

ReapTypes == [at : {"idle", "listed", "start", "find", "save"}, boot : BOOLEAN,
              mine : UNION {[S -> RowTypes] : S \in SUBSET Batches}]

RowsTyped == row \in [Batches -> RowTypes]
RunsTyped == run \in [Runs -> RunTypes]
CancelsTyped == cancel \in [Cancels -> CancelTypes]
ReapsTyped == reap \in [Nodes -> ReapTypes]
CountsTyped == inFlight \in [Nodes -> Int]
GhostsTyped == out \in [Batches -> 0..Total] /\ late \in [Batches -> 0..Total]
FlagsTyped == flag \in [Nodes -> [Batches -> {"none", "on", "off"}]]
RestTyped ==
  /\ up \subseteq Nodes /\ engine \subseteq Nodes /\ owner \in Nodes \cup {None}
  /\ lapsed \in BOOLEAN /\ eligible \in BOOLEAN /\ deserted \subseteq Batches
  /\ ackedAt \in [Batches -> Nodes \cup {None}]
  /\ faults \in 0..MaxFaults /\ events \in 0..MaxEvents

\* A run has a node and a batch exactly while it holds a reservation.
InUse == \A r \in Runs : IF Holds(r) THEN Node(r) \in Nodes /\ Batch(r) \in Batches
                         ELSE Node(r) = None
CancelsPlaced == \A c \in Cancels :
  cancel[c].at = "write" => cancel[c].node \in Nodes /\ cancel[c].batch \in Batches

Typed == /\ RowsTyped /\ RunsTyped /\ CancelsTyped /\ ReapsTyped /\ CountsTyped
         /\ GhostsTyped /\ FlagsTyped /\ RestTyped /\ InUse /\ CancelsPlaced

\* What row s of a batch says that had o messages sent, and l begun after a cancel.
RowTells(s, o, l) ==
  /\ s.status # "none" => AddsUp(s) /\ s.sent <= o
  /\ s.status = "none" => o = 0 /\ l = 0
  /\ s.status = "pending" => Fresh(s)
  /\ s.status = "processing" => s.cancelled = 0

\* What run s has counted of it, with the row in status st.
RunTells(s, st, o, l) ==
  /\ s.at \in {"load", "mark"} => st \in {"pending", "cancelled"}
  /\ s.at \in Stored => st # "none"
  /\ s.at \in Loaded \ {"mark"} => st # "pending"
  /\ s.at \in {"load", "mark", "noengine"} => o = 0 /\ l = 0
  /\ s.at \in {"mark", "noengine"} => Fresh(s.mine)
  /\ s.at \in Loaded => AddsUp(s.mine) /\ s.mine.sent = o
  /\ s.at \in Loaded \ {"final"} => s.mine.cancelled = 0
  /\ s.at = "final" => s.mine.status \in Terminal
  /\ s.at \in {"gate", "send"} => s.item < Total /\ s.mine.pending = Total - s.item
  /\ s.at \in {"save", "sleep"} => s.item < Total /\ s.mine.pending = Total - s.item - 1
  /\ s.at \in {"gate", "send", "save", "sleep"} => l <= s.item + 1

\* What a cancel or a reaper has read: a batch that may begin, or has begun.
CopyTells(s, o) == AddsUp(s) /\ s.sent <= o /\ s.cancelled = 0

RowsHonest == \A b \in Batches : RowTells(row[b], out[b], late[b])
RunHonest(r) == RunTells(run[r], row[Batch(r)].status, out[Batch(r)], late[Batch(r)])
RunsHonest == \A r \in Runs : run[r].at \in Stored => RunHonest(r)
CancelsHonest == \A c \in Cancels : cancel[c].at = "write" =>
  CopyTells(cancel[c].mine, out[cancel[c].batch]) /\ row[cancel[c].batch].status # "none"
ReapsHonest == \A n \in Nodes : \A b \in DOMAIN reap[n].mine :
  /\ CopyTells(reap[n].mine[b], out[b])
  /\ row[b].status \notin {"none", "pending"}
  /\ \A r \in Runs : Batch(r) = b => run[r].at \notin {"load", "mark"}
\* The unique row gives a batch to one run.
OneRun == \A r, q \in Runs :
  run[r].at \in Stored /\ run[q].at \in Stored /\ Batch(r) = Batch(q) => r = q

Honest == RowsHonest /\ RunsHonest /\ CancelsHonest /\ ReapsHonest /\ OneRun

IInv == Typed /\ Honest /\ InFlightCounted

-----------------------------------------------------------------------------
(* Records *)

LEMMA Numbers == Total \in Nat \ {0} /\ Cap \in Nat /\ MaxFaults \in Nat /\ MaxEvents \in Nat
  BY BulkAssumption

LEMMA EndedIs ==
  /\ NoRow \in RowTypes /\ Idle \in RunTypes /\ Ended \in RunTypes
  /\ Ended.at = "ended" /\ Ended.node = None
  <1>1. NoRow \in RowTypes
    BY Numbers DEF RowTypes, Terminal, NoRow
  <1>2. Idle \in RunTypes
    BY <1>1, Numbers DEF RunTypes, Idle
  <1> QED
    BY <1>1, <1>2 DEF RunTypes, Ended, Idle

\* What is pending counted as cancelled, c in all; a new row.
AsCancelled(m, c) == [m EXCEPT !.status = "cancelled", !.cancelled = c, !.pending = 0]
AsNew(m) == [m EXCEPT !.status = "pending", !.pending = Total]

CancelledAs(k, m, c) ==
  /\ k \in RowTypes /\ k.status = "cancelled" /\ k.cancelled = c /\ k.pending = 0
  /\ k.sent = m.sent /\ k.failed = m.failed

LEMMA CancelledIs ==
  ASSUME NEW m \in RowTypes, NEW c \in 0..Total
  PROVE  CancelledAs(AsCancelled(m, c), m, c)
  <1>1. 0 \in 0..Total
    BY Numbers
  <1>2. AsCancelled(m, c) \in RowTypes
    BY <1>1 DEF RowTypes, Terminal, AsCancelled
  <1>3. AsCancelled(m, c).status = "cancelled"
    BY DEF RowTypes, Terminal, AsCancelled
  <1> QED
    BY <1>2, <1>3 DEF RowTypes, Terminal, AsCancelled, CancelledAs

LEMMA NewIs ==
  ASSUME NEW m \in RowTypes, m.sent = 0, m.failed = 0, m.cancelled = 0
  PROVE  AsNew(m) \in RowTypes /\ AsNew(m).status = "pending" /\ Fresh(AsNew(m))
  <1>1. Total \in 0..Total
    BY Numbers
  <1>2. AsNew(m) \in RowTypes
    BY <1>1 DEF RowTypes, AsNew
  <1> QED
    BY <1>2 DEF RowTypes, AsNew, Fresh

Places == {"insert"} \cup Stored

LEMMA Placed ==
  ASSUME NEW s \in RunTypes, NEW l \in Places
  PROVE  LET t == [s EXCEPT !.at = l] IN
         /\ t \in RunTypes /\ t.at = l
         /\ t.node = s.node /\ t.batch = s.batch /\ t.item = s.item /\ t.mine = s.mine
  BY DEF RunTypes, Places, Stored

LEMMA Outcome ==
  ASSUME NEW s \in RunTypes, AddsUp(s.mine), s.mine.pending > 0
  PROVE  /\ \A t \in {Sent(s), Failed(s)} :
              /\ t \in RunTypes
              /\ t.at = s.at /\ t.node = s.node /\ t.batch = s.batch /\ t.item = s.item
              /\ AddsUp(t.mine) /\ t.mine.pending = s.mine.pending - 1
              /\ t.mine.cancelled = s.mine.cancelled
         /\ Sent(s).mine.sent = s.mine.sent + 1 /\ Failed(s).mine.sent = s.mine.sent
  <1>1. s.mine \in RowTypes
    BY DEF RunTypes
  <1>2. /\ s.mine.sent \in Nat /\ s.mine.failed \in Nat /\ s.mine.pending \in Nat
        /\ s.mine.cancelled \in Nat /\ Total \in Nat
    BY <1>1, Numbers DEF RowTypes
  <1> DEFINE m == [s.mine EXCEPT !.sent = @ + 1, !.pending = @ - 1]
             k == [s.mine EXCEPT !.failed = @ + 1, !.pending = @ - 1]
  <1>3. /\ s.mine.sent + 1 \in 0..Total /\ s.mine.failed + 1 \in 0..Total
        /\ s.mine.pending - 1 \in 0..Total
    BY <1>2 DEF AddsUp
  <1>4. m \in RowTypes /\ k \in RowTypes
    BY <1>1, <1>3 DEF RowTypes
  <1>5. /\ m.sent = s.mine.sent + 1 /\ m.pending = s.mine.pending - 1
        /\ m.failed = s.mine.failed /\ m.cancelled = s.mine.cancelled
        /\ k.sent = s.mine.sent /\ k.pending = s.mine.pending - 1
        /\ k.failed = s.mine.failed + 1 /\ k.cancelled = s.mine.cancelled
    BY <1>1 DEF RowTypes
  <1>6. Sent(s) = [s EXCEPT !.mine = m] /\ Failed(s) = [s EXCEPT !.mine = k]
    BY <1>1 DEF Sent, Failed, RunTypes, RowTypes
  <1>7. AddsUp(m) /\ AddsUp(k)
    BY <1>2, <1>5 DEF AddsUp
  <1> HIDE DEF m, k
  <1>8. /\ Sent(s) \in RunTypes /\ Sent(s).mine = m /\ Failed(s) \in RunTypes /\ Failed(s).mine = k
        /\ \A t \in {Sent(s), Failed(s)} :
             t.at = s.at /\ t.node = s.node /\ t.batch = s.batch /\ t.item = s.item
    BY <1>4, <1>6 DEF RunTypes
  <1> QED
    BY <1>5, <1>7, <1>8

-----------------------------------------------------------------------------
(* A step of one run: what it makes of the run and of its batch *)

\* r goes on as t, or leaves.
Becomes(r, t) ==
  /\ run' = [run EXCEPT ![r] = t]
  /\ \/ /\ t = Ended
        /\ inFlight' = [inFlight EXCEPT ![Node(r)] = @ - 1]
     \/ /\ t.at \in Places /\ t.node = Node(r) /\ t.batch = Batch(r)
        /\ UNCHANGED inFlight

\* Only the batch of r changes, and a status that has begun does not go back.
Touches(b) ==
  /\ row' \in [Batches -> RowTypes]
  /\ \A x \in Batches : x # b => row'[x] = row[x] /\ out'[x] = out[x] /\ late'[x] = late[x]
  /\ out' \in [Batches -> 0..Total] /\ late' \in [Batches -> 0..Total]
  /\ out[b] <= out'[b]
  /\ row[b].status # "none" => row'[b].status # "none"
  /\ row[b].status \notin {"none", "pending"} => row'[b].status # "pending"
  /\ row[b].status = "cancelled" => row'[b].status = "cancelled"
  /\ RowTells(row'[b], out'[b], late'[b])

\* A run that has its batch stored had it before, or stored it now, or touches nothing.
Takes(r, t) ==
  /\ t.at \in Stored => RunTells(t, row'[Batch(r)].status, out'[Batch(r)], late'[Batch(r)])
  /\ t.at \in Stored => run[r].at \in Stored \/ row[Batch(r)].status = "none"
  /\ t.at \in {"load", "mark"} => run[r].at \in {"load", "mark"} \/ row[Batch(r)].status = "none"
  /\ run[r].at = "insert" /\ t.at \notin Stored => UNCHANGED <<row, out, late>>

Moves(r) ==
  /\ \E t \in RunTypes : Becomes(r, t) /\ Takes(r, t)
  /\ Touches(Batch(r))

LEMMA Acting ==
  ASSUME Typed, Honest, NEW r \in Runs, run[r].at \in Places
  PROVE  LET b == Batch(r) IN
         /\ run[r] \in RunTypes /\ Node(r) \in Nodes /\ b \in Batches
         /\ row \in [Batches -> RowTypes] /\ row[b] \in RowTypes
         /\ out \in [Batches -> 0..Total] /\ late \in [Batches -> 0..Total]
         /\ RowTells(row[b], out[b], late[b])
         /\ run[r].at \in Stored => RunTells(run[r], row[b].status, out[b], late[b])
  <1>1. Holds(r)
    BY DEF Holds, Places, Stored
  <1>2. Node(r) \in Nodes /\ Batch(r) \in Batches
    BY <1>1 DEF Typed, InUse
  <1> QED
    BY <1>2 DEF Typed, RowsTyped, RunsTyped, GhostsTyped, Honest, RowsHonest, RunsHonest, RunHonest

\* Nothing of the batch changes.
LEMMA Untouched ==
  ASSUME Typed, Honest, NEW b \in Batches, UNCHANGED <<row, out, late>>
  PROVE  Touches(b)
  BY Numbers DEF Touches, Typed, RowsTyped, GhostsTyped, Honest, RowsHonest

LEMMA LeaveMoves ==
  ASSUME Typed, Honest, NEW r \in Runs, run[r].at \in Places, NEW driven \in BOOLEAN,
         Leave(r, driven), Touches(Batch(r)),
         run[r].at = "insert" => UNCHANGED <<row, out, late>>
  PROVE  Moves(r)
  BY EndedIs DEF Leave, Stops, Moves, Becomes, Takes, Stored, Node

LEMMA AfterMoves ==
  ASSUME Typed, Honest, NEW r \in Runs, run[r].at \in {"gate", "send"}, NEW s \in RunTypes,
         After(r, s), s.node = Node(r), s.batch = Batch(r), s.item = run[r].item,
         AddsUp(s.mine), s.mine.pending = run[r].mine.pending - 1, s.mine.cancelled = 0,
         s.mine.sent = out'[Batch(r)], Touches(Batch(r)), row' = row, late' = late, inFlight' = inFlight
  PROVE  Moves(r)
  <1>1. run[r].at \in Places /\ run[r].at \in Stored /\ run[r].at \in Loaded
    BY DEF Places, Stored, Loaded
  <1>2. PICK l \in {"save", "sleep", "reread"} : run' = [run EXCEPT ![r] = [s EXCEPT !.at = l]]
    BY DEF After
  <1> DEFINE t == [s EXCEPT !.at = l]
  <1>3. /\ t \in RunTypes /\ t.at = l
        /\ t.node = s.node /\ t.batch = s.batch /\ t.item = s.item /\ t.mine = s.mine
    BY <1>2, Placed DEF Places, Stored
  <1>4. run' = [run EXCEPT ![r] = t]
    BY <1>2
  <1> HIDE DEF t
  <1>5. Becomes(r, t)
    BY <1>3, <1>4 DEF Becomes, Places, Stored
  <1>6. /\ row[Batch(r)].status \notin {"none", "pending"}
        /\ run[r].item < Total /\ run[r].mine.pending = Total - run[r].item
        /\ late[Batch(r)] <= run[r].item + 1
    BY <1>1, Acting DEF RunTells, Loaded, Stored
  <1>7. RunTells(t, row'[Batch(r)].status, out'[Batch(r)], late'[Batch(r)])
    BY <1>3, <1>6 DEF RunTells, Stored, Loaded
  <1>8. Takes(r, t)
    BY <1>1, <1>3, <1>7 DEF Takes
  <1> QED
    BY <1>3, <1>5, <1>8 DEF Moves

\* The item has failed: the loop goes on, or ends with stopOnError.
LEMMA FailureMoves ==
  ASSUME Typed, Honest, NEW r \in Runs, run[r].at \in {"gate", "send"}, AfterFailure(r),
         UNCHANGED <<row, out, late, inFlight>>
  PROVE  Moves(r)
  <1>1. run[r].at \in Places /\ run[r].at \in Stored /\ run[r].at \in Loaded
    BY DEF Places, Stored, Loaded
  <1>2. run[r] \in RunTypes /\ Node(r) \in Nodes /\ Batch(r) \in Batches /\ Touches(Batch(r))
    BY <1>1, Acting, Untouched
  <1>3. /\ AddsUp(run[r].mine) /\ run[r].mine.sent = out[Batch(r)] /\ run[r].mine.cancelled = 0
        /\ run[r].item < Total /\ run[r].mine.pending = Total - run[r].item
        /\ row[Batch(r)].status \notin {"none", "pending"}
    BY <1>1, Acting DEF RunTells, Stored, Loaded
  <1>4. run[r].item \in 0..Total /\ run[r].mine.pending > 0
    BY <1>2, <1>3, Numbers DEF RunTypes
  <1> DEFINE s == Failed(run[r])
  <1>5. /\ s \in RunTypes /\ s.at = run[r].at /\ s.node = Node(r) /\ s.batch = Batch(r)
        /\ s.item = run[r].item /\ AddsUp(s.mine) /\ s.mine.pending = run[r].mine.pending - 1
        /\ s.mine.cancelled = 0 /\ s.mine.sent = out[Batch(r)]
    BY <1>2, <1>3, <1>4, Outcome DEF Node, Batch
  <1>6. CASE After(r, s)
    BY <1>2, <1>5, <1>6, AfterMoves
  <1>7. CASE run' = [run EXCEPT ![r] = [s EXCEPT !.at = "reread", !.mine.status = "failed"]]
    <2> DEFINE t == [s EXCEPT !.at = "reread", !.mine = [s.mine EXCEPT !.status = "failed"]]
    <2>1. s.mine \in RowTypes
      BY <1>5 DEF RunTypes
    <2>2. [s.mine EXCEPT !.status = "failed"] \in RowTypes
      BY <2>1 DEF RowTypes, Terminal
    <2>3. /\ t \in RunTypes /\ t.at = "reread" /\ t.node = s.node /\ t.batch = s.batch
          /\ t.mine = [s.mine EXCEPT !.status = "failed"]
      BY <1>5, <2>2 DEF RunTypes
    <2>4. /\ t.mine.sent = s.mine.sent /\ t.mine.failed = s.mine.failed
          /\ t.mine.pending = s.mine.pending /\ t.mine.cancelled = s.mine.cancelled
      BY <2>1, <2>3 DEF RowTypes
    <2>5. run' = [run EXCEPT ![r] = t]
      BY <1>7
    <2> HIDE DEF t, s
    <2>6. Becomes(r, t)
      BY <1>5, <2>3, <2>5 DEF Becomes, Places, Stored
    <2>7. RunTells(t, row'[Batch(r)].status, out'[Batch(r)], late'[Batch(r)])
      BY <1>3, <1>5, <2>3, <2>4 DEF RunTells, Stored, Loaded, AddsUp
    <2> QED
      BY <1>1, <1>2, <2>3, <2>6, <2>7 DEF Moves, Takes
  <1> QED
    BY <1>6, <1>7 DEF AfterFailure

\* The loop turns to item i.
LEMMA TurnMoves ==
  ASSUME Typed, Honest, NEW r \in Runs, run[r].at \in {"mark", "sleep"},
         NEW s \in RunTypes, NEW i \in 0..Total, Turn(r, s, i), UNCHANGED <<out, inFlight>>,
         s.node = Node(r), s.batch = Batch(r), s.mine = run[r].mine,
         s.mine.pending = Total - i, late[Batch(r)] <= i,
         row' \in [Batches -> RowTypes],
         \A x \in Batches : x # Batch(r) => row'[x] = row[x],
         row'[Batch(r)].status \notin {"none", "pending"},
         row[Batch(r)].status = "cancelled" => row'[Batch(r)].status = "cancelled",
         RowTells(row'[Batch(r)], out[Batch(r)], 0)
  PROVE  Moves(r)
  <1> DEFINE b == Batch(r)
  <1>1. run[r].at \in Places /\ run[r].at \in Stored /\ run[r].at \in Loaded
    BY DEF Places, Stored, Loaded
  <1>2. /\ b \in Batches /\ out \in [Batches -> 0..Total] /\ late \in [Batches -> 0..Total]
        /\ AddsUp(s.mine) /\ s.mine.sent = out[b] /\ s.mine.cancelled = 0
    BY <1>1, Acting DEF RunTells, Stored, Loaded
  <1>3. PICK l \in {"gate", "reread"} :
          /\ run' = [run EXCEPT ![r] = [s EXCEPT !.at = l, !.item = i]]
          /\ IF l = "gate" THEN i < Total /\ Counted(r) ELSE UNCHANGED late
    BY DEF Turn
  <1> DEFINE t == [s EXCEPT !.at = l, !.item = i]
  <1>4. /\ t \in RunTypes /\ t.at = l /\ t.node = s.node /\ t.batch = s.batch /\ t.item = i
        /\ t.mine = s.mine
    BY DEF RunTypes
  <1>5. run' = [run EXCEPT ![r] = t]
    BY <1>3
  <1> HIDE DEF t
  <1>6. /\ late' \in [Batches -> 0..Total] /\ \A x \in Batches : x # b => late'[x] = late[x]
        /\ l = "gate" => i < Total /\ late'[b] <= i + 1
    BY <1>2, <1>3, Numbers DEF Counted
  <1> HIDE DEF b
  <1>7. RowTells(row'[b], out'[b], late'[b])
    BY <1>2 DEF RowTells, b
  <1>8. Touches(b)
    BY <1>2, <1>6, <1>7 DEF Touches, b
  <1>9. RunTells(t, row'[b].status, out'[b], late'[b])
    BY <1>2, <1>4, <1>6 DEF RunTells, Stored, Loaded, b
  <1>10. Becomes(r, t)
    BY <1>4, <1>5 DEF Becomes, Places, Stored, b
  <1> QED
    BY <1>1, <1>4, <1>8, <1>9, <1>10 DEF Moves, Takes, b

-----------------------------------------------------------------------------
(* Every step of a run that holds a reservation *)

LEMMA InsertMoves ==
  ASSUME Typed, Honest, NEW r \in Runs, Insert(r)
  PROVE  Moves(r)
  <1>1. run[r].at = "insert" /\ run[r].at \in Places
    BY DEF Insert, At, Places
  <1>2. /\ run[r] \in RunTypes /\ Batch(r) \in Batches /\ row \in [Batches -> RowTypes]
        /\ RowTells(row[Batch(r)], out[Batch(r)], late[Batch(r)])
        /\ out \in [Batches -> 0..Total] /\ late \in [Batches -> 0..Total]
    BY <1>1, Acting
  <1>3. CASE row[Batch(r)].status # "none"
    BY <1>1, <1>2, <1>3, LeaveMoves, Untouched DEF Insert, ghosts
  <1>4. CASE row[Batch(r)].status = "none"
    <2> DEFINE n == AsNew(NoRow)
               t == [run[r] EXCEPT !.at = "load"]
    <2>1. n \in RowTypes /\ n.status = "pending" /\ Fresh(n)
      <3>1. NoRow.sent = 0 /\ NoRow.failed = 0 /\ NoRow.cancelled = 0
        BY DEF NoRow
      <3> QED
        BY <3>1, EndedIs, NewIs
    <2>2. row' = [row EXCEPT ![Batch(r)] = n] /\ UNCHANGED <<out, late, inFlight>>
      BY <1>4 DEF Insert, ghosts, AsNew
    <2> HIDE DEF n
    <2>3. row' \in [Batches -> RowTypes] /\ row'[Batch(r)] = n
      BY <1>2, <2>1, <2>2
    <2>4. out[Batch(r)] = 0 /\ late[Batch(r)] = 0
      BY <1>2, <1>4 DEF RowTells
    <2>5. RowTells(n, 0, 0)
      BY <2>1, Numbers DEF RowTells, Fresh, AddsUp
    <2>6. Touches(Batch(r))
      BY <1>2, <1>4, <2>1, <2>2, <2>3, <2>4, <2>5 DEF Touches
    <2>7. /\ t \in RunTypes /\ t.at = "load" /\ t.node = Node(r) /\ t.batch = Batch(r)
          /\ run' = [run EXCEPT ![r] = t]
      BY <1>2, <1>4, Placed DEF Places, Stored, Insert, To, Node, Batch
    <2> HIDE DEF t
    <2>8. Becomes(r, t)
      BY <2>2, <2>7 DEF Becomes, Places, Stored
    <2>9. Takes(r, t)
      BY <1>4, <2>1, <2>2, <2>3, <2>4, <2>7 DEF Takes, RunTells, Stored, Loaded
    <2> QED
      BY <2>6, <2>7, <2>8, <2>9 DEF Moves
  <1> QED
    BY <1>3, <1>4

LEMMA LoadMoves ==
  ASSUME Typed, Honest, NEW r \in Runs, Load(r)
  PROVE  Moves(r)
  <1>1. run[r].at = "load" /\ run[r].at \in Places /\ run[r].at \in Stored
    BY DEF Load, At, Places, Stored
  <1>2. /\ run[r] \in RunTypes /\ Batch(r) \in Batches /\ row[Batch(r)] \in RowTypes
        /\ RowTells(row[Batch(r)], out[Batch(r)], late[Batch(r)])
        /\ RunTells(run[r], row[Batch(r)].status, out[Batch(r)], late[Batch(r)])
        /\ Touches(Batch(r))
    BY <1>1, Acting, Untouched DEF Load, ghosts
  <1>3. CASE Leave(r, TRUE)
    BY <1>1, <1>2, <1>3, LeaveMoves
  <1>4. CASE /\ NotCancelled(Batch(r)) /\ UNCHANGED inFlight
             /\ run' = [run EXCEPT ![r].at = "mark", ![r].mine = row[Batch(r)]]
    <2> DEFINE t == [run[r] EXCEPT !.at = "mark", !.mine = row[Batch(r)]]
    <2>1. /\ t \in RunTypes /\ t.at = "mark" /\ t.node = Node(r) /\ t.batch = Batch(r)
          /\ t.mine = row[Batch(r)]
      BY <1>2 DEF RunTypes, Node, Batch
    <2>2. run' = [run EXCEPT ![r] = t]
      BY <1>2, <1>4 DEF RunTypes
    <2> HIDE DEF t
    <2>3. row[Batch(r)].status = "pending" /\ Fresh(t.mine) /\ AddsUp(t.mine)
      BY <1>1, <1>2, <1>4, <2>1 DEF RunTells, RowTells, NotCancelled
    <2>4. out[Batch(r)] = 0 /\ late[Batch(r)] = 0
      BY <1>1, <1>2 DEF RunTells
    <2>5. Becomes(r, t)
      BY <1>4, <2>1, <2>2 DEF Becomes, Places, Stored
    <2>6. UNCHANGED <<row, out, late>>
      BY DEF Load, ghosts
    <2>7. Takes(r, t)
      BY <1>1, <2>1, <2>3, <2>4, <2>6 DEF Takes, RunTells, Stored, Loaded, Fresh
    <2> QED
      BY <1>2, <2>1, <2>5, <2>7 DEF Moves
  <1> QED
    BY <1>3, <1>4 DEF Load

LEMMA MarkMoves ==
  ASSUME Typed, Honest, NEW r \in Runs, Mark(r)
  PROVE  Moves(r)
  <1> DEFINE b == Batch(r)
  <1>1. run[r].at = "mark" /\ run[r].at \in Places /\ run[r].at \in Stored /\ run[r].at \in Loaded
    BY DEF Mark, At, Places, Stored, Loaded
  <1>2. /\ run[r] \in RunTypes /\ b \in Batches /\ row[b] \in RowTypes /\ row \in [Batches -> RowTypes]
        /\ RowTells(row[b], out[b], late[b])
        /\ RunTells(run[r], row[b].status, out[b], late[b])
        /\ out \in [Batches -> 0..Total] /\ late \in [Batches -> 0..Total]
    BY <1>1, Acting
  <1>3. CASE Leave(r, TRUE) /\ UNCHANGED <<row, late>>
    BY <1>1, <1>2, <1>3, LeaveMoves, Untouched DEF Mark
  <1>4. CASE MayStart(b) /\ row' = [row EXCEPT ![b].status = "processing"] /\ UNCHANGED inFlight
    <2> DEFINE n == [row[b] EXCEPT !.status = "processing"]
    <2>1. n \in RowTypes /\ n.status = "processing"
      BY <1>2 DEF RowTypes
    <2>2. /\ n.sent = row[b].sent /\ n.failed = row[b].failed
          /\ n.pending = row[b].pending /\ n.cancelled = row[b].cancelled
      BY <1>2 DEF RowTypes
    <2>3. row' = [row EXCEPT ![b] = n] /\ UNCHANGED <<out, inFlight>>
      BY <1>4 DEF Mark
    <2> HIDE DEF n
    <2>4. row' \in [Batches -> RowTypes] /\ row'[b] = n
      BY <1>2, <2>1, <2>3
    <2>5. /\ row[b].status = "pending" /\ out[b] = 0 /\ late[b] = 0
          /\ Fresh(run[r].mine) /\ AddsUp(run[r].mine) /\ Fresh(row[b])
      BY <1>1, <1>2, <1>4 DEF RunTells, RowTells, MayStart, NotCancelled
    <2>6. RowTells(n, out[b], 0)
      BY <2>1, <2>2, <2>5, Numbers DEF RowTells, Fresh, AddsUp
    <2>7. CASE Turn(r, [run[r] EXCEPT !.live = TRUE], 0)
      <3> DEFINE s == [run[r] EXCEPT !.live = TRUE]
      <3>1. s \in RunTypes /\ s.node = Node(r) /\ s.batch = b /\ s.mine = run[r].mine
        BY <1>2 DEF RunTypes, Node, Batch
      <3> HIDE DEF s
      <3>2. Turn(r, s, 0)
        BY <2>7 DEF s
      <3>3. s.mine.pending = Total - 0 /\ 0 \in 0..Total /\ late[b] <= 0
        BY <2>5, <3>1, Numbers DEF Fresh
      <3> QED
        BY <1>1, <2>1, <2>3, <2>4, <2>5, <2>6, <3>1, <3>2, <3>3, TurnMoves
    <2>8. CASE To(r, "noengine") /\ UNCHANGED late
      <3> DEFINE t == [run[r] EXCEPT !.at = "noengine"]
      <3>1. /\ t \in RunTypes /\ t.at = "noengine" /\ t.node = Node(r) /\ t.batch = b
            /\ t.mine = run[r].mine /\ run' = [run EXCEPT ![r] = t]
        BY <1>2, <2>8, Placed DEF Places, Stored, To, Node, Batch
      <3> HIDE DEF t
      <3>2. Becomes(r, t)
        BY <2>3, <3>1 DEF Becomes, Places, Stored
      <3>3. RunTells(t, row'[b].status, out'[b], late'[b])
        BY <2>1, <2>3, <2>4, <2>5, <2>8, <3>1 DEF RunTells, Stored, Loaded, Fresh
      <3>4. Touches(b)
        BY <1>2, <2>1, <2>3, <2>4, <2>5, <2>6, <2>8 DEF Touches
      <3> QED
        BY <1>1, <3>1, <3>2, <3>3, <3>4 DEF Moves, Takes
    <2> QED
      BY <2>7, <2>8, <1>4 DEF Mark
  <1> QED
    BY <1>3, <1>4 DEF Mark

\* A write of a row by its run, whose status has begun.
LEMMA RowWritten ==
  ASSUME Typed, Honest, NEW b \in Batches, NEW n \in RowTypes, row' = [row EXCEPT ![b] = n],
         UNCHANGED <<out, late>>, n.status \notin {"none", "pending"},
         row[b].status = "cancelled" => n.status = "cancelled",
         RowTells(n, out[b], late[b])
  PROVE  Touches(b) /\ row'[b] = n
  BY Numbers DEF Touches, Typed, RowsTyped, GhostsTyped

LEMMA NoEngineMoves ==
  ASSUME Typed, Honest, NEW r \in Runs, NoEngine(r)
  PROVE  Moves(r)
  <1> DEFINE b == Batch(r)
             n == [row[b] EXCEPT !.status = "failed"]
  <1>1. run[r].at = "noengine" /\ run[r].at \in Places /\ run[r].at \in Stored /\ run[r].at \in Loaded \ {"mark"}
    BY DEF NoEngine, At, Places, Stored, Loaded
  <1>2. /\ b \in Batches /\ row[b] \in RowTypes /\ RowTells(row[b], out[b], late[b])
        /\ row[b].status \notin {"none", "pending"}
    BY <1>1, Acting DEF RunTells
  <1>3. Leave(r, TRUE) /\ UNCHANGED <<out, late>>
    BY DEF NoEngine, ghosts
  <1>4. CASE ~NotCancelled(b)
    BY <1>1, <1>2, <1>3, <1>4, LeaveMoves, Untouched DEF NoEngine
  <1>5. CASE NotCancelled(b)
    <2>1. n \in RowTypes /\ n.status = "failed"
      BY <1>2 DEF RowTypes, Terminal
    <2>2. /\ n.sent = row[b].sent /\ n.failed = row[b].failed
          /\ n.pending = row[b].pending /\ n.cancelled = row[b].cancelled
      BY <1>2 DEF RowTypes
    <2>3. row' = [row EXCEPT ![b] = n]
      BY <1>5 DEF NoEngine
    <2> HIDE DEF n
    <2>4. RowTells(n, out[b], late[b])
      BY <1>2, <2>1, <2>2 DEF RowTells, AddsUp
    <2>5. Touches(b)
      BY <1>2, <1>3, <1>5, <2>1, <2>3, <2>4, RowWritten DEF NotCancelled
    <2> QED
      BY <1>1, <1>3, <2>5, LeaveMoves
  <1> QED
    BY <1>4, <1>5

LEMMA GateMoves ==
  ASSUME Typed, Honest, NEW r \in Runs, Gate(r)
  PROVE  Moves(r)
  <1>1. run[r].at = "gate" /\ run[r].at \in Places /\ run[r].at \in Stored /\ UNCHANGED <<row, out, late, inFlight>>
    BY DEF Gate, At, Places, Stored, ghosts
  <1>2. CASE AfterFailure(r)
    BY <1>1, <1>2, FailureMoves
  <1>3. CASE To(r, "send")
    <2> DEFINE t == [run[r] EXCEPT !.at = "send"]
    <2>1. /\ run[r] \in RunTypes /\ Batch(r) \in Batches /\ Touches(Batch(r))
          /\ RunTells(run[r], row[Batch(r)].status, out[Batch(r)], late[Batch(r)])
      BY <1>1, Acting, Untouched
    <2>2. /\ t \in RunTypes /\ t.at = "send" /\ t.node = Node(r) /\ t.batch = Batch(r)
          /\ t.item = run[r].item /\ t.mine = run[r].mine /\ run' = [run EXCEPT ![r] = t]
      BY <1>3, <2>1, Placed DEF Places, Stored, To, Node, Batch
    <2> HIDE DEF t
    <2>3. Becomes(r, t)
      BY <1>1, <2>2 DEF Becomes, Places, Stored
    <2>4. RunTells(t, row'[Batch(r)].status, out'[Batch(r)], late'[Batch(r)])
      BY <1>1, <2>1, <2>2 DEF RunTells, Stored, Loaded
    <2> QED
      BY <1>1, <2>1, <2>2, <2>3, <2>4 DEF Moves, Takes
  <1> QED
    BY <1>2, <1>3 DEF Gate

LEMMA SendMoves ==
  ASSUME Typed, Honest, NEW r \in Runs, Send(r)
  PROVE  Moves(r)
  <1> DEFINE b == Batch(r)
  <1>1. /\ run[r].at = "send" /\ run[r].at \in Places /\ run[r].at \in Stored /\ run[r].at \in Loaded \ {"final"}
        /\ UNCHANGED <<row, late, inFlight>>
    BY DEF Send, At, Places, Stored, Loaded
  <1>2. CASE AfterFailure(r) /\ UNCHANGED out
    BY <1>1, <1>2, FailureMoves
  <1>3. CASE After(r, Sent(run[r])) /\ out' = [out EXCEPT ![b] = @ + 1]
    <2>1. /\ run[r] \in RunTypes /\ b \in Batches /\ row \in [Batches -> RowTypes]
          /\ out \in [Batches -> 0..Total] /\ late \in [Batches -> 0..Total]
          /\ RowTells(row[b], out[b], late[b])
          /\ RunTells(run[r], row[b].status, out[b], late[b])
      BY <1>1, Acting
    <2>2. /\ AddsUp(run[r].mine) /\ run[r].mine.sent = out[b] /\ run[r].mine.cancelled = 0
          /\ run[r].item < Total /\ run[r].mine.pending = Total - run[r].item
          /\ row[b].status \notin {"none", "pending"}
      BY <1>1, <2>1 DEF RunTells, Loaded
    <2>3. run[r].item \in 0..Total /\ run[r].mine.pending > 0 /\ run[r].mine \in RowTypes
      BY <2>1, <2>2, Numbers DEF RunTypes
    <2>4. out[b] + 1 \in 0..Total
      <3>1. run[r].mine.sent \in Nat /\ run[r].mine.failed \in Nat /\ run[r].mine.pending \in Nat
        BY <2>3, Numbers DEF RowTypes
      <3> QED
        BY <2>2, <2>3, <3>1, Numbers DEF AddsUp
    <2>5. out' \in [Batches -> 0..Total] /\ out'[b] = out[b] + 1 /\ \A x \in Batches : x # b => out'[x] = out[x]
      BY <1>3, <2>1, <2>4
    <2>6. row[b].sent \in Nat
      BY <2>1, Numbers DEF RowTypes
    <2>7. RowTells(row'[b], out'[b], late'[b])
      BY <1>1, <2>1, <2>2, <2>5, <2>6, Numbers DEF RowTells
    <2>8. Touches(b)
      BY <1>1, <2>1, <2>2, <2>5, <2>7, Numbers DEF Touches
    <2> DEFINE s == Sent(run[r])
    <2>9. /\ s \in RunTypes /\ s.node = Node(r) /\ s.batch = b /\ s.item = run[r].item
          /\ AddsUp(s.mine) /\ s.mine.pending = run[r].mine.pending - 1
          /\ s.mine.cancelled = 0 /\ s.mine.sent = out'[b]
      BY <2>1, <2>2, <2>3, <2>5, Outcome DEF Node, Batch
    <2> HIDE DEF s, b
    <2>10. After(r, s)
      BY <1>3 DEF s
    <2> QED
      BY <1>1, <2>8, <2>9, <2>10, AfterMoves DEF b
  <1> QED
    BY <1>2, <1>3 DEF Send

LEMMA SleepMoves ==
  ASSUME Typed, Honest, NEW r \in Runs, Sleep(r)
  PROVE  Moves(r)
  <1> DEFINE b == Batch(r)
  <1>1. /\ run[r].at = "sleep" /\ run[r].at \in Places /\ run[r].at \in Stored /\ run[r].at \in Loaded
        /\ UNCHANGED <<row, out, inFlight>> /\ Turn(r, run[r], run[r].item + 1)
    BY DEF Sleep, At, Places, Stored, Loaded
  <1>2. /\ run[r] \in RunTypes /\ b \in Batches /\ row \in [Batches -> RowTypes]
        /\ RowTells(row[b], out[b], late[b])
        /\ RunTells(run[r], row[b].status, out[b], late[b])
    BY <1>1, Acting
  <1>3. /\ run[r].item < Total /\ run[r].mine.pending = Total - run[r].item - 1
        /\ late[b] <= run[r].item + 1 /\ row[b].status \notin {"none", "pending"}
    BY <1>1, <1>2 DEF RunTells, Loaded
  <1>4. run[r].item + 1 \in 0..Total /\ run[r].mine.pending = Total - (run[r].item + 1)
    BY <1>2, <1>3, Numbers DEF RunTypes
  <1>5. RowTells(row'[b], out[b], 0)
    BY <1>1, <1>2 DEF RowTells
  <1>6. run[r].node = Node(r) /\ run[r].batch = Batch(r)
    BY DEF Node, Batch
  <1> QED
    BY <1>1, <1>2, <1>3, <1>4, <1>5, <1>6, TurnMoves

LEMMA SaveMoves ==
  ASSUME Typed, Honest, NEW r \in Runs, Save(r)
  PROVE  Moves(r)
  <1> DEFINE b == Batch(r)
             m == run[r].mine
  <1>1. /\ run[r].at = "save" /\ run[r].at \in Places /\ run[r].at \in Stored /\ run[r].at \in Loaded \ {"final"}
        /\ UNCHANGED <<out, late, inFlight>>
    BY DEF Save, At, Places, Stored, Loaded, ghosts
  <1>2. /\ run[r] \in RunTypes /\ b \in Batches /\ row[b] \in RowTypes /\ row \in [Batches -> RowTypes]
        /\ RowTells(row[b], out[b], late[b])
        /\ RunTells(run[r], row[b].status, out[b], late[b])
    BY <1>1, Acting
  <1>3. m \in RowTypes
    BY <1>2 DEF RunTypes
  <1>4. /\ m.sent \in Nat /\ m.failed \in Nat /\ m.pending \in Nat /\ m.pending <= Total
    BY <1>3, Numbers DEF RowTypes
  <1>5. /\ AddsUp(m) /\ m.sent = out[b] /\ m.cancelled = 0
        /\ run[r].item < Total /\ m.pending = Total - run[r].item - 1
        /\ late[b] <= run[r].item + 1 /\ row[b].status \notin {"none", "pending"}
    BY <1>1, <1>2 DEF RunTells, Loaded
  <1>6. CASE NotCancelled(b)
    <2> DEFINE n == [m EXCEPT !.status = row[b].status]
    <2>1. n \in RowTypes /\ n.status = row[b].status
      BY <1>2, <1>3 DEF RowTypes
    <2>2. n.sent = m.sent /\ n.failed = m.failed /\ n.pending = m.pending /\ n.cancelled = m.cancelled
      BY <1>3 DEF RowTypes
    <2>3. row' = [row EXCEPT ![b] = n]
      BY <1>6 DEF Save, Progress
    <2>4. PICK l \in {"sleep", "reread"} : run' = [run EXCEPT ![r].at = l]
      BY <1>6 DEF Save
    <2> HIDE DEF n
    <2>5. RowTells(n, out[b], late[b])
      BY <1>4, <1>5, <2>1, <2>2 DEF RowTells, AddsUp
    <2>6. Touches(b) /\ row'[b] = n
      BY <1>1, <1>2, <1>5, <2>1, <2>3, <2>5, RowWritten
    <2> DEFINE t == [run[r] EXCEPT !.at = l]
    <2>7. /\ t \in RunTypes /\ t.at = l /\ t.node = Node(r) /\ t.batch = b
          /\ t.item = run[r].item /\ t.mine = m /\ run' = [run EXCEPT ![r] = t]
      BY <1>2, <2>4, Placed DEF Places, Stored, Node, Batch
    <2> HIDE DEF t, m
    <2>8. Becomes(r, t)
      BY <1>1, <2>7 DEF Becomes, Places, Stored
    <2>9. RunTells(t, row'[b].status, out'[b], late'[b])
      BY <1>1, <1>5, <2>1, <2>6, <2>7 DEF RunTells, Stored, Loaded
    <2> QED
      BY <1>1, <2>6, <2>7, <2>8, <2>9 DEF Moves, Takes
  <1>7. CASE ~NotCancelled(b)
    <2> DEFINE k == AsCancelled(m, m.cancelled + m.pending)
    <2>1. m.cancelled + m.pending \in 0..Total
      BY <1>4, <1>5, Numbers
    <2>2. /\ k \in RowTypes /\ k.status = "cancelled" /\ k.sent = m.sent /\ k.failed = m.failed
          /\ k.cancelled = m.cancelled + m.pending /\ k.pending = 0
      BY <1>3, <2>1, CancelledIs DEF CancelledAs
    <2>3. AddsUp(k)
      BY <1>4, <1>5, <2>2, Numbers DEF AddsUp
    <2>4. /\ run' = [run EXCEPT ![r].at = "final", ![r].mine.status = "cancelled",
                                ![r].mine.cancelled = @ + run[r].mine.pending, ![r].mine.pending = 0]
          /\ UNCHANGED row
      BY <1>7 DEF Save
    <2> DEFINE t == [run[r] EXCEPT !.at = "final", !.mine = k]
    <2>5. run' = [run EXCEPT ![r] = t]
      <3> DEFINE w == [run[r] EXCEPT !.at = "final", !.mine.status = "cancelled",
                                     !.mine.cancelled = @ + m.pending, !.mine.pending = 0]
      <3>1. run \in [Runs -> RunTypes]
        BY DEF Typed, RunsTyped
      <3>2. run' = [run EXCEPT ![r] = w]
        BY <2>4, <3>1
      <3>3. w = [run[r] EXCEPT !.at = "final", !.mine = w.mine]
        BY <1>2 DEF RunTypes
      <3>4. w.mine = [m EXCEPT !.status = "cancelled", !.cancelled = @ + m.pending, !.pending = 0]
        BY <1>2, <1>3 DEF RunTypes
      <3>5. w.mine = k
        BY <1>3, <3>4 DEF AsCancelled, RowTypes
      <3> HIDE DEF w, k
      <3> QED
        BY <3>2, <3>3, <3>5
    <2>6. /\ t \in RunTypes /\ t.at = "final" /\ t.node = Node(r) /\ t.batch = b /\ t.mine = k
      BY <1>2, <2>2 DEF RunTypes, Node, Batch
    <2> HIDE DEF t, k, m
    <2>7. Becomes(r, t)
      BY <1>1, <2>5, <2>6 DEF Becomes, Places, Stored
    <2>8. RunTells(t, row'[b].status, out'[b], late'[b])
      BY <1>1, <1>5, <2>2, <2>3, <2>4, <2>6 DEF RunTells, Stored, Loaded, Terminal
    <2>9. Touches(b)
      BY <1>1, <1>2, <2>4, Untouched
    <2> QED
      BY <1>1, <2>6, <2>7, <2>8, <2>9 DEF Moves, Takes
  <1> QED
    BY <1>6, <1>7

LEMMA RereadMoves ==
  ASSUME Typed, Honest, NEW r \in Runs, Reread(r)
  PROVE  Moves(r)
  <1> DEFINE b == Batch(r)
             m == run[r].mine
  <1>1. /\ run[r].at = "reread" /\ run[r].at \in Places /\ run[r].at \in Stored /\ run[r].at \in Loaded \ {"mark", "final"}
        /\ UNCHANGED <<row, out, late, inFlight>>
    BY DEF Reread, At, Places, Stored, Loaded, ghosts
  <1>2. /\ run[r] \in RunTypes /\ b \in Batches
        /\ RunTells(run[r], row[b].status, out[b], late[b]) /\ Touches(b)
    BY <1>1, Acting, Untouched
  <1>3. m \in RowTypes
    BY <1>2 DEF RunTypes
  <1>4. AddsUp(m) /\ m.sent = out[b] /\ m.cancelled = 0 /\ row[b].status \notin {"none", "pending"}
    BY <1>1, <1>2 DEF RunTells
  <1>5. m.sent \in Nat /\ m.failed \in Nat /\ m.pending \in Nat
    BY <1>3, Numbers DEF RowTypes
  <1> DEFINE k == AsCancelled(m, m.pending)
             f == [m EXCEPT !.status = Resolve(m)]
  <1>6. /\ k \in RowTypes /\ k.status \in Terminal /\ k.sent = m.sent /\ k.failed = m.failed
        /\ k.cancelled = m.pending /\ k.pending = 0
    <2>1. m.pending \in 0..Total
      BY <1>3 DEF RowTypes
    <2> QED
      BY <1>3, <2>1, CancelledIs DEF CancelledAs, Terminal
  <1>7. Resolve(m) \in Terminal
    BY DEF Resolve, Terminal
  <1>8. /\ f \in RowTypes /\ f.status \in Terminal /\ f.sent = m.sent /\ f.failed = m.failed
        /\ f.cancelled = m.cancelled /\ f.pending = m.pending
    BY <1>3, <1>7 DEF RowTypes
  <1>9. AddsUp(k) /\ AddsUp(f)
    BY <1>4, <1>5, <1>6, <1>8, Numbers DEF AddsUp
  <1>10. PICK n \in {k, f} : run' = [run EXCEPT ![r].at = "final", ![r].mine = n]
    BY DEF Reread, AsCancelled
  <1> HIDE DEF k, f, m
  <1> DEFINE t == [run[r] EXCEPT !.at = "final", !.mine = n]
  <1>11. n \in RowTypes /\ n.status \in Terminal /\ AddsUp(n) /\ n.sent = out[b]
    BY <1>4, <1>6, <1>8, <1>9
  <1>12. run' = [run EXCEPT ![r] = t]
    BY <1>2, <1>10 DEF RunTypes
  <1>13. /\ t \in RunTypes /\ t.at = "final" /\ t.node = Node(r) /\ t.batch = b /\ t.mine = n
    BY <1>2, <1>11 DEF RunTypes, Node, Batch
  <1> HIDE DEF t
  <1>14. Becomes(r, t)
    BY <1>1, <1>12, <1>13 DEF Becomes, Places, Stored
  <1>15. RunTells(t, row'[b].status, out'[b], late'[b])
    BY <1>1, <1>4, <1>11, <1>13 DEF RunTells, Stored, Loaded
  <1> QED
    BY <1>1, <1>2, <1>13, <1>14, <1>15 DEF Moves, Takes

LEMMA FinalMoves ==
  ASSUME Typed, Honest, NEW r \in Runs, Final(r)
  PROVE  Moves(r)
  <1> DEFINE b == Batch(r)
             m == run[r].mine
  <1>1. /\ run[r].at = "final" /\ run[r].at \in Places /\ run[r].at \in Stored /\ run[r].at \in Loaded
        /\ Leave(r, TRUE) /\ UNCHANGED <<out, late>>
    BY DEF Final, At, Places, Stored, Loaded, ghosts
  <1>2. /\ run[r] \in RunTypes /\ b \in Batches /\ row[b] \in RowTypes
        /\ RowTells(row[b], out[b], late[b])
        /\ RunTells(run[r], row[b].status, out[b], late[b])
    BY <1>1, Acting
  <1>3. m \in RowTypes /\ AddsUp(m) /\ m.sent = out[b]
    BY <1>1, <1>2 DEF RunTypes, RunTells
  <1>4. CASE UNCHANGED row
    BY <1>1, <1>2, <1>4, LeaveMoves, Untouched
  <1>5. CASE MayFinish(r) /\ row' = [row EXCEPT ![b] = m]
    <2>1. row[b].status = "cancelled" => m.status = "cancelled"
      BY <1>5 DEF MayFinish, NotCancelled
    <2>2. m.status \in Terminal
      BY <1>1, <1>2, <1>3 DEF RunTells
    <2>3. RowTells(m, out[b], late[b])
      BY <1>2, <1>3, <2>2, Numbers DEF RowTells, RowTypes, Terminal
    <2>4. Touches(b)
      BY <1>1, <1>2, <1>3, <1>5, <2>1, <2>2, <2>3, RowWritten DEF Terminal
    <2> QED
      BY <1>1, <2>4, LeaveMoves
  <1> QED
    BY <1>4, <1>5 DEF Final

\* A query of the loop fails.
LEMMA FailMoves ==
  ASSUME Typed, Honest, NEW r \in Runs, RunFails(r)
  PROVE  Moves(r)
  <1>1. run[r].at \in Places /\ UNCHANGED <<row, out, late>>
    BY DEF RunFails, Places, Stored, ghosts
  <1>2. Touches(Batch(r))
    BY <1>1, Acting, Untouched
  <1> QED
    BY <1>1, <1>2, LeaveMoves DEF RunFails

LEMMA RunMoves ==
  ASSUME Typed, Honest, NEW r \in Runs, RunStep(r) \/ RunFails(r)
  PROVE  Moves(r) /\ run[r].at \in Places
  <1>1. run[r].at \in Places
    BY DEF Places, Stored, RunStep, RunFails, Insert, Load, Mark, NoEngine, Gate, Send, Save, Sleep,
       Reread, Final, At
  <1>2. Moves(r)
    BY InsertMoves, LoadMoves, MarkMoves, NoEngineMoves, GateMoves, SendMoves, SaveMoves, SleepMoves,
       RereadMoves, FinalMoves, FailMoves DEF RunStep
  <1> QED
    BY <1>1, <1>2

-----------------------------------------------------------------------------
(* What a step of a run keeps *)

LEMMA MoveTyped ==
  ASSUME Typed, Honest, NEW r \in Runs, run[r].at \in Places, Moves(r)
  PROVE  RowsTyped' /\ RunsTyped' /\ CountsTyped' /\ GhostsTyped' /\ InUse'
  <1>1. PICK t \in RunTypes : Becomes(r, t)
    BY DEF Moves
  <1>2. /\ run \in [Runs -> RunTypes] /\ inFlight \in [Nodes -> Int]
        /\ Node(r) \in Nodes /\ Batch(r) \in Batches
    BY Acting DEF Typed, RunsTyped, CountsTyped
  <1>3. RowsTyped' /\ GhostsTyped'
    BY DEF Moves, Touches, RowsTyped, GhostsTyped
  <1>4. run' = [run EXCEPT ![r] = t]
    BY <1>1 DEF Becomes
  <1>5. RunsTyped' /\ run'[r] = t /\ \A q \in Runs : q # r => run'[q] = run[q]
    BY <1>2, <1>4 DEF RunsTyped
  <1>6. CountsTyped'
    BY <1>1, <1>2 DEF Becomes, CountsTyped
  <1>7. IF t.at \notin {"idle", "ended"} THEN t.node \in Nodes /\ t.batch \in Batches ELSE t.node = None
    BY <1>1, <1>2, EndedIs DEF Becomes, Places, Stored
  <1>8. InUse'
    BY <1>5, <1>7 DEF Typed, InUse, Holds, Node, Batch
  <1> QED
    BY <1>3, <1>5, <1>6, <1>8

LEMMA MoveHonest ==
  ASSUME Typed, Honest, NEW r \in Runs, run[r].at \in Places, Moves(r), UNCHANGED <<cancel, reap>>
  PROVE  Honest'
  <1> DEFINE b == Batch(r)
  <1>1. PICK t \in RunTypes : Becomes(r, t) /\ Takes(r, t)
    BY DEF Moves
  <1>2. /\ Touches(b) /\ b \in Batches /\ run \in [Runs -> RunTypes]
        /\ RowTells(row[b], out[b], late[b])
    BY Acting DEF Moves, Typed, RunsTyped
  <1>3. run'[r] = t /\ \A q \in Runs : q # r => run'[q] = run[q]
    BY <1>1, <1>2 DEF Becomes
  <1>4. t.at \in Stored => t.batch = b
    BY <1>1, EndedIs DEF Becomes, Stored
  <1>5. \A q \in Runs : run[q].at \in Stored => Batch(q) \in Batches
    BY DEF Typed, InUse, Holds, Stored
  \* no other run has this batch, if r has or stores it
  <1>6. t.at \in Stored => \A q \in Runs : q # r /\ run[q].at \in Stored => Batch(q) # b
    <2> SUFFICES ASSUME t.at \in Stored, NEW q \in Runs, q # r, run[q].at \in Stored
                 PROVE  Batch(q) # b
      OBVIOUS
    <2>1. CASE run[r].at \in Stored
      BY <2>1 DEF Honest, OneRun
    <2>2. CASE row[b].status = "none"
      BY <2>2 DEF Honest, RunsHonest, RunHonest, RunTells
    <2> QED
      BY <1>1, <2>1, <2>2 DEF Takes
  <1>7. OneRun'
    BY <1>3, <1>4, <1>6 DEF Honest, OneRun, Batch
  <1>8. RowsHonest'
    BY <1>2 DEF Honest, RowsHonest, Touches
  <1>9. RunsHonest'
    <2> SUFFICES ASSUME NEW q \in Runs, run'[q].at \in Stored PROVE RunHonest(q)'
      BY DEF RunsHonest
    <2>1. CASE q = r
      BY <1>1, <1>3, <1>4, <2>1 DEF Takes, RunHonest, Batch
    <2>2. CASE q # r /\ Batch(q) # b
      BY <1>2, <1>3, <1>5, <2>2 DEF Honest, RunsHonest, RunHonest, Touches, Batch
    \* a run that left its batch to this one has none
    <2>3. CASE q # r /\ Batch(q) = b
      <3>1. run[q].at \in Stored /\ t.at \notin Stored
        BY <1>3, <1>6, <2>3
      <3>2. run[r].at = "insert"
        BY <2>3, <3>1 DEF Honest, OneRun, Places
      <3> QED
        BY <1>1, <1>3, <2>3, <3>1, <3>2 DEF Takes, Honest, RunsHonest, RunHonest, Batch
    <2> QED
      BY <2>1, <2>2, <2>3
  \* a row's count of sent messages may only fall behind
  <1>10. \A x \in Batches, m \in RowTypes : CopyTells(m, out[x]) => CopyTells(m, out'[x])
    <2> SUFFICES ASSUME NEW x \in Batches, NEW m \in RowTypes, CopyTells(m, out[x])
                 PROVE  CopyTells(m, out'[x])
      OBVIOUS
    <2>1. m.sent \in 0..Total /\ out[x] \in 0..Total /\ out'[x] \in 0..Total /\ out[x] <= out'[x]
      BY <1>2, Numbers DEF Touches, Typed, GhostsTyped, RowTypes
    <2> QED
      BY <2>1, Numbers DEF CopyTells
  <1>11. \A x \in Batches : row[x].status # "none" => row'[x].status # "none"
    BY <1>2 DEF Touches
  <1>12. CancelsHonest'
    <2> SUFFICES ASSUME NEW c \in Cancels, cancel[c].at = "write"
                 PROVE  /\ CopyTells(cancel[c].mine, out'[cancel[c].batch])
                        /\ row'[cancel[c].batch].status # "none"
      BY DEF CancelsHonest
    <2>1. cancel[c].mine \in RowTypes /\ cancel[c].batch \in Batches
      BY DEF Typed, CancelsTyped, CancelTypes, CancelsPlaced
    <2> QED
      BY <1>10, <1>11, <2>1 DEF Honest, CancelsHonest
  <1>13. ReapsHonest'
    <2> SUFFICES ASSUME NEW n \in Nodes, NEW x \in DOMAIN reap[n].mine
                 PROVE  /\ CopyTells(reap[n].mine[x], out'[x])
                        /\ row'[x].status \notin {"none", "pending"}
                        /\ \A q \in Runs : run'[q].batch = x => run'[q].at \notin {"load", "mark"}
      BY DEF ReapsHonest, Batch
    <2>1. x \in Batches /\ reap[n].mine[x] \in RowTypes
      BY DEF Typed, ReapsTyped, ReapTypes
    <2>2. /\ CopyTells(reap[n].mine[x], out[x]) /\ row[x].status \notin {"none", "pending"}
          /\ \A q \in Runs : Batch(q) = x => run[q].at \notin {"load", "mark"}
      BY DEF Honest, ReapsHonest
    <2>3. row'[x].status \notin {"none", "pending"}
      BY <1>2, <2>1, <2>2 DEF Touches
    <2>4. ASSUME NEW q \in Runs, run'[q].batch = x, run'[q].at \in {"load", "mark"} PROVE FALSE
      <3>1. CASE q # r
        BY <1>3, <2>2, <2>4, <3>1 DEF Batch
      <3>2. CASE q = r
        <4>1. t.at \in {"load", "mark"} /\ t.batch = b /\ b = x
          BY <1>3, <1>4, <2>4, <3>2 DEF Stored
        <4> QED
          BY <1>1, <2>2, <4>1 DEF Takes
      <3> QED
        BY <3>1, <3>2
    <2> QED
      BY <1>10, <2>1, <2>2, <2>3, <2>4
  <1> QED
    BY <1>7, <1>8, <1>9, <1>12, <1>13 DEF Honest

\* Where a run is held, and how many are.
LEMMA HeldIs ==
  ASSUME NEW n \in Nodes
  PROVE  /\ IsFiniteSet(Held(n)) /\ Cardinality(Held(n)) \in Nat
         /\ Cardinality(Held(n)) <= Cardinality(Runs) /\ Cardinality(Runs) \in Nat
         /\ Held(n) = {r \in Runs : Node(r) = n /\ Holds(r)}
  <1>1. Held(n) \subseteq Runs /\ Held(n) = {r \in Runs : Node(r) = n /\ Holds(r)}
    BY DEF Held, OnNode, Node, Holds
  <1> QED
    BY <1>1, BulkAssumption, FS_Subset, FS_CardinalityType

LEMMA HeldThen ==
  ASSUME NEW n \in Nodes
  PROVE  Held(n)' = {r \in Runs : run'[r].node = n /\ run'[r].at \notin {"idle", "ended"}}
  BY DEF Held, OnNode

\* A run that goes on is still held, one that leaves gives its place back.
LEMMA MoveCounted ==
  ASSUME Typed, Honest, InFlightCounted, NEW r \in Runs, run[r].at \in Places, Moves(r)
  PROVE  InFlightCounted'
  <1>1. PICK t \in RunTypes : Becomes(r, t)
    BY DEF Moves
  <1>2. /\ run \in [Runs -> RunTypes] /\ inFlight \in [Nodes -> Int]
        /\ Node(r) \in Nodes /\ Holds(r)
    BY Acting DEF Typed, RunsTyped, CountsTyped, Holds, Places, Stored
  <1>3. run'[r] = t /\ \A q \in Runs : q # r => run'[q] = run[q]
    BY <1>1, <1>2 DEF Becomes
  <1> SUFFICES ASSUME NEW n \in Nodes
               PROVE  inFlight'[n] = Cardinality(Held(n)') /\ (Cap > 0 => inFlight'[n] <= Cap)
    BY DEF InFlightCounted
  <1>4. inFlight[n] = Cardinality(Held(n)) /\ (Cap > 0 => inFlight[n] <= Cap)
    BY DEF InFlightCounted
  <1>5. CASE t = Ended /\ n = Node(r)
    <2>1. Held(n)' = Held(n) \ {r} /\ r \in Held(n)
      BY <1>2, <1>3, <1>5, HeldIs, HeldThen, EndedIs DEF Node, Holds
    <2>2. Cardinality(Held(n)') = Cardinality(Held(n)) - 1
      BY <2>1, HeldIs, FS_RemoveElement
    <2>3. inFlight'[n] = inFlight[n] - 1
      BY <1>1, <1>2, <1>5, EndedIs DEF Becomes, Places, Stored
    <2> QED
      BY <1>2, <1>4, <2>2, <2>3, Numbers
  <1>6. CASE t # Ended \/ n # Node(r)
    <2>1. Held(n)' = Held(n)
      <3>1. (run'[r].node = n /\ run'[r].at \notin {"idle", "ended"}) <=> (Node(r) = n /\ Holds(r))
        BY <1>1, <1>2, <1>3, <1>6, EndedIs DEF Becomes, Places, Stored
      <3>2. \A q \in Runs :
              (run'[q].node = n /\ run'[q].at \notin {"idle", "ended"}) <=> (Node(q) = n /\ Holds(q))
        BY <1>3, <3>1 DEF Node, Holds
      <3> QED
        BY <3>2, HeldIs, HeldThen
    <2>2. inFlight'[n] = inFlight[n]
      BY <1>1, <1>2, <1>6 DEF Becomes
    <2> QED
      BY <1>4, <2>1, <2>2
  <1> QED
    BY <1>5, <1>6

LEMMA RunKeeps ==
  ASSUME IInv, NEW r \in Runs, RunStep(r) \/ RunFails(r)
  PROVE  IInv'
  <1>1. run[r].at \in Places /\ Moves(r) /\ Node(r) \in Nodes /\ Batch(r) \in Batches
    BY RunMoves, Acting DEF IInv
  <1>2. UNCHANGED <<cancel, reap, up, engine, owner, lapsed, eligible, ackedAt, deserted, events>>
    BY DEF RunStep, RunFails, Insert, Load, Mark, NoEngine, Gate, Send, Save, Sleep, Reread, Final,
       session, ghosts, bounds
  <1>3. UNCHANGED faults \/ (faults < MaxFaults /\ faults' = faults + 1)
    BY DEF RunStep, RunFails, Insert, Load, Mark, NoEngine, Gate, Send, Save, Sleep, Reread, Final,
       bounds
  <1>4. \/ UNCHANGED flag
        \/ \E f \in {"none", "on"} : flag' = [flag EXCEPT ![Node(r)][Batch(r)] = f]
    BY DEF RunStep, RunFails, Insert, Load, Mark, NoEngine, Gate, Send, Save, Sleep, Reread, Final, Leave
  <1>5. FlagsTyped'
    BY <1>1, <1>4 DEF IInv, Typed, FlagsTyped
  <1>6. RestTyped'
    BY <1>2, <1>3, Numbers DEF IInv, Typed, RestTyped
  <1>7. CancelsTyped' /\ CancelsPlaced' /\ ReapsTyped'
    BY <1>2 DEF IInv, Typed, CancelsTyped, CancelsPlaced, ReapsTyped
  <1> QED
    BY <1>1, <1>2, <1>5, <1>6, <1>7, MoveTyped, MoveHonest, MoveCounted DEF IInv, Typed

-----------------------------------------------------------------------------
(* The other steps *)

LEMMA CreateKeeps ==
  ASSUME IInv, NEW r \in Runs, NEW n \in Nodes, NEW b \in Batches, Create(r, n, b)
  PROVE  IInv'
  <1> DEFINE t == [Idle EXCEPT !.at = "insert", !.node = n, !.batch = b]
  <1>1. t \in RunTypes /\ t.at = "insert" /\ t.node = n /\ t.batch = b
    BY EndedIs DEF RunTypes, Idle
  <1>2. /\ run[r].at = "idle" /\ run' = [run EXCEPT ![r] = t]
        /\ inFlight' = [inFlight EXCEPT ![n] = @ + 1] /\ ~Full(n)
        /\ UNCHANGED <<row, cancel, reap, flag, session, ghosts, bounds>>
    BY DEF Create, At
  <1> HIDE DEF t
  <1>3. /\ run \in [Runs -> RunTypes] /\ inFlight \in [Nodes -> Int]
        /\ run'[r] = t /\ \A q \in Runs : q # r => run'[q] = run[q]
    BY <1>2 DEF IInv, Typed, RunsTyped, CountsTyped
  <1>4. Typed'
    <2>1. RunsTyped' /\ CountsTyped'
      BY <1>1, <1>2, <1>3 DEF RunsTyped, CountsTyped
    <2>2. InUse'
      BY <1>1, <1>3 DEF IInv, Typed, InUse, Holds, Node, Batch
    <2> QED
      BY <1>2, <2>1, <2>2 DEF IInv, Typed, RowsTyped, CancelsTyped, ReapsTyped, GhostsTyped,
         FlagsTyped, RestTyped, CancelsPlaced, session, ghosts, bounds
  <1>5. Honest'
    <2>1. run'[r].at \notin Stored /\ run'[r].at \notin {"load", "mark"}
      BY <1>1, <1>3 DEF Stored
    <2>2. UNCHANGED <<row, out, late, cancel, reap>>
      BY <1>2 DEF ghosts
    <2>3. RowsHonest' /\ CancelsHonest'
      BY <2>2 DEF IInv, Honest, RowsHonest, CancelsHonest
    <2>4. RunsHonest'
      BY <1>3, <2>1, <2>2 DEF IInv, Honest, RunsHonest, RunHonest, Batch
    <2>5. ReapsHonest'
      BY <1>3, <2>1, <2>2 DEF IInv, Honest, ReapsHonest, Batch
    <2>6. OneRun'
      BY <1>3, <2>1 DEF IInv, Honest, OneRun, Batch
    <2> QED
      BY <2>3, <2>4, <2>5, <2>6 DEF Honest
  <1>6. InFlightCounted'
    <2> SUFFICES ASSUME NEW x \in Nodes
                 PROVE  inFlight'[x] = Cardinality(Held(x)') /\ (Cap > 0 => inFlight'[x] <= Cap)
      BY DEF InFlightCounted
    <2>1. inFlight[x] = Cardinality(Held(x)) /\ (Cap > 0 => inFlight[x] <= Cap)
      BY DEF IInv, InFlightCounted
    <2>2. CASE x = n
      <3>1. Held(x)' = Held(x) \cup {r} /\ r \notin Held(x)
        BY <1>1, <1>2, <1>3, <2>2, HeldIs, HeldThen DEF Node, Holds
      <3>2. Cardinality(Held(x)') = Cardinality(Held(x)) + 1
        BY <3>1, HeldIs, FS_AddElement
      <3>3. inFlight'[x] = inFlight[x] + 1 /\ inFlight[x] \in Int
        BY <1>2, <1>3, <2>2
      <3> QED
        BY <1>2, <2>1, <2>2, <3>2, <3>3, Numbers DEF Full
    <2>3. CASE x # n
      <3>1. Held(x)' = Held(x)
        <4>1. \A q \in Runs :
                (run'[q].node = x /\ run'[q].at \notin {"idle", "ended"}) <=> (Node(q) = x /\ Holds(q))
          BY <1>1, <1>2, <1>3, <2>3 DEF Node, Holds
        <4> QED
          BY <4>1, HeldIs, HeldThen
      <3>2. inFlight'[x] = inFlight[x]
        BY <1>2, <1>3, <2>3
      <3> QED
        BY <2>1, <3>1, <3>2
    <2> QED
      BY <2>2, <2>3
  <1> QED
    BY <1>4, <1>5, <1>6 DEF IInv

\* A step that leaves the runs as they are leaves the counts.
LEMMA SameCounts ==
  ASSUME InFlightCounted, UNCHANGED <<run, inFlight>>
  PROVE  InFlightCounted'
  BY DEF InFlightCounted, Held, OnNode

LEMMA CancelReadKeeps ==
  ASSUME IInv, NEW c \in Cancels, NEW n \in Nodes, NEW b \in Batches, CancelRead(c, n, b)
  PROVE  IInv'
  <1> DEFINE k == [at |-> "write", node |-> n, batch |-> b, mine |-> row[b]]
  <1>1. /\ cancel' = [cancel EXCEPT ![c] = k] /\ flag' = [flag EXCEPT ![n][b] = "off"]
        /\ Cancellable(b) /\ UNCHANGED <<row, run, reap, inFlight, session, ghosts, bounds>>
    BY DEF CancelRead
  <1>2. row[b] \in RowTypes
    BY DEF IInv, Typed, RowsTyped
  <1>3. k \in CancelTypes /\ k.at = "write" /\ k.node = n /\ k.batch = b /\ k.mine = row[b]
    BY <1>2 DEF CancelTypes
  <1> HIDE DEF k
  <1>4. cancel \in [Cancels -> CancelTypes] /\ cancel'[c] = k /\ \A d \in Cancels : d # c => cancel'[d] = cancel[d]
    BY <1>1 DEF IInv, Typed, CancelsTyped
  <1>5. CopyTells(row[b], out[b]) /\ row[b].status # "none"
    BY <1>1, <1>2 DEF IInv, Honest, RowsHonest, RowTells, CopyTells, Cancellable, Fresh
  <1>6. CancelsTyped' /\ CancelsPlaced' /\ FlagsTyped'
    BY <1>1, <1>3, <1>4 DEF IInv, Typed, CancelsTyped, CancelsPlaced, FlagsTyped
  <1>7. UNCHANGED <<row, out, late, run, reap, inFlight>>
    BY <1>1 DEF ghosts
  <1>8. CancelsHonest'
    BY <1>3, <1>4, <1>5, <1>7 DEF IInv, Honest, CancelsHonest
  <1>9. Typed'
    BY <1>1, <1>6, <1>7 DEF IInv, Typed, RowsTyped, RunsTyped, ReapsTyped, CountsTyped, GhostsTyped,
       RestTyped, InUse, Holds, Node, Batch, session, ghosts, bounds
  <1>10. Honest'
    BY <1>7, <1>8 DEF IInv, Honest, RowsHonest, RunsHonest, RunHonest, ReapsHonest, OneRun, Batch
  <1> QED
    BY <1>7, <1>9, <1>10, SameCounts DEF IInv

LEMMA CancelGone ==
  /\ CancelEnded \in CancelTypes /\ CancelEnded.at = "ended"
  /\ NoCancel \in CancelTypes /\ NoCancel.at = "idle"
  BY EndedIs DEF CancelEnded, NoCancel, CancelTypes

\* A cancel or a reaper writes the row of a batch from a copy: a run that has yet to begin
\* it finds it cancelled, or there is none.
LEMMA RowOverwritten ==
  ASSUME IInv, NEW b \in Batches, NEW k \in RowTypes, row' = [row EXCEPT ![b] = k],
         k.status \notin {"none", "pending"}, k.status = "processing" => k.cancelled = 0,
         AddsUp(k), k.sent <= out[b], row[b].status # "none",
         k.status = "cancelled" \/ \A r \in Runs : Batch(r) = b => run[r].at \notin {"load", "mark"},
         UNCHANGED <<run, out, late>>
  PROVE  RowsTyped' /\ RowsHonest' /\ RunsHonest' /\ OneRun'
  <1>1. row \in [Batches -> RowTypes] /\ row'[b] = k /\ \A x \in Batches : x # b => row'[x] = row[x]
    BY DEF IInv, Typed, RowsTyped
  <1>2. RowTells(k, out[b], late[b])
    BY DEF RowTells
  <1>3. RowsTyped' /\ RowsHonest'
    BY <1>1, <1>2 DEF RowsTyped, IInv, Honest, RowsHonest
  <1>4. RunsHonest'
    <2> SUFFICES ASSUME NEW r \in Runs, run[r].at \in Stored
                 PROVE  RunTells(run[r], row'[Batch(r)].status, out[Batch(r)], late[Batch(r)])
      BY DEF RunsHonest, RunHonest, Batch
    <2>1. /\ Batch(r) \in Batches
          /\ RunTells(run[r], row[Batch(r)].status, out[Batch(r)], late[Batch(r)])
      BY DEF IInv, Typed, InUse, Holds, Honest, RunsHonest, RunHonest, Stored
    <2>2. CASE Batch(r) = b
      BY <1>1, <2>1, <2>2 DEF RunTells
    <2>3. CASE Batch(r) # b
      BY <1>1, <2>1, <2>3
    <2> QED
      BY <2>2, <2>3
  <1>5. OneRun'
    BY DEF IInv, Honest, OneRun, Batch
  <1> QED
    BY <1>3, <1>4, <1>5

LEMMA CancelWriteKeeps ==
  ASSUME IInv, NEW c \in Cancels, CancelWrite(c)
  PROVE  IInv'
  <1> DEFINE b == cancel[c].batch
             m == cancel[c].mine
  <1>1. /\ cancel[c].at = "write" /\ cancel' = [cancel EXCEPT ![c] = CancelEnded]
        /\ UNCHANGED <<run, reap, flag, inFlight, session, out, late, deserted, bounds>>
    BY DEF CancelWrite
  <1>2. /\ cancel \in [Cancels -> CancelTypes] /\ b \in Batches /\ m \in RowTypes /\ cancel[c].node \in Nodes
        /\ CopyTells(m, out[b]) /\ row[b].status # "none"
    BY <1>1 DEF IInv, Typed, CancelsTyped, CancelTypes, CancelsPlaced, Honest, CancelsHonest
  <1>3. cancel'[c] = CancelEnded /\ \A d \in Cancels : d # c => cancel'[d] = cancel[d]
    BY <1>1, <1>2
  <1>4. CancelsTyped' /\ CancelsPlaced'
    BY <1>2, <1>3, <1>1, CancelGone DEF IInv, Typed, CancelsTyped, CancelsPlaced
  <1>5. /\ RowsTyped' /\ RowsHonest' /\ RunsHonest' /\ OneRun' /\ RestTyped'
        /\ \A x \in Batches : row[x].status \notin {"none", "pending"} => row'[x].status \notin {"none", "pending"}
        /\ \A x \in Batches : row[x].status # "none" => row'[x].status # "none"
    <2>1. CASE UNCHANGED <<row, ackedAt>>
      BY <1>1, <2>1 DEF IInv, Typed, RowsTyped, RestTyped, Honest, RowsHonest, RunsHonest, RunHonest,
         OneRun, Batch, session, bounds
    <2>2. CASE row' = [row EXCEPT ![b] = CancelledRow(m)] /\ ackedAt' = [ackedAt EXCEPT ![b] = cancel[c].node]
      <3> DEFINE k == AsCancelled(m, m.pending)
      <3>1. k = CancelledRow(m)
        BY DEF AsCancelled, CancelledRow
      <3>2. /\ k \in RowTypes /\ k.status = "cancelled" /\ k.cancelled = m.pending /\ k.pending = 0
            /\ k.sent = m.sent /\ k.failed = m.failed
        <4>1. m.pending \in 0..Total
          BY <1>2 DEF RowTypes
        <4> QED
          BY <1>2, <4>1, CancelledIs DEF CancelledAs
      <3> HIDE DEF k
      <3>3. AddsUp(k) /\ k.sent <= out[b]
        <4>1. m.sent \in Nat /\ m.failed \in Nat /\ m.pending \in Nat
          BY <1>2, Numbers DEF RowTypes
        <4> QED
          BY <1>2, <3>2, <4>1, Numbers DEF AddsUp, CopyTells
      <3>4. row' = [row EXCEPT ![b] = k]
        BY <2>2, <3>1
      <3>5. RowsTyped' /\ RowsHonest' /\ RunsHonest' /\ OneRun'
        BY <1>1, <1>2, <3>2, <3>3, <3>4, RowOverwritten
      <3>6. RestTyped'
        BY <1>1, <1>2, <2>2 DEF IInv, Typed, RestTyped, session, bounds
      <3>7. row \in [Batches -> RowTypes]
        BY DEF IInv, Typed, RowsTyped
      <3> QED
        BY <3>2, <3>4, <3>5, <3>6, <3>7
    <2> QED
      BY <2>1, <2>2 DEF CancelWrite
  <1>6. Typed'
    BY <1>1, <1>4, <1>5 DEF IInv, Typed, RunsTyped, ReapsTyped, CountsTyped, GhostsTyped, FlagsTyped,
       InUse, Holds, Node, Batch
  <1>7. CancelsHonest'
    <2> SUFFICES ASSUME NEW d \in Cancels, d # c, cancel[d].at = "write"
                 PROVE  /\ CopyTells(cancel[d].mine, out[cancel[d].batch])
                        /\ row'[cancel[d].batch].status # "none"
      BY <1>1, <1>3, CancelGone DEF CancelsHonest
    <2>1. /\ cancel[d].batch \in Batches /\ row[cancel[d].batch].status # "none"
          /\ CopyTells(cancel[d].mine, out[cancel[d].batch])
      BY DEF IInv, Typed, CancelsPlaced, Honest, CancelsHonest
    <2>2. row'[cancel[d].batch].status # "none"
      BY <1>5, <2>1
    <2> QED
      BY <2>1, <2>2
  <1>8. ReapsHonest'
    <2>1. \A n \in Nodes : DOMAIN reap[n].mine \subseteq Batches
      BY DEF IInv, Typed, ReapsTyped, ReapTypes
    <2> QED
      BY <1>1, <1>5, <2>1 DEF IInv, Honest, ReapsHonest, Batch
  <1> QED
    BY <1>1, <1>5, <1>6, <1>7, <1>8, SameCounts DEF IInv, Honest

\* A step that touches no row and no run, and leaves every cancel that waits to write.
LEMMA Quiet ==
  ASSUME IInv, UNCHANGED <<row, run, reap, inFlight, out, late>>, CancelsTyped', FlagsTyped', RestTyped',
         \A c \in Cancels : cancel'[c].at = "write" => cancel'[c] = cancel[c]
  PROVE  IInv'
  <1>1. Typed'
    BY DEF IInv, Typed, RowsTyped, RunsTyped, ReapsTyped, CountsTyped, GhostsTyped, CancelsPlaced,
       InUse, Holds, Node, Batch
  <1>2. Honest'
    BY DEF IInv, Honest, RowsHonest, RunsHonest, RunHonest, CancelsHonest, ReapsHonest, OneRun, Batch
  <1> QED
    BY <1>1, <1>2, SameCounts DEF IInv

LEMMA CancelFailsKeeps ==
  ASSUME IInv, NEW c \in Cancels, CancelFails(c)
  PROVE  IInv'
  <1>1. /\ cancel' = [cancel EXCEPT ![c] = CancelEnded] /\ faults < MaxFaults /\ faults' = faults + 1
        /\ UNCHANGED <<row, run, reap, flag, inFlight, session, ghosts, events>>
    BY DEF CancelFails
  <1>2. CancelsTyped' /\ \A d \in Cancels : cancel'[d].at = "write" => cancel'[d] = cancel[d]
    BY <1>1, CancelGone DEF IInv, Typed, CancelsTyped
  <1>3. FlagsTyped' /\ RestTyped'
    BY <1>1, Numbers DEF IInv, Typed, FlagsTyped, RestTyped, session, ghosts
  <1> QED
    BY <1>1, <1>2, <1>3, Quiet DEF ghosts

LEMMA ReapFindKeeps ==
  ASSUME IInv, NEW n \in Nodes, ReapFind(n)
  PROVE  IInv'
  <1> DEFINE found == IF reap[n].boot /\ ~Claims(n) THEN {} ELSE Processing
             g == [b \in found |-> row[b]]
             p == [reap[n] EXCEPT !.at = "save", !.mine = g]
  <1>1. UNCHANGED <<row, run, cancel, flag, inFlight, session, ghosts, bounds>>
    BY DEF ReapFind
  <1>2. reap \in [Nodes -> ReapTypes] /\ row \in [Batches -> RowTypes]
    BY DEF IInv, Typed, ReapsTyped, RowsTyped
  <1>3. found \subseteq Batches /\ \A b \in found : row[b].status = "processing"
    BY DEF Processing
  <1>4. reap' = [reap EXCEPT ![n] = p]
    BY <1>2 DEF ReapFind, ReapTypes
  <1> HIDE DEF found
  <1>5. g \in [found -> RowTypes] /\ DOMAIN g = found /\ \A b \in found : g[b] = row[b]
    BY <1>2, <1>3
  <1>6. g \in UNION {[S -> RowTypes] : S \in SUBSET Batches}
    BY <1>3, <1>5
  <1> HIDE DEF g
  <1>7. p \in ReapTypes /\ p.mine = g
    BY <1>2, <1>6 DEF ReapTypes
  <1> HIDE DEF p
  <1>8. ReapsTyped' /\ reap'[n] = p /\ \A x \in Nodes : x # n => reap'[x] = reap[x]
    BY <1>2, <1>4, <1>7 DEF ReapsTyped
  <1>9. \A b \in found :
          /\ CopyTells(row[b], out[b])
          /\ \A r \in Runs : Batch(r) = b => run[r].at \notin {"load", "mark"}
    <2> SUFFICES ASSUME NEW b \in found
                 PROVE  /\ CopyTells(row[b], out[b])
                        /\ \A r \in Runs : Batch(r) = b => run[r].at \notin {"load", "mark"}
      OBVIOUS
    <2>1. b \in Batches /\ row[b].status = "processing"
      BY <1>3
    <2>2. CopyTells(row[b], out[b])
      BY <2>1 DEF IInv, Honest, RowsHonest, RowTells, CopyTells
    <2>3. \A r \in Runs : Batch(r) = b => run[r].at \notin {"load", "mark"}
      BY <2>1 DEF IInv, Honest, RunsHonest, RunHonest, RunTells, Stored
    <2> QED
      BY <2>2, <2>3
  <1>10. UNCHANGED <<out, late>>
    BY <1>1 DEF ghosts
  <1>11. ReapsHonest'
    <2> SUFFICES ASSUME NEW x \in Nodes, NEW b \in DOMAIN reap'[x].mine
                 PROVE  /\ CopyTells(reap'[x].mine[b], out[b])
                        /\ row[b].status \notin {"none", "pending"}
                        /\ \A r \in Runs : Batch(r) = b => run[r].at \notin {"load", "mark"}
      BY <1>1, <1>10 DEF ReapsHonest, Batch
    <2>1. CASE x = n
      BY <1>3, <1>5, <1>7, <1>8, <1>9, <2>1
    <2>2. CASE x # n
      BY <1>8, <2>2 DEF IInv, Honest, ReapsHonest
    <2> QED
      BY <2>1, <2>2
  <1>12. Typed'
    BY <1>1, <1>8, <1>10 DEF IInv, Typed, RowsTyped, RunsTyped, CancelsTyped, CountsTyped, GhostsTyped,
       FlagsTyped, RestTyped, CancelsPlaced, InUse, Holds, Node, Batch, session, ghosts, bounds
  <1>13. Honest'
    BY <1>1, <1>10, <1>11 DEF IInv, Honest, RowsHonest, RunsHonest, RunHonest, CancelsHonest, OneRun, Batch
  <1> QED
    BY <1>1, <1>12, <1>13, SameCounts DEF IInv

LEMMA ReapSaveKeeps ==
  ASSUME IInv, NEW n \in Nodes, NEW b \in Batches, ReapSave(n, b)
  PROVE  IInv'
  <1> DEFINE m == reap[n].mine[b]
             k == [m EXCEPT !.status = "failed"]
             rest == DOMAIN reap[n].mine \ {b}
             g == [x \in rest |-> reap[n].mine[x]]
             p == [reap[n] EXCEPT !.mine = g]
  <1>1. /\ b \in DOMAIN reap[n].mine /\ row' = [row EXCEPT ![b] = k]
        /\ UNCHANGED <<run, cancel, flag, inFlight, session, ghosts, bounds>>
    BY DEF ReapSave
  <1>2. /\ reap \in [Nodes -> ReapTypes] /\ row \in [Batches -> RowTypes]
        /\ DOMAIN reap[n].mine \subseteq Batches
        /\ \A x \in DOMAIN reap[n].mine : reap[n].mine[x] \in RowTypes
    BY DEF IInv, Typed, ReapsTyped, RowsTyped, ReapTypes
  <1>3. /\ CopyTells(m, out[b]) /\ row[b].status \notin {"none", "pending"}
        /\ \A r \in Runs : Batch(r) = b => run[r].at \notin {"load", "mark"}
    BY <1>1 DEF IInv, Honest, ReapsHonest
  <1>4. reap' = [reap EXCEPT ![n] = p]
    BY <1>2 DEF ReapSave, ReapTypes
  <1>5. k \in RowTypes /\ k.status = "failed" /\ AddsUp(k) /\ k.sent <= out[b]
    <2>1. m \in RowTypes
      BY <1>1, <1>2
    <2>2. /\ k \in RowTypes /\ k.status = "failed" /\ k.sent = m.sent /\ k.failed = m.failed
          /\ k.pending = m.pending /\ k.cancelled = m.cancelled
      BY <2>1 DEF RowTypes, Terminal
    <2> QED
      BY <1>3, <2>2 DEF CopyTells, AddsUp
  <1> HIDE DEF k, m
  <1>6. UNCHANGED <<out, late>>
    BY <1>1 DEF ghosts
  <1>7. RowsTyped' /\ RowsHonest' /\ RunsHonest' /\ OneRun'
    BY <1>1, <1>3, <1>5, <1>6, RowOverwritten
  <1>8. \A x \in Batches : row[x].status \notin {"none", "pending"} => row'[x].status \notin {"none", "pending"}
    BY <1>1, <1>2, <1>5
  <1>9. \A x \in Batches : row[x].status # "none" => row'[x].status # "none"
    BY <1>1, <1>2, <1>5
  <1>10. g \in [rest -> RowTypes] /\ rest \subseteq Batches
    BY <1>2
  <1>11. g \in UNION {[S -> RowTypes] : S \in SUBSET Batches}
    BY <1>10
  <1>12. DOMAIN g = rest /\ \A x \in rest : g[x] = reap[n].mine[x]
    OBVIOUS
  <1> HIDE DEF g
  <1>13. p \in ReapTypes /\ p.mine = g
    BY <1>2, <1>11 DEF ReapTypes
  <1> HIDE DEF p
  <1>14. ReapsTyped' /\ reap'[n] = p /\ \A x \in Nodes : x # n => reap'[x] = reap[x]
    BY <1>2, <1>4, <1>13 DEF ReapsTyped
  <1>15. \A x \in Nodes : DOMAIN reap[x].mine \subseteq Batches
    BY <1>2 DEF ReapTypes
  <1>16. ReapsHonest'
    <2> SUFFICES ASSUME NEW x \in Nodes, NEW y \in DOMAIN reap'[x].mine
                 PROVE  /\ CopyTells(reap'[x].mine[y], out[y])
                        /\ row'[y].status \notin {"none", "pending"}
                        /\ \A r \in Runs : Batch(r) = y => run[r].at \notin {"load", "mark"}
      BY <1>1, <1>6 DEF ReapsHonest, Batch
    <2>1. y \in DOMAIN reap[x].mine /\ reap'[x].mine[y] = reap[x].mine[y]
      BY <1>12, <1>13, <1>14
    <2>2. /\ CopyTells(reap[x].mine[y], out[y]) /\ row[y].status \notin {"none", "pending"}
          /\ \A r \in Runs : Batch(r) = y => run[r].at \notin {"load", "mark"}
      BY <2>1 DEF IInv, Honest, ReapsHonest
    <2> QED
      BY <1>8, <1>15, <2>1, <2>2
  <1>17. CancelsHonest'
    <2> SUFFICES ASSUME NEW d \in Cancels, cancel[d].at = "write"
                 PROVE  /\ CopyTells(cancel[d].mine, out[cancel[d].batch])
                        /\ row'[cancel[d].batch].status # "none"
      BY <1>1, <1>6 DEF CancelsHonest
    <2>1. /\ cancel[d].batch \in Batches /\ row[cancel[d].batch].status # "none"
          /\ CopyTells(cancel[d].mine, out[cancel[d].batch])
      BY DEF IInv, Typed, CancelsPlaced, Honest, CancelsHonest
    <2> QED
      BY <1>9, <2>1
  <1>18. Typed'
    BY <1>1, <1>6, <1>7, <1>14 DEF IInv, Typed, RunsTyped, CancelsTyped, CountsTyped, GhostsTyped,
       FlagsTyped, RestTyped, CancelsPlaced, InUse, Holds, Node, Batch, session, ghosts, bounds
  <1> QED
    BY <1>1, <1>7, <1>16, <1>17, <1>18, SameCounts DEF IInv, Honest

LEMMA NoReapIs ==
  ASSUME NEW p \in BOOLEAN
  PROVE  /\ [NoReap EXCEPT !.at = "find", !.boot = p] \in ReapTypes
         /\ [NoReap EXCEPT !.at = "find", !.boot = p].mine = NoReap.mine
         /\ [NoReap EXCEPT !.at = "find"] \in ReapTypes
         /\ [NoReap EXCEPT !.at = "find"].mine = NoReap.mine
         /\ NoReap \in ReapTypes /\ DOMAIN NoReap.mine = {}
  <1>1. <<>> \in [{} -> RowTypes] /\ DOMAIN <<>> = {}
    OBVIOUS
  <1>2. <<>> \in UNION {[S -> RowTypes] : S \in SUBSET Batches}
    BY <1>1
  <1>3. NoReap \in ReapTypes /\ NoReap.mine = <<>>
    BY <1>2 DEF NoReap, ReapTypes
  <1> QED
    BY <1>1, <1>2, <1>3 DEF ReapTypes, NoReap

\* A step that touches no row, count or cancel, takes at most the engine from a run, and
\* gives no reaper an entity.
LEMMA Elsewhere ==
  ASSUME IInv, UNCHANGED <<row, out, late, inFlight, cancel, flag>>, ReapsTyped', RestTyped',
         UNCHANGED run \/ \E n \in Nodes : Deaf(n),
         \A x \in Nodes : reap'[x].mine = reap[x].mine \/ DOMAIN reap'[x].mine = {}
  PROVE  IInv'
  <1>1. run \in [Runs -> RunTypes]
    BY DEF IInv, Typed, RunsTyped
  <1>2. /\ run' \in [Runs -> RunTypes]
        /\ \A r \in Runs : /\ run'[r].at = run[r].at /\ run'[r].node = run[r].node
                           /\ run'[r].batch = run[r].batch /\ run'[r].item = run[r].item
                           /\ run'[r].mine = run[r].mine
    <2>1. CASE UNCHANGED run
      BY <1>1, <2>1
    <2>2. ASSUME NEW n \in Nodes, Deaf(n)
          PROVE  <1>2!1 /\ <1>2!2
      <3>1. \A s \in RunTypes :
              LET t == [s EXCEPT !.live = FALSE] IN
              /\ t \in RunTypes /\ t.at = s.at /\ t.node = s.node /\ t.batch = s.batch
              /\ t.item = s.item /\ t.mine = s.mine
        BY DEF RunTypes
      <3> QED
        BY <1>1, <2>2, <3>1 DEF Deaf
    <2> QED
      BY <2>1, <2>2
  <1>3. Typed'
    BY <1>2 DEF IInv, Typed, RowsTyped, RunsTyped, CancelsTyped, CountsTyped, GhostsTyped, FlagsTyped,
       CancelsPlaced, InUse, Holds, Node, Batch
  <1>4. RowsHonest' /\ CancelsHonest' /\ OneRun'
    BY <1>2 DEF IInv, Honest, RowsHonest, CancelsHonest, OneRun, Batch
  <1>5. RunsHonest'
    BY <1>2 DEF IInv, Honest, RunsHonest, RunHonest, RunTells, Batch
  <1>6. ReapsHonest'
    BY <1>2 DEF IInv, Honest, ReapsHonest, Batch
  <1>7. InFlightCounted'
    <2>1. ASSUME NEW n \in Nodes PROVE Held(n)' = Held(n)
      <3>1. \A q \in Runs :
              (run'[q].node = n /\ run'[q].at \notin {"idle", "ended"}) <=> (Node(q) = n /\ Holds(q))
        BY <1>2 DEF Node, Holds
      <3> QED
        BY <3>1, HeldIs, HeldThen
    <2> QED
      BY <2>1 DEF IInv, InFlightCounted
  <1> QED
    BY <1>3, <1>4, <1>5, <1>6, <1>7 DEF IInv, Honest

\* The steps of the session and of the sweep.
SessionStep(n) ==
  \/ EngineGone(n) \/ Release(n) \/ StartEngine(n) \/ Status(n) \/ Lapse
  \/ Sweep(n) \/ Adopt(n) \/ Adopted(n) \/ Boot(n)

LEMMA ElsewhereKeeps ==
  ASSUME IInv, NEW n \in Nodes, ReapEnd(n) \/ SessionStep(n)
  PROVE  IInv'
  <1>1. UNCHANGED <<row, out, late, inFlight, cancel, flag, ackedAt, deserted, faults>>
    BY DEF ReapEnd, SessionStep, EngineGone, Release, StartEngine, Status, Lapse, Sweep, Adopt, Adopted,
       Boot, Counts, memory, session, ghosts, bounds
  <1>2. UNCHANGED run \/ Deaf(n)
    BY DEF ReapEnd, SessionStep, EngineGone, Release, StartEngine, Status, Lapse, Sweep, Adopt, Adopted,
       Boot, memory
  <1>3. \/ UNCHANGED reap
        \/ \E l \in {"idle", "listed", "start", "find"} : ReapAt(n, l)
        \/ \E p \in {NoReap, [NoReap EXCEPT !.at = "find", !.boot = TRUE]} :
             reap' = [reap EXCEPT ![n] = p]
    BY DEF ReapEnd, SessionStep, EngineGone, Release, StartEngine, Status, Lapse, Sweep, Adopt, Adopted,
       Boot, memory
  <1>4. ReapsTyped' /\ \A x \in Nodes : reap'[x].mine = reap[x].mine \/ DOMAIN reap'[x].mine = {}
    <2>1. reap \in [Nodes -> ReapTypes]
      BY DEF IInv, Typed, ReapsTyped
    <2>2. CASE UNCHANGED reap
      BY <2>1, <2>2 DEF ReapsTyped
    <2>3. ASSUME NEW p \in ReapTypes, p.mine = reap[n].mine \/ DOMAIN p.mine = {}, reap' = [reap EXCEPT ![n] = p]
          PROVE  <1>4
      BY <2>1, <2>3 DEF ReapsTyped
    <2>4. ASSUME NEW l \in {"idle", "listed", "start", "find"}, ReapAt(n, l)
          PROVE  <1>4
      <3> DEFINE p == [reap[n] EXCEPT !.at = l]
      <3>1. p \in ReapTypes /\ p.mine = reap[n].mine
        BY <2>1 DEF ReapTypes
      <3>2. reap' = [reap EXCEPT ![n] = p]
        BY <2>4 DEF ReapAt
      <3> QED
        BY <2>3, <3>1, <3>2
    <2> QED
      BY <1>3, <2>2, <2>3, <2>4, NoReapIs
  <1>5. events' \in 0..MaxEvents
    BY Numbers DEF ReapEnd, SessionStep, EngineGone, Release, StartEngine, Status, Lapse, Sweep, Adopt,
       Adopted, Boot, Counts, bounds, IInv, Typed, RestTyped
  <1>6. /\ up' \subseteq Nodes /\ engine' \subseteq Nodes /\ owner' \in Nodes \cup {None}
        /\ lapsed' \in BOOLEAN /\ eligible' \in BOOLEAN
    BY DEF ReapEnd, SessionStep, EngineGone, Release, StartEngine, Status, Lapse, Sweep, Adopt, Adopted,
       Boot, Launch, session, IInv, Typed, RestTyped
  <1>7. RestTyped'
    BY <1>1, <1>5, <1>6 DEF IInv, Typed, RestTyped
  <1> QED
    BY <1>1, <1>2, <1>4, <1>7, Elsewhere

\* What a process holds in memory goes with it.
LEMMA CrashKeeps ==
  ASSUME IInv, NEW n \in Nodes, Crash(n)
  PROVE  IInv'
  <1>1. /\ events < MaxEvents /\ events' = events + 1
        /\ up' = up \ {n} /\ engine' = engine \ {n}
        /\ UNCHANGED <<row, out, late, ackedAt, owner, lapsed, eligible, faults>>
        /\ deserted' = deserted \cup {b \in Batches : Deserts(n, b)}
    BY DEF Crash, Counts
  <1>2. \A r \in Runs : run'[r] = IF Node(r) = n THEN Ended ELSE run[r]
    BY DEF Crash, OnNode, Node
  <1>3. \A c \in Cancels : cancel'[c] = IF cancel[c].node = n THEN CancelEnded ELSE cancel[c]
    BY DEF Crash
  <1>4. RunsTyped' /\ CancelsTyped'
    BY EndedIs, CancelGone DEF Crash, IInv, Typed, RunsTyped, CancelsTyped
  <1>5. /\ ReapsTyped'
        /\ \A x \in Nodes : reap'[x] = reap[x] \/ DOMAIN reap'[x].mine = {}
    <2>1. reap \in [Nodes -> ReapTypes] /\ reap' = [reap EXCEPT ![n] = NoReap]
      BY DEF Crash, IInv, Typed, ReapsTyped
    <2> QED
      BY <2>1, NoReapIs DEF ReapsTyped
  <1>6. FlagsTyped'
    BY DEF Crash, NoFlags, IInv, Typed, FlagsTyped
  <1>7. /\ CountsTyped' /\ inFlight'[n] = 0
        /\ \A x \in Nodes : x # n => inFlight'[x] = inFlight[x]
    BY DEF Crash, IInv, Typed, CountsTyped
  <1>8. RowsTyped' /\ GhostsTyped' /\ RestTyped'
    BY <1>1, Numbers DEF IInv, Typed, RowsTyped, GhostsTyped, RestTyped
  <1>9. InUse' /\ CancelsPlaced'
    BY <1>2, <1>3, EndedIs, CancelGone DEF IInv, Typed, InUse, CancelsPlaced, Holds, Node, Batch
  <1>10. \A r \in Runs : run'[r].at \in Stored => run'[r] = run[r]
    BY <1>2, EndedIs DEF Stored
  <1>11. RowsHonest' /\ CancelsHonest'
    BY <1>1, <1>3, CancelGone DEF IInv, Honest, RowsHonest, CancelsHonest
  <1>12. RunsHonest' /\ OneRun'
    BY <1>1, <1>10 DEF IInv, Honest, RunsHonest, RunHonest, OneRun, Batch
  <1>13. ReapsHonest'
    BY <1>1, <1>5, <1>10 DEF IInv, Honest, ReapsHonest, Batch, Stored
  <1>14. InFlightCounted'
    <2> SUFFICES ASSUME NEW x \in Nodes
                 PROVE  inFlight'[x] = Cardinality(Held(x)') /\ (Cap > 0 => inFlight'[x] <= Cap)
      BY DEF InFlightCounted
    <2>1. CASE x = n
      <3>1. \A r \in Runs : ~(run'[r].node = n /\ run'[r].at \notin {"idle", "ended"})
        BY <1>2, EndedIs DEF Node
      <3>2. Held(x)' = {}
        BY <2>1, <3>1, HeldThen
      <3> QED
        BY <1>7, <2>1, <3>2, FS_EmptySet, Numbers
    <2>2. CASE x # n
      <3>1. \A r \in Runs :
              (run'[r].node = x /\ run'[r].at \notin {"idle", "ended"}) <=> (Node(r) = x /\ Holds(r))
        BY <1>2, <2>2, EndedIs DEF Node, Holds
      <3>2. Held(x)' = Held(x)
        BY <3>1, HeldIs, HeldThen
      <3> QED
        BY <1>7, <2>2, <3>2 DEF IInv, InFlightCounted
    <2> QED
      BY <2>1, <2>2
  <1>15. Typed' /\ Honest'
    BY <1>4, <1>5, <1>6, <1>7, <1>8, <1>9, <1>11, <1>12, <1>13 DEF Typed, Honest
  <1> QED
    BY <1>14, <1>15 DEF IInv

-----------------------------------------------------------------------------
(* The invariant *)

LEMMA InitHolds == Init => IInv
  <1> SUFFICES ASSUME Init PROVE IInv
    OBVIOUS
  <1>1. /\ row = [b \in Batches |-> NoRow] /\ run = [r \in Runs |-> Idle]
        /\ cancel = [c \in Cancels |-> NoCancel] /\ reap = [n \in Nodes |-> NoReap]
        /\ flag = [n \in Nodes |-> NoFlags] /\ inFlight = [n \in Nodes |-> 0]
        /\ out = [b \in Batches |-> 0] /\ late = [b \in Batches |-> 0]
    BY DEF Init
  <1>2. Idle.at = "idle" /\ Idle.node = None /\ NoRow.status = "none"
    BY DEF Idle, NoRow
  <1>3. RowsTyped /\ RunsTyped /\ CancelsTyped /\ ReapsTyped /\ CountsTyped /\ GhostsTyped
    <2>1. NoReap \in ReapTypes
      BY NoReapIs
    <2>2. 0 \in 0..Total
      BY Numbers
    <2>3. RowsTyped /\ RunsTyped /\ CancelsTyped
      BY <1>1, EndedIs, CancelGone DEF RowsTyped, RunsTyped, CancelsTyped
    <2> QED
      BY <1>1, <2>1, <2>2, <2>3 DEF ReapsTyped, CountsTyped, GhostsTyped
  <1>4. FlagsTyped
    BY <1>1 DEF FlagsTyped, NoFlags
  <1>5. RestTyped
    <2>1. First \in Nodes
      BY BulkAssumption
    <2>2. 0 \in 0..MaxFaults /\ 0 \in 0..MaxEvents
      BY Numbers
    <2> QED
      BY <2>1, <2>2 DEF Init, RestTyped
  <1>6. InUse /\ CancelsPlaced
    BY <1>1, <1>2, CancelGone DEF InUse, CancelsPlaced, Holds, Node
  <1>7. Honest
    BY <1>1, <1>2, CancelGone, NoReapIs DEF Honest, RowsHonest, RowTells, RunsHonest, CancelsHonest,
       ReapsHonest, OneRun, Stored
  <1>8. InFlightCounted
    <2> SUFFICES ASSUME NEW n \in Nodes
                 PROVE  inFlight[n] = Cardinality(Held(n)) /\ (Cap > 0 => inFlight[n] <= Cap)
      BY DEF InFlightCounted
    <2>1. Held(n) = {}
      BY <1>1, <1>2, HeldIs DEF Holds
    <2> QED
      BY <1>1, <2>1, FS_EmptySet, Numbers
  <1> QED
    BY <1>3, <1>4, <1>5, <1>6, <1>7, <1>8 DEF IInv, Typed

LEMMA NextKeeps == IInv /\ [Next]_vars => IInv'
  <1> SUFFICES ASSUME IInv, [Next]_vars PROVE IInv'
    OBVIOUS
  <1>1. CASE UNCHANGED vars
    <2>1. /\ UNCHANGED <<row, out, late, inFlight, cancel, flag, run, reap>>
          /\ UNCHANGED <<up, engine, owner, lapsed, eligible, ackedAt, deserted, faults, events>>
      BY <1>1 DEF vars, memory, session, ghosts, bounds
    <2>2. ReapsTyped' /\ RestTyped'
      BY <2>1 DEF IInv, Typed, ReapsTyped, RestTyped
    <2> QED
      BY <2>1, <2>2, Elsewhere
  <1>2. ASSUME NEW r \in Runs, RunStep(r) \/ RunFails(r) PROVE IInv'
    BY <1>2, RunKeeps
  <1>3. ASSUME NEW r \in Runs, NEW n \in Nodes, NEW b \in Batches, Create(r, n, b) PROVE IInv'
    BY <1>3, CreateKeeps
  <1>4. ASSUME NEW c \in Cancels, CancelWrite(c) \/ CancelFails(c) PROVE IInv'
    BY <1>4, CancelWriteKeeps, CancelFailsKeeps
  <1>5. ASSUME NEW c \in Cancels, NEW n \in Nodes, NEW b \in Batches, CancelRead(c, n, b) PROVE IInv'
    BY <1>5, CancelReadKeeps
  <1>6. ASSUME NEW n \in Nodes, ReapFind(n) \/ (\E b \in Batches : ReapSave(n, b)) \/ Crash(n)
        PROVE  IInv'
    BY <1>6, ReapFindKeeps, ReapSaveKeeps, CrashKeeps
  <1>7. ASSUME NEW n \in Nodes, ReapEnd(n) \/ SessionStep(n) PROVE IInv'
    BY <1>7, ElsewhereKeeps
  <1> QED
    BY <1>1, <1>2, <1>3, <1>4, <1>5, <1>6, <1>7, BulkAssumption DEF Next, ReapStep, SessionStep

LEMMA Inductive == Spec => []IInv
  <1> QED
    BY InitHolds, NextKeeps, PTL DEF Spec

-----------------------------------------------------------------------------
(* Results *)

\* Type correctness, for any number of batches, requests and nodes: no counter of a row or
\* of a loop leaves 0..Total, whoever wrote it last.
THEOREM BatchesTyped == Spec => []TypeOK
  <1>1. IInv => TypeOK
    <2> SUFFICES ASSUME IInv PROVE TypeOK
      OBVIOUS
    <2>1. inFlight \in [Nodes -> 0..Cardinality(Runs)]
      <3>1. ASSUME NEW n \in Nodes PROVE inFlight[n] \in 0..Cardinality(Runs)
        BY HeldIs DEF IInv, InFlightCounted
      <3> QED
        BY <3>1 DEF IInv, Typed, CountsTyped
    <2>2. \A n \in Nodes : /\ reap[n].at \in {"idle", "listed", "start", "find", "save"} /\ reap[n].boot \in BOOLEAN
                           /\ DOMAIN reap[n].mine \subseteq Batches
      BY DEF IInv, Typed, ReapsTyped, ReapTypes
    <2> QED
      BY <2>1, <2>2 DEF IInv, Typed, RowsTyped, RunsTyped, CancelsTyped, GhostsTyped, FlagsTyped,
         RestTyped, TypeOK
  <1> QED
    BY <1>1, Inductive, PTL

\* The count against BULK_MAX_CONCURRENT_BATCHES is the number of batches the process has in
\* memory, through every refusal, failure, cancel and crash, and stays within it.
THEOREM InFlightExact == Spec => []InFlightCounted
  <1>1. IInv => InFlightCounted
    BY DEF IInv
  <1> QED
    BY <1>1, Inductive, PTL

\* The progress of a stored batch accounts for each message once and claims no message sent
\* that the engine did not take, whichever loop, cancel or reaper wrote it from a stale read.
THEOREM CountersHold == Spec => []CountersHonest
  <1>1. IInv => CountersHonest
    BY DEF IInv, Honest, RowsHonest, RowTells, AddsUp, CountersHonest
  <1> QED
    BY <1>1, Inductive, PTL

\* A cancelled batch stays cancelled, but for a reaper that read it before.
THEOREM CancelHolds == Spec => CancelIsKept
  <1> DEFINE A == \A b \in Batches : row[b].status = "cancelled" /\ row'[b].status # "cancelled" =>
                    row'[b].status = "failed" /\ \E n \in Nodes : reap[n].at = "save" /\ b \in DOMAIN reap[n].mine
  <1>1. IInv /\ [Next]_vars => [A]_vars
    <2> SUFFICES ASSUME IInv, Next, NEW b \in Batches,
                        row[b].status = "cancelled", row'[b].status # "cancelled"
                 PROVE  /\ row'[b].status = "failed"
                        /\ \E n \in Nodes : reap[n].at = "save" /\ b \in DOMAIN reap[n].mine
      BY DEF vars
    <2>1. row \in [Batches -> RowTypes]
      BY DEF IInv, Typed, RowsTyped
    <2>2. row' # row
      OBVIOUS
    <2>3. ASSUME NEW r \in Runs, RunStep(r) \/ RunFails(r) PROVE FALSE
      <3>1. Touches(Batch(r))
        BY <2>3, RunMoves DEF IInv, Moves
      <3> QED
        BY <3>1 DEF Touches
    <2>4. ASSUME NEW c \in Cancels, CancelWrite(c) PROVE FALSE
      BY <2>1, <2>4 DEF CancelWrite, Cancellable
    <2>5. PICK n \in Nodes, x \in Batches : ReapSave(n, x)
      BY <2>2, <2>3, <2>4 DEF Next, ReapStep, ReapFind, ReapEnd, Create, CancelRead, CancelFails,
         EngineGone, Release, StartEngine, Status, Sweep, Adopt, Adopted, Crash, Boot, Lapse
    <2>6. /\ reap[n].at = "save" /\ x \in DOMAIN reap[n].mine
          /\ row' = [row EXCEPT ![x] = [reap[n].mine[x] EXCEPT !.status = "failed"]]
      BY <2>5 DEF ReapSave
    <2>7. x = b
      BY <2>1, <2>6
    <2>8. reap[n].mine[x] \in RowTypes
      BY <2>6 DEF IInv, Typed, ReapsTyped, ReapTypes
    <2> QED
      BY <2>1, <2>6, <2>7, <2>8 DEF RowTypes
  <1> QED
    BY <1>1, Inductive, PTL DEF Spec, CancelIsKept

-----------------------------------------------------------------------------
(* Cancels *)

\* Messages begun since the last progress save, at most, while the loop is at item i.
Within(i) == IF i % Cadence = 0 THEN Cadence ELSE i % Cadence

\* The node of a run has read a cancel of its batch, and may have answered it.
Told(r) ==
  \/ ackedAt[Batch(r)] = Node(r)
  \/ \E c \in Cancels : cancel[c].at = "write" /\ cancel[c].node = Node(r) /\ cancel[c].batch = Batch(r)
Flag(r) == flag[Node(r)][Batch(r)]

\* A batch whose cancel was answered, with row status st and l messages begun since.
BatchStops(b) ==
  /\ ackedAt[b] = None => late[b] = 0
  /\ ackedAt[b] # None => row[b].status \in Terminal
  /\ row[b].status = "cancelled" => late[b] <= Cadence

\* What run s, whose flag reads f, may have begun of it.
Obeying(s, f, st, l) ==
  /\ s.at \in Loaded => f \in {"on", "off"}
  /\ f = "off" => l = 0
  /\ st = "cancelled" /\ s.at \in {"gate", "send", "save"} => l <= Within(s.item)
  /\ st = "cancelled" /\ s.at = "sleep" => l <= s.item % Cadence
  /\ s.at = "final" /\ s.mine.status = "cancelled" => l <= Cadence

RunStops(r) ==
  /\ Told(r) => Flag(r) = "off"
  /\ Obeying(run[r], Flag(r), row[Batch(r)].status, late[Batch(r)])

StopInv ==
  /\ \A b \in Batches : BatchStops(b)
  /\ \A r \in Runs : run[r].at \in Stored => RunStops(r)

LEMMA NextItem ==
  ASSUME NEW c \in Nat \ {0}, NEW i \in Nat
  PROVE  /\ (i % c) \in 0..(c - 1)
         /\ ((i + 1) % c) = 0 \/ ((i + 1) % c) = (i % c) + 1
  <1> DEFINE q == i \div c
             m == i % c
  <1>1. m \in 0..(c - 1) /\ q \in Int /\ i = c * q + m
    BY Z3
  <1> HIDE DEF q, m
  <1>2. CASE m = c - 1
    <2>1. i + 1 = c * (q + 1)
      BY <1>1, <1>2
    <2>2. (c * (q + 1)) % c = 0
      BY <1>1
    <2> QED
      BY <1>1, <2>1, <2>2 DEF m
  <1>3. CASE m < c - 1
    <2>1. i + 1 = c * q + (m + 1) /\ (m + 1) \in 0..(c - 1)
      BY <1>1, <1>3
    <2>2. \A x \in Int, y \in 0..(c - 1) : (c * x + y) % c = y
      OBVIOUS
    <2>3. ((i + 1) % c) = m + 1
      BY <1>1, <2>1, <2>2
    <2> QED
      BY <1>1, <2>3 DEF m
  <1> QED
    BY <1>1, <1>2, <1>3 DEF m

LEMMA WithinIs ==
  ASSUME NEW i \in Nat
  PROVE  /\ Cadence \in Nat \ {0}
         /\ (i % Cadence) \in Nat /\ (i % Cadence) + 1 <= Cadence
         /\ Within(i) \in Nat /\ 1 <= Within(i) /\ Within(i) <= Cadence
         /\ i % Cadence # 0 => Within(i) = i % Cadence
         /\ (i % Cadence) + 1 <= Within(i + 1)
  <1>1. Cadence \in Nat \ {0}
    BY BulkAssumption
  <1> DEFINE m == i % Cadence
             k == (i + 1) % Cadence
  <1>2. m \in 0..(Cadence - 1) /\ (k = 0 \/ k = m + 1)
    BY <1>1, NextItem
  <1>3. /\ Within(i) = IF m = 0 THEN Cadence ELSE m
        /\ Within(i + 1) = IF k = 0 THEN Cadence ELSE k
    BY DEF Within
  <1> HIDE DEF m, k
  <1>4. /\ m \in Nat /\ m + 1 <= Cadence /\ Within(i) \in Nat /\ 1 <= Within(i)
        /\ Within(i) <= Cadence /\ (m # 0 => Within(i) = m) /\ m + 1 <= Within(i + 1)
    BY <1>1, <1>2, <1>3
  <1> QED
    BY <1>1, <1>4 DEF m

\* A run that goes on as t, and obeys; the other runs have other batches.
LEMMA StopsKept ==
  ASSUME IInv, StopInv, NEW r \in Runs, run[r].at \in Places, Moves(r), UNCHANGED <<cancel, ackedAt>>,
         NEW n \in Nodes, NEW b \in Batches, n = Node(r), b = Batch(r),
         NEW t \in RunTypes, run' = [run EXCEPT ![r] = t],
         flag' \in [Nodes -> [Batches -> {"none", "on", "off"}]],
         \A x \in Nodes, y \in Batches : x # n \/ y # b => flag'[x][y] = flag[x][y],
         run[r].at = "insert" =>
           UNCHANGED flag /\ (row[b].status # "none" => UNCHANGED <<row, late>>),
         BatchStops(b)',
         t.at \in Stored => /\ t.node = n /\ t.batch = b
                            /\ Told(r) => flag'[n][b] = "off"
                            /\ Obeying(t, flag'[n][b], row'[b].status, late'[b])
  PROVE  StopInv'
  <1>1. /\ run \in [Runs -> RunTypes] /\ Touches(b) /\ run'[r] = t
        /\ \A q \in Runs : q # r => run'[q] = run[q]
    BY DEF IInv, Typed, RunsTyped, Moves
  <1>2. ASSUME NEW x \in Batches PROVE BatchStops(x)'
    BY <1>1 DEF StopInv, BatchStops, Touches
  <1>3. ASSUME t.at \in Stored PROVE RunStops(r)'
    <2>1. Batch(r)' = b /\ Node(r)' = n
      BY <1>1, <1>3 DEF Batch, Node
    <2>2. Told(r)' => Told(r)
      BY <2>1 DEF Told
    <2> QED
      BY <1>1, <1>3, <2>1, <2>2 DEF RunStops, Flag
  <1>4. ASSUME NEW q \in Runs, q # r, run'[q].at \in Stored PROVE RunStops(q)'
    <2>1. /\ run'[q] = run[q] /\ RunStops(q) /\ Batch(q)' = Batch(q) /\ Node(q)' = Node(q)
          /\ Batch(q) \in Batches /\ Node(q) \in Nodes /\ row[Batch(q)].status # "none"
      <3>1. run'[q] = run[q] /\ run[q].at \in Stored /\ run[q].at \in Places
        BY <1>1, <1>4 DEF Places
      <3> QED
        BY <3>1, Acting DEF StopInv, IInv, Batch, Node, RunTells
    <2>2. Told(q)' <=> Told(q)
      BY <2>1 DEF Told
    <2>3. /\ flag'[Node(q)][Batch(q)] = flag[Node(q)][Batch(q)]
          /\ row'[Batch(q)] = row[Batch(q)] /\ late'[Batch(q)] = late[Batch(q)]
      <3>1. CASE run[r].at \in Stored
        <4>1. Batch(q) # b
          BY <1>1, <1>4, <3>1 DEF IInv, Honest, OneRun
        <4> QED
          BY <1>1, <2>1, <4>1 DEF Touches
      <3>2. CASE run[r].at = "insert"
        BY <1>1, <2>1, <3>2 DEF Touches
      <3> QED
        BY <3>1, <3>2 DEF Places
    <2> QED
      BY <2>1, <2>2, <2>3 DEF RunStops, Flag
  <1>5. ASSUME NEW q \in Runs, run'[q].at \in Stored PROVE RunStops(q)'
    BY <1>1, <1>3, <1>4, <1>5
  <1> QED
    BY <1>2, <1>5 DEF StopInv

LEMMA Obeys ==
  ASSUME IInv, StopInv, NEW r \in Runs, run[r].at \in Places
  PROVE  LET b == Batch(r)  n == Node(r) IN
         /\ n \in Nodes /\ b \in Batches /\ run[r] \in RunTypes
         /\ row \in [Batches -> RowTypes] /\ late \in [Batches -> Nat] /\ late[b] \in Nat
         /\ flag \in [Nodes -> [Batches -> {"none", "on", "off"}]]
         /\ RowTells(row[b], out[b], late[b]) /\ BatchStops(b)
         /\ run[r].at \in Stored => /\ RunTells(run[r], row[b].status, out[b], late[b])
                                    /\ Told(r) => flag[n][b] = "off"
                                    /\ Obeying(run[r], flag[n][b], row[b].status, late[b])
  <1>1. late \in [Batches -> Nat]
    BY Numbers DEF IInv, Typed, GhostsTyped
  <1> QED
    BY <1>1, Acting DEF IInv, Typed, RowsTyped, FlagsTyped, StopInv, RunStops, Flag

\* A run that leaves: only its batch counts.
LEMMA LeaveStops ==
  ASSUME IInv, StopInv, NEW r \in Runs, run[r].at \in Places, Moves(r), UNCHANGED <<cancel, ackedAt>>,
         NEW driven \in BOOLEAN, Leave(r, driven), NEW b \in Batches, b = Batch(r), BatchStops(b)',
         run[r].at = "insert" => driven = FALSE /\ UNCHANGED <<row, late>>
  PROVE  StopInv'
  <1>1. Node(r) \in Nodes /\ flag \in [Nodes -> [Batches -> {"none", "on", "off"}]]
    BY Obeys
  <1>2. /\ flag' \in [Nodes -> [Batches -> {"none", "on", "off"}]]
        /\ \A x \in Nodes, y \in Batches : x # Node(r) \/ y # b => flag'[x][y] = flag[x][y]
        /\ ~driven => flag' = flag
    BY <1>1 DEF Leave
  <1>3. run' = [run EXCEPT ![r] = Ended] /\ Ended.at \notin Stored
    BY EndedIs DEF Leave, Stops, Stored
  <1> QED
    BY <1>1, <1>2, <1>3, EndedIs, StopsKept

LEMMA InsertStops ==
  ASSUME IInv, StopInv, NEW r \in Runs, Insert(r),
         NEW n \in Nodes, NEW b \in Batches, n = Node(r), b = Batch(r)
  PROVE  StopInv'
  <1> DEFINE t == [run[r] EXCEPT !.at = "load"]
  <1>1. /\ run[r].at = "insert" /\ run[r].at \in Places /\ Moves(r)
        /\ UNCHANGED <<cancel, ackedAt, late>>
    BY RunMoves DEF Insert, At, Places, IInv, RunStep, ghosts
  <1>2. /\ run[r] \in RunTypes /\ BatchStops(b)
        /\ RowTells(row[b], out[b], late[b])
        /\ flag \in [Nodes -> [Batches -> {"none", "on", "off"}]]
        /\ row \in [Batches -> RowTypes]
    BY <1>1, Obeys
  <1>3. CASE row[b].status # "none"
    <2>1. Leave(r, FALSE) /\ UNCHANGED row
      BY <1>3 DEF Insert
    <2>2. BatchStops(b)'
      BY <1>1, <1>2, <2>1 DEF BatchStops
    <2> QED
      BY <1>1, <1>2, <2>1, <2>2, LeaveStops
  <1>4. CASE row[b].status = "none"
    <2>1. /\ row' = [row EXCEPT ![b] = [NoRow EXCEPT !.status = "pending", !.pending = Total]]
          /\ run' = [run EXCEPT ![r] = t] /\ UNCHANGED flag
      BY <1>4 DEF Insert, To
    <2>2. /\ t \in RunTypes /\ t.at = "load" /\ t.node = n /\ t.batch = b
      BY <1>2, Placed DEF Places, Stored, Node, Batch
    <2>3. row'[b].status = "pending"
      BY <1>2, <2>1 DEF NoRow
    <2>4. late[b] = 0 /\ ackedAt[b] = None
      BY <1>2, <1>4 DEF RowTells, BatchStops, Terminal
    <2>5. ~Told(r)
      <3>1. \A c \in Cancels : cancel[c].at = "write" => row[cancel[c].batch].status # "none"
        BY DEF IInv, Honest, CancelsHonest
      <3> QED
        BY <1>2, <1>4, <2>4, <3>1, BulkAssumption DEF Told
    <2>6. BatchStops(b)'
      BY <1>1, <2>3, <2>4, BulkAssumption DEF BatchStops
    <2>7. Obeying(t, flag'[n][b], row'[b].status, late'[b])
      BY <1>1, <2>2, <2>3, <2>4 DEF Obeying, Loaded
    <2> HIDE DEF t
    <2> QED
      BY <1>1, <1>2, <1>4, <2>1, <2>2, <2>5, <2>6, <2>7, StopsKept
  <1> QED
    BY <1>3, <1>4

\* The flag of a batch that was cancelled here turns the loop away.
LEMMA LoadStops ==
  ASSUME IInv, StopInv, NEW r \in Runs, Load(r),
         NEW n \in Nodes, NEW b \in Batches, n = Node(r), b = Batch(r)
  PROVE  StopInv'
  <1> DEFINE t == [run[r] EXCEPT !.at = "mark", !.mine = row[b]]
  <1>1. /\ run[r].at = "load" /\ run[r].at \in Places /\ run[r].at \in Stored /\ Moves(r)
        /\ UNCHANGED <<cancel, ackedAt, late, row>>
    BY RunMoves DEF Load, At, Places, Stored, IInv, RunStep, ghosts
  <1>2. /\ run[r] \in RunTypes /\ BatchStops(b)
        /\ (Told(r) => flag[n][b] = "off") /\ late[b] = 0
        /\ flag \in [Nodes -> [Batches -> {"none", "on", "off"}]]
        /\ row \in [Batches -> RowTypes]
    BY <1>1, Obeys DEF RunTells
  <1>3. BatchStops(b)'
    BY <1>1, <1>2 DEF BatchStops
  <1>4. CASE flag[n][b] = "off" \/ ~NotCancelled(b)
    <2>1. Leave(r, TRUE)
      BY <1>4 DEF Load
    <2> QED
      BY <1>1, <1>2, <1>3, <2>1, LeaveStops
  <1>5. CASE ~(flag[n][b] = "off" \/ ~NotCancelled(b))
    <2>1. run' = [run EXCEPT ![r] = t] /\ flag' = [flag EXCEPT ![n][b] = "on"]
      BY <1>5 DEF Load
    <2>2. t \in RunTypes /\ t.at = "mark" /\ t.node = n /\ t.batch = b
      BY <1>2 DEF RunTypes, Node, Batch
    <2>3. /\ flag' \in [Nodes -> [Batches -> {"none", "on", "off"}]] /\ flag'[n][b] = "on"
          /\ \A x \in Nodes, y \in Batches : x # n \/ y # b => flag'[x][y] = flag[x][y]
      BY <1>2, <2>1
    <2>4. Obeying(t, flag'[n][b], row'[b].status, late'[b])
      BY <2>2, <2>3 DEF Obeying
    <2> HIDE DEF t
    <2> QED
      BY <1>1, <1>2, <1>3, <1>5, <2>1, <2>2, <2>3, <2>4, StopsKept
  <1> QED
    BY <1>4, <1>5

\* PROCESSING is only reached by a batch no cancel was answered for.
LEMMA MarkStops ==
  ASSUME IInv, StopInv, NEW r \in Runs, Mark(r),
         NEW n \in Nodes, NEW b \in Batches, n = Node(r), b = Batch(r)
  PROVE  StopInv'
  <1>1. /\ run[r].at = "mark" /\ run[r].at \in Places /\ run[r].at \in Stored /\ Moves(r)
        /\ UNCHANGED <<cancel, ackedAt>>
    BY RunMoves DEF Mark, At, Places, Stored, IInv, RunStep
  <1>2. /\ run[r] \in RunTypes /\ BatchStops(b) /\ row \in [Batches -> RowTypes] /\ late[b] = 0
        /\ (Told(r) => flag[n][b] = "off") /\ flag[n][b] \in {"on", "off"}
        /\ flag \in [Nodes -> [Batches -> {"none", "on", "off"}]]
        /\ row[b].status \in {"pending", "cancelled"} /\ late \in [Batches -> Nat]
    BY <1>1, Obeys DEF RunTells, Obeying, Loaded
  <1>3. CASE ~MayStart(b)
    <2>1. Leave(r, TRUE) /\ UNCHANGED <<row, late>>
      BY <1>3 DEF Mark
    <2>2. BatchStops(b)'
      BY <1>1, <1>2, <2>1 DEF BatchStops
    <2> QED
      BY <1>1, <2>1, <2>2, LeaveStops
  <1>4. CASE MayStart(b)
    <2>1. /\ row' = [row EXCEPT ![b].status = "processing"] /\ UNCHANGED flag
          /\ IF n \in engine THEN Turn(r, [run[r] EXCEPT !.live = TRUE], 0)
             ELSE To(r, "noengine") /\ UNCHANGED late
      BY <1>4 DEF Mark, MayStart
    <2>2. row'[b].status = "processing" /\ ackedAt[b] = None
      <3>1. row[b].status = "pending"
        BY <1>2, <1>4 DEF MayStart, NotCancelled
      <3> QED
        BY <1>2, <2>1, <3>1 DEF BatchStops, Terminal, RowTypes
    <2>3. late' = late
      BY <2>1, <2>2 DEF Turn, Counted
    <2>4. BatchStops(b)'
      BY <1>1, <1>2, <2>2, <2>3 DEF BatchStops
    <2>5. ASSUME NEW t \in RunTypes, t.at \in {"gate", "reread", "noengine"}, t.node = n, t.batch = b,
                 run' = [run EXCEPT ![r] = t]
          PROVE  StopInv'
      <3>1. Obeying(t, flag'[n][b], row'[b].status, late'[b])
        BY <1>2, <2>1, <2>2, <2>3, <2>5 DEF Obeying
      <3> QED
        BY <1>1, <1>2, <2>1, <2>4, <2>5, <3>1, StopsKept
    <2>6. CASE n \in engine
      <3>1. [run[r] EXCEPT !.live = TRUE] \in RunTypes /\ 0 \in 0..Total
        <4>1. 0 \in 0..Total
          BY Numbers
        <4> QED
          BY <1>2, <4>1 DEF RunTypes
      <3>2. PICK l \in {"gate", "reread"} :
              run' = [run EXCEPT ![r] = [[run[r] EXCEPT !.live = TRUE] EXCEPT !.at = l, !.item = 0]]
        BY <2>1, <2>6 DEF Turn
      <3> DEFINE t == [[run[r] EXCEPT !.live = TRUE] EXCEPT !.at = l, !.item = 0]
      <3>3. t \in RunTypes /\ t.at = l /\ t.node = n /\ t.batch = b
        BY <1>2, <3>1 DEF RunTypes, Node, Batch
      <3>4. run' = [run EXCEPT ![r] = t]
        BY <3>2
      <3> HIDE DEF t
      <3> QED
        BY <2>5, <3>3, <3>4
    <2>7. CASE n \notin engine
      <3> DEFINE t == [run[r] EXCEPT !.at = "noengine"]
      <3>1. t \in RunTypes /\ t.at = "noengine" /\ t.node = n /\ t.batch = b
        BY <1>2 DEF RunTypes, Node, Batch
      <3>2. run' = [run EXCEPT ![r] = t]
        BY <2>1, <2>7 DEF To
      <3> HIDE DEF t
      <3> QED
        BY <2>5, <3>1, <3>2
    <2> QED
      BY <2>6, <2>7
  <1> QED
    BY <1>3, <1>4

LEMMA NoEngineStops ==
  ASSUME IInv, StopInv, NEW r \in Runs, NoEngine(r),
         NEW n \in Nodes, NEW b \in Batches, n = Node(r), b = Batch(r)
  PROVE  StopInv'
  <1>1. /\ run[r].at = "noengine" /\ run[r].at \in Places /\ Moves(r) /\ Leave(r, TRUE)
        /\ UNCHANGED <<cancel, ackedAt, late>>
        /\ row' = IF NotCancelled(b) THEN [row EXCEPT ![b].status = "failed"] ELSE row
    BY RunMoves DEF NoEngine, At, Places, Stored, IInv, RunStep, ghosts
  <1>2. BatchStops(b) /\ row \in [Batches -> RowTypes]
    BY <1>1, Obeys
  <1>3. BatchStops(b)'
    BY <1>1, <1>2 DEF BatchStops, Terminal, RowTypes
  <1> QED
    BY <1>1, <1>3, LeaveStops

\* A run that goes on with its item, on the same row.
LEMMA ItemStops ==
  ASSUME IInv, StopInv, NEW r \in Runs, run[r].at \in {"gate", "send"}, Moves(r),
         UNCHANGED <<cancel, ackedAt, late, row, flag>>,
         NEW t \in RunTypes, run' = [run EXCEPT ![r] = t],
         t.node = Node(r), t.batch = Batch(r), t.item = run[r].item,
         t.at \in {"send", "save", "sleep", "reread"}, t.at = "sleep" => ~SavesAt(t.item)
  PROVE  StopInv'
  <1>1. PICK n \in Nodes, b \in Batches : n = Node(r) /\ b = Batch(r)
    BY Obeys DEF Places, Stored
  <1>2. /\ run[r] \in RunTypes /\ BatchStops(b) /\ late[b] \in Nat
        /\ (Told(r) => flag[n][b] = "off") /\ Obeying(run[r], flag[n][b], row[b].status, late[b])
        /\ flag \in [Nodes -> [Batches -> {"none", "on", "off"}]]
    BY <1>1, Obeys DEF Places, Stored
  <1>3. t.item \in Nat
    BY Numbers DEF RunTypes
  <1>4. Obeying(t, flag'[n][b], row'[b].status, late'[b])
    BY <1>2, <1>3, WithinIs DEF Obeying, Loaded, Stored, SavesAt
  <1>5. BatchStops(b)'
    BY <1>2 DEF BatchStops
  <1> QED
    BY <1>1, <1>2, <1>4, <1>5, StopsKept DEF Places, Stored

LEMMA FailureStops ==
  ASSUME IInv, StopInv, NEW r \in Runs, run[r].at \in {"gate", "send"}, Moves(r), AfterFailure(r),
         UNCHANGED <<cancel, ackedAt, late, row, flag>>
  PROVE  StopInv'
  <1>1. /\ run[r] \in RunTypes /\ AddsUp(run[r].mine) /\ run[r].mine.pending > 0
    <2>1. run[r] \in RunTypes /\ RunTells(run[r], row[Batch(r)].status, out[Batch(r)], late[Batch(r)])
      BY Obeys DEF Places, Stored
    <2> QED
      BY <2>1, Numbers DEF RunTells, Loaded, Stored, RunTypes
  <1> DEFINE s == Failed(run[r])
  <1>2. s \in RunTypes /\ s.node = Node(r) /\ s.batch = Batch(r) /\ s.item = run[r].item
    BY <1>1, Outcome DEF Node, Batch
  <1>3. CASE run' = [run EXCEPT ![r] = [s EXCEPT !.at = "reread", !.mine.status = "failed"]]
    <2> DEFINE t == [s EXCEPT !.at = "reread", !.mine = [s.mine EXCEPT !.status = "failed"]]
    <2>1. [s.mine EXCEPT !.status = "failed"] \in RowTypes
      BY <1>2 DEF RunTypes, RowTypes, Terminal
    <2>2. t \in RunTypes /\ t.at = "reread" /\ t.node = s.node /\ t.batch = s.batch /\ t.item = s.item
      BY <1>2, <2>1 DEF RunTypes
    <2>3. run' = [run EXCEPT ![r] = t]
      BY <1>3
    <2> HIDE DEF s, t
    <2> QED
      BY <1>2, <2>2, <2>3, ItemStops
  <1>4. CASE After(r, s)
    <2>1. PICK l \in {"save", "sleep", "reread"} :
            run' = [run EXCEPT ![r] = [s EXCEPT !.at = l]] /\ (l = "sleep" => ~SavesAt(s.item))
      BY <1>4 DEF After
    <2> DEFINE t == [s EXCEPT !.at = l]
    <2>2. t \in RunTypes /\ t.at = l /\ t.node = s.node /\ t.batch = s.batch /\ t.item = s.item
      BY <1>2 DEF RunTypes
    <2>3. run' = [run EXCEPT ![r] = t]
      BY <2>1
    <2>4. t.at \in {"send", "save", "sleep", "reread"} /\ (t.at = "sleep" => ~SavesAt(t.item))
      BY <2>1, <2>2
    <2> HIDE DEF s, t
    <2> QED
      BY <1>2, <2>2, <2>3, <2>4, ItemStops
  <1> QED
    BY <1>3, <1>4 DEF AfterFailure

LEMMA GateStops ==
  ASSUME IInv, StopInv, NEW r \in Runs, Gate(r)
  PROVE  StopInv'
  <1>1. /\ run[r].at = "gate" /\ Moves(r) /\ UNCHANGED <<cancel, ackedAt, late, row, flag>>
    BY RunMoves DEF Gate, At, IInv, RunStep, ghosts
  <1>2. CASE AfterFailure(r)
    BY <1>1, <1>2, FailureStops
  <1>3. CASE To(r, "send")
    <2> DEFINE t == [run[r] EXCEPT !.at = "send"]
    <2>1. run[r] \in RunTypes
      BY <1>1, Obeys DEF Places, Stored
    <2>2. t \in RunTypes /\ t.at = "send" /\ t.node = Node(r) /\ t.batch = Batch(r) /\ t.item = run[r].item
      BY <2>1 DEF RunTypes, Node, Batch
    <2>3. run' = [run EXCEPT ![r] = t]
      BY <1>3 DEF To
    <2> HIDE DEF t
    <2> QED
      BY <1>1, <2>2, <2>3, ItemStops
  <1> QED
    BY <1>2, <1>3 DEF Gate

LEMMA SendStops ==
  ASSUME IInv, StopInv, NEW r \in Runs, Send(r)
  PROVE  StopInv'
  <1>1. /\ run[r].at = "send" /\ Moves(r) /\ UNCHANGED <<cancel, ackedAt, late, row, flag>>
    BY RunMoves DEF Send, At, IInv, RunStep
  <1>2. CASE AfterFailure(r)
    BY <1>1, <1>2, FailureStops
  <1>3. CASE After(r, Sent(run[r]))
    <2>1. run[r] \in RunTypes /\ AddsUp(run[r].mine) /\ run[r].mine.pending > 0
      <3>1. run[r] \in RunTypes /\ RunTells(run[r], row[Batch(r)].status, out[Batch(r)], late[Batch(r)])
        BY <1>1, Obeys DEF Places, Stored
      <3> QED
        BY <1>1, <3>1, Numbers DEF RunTells, Loaded, Stored, RunTypes
    <2> DEFINE s == Sent(run[r])
    <2>2. s \in RunTypes /\ s.node = Node(r) /\ s.batch = Batch(r) /\ s.item = run[r].item
      BY <2>1, Outcome DEF Node, Batch
    <2>3. PICK l \in {"save", "sleep", "reread"} :
            run' = [run EXCEPT ![r] = [s EXCEPT !.at = l]] /\ (l = "sleep" => ~SavesAt(s.item))
      BY <1>3 DEF After
    <2> DEFINE t == [s EXCEPT !.at = l]
    <2>4. t \in RunTypes /\ t.at = l /\ t.node = s.node /\ t.batch = s.batch /\ t.item = s.item
      BY <2>2 DEF RunTypes
    <2>5. run' = [run EXCEPT ![r] = t]
      BY <2>3
    <2>6. t.at \in {"send", "save", "sleep", "reread"} /\ (t.at = "sleep" => ~SavesAt(t.item))
      BY <2>3, <2>4
    <2> HIDE DEF s, t
    <2> QED
      BY <1>1, <2>2, <2>4, <2>5, <2>6, ItemStops
  <1> QED
    BY <1>2, <1>3 DEF Send

\* A save answers a cancel of another process with the end of the loop.
LEMMA SaveStops ==
  ASSUME IInv, StopInv, NEW r \in Runs, Save(r),
         NEW n \in Nodes, NEW b \in Batches, n = Node(r), b = Batch(r)
  PROVE  StopInv'
  <1>1. /\ run[r].at = "save" /\ run[r].at \in Places /\ run[r].at \in Stored /\ Moves(r)
        /\ UNCHANGED <<cancel, ackedAt, late, flag>>
    BY RunMoves DEF Save, At, Places, Stored, IInv, RunStep, ghosts
  <1>2. /\ run[r] \in RunTypes /\ BatchStops(b) /\ row \in [Batches -> RowTypes]
        /\ (Told(r) => flag[n][b] = "off") /\ Obeying(run[r], flag[n][b], row[b].status, late[b])
        /\ flag \in [Nodes -> [Batches -> {"none", "on", "off"}]]
    BY <1>1, Obeys
  <1>3. flag[n][b] \in {"on", "off"} /\ (flag[n][b] = "off" => late[b] = 0)
    BY <1>1, <1>2 DEF Obeying, Loaded
  <1>4. CASE NotCancelled(b)
    <2>1. /\ row' = [row EXCEPT ![b] = [run[r].mine EXCEPT !.status = row[b].status]]
          /\ \E l \in {"sleep", "reread"} : run' = [run EXCEPT ![r].at = l]
      BY <1>4 DEF Save, Progress
    <2>2. PICK l \in {"sleep", "reread"} : run' = [run EXCEPT ![r].at = l]
      BY <2>1
    <2>3. row'[b].status = row[b].status
      BY <1>2, <2>1 DEF RunTypes, RowTypes
    <2>4. BatchStops(b)'
      BY <1>1, <1>2, <2>3 DEF BatchStops
    <2> DEFINE t == [run[r] EXCEPT !.at = l]
    <2>5. t \in RunTypes /\ t.at = l /\ t.node = n /\ t.batch = b
      BY <1>2, <2>2 DEF RunTypes, Node, Batch
    <2>6. run' = [run EXCEPT ![r] = t]
      BY <2>2
    <2>7. Obeying(t, flag'[n][b], row'[b].status, late'[b])
      BY <1>1, <1>3, <1>4, <2>2, <2>3, <2>5 DEF Obeying, NotCancelled
    <2> HIDE DEF t
    <2> QED
      BY <1>1, <1>2, <2>4, <2>5, <2>6, <2>7, StopsKept
  <1>5. CASE ~NotCancelled(b)
    <2>1. UNCHANGED row /\ late[b] <= Cadence
      BY <1>2, <1>5 DEF Save, BatchStops, NotCancelled
    <2>2. BatchStops(b)'
      BY <1>1, <1>2, <2>1 DEF BatchStops
    <2>3. PICK t \in RunTypes : Becomes(r, t)
      BY <1>1 DEF Moves
    <2>4. run' = [run EXCEPT ![r] = t] /\ run'[r].at = "final"
      <3>1. run \in [Runs -> RunTypes]
        BY DEF IInv, Typed, RunsTyped
      <3>2. run'[r].at = "final"
        BY <1>2, <1>5, <3>1 DEF Save, RunTypes
      <3> QED
        BY <2>3, <3>2 DEF Becomes
    <2>5. t.at = "final" /\ t.node = n /\ t.batch = b
      <3>1. run'[r] = t
        BY <2>4 DEF IInv, Typed, RunsTyped
      <3> QED
        BY <2>3, <2>4, <3>1, EndedIs DEF Becomes
    <2>6. Obeying(t, flag'[n][b], row'[b].status, late'[b])
      BY <1>1, <1>3, <2>1, <2>5 DEF Obeying
    <2> QED
      BY <1>1, <1>2, <2>2, <2>4, <2>5, <2>6, StopsKept
  <1> QED
    BY <1>4, <1>5

\* A message more is begun, by a loop whose flag is on.
LEMMA SleepStops ==
  ASSUME IInv, StopInv, NEW r \in Runs, Sleep(r),
         NEW n \in Nodes, NEW b \in Batches, n = Node(r), b = Batch(r)
  PROVE  StopInv'
  <1>1. /\ run[r].at = "sleep" /\ run[r].at \in Places /\ run[r].at \in Stored /\ Moves(r)
        /\ UNCHANGED <<row, cancel, ackedAt, flag>>
        /\ Turn(r, run[r], run[r].item + 1)
    BY RunMoves DEF Sleep, At, Places, Stored, IInv, RunStep
  <1>2. /\ run[r] \in RunTypes /\ BatchStops(b) /\ late \in [Batches -> Nat] /\ late[b] \in Nat
        /\ (Told(r) => flag[n][b] = "off") /\ Obeying(run[r], flag[n][b], row[b].status, late[b])
        /\ flag \in [Nodes -> [Batches -> {"none", "on", "off"}]]
    BY <1>1, Obeys
  <1> DEFINE i == run[r].item
  <1>3. i \in Nat /\ i + 1 \in Nat /\ (flag[n][b] = "off" => late[b] = 0)
        /\ flag[n][b] \in {"on", "off"}
        /\ (row[b].status = "cancelled" => late[b] <= i % Cadence)
    BY <1>1, <1>2, Numbers DEF RunTypes, Obeying, Loaded
  <1>4. /\ (i % Cadence) \in Nat /\ Cadence \in Nat /\ (i % Cadence) + 1 <= Cadence
        /\ Within(i + 1) \in Nat /\ 1 <= Within(i + 1) /\ (i % Cadence) + 1 <= Within(i + 1)
    BY <1>3, WithinIs
  <1>5. PICK l \in {"gate", "reread"} :
          /\ run' = [run EXCEPT ![r] = [run[r] EXCEPT !.at = l, !.item = i + 1]]
          /\ IF l = "gate" THEN flag[n][b] = "on" /\ Counted(r) ELSE UNCHANGED late
    BY <1>1 DEF Turn
  <1> DEFINE t == [run[r] EXCEPT !.at = l, !.item = i + 1]
  <1>6. t.at = l /\ t.item = i + 1 /\ t.node = n /\ t.batch = b /\ run' = [run EXCEPT ![r] = t]
    BY <1>2, <1>5 DEF RunTypes, Node, Batch
  <1>7. t \in RunTypes
    <2>1. run \in [Runs -> RunTypes] /\ run' \in [Runs -> RunTypes]
      BY <1>1, MoveTyped DEF IInv, Typed, RunsTyped
    <2> QED
      BY <1>5, <2>1
  <1> HIDE DEF t, i
  <1>8. /\ ackedAt[b] = None => late'[b] = 0
        /\ l = "reread" => late'[b] = late[b]
        /\ late'[b] # late[b] => late'[b] = late[b] + 1 /\ flag[n][b] = "on"
    BY <1>2, <1>5 DEF Counted, BatchStops
  <1>9. row[b].status = "cancelled" => late'[b] <= Within(i + 1) /\ late'[b] <= Cadence
    <2>1. row[b].status = "cancelled" => late'[b] <= (i % Cadence) + 1
      BY <1>2, <1>3, <1>4, <1>8
    <2> HIDE DEF Within
    <2> QED
      BY <1>2, <1>4, <1>8, <2>1
  <1>10. BatchStops(b)'
    BY <1>1, <1>2, <1>8, <1>9 DEF BatchStops
  <1>11. flag[n][b] = "off" => late'[b] = 0
    BY <1>3, <1>8
  <1>12. Obeying(t, flag'[n][b], row'[b].status, late'[b])
    BY <1>1, <1>3, <1>5, <1>6, <1>9, <1>11 DEF Obeying
  <1> QED
    BY <1>1, <1>2, <1>6, <1>7, <1>10, <1>12, StopsKept

LEMMA RereadStops ==
  ASSUME IInv, StopInv, NEW r \in Runs, Reread(r),
         NEW n \in Nodes, NEW b \in Batches, n = Node(r), b = Batch(r)
  PROVE  StopInv'
  <1>1. /\ run[r].at = "reread" /\ run[r].at \in Places /\ run[r].at \in Stored /\ Moves(r)
        /\ UNCHANGED <<cancel, ackedAt, late, flag, row>>
    BY RunMoves DEF Reread, At, Places, Stored, IInv, RunStep, ghosts
  <1>2. /\ run[r] \in RunTypes /\ BatchStops(b) /\ late[b] \in Nat
        /\ (Told(r) => flag[n][b] = "off") /\ Obeying(run[r], flag[n][b], row[b].status, late[b])
        /\ flag \in [Nodes -> [Batches -> {"none", "on", "off"}]]
    BY <1>1, Obeys
  <1>3. flag[n][b] \in {"on", "off"} /\ (flag[n][b] = "off" => late[b] = 0)
    BY <1>1, <1>2 DEF Obeying, Loaded
  <1>4. BatchStops(b)'
    BY <1>1, <1>2 DEF BatchStops
  <1>5. PICK t \in RunTypes : Becomes(r, t)
    BY <1>1 DEF Moves
  <1>6. /\ run' = [run EXCEPT ![r] = t] /\ run'[r] = t
        /\ run'[r].at = "final"
        /\ run'[r].mine.status = "cancelled" => ~NotCancelled(b) \/ flag[n][b] # "on"
    <2>1. run \in [Runs -> RunTypes]
      BY DEF IInv, Typed, RunsTyped
    <2>2. run' = [run EXCEPT ![r] = t] /\ run'[r] = t
      BY <1>5, <2>1 DEF Becomes
    <2>3. run'[r].at = "final"
      BY <1>2, <2>1 DEF Reread, RunTypes
    <2>4. ASSUME NotCancelled(b), flag[n][b] = "on"
          PROVE  run'[r].mine.status # "cancelled"
      <3>1. run' = [run EXCEPT ![r].at = "final",
                               ![r].mine = [run[r].mine EXCEPT !.status = Resolve(run[r].mine)]]
        BY <2>4 DEF Reread
      <3>2. run[r].mine \in RowTypes
        BY <1>2 DEF RunTypes
      <3>3. run'[r].mine.status = Resolve(run[r].mine)
        BY <1>2, <2>1, <3>1, <3>2 DEF RunTypes, RowTypes
      <3> QED
        BY <3>3 DEF Resolve
    <2> QED
      BY <2>2, <2>3, <2>4
  <1>7. t.at = "final" /\ t.node = n /\ t.batch = b
    BY <1>5, <1>6, EndedIs DEF Becomes
  <1>8. t.mine.status = "cancelled" => late[b] <= Cadence
    BY <1>2, <1>3, <1>6, BulkAssumption DEF BatchStops, NotCancelled
  <1>9. Obeying(t, flag'[n][b], row'[b].status, late'[b])
    BY <1>1, <1>3, <1>7, <1>8 DEF Obeying
  <1> QED
    BY <1>1, <1>2, <1>4, <1>6, <1>7, <1>9, StopsKept

LEMMA FinalStops ==
  ASSUME IInv, StopInv, NEW r \in Runs, Final(r),
         NEW n \in Nodes, NEW b \in Batches, n = Node(r), b = Batch(r)
  PROVE  StopInv'
  <1>1. /\ run[r].at = "final" /\ run[r].at \in Places /\ run[r].at \in Stored /\ Moves(r)
        /\ Leave(r, TRUE) /\ UNCHANGED <<cancel, ackedAt, late>>
    BY RunMoves DEF Final, At, Places, Stored, IInv, RunStep, ghosts
  <1>2. /\ run[r] \in RunTypes /\ BatchStops(b) /\ row \in [Batches -> RowTypes] /\ late[b] \in Nat
        /\ run[r].mine.status \in Terminal
        /\ Obeying(run[r], flag[n][b], row[b].status, late[b])
    BY <1>1, Obeys DEF RunTells
  <1>3. run[r].mine.status = "cancelled" => late[b] <= Cadence
    BY <1>1, <1>2 DEF Obeying
  <1>4. BatchStops(b)'
    <2>1. UNCHANGED row \/ row'[b] = run[r].mine
      BY <1>2 DEF Final
    <2> QED
      BY <1>1, <1>2, <1>3, <2>1 DEF BatchStops
  <1> QED
    BY <1>1, <1>4, LeaveStops

LEMMA FailStops ==
  ASSUME IInv, StopInv, NEW r \in Runs, RunFails(r)
  PROVE  StopInv'
  <1>1. /\ run[r].at \in Places /\ Moves(r) /\ UNCHANGED <<cancel, ackedAt, row, late>>
        /\ Leave(r, run[r].at \notin {"insert", "load"})
    BY RunMoves DEF RunFails, IInv, ghosts
  <1>2. PICK b \in Batches : b = Batch(r) /\ BatchStops(b)
    BY <1>1, Obeys
  <1>3. BatchStops(b)'
    BY <1>1, <1>2 DEF BatchStops
  <1> QED
    BY <1>1, <1>2, <1>3, LeaveStops

LEMMA RunObeys ==
  ASSUME IInv, StopInv, NEW r \in Runs, RunStep(r) \/ RunFails(r)
  PROVE  StopInv'
  <1>1. PICK n \in Nodes, b \in Batches : n = Node(r) /\ b = Batch(r)
    BY RunMoves, Obeys DEF IInv
  <1> QED
    BY <1>1, InsertStops, LoadStops, MarkStops, NoEngineStops, GateStops, SendStops, SaveStops,
       SleepStops, RereadStops, FinalStops, FailStops DEF RunStep

-----------------------------------------------------------------------------
(* Cancels: the other steps *)

\* Runs that stay where they are or end, under flags and rows that keep what they obey.
LEMMA OthersStop ==
  ASSUME IInv, StopInv,
         \A b \in Batches : BatchStops(b)',
         \A r \in Runs : run'[r].at \in Stored =>
           /\ run'[r].at = run[r].at /\ run'[r].node = run[r].node /\ run'[r].batch = run[r].batch
           /\ run'[r].item = run[r].item /\ run'[r].mine = run[r].mine
           /\ Node(r) \in Nodes /\ Batch(r) \in Batches /\ RunStops(r) =>
                /\ Told(r)' => Flag(r)' = "off"
                /\ Obeying(run[r], Flag(r)', row'[Batch(r)].status, late'[Batch(r)])
  PROVE  StopInv'
  <1>1. ASSUME NEW r \in Runs, run'[r].at \in Stored PROVE RunStops(r)'
    <2>1. /\ run'[r].at = run[r].at /\ run'[r].node = run[r].node /\ run'[r].batch = run[r].batch
          /\ run'[r].item = run[r].item /\ run'[r].mine = run[r].mine /\ run[r].at \in Stored
          /\ run[r].at \in Places
      BY <1>1 DEF Places
    <2>2. Node(r) \in Nodes /\ Batch(r) \in Batches /\ RunStops(r)
      BY <2>1, Obeys DEF StopInv
    <2>3. /\ Told(r)' => Flag(r)' = "off"
          /\ Obeying(run[r], Flag(r)', row'[Batch(r)].status, late'[Batch(r)])
      BY <1>1, <2>2
    <2>4. Batch(r)' = Batch(r)
      BY <2>1 DEF Batch
    <2> QED
      BY <2>1, <2>3, <2>4 DEF RunStops, Obeying
  <1> QED
    BY <1>1 DEF StopInv

LEMMA CreateStops ==
  ASSUME IInv, StopInv, NEW r \in Runs, NEW n \in Nodes, NEW b \in Batches, Create(r, n, b)
  PROVE  StopInv'
  <1>1. /\ UNCHANGED <<row, late, ackedAt, cancel, flag>> /\ run \in [Runs -> RunTypes]
        /\ run' = [run EXCEPT ![r] = [Idle EXCEPT !.at = "insert", !.node = n, !.batch = b]]
    BY DEF Create, ghosts, IInv, Typed, RunsTyped
  <1>2. run'[r].at = "insert" /\ \A q \in Runs : q # r => run'[q] = run[q]
    BY <1>1 DEF Idle
  <1>3. \A x \in Batches : BatchStops(x)'
    BY <1>1 DEF StopInv, BatchStops
  <1>4. ASSUME NEW q \in Runs, run'[q].at \in Stored, RunStops(q)
        PROVE  /\ Told(q)' => Flag(q)' = "off"
               /\ Obeying(run[q], Flag(q)', row'[Batch(q)].status, late'[Batch(q)])
    <2>1. Batch(q)' = Batch(q) /\ Node(q)' = Node(q)
      BY <1>2, <1>4 DEF Stored, Batch, Node
    <2> QED
      BY <1>1, <1>4, <2>1 DEF RunStops, Told, Flag
  <1> QED
    BY <1>2, <1>3, <1>4, OthersStop DEF Stored

LEMMA CancelReadStops ==
  ASSUME IInv, StopInv, NEW c \in Cancels, NEW n \in Nodes, NEW b \in Batches, CancelRead(c, n, b)
  PROVE  StopInv'
  <1>1. /\ UNCHANGED <<row, run, late, ackedAt>> /\ Cancellable(b)
        /\ cancel' = [cancel EXCEPT ![c] = [at |-> "write", node |-> n, batch |-> b, mine |-> row[b]]]
        /\ flag' = [flag EXCEPT ![n][b] = "off"]
        /\ flag \in [Nodes -> [Batches -> {"none", "on", "off"}]] /\ cancel \in [Cancels -> CancelTypes]
    BY DEF CancelRead, ghosts, IInv, Typed, FlagsTyped, CancelsTyped
  <1>2. /\ \A x \in Nodes, y \in Batches : flag'[x][y] = IF x = n /\ y = b THEN "off" ELSE flag[x][y]
        /\ cancel'[c].node = n /\ cancel'[c].batch = b
        /\ \A d \in Cancels : d # c => cancel'[d] = cancel[d]
    BY <1>1
  <1>3. late[b] = 0
    BY <1>1 DEF StopInv, BatchStops, Cancellable, Terminal
  <1>4. \A x \in Batches : BatchStops(x)'
    BY <1>1 DEF StopInv, BatchStops
  <1>5. ASSUME NEW q \in Runs, Node(q) \in Nodes, Batch(q) \in Batches, RunStops(q)
        PROVE  /\ Told(q)' => Flag(q)' = "off"
               /\ Obeying(run[q], Flag(q)', row'[Batch(q)].status, late'[Batch(q)])
    <2>1. Batch(q)' = Batch(q) /\ Node(q)' = Node(q)
      BY <1>1 DEF Batch, Node
    <2>2. Flag(q)' = IF Node(q) = n /\ Batch(q) = b THEN "off" ELSE Flag(q)
      BY <1>2, <1>5, <2>1 DEF Flag
    <2>3. Told(q)' => Told(q) \/ (Node(q) = n /\ Batch(q) = b)
      BY <1>1, <1>2, <2>1 DEF Told
    <2>4. CASE Node(q) = n /\ Batch(q) = b
      BY <1>1, <1>3, <1>5, <2>2, <2>4 DEF RunStops, Obeying
    <2>5. CASE ~(Node(q) = n /\ Batch(q) = b)
      BY <1>1, <1>5, <2>2, <2>3, <2>5 DEF RunStops
    <2> QED
      BY <2>4, <2>5
  <1> QED
    BY <1>1, <1>4, <1>5, OthersStop

LEMMA CancelWriteStops ==
  ASSUME IInv, StopInv, NEW c \in Cancels, CancelWrite(c)
  PROVE  StopInv'
  <1>1. /\ UNCHANGED <<run, flag, late>> /\ cancel[c].at = "write"
        /\ cancel' = [cancel EXCEPT ![c] = CancelEnded] /\ cancel \in [Cancels -> CancelTypes]
        /\ cancel[c].batch \in Batches /\ cancel[c].node \in Nodes /\ cancel[c].mine \in RowTypes
        /\ row \in [Batches -> RowTypes] /\ ackedAt \in [Batches -> Nodes \cup {None}]
    BY DEF CancelWrite, IInv, Typed, CancelsTyped, CancelTypes, CancelsPlaced, RowsTyped, RestTyped
  <1>2. /\ cancel'[c] = CancelEnded /\ \A d \in Cancels : d # c => cancel'[d] = cancel[d]
    BY <1>1
  <1>3. PICK b \in Batches, n \in Nodes : b = cancel[c].batch /\ n = cancel[c].node
    BY <1>1
  <1>4. CASE UNCHANGED <<row, ackedAt>>
    <2>1. \A x \in Batches : BatchStops(x)'
      BY <1>1, <1>4 DEF StopInv, BatchStops
    <2>2. ASSUME NEW q \in Runs, RunStops(q)
          PROVE  /\ Told(q)' => Flag(q)' = "off"
                 /\ Obeying(run[q], Flag(q)', row'[Batch(q)].status, late'[Batch(q)])
      <3>1. Batch(q)' = Batch(q) /\ Node(q)' = Node(q) /\ Flag(q)' = Flag(q)
        BY <1>1 DEF Batch, Node, Flag
      <3>2. Told(q)' => Told(q)
        BY <1>2, <1>4, <3>1, CancelGone DEF Told
      <3> QED
        BY <1>1, <1>4, <2>2, <3>1, <3>2 DEF RunStops
    <2> QED
      BY <1>1, <2>1, <2>2, OthersStop
  <1>5. CASE /\ Cancellable(b) /\ row' = [row EXCEPT ![b] = CancelledRow(cancel[c].mine)]
             /\ ackedAt' = [ackedAt EXCEPT ![b] = n]
    <2>1. /\ row'[b].status = "cancelled" /\ \A x \in Batches : x # b => row'[x] = row[x]
          /\ ackedAt'[b] = n /\ \A x \in Batches : x # b => ackedAt'[x] = ackedAt[x]
      BY <1>1, <1>5 DEF CancelledRow, RowTypes
    <2>2. late[b] = 0
      BY <1>5 DEF StopInv, BatchStops, Cancellable, Terminal
    <2>3. Cadence \in Nat \ {0}
      BY BulkAssumption
    <2>4. \A x \in Batches : BatchStops(x)'
      BY <1>1, <2>1, <2>2, <2>3 DEF StopInv, BatchStops, Terminal
    <2>5. ASSUME NEW q \in Runs, Node(q) \in Nodes, Batch(q) \in Batches, RunStops(q)
          PROVE  /\ Told(q)' => Flag(q)' = "off"
                 /\ Obeying(run[q], Flag(q)', row'[Batch(q)].status, late'[Batch(q)])
      <3>1. Batch(q)' = Batch(q) /\ Node(q)' = Node(q) /\ Flag(q)' = Flag(q)
        BY <1>1 DEF Batch, Node, Flag
      <3>2. Told(q)' => Told(q)
        <4>1. CASE ackedAt'[Batch(q)] = Node(q)
          BY <1>1, <1>3, <2>1, <2>5, <4>1 DEF Told
        <4>2. CASE \E d \in Cancels : /\ cancel'[d].at = "write" /\ cancel'[d].node = Node(q)
                                      /\ cancel'[d].batch = Batch(q)
          BY <1>2, <4>2, CancelGone DEF Told
        <4> QED
          BY <3>1, <4>1, <4>2 DEF Told
      <3>3. CASE Batch(q) # b
        BY <1>1, <2>1, <2>5, <3>1, <3>2, <3>3 DEF RunStops
      <3>4. CASE Batch(q) = b /\ run[q].at \notin {"gate", "send", "save", "sleep"}
        BY <1>1, <2>2, <2>3, <2>5, <3>1, <3>2, <3>4 DEF RunStops, Obeying
      <3>5. CASE Batch(q) = b /\ run[q].at \in {"gate", "send", "save", "sleep"}
        <4>1. run[q].item \in Nat
          BY Numbers DEF IInv, Typed, RunsTyped, RunTypes
        <4>2. 0 <= Within(run[q].item) /\ 0 <= run[q].item % Cadence
          <5>1. \A i \in Nat : Within(i) \in Nat /\ (i % Cadence) \in Nat
            BY WithinIs
          <5>2. Within(run[q].item) \in Nat /\ (run[q].item % Cadence) \in Nat
            BY <4>1, <5>1
          <5> QED
            BY <5>2
        <4> QED
          BY <1>1, <2>2, <2>3, <2>5, <3>1, <3>2, <3>5, <4>2 DEF RunStops, Obeying
      <3> QED
        BY <3>3, <3>4, <3>5
    <2> QED
      BY <1>1, <2>4, <2>5, OthersStop
  <1> QED
    BY <1>3, <1>4, <1>5 DEF CancelWrite

\* A step that leaves rows, flags and answers as they are, and of the runs at most the engine.
LEMMA QuietStops ==
  ASSUME IInv, StopInv, UNCHANGED <<row, flag, ackedAt, late>>,
         \A c \in Cancels : cancel'[c].at = "write" => cancel'[c] = cancel[c],
         \A r \in Runs : /\ run'[r].at = run[r].at /\ run'[r].node = run[r].node
                         /\ run'[r].batch = run[r].batch /\ run'[r].item = run[r].item
                         /\ run'[r].mine = run[r].mine
  PROVE  StopInv'
  <1>1. \A x \in Batches : BatchStops(x)'
    BY DEF StopInv, BatchStops
  <1>2. ASSUME NEW q \in Runs, RunStops(q)
        PROVE  /\ Told(q)' => Flag(q)' = "off"
               /\ Obeying(run[q], Flag(q)', row'[Batch(q)].status, late'[Batch(q)])
    <2>1. Batch(q)' = Batch(q) /\ Node(q)' = Node(q) /\ Flag(q)' = Flag(q)
      BY DEF Batch, Node, Flag
    <2>2. Told(q)' => Told(q)
      BY <2>1 DEF Told
    <2> QED
      BY <1>2, <2>1, <2>2 DEF RunStops
  <1> QED
    BY <1>1, <1>2, OthersStop

LEMMA ReapSaveStops ==
  ASSUME IInv, StopInv, NEW n \in Nodes, NEW b \in Batches, ReapSave(n, b)
  PROVE  StopInv'
  <1>1. /\ UNCHANGED <<run, flag, late, ackedAt, cancel>> /\ row \in [Batches -> RowTypes]
        /\ row' = [row EXCEPT ![b] = [reap[n].mine[b] EXCEPT !.status = "failed"]]
        /\ reap[n].mine[b] \in RowTypes
    BY DEF ReapSave, ghosts, IInv, Typed, RowsTyped, ReapsTyped, ReapTypes
  <1>2. row'[b].status = "failed" /\ \A x \in Batches : x # b => row'[x] = row[x]
    BY <1>1 DEF RowTypes
  <1>3. \A x \in Batches : BatchStops(x)'
    BY <1>1, <1>2 DEF StopInv, BatchStops, Terminal
  <1>4. ASSUME NEW q \in Runs, Batch(q) \in Batches, RunStops(q)
        PROVE  /\ Told(q)' => Flag(q)' = "off"
               /\ Obeying(run[q], Flag(q)', row'[Batch(q)].status, late'[Batch(q)])
    <2>1. Batch(q)' = Batch(q) /\ Node(q)' = Node(q) /\ Flag(q)' = Flag(q)
      BY <1>1 DEF Batch, Node, Flag
    <2>2. Told(q)' => Told(q)
      BY <1>1, <2>1 DEF Told
    <2>3. row'[Batch(q)].status = "cancelled" => row[Batch(q)].status = "cancelled"
      BY <1>2, <1>4
    <2> QED
      BY <1>1, <1>4, <2>1, <2>2, <2>3 DEF RunStops, Obeying
  <1> QED
    BY <1>1, <1>3, <1>4, OthersStop

LEMMA CrashStops ==
  ASSUME IInv, StopInv, NEW n \in Nodes, Crash(n)
  PROVE  StopInv'
  <1>1. /\ UNCHANGED <<row, late, ackedAt>> /\ flag' = [flag EXCEPT ![n] = NoFlags]
        /\ flag \in [Nodes -> [Batches -> {"none", "on", "off"}]]
        /\ \A r \in Runs : run'[r] = IF Node(r) = n THEN Ended ELSE run[r]
        /\ \A c \in Cancels : cancel'[c] = IF cancel[c].node = n THEN CancelEnded ELSE cancel[c]
    BY DEF Crash, IInv, Typed, FlagsTyped, OnNode, Node
  <1>2. \A r \in Runs : run'[r].at \in Stored => run'[r] = run[r] /\ Node(r) # n
    BY <1>1, EndedIs DEF Stored
  <1>3. \A x \in Batches : BatchStops(x)'
    BY <1>1 DEF StopInv, BatchStops
  <1>4. ASSUME NEW q \in Runs, run'[q].at \in Stored, Node(q) \in Nodes, RunStops(q)
        PROVE  /\ Told(q)' => Flag(q)' = "off"
               /\ Obeying(run[q], Flag(q)', row'[Batch(q)].status, late'[Batch(q)])
    <2>1. Batch(q)' = Batch(q) /\ Node(q)' = Node(q)
      BY <1>2, <1>4 DEF Batch, Node
    <2>2. Flag(q)' = Flag(q)
      BY <1>1, <1>2, <1>4, <2>1 DEF Flag
    <2>3. Told(q)' => Told(q)
      BY <1>1, <2>1, CancelGone DEF Told
    <2> QED
      BY <1>1, <1>4, <2>1, <2>2, <2>3 DEF RunStops
  <1> QED
    BY <1>2, <1>3, <1>4, OthersStop

LEMMA StopInvHolds == Init => StopInv
  <1> SUFFICES ASSUME Init PROVE StopInv
    OBVIOUS
  <1>1. /\ row = [b \in Batches |-> NoRow] /\ run = [r \in Runs |-> Idle]
        /\ ackedAt = [b \in Batches |-> None] /\ late = [b \in Batches |-> 0]
    BY DEF Init
  <1>2. NoRow.status = "none" /\ Idle.at = "idle"
    BY DEF NoRow, Idle
  <1> QED
    BY <1>1, <1>2 DEF StopInv, BatchStops, Stored

LEMMA StopInvKept == IInv /\ StopInv /\ [Next]_vars => StopInv'
  <1> SUFFICES ASSUME IInv, StopInv, [Next]_vars PROVE StopInv'
    OBVIOUS
  <1> DEFINE Apart == \A r \in Runs : /\ run'[r].at = run[r].at /\ run'[r].node = run[r].node
                                      /\ run'[r].batch = run[r].batch /\ run'[r].item = run[r].item
                                      /\ run'[r].mine = run[r].mine
  <1>1. CASE UNCHANGED vars
    <2>1. UNCHANGED <<row, flag, ackedAt, late, cancel, run>>
      BY <1>1 DEF vars, memory, ghosts
    <2> QED
      BY <2>1, QuietStops
  <1>2. ASSUME NEW r \in Runs, RunStep(r) \/ RunFails(r) PROVE StopInv'
    BY <1>2, RunObeys
  <1>3. ASSUME NEW r \in Runs, NEW n \in Nodes, NEW b \in Batches, Create(r, n, b) PROVE StopInv'
    BY <1>3, CreateStops
  <1>4. ASSUME NEW c \in Cancels, CancelFails(c) PROVE StopInv'
    <2>1. /\ UNCHANGED <<row, flag, ackedAt, late, run>> /\ cancel \in [Cancels -> CancelTypes]
          /\ cancel' = [cancel EXCEPT ![c] = CancelEnded]
      BY <1>4 DEF CancelFails, ghosts, IInv, Typed, CancelsTyped
    <2>2. \A d \in Cancels : cancel'[d].at = "write" => cancel'[d] = cancel[d]
      BY <2>1, CancelGone
    <2> QED
      BY <2>1, <2>2, QuietStops
  <1>5. ASSUME NEW c \in Cancels, NEW n \in Nodes, NEW b \in Batches, CancelRead(c, n, b) PROVE StopInv'
    BY <1>5, CancelReadStops
  <1>6. ASSUME NEW n \in Nodes, ReapFind(n) \/ ReapEnd(n) \/ (SessionStep(n) /\ UNCHANGED run)
        PROVE  StopInv'
    <2>1. UNCHANGED <<row, flag, ackedAt, late, cancel, run>>
      BY <1>6 DEF ReapFind, ReapEnd, SessionStep, EngineGone, Release, StartEngine, Status, Lapse, Sweep,
         Adopt, Adopted, Boot, memory, ghosts
    <2> QED
      BY <2>1, QuietStops
  <1>7. ASSUME NEW n \in Nodes, SessionStep(n), Deaf(n) PROVE StopInv'
    <2>1. UNCHANGED <<row, flag, ackedAt, late, cancel>> /\ run \in [Runs -> RunTypes]
      BY <1>7 DEF SessionStep, EngineGone, Release, StartEngine, Status, Lapse, Sweep, Adopt, Adopted, Boot,
         memory, ghosts, IInv, Typed, RunsTyped
    <2>2. Apart
      <3>1. \A s \in RunTypes :
              LET t == [s EXCEPT !.live = FALSE] IN
              t.at = s.at /\ t.node = s.node /\ t.batch = s.batch /\ t.item = s.item /\ t.mine = s.mine
        BY DEF RunTypes
      <3> QED
        BY <1>7, <2>1, <3>1 DEF Deaf
    <2> QED
      BY <2>1, <2>2, QuietStops
  <1>8. ASSUME NEW n \in Nodes, Crash(n) PROVE StopInv'
    BY <1>8, CrashStops
  <1>9. ASSUME NEW n \in Nodes, NEW b \in Batches, ReapSave(n, b) PROVE StopInv'
    BY <1>9, ReapSaveStops
  <1>10. ASSUME NEW c \in Cancels, CancelWrite(c) PROVE StopInv'
    BY <1>10, CancelWriteStops
  <1>11. ASSUME NEW n \in Nodes, SessionStep(n) PROVE UNCHANGED run \/ Deaf(n)
    BY <1>11 DEF SessionStep, EngineGone, Release, StartEngine, Status, Lapse, Sweep, Adopt, Adopted, Boot, memory
  <1>12. ASSUME NEW n \in Nodes, SessionStep(n) PROVE StopInv'
    BY <1>6, <1>7, <1>11, <1>12
  <1> QED
    BY <1>1, <1>2, <1>3, <1>4, <1>5, <1>6, <1>8, <1>9, <1>10, <1>12, BulkAssumption
    DEF Next, ReapStep, SessionStep

\* An answered cancel stops the loop: on the node that answered before its next message, on
\* another within a save's cadence, however the answer falls between its reads and writes.
THEOREM CancelReaches == Spec => []CancelStops
  <1>1. IInv /\ StopInv => CancelStops
    <2> SUFFICES ASSUME IInv, StopInv, NEW b \in Batches
                 PROVE  /\ row[b].status \in {"processing", "cancelled"} => late[b] <= Cadence
                        /\ \A r \in Runs : Drives(r, b) /\ ackedAt[b] = run[r].node => late[b] = 0
      BY DEF CancelStops
    <2>1. BatchStops(b) /\ Cadence \in Nat \ {0}
      BY BulkAssumption DEF StopInv
    <2>2. row[b].status \in {"processing", "cancelled"} => late[b] <= Cadence
      BY <2>1 DEF BatchStops, Terminal
    <2>3. ASSUME NEW r \in Runs, Drives(r, b), ackedAt[b] = run[r].node PROVE late[b] = 0
      <3>1. run[r].at \in Stored /\ Batch(r) = b /\ Told(r)
        BY <2>3 DEF Drives, Stored, Batch, Node, Told
      <3> QED
        BY <3>1 DEF StopInv, RunStops, Obeying
    <2> QED
      BY <2>2, <2>3
  <1> QED
    BY <1>1, StopInvHolds, StopInvKept, Inductive, PTL DEF Spec

-----------------------------------------------------------------------------
(* A boot and its peers, where a lease does not lapse under a live engine *)

\* An engine runs under a claim of its node that stands, and only where requests are served.
SoleEngine == engine \subseteq up /\ \A n \in engine : owner = n /\ ~lapsed
SweepsUp == \A n \in Nodes : reap[n].at \in {"listed", "start"} => n \in up /\ ~reap[n].boot
LiveRuns == \A r \in Runs : Holds(r) /\ run[r].live => Node(r) \in engine

\* A node that boots serves nothing yet, and no loop can send what it has read.
BootsApart == \A n \in Nodes : reap[n].boot =>
  /\ n \notin up
  /\ \A b \in DOMAIN reap[n].mine : \A r \in Runs : run[r].at \in Stored /\ run[r].live => Batch(r) # b

PeerInv == SoleEngine /\ SweepsUp /\ LiveRuns /\ BootsApart

\* No node, claim or reaper changes but for entities that are dropped.
LEMMA SamePeers ==
  ASSUME IInv, PeerInv, UNCHANGED session,
         \A n \in Nodes : reap'[n].at \in {"listed", "start"} => reap'[n] = reap[n],
         \A n \in Nodes : reap'[n].boot =>
           /\ reap[n].boot
           /\ \A b \in DOMAIN reap'[n].mine :
                \A r \in Runs : run'[r].at \in Stored /\ run'[r].live => run'[r].batch # b,
         \A r \in Runs : Holds(r)' /\ run'[r].live => Node(r)' \in engine
  PROVE  PeerInv'
  BY DEF PeerInv, SoleEngine, SweepsUp, LiveRuns, BootsApart, session, Batch

\* A loop that saves, turns to an item or fails one keeps the engine it has; only the look-up
\* that marks the batch gives it one.
LEMMA LiveMoves ==
  ASSUME IInv, NEW r \in Runs, RunStep(r) \/ RunFails(r), run'[r].live
  PROVE  run[r].live \/ (run[r].at = "mark" /\ Node(r) \in engine)
  <1>1. run \in [Runs -> RunTypes]
    BY DEF IInv, Typed, RunsTyped
  <1>2. Ended.live = FALSE
    BY DEF Ended, Idle
  <1>3. ASSUME NEW d \in BOOLEAN, Leave(r, d) PROVE FALSE
    BY <1>1, <1>2, <1>3 DEF Leave, Stops
  <1>4. ASSUME NEW l, To(r, l) PROVE run[r].live
    BY <1>1, <1>4 DEF To, RunTypes
  <1>5. ASSUME NEW s \in RunTypes, NEW i, Turn(r, s, i) PROVE s.live
    BY <1>1, <1>5 DEF Turn, RunTypes
  <1>6. ASSUME NEW s, After(r, s), s = Sent(run[r]) \/ s = Failed(run[r]) PROVE run[r].live
    <2>1. PICK l : run' = [run EXCEPT ![r] = [s EXCEPT !.at = l]]
      BY <1>6 DEF After
    <2>2. \E m : s = [run[r] EXCEPT !.mine = m]
      <3>1. run[r].mine \in RowTypes
        BY <1>1 DEF RunTypes
      <3> DEFINE m == [run[r].mine EXCEPT !.sent = @ + 1, !.pending = @ - 1]
                 k == [run[r].mine EXCEPT !.failed = @ + 1, !.pending = @ - 1]
      <3>2. Sent(run[r]) = [run[r] EXCEPT !.mine = m] /\ Failed(run[r]) = [run[r] EXCEPT !.mine = k]
        BY <1>1, <3>1 DEF Sent, Failed, RunTypes, RowTypes
      <3> QED
        BY <1>6, <3>2
    <2> QED
      BY <1>1, <2>1, <2>2 DEF RunTypes
  <1>7. CASE AfterFailure(r)
    <2>1. CASE run' = [run EXCEPT ![r] = [Failed(run[r]) EXCEPT !.at = "reread", !.mine.status = "failed"]]
      BY <1>1, <2>1 DEF Failed, RunTypes
    <2> QED
      BY <1>6, <1>7, <2>1 DEF AfterFailure
  <1>8. CASE Mark(r)
    <2>1. CASE Leave(r, TRUE)
      BY <1>3, <2>1
    <2>2. CASE To(r, "noengine")
      BY <1>4, <2>2
    <2>3. CASE Node(r) \in engine
      BY <1>8, <2>3 DEF Mark, At
    <2> QED
      BY <1>8, <2>1, <2>2, <2>3 DEF Mark
  <1>9. CASE Load(r)
    <2>1. CASE run' = [run EXCEPT ![r].at = "mark", ![r].mine = row[Batch(r)]]
      BY <1>1, <2>1 DEF RunTypes
    <2> QED
      BY <1>3, <1>9, <2>1 DEF Load
  <1>10. CASE Save(r)
    <2>1. CASE \E l : run' = [run EXCEPT ![r].at = l]
      BY <1>1, <2>1 DEF RunTypes
    <2>2. ASSUME NEW m, run' = [run EXCEPT ![r].at = "final", ![r].mine = m] PROVE run[r].live
      BY <1>1, <2>2 DEF RunTypes
    <2>3. CASE ~NotCancelled(Batch(r))
      <3>1. \E m : run' = [run EXCEPT ![r].at = "final", ![r].mine = m]
        <4> DEFINE m == [run[r].mine EXCEPT !.status = "cancelled",
                           !.cancelled = @ + run[r].mine.pending, !.pending = 0]
        <4>1. run' = [run EXCEPT ![r].at = "final", ![r].mine = m]
          <5>1. run' = [run EXCEPT ![r].at = "final", ![r].mine.status = "cancelled",
                          ![r].mine.cancelled = @ + run[r].mine.pending, ![r].mine.pending = 0]
            BY <1>10, <2>3 DEF Save
          <5>2. run[r] \in RunTypes /\ run[r].mine \in RowTypes
            BY <1>1 DEF RunTypes
          <5> QED
            BY <1>1, <5>1, <5>2 DEF RunTypes, RowTypes
        <4> QED
          BY <4>1
      <3> QED
        BY <2>2, <3>1
    <2> QED
      BY <1>10, <2>1, <2>3 DEF Save
  <1>11. CASE Reread(r)
    <2>1. \E m : run' = [run EXCEPT ![r].at = "final", ![r].mine = m]
      BY <1>11 DEF Reread
    <2> QED
      BY <1>1, <2>1 DEF RunTypes
  <1>12. CASE Sleep(r)
    BY <1>1, <1>5, <1>12 DEF Sleep
  <1>13. CASE Insert(r) \/ NoEngine(r) \/ Final(r) \/ RunFails(r)
    BY <1>3, <1>4, <1>13 DEF Insert, NoEngine, Final, RunFails
  <1>14. CASE Gate(r) \/ Send(r)
    BY <1>4, <1>6, <1>7, <1>14 DEF Gate, Send
  <1> QED
    BY <1>8, <1>9, <1>10, <1>11, <1>12, <1>13, <1>14 DEF RunStep

LEMMA RunPeers ==
  ASSUME IInv, PeerInv, NEW r \in Runs, RunStep(r) \/ RunFails(r)
  PROVE  PeerInv'
  <1>1. run[r].at \in Places /\ Moves(r) /\ Holds(r) /\ UNCHANGED <<session, reap>>
    BY RunMoves DEF IInv, Places, Stored, Holds, RunStep, RunFails, Insert, Load, Mark, NoEngine, Gate,
       Send, Save, Sleep, Reread, Final
  <1>2. PICK t \in RunTypes : Becomes(r, t) /\ Takes(r, t)
    BY <1>1 DEF Moves
  <1>3. run'[r] = t /\ \A q \in Runs : q # r => run'[q] = run[q]
    BY <1>2 DEF Becomes, IInv, Typed, RunsTyped
  <1>4. ASSUME NEW q \in Runs, Holds(q)', run'[q].live PROVE Node(q)' \in engine
    <2>1. CASE q = r
      <3>1. Node(r) \in engine
        BY <1>1, <1>4, <2>1, LiveMoves DEF PeerInv, LiveRuns
      <3>2. Node(r)' = Node(r)
        BY <1>2, <1>3, <1>4, <2>1, EndedIs DEF Becomes, Holds, Node
      <3> QED
        BY <2>1, <3>1, <3>2
    <2>2. CASE q # r
      BY <1>3, <1>4, <2>2 DEF PeerInv, LiveRuns, Holds, Node
    <2> QED
      BY <2>1, <2>2
  <1>5. ASSUME NEW n \in Nodes, reap[n].boot, NEW b \in DOMAIN reap[n].mine, NEW q \in Runs,
               run'[q].at \in Stored, run'[q].live
        PROVE  run'[q].batch # b
    <2>1. /\ row[b].status # "none"
          /\ run[q].at \in Stored /\ run[q].live => run[q].batch # b
          /\ run[q].batch = b => run[q].at # "mark"
      BY <1>5 DEF IInv, Honest, ReapsHonest, PeerInv, BootsApart, Batch
    <2>2. CASE q = r
      <3>1. run[r].live \/ run[r].at = "mark"
        BY <1>5, <2>2, LiveMoves
      <3> QED
        BY <1>2, <1>3, <1>5, <2>1, <2>2, <3>1, EndedIs DEF Becomes, Takes, Batch, Stored
    <2>3. CASE q # r
      BY <1>3, <1>5, <2>1, <2>3
    <2> QED
      BY <2>2, <2>3
  <1> QED
    BY <1>1, <1>4, <1>5, SamePeers

LEMMA CreatePeers ==
  ASSUME IInv, PeerInv, NEW r \in Runs, NEW n \in Nodes, NEW b \in Batches, Create(r, n, b)
  PROVE  PeerInv'
  <1>1. /\ UNCHANGED <<session, reap>> /\ run \in [Runs -> RunTypes]
        /\ run' = [run EXCEPT ![r] = [Idle EXCEPT !.at = "insert", !.node = n, !.batch = b]]
    BY DEF Create, IInv, Typed, RunsTyped
  <1>2. /\ run'[r].at = "insert" /\ run'[r].live = FALSE
        /\ \A q \in Runs : q # r => run'[q] = run[q]
    BY <1>1 DEF Idle
  <1>3. \A q \in Runs : Holds(q)' /\ run'[q].live => Node(q)' \in engine
    BY <1>2 DEF PeerInv, LiveRuns, Holds, Node
  <1>4. ASSUME NEW x \in Nodes, reap[x].boot, NEW y \in DOMAIN reap[x].mine, NEW q \in Runs,
               run'[q].at \in Stored, run'[q].live
        PROVE  run'[q].batch # y
    BY <1>2, <1>4 DEF PeerInv, BootsApart, Batch
  <1> QED
    BY <1>1, <1>3, <1>4, SamePeers

\* A reaper that reads for a boot finds no loop with an engine: that would hold the claim.
LEMMA ReapPeers ==
  ASSUME IInv, PeerInv, NEW n \in Nodes,
         ReapFind(n) \/ (\E b \in Batches : ReapSave(n, b)) \/ ReapEnd(n)
  PROVE  PeerInv'
  <1>1. reap \in [Nodes -> ReapTypes] /\ UNCHANGED <<run, engine, owner, lapsed>>
    BY DEF IInv, Typed, ReapsTyped, ReapFind, ReapSave, ReapEnd, session
  <1>2. \A q \in Runs : Holds(q)' /\ run'[q].live => Node(q)' \in engine
    BY <1>1 DEF PeerInv, LiveRuns, Holds, Node
  <1>3. CASE ReapFind(n)
    <2>1. /\ UNCHANGED session /\ \A x \in Nodes : x # n => reap'[x] = reap[x]
          /\ reap'[n].boot = reap[n].boot /\ reap'[n].at = "save"
          /\ reap[n].boot /\ ~Claims(n) => DOMAIN reap'[n].mine = {}
      <3> DEFINE found == IF reap[n].boot /\ ~Claims(n) THEN {} ELSE Processing
                 g == [b \in found |-> row[b]]
      <3>1. reap' = [reap EXCEPT ![n].at = "save", ![n].mine = g]
        BY <1>3 DEF ReapFind
      <3>2. DOMAIN g = found
        OBVIOUS
      <3> HIDE DEF g
      <3>3. /\ reap'[n].boot = reap[n].boot /\ reap'[n].mine = g /\ reap'[n].at = "save"
            /\ \A x \in Nodes : x # n => reap'[x] = reap[x]
        BY <1>1, <3>1 DEF ReapTypes
      <3> QED
        BY <1>3, <3>2, <3>3 DEF ReapFind
    <2>2. ASSUME reap[n].boot, Claims(n), NEW q \in Runs, run[q].at \in Stored, run[q].live PROVE FALSE
      <3>1. Node(q) \in engine
        BY <2>2 DEF Holds, Stored, PeerInv, LiveRuns
      <3>2. Node(q) \in up /\ owner = Node(q) /\ ~lapsed /\ n \notin up
        BY <2>2, <3>1 DEF PeerInv, SoleEngine, BootsApart
      <3>3. owner = n \/ owner = None
        BY <2>2, <3>2 DEF Claims
      <3> QED
        BY <3>2, <3>3, BulkAssumption DEF IInv, Typed, RestTyped
    <2>3. ASSUME NEW x \in Nodes, reap'[x].boot
          PROVE  /\ reap[x].boot
                 /\ \A b \in DOMAIN reap'[x].mine :
                      \A q \in Runs : run'[q].at \in Stored /\ run'[q].live => run'[q].batch # b
      <3>1. CASE x = n
        BY <1>1, <2>1, <2>2, <2>3, <3>1
      <3>2. CASE x # n
        BY <1>1, <2>1, <2>3, <3>2 DEF PeerInv, BootsApart, Batch
      <3> QED
        BY <3>1, <3>2
    <2> QED
      BY <1>2, <2>1, <2>3, SamePeers
  <1>4. ASSUME NEW b \in Batches, ReapSave(n, b) PROVE PeerInv'
    <2> DEFINE g == [x \in DOMAIN reap[n].mine \ {b} |-> reap[n].mine[x]]
    <2>1. UNCHANGED session /\ reap' = [reap EXCEPT ![n].mine = g] /\ reap[n].at = "save"
      BY <1>1, <1>4 DEF ReapSave
    <2>2. DOMAIN g \subseteq DOMAIN reap[n].mine
      OBVIOUS
    <2> HIDE DEF g
    <2>3. \A x \in Nodes :
            /\ reap'[x].boot = reap[x].boot /\ reap'[x].at = reap[x].at /\ (x # n => reap'[x] = reap[x])
            /\ DOMAIN reap'[x].mine \subseteq DOMAIN reap[x].mine
      BY <1>1, <2>1, <2>2 DEF ReapTypes
    <2>4. \A x \in Nodes : reap'[x].at \in {"listed", "start"} => reap'[x] = reap[x]
      BY <2>1, <2>3
    <2> QED
      BY <1>1, <1>2, <2>1, <2>3, <2>4, SamePeers DEF PeerInv, BootsApart, Batch
  <1>5. CASE ReapEnd(n)
    <2>1. /\ up' = up \cup {n} /\ ~reap'[n].boot /\ reap'[n].at = "idle"
          /\ \A x \in Nodes : x # n => reap'[x] = reap[x]
      BY <1>1, <1>5 DEF ReapEnd, NoReap
    <2> QED
      BY <1>1, <1>2, <2>1 DEF PeerInv, SoleEngine, SweepsUp, LiveRuns, BootsApart, Batch
  <1> QED
    BY <1>3, <1>4, <1>5

\* A claim is taken, given back or lapses only where no other node has an engine.
LEMMA SessionPeers ==
  ASSUME IInv, PeerInv, ~Lapses, NEW n \in Nodes, SessionStep(n)
  PROVE  PeerInv'
  <1>1. /\ reap \in [Nodes -> ReapTypes] /\ owner \in Nodes \cup {None} /\ None \notin Nodes
        /\ run \in [Runs -> RunTypes] /\ engine \subseteq Nodes
    BY BulkAssumption DEF IInv, Typed, ReapsTyped, RestTyped, RunsTyped
  <1>2. UNCHANGED up
    BY DEF SessionStep, EngineGone, Release, StartEngine, Status, Lapse, Sweep, Adopt, Adopted, Boot, session
  <1>3. /\ reap'[n].at \in {"listed", "start"} => n \in up /\ ~reap'[n].boot
        /\ reap'[n].boot => n \notin up /\ (reap'[n].mine = reap[n].mine \/ DOMAIN reap'[n].mine = {})
        /\ reap'[n].boot /\ reap'[n].mine = reap[n].mine => reap[n].boot \/ DOMAIN reap'[n].mine = {}
        /\ \A x \in Nodes : x # n => reap'[x] = reap[x]
    <2>1. ASSUME NEW l, ReapAt(n, l)
          PROVE  /\ reap'[n].at = l /\ reap'[n].boot = reap[n].boot /\ reap'[n].mine = reap[n].mine
                 /\ \A x \in Nodes : x # n => reap'[x] = reap[x]
      BY <1>1, <2>1 DEF ReapAt, ReapTypes
    <2>2. CASE UNCHANGED reap
      BY <2>2 DEF PeerInv, SweepsUp, BootsApart
    <2>3. CASE Boot(n)
      <3> DEFINE p == [NoReap EXCEPT !.at = "find", !.boot = TRUE]
      <3>1. p.at = "find" /\ DOMAIN p.mine = {}
        BY NoReapIs DEF NoReap
      <3>2. n \notin up /\ reap' = [reap EXCEPT ![n] = p]
        BY <2>3 DEF Boot, Gone
      <3> HIDE DEF p
      <3> QED
        BY <1>1, <3>1, <3>2
    <2>4. CASE Sweep(n)
      <3>1. n \in up /\ ReapAt(n, "listed")
        BY <2>4 DEF Sweep
      <3> QED
        BY <2>1, <3>1 DEF PeerInv, BootsApart
    <2>5. CASE Adopt(n) \/ Adopted(n)
      <3>1. n \in up /\ ~reap[n].boot
        BY <2>5 DEF Adopt, Adopted, PeerInv, SweepsUp
      <3>2. PICK l : ReapAt(n, l)
        BY <2>5 DEF Adopt, Adopted
      <3> QED
        BY <2>1, <3>1, <3>2
    <2>6. CASE EngineGone(n) \/ Release(n) \/ StartEngine(n) \/ Status(n) \/ Lapse
      BY <2>2, <2>6 DEF EngineGone, Release, StartEngine, Status, Lapse, memory
    <2> QED
      BY <2>3, <2>4, <2>5, <2>6 DEF SessionStep
  <1>4. SoleEngine'
    <2>1. CASE EngineGone(n) \/ Status(n) \/ Sweep(n) \/ Adopted(n) \/ Boot(n)
      BY <1>2, <2>1 DEF EngineGone, Status, Sweep, Adopted, Boot, session, PeerInv, SoleEngine
    <2>2. CASE Release(n)
      BY <1>2, <2>2 DEF Release, PeerInv, SoleEngine
    <2>3. CASE Lapse
      BY <1>2, <2>3 DEF Lapse, Gone, PeerInv, SoleEngine
    <2>4. ASSUME n \in up, Claims(n), Launch(n) PROVE SoleEngine'
      BY <1>1, <1>2, <2>4 DEF Claims, Launch, PeerInv, SoleEngine
    <2>5. CASE StartEngine(n)
      BY <2>4, <2>5 DEF StartEngine
    <2>6. CASE Adopt(n)
      <3>1. n \in up
        BY <2>6 DEF Adopt, PeerInv, SweepsUp
      <3>2. CASE UNCHANGED <<engine, owner, lapsed>>
        BY <1>2, <3>2 DEF PeerInv, SoleEngine
      <3> QED
        BY <2>4, <2>6, <3>1, <3>2 DEF Adopt
    <2> QED
      BY <2>1, <2>2, <2>3, <2>5, <2>6 DEF SessionStep
  <1>5. /\ \/ UNCHANGED run /\ engine \subseteq engine'
           \/ Deaf(n) /\ engine' = engine \ {n}
    BY DEF SessionStep, EngineGone, Release, StartEngine, Status, Lapse, Sweep, Adopt, Adopted, Boot,
       Launch, memory, session
  <1>6. \A r \in Runs :
          /\ run'[r].at = run[r].at /\ run'[r].node = run[r].node /\ run'[r].batch = run[r].batch
          /\ run'[r].live => run[r].live /\ (run[r].node \in engine => run[r].node \in engine')
    <2>1. CASE UNCHANGED run /\ engine \subseteq engine'
      BY <2>1
    <2>2. CASE Deaf(n) /\ engine' = engine \ {n}
      <3>1. \A s \in RunTypes : LET t == [s EXCEPT !.live = FALSE] IN
              t.at = s.at /\ t.node = s.node /\ t.batch = s.batch /\ t.live = FALSE
        BY DEF RunTypes
      <3>2. \A r \in Runs : run'[r] = IF run[r].node = n THEN [run[r] EXCEPT !.live = FALSE] ELSE run[r]
        BY <2>2 DEF Deaf, OnNode
      <3> SUFFICES ASSUME NEW r \in Runs
                   PROVE  /\ run'[r].at = run[r].at /\ run'[r].node = run[r].node /\ run'[r].batch = run[r].batch
                          /\ run'[r].live => run[r].live /\ (run[r].node \in engine => run[r].node \in engine')
        OBVIOUS
      <3>3. CASE run[r].node = n
        <4>1. run'[r] = [run[r] EXCEPT !.live = FALSE] /\ run[r] \in RunTypes
          BY <1>1, <3>2, <3>3
        <4> QED
          BY <3>1, <4>1
      <3>4. CASE run[r].node # n
        BY <2>2, <3>2, <3>4
      <3> QED
        BY <3>3, <3>4
    <2> QED
      BY <1>5, <2>1, <2>2
  <1>7. LiveRuns'
    BY <1>6 DEF PeerInv, LiveRuns, Holds, Node
  <1>8. SweepsUp'
    BY <1>2, <1>3 DEF PeerInv, SweepsUp
  <1>9. BootsApart'
    BY <1>2, <1>3, <1>6 DEF PeerInv, BootsApart, Batch
  <1> QED
    BY <1>4, <1>7, <1>8, <1>9 DEF PeerInv

LEMMA CrashPeers ==
  ASSUME IInv, PeerInv, NEW n \in Nodes, Crash(n)
  PROVE  PeerInv'
  <1>1. /\ up' = up \ {n} /\ engine' = engine \ {n} /\ UNCHANGED <<owner, lapsed>>
        /\ \A r \in Runs : run'[r] = IF Node(r) = n THEN Ended ELSE run[r]
    BY DEF Crash, OnNode, Node
  <1>2. /\ ~reap'[n].boot /\ reap'[n].at = "idle"
        /\ \A x \in Nodes : x # n => reap'[x] = reap[x]
    BY DEF Crash, IInv, Typed, ReapsTyped, NoReap
  <1>3. \A r \in Runs : Holds(r)' => Holds(r) /\ Node(r) # n /\ run'[r] = run[r]
    BY <1>1, EndedIs DEF Holds, Node
  <1>4. \A r \in Runs : run'[r].at \in Stored => run'[r] = run[r]
    BY <1>1, EndedIs DEF Stored
  <1>5. LiveRuns'
    BY <1>1, <1>3 DEF PeerInv, LiveRuns, Holds, Node
  <1>6. BootsApart'
    BY <1>1, <1>2, <1>4 DEF PeerInv, BootsApart, Batch
  <1> QED
    BY <1>1, <1>2, <1>5, <1>6 DEF PeerInv, SoleEngine, SweepsUp

LEMMA CancelPeers ==
  ASSUME IInv, PeerInv, UNCHANGED <<run, reap, session>>
  PROVE  PeerInv'
  BY DEF PeerInv, SoleEngine, SweepsUp, LiveRuns, BootsApart, Holds, Node, Batch, session

LEMMA PeerInvKept ==
  ASSUME ~Lapses
  PROVE  IInv /\ PeerInv /\ [Next]_vars => PeerInv'
  <1> SUFFICES ASSUME IInv, PeerInv, [Next]_vars PROVE PeerInv'
    OBVIOUS
  <1>1. CASE UNCHANGED vars
    BY <1>1, CancelPeers DEF vars, memory
  <1>2. ASSUME NEW r \in Runs, RunStep(r) \/ RunFails(r) PROVE PeerInv'
    BY <1>2, RunPeers
  <1>3. ASSUME NEW r \in Runs, NEW n \in Nodes, NEW b \in Batches, Create(r, n, b) PROVE PeerInv'
    BY <1>3, CreatePeers
  <1>4. ASSUME NEW c \in Cancels, CancelWrite(c) \/ CancelFails(c) PROVE PeerInv'
    BY <1>4, CancelPeers DEF CancelWrite, CancelFails
  <1>5. ASSUME NEW c \in Cancels, NEW n \in Nodes, NEW b \in Batches, CancelRead(c, n, b) PROVE PeerInv'
    BY <1>5, CancelPeers DEF CancelRead
  <1>6. ASSUME NEW n \in Nodes, ReapFind(n) \/ (\E b \in Batches : ReapSave(n, b)) \/ ReapEnd(n)
        PROVE  PeerInv'
    BY <1>6, ReapPeers
  <1>7. ASSUME NEW n \in Nodes, SessionStep(n) PROVE PeerInv'
    BY <1>7, SessionPeers
  <1>8. ASSUME NEW n \in Nodes, Crash(n) PROVE PeerInv'
    BY <1>8, CrashPeers
  <1> QED
    BY <1>1, <1>2, <1>3, <1>4, <1>5, <1>6, <1>7, <1>8, BulkAssumption DEF Next, ReapStep, SessionStep

LEMMA PeerInvHolds == Init => PeerInv
  <1> SUFFICES ASSUME Init PROVE PeerInv
    OBVIOUS
  <1>1. /\ run = [r \in Runs |-> Idle] /\ reap = [n \in Nodes |-> NoReap]
        /\ up = Nodes /\ engine = {First} /\ owner = First /\ lapsed = FALSE /\ First \in Nodes
    BY BulkAssumption DEF Init
  <1>2. Idle.at = "idle" /\ NoReap.boot = FALSE /\ NoReap.at = "idle"
    BY DEF Idle, NoReap
  <1> QED
    BY <1>1, <1>2 DEF PeerInv, SoleEngine, SweepsUp, LiveRuns, BootsApart, Holds

\* A booting node fails no batch that a loop still has an engine to send, as long as no lease
\* lapses under a live engine, and whatever is stopped, released, started and adopted.
THEOREM BootSpares ==
  ASSUME ~Lapses
  PROVE  Spec => BootSparesPeers
  <1> DEFINE A == \A n \in Nodes, b \in Batches : reap[n].boot /\ ReapSave(n, b) =>
                    ~\E r \in Runs : Drives(r, b) /\ run[r].live
  <1>1. PeerInv => A
    <2> SUFFICES ASSUME PeerInv, NEW n \in Nodes, NEW b \in Batches, reap[n].boot, ReapSave(n, b),
                        NEW r \in Runs, Drives(r, b), run[r].live
                 PROVE  FALSE
      OBVIOUS
    <2>1. b \in DOMAIN reap[n].mine /\ run[r].at \in Stored /\ Batch(r) = b
      BY DEF ReapSave, Drives, Stored, Batch
    <2> QED
      BY <2>1 DEF PeerInv, BootsApart
  <1>2. IInv /\ PeerInv /\ [Next]_vars => PeerInv'
    BY PeerInvKept
  <1>3. PeerInv => [A]_vars
    BY <1>1
  <1> QED
    BY <1>2, <1>3, PeerInvHolds, Inductive, PTL DEF Spec, BootSparesPeers
=============================================================================
