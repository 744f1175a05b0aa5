----------------------------- MODULE MessageRows -----------------------------
(***************************************************************************)
(* One WhatsApp message and its rows in the messages table: the REST send   *)
(* (MessageService), the projector of engine events with its keyed mutation *)
(* queue (MessageProjector, MessageMutationProjector), and the reaper of    *)
(* stale PENDING rows (openwa/src/modules/message, .../session).            *)
(*                                                                         *)
(* Nothing locks a row.  Each writer has its own row, and the unique index  *)
(* on (sessionId, waMessageId) is all that tells two writers that they      *)
(* write about the same message.  A step is a query as the database         *)
(* executes it with the code that runs on its answer.                       *)
(***************************************************************************)
EXTENDS Naturals

CONSTANTS
  Origins,      \* how the message comes about: "api", "phone" (a linked device), "inbound"
  Rest,         \* the REST request, as a writer of rows
  Fires,        \* the engine announces the message, perhaps more than once (a bound)
  Ticks,        \* the delivery reports that may come
  MaxMutations, \* bound on edits and reactions
  MaxNews,      \* bound on reports, edits, reactions and revocations together
  MaxFaults,    \* bound on queries that fail, and sends that fail after WhatsApp took them
  MaxStops      \* bound on engines retired and processes that die

ASSUME MessageAssumption ==
  /\ Origins \subseteq {"api", "phone", "inbound"}
  /\ Rest \notin Fires
  /\ Ticks \subseteq {"DELIVERED", "READ", "FAILED"}
  /\ {MaxMutations, MaxNews, MaxFaults, MaxStops} \subseteq Nat

VARIABLES
  origin,
  onWire,  \* WhatsApp has the message
  row,     \* messages, by the writer that inserts the row
  req,     \* the send request: where it is, and its entity
  fire,    \* each announcement by the engine
  told,    \* how often the announcement was dispatched to webhooks
  tick,    \* each delivery report
  kind,    \* the edits and reactions, numbered as they arrive
  queued,  \* those still in the KeyedMutationQueue
  copy,    \* metadata a reaction has read and not written back
  revoke,  \* the revocation of the message
  sweep,   \* the reaper has found the request's row PENDING
  done,    \* history: edits and reactions written to a row
  mixed,   \* history: a merge met reports or reactions that were there first
  missed,  \* history: a report found no row at its second try either
  news, faults, stops

events == <<fire, told, tick>>
mutations == <<kind, queued, copy, done>>
history == <<mixed, missed>>
bounds == <<news, faults, stops>>
vars == <<origin, onWire, row, req, events, mutations, revoke, sweep, history, bounds>>

Writers == Fires \cup {Rest}
Mutations == 1..MaxMutations

\* A row: its status, whether waMessageId is set, the last edit of its body (0 as sent), the
\* reactions in its metadata, whether the metadata has the media, the 'revoked' type.
NoRow == [status |-> "none", id |-> FALSE, body |-> 0, reacts |-> {}, media |-> FALSE,
          revoked |-> FALSE]
NoCopy == [read |-> FALSE, reacts |-> {}, media |-> FALSE]

Init ==
  /\ origin \in Origins /\ onWire = (origin # "api")
  /\ row = [w \in Writers |-> NoRow]
  /\ req = [at |-> "idle", media |-> FALSE, id |-> FALSE]
  /\ fire = [f \in Fires |-> "none"] /\ told = 0
  /\ tick = [t \in Ticks |-> "none"]
  /\ kind = [n \in Mutations |-> "none"] /\ queued = {}
  /\ copy = [n \in Mutations |-> NoCopy] /\ done = {}
  /\ revoke = "none" /\ sweep = FALSE
  /\ mixed = FALSE /\ missed = FALSE
  /\ news = 0 /\ faults = 0 /\ stops = 0

\* WHERE waMessageId = the message's id; the index allows one such row.
Known == \E w \in Writers : row[w].id

News == news < MaxNews /\ news' = news + 1

-----------------------------------------------------------------------------
(* The REST send *)

At(l) == req.at = l
To(l) == req' = [req EXCEPT !.at = l]

Pending(m) == [NoRow EXCEPT !.status = "PENDING", !.media = m]

\* saveOutgoingMessage: the row is PENDING before the engine is asked.
Send ==
  /\ origin = "api" /\ At("idle")
  /\ \E m \in BOOLEAN :
       /\ req' = [req EXCEPT !.at = "sending", !.media = m]
       /\ row' = [row EXCEPT ![Rest] = Pending(m)]
  /\ UNCHANGED <<origin, onWire, events, mutations, revoke, sweep, history, bounds>>

Accepted ==
  /\ At("sending") /\ ~onWire
  /\ onWire' = TRUE
  /\ UNCHANGED <<origin, row, req, events, mutations, revoke, sweep, history, bounds>>

\* The engine call returns; it may have been unable to read the id back.
Returned ==
  /\ At("sending") /\ onWire
  /\ \E i \in BOOLEAN : req' = [req EXCEPT !.at = "saving", !.id = i]
  /\ UNCHANGED <<origin, onWire, row, events, mutations, revoke, sweep, history, bounds>>

\* The engine call throws: the message did not leave, or (a fault) it did.
Rejected ==
  /\ At("sending")
  /\ onWire => faults < MaxFaults
  /\ faults' = IF onWire THEN faults + 1 ELSE faults
  /\ To("failing")
  /\ UNCHANGED <<origin, onWire, row, events, mutations, revoke, sweep, history, news, stops>>

\* A row that failed keeps no payload.
Failed(r) == [r EXCEPT !.status = "FAILED", !.media = FALSE]

\* failSend, saveFailedMessage.
SaveFailed ==
  /\ At("failing") /\ To("ended")
  /\ row' = [row EXCEPT ![Rest] = Failed(row[Rest])]
  /\ UNCHANGED <<origin, onWire, events, mutations, revoke, sweep, history, bounds>>

\* The entity, whose media a reaper does not reach.
Sent(r) == [r EXCEPT !.status = "SENT", !.id = req.id, !.media = req.media]

\* persistSentState: the save of the entity.
Save ==
  /\ At("saving") /\ ~(req.id /\ Known) /\ To("ended")
  /\ row' = [row EXCEPT ![Rest] = Sent(row[Rest])]
  /\ UNCHANGED <<origin, onWire, events, mutations, revoke, sweep, history, bounds>>

\* The unique index refuses it: the echo has a row of this id.
Conflict ==
  /\ At("saving") /\ req.id /\ Known /\ To("merging")
  /\ UNCHANGED <<origin, onWire, row, events, mutations, revoke, sweep, history, bounds>>

\* Mutant: the payload stays on the row that is about to be dropped.
MergedStatus(r) == [r EXCEPT !.status = "SENT"]
\* The patch: whatever status, and with a payload whatever metadata, the row had.
Merged(r) == [r EXCEPT !.status = "SENT", !.media = @ \/ req.media,
                       !.reacts = IF req.media THEN {} ELSE @]

Merge ==
  /\ At("merging") /\ To("dropping")
  /\ row' = [w \in Writers |-> IF row[w].id THEN Merged(row[w]) ELSE row[w]]
  /\ mixed' = (\/ mixed \/ \E w \in Writers : row[w].id /\ (row[w].status # "SENT" \/ row[w].reacts # {})
               \/ \E n \in Mutations : copy[n].read)
  /\ UNCHANGED <<origin, onWire, events, mutations, revoke, sweep, missed, bounds>>

Drop ==
  /\ At("dropping") /\ To("ended")
  /\ row' = [row EXCEPT ![Rest] = NoRow]
  /\ UNCHANGED <<origin, onWire, events, mutations, revoke, sweep, history, bounds>>

\* A query of the request fails.  The merge and the drop are best-effort.
RequestFault ==
  /\ faults < MaxFaults /\ faults' = faults + 1
  /\ origin = "api"
  /\ \/ req.at \in {"idle", "failing", "saving", "dropping"} /\ To("ended")
     \/ At("merging") /\ To("dropping")
  /\ UNCHANGED <<origin, onWire, row, events, mutations, revoke, sweep, history, news, stops>>

-----------------------------------------------------------------------------
(* Announcements: handleOwnSendEcho, handleInboundMessage *)

\* The engine is live; the plugin hook runs.
Announced(f) ==
  /\ onWire /\ fire[f] = "none"
  /\ fire' = [fire EXCEPT ![f] = "hook"]
  /\ UNCHANGED <<origin, onWire, row, req, told, tick, mutations, revoke, sweep, history, bounds>>

\* Mutant: a duplicate is dispatched like the first.
AlwaysDispatches == TRUE
\* After a unique violation: a duplicate of an inbound message stops, an echo goes on.
DuplicateDispatches == origin # "inbound"

Announcement == [NoRow EXCEPT !.status = "SENT", !.id = TRUE, !.media = (origin = "inbound")]

\* The insert, and the dispatch.
Stores(f) ==
  /\ fire[f] = "hook" /\ fire' = [fire EXCEPT ![f] = "done"]
  /\ \/ /\ ~Known
        /\ row' = [row EXCEPT ![f] = Announcement]
        /\ told' = told + 1
     \/ /\ Known /\ UNCHANGED row
        /\ told' = IF DuplicateDispatches THEN told + 1 ELSE told
  /\ UNCHANGED <<origin, onWire, req, tick, mutations, revoke, sweep, history, bounds>>

\* Any other error of the insert: dispatched all the same.
StoreFault(f) ==
  /\ faults < MaxFaults /\ faults' = faults + 1
  /\ fire[f] = "hook" /\ fire' = [fire EXCEPT ![f] = "done"]
  /\ told' = told + 1
  /\ UNCHANGED <<origin, onWire, row, req, tick, mutations, revoke, sweep, history, news, stops>>

\* The engine was retired during the hook: isLive() is asked again before the insert.
Stale(f) ==
  /\ fire[f] = "stale" /\ fire' = [fire EXCEPT ![f] = "done"]
  /\ UNCHANGED <<origin, onWire, row, req, told, tick, mutations, revoke, sweep, history, bounds>>

-----------------------------------------------------------------------------
(* Delivery reports: handleMessageAck *)

\* ackStatusTransitionFrom.
From(t) == {"PENDING", "SENT"} \cup (IF t = "READ" THEN {"DELIVERED"} ELSE {})

Advances(t, w) == row[w].id /\ row[w].status \in From(t)
Reports(r, t) == [r EXCEPT !.status = t]
Advanced(t) == [w \in Writers |-> IF Advances(t, w) THEN Reports(row[w], t) ELSE row[w]]
Affected(t) == \E w \in Writers : Advances(t, w)

Reported(t) ==
  /\ onWire /\ origin # "inbound" /\ tick[t] = "none" /\ News
  /\ tick' = [tick EXCEPT ![t] = "first"]
  /\ UNCHANGED <<origin, onWire, row, req, fire, told, mutations, revoke, sweep, history, faults, stops>>

\* Mutant: a report that matches no row is given up.
GivesUp(t) == "done"
\* No row affected: the id may not be on the row yet, so once more after ACK_RECONCILE_DELAY_MS.
Unmatched(t) == "again"

FirstTry(t) ==
  /\ tick[t] = "first"
  /\ row' = Advanced(t)
  /\ tick' = [tick EXCEPT ![t] = IF Affected(t) THEN "done" ELSE Unmatched(t)]
  /\ UNCHANGED <<origin, onWire, req, fire, told, mutations, revoke, sweep, history, bounds>>

SecondTry(t) ==
  /\ tick[t] = "again" /\ tick' = [tick EXCEPT ![t] = "done"]
  /\ row' = Advanced(t)
  /\ missed' = (missed \/ ~Known)
  /\ UNCHANGED <<origin, onWire, req, fire, told, mutations, revoke, sweep, mixed, bounds>>

TickFault(t) ==
  /\ faults < MaxFaults /\ faults' = faults + 1
  /\ tick[t] \in {"first", "again"} /\ tick' = [tick EXCEPT ![t] = "done"]
  /\ UNCHANGED <<origin, onWire, row, req, fire, told, mutations, revoke, sweep, history, news, stops>>

-----------------------------------------------------------------------------
(* Edits and reactions: the KeyedMutationQueue *)

\* The next number, at the end of the chain of this message.
Enqueued(n) ==
  /\ onWire /\ News
  /\ kind[n] = "none" /\ \A m \in Mutations : m < n => kind[m] # "none"
  /\ \E k \in {"edit", "react"} : kind' = [kind EXCEPT ![n] = k]
  /\ queued' = queued \cup {n}
  /\ UNCHANGED <<origin, onWire, row, req, events, copy, done, revoke, sweep, history, faults, stops>>

\* Mutant: the work does not wait for what was queued before it.
AnyTurn(n) == n \in queued
\* All that arrived before has settled.
Turn(n) == n \in queued /\ \A m \in queued : n <= m

Settles(n) == queued' = queued \ {n} /\ copy' = [copy EXCEPT ![n] = NoCopy]
Wrote(n) == done' = IF Known THEN done \cup {n} ELSE done

Edited(r, n) == [r EXCEPT !.body = n]

\* applyMessageEdit, recordOutboundMessageEdit: one UPDATE of the body.
Edit(n) ==
  /\ Turn(n) /\ kind[n] = "edit" /\ Settles(n) /\ Wrote(n)
  /\ row' = [w \in Writers |-> IF row[w].id THEN Edited(row[w], n) ELSE row[w]]
  /\ UNCHANGED <<origin, onWire, req, events, kind, revoke, sweep, history, bounds>>

\* applyReaction: findOne, and nothing to do without a row.
ReadReactions(n) ==
  /\ Turn(n) /\ kind[n] = "react" /\ ~copy[n].read
  /\ \/ \E w \in Writers :
          /\ row[w].id
          /\ copy' = [copy EXCEPT ![n] = [read |-> TRUE, reacts |-> row[w].reacts, media |-> row[w].media]]
          /\ UNCHANGED queued
     \/ ~Known /\ Settles(n)
  /\ UNCHANGED <<origin, onWire, row, req, events, kind, done, revoke, sweep, history, bounds>>

\* The metadata column, and nothing else.
Reacted(r, n) == [r EXCEPT !.reacts = copy[n].reacts \cup {n}, !.media = copy[n].media]

WriteReactions(n) ==
  /\ n \in queued /\ copy[n].read /\ Settles(n) /\ Wrote(n)
  /\ row' = [w \in Writers |-> IF row[w].id THEN Reacted(row[w], n) ELSE row[w]]
  /\ UNCHANGED <<origin, onWire, req, events, kind, revoke, sweep, history, bounds>>

\* A failed operation is isolated: the next one runs.
MutationFault(n) ==
  /\ faults < MaxFaults /\ faults' = faults + 1
  /\ Turn(n) /\ Settles(n)
  /\ UNCHANGED <<origin, onWire, row, req, events, kind, done, revoke, sweep, history, news, stops>>

-----------------------------------------------------------------------------
(* Revocation: handleMessageRevoked, deleteMessage; not behind the queue *)

Revoked ==
  /\ onWire /\ News
  /\ revoke = "none" /\ revoke' = "issued"
  /\ UNCHANGED <<origin, onWire, row, req, events, mutations, sweep, history, faults, stops>>

Flagged(r) == [r EXCEPT !.body = 0, !.revoked = TRUE]

FlagRevoked ==
  /\ revoke = "issued" /\ revoke' = "done"
  /\ row' = [w \in Writers |-> IF row[w].id THEN Flagged(row[w]) ELSE row[w]]
  /\ UNCHANGED <<origin, onWire, req, events, mutations, sweep, history, bounds>>

RevokeFault ==
  /\ faults < MaxFaults /\ faults' = faults + 1
  /\ revoke = "issued" /\ revoke' = "done"
  /\ UNCHANGED <<origin, onWire, row, req, events, mutations, sweep, history, news, stops>>

-----------------------------------------------------------------------------
(* The reaper: PendingMessageReaperService *)

\* Mutant: only rows that have an id.
StuckWithId(r) == r.status = "PENDING" /\ r.id
\* The WHERE of the sweep.  The grace period passes in no time here: a send may be slower.
Stuck(r) == r.status = "PENDING"

SweepFinds ==
  /\ ~sweep /\ sweep' = TRUE
  /\ Stuck(row[Rest])
  /\ UNCHANGED <<origin, onWire, row, req, events, mutations, revoke, history, bounds>>

\* The WHERE of reapRow: PENDING still.
Reapable(r) == r.status = "PENDING"

SweepReaps ==
  /\ sweep /\ sweep' = FALSE
  /\ row' = IF Reapable(row[Rest])
            THEN [row EXCEPT ![Rest] = Failed(row[Rest])] ELSE row
  /\ UNCHANGED <<origin, onWire, req, events, mutations, revoke, history, bounds>>

SweepFault ==
  /\ faults < MaxFaults /\ faults' = faults + 1
  /\ sweep /\ sweep' = FALSE
  /\ UNCHANGED <<origin, onWire, row, req, events, mutations, revoke, history, news, stops>>

-----------------------------------------------------------------------------
(* Ends *)

\* The session's engine is retired and another takes its place.
Retired ==
  /\ stops < MaxStops /\ stops' = stops + 1
  /\ fire' = [f \in Fires |-> IF fire[f] = "hook" THEN "stale" ELSE fire[f]]
  /\ UNCHANGED <<origin, onWire, row, req, told, tick, mutations, revoke, sweep, history, news, faults>>

\* The process dies: rows are what is left of the work in flight.
Crash ==
  /\ stops < MaxStops /\ stops' = stops + 1
  /\ req' = [req EXCEPT !.at = IF @ = "idle" THEN @ ELSE "ended"]
  /\ fire' = [f \in Fires |-> IF fire[f] \in {"hook", "stale"} THEN "done" ELSE fire[f]]
  /\ tick' = [t \in Ticks |-> IF tick[t] \in {"first", "again"} THEN "done" ELSE tick[t]]
  /\ queued' = {} /\ copy' = [n \in Mutations |-> NoCopy]
  /\ revoke' = IF revoke = "issued" THEN "done" ELSE revoke
  /\ sweep' = FALSE
  /\ UNCHANGED <<origin, onWire, row, told, kind, done, history, news, faults>>

Request ==
  \/ Send \/ Accepted \/ Returned \/ Rejected \/ SaveFailed \/ Save \/ Conflict \/ Merge \/ Drop
  \/ RequestFault

Next ==
  \/ Request
  \/ \E f \in Fires : Announced(f) \/ Stores(f) \/ StoreFault(f) \/ Stale(f)
  \/ \E t \in Ticks : Reported(t) \/ FirstTry(t) \/ SecondTry(t) \/ TickFault(t)
  \/ \E n \in Mutations :
       Enqueued(n) \/ Edit(n) \/ ReadReactions(n) \/ WriteReactions(n) \/ MutationFault(n)
  \/ Revoked \/ FlagRevoked \/ RevokeFault
  \/ SweepFinds \/ SweepReaps \/ SweepFault
  \/ Retired \/ Crash

Spec == Init /\ [][Next]_vars

\* The reaper's interval comes round; nobody else owes anything.
FairSpec == Spec /\ WF_vars(SweepFinds \/ SweepReaps)

-----------------------------------------------------------------------------
(* Properties *)

Statuses == {"none", "PENDING", "SENT", "DELIVERED", "READ", "FAILED"}
RowTypes == [status : Statuses, id : BOOLEAN, body : {0} \cup Mutations,
             reacts : SUBSET Mutations, media : BOOLEAN, revoked : BOOLEAN]

\* Type correctness, with the index: no two rows of one message id.
TypeOK ==
  /\ origin \in Origins /\ onWire \in BOOLEAN
  /\ row \in [Writers -> RowTypes]
  /\ \A v, w \in Writers : row[v].id /\ row[w].id => v = w
  /\ req \in [at : {"idle", "sending", "failing", "saving", "merging", "dropping", "ended"},
              media : BOOLEAN, id : BOOLEAN]
  /\ fire \in [Fires -> {"none", "hook", "stale", "done"}] /\ told \in Nat
  /\ tick \in [Ticks -> {"none", "first", "again", "done"}]
  /\ kind \in [Mutations -> {"none", "edit", "react"}]
  /\ queued \subseteq Mutations /\ done \subseteq Mutations
  /\ copy \in [Mutations -> [read : BOOLEAN, reacts : SUBSET Mutations, media : BOOLEAN]]
  /\ revoke \in {"none", "issued", "done"} /\ sweep \in BOOLEAN
  /\ mixed \in BOOLEAN /\ missed \in BOOLEAN
  /\ news \in 0..MaxNews /\ faults \in 0..MaxFaults /\ stops \in 0..MaxStops

Calm == faults = 0 /\ stops = 0
Came == {t \in Ticks : tick[t] = "done"}

\* The request, if it is a send, and every announcement so far have run their course.
Quiet ==
  /\ IF origin = "api" THEN At("ended") /\ (onWire => req.id)
                       ELSE \E f \in Fires : fire[f] = "done"
  /\ \A f \in Fires : fire[f] \in {"none", "done"}

\* Whoever wrote first, a message ends as one row, under its id, that has its media and says
\* FAILED only where the engine said so (persistSentState: the row of the echo is merged into
\* and the redundant one dropped; failSend: an accepted message is never a failed send).
\* A fault, a stop and an id the engine could not read back excepted.
StoredOnce ==
  Calm /\ Quiet =>
    \E w \in Writers :
      /\ \A v \in Writers : row[v].status # "none" <=> v = w
      /\ row[w].id = onWire
      /\ row[w].status # "PENDING"
      /\ row[w].status = "FAILED" => ~onWire \/ "FAILED" \in Came
      /\ onWire /\ req.media /\ ~mixed => row[w].media

\* A row shows the strongest of the reports that came, in whatever order and however early,
\* unless one found no row twice or a merge overwrote it.
TicksShown ==
  Calm /\ ~mixed /\ ~missed /\ (\A t \in Ticks : tick[t] \in {"none", "done"}) =>
    \A w \in Writers : row[w].id =>
      /\ row[w].status \in Came \cup (IF Came = {} THEN {"SENT"} ELSE {})
      /\ "READ" \in Came /\ "FAILED" \notin Came => row[w].status = "READ"

\* Edits are written in the order they arrived and no reaction is lost to another
\* (KeyedMutationQueue), short of a revocation and of a merge.
LatestWins ==
  \A w \in Writers, n \in done : row[w].id =>
    /\ kind[n] = "edit" /\ revoke # "done" => n <= row[w].body
    /\ kind[n] = "react" /\ ~mixed => n \in row[w].reacts

\* An inbound message the engine announces again is dispatched once, and a failing insert
\* does not keep it from being dispatched.
InboundTold ==
  origin = "inbound" =>
    /\ faults = 0 => told <= 1
    /\ stops = 0 /\ (\E f \in Fires : fire[f] = "done") => told >= 1

\* A row that waits for its outcome gets one, whatever becomes of its request: the reaper
\* closes the crash window of persist-before-send.
PendingEnds == (row[Rest].status = "PENDING") ~> (row[Rest].status # "PENDING")

\* Delivery state only moves forward (message-status.util.ts, applyReaction: "scoping the
\* write to metadata is what keeps delivery state monotonic").
MovesForward ==
  [][\A w \in Writers : row[w].status \in {"DELIVERED", "READ"} => row'[w].status # "SENT"]_vars

\* A message the engine returned is not reported as a failed send for a failing database
\* (persistSentState: "must NOT be surfaced as a send failure").
AcceptedNotFailed ==
  stops = 0 /\ req.id /\ At("ended") /\ "FAILED" \notin Came => row[Rest].status # "FAILED"
=============================================================================
