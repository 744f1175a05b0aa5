-------------------------- MODULE MessageRowsProofs --------------------------
(***************************************************************************)
(* The rows of a message, for every set of announcements and reports and    *)
(* every bound.                                                             *)
(***************************************************************************)
EXTENDS MessageRows, TLAPS

RowsTyped == row \in [Writers -> RowTypes]
OneId == \A v, w \in Writers : row[v].id /\ row[w].id => v = w
ReqTyped == req \in [at : {"idle", "sending", "failing", "saving", "merging", "dropping", "ended"},
                     media : BOOLEAN, id : BOOLEAN]
CopyTyped == copy \in [Mutations -> [read : BOOLEAN, reacts : SUBSET Mutations, media : BOOLEAN]]

LEMMA Writing == Rest \in Writers /\ Fires \subseteq Writers /\ Rest \notin Fires
  BY MessageAssumption DEF Writers

-----------------------------------------------------------------------------
ReqParts == origin \in Origins /\ onWire \in BOOLEAN /\ ReqTyped
EventParts == /\ fire \in [Fires -> {"none", "hook", "stale", "done"}] /\ told \in Nat
              /\ tick \in [Ticks -> {"none", "first", "again", "done"}]
MutationParts == /\ kind \in [Mutations -> {"none", "edit", "react"}]
                 /\ queued \subseteq Mutations /\ done \subseteq Mutations /\ CopyTyped
OtherParts == /\ revoke \in {"none", "issued", "done"} /\ sweep \in BOOLEAN
              /\ mixed \in BOOLEAN /\ missed \in BOOLEAN
              /\ news \in 0..MaxNews /\ faults \in 0..MaxFaults /\ stops \in 0..MaxStops
Parts == ReqParts /\ EventParts /\ MutationParts /\ OtherParts

LEMMA BoundsTyped == MaxMutations \in Nat /\ MaxNews \in Nat /\ MaxFaults \in Nat /\ MaxStops \in Nat
  BY MessageAssumption

LEMMA PartsOf == TypeOK <=> RowsTyped /\ OneId /\ Parts
  BY DEF TypeOK, RowsTyped, OneId, Parts, ReqParts, ReqTyped, EventParts, MutationParts, CopyTyped,
     OtherParts

-----------------------------------------------------------------------------
(* The rows the writers write *)

\* The fields of a row, and of a row after each write.
LEMMA RowFields ==
  ASSUME NEW r \in RowTypes
  PROVE  /\ r.status \in Statuses /\ r.id \in BOOLEAN /\ r.media \in BOOLEAN
         /\ r.reacts \subseteq Mutations /\ r.body \in {0} \cup Mutations
  BY DEF RowTypes

LEMMA FailedRow ==
  ASSUME NEW r \in RowTypes
  PROVE  /\ Failed(r) \in RowTypes /\ Failed(r).id = r.id
         /\ Failed(r).status = "FAILED" /\ ~Failed(r).media
         /\ Failed(r).reacts = r.reacts /\ Failed(r).body = r.body
  BY DEF RowTypes, Failed, Statuses

LEMMA SentRow ==
  ASSUME NEW r \in RowTypes, TypeOK
  PROVE  /\ Sent(r) \in RowTypes /\ Sent(r).id = req.id
         /\ Sent(r).status = "SENT" /\ Sent(r).media = req.media
         /\ Sent(r).reacts = r.reacts /\ Sent(r).body = r.body
  BY DEF RowTypes, Sent, Statuses, TypeOK

LEMMA MergedRow ==
  ASSUME NEW r \in RowTypes, TypeOK
  PROVE  /\ Merged(r) \in RowTypes /\ Merged(r).id = r.id
         /\ Merged(r).status = "SENT" /\ Merged(r).media = (r.media \/ req.media)
         /\ Merged(r).reacts \subseteq r.reacts /\ Merged(r).body = r.body
         /\ (~req.media => Merged(r).reacts = r.reacts)
  BY DEF RowTypes, Merged, Statuses, TypeOK

LEMMA AnnouncedRow ==
  TypeOK => /\ Announcement \in RowTypes /\ Announcement.id /\ Announcement.status = "SENT"
            /\ Announcement.media = (origin = "inbound") /\ Announcement.reacts = {}
            /\ Announcement.body = 0
  BY DEF RowTypes, Announcement, Statuses, NoRow, Mutations

LEMMA PendingRow ==
  ASSUME NEW m \in BOOLEAN
  PROVE  /\ Pending(m) \in RowTypes /\ ~Pending(m).id
         /\ Pending(m).status = "PENDING" /\ Pending(m).media = m
  BY DEF RowTypes, Pending, Statuses, NoRow, Mutations

LEMMA EditedRow ==
  ASSUME NEW r \in RowTypes, NEW n \in Mutations
  PROVE  /\ Edited(r, n) \in RowTypes /\ Edited(r, n).id = r.id
         /\ Edited(r, n).status = r.status /\ Edited(r, n).media = r.media
         /\ Edited(r, n).reacts = r.reacts /\ Edited(r, n).body = n
  BY DEF RowTypes, Edited

LEMMA ReactedRow ==
  ASSUME NEW r \in RowTypes, NEW n \in Mutations, TypeOK
  PROVE  /\ Reacted(r, n) \in RowTypes /\ Reacted(r, n).id = r.id
         /\ Reacted(r, n).status = r.status /\ Reacted(r, n).media = copy[n].media
         /\ Reacted(r, n).reacts = copy[n].reacts \cup {n} /\ Reacted(r, n).body = r.body
  BY DEF RowTypes, Reacted, TypeOK

LEMMA FlaggedRow ==
  ASSUME NEW r \in RowTypes
  PROVE  /\ Flagged(r) \in RowTypes /\ Flagged(r).id = r.id
         /\ Flagged(r).status = r.status /\ Flagged(r).media = r.media
         /\ Flagged(r).reacts = r.reacts /\ Flagged(r).body = 0
  BY DEF RowTypes, Flagged

LEMMA ReportedRow ==
  ASSUME NEW r \in RowTypes, NEW t \in Ticks
  PROVE  /\ Reports(r, t) \in RowTypes /\ Reports(r, t).id = r.id
         /\ Reports(r, t).status = t /\ Reports(r, t).media = r.media
         /\ Reports(r, t).reacts = r.reacts /\ Reports(r, t).body = r.body
  BY MessageAssumption DEF RowTypes, Reports, Statuses

LEMMA NoRowTyped == NoRow \in RowTypes /\ ~NoRow.id /\ NoRow.status = "none"
  BY DEF NoRow, RowTypes, Statuses, Mutations

LEMMA NoCopyTyped == NoCopy \in [read : BOOLEAN, reacts : SUBSET Mutations, media : BOOLEAN] /\ ~NoCopy.read
  BY DEF NoCopy

\* Writing one row, under the id only if no other row has it; writing every row of the message.
LEMMA OneRow ==
  ASSUME RowsTyped, OneId, NEW w \in Writers, NEW r \in RowTypes, row' = [row EXCEPT ![w] = r],
         r.id => \A v \in Writers : row[v].id => v = w
  PROVE  RowsTyped' /\ OneId'
  BY DEF RowsTyped, OneId

LEMMA SomeRows ==
  ASSUME RowsTyped, OneId, row' \in [Writers -> RowTypes], \A w \in Writers : row'[w].id = row[w].id
  PROVE  RowsTyped' /\ OneId'
  BY DEF RowsTyped, OneId

-----------------------------------------------------------------------------
(* Type correctness *)

LEMMA TypeInit == Init => TypeOK
  <1> SUFFICES ASSUME Init PROVE TypeOK
    OBVIOUS
  <1>1. RowsTyped /\ OneId
    BY NoRowTyped DEF Init, RowsTyped, OneId
  <1>2. OtherParts
    <2>1. 0 \in 0..MaxNews /\ 0 \in 0..MaxFaults /\ 0 \in 0..MaxStops
      BY BoundsTyped
    <2> QED BY <2>1 DEF Init, OtherParts
  <1>3. ReqParts /\ EventParts /\ MutationParts
    BY NoCopyTyped DEF Init, ReqParts, ReqTyped, EventParts, MutationParts, CopyTyped
  <1> QED BY <1>1, <1>2, <1>3, PartsOf DEF Parts

\* What the steps of each part of the program do to the rows.
LEMMA RowsStep ==
  ASSUME TypeOK, Next
  PROVE  RowsTyped' /\ OneId'
  <1> USE PartsOf, Writing
  <1>t. \A w \in Writers : row[w] \in RowTypes
    BY DEF RowsTyped
  <1>u. ASSUME UNCHANGED row PROVE RowsTyped' /\ OneId'
    BY <1>u DEF RowsTyped, OneId
  <1>1. CASE Request
    <2>1. CASE Send
      BY <2>1, PendingRow, OneRow DEF Send
    <2>2. CASE SaveFailed
      BY <2>2, FailedRow, OneRow, <1>t DEF SaveFailed, OneId
    <2>3. CASE Save
      BY <2>3, SentRow, OneRow, <1>t DEF Save, Known
    <2>4. CASE Merge
      BY <2>4, MergedRow, SomeRows, <1>t DEF Merge
    <2>5. CASE Drop
      BY <2>5, NoRowTyped, OneRow DEF Drop
    <2>6. CASE Accepted \/ Returned \/ Rejected \/ Conflict \/ RequestFault
      BY <2>6, <1>u DEF Accepted, Returned, Rejected, Conflict, RequestFault
    <2> QED BY <1>1, <2>1, <2>2, <2>3, <2>4, <2>5, <2>6 DEF Request
  <1>2. ASSUME NEW f \in Fires, Announced(f) \/ Stores(f) \/ StoreFault(f) \/ Stale(f)
        PROVE  RowsTyped' /\ OneId'
    <2>1. CASE Stores(f) /\ ~Known /\ row' = [row EXCEPT ![f] = Announcement]
      BY <2>1, AnnouncedRow, OneRow DEF Known
    <2> QED BY <1>2, <2>1, <1>u DEF Announced, Stores, StoreFault, Stale
  <1>3. ASSUME NEW t \in Ticks, Reported(t) \/ FirstTry(t) \/ SecondTry(t) \/ TickFault(t)
        PROVE  RowsTyped' /\ OneId'
    <2>1. CASE row' = Advanced(t)
      BY <2>1, ReportedRow, SomeRows, <1>t DEF Advanced
    <2> QED BY <1>3, <2>1, <1>u DEF Reported, FirstTry, SecondTry, TickFault
  <1>4. ASSUME NEW n \in Mutations,
               Enqueued(n) \/ Edit(n) \/ ReadReactions(n) \/ WriteReactions(n) \/ MutationFault(n)
        PROVE  RowsTyped' /\ OneId'
    <2>1. CASE Edit(n)
      BY <2>1, EditedRow, SomeRows, <1>t DEF Edit
    <2>2. CASE WriteReactions(n)
      BY <2>2, ReactedRow, SomeRows, <1>t DEF WriteReactions
    <2> QED BY <1>4, <2>1, <2>2, <1>u DEF Enqueued, ReadReactions, MutationFault
  <1>5. CASE FlagRevoked
    BY <1>5, FlaggedRow, SomeRows, <1>t DEF FlagRevoked
  <1>6. CASE SweepReaps
    BY <1>6, <1>u, FailedRow, OneRow, <1>t DEF SweepReaps, OneId
  <1>7. CASE Revoked \/ RevokeFault \/ SweepFinds \/ SweepFault \/ Retired \/ Crash
    BY <1>7, <1>u DEF Revoked, RevokeFault, SweepFinds, SweepFault, Retired, Crash
  <1> QED BY <1>1, <1>2, <1>3, <1>4, <1>5, <1>6, <1>7 DEF Next

LEMMA PartsStep ==
  ASSUME TypeOK, Next
  PROVE  Parts'
  <1> USE PartsOf
  <1>1. CASE Request
    <2>1. ReqParts' /\ UNCHANGED <<events, mutations, revoke, sweep, missed, news, stops>>
      BY <1>1 DEF Request, Send, Accepted, Returned, Rejected, SaveFailed, Save, Conflict, Merge, Drop,
         RequestFault, Parts, ReqParts, ReqTyped, At, To, events, mutations, history, bounds
    <2>2. mixed' \in BOOLEAN
      BY <1>1 DEF Request, Send, Accepted, Returned, Rejected, SaveFailed, Save, Conflict, Merge, Drop,
         RequestFault, Parts, OtherParts, history
    <2>3. faults' \in 0..MaxFaults
      <3>1. faults' = faults \/ (faults < MaxFaults /\ faults' = faults + 1)
        BY <1>1 DEF Request, Send, Accepted, Returned, Rejected, SaveFailed, Save, Conflict, Merge, Drop,
           RequestFault, bounds
      <3> QED BY <3>1, BoundsTyped DEF Parts, OtherParts
    <2> QED BY <2>1, <2>2, <2>3 DEF Parts, ReqParts, EventParts, MutationParts, OtherParts, events,
       mutations, CopyTyped
  <1>2. ASSUME NEW f \in Fires, Announced(f) \/ Stores(f) \/ StoreFault(f) \/ Stale(f)
        PROVE  Parts'
    <2>1. UNCHANGED <<origin, onWire, req, tick, mutations, revoke, sweep, history, news, stops>>
      BY <1>2 DEF Announced, Stores, StoreFault, Stale, bounds
    <2>2. fire' \in [Fires -> {"none", "hook", "stale", "done"}] /\ told' \in Nat
      BY <1>2 DEF Announced, Stores, StoreFault, Stale, Parts, EventParts
    <2>3. faults' \in 0..MaxFaults
      <3>1. faults' = faults \/ (faults < MaxFaults /\ faults' = faults + 1)
        BY <1>2 DEF Announced, Stores, StoreFault, Stale, bounds
      <3> QED BY <3>1, BoundsTyped DEF Parts, OtherParts
    <2> QED BY <2>1, <2>2, <2>3 DEF Parts, ReqParts, ReqTyped, EventParts, MutationParts, OtherParts,
       mutations, CopyTyped, history
  <1>3. ASSUME NEW t \in Ticks, Reported(t) \/ FirstTry(t) \/ SecondTry(t) \/ TickFault(t)
        PROVE  Parts'
    <2>1. UNCHANGED <<origin, onWire, req, fire, told, mutations, revoke, sweep, mixed, stops>>
      BY <1>3 DEF Reported, FirstTry, SecondTry, TickFault, bounds, history
    <2>2. tick' \in [Ticks -> {"none", "first", "again", "done"}] /\ missed' \in BOOLEAN
      BY <1>3 DEF Reported, FirstTry, SecondTry, TickFault, Unmatched, Parts, EventParts,
         OtherParts, history
    <2>3. faults' \in 0..MaxFaults /\ news' \in 0..MaxNews
      BY <1>3, MessageAssumption DEF Reported, FirstTry, SecondTry, TickFault, News, Parts,
         OtherParts, bounds
    <2> QED BY <2>1, <2>2, <2>3 DEF Parts, ReqParts, ReqTyped, EventParts, MutationParts, OtherParts,
       mutations, CopyTyped
  <1>4. ASSUME NEW n \in Mutations,
               Enqueued(n) \/ Edit(n) \/ ReadReactions(n) \/ WriteReactions(n) \/ MutationFault(n)
        PROVE  Parts'
    <2>1. UNCHANGED <<origin, onWire, req, events, revoke, sweep, history, stops>>
      BY <1>4 DEF Enqueued, Edit, ReadReactions, WriteReactions, MutationFault, bounds
    <2>2. faults' \in 0..MaxFaults /\ news' \in 0..MaxNews
      BY <1>4, MessageAssumption DEF Enqueued, Edit, ReadReactions, WriteReactions, MutationFault,
         News, Parts, OtherParts, bounds
    <2>3. /\ kind' \in [Mutations -> {"none", "edit", "react"}]
          /\ queued' \subseteq Mutations /\ done' \subseteq Mutations
      BY <1>4 DEF Enqueued, Edit, ReadReactions, WriteReactions, MutationFault, Settles, Wrote,
         Parts, MutationParts
    <2>4. CopyTyped'
      <3> DEFINE Copies == [read : BOOLEAN, reacts : SUBSET Mutations, media : BOOLEAN]
      <3>0. \A w \in Writers : [read |-> TRUE, reacts |-> row[w].reacts, media |-> row[w].media] \in Copies
        BY RowFields DEF RowsTyped
      <3>1. NoCopy \in Copies /\ copy \in [Mutations -> Copies]
        BY NoCopyTyped DEF Parts, MutationParts, CopyTyped
      <3>2. copy' = copy \/ \E c \in Copies : copy' = [copy EXCEPT ![n] = c]
        BY <1>4, <3>0, <3>1 DEF Enqueued, Edit, ReadReactions, WriteReactions, MutationFault, Settles
      <3> HIDE DEF Copies
      <3>3. copy' \in [Mutations -> Copies]
        BY <3>1, <3>2
      <3> QED BY <3>3 DEF CopyTyped, Copies
    <2> QED BY <2>1, <2>2, <2>3, <2>4 DEF Parts, ReqParts, ReqTyped, EventParts, MutationParts,
       OtherParts, events, history
  <1>5. CASE Revoked \/ FlagRevoked \/ RevokeFault \/ SweepFinds \/ SweepReaps \/ SweepFault
    <2>1. UNCHANGED <<origin, onWire, req, events, mutations, history, stops>>
      BY <1>5 DEF Revoked, FlagRevoked, RevokeFault, SweepFinds, SweepReaps, SweepFault, bounds
    <2>2. faults' \in 0..MaxFaults /\ news' \in 0..MaxNews
      BY <1>5, MessageAssumption DEF Revoked, FlagRevoked, RevokeFault, SweepFinds, SweepReaps,
         SweepFault, News, Parts, OtherParts, bounds
    <2>3. revoke' \in {"none", "issued", "done"} /\ sweep' \in BOOLEAN
      BY <1>5 DEF Revoked, FlagRevoked, RevokeFault, SweepFinds, SweepReaps, SweepFault, Parts, OtherParts
    <2> QED BY <2>1, <2>2, <2>3 DEF Parts, ReqParts, ReqTyped, EventParts, MutationParts, OtherParts,
       events, mutations, CopyTyped, history
  <1>6. CASE Retired
    BY <1>6, MessageAssumption DEF Retired, Parts, ReqParts, ReqTyped, EventParts, MutationParts,
       OtherParts, mutations, CopyTyped, history
  <1>7. CASE Crash
    <2>2. ReqTyped' /\ CopyTyped'
      BY <1>7, NoCopyTyped DEF Crash, Parts, ReqParts, ReqTyped, CopyTyped
    <2>3. fire' \in [Fires -> {"none", "hook", "stale", "done"}] /\ tick' \in [Ticks -> {"none", "first", "again", "done"}]
      BY <1>7 DEF Crash, Parts, EventParts
    <2>4. stops' \in 0..MaxStops
      BY <1>7, BoundsTyped DEF Crash, Parts, OtherParts
    <2>5. OtherParts'
      BY <1>7, <2>4 DEF Crash, Parts, OtherParts, history
    <2>6. ReqParts' /\ EventParts' /\ MutationParts'
      BY <1>7, <2>2, <2>3 DEF Crash, Parts, ReqParts, EventParts, MutationParts
    <2> QED BY <2>5, <2>6 DEF Parts
  <1> QED BY <1>1, <1>2, <1>3, <1>4, <1>5, <1>6, <1>7 DEF Next

\* Type correctness, with at most one row under the message's id.
THEOREM TypeCorrect == Spec => []TypeOK
  <1>1. ASSUME TypeOK, [Next]_vars PROVE RowsTyped' /\ OneId' /\ Parts'
    <2>1. ASSUME UNCHANGED vars PROVE RowsTyped' /\ OneId' /\ Parts'
      BY <1>1, <2>1, PartsOf DEF RowsTyped, OneId, Parts, ReqParts, ReqTyped, EventParts, MutationParts,
         CopyTyped, OtherParts, vars, events, mutations, history, bounds
    <2> QED BY <1>1, <2>1, RowsStep, PartsStep
  <1> QED BY <1>1, TypeInit, PartsOf, PTL DEF Spec

-----------------------------------------------------------------------------
(* The inductive invariants *)

\* Whose rows there are, by where their writers are.
RowOfFire(f) == /\ fire[f] # "done" => row[f].status = "none"
                /\ row[f].id <=> row[f].status # "none"
RowOfRest == /\ row[Rest].id => row[Rest].status # "none"
             /\ At("idle") => row[Rest].status = "none" /\ ~req.media /\ ~req.id
             /\ req.at \notin {"idle", "ended"} =>
                  origin = "api" /\ ~row[Rest].id /\ row[Rest].status \in {"PENDING", "FAILED"}
Shown == \A w \in Writers : row[w].id => row[w].status \in {"SENT"} \cup Came
\* What cannot be before WhatsApp has the message.
Unsent == /\ ~Known /\ queued = {} /\ done = {}
          /\ \A f \in Fires : fire[f] = "none"
Wired == /\ origin # "api" => At("idle") /\ onWire
         /\ ~onWire => Unsent
         /\ req.id \/ req.at \in {"saving", "merging", "dropping"} => onWire
Placed == /\ \A f \in Fires : RowOfFire(f)
          /\ RowOfRest /\ Shown /\ Wired

\* Without a fault or a stop, what each writer leaves behind.
Settled ==
  Calm =>
    /\ At("failing") => ~onWire
    /\ req.at \in {"merging", "dropping"} => req.id /\ Known
    /\ At("ended") /\ ~onWire => row[Rest].status = "FAILED"
    /\ At("ended") /\ req.id => row[Rest].id \/ (row[Rest].status = "none" /\ Known)
    /\ \A f \in Fires : fire[f] # "stale" /\ (fire[f] = "done" => Known)

\* The reports, while a row is sure to take each.
Climbed ==
  Calm /\ ~missed =>
    /\ ~Known => Came = {}
    /\ ~mixed => \A w \in Writers : row[w].id =>
         /\ row[w].status = "SENT" => Came = {}
         /\ "READ" \in Came => row[w].status \in {"READ", "FAILED"}

\* The queue: what is written came before what waits, and a reaction in flight is first.
Waiting(n) == /\ n \in queued /\ kind[n] = "react" /\ Known
              /\ \A m \in queued : n <= m
Chained == /\ \A m, n \in Mutations : kind[m] = "none" /\ m < n => kind[n] = "none"
           /\ \A n \in queued \cup done : kind[n] # "none"
           /\ \A n \in done, m \in queued : n < m
           /\ \A n \in Mutations : copy[n].read => Waiting(n)
           /\ done # {} => Known
Carried == ~mixed => \A n \in Mutations : copy[n].read =>
             \A m \in done : kind[m] = "react" => m \in copy[n].reacts

\* The media of a send, once the request or its merge has written it.
Saved == row[Rest].id \/ req.at \in {"dropping", "ended"}
MediaKept ==
  Calm /\ req.media /\ ~mixed /\ req.id /\ Saved =>
    /\ \A w \in Writers : row[w].id => row[w].media
    /\ \A n \in Mutations : copy[n].read => copy[n].media

-----------------------------------------------------------------------------
(* What a step does to the rows: nothing, a row without the id, the row that  *)
(* gets the id, or the row that has it                                        *)

Same == row' = row
Aside == /\ \A f \in Fires : row'[f] = row[f]
         /\ ~row[Rest].id /\ ~row'[Rest].id
New(w) == /\ ~Known /\ row'[w].id /\ row'[w].status = "SENT"
          /\ \A v \in Writers : v # w => row'[v] = row[v]
Held == \A w \in Writers : /\ row'[w].id = row[w].id
                           /\ ~row[w].id => row'[w] = row[w]

LEMMA AsideKnown == ASSUME TypeOK, Same \/ Aside \/ Held PROVE Known' <=> Known
  BY Writing DEF Same, Aside, Held, Known, Writers

LEMMA NewKnown == ASSUME TypeOK, NEW w \in Writers, New(w) PROVE Known' /\ \A v \in Writers : row'[v].id <=> v = w
  BY Writing DEF New, Known

LEMMA SendRows == ASSUME TypeOK, Placed, Send
                  PROVE  Aside /\ row'[Rest].status = "PENDING"
  BY PendingRow, Writing, PartsOf DEF Send, Aside, RowsTyped, Placed, RowOfRest, RowTypes

LEMMA FailRows == ASSUME TypeOK, Placed, SaveFailed
                  PROVE  Aside /\ row'[Rest].status = "FAILED"
  BY FailedRow, Writing, PartsOf DEF SaveFailed, Aside, RowsTyped, Placed, RowOfRest, At

LEMMA SaveRows ==
  ASSUME TypeOK, Placed, Save
  PROVE  /\ row'[Rest].status = "SENT" /\ row'[Rest].media = req.media /\ ~row[Rest].id
         /\ IF req.id THEN New(Rest) ELSE Aside
  BY SentRow, Writing, PartsOf DEF Save, Aside, New, RowsTyped, Placed, RowOfRest, At

LEMMA DropRows == ASSUME TypeOK, Placed, Drop
                  PROVE  Aside /\ row'[Rest].status = "none"
  BY NoRowTyped, Writing, PartsOf DEF Drop, Aside, RowsTyped, Placed, RowOfRest, At

LEMMA ReapRows ==
  ASSUME TypeOK, Placed, SweepReaps
  PROVE  \/ Same
         \/ Aside /\ row[Rest].status = "PENDING" /\ row'[Rest].status = "FAILED"
  <1>1. CASE ~Reapable(row[Rest])
    BY <1>1 DEF SweepReaps, Same
  <1>2. CASE Reapable(row[Rest])
    <2>1. ~row[Rest].id
      BY <1>2, Writing, MessageAssumption DEF Reapable, Placed, Shown, Came
    <2> QED BY <1>2, <2>1, FailedRow, Writing, PartsOf DEF SweepReaps, Reapable, Aside, RowsTyped
  <1> QED BY <1>1, <1>2

LEMMA MergeRows ==
  ASSUME TypeOK, Merge
  PROVE  /\ Held
         /\ \A w \in Writers : row[w].id =>
              /\ row'[w].status = "SENT" /\ row'[w].body = row[w].body
              /\ row'[w].media = (row[w].media \/ req.media)
              /\ row'[w].reacts \subseteq row[w].reacts
  BY MergedRow, PartsOf DEF Merge, Held, RowsTyped

LEMMA StoreRows ==
  ASSUME TypeOK, NEW f \in Fires, Stores(f)
  PROVE  \/ Known /\ Same /\ told' = (IF DuplicateDispatches THEN told + 1 ELSE told)
         \/ New(f) /\ told' = told + 1
  BY AnnouncedRow, Writing, PartsOf DEF Stores, Same, New, RowsTyped

LEMMA TryRows ==
  ASSUME TypeOK, NEW t \in Ticks, row' = Advanced(t)
  PROVE  /\ Held
         /\ \A w \in Writers :
              row'[w].body = row[w].body /\ row'[w].media = row[w].media /\ row'[w].reacts = row[w].reacts
         /\ \A w \in Writers : row'[w].status = IF Advances(t, w) THEN t ELSE row[w].status
  BY ReportedRow, PartsOf DEF Advanced, Advances, Held, RowsTyped

KeepsStatus == Held /\ \A w \in Writers : row'[w].status = row[w].status

LEMMA EditRows ==
  ASSUME TypeOK, NEW n \in Mutations, Edit(n)
  PROVE  /\ KeepsStatus
         /\ \A w \in Writers : row'[w].media = row[w].media /\ row'[w].reacts = row[w].reacts
         /\ \A w \in Writers : row[w].id => row'[w].body = n
  BY EditedRow, PartsOf DEF Edit, KeepsStatus, Held, RowsTyped

LEMMA ReactRows ==
  ASSUME TypeOK, NEW n \in Mutations, WriteReactions(n)
  PROVE  /\ KeepsStatus
         /\ \A w \in Writers : row'[w].body = row[w].body
         /\ \A w \in Writers : row[w].id =>
              row'[w].media = copy[n].media /\ row'[w].reacts = copy[n].reacts \cup {n}
  BY ReactedRow, PartsOf DEF WriteReactions, KeepsStatus, Held, RowsTyped

LEMMA FlagRows ==
  ASSUME TypeOK, FlagRevoked
  PROVE  KeepsStatus /\ \A w \in Writers : row'[w].media = row[w].media /\ row'[w].reacts = row[w].reacts
  BY FlaggedRow, PartsOf DEF FlagRevoked, KeepsStatus, Held, RowsTyped

-----------------------------------------------------------------------------
(* Placed *)

LEMMA Onward ==
  ASSUME TypeOK, Next
  PROVE  /\ \A f \in Fires : fire[f] = "done" => fire'[f] = "done"
         /\ \A t \in Ticks : tick[t] = "done" => tick'[t] = "done"
         /\ Came \subseteq Came'
         /\ onWire => onWire'
         /\ origin' = origin
  <1>1. ASSUME Request PROVE UNCHANGED <<fire, tick, origin>> /\ (onWire => onWire')
    <2>1. CASE Accepted
      <3>1. onWire' /\ UNCHANGED <<origin, events>>
        BY <2>1 DEF Accepted
      <3> QED BY <3>1 DEF events
    <2>2. CASE Send \/ Returned \/ Rejected \/ SaveFailed \/ Save \/ Conflict \/ Merge \/ Drop \/ RequestFault
      <3>1. UNCHANGED <<origin, onWire, events>>
        BY <2>2 DEF Send, Returned, Rejected, SaveFailed, Save, Conflict, Merge, Drop, RequestFault
      <3> QED BY <3>1 DEF events
    <2> QED BY <1>1, <2>1, <2>2 DEF Request
  <1>2. ASSUME NEW f \in Fires, Announced(f) \/ Stores(f) \/ StoreFault(f) \/ Stale(f)
        PROVE  /\ \A g \in Fires : fire[g] = "done" => fire'[g] = "done"
               /\ UNCHANGED <<tick, onWire, origin>>
    BY <1>2, PartsOf DEF Announced, Stores, StoreFault, Stale, Parts, EventParts
  <1>3. ASSUME NEW t \in Ticks, Reported(t) \/ FirstTry(t) \/ SecondTry(t) \/ TickFault(t)
        PROVE  /\ \A u \in Ticks : tick[u] = "done" => tick'[u] = "done"
               /\ UNCHANGED <<fire, onWire, origin>>
    BY <1>3, PartsOf DEF Reported, FirstTry, SecondTry, TickFault, Parts, EventParts
  <1>4. ASSUME NEW n \in Mutations,
               Enqueued(n) \/ Edit(n) \/ ReadReactions(n) \/ WriteReactions(n) \/ MutationFault(n)
        PROVE  UNCHANGED <<fire, tick, onWire, origin>>
    BY <1>4 DEF Enqueued, Edit, ReadReactions, WriteReactions, MutationFault, events
  <1>5. CASE Revoked \/ FlagRevoked \/ RevokeFault \/ SweepFinds \/ SweepReaps \/ SweepFault
    BY <1>5 DEF Revoked, FlagRevoked, RevokeFault, SweepFinds, SweepReaps, SweepFault, events, Came
  <1>6. ASSUME Retired \/ Crash
        PROVE  /\ \A f \in Fires : fire[f] = "done" => fire'[f] = "done"
               /\ \A t \in Ticks : tick[t] = "done" => tick'[t] = "done"
               /\ UNCHANGED <<onWire, origin>>
    BY <1>6, PartsOf DEF Retired, Crash, Parts, EventParts
  <1> QED BY <1>1, <1>2, <1>3, <1>4, <1>5, <1>6 DEF Next, Came

\* The rows of the message take only the reports that came.
HeldShown == Held /\ \A w \in Writers : row[w].id => row'[w].status \in {row[w].status, "SENT"} \cup Came'

LEMMA TryCases ==
  ASSUME TypeOK, NEW t \in Ticks, Reported(t) \/ FirstTry(t) \/ SecondTry(t) \/ TickFault(t)
  PROVE  Same \/ HeldShown
  <1>1. CASE FirstTry(t) \/ SecondTry(t)
    <2>1. row' = Advanced(t)
      BY <1>1 DEF FirstTry, SecondTry
    <2>2. Affected(t) => tick'[t] = "done"
      BY <1>1, PartsOf DEF FirstTry, SecondTry, Parts, EventParts
    <2>3. \A w \in Writers : row'[w].status = row[w].status \/ (row'[w].status = t /\ t \in Came')
      BY <2>1, <2>2, TryRows DEF Affected, Came
    <2> QED BY <2>1, <2>3, TryRows DEF HeldShown
  <1> QED BY <1>1 DEF Reported, TickFault, Same

LEMMA MutationCases ==
  ASSUME TypeOK, NEW n \in Mutations,
         Enqueued(n) \/ Edit(n) \/ ReadReactions(n) \/ WriteReactions(n) \/ MutationFault(n)
  PROVE  Same \/ HeldShown
  <1>1. CASE Edit(n) \/ WriteReactions(n)
    BY <1>1, EditRows, ReactRows DEF KeepsStatus, HeldShown
  <1> QED BY <1>1 DEF Enqueued, ReadReactions, MutationFault, Same

LEMMA RowKinds ==
  ASSUME TypeOK, Placed, Next
  PROVE  \/ Same \/ Aside \/ Merge
         \/ KeepsStatus /\ (FlagRevoked \/ \E n \in Mutations : Edit(n) \/ WriteReactions(n))
         \/ \E t \in Ticks : FirstTry(t) \/ SecondTry(t)
         \/ New(Rest) /\ Save
         \/ \E f \in Fires : New(f) /\ Stores(f)
  <1>1. CASE Request
    <2>1. CASE Accepted \/ Returned \/ Rejected \/ Conflict \/ RequestFault
      BY <2>1 DEF Accepted, Returned, Rejected, Conflict, RequestFault, Same
    <2> QED BY <1>1, <2>1, SendRows, FailRows, SaveRows, DropRows DEF Request
  <1>2. ASSUME NEW f \in Fires, Announced(f) \/ Stores(f) \/ StoreFault(f) \/ Stale(f)
        PROVE  Same \/ (New(f) /\ Stores(f))
    <2>1. CASE Stores(f)
      BY <2>1, StoreRows
    <2> QED BY <1>2, <2>1 DEF Announced, StoreFault, Stale, Same
  <1>3. ASSUME NEW t \in Ticks, Reported(t) \/ FirstTry(t) \/ SecondTry(t) \/ TickFault(t)
        PROVE  Same \/ FirstTry(t) \/ SecondTry(t)
    BY <1>3 DEF Reported, TickFault, Same
  <1>4. ASSUME NEW n \in Mutations,
               Enqueued(n) \/ Edit(n) \/ ReadReactions(n) \/ WriteReactions(n) \/ MutationFault(n)
        PROVE  Same \/ (KeepsStatus /\ (Edit(n) \/ WriteReactions(n)))
    BY <1>4, EditRows, ReactRows DEF Enqueued, ReadReactions, MutationFault, Same
  <1>5. CASE Revoked \/ RevokeFault \/ SweepFinds \/ SweepFault \/ Retired \/ Crash
    BY <1>5 DEF Revoked, RevokeFault, SweepFinds, SweepFault, Retired, Crash, Same
  <1> QED BY <1>1, <1>2, <1>3, <1>4, <1>5, FlagRows, ReapRows DEF Next

LEMMA RowCases ==
  ASSUME TypeOK, Placed, Next
  PROVE  \/ Same \/ Aside \/ HeldShown
         \/ New(Rest) /\ Save
         \/ \E f \in Fires : New(f) /\ Stores(f)
  <1>1. Merge => HeldShown
    BY MergeRows DEF HeldShown
  <1>2. KeepsStatus => HeldShown
    BY DEF KeepsStatus, HeldShown
  <1> QED BY <1>1, <1>2, RowKinds, TryCases

LEMMA StoresFire == ASSUME TypeOK, NEW f \in Fires, Stores(f) PROVE fire'[f] = "done"
  BY PartsOf DEF Stores, Parts, EventParts

LEMMA CameTicks == ASSUME TypeOK PROVE Came \subseteq {"DELIVERED", "READ", "FAILED"} /\ Came' \subseteq {"DELIVERED", "READ", "FAILED"}
  BY MessageAssumption DEF Came

LEMMA FireRowStep ==
  ASSUME TypeOK, Placed, Next, NEW f \in Fires
  PROVE  RowOfFire(f)'
  <1>0. RowOfFire(f) /\ f \in Writers /\ f # Rest
    BY Writing DEF Placed
  <1>1. CASE Same \/ Aside
    BY <1>0, <1>1, Onward DEF Same, Aside, RowOfFire
  <1>2. CASE HeldShown
    BY <1>0, <1>2, Onward, CameTicks DEF HeldShown, Held, RowOfFire
  <1>3. CASE New(Rest)
    BY <1>0, <1>3, Onward DEF New, RowOfFire
  <1>4. ASSUME NEW g \in Fires, New(g), Stores(g) PROVE RowOfFire(f)'
    BY <1>0, <1>4, Onward, StoresFire, Writing DEF New, RowOfFire
  <1> QED BY <1>1, <1>2, <1>3, <1>4, RowCases

LEMMA ShownStep ==
  ASSUME TypeOK, Placed, Next
  PROVE  Shown'
  <1> SUFFICES ASSUME NEW w \in Writers, row'[w].id PROVE row'[w].status \in {"SENT"} \cup Came'
    BY DEF Shown, Writers
  <1>0. row[w].id => row[w].status \in {"SENT"} \cup Came'
    BY Onward DEF Placed, Shown
  <1>1. CASE Same \/ Aside
    BY <1>0, <1>1 DEF Same, Aside, Writers
  <1>2. CASE HeldShown
    BY <1>0, <1>2 DEF HeldShown, Held
  <1>3. ASSUME NEW v \in Writers, New(v) PROVE row'[w].status \in {"SENT"} \cup Came'
    BY <1>0, <1>3 DEF New
  <1> QED BY <1>1, <1>2, <1>3, RowCases, Writing

\* The steps that touch neither the request nor an announcement.
Apart == UNCHANGED <<origin, onWire, req, fire, told>> /\ (Same \/ HeldShown)

LEMMA StepKinds ==
  ASSUME TypeOK, Placed, Next
  PROVE  \/ Request
         \/ \E f \in Fires : Announced(f) \/ Stores(f) \/ StoreFault(f) \/ Stale(f)
         \/ Crash \/ Retired \/ SweepReaps \/ Apart
  <1>1. ASSUME NEW t \in Ticks, Reported(t) \/ FirstTry(t) \/ SecondTry(t) \/ TickFault(t)
        PROVE  Apart
    BY <1>1, TryCases DEF Reported, FirstTry, SecondTry, TickFault, Apart
  <1>2. ASSUME NEW n \in Mutations,
               Enqueued(n) \/ Edit(n) \/ ReadReactions(n) \/ WriteReactions(n) \/ MutationFault(n)
        PROVE  Apart
    BY <1>2, MutationCases DEF Enqueued, Edit, ReadReactions, WriteReactions, MutationFault, Apart, events
  <1>3. CASE FlagRevoked
    BY <1>3, FlagRows DEF FlagRevoked, KeepsStatus, HeldShown, Apart, events
  <1>4. CASE Revoked \/ RevokeFault \/ SweepFinds \/ SweepFault
    BY <1>4 DEF Revoked, RevokeFault, SweepFinds, SweepFault, Same, Apart, events
  <1> QED BY <1>1, <1>2, <1>3, <1>4 DEF Next

LEMMA ReqKinds ==
  ASSUME TypeOK, Placed, Next
  PROVE  Request \/ Crash \/ req' = req
  BY StepKinds DEF Announced, Stores, StoreFault, Stale, SweepReaps, Retired, Apart

LEMMA RestStep ==
  ASSUME TypeOK, Placed, Next
  PROVE  RowOfRest'
  <1>0. RowOfRest /\ Rest \in Writers /\ ReqTyped
    BY Writing, PartsOf DEF Placed, Parts, ReqParts
  <1>1. CASE Request
    <2>1. CASE Send
      <3>1. row'[Rest].status = "PENDING" /\ ~row'[Rest].id /\ origin' = "api" /\ req'.at = "sending"
        BY <2>1, <1>0, SendRows DEF Send, Aside, ReqTyped
      <3> QED BY <3>1 DEF RowOfRest, At
    <2>2. CASE SaveFailed
      BY <2>2, <1>0, FailRows DEF SaveFailed, To, At, Aside, RowOfRest, ReqTyped
    <2>3. CASE Save
      BY <2>3, <1>0, SaveRows DEF Save, To, At, RowOfRest, ReqTyped
    <2>4. CASE Merge
      BY <2>4, <1>0, MergeRows DEF Merge, To, At, Held, RowOfRest, ReqTyped
    <2>5. CASE Drop
      BY <2>5, <1>0, DropRows DEF Drop, To, At, Aside, RowOfRest, ReqTyped
    <2>6. CASE Accepted \/ Returned \/ Rejected \/ Conflict
      BY <2>6, <1>0 DEF Accepted, Returned, Rejected, Conflict, To, At, RowOfRest, ReqTyped
    <2>7. CASE RequestFault
      BY <2>7, <1>0 DEF RequestFault, To, At, RowOfRest, ReqTyped
    <2> QED BY <1>1, <2>1, <2>2, <2>3, <2>4, <2>5, <2>6, <2>7 DEF Request
  <1>2. CASE Crash
    BY <1>0, <1>2 DEF Crash, At, RowOfRest, ReqTyped
  <1>3. CASE SweepReaps
    <2>1. Same \/ (Aside /\ row[Rest].status = "PENDING" /\ row'[Rest].status = "FAILED")
      BY <1>3, ReapRows
    <2> QED BY <1>0, <1>3, <2>1 DEF SweepReaps, Same, Aside, RowOfRest, At
  <1>4. CASE Apart \/ Retired
    BY <1>0, <1>4, CameTicks DEF Apart, Retired, Same, HeldShown, Held, RowOfRest, At
  <1>5. ASSUME NEW f \in Fires, Announced(f) \/ Stores(f) \/ StoreFault(f) \/ Stale(f)
        PROVE  RowOfRest'
    <2>1. row'[Rest] = row[Rest] /\ UNCHANGED <<req, origin>>
      BY <1>5, <1>0, StoreRows, Writing DEF Announced, Stores, StoreFault, Stale, Same, New
    <2> QED BY <1>0, <2>1 DEF RowOfRest, At
  <1> QED BY <1>1, <1>2, <1>3, <1>4, <1>5, StepKinds

LEMMA WiredStep ==
  ASSUME TypeOK, Placed, Next
  PROVE  Wired'
  <1>0. Wired /\ RowOfRest /\ ReqTyped
    BY PartsOf DEF Placed, Parts, ReqParts
  <1>1. ASSUME origin' # "api" PROVE At("idle")' /\ onWire'
    <2>1. origin # "api" /\ At("idle") /\ onWire /\ onWire'
      BY <1>0, <1>1, Onward DEF Wired
    <2>2. CASE Request
      BY <2>1, <2>2 DEF Request, Send, Accepted, Returned, Rejected, SaveFailed, Save, Conflict,
         Merge, Drop,
         RequestFault, At
    <2>3. CASE Crash
      BY <2>1, <2>3, <1>0 DEF Crash, At, ReqTyped
    <2>4. CASE req' = req
      BY <2>1, <2>4 DEF At
    <2> QED BY <2>2, <2>3, <2>4, ReqKinds
  <1>2. ASSUME ~onWire' PROVE Unsent'
    <2>1. ~onWire /\ Unsent /\ ~req.id /\ req.at \notin {"saving", "merging", "dropping"}
      BY <1>0, <1>2, Onward DEF Wired
    <2>2. ~Known'
      BY <2>1, RowCases, AsideKnown DEF HeldShown, Save, Stores, Unsent, At
    <2>3. /\ \A f \in Fires : fire'[f] = "none"
          /\ queued' = {} /\ done' = {}
      <3>1. CASE Request
        BY <2>1, <3>1 DEF Request, Send, Accepted, Returned, Rejected, SaveFailed, Save, Conflict,
           Merge, Drop,
           RequestFault, events, mutations, Unsent
      <3>2. ASSUME NEW f \in Fires, Announced(f) \/ Stores(f) \/ StoreFault(f) \/ Stale(f)
            PROVE  FALSE
        BY <2>1, <3>2 DEF Announced, Stores, StoreFault, Stale, Unsent
      <3>3. ASSUME NEW t \in Ticks, Reported(t) \/ FirstTry(t) \/ SecondTry(t) \/ TickFault(t)
            PROVE  UNCHANGED <<fire, queued, done>>
        BY <3>3 DEF Reported, FirstTry, SecondTry, TickFault, mutations
      <3>4. ASSUME NEW n \in Mutations,
                   Enqueued(n) \/ Edit(n) \/ ReadReactions(n) \/ WriteReactions(n) \/ MutationFault(n)
            PROVE  UNCHANGED fire /\ queued' \subseteq queued /\ (done' = done \/ Known)
        BY <2>1, <3>4 DEF Enqueued, Edit, ReadReactions, WriteReactions, MutationFault, events,
           Settles, Wrote
      <3>5. CASE Revoked \/ FlagRevoked \/ RevokeFault \/ SweepFinds \/ SweepReaps \/ SweepFault
        BY <2>1, <3>5 DEF Revoked, FlagRevoked, RevokeFault, SweepFinds, SweepReaps, SweepFault,
           events, mutations, Unsent
      <3>6. CASE Retired \/ Crash
        BY <2>1, <3>6, PartsOf DEF Retired, Crash, mutations, Unsent, Parts, EventParts
      <3> QED BY <2>1, <3>1, <3>2, <3>3, <3>4, <3>5, <3>6 DEF Next, Unsent
    <2> QED BY <2>2, <2>3 DEF Unsent
  <1>3. ASSUME req'.id \/ req'.at \in {"saving", "merging", "dropping"} PROVE onWire'
    <2>1. onWire => onWire'
      BY Onward
    <2>2. CASE Request
      BY <1>3, <2>1, <2>2, <1>0 DEF Request, Send, Accepted, Returned, Rejected, SaveFailed, Save,
         Conflict, Merge,
         Drop, RequestFault, At, To, ReqTyped, Wired, RowOfRest
    <2>3. CASE Crash
      BY <1>3, <2>1, <2>3, <1>0 DEF Crash, ReqTyped, Wired
    <2>4. CASE req' = req
      BY <1>3, <2>1, <2>4, <1>0 DEF Wired
    <2> QED BY <2>2, <2>3, <2>4, ReqKinds
  <1> QED BY <1>1, <1>2, <1>3 DEF Wired

LEMMA PlacedInit == Init => Placed
  <1> SUFFICES ASSUME Init PROVE Placed
    OBVIOUS
  <1>1. \A w \in Writers : row[w].status = "none" /\ ~row[w].id
    BY NoRowTyped DEF Init
  <1>2. At("idle") /\ ~req.media /\ ~req.id
    BY DEF Init, At
  <1>3. onWire <=> origin # "api"
    BY DEF Init
  <1>4. Unsent
    BY <1>1 DEF Init, Unsent, Known
  <1> QED BY <1>1, <1>2, <1>3, <1>4, Writing DEF Placed, RowOfFire, RowOfRest, Shown, Wired, At

LEMMA PlacedStep == ASSUME TypeOK, Placed, [Next]_vars PROVE Placed'
  <1>1. CASE Next
    BY <1>1, FireRowStep, RestStep, ShownStep, WiredStep DEF Placed
  <1>2. CASE UNCHANGED vars
    BY <1>2 DEF vars, events, mutations, Placed, RowOfFire, RowOfRest, Shown, Wired, Unsent, Known, At, Came
  <1> QED BY <1>1, <1>2

\* Rows are only where their writers have written them, and nothing precedes the message.
THEOREM AlwaysPlaced == Spec => [](TypeOK /\ Placed)
  BY TypeCorrect, PlacedInit, PlacedStep, PTL DEF Spec
-----------------------------------------------------------------------------
(* Settled *)

\* The index keeps the message's row: nothing takes the id off it again.
LEMMA KnownStays ==
  ASSUME TypeOK, Placed, Next, Known
  PROVE  Known'
  BY RowCases, AsideKnown, NewKnown, Writing DEF HeldShown

LEMMA CountSteps ==
  ASSUME Next
  PROVE  faults' \in {faults, faults + 1} /\ stops' \in {stops, stops + 1}
  <1>1. CASE Request
    BY <1>1 DEF Request, Send, Accepted, Returned, Rejected, SaveFailed, Save, Conflict, Merge, Drop,
       RequestFault, bounds
  <1>2. ASSUME NEW f \in Fires, Announced(f) \/ Stores(f) \/ StoreFault(f) \/ Stale(f)
        PROVE  faults' \in {faults, faults + 1} /\ stops' = stops
    BY <1>2 DEF Announced, Stores, StoreFault, Stale, bounds
  <1>3. ASSUME NEW t \in Ticks, Reported(t) \/ FirstTry(t) \/ SecondTry(t) \/ TickFault(t)
        PROVE  faults' \in {faults, faults + 1} /\ stops' = stops
    BY <1>3 DEF Reported, FirstTry, SecondTry, TickFault, bounds
  <1>4. ASSUME NEW n \in Mutations,
               Enqueued(n) \/ Edit(n) \/ ReadReactions(n) \/ WriteReactions(n) \/ MutationFault(n)
        PROVE  faults' \in {faults, faults + 1} /\ stops' = stops
    BY <1>4 DEF Enqueued, Edit, ReadReactions, WriteReactions, MutationFault, bounds
  <1>5. CASE Revoked \/ FlagRevoked \/ RevokeFault \/ SweepFinds \/ SweepReaps \/ SweepFault
    BY <1>5 DEF Revoked, FlagRevoked, RevokeFault, SweepFinds, SweepReaps, SweepFault, bounds
  <1>6. CASE Retired \/ Crash
    BY <1>6 DEF Retired, Crash
  <1> QED BY <1>1, <1>2, <1>3, <1>4, <1>5, <1>6 DEF Next

LEMMA CalmBefore ==
  ASSUME TypeOK, Next, Calm'
  PROVE  /\ Calm /\ faults' = faults /\ stops' = stops
         /\ ~Crash /\ ~Retired /\ ~RequestFault /\ ~(Rejected /\ onWire)
         /\ \A f \in Fires : ~StoreFault(f)
         /\ \A t \in Ticks : ~TickFault(t)
  <1>0. faults \in Nat /\ stops \in Nat
    BY PartsOf, BoundsTyped DEF Parts, OtherParts
  <1>1. faults' \in {faults, faults + 1} /\ stops' \in {stops, stops + 1}
    BY CountSteps
  <1>2. Calm /\ faults' = faults /\ stops' = stops
    BY <1>0, <1>1 DEF Calm
  <1>3. \A k \in Nat : k + 1 # k
    OBVIOUS
  <1>4. ~Crash /\ ~Retired /\ ~RequestFault /\ ~(Rejected /\ onWire)
    BY <1>0, <1>2, <1>3 DEF Crash, Retired, RequestFault, Rejected
  <1>5. \A f \in Fires : ~StoreFault(f)
    BY <1>0, <1>2, <1>3 DEF StoreFault
  <1>6. \A t \in Ticks : ~TickFault(t)
    BY <1>0, <1>2, <1>3 DEF TickFault
  <1> QED BY <1>2, <1>4, <1>5, <1>6

\* Settled without its premise, in two parts.
SettledReq ==
  /\ At("failing") => ~onWire
  /\ req.at \in {"merging", "dropping"} => req.id /\ Known
  /\ At("ended") /\ ~onWire => row[Rest].status = "FAILED"
  /\ At("ended") /\ req.id => row[Rest].id \/ (row[Rest].status = "none" /\ Known)
SettledFires == \A f \in Fires : fire[f] # "stale" /\ (fire[f] = "done" => Known)

LEMMA SettledReqStep ==
  ASSUME TypeOK, Placed, SettledReq, Next, Calm'
  PROVE  SettledReq'
  <1>0. /\ RowOfRest /\ Wired /\ ReqTyped /\ Rest \in Writers /\ (Known => Known')
        /\ ~Crash /\ ~Retired /\ ~RequestFault /\ ~(Rejected /\ onWire)
    BY PartsOf, KnownStays, CalmBefore, Writing DEF Placed, Parts, ReqParts
  <1>1. CASE Request
    <2>1. CASE Send
      <3>1. req'.at = "sending"
        BY <2>1, <1>0 DEF Send, ReqTyped
      <3> QED BY <3>1 DEF SettledReq, At
    <2>2. CASE SaveFailed
      BY <2>2, <1>0, FailRows DEF SaveFailed, To, At, SettledReq, ReqTyped, Wired
    <2>3. CASE Save
      BY <2>3, <1>0, SaveRows DEF Save, To, At, SettledReq, ReqTyped, Wired, New
    <2>4. CASE Merge
      BY <2>4, <1>0 DEF Merge, To, At, SettledReq, ReqTyped
    <2>5. CASE Drop
      BY <2>5, <1>0, DropRows DEF Drop, To, At, SettledReq, ReqTyped, Wired
    <2>6. CASE Accepted \/ Returned \/ Conflict
      BY <2>6, <1>0 DEF Accepted, Returned, Conflict, To, At, SettledReq, ReqTyped
    <2>7. CASE Rejected
      BY <2>7, <1>0 DEF Rejected, To, At, SettledReq, ReqTyped
    <2> QED BY <1>0, <1>1, <2>1, <2>2, <2>3, <2>4, <2>5, <2>6, <2>7 DEF Request
  <1>2. CASE SweepReaps
    <2>1. Same \/ (Aside /\ row[Rest].status = "PENDING" /\ row'[Rest].status = "FAILED")
      BY <1>2, ReapRows
    <2> QED BY <1>0, <1>2, <2>1 DEF SweepReaps, Same, Aside, SettledReq, At
  <1>3. CASE Apart
    <2>1. /\ row'[Rest].id = row[Rest].id
          /\ ~row[Rest].id => row'[Rest] = row[Rest]
          /\ ~onWire => ~row[Rest].id
      BY <1>0, <1>3 DEF Apart, Same, HeldShown, Held, Wired, Unsent, Known
    <2> QED BY <1>0, <1>3, <2>1 DEF Apart, SettledReq, At
  <1>4. ASSUME NEW f \in Fires, Announced(f) \/ Stores(f) \/ StoreFault(f) \/ Stale(f)
        PROVE  SettledReq'
    <2>1. row'[Rest] = row[Rest] /\ UNCHANGED <<req, onWire>>
      BY <1>4, <1>0, StoreRows, Writing DEF Announced, Stores, StoreFault, Stale, Same, New
    <2> QED BY <1>0, <2>1 DEF SettledReq, At
  <1> QED BY <1>0, <1>1, <1>2, <1>3, <1>4, StepKinds

LEMMA SettledFiresStep ==
  ASSUME TypeOK, Placed, SettledFires, Next, Calm'
  PROVE  SettledFires'
  <1>0. (Known => Known') /\ ~Crash /\ ~Retired /\ \A f \in Fires : ~StoreFault(f)
    BY KnownStays, CalmBefore
  <1>1. CASE fire' = fire
    BY <1>0, <1>1 DEF SettledFires
  <1>2. ASSUME NEW f \in Fires, Announced(f) \/ Stores(f) \/ Stale(f) PROVE SettledFires'
    <2>1. Stores(f) => Known'
      BY StoreRows, NewKnown, <1>0, Writing
    <2>2. \A g \in Fires : g # f => fire'[g] = fire[g]
      BY <1>2, PartsOf DEF Announced, Stores, Stale, Parts, EventParts
    <2>3. fire'[f] = IF Announced(f) THEN "hook" ELSE "done"
      BY <1>2, PartsOf DEF Announced, Stores, Stale, Parts, EventParts
    <2> QED BY <1>0, <1>2, <2>1, <2>2, <2>3 DEF SettledFires, Stale
  <1>3. Request \/ SweepReaps => fire' = fire
    BY DEF Request, Send, Accepted, Returned, Rejected, SaveFailed, Save, Conflict, Merge, Drop,
       RequestFault, SweepReaps, events
  <1> QED BY <1>0, <1>1, <1>2, <1>3, StepKinds DEF Apart

LEMMA SettledStep == ASSUME TypeOK, Placed, Settled, [Next]_vars PROVE Settled'
  <1>1. CASE Next
    BY <1>1, CalmBefore, SettledReqStep, SettledFiresStep DEF Settled, SettledReq, SettledFires
  <1>2. CASE UNCHANGED vars
    BY <1>2 DEF vars, events, bounds, Settled, Calm, Known, At
  <1> QED BY <1>1, <1>2

LEMMA SettledInit == Init => Settled
  BY DEF Init, Settled, At

\* Without a fault or a stop, what each writer leaves behind.
THEOREM AlwaysSettled == Spec => []Settled
  BY AlwaysPlaced, SettledInit, SettledStep, PTL DEF Spec
-----------------------------------------------------------------------------
(* How often an inbound message is dispatched *)

\* Told without its premise.
ToldOnce == /\ faults = 0 => told = IF Known THEN 1 ELSE 0
            /\ Known => told >= 1
            /\ stops = 0 => \A f \in Fires : fire[f] # "stale" /\ (fire[f] = "done" => told >= 1)

LEMMA Counting ==
  ASSUME TypeOK, Next
  PROVE  (faults' = 0 => faults = 0) /\ (stops' = 0 => stops = 0)
  <1>1. faults \in Nat /\ stops \in Nat
    BY PartsOf, BoundsTyped DEF Parts, OtherParts
  <1> QED BY <1>1, CountSteps

LEMMA ToldStep ==
  ASSUME TypeOK, Placed, ToldOnce, origin = "inbound", Next
  PROVE  ToldOnce'
  <1>0. /\ told \in Nat /\ faults \in Nat /\ stops \in Nat
        /\ fire \in [Fires -> {"none", "hook", "stale", "done"}]
    BY PartsOf, BoundsTyped DEF Parts, EventParts, OtherParts
  <1>1. ~Request
    <2>1. At("idle")
      BY DEF Placed, Wired
    <2> QED BY <2>1 DEF Request, Send, Accepted, Returned, Rejected, SaveFailed, Save, Conflict,
       Merge, Drop,
       RequestFault, At
  <1>2. ASSUME UNCHANGED <<fire, told>>, Known' <=> Known PROVE ToldOnce'
    BY <1>2, Counting DEF ToldOnce
  <1>3. CASE Apart
    BY <1>2, <1>3, AsideKnown DEF Apart, HeldShown
  <1>4. CASE SweepReaps
    BY <1>2, <1>4, ReapRows, AsideKnown DEF SweepReaps, events
  <1>5. CASE Crash \/ Retired
    <2>1. Known' <=> Known
      BY <1>5 DEF Crash, Retired, Known
    <2>2. told' = told /\ faults' = faults /\ stops' # 0
      BY <1>0, <1>5 DEF Crash, Retired
    <2> QED BY <2>1, <2>2 DEF ToldOnce
  <1>6. ASSUME NEW f \in Fires, Announced(f) PROVE ToldOnce'
    <2>1. Known' <=> Known
      BY <1>6 DEF Announced, Known
    <2>2. /\ UNCHANGED <<told, bounds>>
          /\ \A g \in Fires : fire'[g] = IF g = f THEN "hook" ELSE fire[g]
      BY <1>0, <1>6 DEF Announced
    <2> QED BY <2>1, <2>2 DEF ToldOnce, bounds
  <1>7. ASSUME NEW f \in Fires, Stores(f) PROVE ToldOnce'
    <2>1. UNCHANGED bounds /\ \A g \in Fires : fire'[g] = IF g = f THEN "done" ELSE fire[g]
      BY <1>0, <1>7 DEF Stores
    <2>2. Known' /\ told' = IF Known THEN told ELSE told + 1
      <3>1. CASE Known /\ Same /\ told' = (IF DuplicateDispatches THEN told + 1 ELSE told)
        BY <3>1, AsideKnown DEF DuplicateDispatches
      <3>2. CASE New(f) /\ told' = told + 1
        BY <3>2, NewKnown, Writing DEF New
      <3> QED BY <1>7, <3>1, <3>2, StoreRows
    <2>3. UNCHANGED <<faults, stops>> /\ told' >= told
      BY <2>1, <2>2, <1>0 DEF bounds
    <2>4. told' >= 1
      BY <2>2, <1>0 DEF ToldOnce
    <2>5. faults = 0 => told' = 1
      BY <2>2, <1>0 DEF ToldOnce
    <2> QED BY <2>1, <2>2, <2>3, <2>4, <2>5 DEF ToldOnce
  <1>8. ASSUME NEW f \in Fires, StoreFault(f) PROVE ToldOnce'
    <2>1. \A g \in Fires : fire'[g] = IF g = f THEN "done" ELSE fire[g]
      BY <1>0, <1>8 DEF StoreFault
    <2>2. faults' # 0 /\ told' >= 1 /\ stops' = stops
      BY <1>0, <1>8 DEF StoreFault
    <2> QED BY <2>1, <2>2 DEF ToldOnce
  <1>9. ASSUME NEW f \in Fires, Stale(f) PROVE ToldOnce'
    <2>1. stops # 0 /\ UNCHANGED <<told, faults, stops, row>>
      BY <1>9 DEF Stale, ToldOnce, bounds
    <2> QED BY <2>1 DEF ToldOnce, Known
  <1> QED BY <1>1, <1>3, <1>4, <1>5, <1>6, <1>7, <1>8, <1>9, StepKinds

\* An announcement of an inbound message that is repeated is dispatched once.
THEOREM ToldOnceEach == Spec => []InboundTold
  <1> DEFINE Inv == origin = "inbound" => ToldOnce
  <1>1. Init => Inv
    <2> SUFFICES ASSUME Init PROVE ToldOnce
      OBVIOUS
    <2>1. told = 0 /\ ~Known /\ \A f \in Fires : fire[f] = "none"
      BY NoRowTyped DEF Init, Known
    <2> QED BY <2>1 DEF ToldOnce
  <1>2. TypeOK /\ Placed /\ Inv /\ [Next]_vars => Inv'
    <2> SUFFICES ASSUME TypeOK, Placed, Inv, [Next]_vars PROVE Inv'
      OBVIOUS
    <2>1. CASE Next
      BY <2>1, Onward, ToldStep
    <2>2. CASE UNCHANGED vars
      BY <2>2 DEF vars, events, bounds, ToldOnce, Known
    <2> QED BY <2>1, <2>2
  <1>3. TypeOK /\ Inv => InboundTold
    <2> SUFFICES ASSUME TypeOK, Inv PROVE InboundTold
      OBVIOUS
    <2>1. told \in Nat
      BY PartsOf DEF Parts, EventParts
    <2> QED BY <2>1 DEF InboundTold, ToldOnce
  <1> QED BY <1>1, <1>2, <1>3, AlwaysPlaced, PTL DEF Spec
-----------------------------------------------------------------------------
(* The delivery reports *)

\* Without a fault or a stop a report has come only through a try, at a row or as missed.
LEMMA CameSteps ==
  ASSUME TypeOK, Next, Calm'
  PROVE  \/ Came' = Came
         \/ \E t \in Ticks : /\ Came' = Came \cup {t} /\ row' = Advanced(t)
                             /\ (FirstTry(t) /\ Affected(t)) \/ SecondTry(t)
  <1>0. ~Crash /\ ~Retired /\ (\A t \in Ticks : ~TickFault(t))
        /\ tick \in [Ticks -> {"none", "first", "again", "done"}]
    BY CalmBefore, PartsOf DEF Parts, EventParts
  <1>1. CASE Request
    BY <1>1 DEF Request, Send, Accepted, Returned, Rejected, SaveFailed, Save, Conflict, Merge, Drop,
       RequestFault, events, Came
  <1>2. ASSUME NEW f \in Fires, Announced(f) \/ Stores(f) \/ StoreFault(f) \/ Stale(f)
        PROVE  Came' = Came
    BY <1>2 DEF Announced, Stores, StoreFault, Stale, Came
  <1>3. ASSUME NEW t \in Ticks, Reported(t) PROVE Came' = Came
    <2>1. tick[t] = "none" /\ \A u \in Ticks : tick'[u] = IF u = t THEN "first" ELSE tick[u]
      BY <1>0, <1>3 DEF Reported
    <2> QED BY <2>1 DEF Came
  <1>4. ASSUME NEW t \in Ticks, FirstTry(t), Affected(t)
        PROVE  Came' = Came \cup {t} /\ row' = Advanced(t)
    BY <1>0, <1>4 DEF FirstTry, Came
  <1>5. ASSUME NEW t \in Ticks, FirstTry(t), ~Affected(t) PROVE Came' = Came
    <2>1. tick[t] = "first" /\ \A u \in Ticks : tick'[u] = IF u = t THEN "again" ELSE tick[u]
      BY <1>0, <1>5 DEF FirstTry, Unmatched
    <2> QED BY <2>1 DEF Came
  <1>6. ASSUME NEW t \in Ticks, SecondTry(t)
        PROVE  Came' = Came \cup {t} /\ row' = Advanced(t)
    BY <1>0, <1>6 DEF SecondTry, Came
  <1>7. ASSUME NEW n \in Mutations,
               Enqueued(n) \/ Edit(n) \/ ReadReactions(n) \/ WriteReactions(n) \/ MutationFault(n)
        PROVE  Came' = Came
    BY <1>7 DEF Enqueued, Edit, ReadReactions, WriteReactions, MutationFault, events, Came
  <1>8. CASE Revoked \/ FlagRevoked \/ RevokeFault \/ SweepFinds \/ SweepReaps \/ SweepFault
    BY <1>8 DEF Revoked, FlagRevoked, RevokeFault, SweepFinds, SweepReaps, SweepFault, events, Came
  <1> QED BY <1>0, <1>1, <1>2, <1>3, <1>4, <1>5, <1>6, <1>7, <1>8 DEF Next

\* What a step has merged or missed stays so.
LEMMA HistoryStays ==
  ASSUME TypeOK, Next
  PROVE  (mixed => mixed') /\ (missed => missed')
  <1>1. ASSUME Request PROVE missed' = missed /\ (mixed => mixed')
    <2>1. CASE Merge
      <3>1. mixed' = (\/ mixed \/ \E w \in Writers : row[w].id /\ (row[w].status # "SENT" \/ row[w].reacts # {})
                      \/ \E n \in Mutations : copy[n].read)
            /\ missed' = missed
        BY <2>1 DEF Merge
      <3> QED BY <3>1
    <2>2. CASE Send \/ Returned \/ Rejected \/ SaveFailed \/ Save \/ Conflict \/ Accepted \/ Drop \/ RequestFault
      <3>1. UNCHANGED history
        BY <2>2 DEF Send, Returned, Rejected, SaveFailed, Save, Conflict, Accepted, Drop, RequestFault
      <3> QED BY <3>1 DEF history
    <2> QED BY <1>1, <2>1, <2>2 DEF Request
  <1>2. ASSUME NEW f \in Fires, Announced(f) \/ Stores(f) \/ StoreFault(f) \/ Stale(f)
        PROVE  UNCHANGED history
    BY <1>2 DEF Announced, Stores, StoreFault, Stale
  <1>3. ASSUME NEW t \in Ticks, Reported(t) \/ FirstTry(t) \/ TickFault(t)
        PROVE  UNCHANGED history
    BY <1>3 DEF Reported, FirstTry, TickFault
  <1>4. ASSUME NEW t \in Ticks, SecondTry(t) PROVE mixed' = mixed /\ (missed => missed')
    <2>1. mixed' = mixed /\ missed' = (missed \/ ~Known)
      BY <1>4 DEF SecondTry
    <2> QED BY <2>1
  <1>5. ASSUME NEW n \in Mutations,
               Enqueued(n) \/ Edit(n) \/ ReadReactions(n) \/ WriteReactions(n) \/ MutationFault(n)
        PROVE  UNCHANGED history
    BY <1>5 DEF Enqueued, Edit, ReadReactions, WriteReactions, MutationFault
  <1>6. CASE Revoked \/ FlagRevoked \/ RevokeFault \/ SweepFinds \/ SweepReaps \/ SweepFault \/ Retired \/ Crash
    <2>1. UNCHANGED history
      BY <1>6 DEF Revoked, FlagRevoked, RevokeFault, SweepFinds, SweepReaps, SweepFault, Retired, Crash
    <2> QED BY <2>1 DEF history
  <1> QED BY <1>1, <1>2, <1>3, <1>4, <1>5, <1>6 DEF Next, history

\* Climbed without its premises.
NoneEarly == ~Known => Came = {}
Climbing == \A w \in Writers : row[w].id =>
              /\ row[w].status = "SENT" => Came = {}
              /\ "READ" \in Came => row[w].status \in {"READ", "FAILED"}

LEMMA NoneEarlyStep ==
  ASSUME TypeOK, Placed, NoneEarly, Next, Calm', ~missed'
  PROVE  NoneEarly'
  <1>1. CASE Came' = Came
    BY <1>1, KnownStays DEF NoneEarly
  <1>2. ASSUME NEW t \in Ticks, (FirstTry(t) /\ Affected(t)) \/ SecondTry(t) PROVE Known
    <2>1. Affected(t) => Known
      BY DEF Affected, Advances, Known
    <2>2. SecondTry(t) => Known
      BY DEF SecondTry
    <2> QED BY <1>2, <2>1, <2>2
  <1> QED BY <1>1, <1>2, CameSteps, KnownStays DEF NoneEarly

LEMMA TriesClimb ==
  ASSUME TypeOK, Placed, Climbing, NEW t \in Ticks, row' = Advanced(t), Came' \in {Came, Came \cup {t}},
         Came' = Came => ~Affected(t)
  PROVE  Climbing'
  <1> SUFFICES ASSUME NEW w \in Writers, row'[w].id
               PROVE  /\ row'[w].status = "SENT" => Came' = {}
                      /\ "READ" \in Came' => row'[w].status \in {"READ", "FAILED"}
    BY DEF Climbing, Writers
  <1>0. /\ row[w].id /\ row'[w].status = (IF Advances(t, w) THEN t ELSE row[w].status)
        /\ row[w].status = "SENT" => Came = {}
        /\ "READ" \in Came => row[w].status \in {"READ", "FAILED"}
        /\ row[w].status \in {"SENT"} \cup Came
        /\ t \in {"DELIVERED", "READ", "FAILED"} /\ Came \subseteq {"DELIVERED", "READ", "FAILED"}
    BY TryRows, CameTicks, MessageAssumption DEF Held, Climbing, Placed, Shown
  <1>1. CASE Advances(t, w)
    <2>1. row[w].status \in {"SENT"} \cup (IF t = "READ" THEN {"DELIVERED"} ELSE {})
      BY <1>0, <1>1 DEF Advances, From
    <2> QED BY <1>0, <1>1, <2>1
  <1>2. CASE ~Advances(t, w)
    <2>1. row[w].status \notin From(t)
      BY <1>0, <1>2 DEF Advances
    <2> QED BY <1>0, <1>2, <2>1 DEF From
  <1> QED BY <1>1, <1>2

LEMMA ClimbingStep ==
  ASSUME TypeOK, Placed, NoneEarly, Climbing, Next, Calm', ~missed', ~mixed'
  PROVE  Climbing'
  <1>1. CASE Came' = Came
    <2>1. CASE Same \/ Aside
      BY <1>1, <2>1 DEF Same, Aside, Climbing, Writers
    <2>2. CASE KeepsStatus
      BY <1>1, <2>2 DEF KeepsStatus, Held, Climbing
    <2>3. CASE Merge
      <3>1. \A w \in Writers : row[w].id => row[w].status = "SENT"
        BY <2>3 DEF Merge
      <3> QED BY <1>1, <2>3, <3>1, MergeRows DEF Held, Climbing
    <2>4. ASSUME NEW t \in Ticks, FirstTry(t) \/ SecondTry(t) PROVE Climbing'
      <3>1. row' = Advanced(t) /\ (Affected(t) => tick'[t] = "done") /\ tick[t] # "done"
        BY <2>4, PartsOf DEF FirstTry, SecondTry, Parts, EventParts
      <3>2. ~Affected(t)
        BY <1>1, <3>1 DEF Came
      <3> QED BY <1>1, <3>1, <3>2, TriesClimb
    <2>5. ASSUME NEW w \in Writers, New(w) PROVE Climbing'
      BY <1>1, <2>5, NewKnown DEF New, NoneEarly, Climbing
    <2> QED BY <2>1, <2>2, <2>3, <2>4, <2>5, RowKinds, Writing
  <1>2. ASSUME NEW t \in Ticks, Came' = Came \cup {t}, row' = Advanced(t),
               (FirstTry(t) /\ Affected(t)) \/ SecondTry(t)
        PROVE  Climbing'
    <2>1. tick[t] # "done"
      BY <1>2 DEF FirstTry, SecondTry
    <2>2. Came' # Came
      BY <1>2, <2>1 DEF Came
    <2> QED BY <1>2, <2>2, TriesClimb
  <1> QED BY <1>1, <1>2, CameSteps

LEMMA ClimbedStep ==
  ASSUME TypeOK, Placed, Climbed, [Next]_vars
  PROVE  Climbed'
  <1>1. CASE Next
    <2>1. Calm' /\ ~missed' => Calm /\ ~missed /\ (~mixed' => ~mixed)
      BY <1>1, CalmBefore, HistoryStays
    <2> QED BY <1>1, <2>1, NoneEarlyStep, ClimbingStep DEF Climbed, NoneEarly, Climbing
  <1>2. CASE UNCHANGED vars
    BY <1>2 DEF vars, events, history, bounds, Climbed, Calm, Known, Came
  <1> QED BY <1>1, <1>2

\* The row of a message shows the strongest report that came.
THEOREM TicksAreShown == Spec => []TicksShown
  <1>1. Init => Climbed
    <2> SUFFICES ASSUME Init PROVE Climbed
      OBVIOUS
    <2>1. Came = {} /\ \A w \in Writers : ~row[w].id
      BY NoRowTyped DEF Init, Came
    <2> QED BY <2>1 DEF Climbed
  <1>2. Placed /\ Climbed => TicksShown
    BY DEF Placed, Shown, Climbed, TicksShown
  <1> QED BY <1>1, <1>2, ClimbedStep, AlwaysPlaced, PTL DEF Spec
-----------------------------------------------------------------------------
(* The queue of edits and reactions *)

MutationStep == \E n \in Mutations :
  Enqueued(n) \/ Edit(n) \/ ReadReactions(n) \/ WriteReactions(n) \/ MutationFault(n)

LEMMA MutationsApart ==
  ASSUME TypeOK, Next
  PROVE  MutationStep \/ Crash \/ UNCHANGED mutations
  <1>1. CASE Request
    BY <1>1 DEF Request, Send, Accepted, Returned, Rejected, SaveFailed, Save, Conflict, Merge, Drop,
       RequestFault
  <1>2. ASSUME NEW f \in Fires, Announced(f) \/ Stores(f) \/ StoreFault(f) \/ Stale(f)
        PROVE  UNCHANGED mutations
    BY <1>2 DEF Announced, Stores, StoreFault, Stale
  <1>3. ASSUME NEW t \in Ticks, Reported(t) \/ FirstTry(t) \/ SecondTry(t) \/ TickFault(t)
        PROVE  UNCHANGED mutations
    BY <1>3 DEF Reported, FirstTry, SecondTry, TickFault
  <1>4. CASE Revoked \/ FlagRevoked \/ RevokeFault \/ SweepFinds \/ SweepReaps \/ SweepFault \/ Retired
    BY <1>4 DEF Revoked, FlagRevoked, RevokeFault, SweepFinds, SweepReaps, SweepFault, Retired
  <1> QED BY <1>1, <1>2, <1>3, <1>4 DEF Next, MutationStep

First(n) == n \in queued /\ \A m \in queued : n <= m

LEMMA MutationNumbers == /\ Mutations \subseteq Nat
                         /\ \A m, n \in Mutations : m <= n \/ n < m
                         /\ \A m, n \in Mutations : m <= n /\ n <= m => m = n
                         /\ \A m, n \in Mutations : m <= n <=> m < n \/ m = n
                         /\ \A m, n \in Mutations : ~(m < n /\ n <= m)
  BY BoundsTyped DEF Mutations

\* What a step of one entry does to the queue.
LEMMA EntrySteps ==
  ASSUME TypeOK, Chained, NEW n \in Mutations,
         Enqueued(n) \/ Edit(n) \/ ReadReactions(n) \/ WriteReactions(n) \/ MutationFault(n)
  PROVE  \/ /\ Enqueued(n) /\ kind[n] = "none" /\ \A m \in Mutations : m < n => kind[m] # "none"
            /\ kind'[n] # "none" /\ \A m \in Mutations : m # n => kind'[m] = kind[m]
            /\ queued' = queued \cup {n} /\ UNCHANGED <<copy, done>>
         \/ /\ First(n) /\ kind' = kind /\ queued' = queued \ {n} /\ done' \in {done, done \cup {n}}
            /\ ~copy'[n].read /\ \A m \in Mutations : m # n => copy'[m] = copy[m]
            /\ done' # done => Known
         \/ /\ First(n) /\ kind[n] = "react" /\ Known /\ UNCHANGED <<kind, queued, done>>
            /\ ReadReactions(n) /\ \A m \in Mutations : m # n => copy'[m] = copy[m]
  <1>0. /\ kind \in [Mutations -> {"none", "edit", "react"}] /\ CopyTyped
    BY PartsOf DEF Parts, MutationParts
  <1>1. CASE Enqueued(n)
    BY <1>0, <1>1 DEF Enqueued
  <1>2. CASE Edit(n)
    BY <1>0, <1>2, NoCopyTyped DEF Edit, Settles, Wrote, Turn, First, CopyTyped
  <1>3. CASE WriteReactions(n)
    <2>1. First(n)
      BY <1>3 DEF WriteReactions, Chained, Waiting, First
    <2> QED BY <1>0, <1>3, <2>1, NoCopyTyped DEF WriteReactions, Settles, Wrote, CopyTyped
  <1>4. CASE MutationFault(n)
    BY <1>0, <1>4, NoCopyTyped DEF MutationFault, Settles, Turn, First, CopyTyped
  <1>5. CASE ReadReactions(n)
    <2>1. CASE ~Known /\ Settles(n)
      BY <1>0, <1>5, <2>1, NoCopyTyped DEF ReadReactions, Settles, Turn, First, CopyTyped
    <2>2. CASE \E w \in Writers :
                 /\ row[w].id
                 /\ copy' = [copy EXCEPT ![n] = [read |-> TRUE, reacts |-> row[w].reacts, media |-> row[w].media]]
                 /\ UNCHANGED queued
      BY <1>0, <1>5, <2>2 DEF ReadReactions, Turn, First, CopyTyped, Known
    <2> QED BY <1>5, <2>1, <2>2 DEF ReadReactions
  <1> QED BY <1>1, <1>2, <1>3, <1>4, <1>5

LEMMA ChainedStep ==
  ASSUME TypeOK, Placed, Chained, [Next]_vars
  PROVE  Chained'
  <1>0. /\ queued \subseteq Mutations /\ done \subseteq Mutations /\ (Known => Known')
    <2>1. UNCHANGED vars => (Known => Known')
      BY DEF vars, Known
    <2> QED BY <2>1, PartsOf, KnownStays DEF Parts, MutationParts
  <1> USE MutationNumbers
  <1>1. CASE UNCHANGED mutations
    BY <1>0, <1>1 DEF mutations, Chained, Waiting
  <1>2. CASE Crash
    <2>1. \A n \in Mutations : ~copy'[n].read
      BY <1>2, NoCopyTyped DEF Crash
    <2> QED BY <1>0, <1>2, <2>1 DEF Crash, Chained
  <1>3. ASSUME NEW n \in Mutations,
               Enqueued(n) \/ Edit(n) \/ ReadReactions(n) \/ WriteReactions(n) \/ MutationFault(n)
        PROVE  Chained'
    <2>1. CASE /\ Enqueued(n) /\ kind[n] = "none" /\ \A m \in Mutations : m < n => kind[m] # "none"
               /\ kind'[n] # "none" /\ \A m \in Mutations : m # n => kind'[m] = kind[m]
               /\ queued' = queued \cup {n} /\ UNCHANGED <<copy, done>>
      <3>1. \A m \in queued \cup done : m < n
        BY <1>0, <2>1 DEF Chained
      <3>2. \A l, m \in Mutations : kind'[l] = "none" /\ l < m => kind'[m] = "none"
        BY <1>0, <2>1 DEF Chained
      <3>3. \A m \in queued' \cup done' : kind'[m] # "none"
        BY <1>0, <2>1 DEF Chained
      <3>4. \A l \in done', m \in queued' : l < m
        BY <1>0, <2>1, <3>1 DEF Chained
      <3>5. \A m \in Mutations : copy'[m].read => Waiting(m)'
        BY <1>0, <2>1, <3>1 DEF Chained, Waiting
      <3> QED BY <1>0, <2>1, <3>2, <3>3, <3>4, <3>5 DEF Chained
    <2>2. CASE /\ First(n) /\ kind' = kind /\ queued' = queued \ {n} /\ done' \in {done, done \cup {n}}
               /\ ~copy'[n].read /\ \A m \in Mutations : m # n => copy'[m] = copy[m]
               /\ done' # done => Known
      <3>0. \A m \in queued' : m \in queued /\ n < m
        BY <1>0, <2>2 DEF First
      <3>1. \A l \in done', m \in queued' : l < m
        BY <2>2, <3>0 DEF Chained
      <3>2. \A m \in Mutations : ~copy'[m].read
        BY <1>0, <2>2 DEF Chained, Waiting, First
      <3> QED BY <1>0, <2>2, <3>1, <3>2 DEF Chained, First
    <2>3. CASE /\ First(n) /\ kind[n] = "react" /\ Known /\ UNCHANGED <<kind, queued, done>>
               /\ ReadReactions(n) /\ \A m \in Mutations : m # n => copy'[m] = copy[m]
      <3>1. Waiting(n)'
        BY <1>0, <2>3 DEF Waiting, First
      <3>2. \A m \in Mutations : copy'[m].read => Waiting(m)'
        BY <1>0, <2>3, <3>1 DEF Chained, Waiting
      <3> QED BY <1>0, <2>3, <3>2 DEF Chained
    <2> QED BY <1>3, <2>1, <2>2, <2>3, EntrySteps
  <1>4. UNCHANGED vars => UNCHANGED mutations
    BY DEF vars
  <1> QED BY <1>1, <1>2, <1>3, <1>4, MutationsApart DEF MutationStep
LEMMA RevokeStays ==
  ASSUME Next, revoke = "done"
  PROVE  revoke' = "done"
  <1>1. CASE Request
    BY <1>1 DEF Request, Send, Accepted, Returned, Rejected, SaveFailed, Save, Conflict, Merge, Drop,
       RequestFault
  <1>2. ASSUME NEW f \in Fires, Announced(f) \/ Stores(f) \/ StoreFault(f) \/ Stale(f)
        PROVE  revoke' = revoke
    BY <1>2 DEF Announced, Stores, StoreFault, Stale
  <1>3. ASSUME NEW t \in Ticks, Reported(t) \/ FirstTry(t) \/ SecondTry(t) \/ TickFault(t)
        PROVE  revoke' = revoke
    BY <1>3 DEF Reported, FirstTry, SecondTry, TickFault
  <1>4. ASSUME NEW n \in Mutations,
               Enqueued(n) \/ Edit(n) \/ ReadReactions(n) \/ WriteReactions(n) \/ MutationFault(n)
        PROVE  revoke' = revoke
    BY <1>4 DEF Enqueued, Edit, ReadReactions, WriteReactions, MutationFault
  <1>5. CASE Revoked \/ FlagRevoked \/ RevokeFault \/ SweepFinds \/ SweepReaps \/ SweepFault \/ Retired \/ Crash
    BY <1>5 DEF Revoked, FlagRevoked, RevokeFault, SweepFinds, SweepReaps, SweepFault, Retired, Crash
  <1> QED BY <1>1, <1>2, <1>3, <1>4, <1>5 DEF Next

\* A row that loses nothing keeps LatestWins.
LEMMA LatestKept ==
  ASSUME TypeOK, LatestWins, Next, UNCHANGED done, \A n \in done : kind'[n] = kind[n],
         NEW w \in Writers, NEW v \in Writers, row'[w].id => row[v].id,
         row'[w].body = row[v].body \/ FlagRevoked, row'[w].reacts = row[v].reacts \/ mixed'
  PROVE  row'[w].id => \A n \in done' : /\ kind'[n] = "edit" /\ revoke' # "done" => n <= row'[w].body
                                        /\ kind'[n] = "react" /\ ~mixed' => n \in row'[w].reacts
  <1>1. (mixed => mixed') /\ (revoke = "done" => revoke' = "done")
    BY HistoryStays, RevokeStays
  <1>2. FlagRevoked => revoke' = "done"
    BY DEF FlagRevoked
  <1> QED BY <1>1, <1>2 DEF LatestWins

LEMMA LatestApart ==
  ASSUME TypeOK, Placed, Chained, LatestWins, Next, UNCHANGED mutations \/ Crash
  PROVE  LatestWins'
  <1>1. UNCHANGED <<kind, done>>
    BY DEF mutations, Crash
  <1> SUFFICES ASSUME NEW w \in Writers
               PROVE  row'[w].id => \A n \in done' :
                        /\ kind'[n] = "edit" /\ revoke' # "done" => n <= row'[w].body
                        /\ kind'[n] = "react" /\ ~mixed' => n \in row'[w].reacts
    BY DEF LatestWins, Writers
  <1>2. CASE Same \/ Aside \/ Crash
    <2>1. row'[w].id => row'[w] = row[w]
      BY <1>2 DEF Same, Aside, Crash, Writers
    <2> QED BY <1>1, <2>1, LatestKept
  <1>3. CASE Merge
    <2>1. CASE row[w].id /\ ~mixed'
      <3>1. row[w].reacts = {} /\ row'[w].reacts \subseteq row[w].reacts /\ row'[w].body = row[w].body
        BY <1>3, <2>1, MergeRows DEF Merge
      <3> QED BY <1>1, <2>1, <3>1, LatestKept
    <2>2. CASE row[w].id /\ mixed'
      BY <1>1, <1>3, <2>2, MergeRows, LatestKept
    <2>3. CASE ~row[w].id
      BY <1>3, <2>3, MergeRows DEF Held
    <2> QED BY <2>1, <2>2, <2>3
  <1>4. CASE FlagRevoked
    BY <1>1, <1>4, FlagRows, LatestKept DEF KeepsStatus, Held
  <1>5. ASSUME NEW n \in Mutations, Edit(n) \/ WriteReactions(n) PROVE Crash
    <2>1. n \in queued /\ queued' = queued \ {n}
      BY <1>5 DEF Edit, WriteReactions, Turn, Settles
    <2> QED BY <2>1 DEF mutations
  <1>6. ASSUME NEW t \in Ticks, FirstTry(t) \/ SecondTry(t)
        PROVE  row'[w].id => \A n \in done' :
                 /\ kind'[n] = "edit" /\ revoke' # "done" => n <= row'[w].body
                 /\ kind'[n] = "react" /\ ~mixed' => n \in row'[w].reacts
    BY <1>1, <1>6, TryRows, LatestKept DEF FirstTry, SecondTry, Held
  <1>7. ASSUME NEW v \in Writers, New(v) PROVE done' = {}
    BY <1>1, <1>7 DEF New, Chained
  <1> QED BY <1>2, <1>3, <1>4, <1>5, <1>6, <1>7, RowKinds, Writing

LEMMA LatestEntry ==
  ASSUME TypeOK, Placed, Chained, Carried, LatestWins, Next, NEW n \in Mutations,
         Enqueued(n) \/ Edit(n) \/ ReadReactions(n) \/ WriteReactions(n) \/ MutationFault(n)
  PROVE  LatestWins'
  <1>0. UNCHANGED <<revoke, mixed>>
    BY DEF Enqueued, Edit, ReadReactions, WriteReactions, MutationFault, history
  <1>t. done \subseteq Mutations /\ kind \in [Mutations -> {"none", "edit", "react"}]
    BY PartsOf DEF Parts, MutationParts
  <1> USE MutationNumbers
  <1>1. CASE Enqueued(n) \/ ReadReactions(n) \/ MutationFault(n)
    <2>1. UNCHANGED <<row, done>>
      BY <1>1 DEF Enqueued, ReadReactions, MutationFault
    <2>2. \A m \in done : kind'[m] = kind[m]
      BY <1>1, <1>t DEF Enqueued, ReadReactions, MutationFault, Chained
    <2> QED BY <1>0, <2>1, <2>2 DEF LatestWins, Writers
  <1>2. CASE Edit(n)
    <2>1. /\ kind' = kind /\ kind[n] = "edit" /\ n \in queued /\ done' \subseteq done \cup {n}
      BY <1>2 DEF Edit, Turn, Wrote
    <2>2. \A w \in Writers : row'[w].id => row[w].id /\ row'[w].body = n /\ row'[w].reacts = row[w].reacts
      BY <1>2, EditRows DEF KeepsStatus, Held
    <2>3. \A m \in done' : m <= n
      BY <1>t, <2>1 DEF Chained
    <2> QED BY <1>0, <2>1, <2>2, <2>3 DEF LatestWins, Writers
  <1>3. CASE WriteReactions(n)
    <2>1. /\ kind' = kind /\ kind[n] = "react" /\ copy[n].read /\ done' \subseteq done \cup {n}
      BY <1>3 DEF WriteReactions, Wrote, Chained, Waiting
    <2>2. \A w \in Writers : row'[w].id => /\ row[w].id /\ row'[w].body = row[w].body
                                           /\ row'[w].reacts = copy[n].reacts \cup {n}
      BY <1>3, ReactRows DEF KeepsStatus, Held
    <2> QED BY <1>0, <2>1, <2>2 DEF LatestWins, Carried, Writers
  <1> QED BY <1>1, <1>2, <1>3

LEMMA CarriedStep ==
  ASSUME TypeOK, Placed, Chained, Carried, LatestWins, Next
  PROVE  Carried'
  <1>0. (mixed => mixed') /\ (Merge => mixed' \/ \A n \in Mutations : ~copy[n].read)
    BY HistoryStays DEF Merge
  <1>t. /\ done \subseteq Mutations /\ kind \in [Mutations -> {"none", "edit", "react"}] /\ CopyTyped
    BY PartsOf DEF Parts, MutationParts
  <1> USE MutationNumbers
  <1>1. CASE UNCHANGED mutations
    BY <1>0, <1>1 DEF mutations, Carried
  <1>2. CASE Crash
    BY <1>2, NoCopyTyped DEF Crash, Carried
  <1>3. ASSUME NEW n \in Mutations,
               Enqueued(n) \/ Edit(n) \/ ReadReactions(n) \/ WriteReactions(n) \/ MutationFault(n)
        PROVE  Carried'
    <2>1. CASE /\ Enqueued(n) /\ kind[n] = "none" /\ \A m \in Mutations : m < n => kind[m] # "none"
               /\ kind'[n] # "none" /\ \A m \in Mutations : m # n => kind'[m] = kind[m]
               /\ queued' = queued \cup {n} /\ UNCHANGED <<copy, done>>
      BY <1>0, <1>t, <2>1 DEF Carried, Chained
    <2>2. CASE /\ First(n) /\ kind' = kind /\ queued' = queued \ {n} /\ done' \in {done, done \cup {n}}
               /\ ~copy'[n].read /\ \A m \in Mutations : m # n => copy'[m] = copy[m]
               /\ done' # done => Known
      <3>1. \A m \in Mutations : ~copy'[m].read
        BY <2>2 DEF Chained, Waiting, First
      <3> QED BY <3>1 DEF Carried
    <2>3. CASE /\ First(n) /\ kind[n] = "react" /\ Known /\ UNCHANGED <<kind, queued, done>>
               /\ ReadReactions(n) /\ \A m \in Mutations : m # n => copy'[m] = copy[m]
      <3>1. PICK w \in Writers :
              /\ row[w].id
              /\ copy' = [copy EXCEPT ![n] = [read |-> TRUE, reacts |-> row[w].reacts, media |-> row[w].media]]
        BY <2>3 DEF ReadReactions
      <3>2. copy'[n].reacts = row[w].reacts
        BY <1>t, <3>1 DEF CopyTyped
      <3> QED BY <1>0, <2>3, <3>1, <3>2 DEF Carried, LatestWins
    <2> QED BY <1>3, <2>1, <2>2, <2>3, EntrySteps
  <1> QED BY <1>1, <1>2, <1>3, MutationsApart DEF MutationStep

QueueInv == Chained /\ Carried /\ LatestWins

LEMMA QueueStep == ASSUME TypeOK, Placed, QueueInv, [Next]_vars PROVE QueueInv'
  <1>1. CASE Next
    BY <1>1, ChainedStep, CarriedStep, LatestApart, LatestEntry, MutationsApart DEF QueueInv, MutationStep
  <1>2. CASE UNCHANGED vars
    <2>1. Chained'
      BY <1>2, ChainedStep DEF QueueInv
    <2>2. Carried' /\ LatestWins'
      BY <1>2 DEF vars, mutations, history, QueueInv, Carried, LatestWins
    <2> QED BY <2>1, <2>2 DEF QueueInv
  <1> QED BY <1>1, <1>2

LEMMA QueueInit == Init => QueueInv
  <1> SUFFICES ASSUME Init PROVE QueueInv
    OBVIOUS
  <1>1. queued = {} /\ done = {} /\ \A n \in Mutations : kind[n] = "none" /\ ~copy[n].read
    BY NoCopyTyped DEF Init
  <1> QED BY <1>1 DEF QueueInv, Chained, Carried, LatestWins

\* Edits are written in order and no reaction is lost to another.
THEOREM LatestWinsAlways == Spec => []LatestWins
  <1>1. QueueInv => LatestWins
    BY DEF QueueInv
  <1> QED BY <1>1, QueueInit, QueueStep, AlwaysPlaced, PTL DEF Spec
-----------------------------------------------------------------------------
(* The media, and one row for each message *)

\* MediaKept without its premises.
HasMedia == /\ \A w \in Writers : row[w].id => row[w].media
            /\ \A n \in Mutations : copy[n].read => copy[n].media
Claims == req.media /\ req.id /\ Saved

\* A step that leaves the request alone leaves the media of a stored message.
LEMMA MediaApart ==
  ASSUME TypeOK, Placed, Chained, SettledReq, HasMedia, Claims, Next, Calm', ~Request
  PROVE  HasMedia'
  <1>0. /\ CopyTyped /\ Known /\ ~Crash
        /\ \A w \in Writers : row[w].media \in BOOLEAN
    BY PartsOf, CalmBefore, RowFields, Writing DEF Parts, MutationParts, RowsTyped, Claims, Saved,
       SettledReq, At, Known
  <1>1. \A w \in Writers : row'[w].id => row'[w].media
    <2>1. CASE Same \/ Aside
      BY <2>1 DEF Same, Aside, HasMedia, Writers
    <2>2. CASE FlagRevoked
      BY <2>2, FlagRows DEF KeepsStatus, Held, HasMedia
    <2>3. ASSUME NEW n \in Mutations, Edit(n) PROVE \A w \in Writers : row'[w].id => row'[w].media
      BY <2>3, EditRows DEF KeepsStatus, Held, HasMedia
    <2>4. ASSUME NEW n \in Mutations, WriteReactions(n) PROVE \A w \in Writers : row'[w].id => row'[w].media
      <3>1. copy[n].read
        BY <2>4 DEF WriteReactions
      <3> QED BY <2>4, <3>1, ReactRows DEF KeepsStatus, Held, HasMedia
    <2>5. ASSUME NEW t \in Ticks, FirstTry(t) \/ SecondTry(t) PROVE \A w \in Writers : row'[w].id => row'[w].media
      BY <2>5, TryRows DEF FirstTry, SecondTry, Held, HasMedia
    <2>6. ~Merge /\ ~Save /\ \A w \in Writers : ~New(w)
      BY <1>0 DEF Request, New
    <2> QED BY <2>1, <2>2, <2>3, <2>4, <2>5, <2>6, RowKinds, Writing
  <1>2. \A n \in Mutations : copy'[n].read => copy'[n].media
    <2>1. CASE UNCHANGED mutations
      BY <2>1 DEF mutations, HasMedia
    <2>2. ASSUME NEW n \in Mutations,
                 Enqueued(n) \/ Edit(n) \/ ReadReactions(n) \/ WriteReactions(n) \/ MutationFault(n)
          PROVE  \A m \in Mutations : copy'[m].read => copy'[m].media
      <3>1. CASE ReadReactions(n)
        <4>1. PICK w \in Writers :
                /\ row[w].id
                /\ copy' = [copy EXCEPT ![n] = [read |-> TRUE, reacts |-> row[w].reacts, media |-> row[w].media]]
          BY <1>0, <3>1 DEF ReadReactions
        <4>2. copy'[n].media = row[w].media
          BY <1>0, <4>1 DEF CopyTyped
        <4> QED BY <1>0, <4>1, <4>2 DEF HasMedia, CopyTyped
      <3>2. CASE Enqueued(n) \/ Edit(n) \/ WriteReactions(n) \/ MutationFault(n)
        BY <1>0, <3>2, NoCopyTyped DEF Enqueued, Edit, WriteReactions, MutationFault, Settles,
           HasMedia, CopyTyped
      <3> QED BY <2>2, <3>1, <3>2
    <2> QED BY <1>0, <2>1, <2>2, MutationsApart DEF MutationStep
  <1> QED BY <1>1, <1>2 DEF HasMedia

LEMMA MediaRequest ==
  ASSUME TypeOK, Placed, Chained, SettledReq, ~mixed => (Claims => HasMedia), Next, Calm', ~mixed',
         Claims', Request
  PROVE  HasMedia'
  <1>0. /\ RowOfRest /\ Wired /\ ReqTyped /\ Rest \in Writers /\ ~RequestFault /\ ~mixed
        /\ ~(Rejected /\ onWire)
    BY PartsOf, CalmBefore, HistoryStays, Writing DEF Placed, Parts, ReqParts
  <1>1. CASE Save
    <2>1. req.id /\ New(Rest) /\ row'[Rest].media = req.media /\ req.media
      BY <1>0, <1>1, SaveRows DEF Save, To, ReqTyped, Claims, Aside
    <2>2. \A w \in Writers : row'[w].id => w = Rest
      BY <1>0, <2>1, NewKnown
    <2>3. \A n \in Mutations : ~copy'[n].read
      BY <1>1, <2>1 DEF Save, mutations, New, Chained, Waiting
    <2> QED BY <2>1, <2>2, <2>3 DEF HasMedia
  <1>2. CASE Merge
    <2>1. req.media /\ \A n \in Mutations : ~copy'[n].read
      BY <1>0, <1>2 DEF Merge, To, ReqTyped, Claims, mutations
    <2> QED BY <1>2, <2>1, MergeRows DEF Held, HasMedia
  <1>3. CASE Drop
    <2>1. Claims
      BY <1>0, <1>3 DEF Drop, To, At, ReqTyped, Claims, Saved
    <2> QED BY <1>0, <1>3, <2>1, DropRows DEF Drop, Aside, HasMedia, Writers, mutations
  <1>4. ~Send /\ ~SaveFailed /\ ~Accepted /\ ~Returned /\ ~Conflict /\ ~Rejected
    <2>1. ~Send
      BY <1>0 DEF Send, ReqTyped, Claims, RowOfRest
    <2>2. ~SaveFailed
      BY <1>0 DEF SaveFailed, To, At, ReqTyped, Claims, Wired, SettledReq
    <2>3. ~Accepted /\ ~Conflict /\ ~Returned
      BY <1>0 DEF Accepted, Conflict, Returned, To, At, ReqTyped, Claims, Saved, RowOfRest
    <2>4. ~Rejected
      BY <1>0 DEF Rejected, To, At, ReqTyped, Claims, Wired
    <2> QED BY <2>1, <2>2, <2>3, <2>4
  <1> QED BY <1>0, <1>1, <1>2, <1>3, <1>4 DEF Request

LEMMA MediaStep ==
  ASSUME TypeOK, Placed, Chained, Settled, MediaKept, [Next]_vars
  PROVE  MediaKept'
  <1>1. ASSUME Next, Calm', ~mixed', Claims' PROVE HasMedia'
    <2>1. Calm /\ ~mixed /\ SettledReq
      BY <1>1, CalmBefore, HistoryStays DEF Settled, SettledReq
    <2>2. Claims => HasMedia
      BY <2>1 DEF MediaKept, Claims, HasMedia
    <2>3. CASE Request
      BY <1>1, <2>1, <2>2, <2>3, MediaRequest
    <2>4. CASE ~Request
      <3>1. req' = req
        BY <1>1, <2>4, ReqKinds, CalmBefore
      <3>2. row'[Rest].id => row[Rest].id
        BY <1>1, <2>4, RowCases, Writing DEF Same, Aside, HeldShown, Held, Request, New
      <3>3. Claims
        BY <1>1, <3>1, <3>2 DEF Claims, Saved
      <3> QED BY <1>1, <2>1, <2>2, <2>4, <3>3, MediaApart
    <2> QED BY <2>3, <2>4
  <1>2. CASE UNCHANGED vars
    BY <1>2 DEF vars, mutations, history, bounds, MediaKept, Calm, Saved
  <1> QED BY <1>1, <1>2 DEF MediaKept, HasMedia, Claims

LEMMA StoredByInv ==
  ASSUME TypeOK, Placed, Settled, MediaKept
  PROVE  StoredOnce
  <1> SUFFICES ASSUME Calm, Quiet
               PROVE  \E w \in Writers :
                        /\ \A v \in Writers : row[v].status # "none" <=> v = w
                        /\ row[w].id = onWire
                        /\ row[w].status # "PENDING"
                        /\ row[w].status = "FAILED" => ~onWire \/ "FAILED" \in Came
                        /\ onWire /\ req.media /\ ~mixed => row[w].media
    BY DEF StoredOnce
  <1>0. /\ RowOfRest /\ Wired /\ Shown /\ (\A f \in Fires : RowOfFire(f)) /\ SettledReq /\ SettledFires
        /\ OneId /\ (\A w \in Writers : row[w].id \in BOOLEAN) /\ onWire \in BOOLEAN
    BY PartsOf, RowFields DEF Placed, Settled, SettledReq, SettledFires, Parts, ReqParts, RowsTyped
  <1>1. CASE ~onWire
    <2>1. origin = "api" /\ At("ended") /\ row[Rest].status = "FAILED" /\ ~Known
      BY <1>0, <1>1 DEF Quiet, Wired, SettledReq, Unsent
    <2>2. \A v \in Writers : row[v].status # "none" <=> v = Rest
      BY <1>0, <2>1, Writing DEF RowOfFire, Known, Writers
    <2> QED BY <1>0, <1>1, <2>1, <2>2, Writing DEF Known
  <1>2. CASE onWire
    <2>1. Known /\ (row[Rest].status # "none" => row[Rest].id)
      <3>1. CASE origin = "api"
        BY <1>0, <1>2, <3>1, Writing DEF Quiet, SettledReq, Known
      <3>2. CASE origin # "api"
        BY <1>0, <3>2 DEF Quiet, SettledFires, Wired, RowOfRest
      <3> QED BY <3>1, <3>2
    <2>2. PICK w \in Writers : row[w].id
      BY <2>1 DEF Known
    <2>3. \A v \in Writers : row[v].status # "none" <=> v = w
      BY <1>0, <2>1, <2>2 DEF RowOfFire, RowOfRest, OneId, Writers
    <2>4. row[w].status \in {"SENT"} \cup Came
      BY <1>0, <2>2 DEF Shown
    <2>5. row[w].status # "PENDING" /\ (row[w].status = "FAILED" => "FAILED" \in Came)
      BY <2>4, CameTicks
    <2>6. req.media /\ ~mixed => row[w].media
      <3>1. CASE origin = "api"
        BY <1>2, <2>2, <3>1 DEF Quiet, MediaKept, Saved, At
      <3>2. CASE origin # "api"
        BY <1>0, <3>2 DEF Wired, RowOfRest
      <3> QED BY <3>1, <3>2
    <2> QED BY <1>0, <1>2, <2>2, <2>3, <2>5, <2>6
  <1> QED BY <1>0, <1>1, <1>2

\* Without a fault or a stop a message ends as one row, under its id, with its media.
THEOREM StoredOnceAlways == Spec => []StoredOnce
  <1>1. Init => MediaKept
    <2> SUFFICES ASSUME Init PROVE MediaKept
      OBVIOUS
    <2>1. ~req.media
      BY DEF Init
    <2> QED BY <2>1 DEF MediaKept
  <1>2. QueueInv => Chained
    BY DEF QueueInv
  <1> QED BY <1>1, <1>2, QueueInit, QueueStep, MediaStep, StoredByInv, AlwaysPlaced, AlwaysSettled, PTL
     DEF Spec
=============================================================================
