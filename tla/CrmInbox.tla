------------------------------ MODULE CrmInbox ------------------------------
(***************************************************************************)
(* The CRM backend (backend/src): the webhook receiver, the send route and  *)
(* the contact routes over one Postgres database.  Every handler is a few   *)
(* queries with nothing around them, so the steps are the queries.          *)
(*                                                                          *)
(* OpenWA posts an event as soon as it happened, in any order, and again    *)
(* while an earlier POST is still being handled (it timed out) or after it  *)
(* was answered (OpenWA crashed).  The chats are those of one customer.     *)
(***************************************************************************)
EXTENDS Integers, Sequences

CONSTANTS
  Incoming,   \* messages the customer writes
  Anonymous,  \* those sent in a group without the sender's phone
  Outgoing,   \* texts the operator sends
  Requests,   \* webhook requests the backend handles at the same time
  MaxFaults,  \* bound on failed queries and crashes
  MaxManual   \* bound on contacts the operator creates

ASSUME CrmAssumption ==
  /\ Anonymous \subseteq Incoming
  /\ Incoming \cap Outgoing = {}
  /\ MaxFaults \in Nat /\ MaxManual \in Nat

VARIABLES
  messages,  \* table messages: for a message and the route that wrote it, its rows' status
  contacts,  \* table contacts: the row with the customer's wa_id, the rows without
  request,   \* where each webhook request is, with its event
  sending,   \* where POST /:chatId/messages is for each text
  creating,  \* POST /contacts is between its two queries
  wa,        \* what WhatsApp reported of each text so far
  answered,  \* messages whose event was answered 2xx
  deleted,   \* the operator has deleted a contact
  faults

waVars == <<sending, wa>>
contactVars == <<contacts, creating, deleted>>
vars == <<messages, contactVars, request, waVars, answered, faults>>

Msgs == Incoming \cup Outgoing
\* The webhook's rows have an idempotency_key, the send route's have none.
Cells == Msgs \X {"webhook", "send"}
Ticks == <<"none", "sent", "delivered", "read">>
Statuses == {"received", "sent", "delivered", "read"}

Events ==
  [kind : {"message"}, msg : Msgs, status : {"received", "sent"}]
    \cup [kind : {"ack"}, msg : Outgoing, status : {"sent", "delivered", "read"}]

Free == [at |-> "free"]

Init ==
  /\ messages = [c \in Cells |-> <<>>]
  /\ contacts = [auto |-> FALSE, manual |-> 0]
  /\ request = [r \in Requests |-> Free]
  /\ sending = [m \in Outgoing |-> "idle"]
  /\ creating = FALSE
  /\ wa = [m \in Outgoing |-> 1]
  /\ answered = {}
  /\ deleted = FALSE
  /\ faults = 0

HasKey(m) == messages[<<m, "webhook">>] # <<>>
HasRow(m) == HasKey(m) \/ messages[<<m, "send">>] # <<>>
Known == contacts.auto \/ contacts.manual > 0

Insert(m, by, status) ==
  messages' = [messages EXCEPT ![<<m, by>>] = Append(@, status)]

To(r, l) == request' = [request EXCEPT ![r] = [at |-> l, event |-> request[r].event]]
At(r, l) == request[r].at = l
Msg(r) == request[r].event.msg

\* res.json: 2xx.
Reply(r) ==
  /\ answered' = answered \cup {m \in {Msg(r)} : request[r].event.kind = "message"}
  /\ request' = [request EXCEPT ![r] = Free]

\* The error handler: 500 or 503, or no answer.
Reject(r) ==
  /\ faults < MaxFaults
  /\ faults' = faults + 1
  /\ request' = [request EXCEPT ![r] = Free]
  /\ UNCHANGED answered

-----------------------------------------------------------------------------
(* WhatsApp and OpenWA *)

\* WhatsApp takes the text, then reports it delivered, then read.
Reports(m) ==
  /\ sending[m] # "idle" /\ wa[m] < Len(Ticks)
  /\ wa' = [wa EXCEPT ![m] = @ + 1]
  /\ UNCHANGED <<messages, contactVars, request, sending, answered, faults>>

Happened ==
  {e \in Events :
     CASE e.kind = "ack"      -> \E t \in 2..wa[e.msg] : Ticks[t] = e.status
       [] e.msg \in Incoming  -> e.status = "received"
       [] e.msg \in Outgoing  -> e.status = "sent" /\ wa[e.msg] > 1}

Post(r) ==
  /\ At(r, "free")
  /\ \E e \in Happened : request' = [request EXCEPT ![r] = [at |-> "key", event |-> e]]
  /\ UNCHANGED <<messages, contactVars, waVars, answered, faults>>

-----------------------------------------------------------------------------
(* POST /api/webhook/openwa *)

\* isDuplicate, then the switch on the event.
IsDuplicate(r) ==
  /\ At(r, "key")
  /\ LET e == request[r].event IN
     IF e.kind = "message" /\ HasKey(e.msg)
     THEN Reply(r)
     ELSE To(r, IF e.kind = "message" THEN "select" ELSE "update") /\ UNCHANGED answered
  /\ UNCHANGED <<messages, contactVars, waVars, faults>>

\* handleMessage: SELECT by wa_message_id.
SelectMessage(r) ==
  /\ At(r, "select")
  /\ IF HasRow(Msg(r)) THEN Reply(r) ELSE To(r, "insert") /\ UNCHANGED answered
  /\ UNCHANGED <<messages, contactVars, waVars, faults>>

\* Mutant: idempotency_key is not UNIQUE.
NoConflict(m) == FALSE
\* 23505 on idempotency_key.
Conflict(m) == HasKey(m)

\* Mutant: the contact is created for the messages sent.
WritesContactOfSent(m) == m \notin Incoming
\* rowCount = 1 && !fromMe, and upsertContact finds a phone.
WritesContact(m) == m \in Incoming \ Anonymous

\* handleMessage: INSERT INTO messages.
InsertMessage(r) ==
  /\ At(r, "insert")
  /\ IF Conflict(Msg(r))
     THEN Reply(r) /\ UNCHANGED messages
     ELSE /\ Insert(Msg(r), "webhook", request[r].event.status)
          /\ IF WritesContact(Msg(r)) THEN To(r, "contact") /\ UNCHANGED answered ELSE Reply(r)
  /\ UNCHANGED <<contactVars, waVars, faults>>

\* upsertContact: SELECT by phone or wa_id.
SelectContact(r) ==
  /\ At(r, "contact")
  /\ IF Known THEN Reply(r) ELSE To(r, "addContact") /\ UNCHANGED answered
  /\ UNCHANGED <<messages, contactVars, waVars, faults>>

\* upsertContact: INSERT; a conflict on wa_id is caught like one on the message.
InsertContact(r) ==
  /\ At(r, "addContact")
  /\ contacts' = [contacts EXCEPT !.auto = TRUE]
  /\ Reply(r)
  /\ UNCHANGED <<messages, creating, deleted, waVars, faults>>

\* Mutant: whatever the row says.
Ticked(old, new) == new
\* UPDATE messages SET status = $1 WHERE wa_message_id = $2 AND status != 'read'
Tick(old, new) == IF old = "read" THEN old ELSE new

\* handleAck.
HandleAck(r) ==
  /\ At(r, "update")
  /\ messages' = [c \in Cells |->
       IF c[1] = Msg(r)
       THEN [k \in DOMAIN messages[c] |-> Tick(messages[c][k], request[r].event.status)]
       ELSE messages[c]]
  /\ Reply(r)
  /\ UNCHANGED <<contactVars, waVars, faults>>

\* Mutant: handleMessage's catch returns whatever the error.
CatchAll(r) ==
  \/ At(r, "insert") /\ Reply(r) /\ faults < MaxFaults /\ faults' = faults + 1
  \/ ~At(r, "insert") /\ Reject(r)
\* err.code = '23505' is the only error handleMessage keeps to itself.
Rethrow(r) == Reject(r)

\* A query fails, before it took effect or after.
QueryFails(r) ==
  /\ ~At(r, "free")
  /\ Rethrow(r)
  /\ \/ UNCHANGED <<messages, contacts>>
     \/ /\ At(r, "insert") /\ ~Conflict(Msg(r))
        /\ Insert(Msg(r), "webhook", request[r].event.status)
        /\ UNCHANGED contacts
     \/ /\ At(r, "addContact")
        /\ contacts' = [contacts EXCEPT !.auto = TRUE]
        /\ UNCHANGED messages
  /\ UNCHANGED <<creating, deleted, waVars>>

-----------------------------------------------------------------------------
(* POST /:chatId/messages *)

SendText(m) ==
  /\ sending[m] = "idle"
  /\ sending' = [sending EXCEPT ![m] = "calling"]
  /\ UNCHANGED <<messages, contactVars, request, wa, answered, faults>>

\* sendText() resolves once OpenWA has sent the text, or throws after 30 s, or because
\* OpenWA failed, whatever WhatsApp did with the text.
SendAnswered(m) ==
  /\ sending[m] = "calling"
  /\ \/ wa[m] > 1 /\ sending' = [sending EXCEPT ![m] = "insert"] /\ UNCHANGED faults
     \/ /\ faults < MaxFaults /\ faults' = faults + 1
        /\ sending' = [sending EXCEPT ![m] = "failed"]
  /\ UNCHANGED <<messages, contactVars, request, wa, answered>>

\* The row of the text, without an idempotency_key.
InsertSent(m) ==
  /\ sending[m] = "insert"
  /\ \/ /\ Insert(m, "send", "sent")
        /\ sending' = [sending EXCEPT ![m] = "done"]
        /\ UNCHANGED faults
     \/ /\ faults < MaxFaults /\ faults' = faults + 1
        /\ sending' = [sending EXCEPT ![m] = "failed"]
        /\ Insert(m, "send", "sent") \/ UNCHANGED messages
  /\ UNCHANGED <<contactVars, request, wa, answered>>

-----------------------------------------------------------------------------
(* POST /contacts, DELETE /contacts/:id *)

\* findContactByPhone; 409 when it finds one.
FindContact ==
  /\ ~creating /\ ~Known /\ contacts.manual < MaxManual
  /\ creating' = TRUE
  /\ UNCHANGED <<messages, contacts, deleted, request, waVars, answered, faults>>

CreateContact ==
  /\ creating
  /\ creating' = FALSE
  /\ contacts' = [contacts EXCEPT !.manual = @ + 1]
  /\ UNCHANGED <<messages, deleted, request, waVars, answered, faults>>

DeleteContact ==
  /\ \/ contacts.auto /\ contacts' = [contacts EXCEPT !.auto = FALSE]
     \/ contacts.manual > 0 /\ contacts' = [contacts EXCEPT !.manual = @ - 1]
  /\ deleted' = TRUE
  /\ UNCHANGED <<messages, creating, request, waVars, answered, faults>>

\* The backend dies between two queries of every handler.
Crash ==
  /\ faults < MaxFaults
  /\ faults' = faults + 1
  /\ request' = [r \in Requests |-> Free]
  /\ sending' = [m \in Outgoing |->
       IF sending[m] \in {"calling", "insert"} THEN "failed" ELSE sending[m]]
  /\ creating' = FALSE
  /\ UNCHANGED <<messages, contacts, deleted, wa, answered>>

-----------------------------------------------------------------------------
Handle(r) ==
  \/ IsDuplicate(r) \/ SelectMessage(r) \/ InsertMessage(r)
  \/ SelectContact(r) \/ InsertContact(r) \/ HandleAck(r)

Next ==
  \/ \E r \in Requests : Post(r) \/ Handle(r) \/ QueryFails(r)
  \/ \E m \in Outgoing : Reports(m) \/ SendText(m) \/ SendAnswered(m) \/ InsertSent(m)
  \/ FindContact \/ CreateContact \/ DeleteContact
  \/ Crash

Spec == Init /\ [][Next]_vars

-----------------------------------------------------------------------------
(* Properties *)

Spots == {"key", "select", "insert", "contact", "addContact", "update"}

\* Each field keeps its shape, and a request only ever writes a contact for a stored
\* message the customer wrote.
TypeOK ==
  /\ messages \in [Cells -> Seq(Statuses)]
  /\ contacts \in [auto : BOOLEAN, manual : 0..MaxManual]
  /\ request \in [Requests -> {Free} \cup [at : Spots, event : Events]]
  /\ sending \in [Outgoing -> {"idle", "calling", "insert", "done", "failed"}]
  /\ creating \in BOOLEAN /\ deleted \in BOOLEAN
  /\ creating => contacts.manual < MaxManual
  /\ wa \in [Outgoing -> 1..Len(Ticks)]
  /\ answered \subseteq Msgs
  /\ faults \in 0..MaxFaults
  /\ \A r \in Requests :
       /\ At(r, "update") => request[r].event.kind = "ack"
       /\ At(r, "contact") \/ At(r, "addContact") => Msg(r) \in Incoming /\ HasKey(Msg(r))

\* An event that is posted many times, at once or after a crash, makes one row; the send
\* route adds at most its own.
OneRowPerEvent == \A c \in Cells : Len(messages[c]) <= 1

\* A 2xx means that the message is in the table: OpenWA never sends it again.
AckedIsStored == \A m \in answered : HasRow(m)

\* While no query has failed and no contact was deleted, a customer whose message was
\* answered, and is handled by no request any more, is in the contacts: the duplicate
\* request that is answered first does not make the contact be skipped.
ContactBehindMessage ==
  \A m \in answered :
    /\ m \in Incoming \ Anonymous
    /\ faults = 0 /\ ~deleted
    /\ \A r \in Requests : At(r, "free") \/ Msg(r) # m
    => Known

\* A text that reads 'read' reads 'read' for good, whatever acks come late.
ReadStays ==
  \A c \in Cells : \A k \in DOMAIN messages[c] :
    messages[c][k] = "read" => messages'[c][k] = "read"
ReadIsFinal == [][ReadStays]_vars

\* Each WhatsApp message is one line of its conversation.
NoDuplicateRow == \A m \in Msgs : Len(messages[<<m, "webhook">>]) + Len(messages[<<m, "send">>]) <= 1
=============================================================================
