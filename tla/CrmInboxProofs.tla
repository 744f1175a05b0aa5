--------------------------- MODULE CrmInboxProofs ---------------------------
(***************************************************************************)
(* Proofs about CrmInbox: what the two SELECTs of the webhook handler do    *)
(* not give, the UNIQUE constraint and the single INSERT of each route do.  *)
(***************************************************************************)
EXTENDS CrmInbox, SequenceTheorems, TLAPS

Table == [Cells -> Seq(Statuses)]
Working == [at : Spots, event : Events]

\* A text has no row of the send route's until that route has run its INSERT, and what
\* the customer writes never has one.
SendRows ==
  /\ \A m \in Incoming : messages[<<m, "send">>] = <<>>
  /\ \A m \in Outgoing :
       sending[m] \in {"idle", "calling", "insert"} => messages[<<m, "send">>] = <<>>

\* The inductive invariant.
IInv == TypeOK /\ SendRows /\ OneRowPerEvent /\ AckedIsStored

-----------------------------------------------------------------------------
(* What the helpers of the handlers do *)

\* An event is about a known message and carries one of the stored statuses.
LEMMA EventFields ==
  ASSUME NEW e \in Events
  PROVE  e.msg \in Msgs /\ e.status \in Statuses
BY DEF Events, Msgs, Statuses

\* A request that is being handled is at one of the handler's awaits, with its event.
LEMMA Busy ==
  ASSUME TypeOK, NEW r \in Requests, ~At(r, "free")
  PROVE  /\ request[r] \in Working
         /\ Msg(r) \in Msgs
         /\ request[r].event.status \in Statuses
<1>1. request[r] \in Working
  BY DEF TypeOK, At, Working, Free
<1> QED BY <1>1, EventFields DEF Working, Msg

\* An INSERT into an empty cell fills that cell and touches no other.
LEMMA InsertOne ==
  ASSUME messages \in Table, NEW m \in Msgs, NEW by \in {"webhook", "send"}, NEW s \in Statuses,
         messages[<<m, by>>] = <<>>, Insert(m, by, s)
  PROVE  /\ messages' \in Table
         /\ messages'[<<m, by>>] = <<s>>
         /\ \A c \in Cells : c # <<m, by>> => messages'[c] = messages[c]
<1>1. <<m, by>> \in Cells
  BY DEF Cells
<1>2. Append(<<>>, s) = <<s>> /\ <<s>> \in Seq(Statuses)
  OBVIOUS
<1> QED BY <1>1, <1>2 DEF Insert, Table

\* Moving a request to another await keeps its event.
LEMMA Moved ==
  ASSUME TypeOK, NEW r \in Requests, ~At(r, "free"), NEW l \in Spots, To(r, l)
  PROVE  /\ request' \in [Requests -> {Free} \cup Working]
         /\ request'[r].at = l /\ request'[r].event = request[r].event
         /\ \A q \in Requests \ {r} : request'[q] = request[q]
<1>1. request[r] \in Working
  BY Busy
<1>2. [at |-> l, event |-> request[r].event] \in Working
  BY <1>1 DEF Working
<1>3. request \in [Requests -> {Free} \cup Working]
  BY DEF TypeOK, Working
<1>4. request' = [request EXCEPT ![r] = [at |-> l, event |-> request[r].event]]
  BY DEF To
<1> QED BY <1>1, <1>2, <1>3, <1>4 DEF Working

\* A request that ends becomes free and leaves the others alone.
LEMMA Freed ==
  ASSUME TypeOK, NEW r \in Requests, request' = [request EXCEPT ![r] = Free]
  PROVE  /\ request' \in [Requests -> {Free} \cup Working]
         /\ request'[r].at = "free"
         /\ \A q \in Requests \ {r} : request'[q] = request[q]
BY DEF TypeOK, Working, Free

-----------------------------------------------------------------------------
(* The parts of the invariant under the three things that happen to the table *)

Waiting == {"idle", "calling", "insert"}
RowsInv == SendRows /\ OneRowPerEvent /\ AckedIsStored

\* A step that leaves the table alone, and answers only for messages that are in it.
LEMMA TableKept ==
  ASSUME IInv, UNCHANGED messages,
         \A m \in answered' : m \in answered \/ HasRow(m),
         \A m \in Outgoing : sending'[m] \in Waiting => sending[m] \in Waiting
  PROVE  RowsInv'
<1>1. SendRows'
  BY DEF IInv, SendRows, Waiting
<1>2. OneRowPerEvent'
  BY DEF IInv, OneRowPerEvent
<1>3. AckedIsStored'
  BY DEF IInv, AckedIsStored, HasRow, HasKey
<1> QED BY <1>1, <1>2, <1>3 DEF RowsInv

\* A step that fills an empty cell of the table.
LEMMA TableFilled ==
  ASSUME IInv, NEW m \in Msgs, NEW by \in {"webhook", "send"}, NEW s \in Statuses,
         messages[<<m, by>>] = <<>>, Insert(m, by, s),
         by = "send" => m \in Outgoing /\ sending'[m] \notin Waiting,
         \A n \in answered' : n \in answered \/ n = m \/ HasRow(n),
         answered' \subseteq Msgs,
         \A n \in Outgoing : sending'[n] \in Waiting => sending[n] \in Waiting
  PROVE  /\ messages' \in Table /\ RowsInv'
         /\ \A n \in Msgs : HasKey(n) => HasKey(n)'
         /\ by = "webhook" => HasKey(m)'
<1>1. /\ messages \in Table /\ messages' \in Table
      /\ messages'[<<m, by>>] = <<s>>
      /\ \A c \in Cells : c # <<m, by>> => messages'[c] = messages[c]
  <2>1. messages \in Table
    BY DEF IInv, TypeOK, Table
  <2> QED BY <2>1, InsertOne
<1>2. \A n \in Msgs : <<n, "webhook">> \in Cells /\ <<n, "send">> \in Cells
  BY DEF Cells
<1>3. <<s>> # <<>> /\ Len(<<s>>) = 1
  OBVIOUS
<1>4. SendRows'
  <2>1. ASSUME NEW n \in Incoming PROVE messages'[<<n, "send">>] = <<>>
    <3>1. n \in Msgs /\ messages[<<n, "send">>] = <<>>
      BY DEF IInv, SendRows, Msgs
    <3>2. <<n, "send">> # <<m, by>>
      BY CrmAssumption
    <3> QED BY <1>1, <1>2, <3>1, <3>2
  <2>2. ASSUME NEW n \in Outgoing, sending'[n] \in Waiting
        PROVE  messages'[<<n, "send">>] = <<>>
    <3>1. n \in Msgs /\ messages[<<n, "send">>] = <<>>
      BY <2>2 DEF IInv, SendRows, Msgs, Waiting
    <3>2. <<n, "send">> # <<m, by>>
      BY <2>2
    <3> QED BY <1>1, <1>2, <3>1, <3>2
  <2> QED BY <2>1, <2>2 DEF SendRows, Waiting
<1>5. OneRowPerEvent'
  <2> SUFFICES ASSUME NEW c \in Cells PROVE Len(messages'[c]) <= 1
    BY DEF OneRowPerEvent
  <2>1. CASE c = <<m, by>>
    BY <1>1, <1>3, <2>1
  <2>2. CASE c # <<m, by>>
    BY <1>1, <2>2 DEF IInv, OneRowPerEvent
  <2> QED BY <2>1, <2>2
<1>6. \A n \in Msgs : (HasKey(n) => HasKey(n)') /\ (HasRow(n) => HasRow(n)')
  BY <1>1, <1>2, <1>3 DEF HasKey, HasRow
<1>7. HasRow(m)' /\ (by = "webhook" => HasKey(m)')
  BY <1>1, <1>3 DEF HasRow, HasKey
<1>8. AckedIsStored'
  BY <1>6, <1>7 DEF AckedIsStored, IInv
<1> QED BY <1>1, <1>4, <1>5, <1>6, <1>7, <1>8 DEF RowsInv

\* An acknowledgement changes the status of the rows there are.
LEMMA TableTicked ==
  ASSUME IInv, NEW m \in Msgs, NEW s \in Statuses,
         messages' = [c \in Cells |->
           IF c[1] = m THEN [k \in DOMAIN messages[c] |-> Tick(messages[c][k], s)]
           ELSE messages[c]],
         \A n \in answered' : n \in answered, UNCHANGED sending
  PROVE  /\ messages' \in Table /\ RowsInv'
         /\ \A n \in Msgs : HasKey(n) => HasKey(n)'
<1>1. messages \in Table
  BY DEF IInv, TypeOK, Table
<1>2. ASSUME NEW c \in Cells
      PROVE  /\ messages'[c] \in Seq(Statuses)
             /\ Len(messages'[c]) = Len(messages[c])
  <2>1. messages[c] \in Seq(Statuses)
    BY <1>1 DEF Table
  <2>2. CASE c[1] = m
    <3> DEFINE Q == messages[c]
               T == [k \in DOMAIN Q |-> Tick(Q[k], s)]
    <3>1. DOMAIN Q = 1..Len(Q) /\ Len(Q) \in Nat /\ \A k \in DOMAIN Q : Q[k] \in Statuses
      BY <2>1
    <3>2. \A k \in DOMAIN Q : Tick(Q[k], s) \in Statuses
      BY <3>1 DEF Tick
    <3>3. T \in [1..Len(Q) -> Statuses]
      BY <3>1, <3>2
    <3>4. T \in Seq(Statuses) /\ Len(T) = Len(Q)
      BY <3>1, <3>3, SeqDef, LenProperties
    <3>5. messages'[c] = T
      BY <2>2
    <3> QED BY <3>4, <3>5
  <2>3. CASE c[1] # m
    BY <2>1, <2>3
  <2> QED BY <2>2, <2>3
<1>3. messages' \in Table
  BY <1>2 DEF Table
<1>4. \A c \in Cells : messages'[c] = <<>> <=> messages[c] = <<>>
  <2> TAKE c \in Cells
  <2>1. messages[c] \in Seq(Statuses) /\ messages'[c] \in Seq(Statuses)
    BY <1>1, <1>3 DEF Table
  <2>2. \A q \in Seq(Statuses) : q = <<>> <=> Len(q) = 0
    BY EmptySeq
  <2> QED BY <1>2, <2>1, <2>2
<1>5. \A n \in Msgs : <<n, "webhook">> \in Cells /\ <<n, "send">> \in Cells
  BY DEF Cells
<1>6. \A n \in Msgs : (HasKey(n)' <=> HasKey(n)) /\ (HasRow(n)' <=> HasRow(n))
  BY <1>4, <1>5 DEF HasKey, HasRow
<1>7. SendRows'
  BY <1>4, <1>5 DEF IInv, SendRows, Msgs
<1>8. OneRowPerEvent'
  BY <1>2 DEF IInv, OneRowPerEvent
<1>9. AckedIsStored'
  BY <1>6 DEF IInv, AckedIsStored, TypeOK
<1> QED BY <1>3, <1>6, <1>7, <1>8, <1>9 DEF RowsInv

-----------------------------------------------------------------------------
(* The invariant *)

\* The database starts empty and nobody is being served.
LEMMA InitInv == ASSUME Init PROVE IInv
<1>1. \A c \in Cells : messages[c] = <<>>
  BY DEF Init
<1>2. \A m \in Msgs : <<m, "webhook">> \in Cells /\ <<m, "send">> \in Cells
  BY DEF Cells
<1>3. <<>> \in Seq(Statuses) /\ Len(<<>>) = 0
  OBVIOUS
<1>4. TypeOK
  <2>1. messages \in [Cells -> Seq(Statuses)]
    BY <1>3 DEF Init
  <2>2. Len(Ticks) = 4
    BY DEF Ticks
  <2>3. contacts \in [auto : BOOLEAN, manual : 0..MaxManual] /\ faults \in 0..MaxFaults
    BY CrmAssumption DEF Init
  <2>4. \A r \in Requests : request[r].at = "free"
    BY DEF Init, Free
  <2>5. wa \in [Outgoing -> 1..Len(Ticks)]
    BY <2>2 DEF Init
  <2>6. /\ request \in [Requests -> {Free} \cup [at : Spots, event : Events]]
        /\ sending \in [Outgoing -> {"idle", "calling", "insert", "done", "failed"}]
        /\ creating = FALSE /\ deleted \in BOOLEAN /\ answered \subseteq Msgs
    BY DEF Init
  <2>7. \A r \in Requests : ~At(r, "update") /\ ~At(r, "contact") /\ ~At(r, "addContact")
    BY <2>4 DEF At
  <2> QED BY <2>1, <2>3, <2>5, <2>6, <2>7 DEF TypeOK
<1>5. SendRows
  BY <1>1, <1>2 DEF SendRows, Msgs
<1>6. OneRowPerEvent
  BY <1>1, <1>3 DEF OneRowPerEvent
<1>7. AckedIsStored
  BY DEF Init, AckedIsStored
<1> QED BY <1>4, <1>5, <1>6, <1>7 DEF IInv

\* What TypeOK says of the request r.
Writing == {"contact", "addContact"}
RequestOK(r) ==
  /\ request[r].at = "update" => request[r].event.kind = "ack"
  /\ request[r].at \in Writing => Msg(r) \in Incoming /\ HasKey(Msg(r))

\* TypeOK after a step that changes at most one request, whatever it does to the rest.
LEMMA TypeKept ==
  ASSUME TypeOK, NEW r \in Requests,
         request' \in [Requests -> {Free} \cup Working],
         \A q \in Requests \ {r} : request'[q] = request[q],
         RequestOK(r)', messages' \in Table,
         \A n \in Msgs : HasKey(n) => HasKey(n)',
         contacts' \in [auto : BOOLEAN, manual : 0..MaxManual],
         contacts'.manual = contacts.manual,
         answered' \subseteq Msgs, faults' \in 0..MaxFaults,
         UNCHANGED <<creating, deleted, sending, wa>>
  PROVE  TypeOK'
<1>1. ASSUME NEW q \in Requests PROVE RequestOK(q)'
  <2>1. CASE q = r
    BY <2>1
  <2>2. CASE q # r
    <3>1. request'[q] = request[q]
      BY <2>2
    <3>2. RequestOK(q) /\ (request[q].at \in Writing => Msg(q) \in Msgs)
      BY DEF TypeOK, RequestOK, Writing, At, Msgs
    <3> QED BY <3>1, <3>2 DEF RequestOK, Msg, HasKey
  <2> QED BY <2>1, <2>2
<1>2. \A q \in Requests :
        /\ At(q, "update")' => request'[q].event.kind = "ack"
        /\ (At(q, "contact") \/ At(q, "addContact"))' =>
             Msg(q)' \in Incoming /\ HasKey(Msg(q))'
  BY <1>1 DEF RequestOK, Writing, At
<1> QED BY <1>2 DEF TypeOK, Table, Working, Writing

\* A request that goes on to its next query.
LEMMA MovedInv ==
  ASSUME IInv, NEW r \in Requests, ~At(r, "free"), NEW l \in Spots, To(r, l),
         l = "update" => request[r].event.kind = "ack",
         l \in Writing => Msg(r) \in Incoming /\ HasKey(Msg(r)),
         UNCHANGED <<messages, contactVars, waVars, answered, faults>>
  PROVE  IInv'
<1>1. TypeOK
  BY DEF IInv
<1>2. /\ request' \in [Requests -> {Free} \cup Working]
      /\ request'[r].at = l /\ request'[r].event = request[r].event /\ Msg(r)' = Msg(r)
      /\ \A q \in Requests \ {r} : request'[q] = request[q]
  BY <1>1, Moved DEF Msg
<1>3. UNCHANGED <<messages, contacts, creating, deleted, sending, wa, answered, faults>>
  BY DEF contactVars, waVars
<1>4. \A n \in Msgs : HasKey(n)' <=> HasKey(n)
  BY <1>3 DEF HasKey
<1>5. RequestOK(r)'
  BY <1>2, <1>3 DEF RequestOK, HasKey
<1>6. TypeOK'
  BY <1>1, <1>2, <1>3, <1>4, <1>5, TypeKept DEF TypeOK, Table
<1>7. RowsInv'
  BY <1>3, TableKept
<1> QED BY <1>6, <1>7 DEF IInv, RowsInv

\* A request that ends, whatever was answered, with the table as it was.
LEMMA EndedInv ==
  ASSUME IInv, NEW r \in Requests, ~At(r, "free"),
         request' = [request EXCEPT ![r] = Free],
         \/ UNCHANGED answered
         \/ /\ answered' = answered \cup {m \in {Msg(r)} : request[r].event.kind = "message"}
            /\ request[r].event.kind = "message" => HasRow(Msg(r)),
         contacts' \in [auto : BOOLEAN, manual : 0..MaxManual],
         contacts'.manual = contacts.manual, faults' \in 0..MaxFaults,
         UNCHANGED <<messages, creating, deleted, waVars>>
  PROVE  IInv'
<1>1. TypeOK
  BY DEF IInv
<1>2. /\ request' \in [Requests -> {Free} \cup Working]
      /\ request'[r].at = "free"
      /\ \A q \in Requests \ {r} : request'[q] = request[q]
  BY <1>1, Freed
<1>3. UNCHANGED <<messages, creating, deleted, sending, wa>>
  BY DEF waVars
<1>4. \A n \in Msgs : HasKey(n)' <=> HasKey(n)
  BY <1>3 DEF HasKey
<1>5. RequestOK(r)'
  BY <1>2 DEF RequestOK, Writing
<1>6. Msg(r) \in Msgs
  BY <1>1, Busy
<1>7. answered' \subseteq Msgs /\ \A m \in answered' : m \in answered \/ HasRow(m)
  BY <1>1, <1>6 DEF TypeOK
<1>8. TypeOK'
  BY <1>1, <1>2, <1>3, <1>4, <1>5, <1>7, TypeKept DEF TypeOK, Table
<1>9. RowsInv'
  BY <1>3, <1>7, TableKept
<1> QED BY <1>8, <1>9 DEF IInv, RowsInv

\* The INSERT of the webhook, on a free key: the request replies, fails, or goes on to the
\* contact.
LEMMA WebhookRowInv ==
  ASSUME IInv, NEW r \in Requests, At(r, "insert"), ~HasKey(Msg(r)),
         Insert(Msg(r), "webhook", request[r].event.status),
         \/ Reply(r) /\ UNCHANGED faults
         \/ To(r, "contact") /\ UNCHANGED <<answered, faults>> /\ Msg(r) \in Incoming
         \/ Reject(r),
         UNCHANGED <<contactVars, waVars>>
  PROVE  IInv'
<1>1. TypeOK /\ ~At(r, "free")
  BY DEF IInv, At
<1> PICK m \in Msgs : m = Msg(r)
  BY <1>1, Busy
<1> PICK s \in Statuses : s = request[r].event.status
  BY <1>1, Busy
<1>2. m \in Msgs /\ s \in Statuses /\ Insert(m, "webhook", s)
  OBVIOUS
<1>3. messages[<<m, "webhook">>] = <<>>
  BY DEF HasKey
<1>4. UNCHANGED <<contacts, creating, deleted, sending, wa>>
  BY DEF contactVars, waVars
<1>5. /\ answered' \subseteq Msgs /\ faults' \in 0..MaxFaults
      /\ \A n \in answered' : n \in answered \/ n = m \/ HasRow(n)
  BY <1>1, <1>2, CrmAssumption DEF Reply, Reject, TypeOK
<1>6. /\ messages' \in Table /\ RowsInv' /\ HasKey(m)'
      /\ \A n \in Msgs : HasKey(n) => HasKey(n)'
  BY <1>2, <1>3, <1>4, <1>5, TableFilled
<1>7. /\ request' \in [Requests -> {Free} \cup Working]
      /\ RequestOK(r)'
      /\ \A q \in Requests \ {r} : request'[q] = request[q]
  <2>1. CASE To(r, "contact") /\ Msg(r) \in Incoming
    <3>1. /\ request' \in [Requests -> {Free} \cup Working]
          /\ request'[r].at = "contact" /\ Msg(r)' = m
          /\ \A q \in Requests \ {r} : request'[q] = request[q]
      BY <1>1, <2>1, Moved DEF Msg, Spots
    <3>2. RequestOK(r)'
      BY <1>6, <2>1, <3>1 DEF RequestOK, HasKey
    <3> QED BY <3>1, <3>2
  <2>2. CASE request' = [request EXCEPT ![r] = Free]
    BY <1>1, <2>2, Freed DEF RequestOK, Writing
  <2> QED BY <2>1, <2>2 DEF Reply, Reject
<1>8. TypeOK'
  BY <1>1, <1>4, <1>5, <1>6, <1>7, TypeKept DEF TypeOK
<1> QED BY <1>6, <1>8 DEF IInv, RowsInv

\* Each query of the webhook handler.
LEMMA HandleInv == ASSUME IInv, NEW r \in Requests, Handle(r) PROVE IInv'
<1>1. TypeOK /\ \A l : At(r, l) /\ l # "free" => ~At(r, "free")
  BY DEF IInv, At
<1>2. /\ contacts \in [auto : BOOLEAN, manual : 0..MaxManual] /\ faults \in 0..MaxFaults
      /\ \A m \in Msgs : HasKey(m) => HasRow(m)
  BY <1>1 DEF TypeOK, HasRow
<1>3. CASE IsDuplicate(r)
  <2>1. At(r, "key") /\ ~At(r, "free") /\ Msg(r) \in Msgs
    BY <1>1, <1>3, Busy DEF IsDuplicate
  <2>2. CASE request[r].event.kind = "message" /\ HasKey(Msg(r))
    <3>1. Reply(r) /\ UNCHANGED <<messages, contactVars, waVars, faults>>
      BY <1>3, <2>2 DEF IsDuplicate, Msg
    <3> QED BY <1>2, <2>1, <2>2, <3>1, EndedInv DEF Reply, contactVars
  <2>3. CASE ~(request[r].event.kind = "message" /\ HasKey(Msg(r)))
    <3>1. PICK l \in {"select", "update"} :
            To(r, l) /\ (l = "update" => request[r].event.kind = "ack")
      <4>1. request[r].event.kind \in {"message", "ack"}
        BY <1>1, <2>1, Busy DEF Working, Events
      <4> QED BY <1>3, <2>3, <4>1 DEF IsDuplicate, Msg
    <3>2. UNCHANGED <<messages, contactVars, waVars, answered, faults>>
      BY <1>3, <2>3 DEF IsDuplicate, Msg
    <3> QED BY <2>1, <3>1, <3>2, MovedInv DEF Spots, Writing
  <2> QED BY <2>2, <2>3
<1>4. CASE SelectMessage(r)
  <2>1. At(r, "select") /\ ~At(r, "free")
    BY <1>1, <1>4 DEF SelectMessage
  <2>2. CASE HasRow(Msg(r))
    <3>1. Reply(r) /\ UNCHANGED <<messages, contactVars, waVars, faults>>
      BY <1>4, <2>2 DEF SelectMessage
    <3> QED BY <1>2, <2>1, <2>2, <3>1, EndedInv DEF Reply, contactVars
  <2>3. CASE ~HasRow(Msg(r))
    <3>1. To(r, "insert") /\ UNCHANGED <<messages, contactVars, waVars, answered, faults>>
      BY <1>4, <2>3 DEF SelectMessage
    <3> QED BY <2>1, <3>1, MovedInv DEF Spots, Writing
  <2> QED BY <2>2, <2>3
<1>5. CASE InsertMessage(r)
  <2>1. At(r, "insert") /\ ~At(r, "free") /\ Msg(r) \in Msgs
    BY <1>1, <1>5, Busy DEF InsertMessage
  <2>2. CASE HasKey(Msg(r))
    <3>1. Reply(r) /\ UNCHANGED <<messages, contactVars, waVars, faults>>
      BY <1>5, <2>2 DEF InsertMessage, Conflict
    <3> QED BY <1>2, <2>1, <2>2, <3>1, EndedInv DEF Reply, contactVars
  <2>3. CASE ~HasKey(Msg(r))
    <3>1. /\ Insert(Msg(r), "webhook", request[r].event.status)
          /\ \/ Reply(r)
             \/ To(r, "contact") /\ UNCHANGED answered /\ Msg(r) \in Incoming
          /\ UNCHANGED <<contactVars, waVars, faults>>
      BY <1>5, <2>3 DEF InsertMessage, Conflict, WritesContact
    <3> QED BY <2>1, <2>3, <3>1, WebhookRowInv
  <2> QED BY <2>2, <2>3
<1>6. CASE SelectContact(r)
  <2>1. At(r, "contact") /\ ~At(r, "free") /\ Msg(r) \in Incoming /\ HasKey(Msg(r))
    BY <1>1, <1>6 DEF SelectContact, TypeOK, At
  <2>2. CASE Reply(r)
    <3>1. UNCHANGED <<messages, contactVars, waVars, faults>>
      BY <1>6 DEF SelectContact
    <3> QED BY <1>2, <2>1, <2>2, <3>1, EndedInv DEF Reply, contactVars, HasRow
  <2>3. CASE To(r, "addContact") /\ UNCHANGED answered
    <3>1. UNCHANGED <<messages, contactVars, waVars, answered, faults>>
      BY <1>6, <2>3 DEF SelectContact
    <3> QED BY <2>1, <2>3, <3>1, MovedInv DEF Spots
  <2> QED BY <1>6, <2>2, <2>3 DEF SelectContact
<1>7. CASE InsertContact(r)
  <2>1. ~At(r, "free") /\ HasRow(Msg(r))
    BY <1>1, <1>7 DEF InsertContact, TypeOK, At, HasRow
  <2>2. /\ contacts' \in [auto : BOOLEAN, manual : 0..MaxManual]
        /\ contacts'.manual = contacts.manual
    BY <1>2, <1>7 DEF InsertContact
  <2>3. Reply(r) /\ UNCHANGED <<messages, creating, deleted, waVars, faults>>
    BY <1>7 DEF InsertContact
  <2> QED BY <1>2, <2>1, <2>2, <2>3, EndedInv DEF Reply
<1>8. CASE HandleAck(r)
  <2>1. ~At(r, "free") /\ request[r] \in Working
    BY <1>1, <1>8, Busy DEF HandleAck
  <2> PICK m \in Msgs : m = Msg(r)
    BY <1>1, <2>1, Busy
  <2> PICK s \in Statuses : s = request[r].event.status
    BY <1>1, <2>1, Busy
  <2>2. UNCHANGED answered
    BY <1>1, <1>8 DEF HandleAck, Reply, TypeOK
  <2>3. UNCHANGED <<contacts, creating, deleted, sending, wa, faults>>
    BY <1>8 DEF HandleAck, contactVars, waVars
  <2>4. messages' = [c \in Cells |->
          IF c[1] = m THEN [k \in DOMAIN messages[c] |-> Tick(messages[c][k], s)]
          ELSE messages[c]]
    BY <1>8 DEF HandleAck
  <2>5. messages' \in Table /\ RowsInv' /\ \A n \in Msgs : HasKey(n) => HasKey(n)'
    BY <2>2, <2>3, <2>4, TableTicked
  <2>6. /\ request' \in [Requests -> {Free} \cup Working]
        /\ request'[r].at = "free"
        /\ \A q \in Requests \ {r} : request'[q] = request[q]
    BY <1>1, <1>8, Freed DEF HandleAck, Reply
  <2>7. RequestOK(r)'
    BY <2>6 DEF RequestOK, Writing
  <2>8. TypeOK'
    BY <1>1, <1>2, <2>2, <2>3, <2>5, <2>6, <2>7, TypeKept DEF TypeOK
  <2> QED BY <2>5, <2>8 DEF IInv, RowsInv
<1> QED BY <1>3, <1>4, <1>5, <1>6, <1>7, <1>8 DEF Handle

\* A query of the webhook handler that fails, before or after it took effect.
LEMMA QueryFailsInv == ASSUME IInv, NEW r \in Requests, QueryFails(r) PROVE IInv'
<1>1. TypeOK /\ ~At(r, "free") /\ Reject(r) /\ UNCHANGED <<creating, deleted, waVars>>
  BY DEF IInv, QueryFails, Rethrow
<1>2. /\ contacts \in [auto : BOOLEAN, manual : 0..MaxManual]
      /\ faults' \in 0..MaxFaults /\ UNCHANGED answered
  BY <1>1, CrmAssumption DEF TypeOK, Reject
<1>3. CASE UNCHANGED <<messages, contacts>>
  BY <1>1, <1>2, <1>3, EndedInv DEF Reject
<1>4. CASE /\ At(r, "insert") /\ ~Conflict(Msg(r))
           /\ Insert(Msg(r), "webhook", request[r].event.status)
           /\ UNCHANGED contacts
  BY <1>1, <1>4, WebhookRowInv DEF Conflict, contactVars
<1>5. CASE /\ At(r, "addContact")
           /\ contacts' = [contacts EXCEPT !.auto = TRUE]
           /\ UNCHANGED messages
  <2>1. /\ contacts' \in [auto : BOOLEAN, manual : 0..MaxManual]
        /\ contacts'.manual = contacts.manual
    BY <1>2, <1>5
  <2> QED BY <1>1, <1>2, <1>5, <2>1, EndedInv DEF Reject
<1> QED BY <1>3, <1>4, <1>5 DEF QueryFails

\* A step that neither inserts a row nor moves a request keeps the invariant.
LEMMA QuietInv ==
  ASSUME IInv, UNCHANGED <<messages, request, answered>>,
         contacts' \in [auto : BOOLEAN, manual : 0..MaxManual],
         creating' => contacts'.manual < MaxManual,
         sending' \in [Outgoing -> {"idle", "calling", "insert", "done", "failed"}],
         creating' \in BOOLEAN, deleted' \in BOOLEAN,
         wa' \in [Outgoing -> 1..Len(Ticks)], faults' \in 0..MaxFaults,
         \A m \in Outgoing : sending'[m] \in Waiting => sending[m] \in Waiting
  PROVE  IInv'
<1>1. \A r \in Requests :
        /\ At(r, "update")' => request'[r].event.kind = "ack"
        /\ (At(r, "contact") \/ At(r, "addContact"))' =>
             Msg(r)' \in Incoming /\ HasKey(Msg(r))'
  BY DEF IInv, TypeOK, At, Msg, HasKey
<1>2. TypeOK'
  BY <1>1 DEF IInv, TypeOK
<1>3. RowsInv'
  BY TableKept
<1> QED BY <1>2, <1>3 DEF IInv, RowsInv

\* WhatsApp's reports, and the send route up to its INSERT.
LEMMA SendInv ==
  ASSUME IInv, NEW m \in Outgoing, Reports(m) \/ SendText(m) \/ SendAnswered(m)
  PROVE  IInv'
<1> USE DEF IInv, TypeOK
<1>1. Len(Ticks) = 4
  BY DEF Ticks
<1>2. CASE Reports(m)
  <2>1. wa' \in [Outgoing -> 1..Len(Ticks)]
    BY <1>1, <1>2 DEF Reports
  <2> QED BY <1>2, <2>1, QuietInv DEF Reports, contactVars
<1>3. CASE SendText(m)
  <2>1. /\ sending' \in [Outgoing -> {"idle", "calling", "insert", "done", "failed"}]
        /\ \A n \in Outgoing : sending'[n] \in Waiting => sending[n] \in Waiting
    BY <1>3 DEF SendText, Waiting
  <2> QED BY <1>3, <2>1, QuietInv DEF SendText, contactVars
<1>4. CASE SendAnswered(m)
  <2>1. /\ sending' \in [Outgoing -> {"idle", "calling", "insert", "done", "failed"}]
        /\ \A n \in Outgoing : sending'[n] \in Waiting => sending[n] \in Waiting
    BY <1>4 DEF SendAnswered, Waiting
  <2>2. faults' \in 0..MaxFaults
    BY <1>4, CrmAssumption DEF SendAnswered
  <2> QED BY <1>4, <2>1, <2>2, QuietInv DEF SendAnswered, contactVars
<1> QED BY <1>2, <1>3, <1>4

\* The INSERT of the send route.
LEMMA InsertSentInv == ASSUME IInv, NEW m \in Outgoing, InsertSent(m) PROVE IInv'
<1>1. /\ sending[m] = "insert" /\ m \in Msgs /\ "sent" \in Statuses
      /\ UNCHANGED <<contacts, creating, deleted, request, wa, answered>>
  BY DEF InsertSent, contactVars, Msgs, Statuses
<1>2. /\ sending' \in [Outgoing -> {"idle", "calling", "insert", "done", "failed"}]
      /\ sending'[m] \notin Waiting
      /\ \A n \in Outgoing : sending'[n] \in Waiting => sending[n] \in Waiting
  BY DEF IInv, TypeOK, InsertSent, Waiting
<1>3. faults' \in 0..MaxFaults
  BY CrmAssumption DEF IInv, TypeOK, InsertSent
<1>4. CASE UNCHANGED messages
  BY <1>1, <1>2, <1>3, <1>4, QuietInv DEF IInv, TypeOK
<1>5. CASE Insert(m, "send", "sent")
  <2>1. messages[<<m, "send">>] = <<>>
    BY <1>1 DEF IInv, SendRows
  <2>2. /\ messages' \in Table /\ RowsInv'
        /\ \A n \in Msgs : HasKey(n) => HasKey(n)'
    BY <1>1, <1>2, <1>5, <2>1, TableFilled DEF IInv, TypeOK
  <2>3. ASSUME NEW r \in Requests
        PROVE  /\ At(r, "update")' => request'[r].event.kind = "ack"
               /\ (At(r, "contact") \/ At(r, "addContact"))' =>
                    Msg(r)' \in Incoming /\ HasKey(Msg(r))'
    <3>1. At(r, "contact") \/ At(r, "addContact") => Msg(r) \in Msgs /\ HasKey(Msg(r))
      BY DEF IInv, TypeOK, Msgs
    <3> QED BY <1>1, <2>2, <3>1 DEF IInv, TypeOK, At, Msg, HasKey
  <2>4. TypeOK'
    BY <1>1, <1>2, <1>3, <2>2, <2>3 DEF IInv, TypeOK, Table
  <2> QED BY <2>2, <2>4 DEF IInv, RowsInv
<1> QED BY <1>4, <1>5 DEF InsertSent

\* The operator's contact routes.
LEMMA ContactInv ==
  ASSUME IInv, FindContact \/ CreateContact \/ DeleteContact
  PROVE  IInv'
<1>1. /\ contacts' \in [auto : BOOLEAN, manual : 0..MaxManual]
      /\ creating' => contacts'.manual < MaxManual
  <2>1. /\ contacts \in [auto : BOOLEAN, manual : 0..MaxManual]
        /\ creating => contacts.manual < MaxManual
    BY DEF IInv, TypeOK
  <2>2. CASE FindContact
    BY <2>1, <2>2 DEF FindContact
  <2>3. CASE CreateContact
    BY <2>1, <2>3, CrmAssumption DEF CreateContact
  <2>4. CASE DeleteContact
    <3>1. CASE contacts' = [contacts EXCEPT !.auto = FALSE]
      BY <2>1, <2>4, <3>1 DEF DeleteContact
    <3>2. CASE contacts.manual > 0 /\ contacts' = [contacts EXCEPT !.manual = @ - 1]
      <4>1. contacts.manual - 1 \in 0..MaxManual
        BY <2>1, <3>2, CrmAssumption
      <4>2. contacts' \in [auto : BOOLEAN, manual : 0..MaxManual]
        BY <2>1, <3>2, <4>1
      <4>3. contacts'.manual = contacts.manual - 1 /\ UNCHANGED creating
        BY <2>1, <2>4, <3>2 DEF DeleteContact
      <4>4. contacts.manual \in Nat
        BY <2>1
      <4> QED BY <2>1, <4>2, <4>3, <4>4, CrmAssumption
    <3> QED BY <2>4, <3>1, <3>2 DEF DeleteContact
  <2> QED BY <2>2, <2>3, <2>4
<1>2. /\ creating' \in BOOLEAN /\ deleted' \in BOOLEAN
      /\ UNCHANGED <<messages, request, answered, sending, wa, faults>>
  BY DEF IInv, TypeOK, FindContact, CreateContact, DeleteContact, waVars
<1> QED BY <1>1, <1>2, QuietInv DEF IInv, TypeOK

\* A crash frees every request and ends every send that was under way.
LEMMA CrashInv == ASSUME IInv, Crash PROVE IInv'
<1>1. UNCHANGED <<messages, contacts, deleted, wa, answered>>
  BY DEF Crash
<1>2. /\ sending' \in [Outgoing -> {"idle", "calling", "insert", "done", "failed"}]
      /\ \A m \in Outgoing : sending'[m] \in Waiting => sending[m] \in Waiting
  BY DEF IInv, TypeOK, Crash, Waiting
<1>3. /\ request' \in [Requests -> {Free} \cup [at : Spots, event : Events]]
      /\ \A r \in Requests : request'[r].at = "free"
  BY DEF Crash, Free
<1>4. faults' \in 0..MaxFaults /\ creating' = FALSE
  <2>1. faults \in 0..MaxFaults
    BY DEF IInv, TypeOK
  <2> QED BY <2>1, CrmAssumption DEF Crash
<1>5. TypeOK'
  BY <1>1, <1>2, <1>3, <1>4 DEF IInv, TypeOK, At
<1>6. RowsInv'
  BY <1>1, <1>2, TableKept
<1> QED BY <1>5, <1>6 DEF IInv, RowsInv

\* OpenWA posts an event.
LEMMA PostInv == ASSUME IInv, NEW r \in Requests, Post(r) PROVE IInv'
<1>1. UNCHANGED <<messages, contacts, creating, deleted, sending, wa, answered, faults>>
  BY DEF Post, contactVars, waVars
<1>2. PICK e \in Events : request' = [request EXCEPT ![r] = [at |-> "key", event |-> e]]
  BY DEF Post, Happened
<1>3. TypeOK
  BY DEF IInv
<1>4. [at |-> "key", event |-> e] \in Working
  BY DEF Working, Spots
<1>5. /\ request' \in [Requests -> {Free} \cup Working]
      /\ request'[r].at = "key"
      /\ \A q \in Requests \ {r} : request'[q] = request[q]
  BY <1>2, <1>3, <1>4 DEF TypeOK, Working
<1>6. RequestOK(r)'
  BY <1>5 DEF RequestOK, Writing
<1>7. \A n \in Msgs : HasKey(n)' <=> HasKey(n)
  BY <1>1 DEF HasKey
<1>8. TypeOK'
  BY <1>1, <1>3, <1>5, <1>6, <1>7, TypeKept DEF TypeOK, Table
<1>9. RowsInv'
  BY <1>1, TableKept
<1> QED BY <1>8, <1>9 DEF IInv, RowsInv

\* Nothing happens.
LEMMA StutterInv == ASSUME IInv, UNCHANGED vars PROVE IInv'
  BY QuietInv DEF vars, contactVars, waVars, IInv, TypeOK

\* The invariant holds in every reachable state.
THEOREM CrmInductive == Spec => []IInv
<1>1. Init => IInv
  BY InitInv
<1>2. IInv /\ [Next]_vars => IInv'
  BY HandleInv, QueryFailsInv, SendInv, InsertSentInv, ContactInv, CrashInv, PostInv,
     StutterInv DEF Next
<1> QED BY <1>1, <1>2, PTL DEF Spec

\* Type correctness, for any messages, requests and bounds.
THEOREM CrmTypeCorrect == Spec => []TypeOK
<1>1. IInv => TypeOK
  BY DEF IInv
<1> QED BY <1>1, CrmInductive, PTL

\* However often and however concurrently an event is posted, through failed queries and
\* crashes, it makes one row.
THEOREM CrmOneRowPerEvent == Spec => []OneRowPerEvent
<1>1. IInv => OneRowPerEvent
  BY DEF IInv
<1> QED BY <1>1, CrmInductive, PTL

\* The backend never answers 2xx for a message it has not stored.
THEOREM CrmAckedIsStored == Spec => []AckedIsStored
<1>1. IInv => AckedIsStored
  BY DEF IInv
<1> QED BY <1>1, CrmInductive, PTL

\* A row inserted on its own cell hides no row that was there.
LEMMA ReadKeptByInsert ==
  ASSUME IInv, NEW m \in Msgs, NEW by \in {"webhook", "send"}, NEW s \in Statuses,
         messages[<<m, by>>] = <<>>, Insert(m, by, s)
  PROVE  ReadStays
<1>1. messages \in Table
  BY DEF IInv, TypeOK, Table
<1>2. \A c \in Cells : c # <<m, by>> => messages'[c] = messages[c]
  BY <1>1, InsertOne
<1>3. DOMAIN messages[<<m, by>>] = {}
  OBVIOUS
<1> QED BY <1>2, <1>3 DEF ReadStays

\* No step of any handler takes a text back from 'read', whatever order the
\* acknowledgements come in.
THEOREM CrmReadIsFinal == Spec => ReadIsFinal
<1>1. IInv /\ [Next]_vars => [ReadStays]_vars
  <2> SUFFICES ASSUME IInv, Next, ~UNCHANGED messages PROVE ReadStays
    BY DEF ReadStays, vars
  <2>1. ASSUME NEW r \in Requests, ~At(r, "free"), ~HasKey(Msg(r)),
               Insert(Msg(r), "webhook", request[r].event.status)
        PROVE  ReadStays
    <3> PICK m \in Msgs : m = Msg(r)
      BY <2>1, Busy DEF IInv
    <3> PICK s \in Statuses : s = request[r].event.status
      BY <2>1, Busy DEF IInv
    <3> QED BY <2>1, ReadKeptByInsert DEF HasKey
  <2>2. ASSUME NEW r \in Requests, InsertMessage(r) PROVE ReadStays
    BY <2>1, <2>2 DEF InsertMessage, Conflict, At
  <2>3. ASSUME NEW r \in Requests, QueryFails(r) PROVE ReadStays
    BY <2>1, <2>3 DEF QueryFails, Conflict
  <2>4. ASSUME NEW r \in Requests, HandleAck(r) PROVE ReadStays
    BY <2>4 DEF HandleAck, Tick, ReadStays
  <2>5. ASSUME NEW m \in Outgoing, InsertSent(m) PROVE ReadStays
    <3>1. messages[<<m, "send">>] = <<>> /\ m \in Msgs /\ "sent" \in Statuses
      BY <2>5 DEF IInv, SendRows, InsertSent, Msgs, Statuses
    <3>2. Insert(m, "send", "sent")
      BY <2>5 DEF InsertSent
    <3> QED BY <3>1, <3>2, ReadKeptByInsert
  <2> QED BY <2>2, <2>3, <2>4, <2>5 DEF Next, Handle, Post, IsDuplicate, SelectMessage,
            SelectContact, InsertContact, Reports, SendText, SendAnswered, FindContact,
            CreateContact, DeleteContact, Crash
<1> QED BY <1>1, CrmInductive, PTL DEF Spec, ReadIsFinal

-----------------------------------------------------------------------------
(* The contact behind a message *)

Contactable == Incoming \ Anonymous
Writer(r, m) == (At(r, "contact") \/ At(r, "addContact")) /\ Msg(r) = m

\* Until something fails or is deleted, a stored message has its contact, or a request
\* that is about to write it.
ContactOwed ==
  faults = 0 /\ ~deleted =>
    \A m \in Contactable : HasKey(m) => Known \/ \E r \in Requests : Writer(r, m)

\* A step that stores nothing, keeps the contacts and moves no writer keeps the debt.
LEMMA OwedKept ==
  ASSUME ContactOwed, faults' = 0 => faults = 0, deleted' = deleted, Known => Known',
         \A m \in Contactable : HasKey(m)' => HasKey(m),
         \A r \in Requests : \A m \in Contactable : Writer(r, m) => Writer(r, m)' \/ Known'
  PROVE  ContactOwed'
BY DEF ContactOwed

\* A step of one request leaves the other writers where they are.
LEMMA OtherWriters ==
  ASSUME NEW r \in Requests, \A q \in Requests \ {r} : request'[q] = request[q]
  PROVE  \A q \in Requests \ {r} : \A m \in Contactable : Writer(q, m) <=> Writer(q, m)'
BY DEF Writer, At, Msg

\* Each step of the webhook handler passes the debt on or pays it.
LEMMA HandleOwed ==
  ASSUME IInv, ContactOwed, NEW r \in Requests, Handle(r)
  PROVE  ContactOwed'
<1>1. TypeOK /\ ~At(r, "free")
  BY DEF IInv, Handle, IsDuplicate, SelectMessage, InsertMessage, SelectContact, InsertContact,
     HandleAck, At
<1>2. deleted' = deleted /\ faults' = faults
  BY DEF Handle, IsDuplicate, SelectMessage, InsertMessage, SelectContact, InsertContact,
     HandleAck, contactVars
<1>3. ASSUME NEW l \in Spots, To(r, l)
      PROVE  /\ \A q \in Requests \ {r} : request'[q] = request[q]
             /\ request'[r].at = l /\ Msg(r)' = Msg(r)
  BY <1>1, <1>3, Moved DEF Msg
<1>4. ASSUME Reply(r)
      PROVE  \A q \in Requests \ {r} : request'[q] = request[q]
  BY <1>1, <1>4, Freed DEF Reply
<1>5. CASE IsDuplicate(r) \/ SelectMessage(r)
  <2>1. \A q \in Requests \ {r} : request'[q] = request[q]
    BY <1>3, <1>4, <1>5 DEF IsDuplicate, SelectMessage, Spots
  <2>2. UNCHANGED <<messages, contacts>> /\ \A m \in Contactable : ~Writer(r, m)
    BY <1>5 DEF IsDuplicate, SelectMessage, contactVars, Writer, At
  <2> QED BY <1>2, <2>1, <2>2, OtherWriters, OwedKept DEF HasKey, Known
<1>6. CASE InsertMessage(r)
  <2>1. UNCHANGED contacts /\ \A m \in Contactable : ~Writer(r, m)
    BY <1>6 DEF InsertMessage, contactVars, Writer, At
  <2>2. \A q \in Requests \ {r} : request'[q] = request[q]
    BY <1>3, <1>4, <1>6 DEF InsertMessage, Spots
  <2>3. CASE UNCHANGED messages
    BY <1>2, <2>1, <2>2, <2>3, OtherWriters, OwedKept DEF HasKey, Known
  <2>4. CASE Insert(Msg(r), "webhook", request[r].event.status) /\ ~Conflict(Msg(r))
    <3>1. Msg(r) \in Msgs /\ request[r].event.status \in Statuses
      BY <1>1, Busy
    <3>2. \A m \in Msgs \ {Msg(r)} : HasKey(m)' <=> HasKey(m)
      <4>1. \A c \in Cells : c # <<Msg(r), "webhook">> => messages'[c] = messages[c]
        BY <1>1, <2>4, <3>1, InsertOne DEF TypeOK, Table, Conflict, HasKey
      <4> QED BY <4>1 DEF HasKey, Cells
    <3>3. Msg(r) \in Contactable => Writer(r, Msg(r))'
      BY <1>3, <1>6, <2>4 DEF InsertMessage, WritesContact, Contactable, Writer, At, Spots
    <3>4. \A m \in Contactable : m \in Msgs
      BY DEF Contactable, Msgs
    <3>5. \A q \in Requests : \A m \in Contactable : Writer(q, m) => Writer(q, m)'
      BY <2>1, <2>2, OtherWriters
    <3>6. CASE Msg(r) \notin Contactable
      BY <1>2, <2>1, <3>2, <3>4, <3>5, <3>6, OwedKept DEF Known
    <3>7. CASE Msg(r) \in Contactable
      <4>1. PICK n \in Contactable : n = Msg(r) /\ Writer(r, n)'
        BY <3>3, <3>7, <1>3, <1>6, <2>4 DEF InsertMessage, WritesContact, Contactable, Writer,
           At, Spots
      <4> QED BY <1>2, <2>1, <3>2, <3>4, <3>5, <4>1 DEF ContactOwed, Known
    <3> QED BY <3>6, <3>7
  <2> QED BY <1>6, <2>3, <2>4 DEF InsertMessage
<1>7. CASE SelectContact(r)
  <2>1. UNCHANGED <<messages, contacts>>
    BY <1>7 DEF SelectContact, contactVars
  <2>2. CASE Known /\ Reply(r)
    BY <1>2, <2>1, <2>2 DEF ContactOwed, Known
  <2>3. CASE To(r, "addContact")
    <3>1. \A m \in Contactable : Writer(r, m) => Writer(r, m)'
      BY <1>3, <2>3 DEF Writer, At, Spots
    <3>2. \A q \in Requests \ {r} : request'[q] = request[q]
      BY <1>3, <2>3 DEF Spots
    <3> QED BY <1>2, <2>1, <3>1, <3>2, OtherWriters, OwedKept DEF HasKey, Known
  <2> QED BY <1>7, <2>2, <2>3 DEF SelectContact
<1>8. CASE InsertContact(r)
  <2>1. Known'
    BY <1>1, <1>8 DEF InsertContact, Known, TypeOK
  <2> QED BY <2>1 DEF ContactOwed
<1>9. CASE HandleAck(r)
  <2>1. UNCHANGED contacts /\ \A m \in Contactable : ~Writer(r, m)
    BY <1>9 DEF HandleAck, contactVars, Writer, At
  <2>2. \A q \in Requests \ {r} : request'[q] = request[q]
    BY <1>4, <1>9 DEF HandleAck
  <2>3. \A m \in Contactable : HasKey(m)' => HasKey(m)
    <3>1. Msg(r) \in Outgoing
      BY <1>1, <1>9, Busy DEF HandleAck, TypeOK, Working, Msg, Events, At
    <3>2. \A m \in Contactable : messages'[<<m, "webhook">>] = messages[<<m, "webhook">>]
      BY <1>9, <3>1, CrmAssumption DEF HandleAck, Contactable, Cells, Msgs
    <3> QED BY <3>2 DEF HasKey
  <2> QED BY <1>2, <2>1, <2>2, <2>3, OtherWriters, OwedKept DEF Known
<1> QED BY <1>5, <1>6, <1>7, <1>8, <1>9 DEF Handle

\* Every other step: a fault or a deletion ends the promise, the rest moves no writer.
LEMMA OwedInv ==
  ASSUME IInv, ContactOwed, [Next]_vars
  PROVE  ContactOwed'
<1>1. TypeOK /\ faults \in Nat
  BY DEF IInv, TypeOK
<1>2. ASSUME NEW r \in Requests, Handle(r)
      PROVE  ContactOwed'
  BY <1>2, HandleOwed
<1>3. ASSUME faults' = faults + 1
      PROVE  ContactOwed'
  BY <1>1, <1>3 DEF ContactOwed
<1>4. CASE DeleteContact
  BY <1>4 DEF DeleteContact, ContactOwed
<1>5. ASSUME UNCHANGED <<messages, request, deleted, faults>>, Known => Known'
      PROVE  ContactOwed'
  BY <1>5 DEF ContactOwed, HasKey, Writer, At, Msg
<1>6. ASSUME NEW r \in Requests, Post(r)
      PROVE  ContactOwed'
  <2>1. UNCHANGED <<messages, contacts, deleted, faults>> /\ \A m \in Contactable : ~Writer(r, m)
    BY <1>6 DEF Post, contactVars, Writer, At
  <2>2. \A q \in Requests \ {r} : request'[q] = request[q]
    BY <1>6, <1>1 DEF Post, TypeOK
  <2> QED BY <2>1, <2>2, OtherWriters, OwedKept DEF HasKey, Known
<1>7. ASSUME NEW m \in Outgoing, InsertSent(m)
      PROVE  ContactOwed'
  <2>1. CASE faults' = faults
    <3>1. Insert(m, "send", "sent") /\ UNCHANGED <<contacts, deleted, request>>
      BY <1>1, <1>7, <2>1 DEF InsertSent, contactVars
    <3>2. \A n \in Contactable : messages'[<<n, "webhook">>] = messages[<<n, "webhook">>]
      BY <1>1, <3>1 DEF Insert, TypeOK, Contactable, Cells, Msgs
    <3> QED BY <2>1, <3>1, <3>2 DEF ContactOwed, HasKey, Known, Writer, At, Msg
  <2> QED BY <1>3, <1>7, <2>1 DEF InsertSent
<1>8. ASSUME NEW m \in Outgoing, Reports(m) \/ SendText(m) \/ SendAnswered(m)
      PROVE  ContactOwed'
  BY <1>3, <1>5, <1>8 DEF Reports, SendText, SendAnswered, contactVars, Known
<1>9. CASE FindContact \/ CreateContact
  BY <1>1, <1>5, <1>9 DEF FindContact, CreateContact, Known, TypeOK
<1>10. CASE UNCHANGED vars
  BY <1>5, <1>10 DEF vars, contactVars, Known
<1>11. CASE Crash
  BY <1>3, <1>11 DEF Crash
<1>12. ASSUME NEW r \in Requests, QueryFails(r)
       PROVE  ContactOwed'
  BY <1>3, <1>12 DEF QueryFails, Rethrow, Reject
<1> QED BY <1>2, <1>4, <1>6, <1>7, <1>8, <1>9, <1>10, <1>11, <1>12 DEF Next

\* While nothing failed and nothing was deleted, the duplicate that is answered first does
\* not make the contact behind a message be skipped.
THEOREM CrmContactBehindMessage == Spec => []ContactBehindMessage
<1>1. Init => ContactOwed
  <2>1. ASSUME Init, NEW m \in Contactable PROVE ~HasKey(m)
    BY <2>1 DEF Init, HasKey, Contactable, Cells, Msgs
  <2> QED BY <2>1 DEF ContactOwed
<1>2. IInv /\ ContactOwed => ContactBehindMessage
  <2> SUFFICES ASSUME IInv, ContactOwed, NEW m \in answered, m \in Contactable,
                      faults = 0, ~deleted, \A r \in Requests : At(r, "free") \/ Msg(r) # m
               PROVE  Known
    BY DEF ContactBehindMessage, Contactable
  <2>1. HasKey(m)
    BY DEF IInv, AckedIsStored, SendRows, HasRow, Contactable
  <2> QED BY <2>1 DEF ContactOwed, Writer, At
<1> QED BY <1>1, <1>2, OwedInv, CrmInductive, PTL DEF Spec
=============================================================================
