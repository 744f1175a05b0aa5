----------------------- MODULE SessionOwnershipProofs -----------------------
(***************************************************************************)
(* The ownership lease for every set of nodes and requests, every TTL,      *)
(* heartbeat, query latency and number of connections: type correctness and *)
(* that no query of another node ends a claim that has not lapsed.  With    *)
(* one connection, one verb at a time on a node and a lease long enough: at *)
(* most one engine.                                                         *)
(***************************************************************************)
EXTENDS SessionOwnership, FiniteSetTheorems, TLAPS

\* What the proofs know of the identities.
LEMMA Identities == /\ Clients \subseteq Ops
                    /\ \A n \in Nodes : Sweep(n) \in Ops /\ Renewal(n) \in Ops
  BY DEF Ops, Sweep, Renewal

\* A query that comes back leaves well-typed queries.
LEMMA BackTyped ==
  ASSUME OpsTyped, NEW o \in Ops
  PROVE  Back(o) \in [Ops -> SentTypes]
  BY OwnershipAssumption DEF OpsTyped, Back, SentTypes, Unsent

LEMMA SendsTyped ==
  ASSUME OpsTyped, NEW o \in Ops, NEW n, Sends(o, n)
  PROVE  sent' \in [Ops -> SentTypes]
  <1> DEFINE behind == OnWire(n) \ {o}
  <1>1. behind \in SUBSET Ops
    BY DEF OnWire, OfNode
  <1>2. Back(o) \in [Ops -> SentTypes]
    BY BackTyped
  <1>3. sent' = [Back(o) EXCEPT ![o].ahead = behind]
    BY DEF Sends
  <1> HIDE DEF behind
  <1> QED
    BY <1>1, <1>2, <1>3 DEF SentTypes

\* The moves of a handler keep the types.
LEMMA DoneTyped ==
  ASSUME OpsTyped, NEW o \in Ops, Done(o)
  PROVE  OpsTyped'
  BY BackTyped DEF OpsTyped, Done, OpTypes, Idle

LEMMA GoesTyped ==
  ASSUME OpsTyped, NEW o \in Ops, op[o].at # "idle",
         NEW l \in {"listed", "prep", "launch", "stopping", "lost"}, Goes(o, l)
  PROVE  OpsTyped'
  BY BackTyped DEF OpsTyped, Goes, OpTypes

LEMMA QueryTyped ==
  ASSUME OpsTyped, NEW o \in Ops, op[o].at # "idle", NEW l \in Querying, Query(o, l)
  PROVE  OpsTyped'
  BY SendsTyped DEF OpsTyped, Query, OpTypes, Querying

LEMMA BeginTyped ==
  ASSUME OpsTyped, NEW o \in Ops, NEW n \in Nodes, NEW l \in Querying,
         NEW v \in {"start", "stop", "renew", "leave"}, Begin(o, v, l, n)
  PROVE  OpsTyped'
  BY SendsTyped, OwnershipAssumption DEF OpsTyped, Begin, OpTypes, Querying

LEMMA GiveUpTyped ==
  ASSUME OpsTyped, NEW o \in Ops, op[o].at # "idle", GiveUp(o), owned \subseteq Nodes
  PROVE  OpsTyped' /\ owned' \subseteq Nodes
  BY DoneTyped, QueryTyped DEF GiveUp, Querying

\* A released row.
LEMMA FreeTyped ==
  ASSUME RowTyped
  PROVE  Free \in RowTypes /\ Free.node = None /\ Free.lease = 0
  <1>1. 0 \in (0 - Slow)..TTL
    BY OwnershipAssumption
  <1> QED
    BY <1>1 DEF RowTyped, RowTypes, Free

LEMMA InitTyped == Init => TypeOK
  <1> SUFFICES ASSUME Init PROVE RowTyped /\ NodesTyped /\ OpsTyped
    BY DEF TypeOK
  <1> USE OwnershipAssumption
  <1>1. RowTyped
    BY DEF Init, RowTyped, RowTypes
  <1>2. NodesTyped
    <2>1. 0 \in 0..MaxMishaps /\ Beat \in 0..Beat
      OBVIOUS
    <2> QED
      BY <2>1, Zenon DEF Init, NodesTyped
  <1>3. OpsTyped
    BY DEF Init, OpsTyped, OpTypes, SentTypes, Idle, Unsent
  <1> QED
    BY <1>1, <1>2, <1>3

\* A mishap is counted within its bound.
LEMMA MishapTyped ==
  ASSUME mishaps \in 0..MaxMishaps, Mishap
  PROVE  mishaps' \in 0..MaxMishaps
  BY OwnershipAssumption DEF Mishap

\* The database executes a query.
LEMMA ExecuteTyped ==
  ASSUME TypeOK, NEW o \in Ops, Execute(o)
  PROVE  TypeOK'
  <1> USE OwnershipAssumption DEF TypeOK
  <1>1. /\ op[o].node \in Nodes /\ sent[o].age \in 0..Slow
        /\ UNCHANGED <<local, world, op, wanted>>
    BY DEF Execute, Connected, OpsTyped, OpTypes, SentTypes, Querying
  <1>2. \E h : Answer(o, h)
    BY DEF Execute
  <1>3. sent' \in [Ops -> SentTypes]
    BY <1>2 DEF Answer, OpsTyped, SentTypes
  <1>4. \/ row' = row
        \/ row' = Free
        \/ row' = [row EXCEPT !.node = op[o].node, !.lease = TTL - sent[o].age]
        \/ row.node = op[o].node /\ row' = [row EXCEPT !.lease = TTL - sent[o].age]
    BY DEF Execute
  <1>5. TTL - sent[o].age \in (0 - Slow)..TTL
    BY <1>1
  <1>6. RowTyped'
    BY <1>1, <1>4, <1>5, FreeTyped DEF RowTyped, RowTypes
  <1>7. NodesTyped' /\ OpsTyped'
    BY <1>1, <1>3 DEF NodesTyped, OpsTyped, SentTypes, local, world
  <1> QED
    BY <1>6, <1>7

\* A handler goes on: what it does to the row, to its node and to itself.
LEMMA StepTyped ==
  ASSUME TypeOK, NEW o \in Ops, Step(o)
  PROVE  TypeOK'
  <1> USE DEF TypeOK
  <1>n. op[o].at # "idle" => op[o].node \in Nodes
    BY DEF OpsTyped, OpTypes
  <1>1. CASE Execute(o)
    BY <1>1, ExecuteTyped
  <1>2. CASE Claimed(o)
    <2>1. op[o].at # "idle" /\ (Done(o) \/ Goes(o, "prep"))
      BY <1>2 DEF Claimed, Answered
    <2>2. OpsTyped'
      BY <2>1, DoneTyped, GoesTyped
    <2> QED
      BY <1>2, <1>n, <2>1, <2>2 DEF Claimed, RowTyped, NodesTyped, world
  <1>3. CASE NotClaimed(o) \/ StopRefused(o) \/ Kept(o)
    <2>1. Done(o) /\ UNCHANGED <<row, local, world, wanted>>
      BY <1>3 DEF NotClaimed, StopRefused, Kept
    <2> QED
      BY <2>1, DoneTyped DEF RowTyped, NodesTyped, local, world
  <1>4. CASE Register(o)
    <2>1. op[o].at # "idle" /\ op[o].node \in Nodes
      BY <1>4, <1>n DEF Register
    <2>2. CASE UNCHANGED <<row, engine, marked>> /\ GiveUp(o) /\ UNCHANGED <<world, wanted>>
      BY <2>1, <2>2, GiveUpTyped DEF RowTyped, NodesTyped, world
    <2>3. CASE /\ engine' = engine \cup {op[o].node} /\ marked' = marked \ {op[o].node}
               /\ row' = [row EXCEPT !.status = "on"]
               /\ Goes(o, "launch") /\ UNCHANGED owned /\ UNCHANGED <<world, wanted>>
      <3>1. RowTyped'
        BY <2>3 DEF RowTyped, RowTypes
      <3> QED
        BY <2>1, <2>3, <3>1, GoesTyped DEF NodesTyped, world
    <2> QED
      BY <1>4, <2>2, <2>3 DEF Register
  <1>5. CASE Launched(o)
    BY <1>5, DoneTyped DEF Launched, RowTyped, NodesTyped, world
  <1>6. CASE Rejected(o)
    <2>1. op[o].at # "idle" /\ GiveUp(o)
      BY <1>6 DEF Rejected
    <2>2. OpsTyped' /\ owned' \subseteq Nodes
      BY <2>1, GiveUpTyped DEF NodesTyped
    <2>3. RowTyped'
      BY <1>6 DEF Rejected, RowTyped, RowTypes
    <2> QED
      BY <1>6, <2>2, <2>3 DEF Rejected, NodesTyped, world
  <1>7. CASE Released(o)
    BY <1>7, DoneTyped DEF Released, RowTyped, NodesTyped, local, world
  <1>8. CASE StopPasses(o)
    <2>1. op[o].at # "idle" /\ op[o].node \in Nodes
      BY <1>8, <1>n DEF StopPasses, Answered
    <2> QED
      BY <1>8, <2>1, GoesTyped DEF StopPasses, RowTyped, NodesTyped, world
  <1>9. CASE StopWritten(o)
    <2>1. op[o].at # "idle"
      BY <1>9 DEF StopWritten
    <2>2. CASE GiveUp(o) /\ row' = [row EXCEPT !.status = "off"] /\ UNCHANGED mishaps
      <3>1. RowTyped'
        BY <2>2 DEF RowTyped, RowTypes
      <3>2. wanted' \in BOOLEAN
        BY <1>9 DEF StopWritten, NodesTyped
      <3>3. UNCHANGED <<engine, marked, phase, beat>>
        BY <1>9 DEF StopWritten
      <3>4. OpsTyped' /\ owned' \subseteq Nodes
        BY <2>1, <2>2, GiveUpTyped DEF NodesTyped
      <3> QED
        BY <2>2, <3>1, <3>2, <3>3, <3>4 DEF NodesTyped
    <2>3. CASE Mishap /\ Done(o) /\ UNCHANGED <<row, owned, engine, wanted>>
      BY <1>9, <2>3, MishapTyped, DoneTyped DEF StopWritten, RowTyped, NodesTyped
    <2> QED
      BY <1>9, <2>2, <2>3 DEF StopWritten, Mishap
  <1>10. CASE Renewed(o)
    <2>1. op[o].at # "idle" /\ "seen" \in Querying
      BY <1>10 DEF Renewed, Answered, Querying
    <2> QED
      BY <1>10, <2>1, QueryTyped DEF Renewed, RowTyped, NodesTyped, local, world
  <1>11. CASE Lost(o)
    <2>1. op[o].at # "idle" /\ op[o].node \in Nodes
      BY <1>11, <1>n DEF Lost, Answered
    <2> QED
      BY <1>11, <2>1, GoesTyped DEF Lost, RowTyped, NodesTyped, world
  <1>12. CASE OrphanStopped(o)
    BY <1>12, DoneTyped DEF OrphanStopped, RowTyped, NodesTyped, world
  <1>13. CASE Scan(o)
    <2>1. OpsTyped'
      BY <1>13 DEF Scan, OpsTyped, OpTypes, Idle
    <2> QED
      BY <1>13, <2>1 DEF Scan, RowTyped, NodesTyped, local, world
  <1>14. CASE SweepStarts(o)
    <2>1. op[o].at # "idle" /\ "claim" \in Querying
      BY <1>14 DEF SweepStarts, Querying
    <2> QED
      BY <1>14, <2>1, QueryTyped DEF SweepStarts, RowTyped, NodesTyped, local, world
  <1> QED
    BY <1>1, <1>2, <1>3, <1>4, <1>5, <1>6, <1>7, <1>8, <1>9, <1>10, <1>11, <1>12, <1>13, <1>14
       DEF Step

-----------------------------------------------------------------------------
(* What is not a handler's next step *)

\* A node that ends: nothing of it is left.
LEMMA DropTyped ==
  ASSUME OpsTyped, NodesTyped, NEW n \in Nodes, Drop(n)
  PROVE  OpsTyped' /\ owned' \subseteq Nodes /\ engine' \subseteq Nodes /\ marked' \subseteq Nodes
  <1>1. OpsTyped'
    BY OwnershipAssumption DEF Drop, OpsTyped, OpTypes, SentTypes, Idle, Unsent
  <1> QED
    BY <1>1 DEF Drop, NodesTyped

LEMMA FailTyped ==
  ASSUME TypeOK, NEW o \in Ops, Fail(o)
  PROVE  TypeOK'
  <1>1. OpsTyped'
    BY DEF Fail, TypeOK, OpsTyped, SentTypes
  <1> QED
    BY <1>1, MishapTyped DEF Fail, TypeOK, RowTyped, NodesTyped, local

LEMMA RequestTyped ==
  ASSUME TypeOK, NEW c \in Clients, NEW n \in Nodes, NEW v \in Verbs, Request(c, n, v)
  PROVE  TypeOK'
  <1> USE DEF TypeOK
  <1>1. c \in Ops /\ v \in {"start", "stop"}
    BY Identities, OwnershipAssumption
  <1>2. \E l \in Querying : Begin(c, v, l, n)
    BY DEF Request, Querying
  <1>3. OpsTyped'
    BY <1>1, <1>2, BeginTyped
  <1>4. wanted' \in BOOLEAN
    BY DEF Request
  <1>5. marked' \subseteq Nodes
    BY DEF Request, NodesTyped
  <1>6. UNCHANGED <<row, owned, engine, world>>
    BY DEF Request
  <1> QED
    BY <1>3, <1>4, <1>5, <1>6 DEF RowTyped, NodesTyped, world

LEMMA HeartbeatTyped ==
  ASSUME TypeOK, NEW n \in Nodes, Heartbeat(n)
  PROVE  TypeOK'
  <1> USE DEF TypeOK
  <1>1. beat' \in [Nodes -> 0..Beat]
    BY OwnershipAssumption DEF Heartbeat, NodesTyped
  <1>2. OpsTyped'
    <2>1. CASE UNCHANGED <<op, sent>>
      BY <2>1 DEF OpsTyped
    <2>2. CASE \E l \in Querying : Begin(Renewal(n), "renew", l, n)
      BY <2>2, Identities, BeginTyped
    <2> QED
      BY <2>1, <2>2 DEF Heartbeat, Querying
  <1> QED
    BY <1>1, <1>2 DEF Heartbeat, RowTyped, NodesTyped, local

LEMMA NodeStepTyped ==
  ASSUME TypeOK, NEW n \in Nodes,
         EngineGivesUp(n) \/ BeginSweep(n) \/ Crash(n) \/ Shutdown(n) \/ Exit(n) \/ Boot(n)
  PROVE  TypeOK'
  <1> USE DEF TypeOK
  <1>1. CASE EngineGivesUp(n)
    <2>1. row' = row \/ row' = [row EXCEPT !.status = "failed"]
      BY <1>1 DEF EngineGivesUp
    <2>2. RowTyped'
      BY <2>1 DEF RowTyped, RowTypes
    <2>3. OpsTyped' /\ NodesTyped'
      BY <1>1 DEF EngineGivesUp, OpsTyped, NodesTyped, world
    <2> QED
      BY <2>2, <2>3
  <1>2. CASE BeginSweep(n)
    <2>1. OpsTyped'
      BY <1>2, Identities, OwnershipAssumption DEF BeginSweep, OpsTyped, OpTypes
    <2> QED
      BY <1>2, <2>1 DEF BeginSweep, RowTyped, NodesTyped, local, world
  <1>3. CASE Crash(n)
    <2>1. phase' \in [Nodes -> {"up", "leaving", "down"}] /\ mishaps' \in 0..MaxMishaps
      BY <1>3, MishapTyped DEF Crash, NodesTyped
    <2> QED
      BY <1>3, <2>1, DropTyped DEF Crash, RowTyped, NodesTyped
  <1>4. CASE Shutdown(n)
    <2>1. phase' \in [Nodes -> {"up", "leaving", "down"}] /\ mishaps' \in 0..MaxMishaps
      BY <1>4, MishapTyped DEF Shutdown, NodesTyped
    <2>2. OpsTyped'
      <3>1. CASE UNCHANGED <<op, sent>>
        BY <3>1 DEF OpsTyped
      <3>2. CASE Begin(Renewal(n), "leave", "leave", n)
        BY <3>2, Identities, BeginTyped DEF Querying
      <3> QED
        BY <1>4, <3>1, <3>2 DEF Shutdown
    <2> QED
      BY <1>4, <2>1, <2>2 DEF Shutdown, RowTyped, NodesTyped
  <1>5. CASE Exit(n)
    <2>1. phase' \in [Nodes -> {"up", "leaving", "down"}]
      BY <1>5 DEF Exit, NodesTyped
    <2> QED
      BY <1>5, <2>1, DropTyped DEF Exit, RowTyped, NodesTyped
  <1>6. CASE Boot(n)
    <2>1. row' = row \/ row' = [row EXCEPT !.status = "off"]
      BY <1>6 DEF Boot
    <2>2. RowTyped'
      BY <2>1 DEF RowTyped, RowTypes
    <2>3. OpsTyped'
      BY <1>6, Identities, OwnershipAssumption DEF Boot, OpsTyped, OpTypes
    <2>4. phase' \in [Nodes -> {"up", "leaving", "down"}] /\ beat' \in [Nodes -> 0..Beat]
      BY <1>6, OwnershipAssumption DEF Boot, NodesTyped
    <2> QED
      BY <1>6, <2>2, <2>3, <2>4 DEF Boot, NodesTyped, local
  <1> QED
    BY <1>1, <1>2, <1>3, <1>4, <1>5, <1>6

LEMMA TickTyped ==
  ASSUME TypeOK, Tick
  PROVE  TypeOK'
  <1> USE OwnershipAssumption DEF TypeOK
  <1>1. RowTyped'
    <2>1. row' = [row EXCEPT !.lease = IF row.node = None THEN 0
                                       ELSE IF row.lease > -Slow THEN row.lease - 1 ELSE row.lease]
      BY DEF Tick
    <2>2. row.lease \in (0 - Slow)..TTL /\ row \in RowTypes
      BY DEF RowTyped, RowTypes
    <2> DEFINE left == row'.lease
    <2>3. left = IF row.node = None THEN 0
                 ELSE IF row.lease > -Slow THEN row.lease - 1 ELSE row.lease
      BY <2>1, <2>2 DEF RowTypes
    <2> HIDE DEF left
    <2>4. left \in (0 - Slow)..TTL
      BY <2>2, <2>3
    <2>5. row' = [row EXCEPT !.lease = left]
      BY <2>1, <2>2, <2>3 DEF RowTypes
    <2>6. row.node = None => left = 0
      BY <2>3
    <2> QED
      BY <2>2, <2>4, <2>5, <2>6 DEF RowTyped, RowTypes
  <1>2. beat' \in [Nodes -> 0..Beat]
    BY DEF Tick, NodesTyped
  <1>3. sent' \in [Ops -> SentTypes]
    <2> DEFINE s(o) == IF op[o].at \in Querying THEN [sent[o] EXCEPT !.age = sent[o].age + 1]
                       ELSE sent[o]
    <2>1. ASSUME NEW o \in Ops PROVE s(o) \in SentTypes
      <3>1. sent[o] \in SentTypes /\ sent[o].age \in 0..Slow
        BY DEF OpsTyped, SentTypes
      <3>2. op[o].at \in Querying => sent[o].age + 1 \in 0..Slow
        BY <3>1 DEF Tick
      <3> QED
        BY <3>1, <3>2 DEF SentTypes
    <2>2. sent' = [o \in Ops |-> s(o)]
      BY DEF Tick
    <2> HIDE DEF s
    <2> QED
      BY <2>1, <2>2
  <1>4. op' \in [Ops -> OpTypes] /\ \A o \in Ops : (op'[o].node = None) = (op'[o].at = "idle")
    BY DEF Tick, OpsTyped
  <1> QED
    BY <1>1, <1>2, <1>3, <1>4 DEF Tick, NodesTyped, OpsTyped, local

-----------------------------------------------------------------------------
(* The theorems *)

\* Type correctness: the row, the nodes' maps and every handler in flight keep their
\* types, a handler belongs to a node as long as it is in flight, and a free session
\* carries no expiry, whatever the number of nodes, requests and connections.
THEOREM OwnershipTyped == Spec => []TypeOK
  <1>1. TypeOK /\ [Next]_vars => TypeOK'
    <2> SUFFICES ASSUME TypeOK, [Next]_vars PROVE TypeOK'
      OBVIOUS
    <2>1. CASE Next
      BY <2>1, RequestTyped, StepTyped, FailTyped, HeartbeatTyped, NodeStepTyped, TickTyped
         DEF Next
    <2>2. CASE UNCHANGED vars
      BY <2>2 DEF vars, TypeOK, RowTyped, NodesTyped, OpsTyped
    <2> QED
      BY <2>1, <2>2
  <1> QED
    BY <1>1, InitTyped, PTL DEF Spec

\* A query that is executed ends a live claim only for its holder: the conditions of
\* claim() and release() spare it, and the age of the moment they compare with only makes
\* it look more alive.
LEMMA ExecuteSpares ==
  ASSUME TypeOK, NEW o \in Ops, Execute(o), NEW n \in Nodes,
         row.node = n, row.lease > 0, row'.node # n
  PROVE  \E p \in OfNode(n) : op[p].at \in {"release", "leave"}
  <1>1. row \in RowTypes /\ row.lease \in Int /\ sent[o].age \in Nat
    BY OwnershipAssumption DEF TypeOK, RowTyped, RowTypes, OpsTyped, SentTypes
  <1>2. ~Lapsed(sent[o].age)
    BY <1>1 DEF Lapsed
  <1>3. n # None
    BY OwnershipAssumption
  <1>4. op[o].at \in {"release", "leave"} /\ op[o].node = n
    BY <1>1, <1>2, <1>3 DEF Execute, Claimable, Releasable, RowTypes
  <1> QED
    BY <1>4 DEF OfNode

\* A claim that has not lapsed is only ended by its holder: a start, a stop, a sweep, a
\* boot or a shutdown of another node never takes it, however late its query lands.
THEOREM LiveClaimsRespected == Spec => LiveClaimRespected
  <1> DEFINE A == \A n \in Nodes : row.node = n /\ row.lease > 0 /\ row'.node # n =>
                    \E o \in OfNode(n) : op[o].at \in {"release", "leave"}
  <1>1. TypeOK /\ [Next]_vars => [A]_vars
    <2> SUFFICES ASSUME TypeOK, Next, NEW n \in Nodes,
                        row.node = n, row.lease > 0, row'.node # n
                 PROVE  \E o \in OfNode(n) : op[o].at \in {"release", "leave"}
      OBVIOUS
    <2>1. PICK o \in Ops : Execute(o)
      <3>1. row \in RowTypes
        BY DEF TypeOK, RowTyped
      <3> QED
        BY <3>1 DEF Next, Step, Request, Claimed, NotClaimed, Register, Launched, Rejected,
           Released, StopPasses, StopRefused, StopWritten, Renewed, Kept, Lost, OrphanStopped,
           Scan, SweepStarts, Fail, EngineGivesUp, Heartbeat, BeginSweep, Crash, Shutdown,
           Exit, Boot, Tick, RowTypes
    <2> QED
      BY <2>1, ExecuteSpares
  <1> QED
    BY <1>1, OwnershipTyped, PTL DEF Spec, LiveClaimRespected

-----------------------------------------------------------------------------
(***************************************************************************)
(* One engine.  The inductive invariant says where handlers may be (Placed, *)
(* DownIsEmpty, OneVerb), that a node's queries come back in the order they *)
(* were sent (InOrder), and of every node that is up (Safe): a claim that   *)
(* was answered still stands, an engine runs under a lease that has as much *)
(* left as the beats, the failed queries and the renewal under way account  *)
(* for (Covered), the look-up of a heartbeat only misses where nothing runs *)
(* (LossTrue), and no release is sent under an engine (ReleaseIdle).        *)
(***************************************************************************)

\* What the theorem assumes: one connection, so that a node's queries are not reordered, one
\* verb at a time on a node, and a lease that outlasts, on top of a beat, one more beat for
\* every mishap and two queries at their slowest.
Calm == PoolSize = 1 /\ Serial /\ TTL > (MaxMishaps + 1) * Beat + 2 * Slow

Up(n) == phase[n] = "up"
Wired(o) == op[o].at \in Querying
Works(o) == op[o].at \notin {"idle", "scan", "listed"}

\* What may be in flight in a slot: its node's sweep, its node's renewal or, at shutdown,
\* releaseAll(), or a request.
Fits(o, h) ==
  /\ \A n \in Nodes : o = Sweep(n) => h.node \in {None, n}
  /\ \A n \in Nodes : o = Renewal(n) =>
        \/ h.node = None
        \/ /\ h.node = n
           /\ \/ h.verb = "renew" /\ h.at \in {"renew", "seen", "lost"}
              \/ h.verb = "leave" /\ h.at = "leave"
  /\ (\A n \in Nodes : o # Renewal(n)) =>
        h.at \notin {"renew", "seen", "lost", "leave"} /\ h.verb \notin {"renew", "leave"}

\* Every handler is where it belongs, and no node that is up is in releaseAll().
Placed ==
  /\ \A o \in Ops : Fits(o, op[o])
  /\ \A n \in Nodes : Up(n) => op[Renewal(n)].at # "leave"

DownIsEmpty == \A n \in Nodes : phase[n] = "down" => OfNode(n) = {} /\ n \notin engine

\* No two verbs at work on one node.
OneVerb ==
  \A o, p \in Ops : Works(o) /\ Works(p) /\ op[o].node = op[p].node
                    /\ o # Renewal(op[o].node) /\ p # Renewal(op[o].node) => o = p

\* Of two queries of a node on the wire one is ahead of the other, and a query that has its
\* answer has none ahead.
InOrder ==
  /\ \A o \in Ops : /\ ~Wired(o) => sent[o] = Unsent
                    /\ sent[o].ahead \subseteq OnWire(op[o].node) \ {o}
                    /\ sent[o].answer # "none" => sent[o].ahead = {}
  /\ \A o, p \in Ops : Wired(o) /\ Wired(p) /\ op[o].node = op[p].node /\ o # p =>
         o \in sent[p].ahead \/ p \in sent[o].ahead

\* The renewal of the latest heartbeat has not been executed.
Due(n) == op[Renewal(n)].at = "renew" /\ sent[Renewal(n)].answer = "none"
\* What is left of a lease when a heartbeat is due, at worst, after m mishaps; and at any
\* moment between two heartbeats.
Credit(m) == TTL - Slow - m * Beat
Floor(n) == Credit(mishaps) - (Beat - beat[n]) - (IF Due(n) THEN Beat ELSE 0)

\* The claim that was answered is the row's, and as old as its query.
ClaimStands(n) ==
  \A o \in OfNode(n) :
    op[o].at = "claim" /\ sent[o].answer = "hit" => row.node = n /\ row.lease = TTL - sent[o].age

\* An engine, or a start that has its reservation, has the lease.
Covered(n) == Active(n) => n \in owned /\ row.node = n /\ row.lease >= Floor(n)

\* The renewal was sent by the latest heartbeat.
RenewalAge(n) == op[Renewal(n)].at = "renew" => sent[Renewal(n)].age = Beat - beat[n]

LossTrue(n) == op[Renewal(n)].at = "seen" /\ sent[Renewal(n)].answer = "miss" => ~Active(n)

ReleaseIdle(n) == \A o \in OfNode(n) : op[o].at = "release" => n \notin engine

Safe(n) == Up(n) => ClaimStands(n) /\ Covered(n) /\ RenewalAge(n) /\ LossTrue(n) /\ ReleaseIdle(n)

Orderly == Placed /\ DownIsEmpty /\ OneVerb /\ InOrder
OwnInvariant == Orderly /\ \A n \in Nodes : Safe(n)

-----------------------------------------------------------------------------
(* Slots, connections and credit *)

LEMMA OpsFinite == IsFiniteSet(Ops)
  <1>1. IsFiniteSet({"sweep", "renew"} \X Nodes)
    <2>1. IsFiniteSet({"sweep"} \cup {"renew"})
      BY FS_Singleton, FS_Union
    <2>2. {"sweep", "renew"} = {"sweep"} \cup {"renew"}
      OBVIOUS
    <2> QED
      BY <2>1, <2>2, FS_Product, OwnershipAssumption
  <1> QED
    BY <1>1, FS_Union, OwnershipAssumption DEF Ops

\* The slots of the nodes are theirs alone.
LEMMA Slots ==
  ASSUME NEW n \in Nodes
  PROVE  /\ n # None /\ Sweep(n) \in Ops /\ Renewal(n) \in Ops
         /\ \A m \in Nodes : Sweep(n) # Renewal(m) /\ (Sweep(n) = Sweep(m) => n = m)
                             /\ (Renewal(n) = Renewal(m) => n = m)
         /\ \A c \in Clients : c # Renewal(n) /\ c # Sweep(n)
  <1>1. "sweep" # "renew"
    OBVIOUS
  <1>2. Sweep(n) \in {"sweep", "renew"} \X Nodes /\ Renewal(n) \in {"sweep", "renew"} \X Nodes
    BY DEF Sweep, Renewal
  <1> QED
    BY <1>1, <1>2, OwnershipAssumption DEF Ops, Sweep, Renewal

\* One connection: the query it works on has no other before it.
LEMMA ConnectedFirst ==
  ASSUME Calm, OpsTyped, NEW o \in Ops, Connected(o)
  PROVE  sent[o].ahead = {} /\ Wired(o) /\ op[o].node \in Nodes
  <1>1. sent[o].ahead \subseteq Ops /\ op[o].at # "idle"
    BY DEF OpsTyped, SentTypes, Connected, Querying
  <1>2. IsFiniteSet(sent[o].ahead)
    BY <1>1, OpsFinite, FS_Subset
  <1>3. Cardinality(sent[o].ahead) \in Nat /\ Cardinality(sent[o].ahead) < 1
    BY <1>2, FS_CardinalityType DEF Connected, Calm
  <1>4. Cardinality(sent[o].ahead) = 0
    BY <1>3
  <1> QED
    BY <1>1, <1>2, <1>4, FS_EmptySet DEF Connected, Wired, OpsTyped, OpTypes

\* At most one query of a node is connected or answered.
LEMMA OneConnected ==
  ASSUME Calm, OpsTyped, InOrder, NEW o \in Ops, Connected(o), NEW p \in Ops,
         op[p].node = op[o].node, sent[p].answer # "none" \/ Connected(p)
  PROVE  p = o
  <1>1. sent[o].ahead = {} /\ Wired(o)
    BY ConnectedFirst
  <1>2. sent[p].ahead = {} /\ Wired(p)
    BY ConnectedFirst DEF InOrder, Unsent
  <1> QED
    BY <1>1, <1>2 DEF InOrder

\* Within the bound on mishaps the credit covers a beat and a slow query; a mishap costs a beat.
LEMMA CreditFacts ==
  ASSUME Calm, NEW m \in 0..MaxMishaps
  PROVE  /\ Credit(m) \in Int /\ Credit(m) <= TTL - Slow
         /\ Beat + Slow < Credit(m)
  <1> USE OwnershipAssumption
  <1>1. m \in Nat /\ m <= MaxMishaps /\ Beat \in Nat /\ MaxMishaps \in Nat /\ TTL \in Nat /\ Slow \in Nat
    OBVIOUS
  <1>2. m * Beat \in Nat /\ MaxMishaps * Beat \in Nat
    BY <1>1
  <1>3. PICK d \in Nat : MaxMishaps = m + d
    <2>1. MaxMishaps - m \in Nat /\ MaxMishaps = m + (MaxMishaps - m)
      BY <1>1
    <2> QED
      BY <2>1
  <1>4. MaxMishaps * Beat = m * Beat + d * Beat /\ d * Beat \in Nat
    BY <1>1, <1>3
  <1>5. (MaxMishaps + 1) * Beat = MaxMishaps * Beat + Beat
    BY <1>1
  <1> HIDE OwnershipAssumption
  <1> QED
    BY <1>1, <1>2, <1>4, <1>5 DEF Credit, Calm

LEMMA CreditDrops ==
  ASSUME NEW m \in Nat
  PROVE  Credit(m + 1) = Credit(m) - Beat
  <1>1. m * Beat \in Int /\ (m + 1) * Beat = m * Beat + Beat
    BY OwnershipAssumption
  <1> QED
    BY <1>1, OwnershipAssumption DEF Credit

\* The lease under an engine has not lapsed.
LEMMA StillLive ==
  ASSUME Calm, TypeOK, NEW n \in Nodes, Safe(n), Up(n), Active(n)
  PROVE  row.node = n /\ row.lease > 0 /\ Floor(n) \in Int /\ Floor(n) > 0
  <1>1. mishaps \in 0..MaxMishaps /\ beat[n] \in 0..Beat /\ beat[n] \in Int /\ Beat \in Nat /\ Slow \in Nat /\ row.lease \in Int
    BY OwnershipAssumption DEF TypeOK, NodesTyped, RowTyped, RowTypes
  <1>2. Credit(mishaps) \in Int /\ Beat + Slow < Credit(mishaps)
    BY <1>1, CreditFacts
  <1>3. Due(n) => Beat - beat[n] <= Slow
    <2>1. sent[Renewal(n)].age \in 0..Slow
      BY Slots DEF TypeOK, OpsTyped, SentTypes
    <2> QED
      BY <2>1, <1>1 DEF Due, Safe, RenewalAge
  <1>4. Floor(n) \in Int /\ Floor(n) > 0
    BY <1>1, <1>2, <1>3 DEF Floor
  <1> QED
    BY <1>1, <1>4 DEF Safe, Covered
-----------------------------------------------------------------------------
(* A handler moves: it ends, begins, sends its next query or waits for something else *)

Moved(o, h) ==
  /\ op' = [op EXCEPT ![o] = h]
  /\ sent' = IF h.at \in Querying THEN [Back(o) EXCEPT ![o].ahead = OnWire(h.node) \ {o}]
             ELSE Back(o)

At(o, l) == [op[o] EXCEPT !.at = l]

LEMMA MovesAre ==
  ASSUME OpsTyped, NEW o \in Ops
  PROVE  /\ Idle \in OpTypes
         /\ Done(o) => Moved(o, Idle)
         /\ \A l \in {"prep", "launch", "stopping", "lost"} :
              Goes(o, l) => Moved(o, At(o, l)) /\ At(o, l) \in OpTypes
         /\ \A l \in Querying : Query(o, l) => Moved(o, At(o, l)) /\ At(o, l) \in OpTypes
         /\ \A v, l, n : Begin(o, v, l, n) /\ l \in Querying =>
              Moved(o, [verb |-> v, at |-> l, node |-> n])
  <1>1. Idle \in OpTypes /\ Idle.at \notin Querying
    BY DEF Idle, OpTypes, Querying
  <1>2. \A l : op' = [op EXCEPT ![o].at = l] => op' = [op EXCEPT ![o] = At(o, l)]
    BY DEF At
  <1>3. \A l : At(o, l).at = l /\ At(o, l).node = op[o].node
    BY DEF OpsTyped, OpTypes, At
  <1>4. \A l \in {"prep", "launch", "stopping", "lost"} \cup Querying : At(o, l) \in OpTypes
    BY DEF OpsTyped, OpTypes, At, Querying
  <1>5. \A l \in {"prep", "launch", "stopping", "lost"} : l \notin Querying
    BY DEF Querying
  <1>6. Done(o) => Moved(o, Idle)
    BY <1>1 DEF Done, Moved
  <1>7. ASSUME NEW l \in {"prep", "launch", "stopping", "lost"}, Goes(o, l)
        PROVE  Moved(o, At(o, l))
    <2>1. At(o, l).at \notin Querying /\ op' = [op EXCEPT ![o] = At(o, l)] /\ sent' = Back(o)
      BY <1>2, <1>3, <1>5, <1>7 DEF Goes
    <2> QED
      BY <2>1 DEF Moved
  <1>8. ASSUME NEW l \in Querying, Query(o, l)
        PROVE  Moved(o, At(o, l))
    <2>1. /\ At(o, l).at \in Querying /\ op' = [op EXCEPT ![o] = At(o, l)]
          /\ sent' = [Back(o) EXCEPT ![o].ahead = OnWire(At(o, l).node) \ {o}]
      BY <1>2, <1>3, <1>8 DEF Query, Sends
    <2> QED
      BY <2>1 DEF Moved
  <1>9. ASSUME NEW v, NEW l \in Querying, NEW n, Begin(o, v, l, n)
        PROVE  Moved(o, [verb |-> v, at |-> l, node |-> n])
    <2> DEFINE h == [verb |-> v, at |-> l, node |-> n]
    <2>1. h.at \in Querying /\ h.node = n
      OBVIOUS
    <2>2. op' = [op EXCEPT ![o] = h] /\ sent' = [Back(o) EXCEPT ![o].ahead = OnWire(n) \ {o}]
      BY <1>9 DEF Begin, Sends
    <2> HIDE DEF h
    <2>3. Moved(o, h)
      BY <2>1, <2>2 DEF Moved
    <2> QED
      BY <2>3 DEF h
  <1> QED
    BY <1>1, <1>4, <1>6, <1>7, <1>8, <1>9

\* What a move does to the handler and leaves of the others.
LEMMA MovedTo ==
  ASSUME OpsTyped, NEW o \in Ops, NEW h \in OpTypes, Moved(o, h)
  PROVE  /\ op'[o] = h /\ sent'[o].age = 0 /\ sent'[o].answer = "none"
         /\ sent'[o].ahead = IF h.at \in Querying THEN OnWire(h.node) \ {o} ELSE {}
         /\ h.at \notin Querying => sent'[o] = Unsent
         /\ \A p \in Ops \ {o} : /\ op'[p] = op[p]
                                 /\ sent'[p] = [sent[p] EXCEPT !.ahead = @ \ {o}]
                                 /\ sent'[p].age = sent[p].age
                                 /\ sent'[p].answer = sent[p].answer
                                 /\ sent'[p].ahead = sent[p].ahead \ {o}
  <1> DEFINE behind == OnWire(h.node) \ {o}
  <1>1. Back(o) \in [Ops -> SentTypes] /\ Back(o)[o] = Unsent
    BY BackTyped DEF Back
  <1>2. sent' = IF h.at \in Querying THEN [Back(o) EXCEPT ![o].ahead = behind] ELSE Back(o)
    BY DEF Moved
  <1>3. op'[o] = h /\ \A p \in Ops \ {o} : op'[p] = op[p]
    BY DEF Moved, OpsTyped
  <1> HIDE DEF behind
  <1>4. sent'[o] = IF h.at \in Querying THEN [Unsent EXCEPT !.ahead = behind] ELSE Unsent
    BY <1>1, <1>2
  <1>5. /\ sent'[o].age = 0 /\ sent'[o].answer = "none"
        /\ sent'[o].ahead = IF h.at \in Querying THEN behind ELSE {}
        /\ h.at \notin Querying => sent'[o] = Unsent
    BY <1>4 DEF Unsent
  <1>6. ASSUME NEW p \in Ops \ {o}
        PROVE  sent'[p] = [sent[p] EXCEPT !.ahead = @ \ {o}]
    BY <1>1, <1>2 DEF Back
  <1>7. \A p \in Ops \ {o} : /\ sent'[p] = [sent[p] EXCEPT !.ahead = @ \ {o}]
                             /\ sent'[p].age = sent[p].age
                             /\ sent'[p].answer = sent[p].answer
                             /\ sent'[p].ahead = sent[p].ahead \ {o}
    BY <1>6 DEF OpsTyped, SentTypes
  <1> QED
    BY <1>3, <1>5, <1>7 DEF behind

\* The order of the queries survives every move.
LEMMA MoveInOrder ==
  ASSUME OpsTyped, InOrder, NEW n \in Nodes, NEW o \in Ops, op[o].node \in {None, n},
         NEW h \in OpTypes, h.node \in {None, n}, h.at = "idle" <=> h.node = None, Moved(o, h)
  PROVE  InOrder'
  <1>m. /\ op'[o] = h /\ sent'[o].answer = "none"
        /\ sent'[o].ahead = IF h.at \in Querying THEN OnWire(h.node) \ {o} ELSE {}
        /\ h.at \notin Querying => sent'[o] = Unsent
        /\ \A p \in Ops \ {o} : /\ op'[p] = op[p]
                                /\ sent'[p] = [sent[p] EXCEPT !.ahead = @ \ {o}]
                                /\ sent'[p].answer = sent[p].answer
                                /\ sent'[p].ahead = sent[p].ahead \ {o}
    BY MovedTo
  <1>1. n # None /\ \A p \in Ops : Wired(p) => op[p].node \in Nodes
    BY Slots DEF Wired, OpsTyped, OpTypes, Querying
  <1>2. op'[o] = h /\ \A p \in Ops \ {o} : op'[p] = op[p] /\ (Wired(p)' <=> Wired(p))
    BY <1>m DEF Wired
  <1>3. Wired(o)' <=> h.at \in Querying
    BY <1>2 DEF Wired
  <1>4. \A m : \A p \in Ops \ {o} : p \in OnWire(m)' <=> p \in OnWire(m)
    BY <1>2 DEF OnWire, OfNode, Wired
  <1>5. ASSUME NEW p \in Ops
        PROVE  /\ ~Wired(p)' => sent'[p] = Unsent
               /\ sent'[p].ahead \subseteq OnWire(op[p].node)' \ {p}
               /\ sent'[p].answer # "none" => sent'[p].ahead = {}
    <2>1. CASE p = o
      <3>1. OnWire(h.node) \subseteq Ops
        BY DEF OnWire, OfNode
      <3> QED
        BY <2>1, <3>1, <1>2, <1>3, <1>4, <1>m
    <2>2. CASE p # o
      <3>1. /\ sent[p].ahead \subseteq OnWire(op[p].node) \ {p}
            /\ ~Wired(p) => sent[p] = Unsent
            /\ sent[p].answer # "none" => sent[p].ahead = {}
        BY DEF InOrder
      <3>2. sent'[p] = [sent[p] EXCEPT !.ahead = @ \ {o}] /\ sent'[p].answer = sent[p].answer
            /\ sent'[p].ahead = sent[p].ahead \ {o}
        BY <2>2, <1>m
      <3>3. sent[p] = Unsent => sent'[p] = Unsent
        BY <3>2 DEF Unsent
      <3>4. OnWire(op[p].node) \subseteq Ops
        BY DEF OnWire, OfNode
      <3> QED
        BY <2>2, <3>1, <3>2, <3>3, <3>4, <1>2, <1>4
    <2> QED
      BY <2>1, <2>2
  <1>6. ASSUME NEW p \in Ops, NEW q \in Ops, Wired(p)', Wired(q)', op'[p].node = op'[q].node, p # q
        PROVE  p \in sent'[q].ahead \/ q \in sent'[p].ahead
    <2>1. ASSUME NEW a \in Ops \ {o}, Wired(a)', op'[a].node = op'[o].node, Wired(o)'
          PROVE  a \in sent'[o].ahead
      <3>1. a \in OnWire(h.node)
        BY <2>1, <1>2 DEF OnWire, OfNode, Wired
      <3> QED
        BY <2>1, <3>1, <1>3, <1>m
    <2>2. CASE p # o /\ q # o
      <3>1. p \in sent[q].ahead \/ q \in sent[p].ahead
        BY <1>6, <2>2, <1>2 DEF InOrder
      <3> QED
        BY <2>2, <3>1, <1>m
    <2> QED
      BY <1>6, <2>1, <2>2
  <1> QED
    BY <1>5, <1>6 DEF InOrder

\* The rest of the order of a node's work.
LEMMA MoveOrderly ==
  ASSUME OpsTyped, Orderly, NEW n \in Nodes, NEW o \in Ops, op[o].node \in {None, n},
         NEW h \in OpTypes, h.node \in {None, n}, h.at = "idle" <=> h.node = None, Moved(o, h),
         Fits(o, h),
         o = Renewal(n) \/ h.at \in {"idle", "scan", "listed"} \/ Works(o)
           \/ \A p \in OfNode(n) : p = Renewal(n) \/ ~Works(p),
         \A m \in Nodes \ {n} : phase'[m] = phase[m] /\ (m \in engine' => m \in engine),
         Up(n)' => (Up(n) \/ op[Renewal(n)].at = "idle") /\ h.at # "leave",
         phase'[n] # "down"
  PROVE  Orderly'
  <1>1. n # None /\ Renewal(n) \in Ops /\ op'[o] = h /\ \A p \in Ops \ {o} : op'[p] = op[p]
    BY Slots, MovedTo
  <1>2. InOrder'
    BY MoveInOrder DEF Orderly
  <1>3. \A p \in Ops : Fits(p, op'[p])
    BY <1>1 DEF Orderly, Placed
  <1>4. ASSUME NEW m \in Nodes, Up(m)' PROVE op'[Renewal(m)].at # "leave"
    <2>1. Renewal(m) \in Ops /\ (m # n => Up(m))
      BY <1>4, Slots DEF Up
    <2>2. CASE m = n
      BY <1>4, <2>1, <2>2, <1>1 DEF Orderly, Placed
    <2>3. CASE m # n
      <3>1. Fits(o, h)
        OBVIOUS
      <3>2. o = Renewal(m) => h.node = None
        BY <2>3, <3>1 DEF Fits
      <3> QED
        BY <2>1, <2>3, <3>2, <1>1 DEF Orderly, Placed
    <2> QED
      BY <2>2, <2>3
  <1>5. DownIsEmpty'
    <2> SUFFICES ASSUME NEW m \in Nodes, phase'[m] = "down"
                 PROVE  OfNode(m)' = {} /\ m \notin engine'
      BY DEF DownIsEmpty
    <2>1. m # n /\ phase[m] = "down" /\ m # None
      BY Slots
    <2>2. OfNode(m) = {} /\ m \notin engine'
      BY <2>1 DEF Orderly, DownIsEmpty
    <2> QED
      BY <2>1, <2>2, <1>1 DEF OfNode
  <1>6. OneVerb'
    <2> SUFFICES ASSUME NEW p \in Ops, NEW q \in Ops, Works(p)', Works(q)', op'[p].node = op'[q].node,
                        p # Renewal(op'[p].node), q # Renewal(op'[q].node), p # q
                 PROVE  FALSE
      BY DEF OneVerb
    <2>1. ASSUME NEW a \in Ops, a # o, Works(a)', Works(o)', op'[a].node = op'[o].node,
                 a # Renewal(op'[a].node), o # Renewal(op'[o].node)
          PROVE  FALSE
      <3>1. op'[o].node = n /\ h.at \notin {"idle", "scan", "listed"}
        BY <1>1, <2>1 DEF Works
      <3>2. Works(a) /\ op[a].node = n /\ a # Renewal(n) /\ o # Renewal(n)
        BY <1>1, <2>1, <3>1 DEF Works
      <3>3. Works(o) /\ op[o].node = n
        <4>1. Works(o)
          BY <3>1, <3>2 DEF OfNode
        <4> QED
          BY <4>1 DEF Works, OpsTyped
      <3> QED
        BY <2>1, <3>2, <3>3 DEF Orderly, OneVerb
    <2>2. CASE p # o /\ q # o
      BY <2>2, <1>1 DEF Works, Orderly, OneVerb
    <2> QED
      BY <2>1, <2>2
  <1> QED
    BY <1>2, <1>3, <1>4, <1>5, <1>6 DEF Orderly, Placed

-----------------------------------------------------------------------------
(* What a step leaves of the nodes it is not about *)

\* A renewal that is not in flight on its node is idle.
LEMMA RenewalHome ==
  ASSUME OpsTyped, Placed, NEW n \in Nodes
  PROVE  \/ Renewal(n) \in OfNode(n)
         \/ op[Renewal(n)].at = "idle"
  BY Slots DEF Placed, Fits, OpsTyped, OfNode

LEMMA CreditFalls ==
  ASSUME mishaps \in Nat, mishaps' \in {mishaps, mishaps + 1}
  PROVE  /\ Credit(mishaps)' = Credit(mishaps') /\ Credit(mishaps') <= Credit(mishaps)
         /\ Credit(mishaps) \in Int /\ Credit(mishaps') \in Int
         /\ (mishaps' = mishaps + 1 => Credit(mishaps') = Credit(mishaps) - Beat)
  <1>1. Credit(mishaps) \in Int /\ Credit(mishaps + 1) = Credit(mishaps) - Beat
    BY CreditDrops, OwnershipAssumption DEF Credit
  <1> QED
    BY <1>1, OwnershipAssumption DEF Credit

LEMMA SafeElsewhere ==
  ASSUME Calm, TypeOK, TypeOK', Placed, Placed', NEW m \in Nodes, Safe(m),
         phase'[m] = phase[m], beat'[m] = beat[m], m \in owned => m \in owned',
         m \in engine' => m \in engine,
         OfNode(m)' = OfNode(m),
         \A p \in OfNode(m) : /\ op'[p] = op[p]
                              /\ sent'[p].age = sent[p].age /\ sent'[p].answer = sent[p].answer,
         row.node = m /\ row.lease > 0 => row'.node = row.node /\ row'.lease = row.lease,
         mishaps' \in {mishaps, mishaps + 1}
  PROVE  Safe(m)'
  <1> SUFFICES ASSUME Up(m)
               PROVE (ClaimStands(m) /\ Covered(m) /\ RenewalAge(m) /\ LossTrue(m) /\ ReleaseIdle(m))'
    BY DEF Safe, Up
  <1>1. Safe(m) /\ ClaimStands(m) /\ Covered(m) /\ RenewalAge(m) /\ LossTrue(m) /\ ReleaseIdle(m)
    BY DEF Safe
  <1>2. Active(m)' => Active(m)
    BY DEF Active, Starting
  <1>3. \/ op[Renewal(m)].at = "idle" /\ op'[Renewal(m)].at = "idle"
        \/ /\ op'[Renewal(m)] = op[Renewal(m)] /\ sent'[Renewal(m)].answer = sent[Renewal(m)].answer
           /\ sent'[Renewal(m)].age = sent[Renewal(m)].age
    <2>1. Renewal(m) \in OfNode(m) \/ op[Renewal(m)].at = "idle"
      BY RenewalHome DEF TypeOK
    <2>2. (Renewal(m) \in OfNode(m) \/ op[Renewal(m)].at = "idle")'
      BY Slots DEF TypeOK, Placed, Fits, OpsTyped, OfNode
    <2> QED
      BY <2>1, <2>2
  <1>4. ClaimStands(m)'
    <2> SUFFICES ASSUME NEW o \in OfNode(m), op[o].at = "claim", sent[o].answer = "hit"
                 PROVE  row'.node = m /\ row'.lease = TTL - sent[o].age
      BY DEF ClaimStands
    <2>1. row.node = m /\ row.lease = TTL - sent[o].age
      BY <1>1 DEF ClaimStands
    <2>2. sent[o].age \in 0..Slow /\ TTL \in Nat /\ Slow \in Nat /\ Beat \in Nat
      BY OwnershipAssumption DEF TypeOK, OpsTyped, SentTypes, OfNode
    <2>3. Slow < TTL
      <3>1. 0 \in 0..MaxMishaps
        BY OwnershipAssumption
      <3>2. Credit(0) <= TTL - Slow /\ Beat + Slow < Credit(0) /\ Credit(0) \in Int
        BY <3>1, CreditFacts
      <3> QED
        BY <3>2, <2>2
    <2> QED
      BY <2>1, <2>2, <2>3
  <1>5. Covered(m)'
    <2> SUFFICES ASSUME Active(m)'
                 PROVE  m \in owned' /\ row'.node = m /\ row'.lease >= Floor(m)'
      BY DEF Covered
    <2>1. m \in owned /\ row.node = m /\ row.lease > 0 /\ row.lease >= Floor(m) /\ Floor(m) \in Int
      BY <1>1, <1>2, StillLive DEF Covered
    <2>2. Due(m)' <=> Due(m)
      BY <1>3 DEF Due
    <2>3. Floor(m)' <= Floor(m)
      <3>1. mishaps \in Nat /\ beat[m] \in Int /\ Beat \in Int
        BY OwnershipAssumption DEF TypeOK, NodesTyped
      <3> QED
        BY <3>1, <2>2, CreditFalls DEF Floor
    <2>4. Floor(m)' \in Int /\ row.lease \in Int
      <3>1. mishaps \in Nat /\ beat[m] \in Int /\ Beat \in Int /\ row.lease \in Int
        BY OwnershipAssumption DEF TypeOK, NodesTyped, RowTyped, RowTypes
      <3> QED
        BY <3>1, CreditFalls DEF Floor
    <2> QED
      BY <2>1, <2>3, <2>4
  <1>6. RenewalAge(m)'
    BY <1>1, <1>3 DEF RenewalAge
  <1>7. LossTrue(m)'
    BY <1>1, <1>2, <1>3 DEF LossTrue
  <1>8. ReleaseIdle(m)'
    BY <1>1 DEF ReleaseIdle
  <1> QED
    BY <1>4, <1>5, <1>6, <1>7, <1>8

\* A move on n leaves the other nodes safe.
LEMMA MoveElsewhere ==
  ASSUME Calm, TypeOK, TypeOK', Placed, Placed', NEW n \in Nodes, NEW o \in Ops,
         op[o].node \in {None, n}, NEW h \in OpTypes, h.node \in {None, n}, Moved(o, h),
         NEW m \in Nodes, m # n, Safe(m),
         phase'[m] = phase[m], beat'[m] = beat[m], m \in owned => m \in owned',
         m \in engine' => m \in engine,
         row'.node = row.node, row'.lease = row.lease,
         mishaps' \in {mishaps, mishaps + 1}
  PROVE  Safe(m)'
  <1>1. OpsTyped /\ m # None
    BY Slots DEF TypeOK
  <1>2. /\ op'[o] = h
        /\ \A p \in Ops \ {o} : /\ op'[p] = op[p] /\ sent'[p].age = sent[p].age
                                /\ sent'[p].answer = sent[p].answer
    BY <1>1, MovedTo
  <1>3. OfNode(m)' = OfNode(m)
    BY <1>1, <1>2 DEF OfNode
  <1>4. \A p \in OfNode(m) : p \in Ops \ {o}
    BY <1>1 DEF OfNode
  <1> QED
    BY <1>2, <1>3, <1>4, SafeElsewhere

\* ... and n itself, when its engine stays covered, no look-up that missed is upset and no
\* release is sent under an engine.
LEMMA MoveHere ==
  ASSUME Calm, TypeOK, Placed, NEW n \in Nodes, NEW o \in Ops,
         op[o].node \in {None, n}, NEW h \in OpTypes, h.node \in {None, n}, Moved(o, h),
         Safe(n), phase'[n] = phase[n], beat'[n] = beat[n],
         row'.node = row.node, row'.lease = row.lease,
         o = Renewal(n) => h.at # "renew",
         Up(n) => Covered(n)',
         Active(n)' => Active(n) \/ ~(op[Renewal(n)].at = "seen" /\ sent[Renewal(n)].answer = "miss"),
         Up(n) => ReleaseIdle(n)'
  PROVE  Safe(n)'
  <1> SUFFICES ASSUME Up(n)
               PROVE (ClaimStands(n) /\ RenewalAge(n) /\ LossTrue(n))'
    BY DEF Safe, Up
  <1>1. ClaimStands(n) /\ RenewalAge(n) /\ LossTrue(n)
    BY DEF Safe
  <1>2. /\ op'[o] = h /\ sent'[o].answer = "none"
        /\ \A p \in Ops \ {o} : /\ op'[p] = op[p] /\ sent'[p].age = sent[p].age
                                /\ sent'[p].answer = sent[p].answer
    BY MovedTo DEF TypeOK
  <1>3. Renewal(n) \in Ops
    BY Slots
  <1>4. ClaimStands(n)'
    BY <1>1, <1>2 DEF ClaimStands, OfNode
  <1>5. RenewalAge(n)'
    BY <1>1, <1>2, <1>3 DEF RenewalAge
  <1>6. LossTrue(n)'
    BY <1>1, <1>2, <1>3 DEF LossTrue
  <1> QED
    BY <1>4, <1>5, <1>6
-----------------------------------------------------------------------------
(* The steps *)

\* A step of a handler of node n, once its move is known: what is left to show.
LEMMA HandlerMoves ==
  ASSUME Calm, TypeOK, TypeOK', OwnInvariant, NEW n \in Nodes, NEW o \in Ops, op[o].node = n,
         NEW h \in OpTypes, h.node \in {None, n}, h.at = "idle" <=> h.node = None, Moved(o, h),
         Fits(o, h), h.at \notin {"renew", "leave"},
         h.at \in {"idle", "scan", "listed"} \/ Works(o)
           \/ \A p \in OfNode(n) : p = Renewal(n) \/ ~Works(p),
         UNCHANGED <<phase, beat>>, mishaps' \in {mishaps, mishaps + 1},
         row'.node = row.node, row'.lease = row.lease,
         \A m \in Nodes \ {n} : /\ m \in owned => m \in owned'
                                /\ m \in engine' => m \in engine,
         Up(n) => Covered(n)',
         Active(n)' => Active(n) \/ ~(op[Renewal(n)].at = "seen" /\ sent[Renewal(n)].answer = "miss"),
         Up(n) => ReleaseIdle(n)'
  PROVE  OwnInvariant'
  <1>1. n # None /\ phase[n] # "down" /\ OpsTyped /\ Orderly /\ Placed
    BY Slots DEF OwnInvariant, Orderly, DownIsEmpty, OfNode, TypeOK, Placed
  <1>2. Orderly'
    BY <1>1, MoveOrderly DEF Up
  <1>3. Placed'
    BY <1>2 DEF Orderly
  <1>4. Safe(n)'
    BY <1>1, MoveHere DEF OwnInvariant
  <1>5. ASSUME NEW m \in Nodes, m # n PROVE Safe(m)'
    BY <1>1, <1>3, <1>5, MoveElsewhere DEF OwnInvariant
  <1> QED
    BY <1>2, <1>4, <1>5 DEF OwnInvariant

\* The engine of n stays covered by a move that leaves no engine more and counts no renewal
\* executed that was not.
LEMMA StaysCovered ==
  ASSUME Calm, TypeOK, TypeOK', NEW n \in Nodes, Safe(n), Up(n),
         beat'[n] = beat[n], mishaps' \in {mishaps, mishaps + 1},
         row'.node = row.node, row'.lease = row.lease,
         Active(n)' => Active(n) /\ n \in owned',
         Due(n) => Due(n)' \/ mishaps' = mishaps + 1
  PROVE  Covered(n)'
  <1> SUFFICES ASSUME Active(n)'
               PROVE  n \in owned' /\ row'.node = n /\ row'.lease >= Floor(n)'
    BY DEF Covered
  <1>1. row.node = n /\ row.lease >= Floor(n)
    BY DEF Safe, Covered
  <1>2. mishaps \in Nat /\ beat[n] \in Int /\ Beat \in Nat /\ row.lease \in Int
    BY OwnershipAssumption DEF TypeOK, NodesTyped, RowTyped, RowTypes
  <1>3. /\ Credit(mishaps)' = Credit(mishaps') /\ Credit(mishaps') <= Credit(mishaps)
        /\ Credit(mishaps) \in Int /\ Credit(mishaps') \in Int
        /\ (mishaps' = mishaps + 1 => Credit(mishaps') = Credit(mishaps) - Beat)
    BY <1>2, CreditFalls
  <1>4. Floor(n)' <= Floor(n) /\ Floor(n) \in Int /\ Floor(n)' \in Int
    BY <1>2, <1>3 DEF Floor
  <1> QED
    BY <1>1, <1>2, <1>4

\* Such a move keeps the invariant.
LEMMA QuietMoves ==
  ASSUME Calm, TypeOK, TypeOK', OwnInvariant, NEW n \in Nodes, NEW o \in Ops, op[o].node = n,
         NEW h \in OpTypes, h.node \in {None, n}, h.at = "idle" <=> h.node = None, Moved(o, h),
         Fits(o, h), h.at \notin {"renew", "leave"},
         h.at \in {"idle", "scan", "listed"} \/ Works(o)
           \/ \A p \in OfNode(n) : p = Renewal(n) \/ ~Works(p),
         UNCHANGED <<phase, beat>>, mishaps' \in {mishaps, mishaps + 1},
         row'.node = row.node, row'.lease = row.lease,
         \A m \in Nodes \ {n} : m \in owned => m \in owned',
         \A m \in Nodes : m \in engine' => m \in engine,
         h.at \in {"prep", "launch"} => op[o].at \in {"prep", "launch"},
         n \in owned => n \in owned' \/ (Up(n) => ~Active(n)'),
         o = Renewal(n) => ~Due(n),
         h.at = "release" => n \notin engine'
  PROVE  OwnInvariant'
  <1>1. Safe(n) /\ OpsTyped
    BY DEF OwnInvariant, TypeOK
  <1>2. /\ op'[o] = h
        /\ \A p \in Ops \ {o} : op'[p] = op[p] /\ sent'[p].answer = sent[p].answer
    BY <1>1, MovedTo
  <1>3. n # None /\ Renewal(n) \in Ops
    BY Slots
  <1>4. Active(n)' => Active(n)
    <2>1. \A p \in OfNode(n)' : op'[p].at \in {"prep", "launch"} =>
             p \in OfNode(n) /\ op[p].at \in {"prep", "launch"}
      BY <1>2 DEF OfNode
    <2> QED
      BY <2>1 DEF Active, Starting
  <1>5. ASSUME Up(n) PROVE Covered(n)'
    <2>1. Active(n)' => n \in owned'
      BY <1>1, <1>4, <1>5 DEF Safe, Covered
    <2>2. Due(n) => Due(n)'
      BY <1>2, <1>3 DEF Due
    <2> QED
      BY <1>1, <1>4, <1>5, <2>1, <2>2, StaysCovered
  <1>6. ASSUME Up(n) PROVE ReleaseIdle(n)'
    BY <1>1, <1>2, <1>6 DEF Safe, ReleaseIdle, OfNode
  <1> QED
    BY <1>4, <1>5, <1>6, HandlerMoves

LEMMA IdleFits ==
  ASSUME NEW o \in Ops
  PROVE  Idle \in OpTypes /\ Idle.node = None /\ Idle.at = "idle" /\ Fits(o, Idle)
  BY DEF Idle, OpTypes, Fits

LEMMA AtFits ==
  ASSUME OpsTyped, NEW o \in Ops, Fits(o, op[o]), op[o].at \notin {"idle", "leave"}, NEW l,
         l \notin {"leave", "idle"}, l \in {"renew", "seen", "lost"} <=> op[o].at \in {"renew", "seen", "lost"}
  PROVE  Fits(o, At(o, l)) /\ At(o, l).node = op[o].node /\ At(o, l).at = l /\ op[o].node \in Nodes
  <1>1. At(o, l).node = op[o].node /\ At(o, l).at = l /\ At(o, l).verb = op[o].verb /\ op[o].node \in Nodes
    BY DEF At, OpsTyped, OpTypes
  <1>2. op[o].node # None
    BY <1>1, Slots
  <1> QED
    BY <1>1, <1>2 DEF Fits

LEMMA DoneKeeps ==
  ASSUME Calm, TypeOK, TypeOK', OwnInvariant, NEW n \in Nodes, NEW o \in Ops, op[o].node = n,
         Done(o), UNCHANGED <<phase, beat>>, mishaps' \in {mishaps, mishaps + 1},
         row'.node = row.node, row'.lease = row.lease,
         owned \subseteq owned', engine' \subseteq engine, 
         o = Renewal(n) => ~Due(n)
  PROVE  OwnInvariant'
  <1>1. Moved(o, Idle) 
    BY MovesAre DEF TypeOK
  <1>2. /\ Idle \in OpTypes /\ Idle.node \in {None, n} /\ (Idle.at = "idle" <=> Idle.node = None)
        /\ Idle.at \notin {"renew", "leave"} /\ Idle.at \in {"idle", "scan", "listed"}
        /\ Idle.at \notin {"prep", "launch", "release"} /\ Fits(o, Idle)
    BY IdleFits
  <1>3. /\ \A m \in Nodes \ {n} : m \in owned => m \in owned'
        /\ \A m \in Nodes : m \in engine' => m \in engine
        /\ n \in owned => n \in owned'
    OBVIOUS
  <1> QED
    BY <1>1, <1>2, <1>3, QuietMoves

\* ... to another query or to wait for something else.
LEMMA GoesOn ==
  ASSUME Calm, TypeOK, TypeOK', OwnInvariant, NEW n \in Nodes, NEW o \in Ops, op[o].node = n,
         op[o].at \notin {"idle", "leave"}, NEW l,
         \/ l \in {"launch", "stopping", "lost"} /\ Goes(o, l)
         \/ l \in {"claim", "fence", "release", "seen"} /\ Query(o, l),
         l \in {"seen", "lost"} <=> op[o].at \in {"renew", "seen", "lost"},
         Works(o) \/ \A p \in OfNode(n) : p = Renewal(n) \/ ~Works(p),
         UNCHANGED <<phase, beat>>, mishaps' = mishaps,
         row'.node = row.node, row'.lease = row.lease,
         \A m \in Nodes \ {n} : m \in owned => m \in owned',
         engine' \subseteq engine,
         l = "launch" => op[o].at \in {"prep", "launch"},
         n \in owned => n \in owned' \/ (Up(n) => ~Active(n)'),
         o = Renewal(n) => ~Due(n),
         l = "release" => n \notin engine'
  PROVE  OwnInvariant'
  <1>1. OpsTyped /\ Fits(o, op[o])
    BY DEF TypeOK, OwnInvariant, Orderly, Placed
  <1>2. l \in {"launch", "stopping", "lost", "claim", "fence", "release", "seen"}
    OBVIOUS
  <1>3. Fits(o, At(o, l)) /\ At(o, l).node = n /\ At(o, l).at = l
    BY <1>1, <1>2, AtFits
  <1>4. Moved(o, At(o, l)) /\ At(o, l) \in OpTypes
    <2>1. l \in {"claim", "fence", "release", "seen"} => l \in Querying
      BY DEF Querying
    <2> QED
      BY <1>1, <1>2, <2>1, MovesAre
  <1>5. n # None
    BY Slots
  <1> DEFINE h == At(o, l)
  <1>6. /\ h.node \in {None, n} /\ (h.at = "idle" <=> h.node = None) /\ h.at = l
        /\ h.at \notin {"renew", "leave"} /\ (h.at \in {"prep", "launch"} => l = "launch")
    BY <1>2, <1>3, <1>5
  <1>7. Moved(o, h) /\ h \in OpTypes /\ Fits(o, h)
    BY <1>3, <1>4
  <1>8. \A m \in Nodes : m \in engine' => m \in engine
    OBVIOUS
  <1> HIDE DEF h
  <1> QED
    BY <1>6, <1>7, <1>8, QuietMoves

\* releaseUnlessEngineActive() never releases under an engine.
LEMMA GiveUpKeeps ==
  ASSUME Calm, TypeOK, TypeOK', OwnInvariant, NEW n \in Nodes, NEW o \in Ops, op[o].node = n,
         op[o].at \in {"prep", "launch", "stopping"}, GiveUp(o),
         UNCHANGED <<phase, beat>>, mishaps' = mishaps,
         row'.node = row.node, row'.lease = row.lease, engine' \subseteq engine
  PROVE  OwnInvariant'
  <1>1. o # Renewal(n) /\ Works(o) /\ OpsTyped
    <2>1. Fits(o, op[o])
      BY DEF OwnInvariant, Orderly, Placed
    <2> QED
      BY <2>1, Slots DEF Fits, Works, TypeOK
  <1>2. CASE Done(o) /\ UNCHANGED owned
    BY <1>1, <1>2, DoneKeeps
  <1>3. CASE /\ Query(o, "release") /\ owned' = owned \ {n} /\ n \notin engine'
             /\ \A p \in OfNode(n) \ {o} : op[p].at \notin {"prep", "launch"}
    <2>0. "release" \in Querying /\ At(o, "release").at = "release"
      BY <1>1 DEF Querying, At, OpsTyped, OpTypes
    <2>1. Moved(o, At(o, "release")) /\ At(o, "release") \in OpTypes /\ At(o, "release").at = "release"
      BY <1>1, <1>3, <2>0, MovesAre
    <2>2. op'[o].at = "release" /\ \A p \in Ops \ {o} : op'[p] = op[p]
      BY <1>1, <2>1, MovedTo
    <2>3. ~Active(n)'
      BY <1>3, <2>2 DEF Active, Starting, OfNode
    <2> DEFINE l == "release"
    <2>4. /\ l \in {"claim", "fence", "release", "seen"} /\ Query(o, l)
          /\ (l \in {"seen", "lost"} <=> op[o].at \in {"renew", "seen", "lost"})
          /\ (l = "launch" => op[o].at \in {"prep", "launch"})
          /\ (l = "release" => n \notin engine')
      BY <1>3
    <2>5. /\ op[o].at \notin {"idle", "leave"}
          /\ \A m \in Nodes \ {n} : m \in owned => m \in owned'
      BY <1>3
    <2> HIDE DEF l
    <2> QED
      BY <1>1, <2>3, <2>4, <2>5, GoesOn
  <1> QED
    BY <1>2, <1>3 DEF GiveUp
-----------------------------------------------------------------------------
(* The steps of the handlers *)

\* A handler in flight has a node, and is a renewal exactly where only renewals are.
LEMMA Whose ==
  ASSUME TypeOK, OwnInvariant, NEW o \in Ops, op[o].at # "idle"
  PROVE  /\ op[o].node \in Nodes
         /\ o = Renewal(op[o].node) <=> op[o].at \in {"renew", "seen", "lost", "leave"}
  <1>1. op[o].node \in Nodes /\ op[o].node # None /\ Fits(o, op[o])
    BY Slots DEF TypeOK, OpsTyped, OpTypes, OwnInvariant, Orderly, Placed
  <1> QED
    BY <1>1 DEF Fits

LEMMA NotSent ==
  ASSUME OpsTyped, InOrder, NEW o \in Ops, ~Wired(o)
  PROVE  Back(o) = sent
  <1>1. sent[o] = Unsent
    BY DEF InOrder
  <1>2. ASSUME NEW p \in Ops PROVE [sent[p] EXCEPT !.ahead = @ \ {o}] = sent[p]
    <2>1. o \notin sent[p].ahead /\ sent[p] \in SentTypes
      BY DEF InOrder, OnWire, Wired, OpsTyped
    <2>2. sent[p].ahead \ {o} = sent[p].ahead
      BY <2>1
    <2> QED
      BY <2>1, <2>2 DEF SentTypes
  <1> QED
    BY <1>1, <1>2 DEF Back, OpsTyped

LEMMA EndsKeep ==
  ASSUME Calm, TypeOK, TypeOK', OwnInvariant, NEW o \in Ops,
         NotClaimed(o) \/ Launched(o) \/ Released(o) \/ StopRefused(o) \/ Kept(o)
           \/ OrphanStopped(o)
  PROVE  OwnInvariant'
  <1>1. /\ op[o].at # "idle" /\ Done(o) /\ UNCHANGED <<phase, beat>> /\ mishaps' = mishaps
        /\ row'.node = row.node /\ row'.lease = row.lease
        /\ owned \subseteq owned' /\ engine' \subseteq engine
        /\ op[o].at # "renew" \/ sent[o].answer # "none"
    BY DEF NotClaimed, Launched, Released, StopRefused, Kept, OrphanStopped, Answered, local, world
  <1>2. op[o].node \in Nodes
    BY <1>1, Whose
  <1>3. o = Renewal(op[o].node) => ~Due(op[o].node)
    BY <1>1 DEF Due
  <1> DEFINE n == op[o].node
  <1>4. n \in Nodes /\ op[o].node = n /\ (o = Renewal(n) => ~Due(n))
    BY <1>2, <1>3
  <1> HIDE DEF n
  <1> QED
    BY <1>1, <1>4, DoneKeeps

LEMMA GoOnKeep ==
  ASSUME Calm, TypeOK, TypeOK', OwnInvariant, NEW o \in Ops,
         StopPasses(o) \/ Renewed(o) \/ Lost(o)
  PROVE  OwnInvariant'
  <1>0. op[o].at \in {"fence", "renew", "seen"}
    BY DEF StopPasses, Renewed, Lost, Answered
  <1>n. PICK n \in Nodes : op[o].node = n
    BY <1>0, Whose
  <1>1. /\ op[o].at \in {"fence", "renew", "seen"} /\ UNCHANGED <<phase, beat>> /\ mishaps' = mishaps
        /\ row'.node = row.node /\ row'.lease = row.lease
        /\ engine' \subseteq engine /\ Works(o)
        /\ \A m \in Nodes \ {n} : m \in owned => m \in owned'
        /\ sent[o].answer # "none"
    BY <1>n DEF StopPasses, Renewed, Lost, Answered, Works, local, world
  <1>2. n \in Nodes /\ op[o].node = n /\ (o = Renewal(n) <=> op[o].at \in {"renew", "seen", "lost", "leave"})
    BY <1>n, <1>1, Whose
  <1>3. o = Renewal(n) => ~Due(n)
    BY <1>1 DEF Due
  <1>4. OpsTyped
    BY DEF TypeOK
  <1>5. CASE StopPasses(o)
    <2> DEFINE l == "stopping"
    <2>1. /\ l \in {"launch", "stopping", "lost"} /\ Goes(o, l) /\ l # "launch" /\ l # "release"
          /\ (l \in {"seen", "lost"} <=> op[o].at \in {"renew", "seen", "lost"})
          /\ (n \in owned => n \in owned') /\ op[o].at \notin {"idle", "leave"}
      BY <1>n, <1>5 DEF StopPasses, Answered
    <2> HIDE DEF l
    <2> QED
      BY <1>1, <1>2, <1>3, <2>1, GoesOn
  <1>6. CASE Renewed(o)
    <2> DEFINE l == "seen"
    <2>1. /\ l \in {"claim", "fence", "release", "seen"} /\ Query(o, l) /\ l # "launch" /\ l # "release"
          /\ (l \in {"seen", "lost"} <=> op[o].at \in {"renew", "seen", "lost"})
          /\ (n \in owned => n \in owned') /\ op[o].at \notin {"idle", "leave"}
      BY <1>n, <1>6 DEF Renewed, Answered, local
    <2> HIDE DEF l
    <2> QED
      BY <1>1, <1>2, <1>3, <2>1, GoesOn
  <1>7. CASE Lost(o)
    <2> DEFINE l == "lost"
    <2>1. /\ l \in {"launch", "stopping", "lost"} /\ Goes(o, l) /\ l # "launch" /\ l # "release"
          /\ (l \in {"seen", "lost"} <=> op[o].at \in {"renew", "seen", "lost"})
          /\ op[o].at \notin {"idle", "leave"}
      BY <1>n, <1>7 DEF Lost, Answered
    <2>2. ASSUME Up(n) PROVE ~Active(n)'
      <3>1. ~Active(n)
        <4>1. o = Renewal(n)
          BY <1>2, <1>7 DEF Lost, Answered
        <4> QED
          BY <1>2, <1>7, <2>2, <4>1 DEF Lost, Answered, OwnInvariant, Safe, LossTrue
      <3>2. op'[o].at = "lost" /\ \A p \in Ops \ {o} : op'[p] = op[p]
        BY <1>7 DEF Lost, Goes, TypeOK, OpsTyped, OpTypes
      <3>3. engine' = engine
        BY <1>7 DEF Lost
      <3> QED
        BY <3>1, <3>2, <3>3 DEF Active, Starting, OfNode
    <2>3. mishaps' = mishaps /\ (l = "launch" => op[o].at \in {"prep", "launch"})
          /\ (l = "release" => n \notin engine')
          /\ (n \in owned => n \in owned' \/ (Up(n) => ~Active(n)'))
      BY <1>1, <2>1, <2>2
    <2> HIDE DEF l
    <2> QED
      BY <1>1, <1>2, <1>3, <2>1, <2>3, GoesOn
  <1> QED
    BY <1>5, <1>6, <1>7

LEMMA GivesUpKeep ==
  ASSUME Calm, TypeOK, TypeOK', OwnInvariant, NEW o \in Ops, Rejected(o) \/ StopWritten(o)
  PROVE  OwnInvariant'
  <1> DEFINE n == op[o].node
  <1>1. op[o].at \in {"launch", "stopping"} /\ n \in Nodes /\ op[o].node = n /\ o # Renewal(n)
    BY Whose DEF Rejected, StopWritten
  <1>2. row \in RowTypes /\ UNCHANGED <<phase, beat>>
    BY DEF TypeOK, RowTyped, Rejected, StopWritten, world
  <1>3. row'.node = row.node /\ row'.lease = row.lease /\ engine' \subseteq engine
    BY <1>2 DEF RowTypes, Rejected, StopWritten
  <1>4. CASE GiveUp(o) /\ mishaps' = mishaps
    <2> HIDE DEF n
    <2> QED
      BY <1>1, <1>2, <1>3, <1>4, GiveUpKeeps
  <1>5. CASE Done(o) /\ Mishap /\ owned' = owned
    <2>1. mishaps' \in {mishaps, mishaps + 1} /\ owned \subseteq owned'
      BY <1>5 DEF Mishap
    <2> HIDE DEF n
    <2> QED
      BY <1>1, <1>2, <1>3, <1>5, <2>1, DoneKeeps
  <1> QED
    BY <1>4, <1>5 DEF Rejected, StopWritten, world

\* No release is under way on a node where another verb works.
LEMMA NoRelease ==
  ASSUME TypeOK, OwnInvariant, NEW n \in Nodes, NEW o \in Ops, op[o].node = n,
         op[o].at \in {"claim", "prep", "launch"}, NEW p \in Ops, op[p].node = n
  PROVE  op[p].at # "release"
  <1> SUFFICES ASSUME op[p].at = "release" PROVE FALSE
    OBVIOUS
  <1>1. o # Renewal(n) /\ p # Renewal(n)
    BY Whose
  <1>2. Works(o) /\ Works(p)
    BY DEF Works
  <1> QED
    BY <1>1, <1>2 DEF OwnInvariant, Orderly, OneVerb

LEMMA RegisterKeeps ==
  ASSUME Calm, TypeOK, TypeOK', OwnInvariant, NEW o \in Ops, Register(o)
  PROVE  OwnInvariant'
  <1>1. op[o].at = "prep" /\ UNCHANGED <<phase, beat>> /\ mishaps' = mishaps /\ Works(o)
    BY DEF Register, world, Works
  <1>2. PICK n \in Nodes : op[o].node = n
    BY <1>1, Whose
  <1>3. row \in RowTypes /\ OpsTyped /\ Safe(n) /\ Fits(o, op[o])
    BY DEF TypeOK, RowTyped, OwnInvariant, Orderly, Placed
  <1>4. CASE UNCHANGED <<row, engine, marked>> /\ GiveUp(o)
    BY <1>1, <1>2, <1>4, GiveUpKeeps
  <1>5. CASE /\ engine' = engine \cup {n} /\ row' = [row EXCEPT !.status = "on"]
             /\ Goes(o, "launch") /\ UNCHANGED owned
    <2>1. row'.node = row.node /\ row'.lease = row.lease
      BY <1>3, <1>5 DEF RowTypes
    <2>2. Active(n) /\ o # Renewal(n)
      BY <1>1, <1>2, Whose DEF Active, Starting, OfNode
    <2> DEFINE h == At(o, "launch")
    <2>3. Moved(o, h) /\ h \in OpTypes
      BY <1>3, <1>5, MovesAre
    <2>4. Fits(o, h) /\ h.node = n /\ h.at = "launch" /\ n # None
      BY <1>1, <1>2, <1>3, AtFits, Slots
    <2> HIDE DEF h
    <2>5. op'[o] = h /\ \A p \in Ops \ {o} : op'[p] = op[p] /\ sent'[p].answer = sent[p].answer
      BY <1>3, <2>3, MovedTo
    <2>6. ASSUME Up(n) PROVE Covered(n)'
      <3>1. Due(n) => Due(n)'
        BY <2>2, <2>5, Slots DEF Due
      <3>2. n \in owned'
        BY <1>3, <1>5, <2>2, <2>6 DEF Safe, Covered
      <3> QED
        BY <1>1, <1>3, <2>1, <2>2, <2>6, <3>1, <3>2, StaysCovered
    <2>7. ReleaseIdle(n)'
      <3>1. \A p \in OfNode(n)' : op'[p].at # "release"
        BY <1>1, <1>2, <2>4, <2>5, NoRelease DEF OfNode
      <3> QED
        BY <3>1 DEF ReleaseIdle
    <2>8. /\ h.node \in {None, n} /\ (h.at = "idle" <=> h.node = None)
          /\ h.at \notin {"renew", "leave"}
          /\ \A m \in Nodes \ {n} : /\ m \in owned => m \in owned'
                                    /\ m \in engine' => m \in engine
      BY <1>5, <2>4
    <2> QED
      BY <1>1, <1>2, <2>1, <2>2, <2>3, <2>4, <2>6, <2>7, <2>8, HandlerMoves
  <1> QED
    BY <1>2, <1>4, <1>5 DEF Register

\* claim() was answered: the lease is as long as it gets, and no look-up of a renewal has
\* been answered behind it.
LEMMA ClaimedKeeps ==
  ASSUME Calm, TypeOK, TypeOK', OwnInvariant, NEW o \in Ops, Claimed(o)
  PROVE  OwnInvariant'
  <1>1. /\ op[o].at = "claim" /\ UNCHANGED <<phase, beat>> /\ mishaps' = mishaps /\ Works(o)
        /\ sent[o].answer = "hit" /\ Connected(o) /\ row' = row /\ engine' = engine
    BY DEF Claimed, Answered, world, Works
  <1>2. PICK n \in Nodes : op[o].node = n
    BY <1>1, Whose
  <1>3. OpsTyped /\ Safe(n) /\ Fits(o, op[o]) /\ o # Renewal(n) /\ InOrder
    BY <1>1, <1>2, Whose DEF TypeOK, RowTyped, OwnInvariant, Orderly, Placed
  <1>4. owned' = owned \cup {n} /\ (Done(o) \/ Goes(o, "prep"))
    BY <1>2 DEF Claimed
  <1>5. PICK h \in OpTypes : /\ Moved(o, h) /\ Fits(o, h) /\ h.node \in {None, n}
                             /\ h.at = "idle" <=> h.node = None
                             /\ h.at \in {"idle", "prep"}
    <2>1. CASE Done(o)
      BY <1>3, <2>1, MovesAre, IdleFits
    <2>2. CASE Goes(o, "prep")
      <3>1. Moved(o, At(o, "prep")) /\ At(o, "prep") \in OpTypes
        BY <1>3, <2>2, MovesAre
      <3>2. Fits(o, At(o, "prep")) /\ At(o, "prep").node = n /\ At(o, "prep").at = "prep" /\ n # None
        BY <1>1, <1>2, <1>3, AtFits, Slots
      <3> QED
        BY <3>1, <3>2
    <2> QED
      BY <1>4, <2>1, <2>2
  <1>6. op'[o] = h /\ \A p \in Ops \ {o} : op'[p] = op[p] /\ sent'[p].answer = sent[p].answer
    BY <1>3, <1>5, MovedTo
  <1>7. ASSUME Up(n) PROVE Covered(n)'
    <2>1. row.node = n /\ row.lease = TTL - sent[o].age
      BY <1>1, <1>2, <1>3, <1>7 DEF Safe, ClaimStands, OfNode
    <2>2. sent[o].age \in 0..Slow /\ mishaps \in 0..MaxMishaps /\ beat[n] \in 0..Beat /\ beat[n] \in Int
      BY <1>3, OwnershipAssumption DEF TypeOK, NodesTyped, OpsTyped, SentTypes
    <2>3. Credit(mishaps) \in Int /\ Credit(mishaps) <= TTL - Slow
      BY <2>2, CreditFacts
    <2>4. Floor(n)' <= Credit(mishaps)
      <3>1. Beat \in Nat /\ mishaps \in Nat
        BY OwnershipAssumption, <2>2
      <3>2. Floor(n)' = Credit(mishaps) - (Beat - beat[n]) - (IF Due(n)' THEN Beat ELSE 0)
        BY <1>1 DEF Floor, Credit
      <3> QED
        BY <2>2, <2>3, <3>1, <3>2
    <2>5. Floor(n)' \in Int
      <3>1. Beat \in Nat /\ mishaps \in Nat
        BY OwnershipAssumption, <2>2
      <3>2. Floor(n)' = Credit(mishaps) - (Beat - beat[n]) - (IF Due(n)' THEN Beat ELSE 0)
        BY <1>1 DEF Floor, Credit
      <3> QED
        BY <2>2, <2>3, <3>1, <3>2
    <2>6. row'.node = n /\ row'.lease >= Floor(n)'
      BY <1>1, <2>1, <2>2, <2>3, <2>4, <2>5, OwnershipAssumption
    <2> QED
      BY <1>4, <2>6 DEF Covered
  <1>8. ~(op[Renewal(n)].at = "seen" /\ sent[Renewal(n)].answer = "miss")
    <2> SUFFICES ASSUME op[Renewal(n)].at = "seen", sent[Renewal(n)].answer = "miss" PROVE FALSE
      OBVIOUS
    <2>1. Renewal(n) \in Ops /\ op[Renewal(n)].node = n
      BY Slots, RenewalHome DEF OwnInvariant, Orderly, OfNode, TypeOK
    <2> QED
      BY <1>1, <1>2, <1>3, <2>1, OneConnected
  <1>9. ReleaseIdle(n)'
    <2>1. \A p \in OfNode(n)' : op'[p].at # "release"
      BY <1>1, <1>2, <1>5, <1>6, NoRelease DEF OfNode
    <2> QED
      BY <2>1 DEF ReleaseIdle
  <1>10. /\ \A m \in Nodes \ {n} : /\ m \in owned => m \in owned'
                                   /\ m \in engine' => m \in engine
         /\ h.at \notin {"renew", "leave"} /\ row'.node = row.node /\ row'.lease = row.lease
    BY <1>1, <1>4, <1>5
  <1> QED
    BY <1>1, <1>2, <1>5, <1>7, <1>8, <1>9, <1>10, HandlerMoves
\* Where a verb may begin, nothing but the renewal works.
LEMMA ClearNode ==
  ASSUME Calm, TypeOK, OwnInvariant, NEW n \in Nodes, Clear(n)
  PROVE  \A p \in OfNode(n) : p = Renewal(n) \/ ~Works(p)
  <1> SUFFICES ASSUME NEW p \in OfNode(n), op[p].verb = "renew" PROVE p = Renewal(n) \/ ~Works(p)
    BY DEF Clear, Calm, Works
  <1>1. Fits(p, op[p]) /\ op[p].node = n /\ n # None
    BY Slots DEF OfNode, OwnInvariant, Orderly, Placed
  <1>2. PICK m \in Nodes : p = Renewal(m)
    BY <1>1 DEF Fits
  <1> QED
    BY <1>1, <1>2 DEF Fits

LEMMA SweepKeeps ==
  ASSUME Calm, TypeOK, TypeOK', OwnInvariant, NEW o \in Ops, Scan(o) \/ SweepStarts(o)
  PROVE  OwnInvariant'
  <1>1. /\ op[o].at \in {"scan", "listed"} /\ UNCHANGED <<phase, beat, owned, engine>> /\ mishaps' = mishaps
        /\ row' = row
    BY DEF Scan, SweepStarts, local, world
  <1>2. PICK n \in Nodes : op[o].node = n
    BY <1>1, Whose
  <1>3. OpsTyped /\ InOrder /\ Fits(o, op[o]) /\ o # Renewal(n) /\ ~Wired(o) /\ n # None
    BY <1>1, <1>2, Whose, Slots DEF TypeOK, OwnInvariant, Orderly, Placed, Wired, Querying
  <1>4. CASE SweepStarts(o)
    <2>1. \A p \in OfNode(n) : p = Renewal(n) \/ ~Works(p)
      BY <1>2, <1>4, ClearNode DEF SweepStarts
    <2> DEFINE l == "claim"
    <2>2. /\ l \in {"claim", "fence", "release", "seen"} /\ Query(o, l) /\ l # "launch" /\ l # "release"
          /\ (l \in {"seen", "lost"} <=> op[o].at \in {"renew", "seen", "lost"})
          /\ (n \in owned => n \in owned') /\ op[o].at \notin {"idle", "leave"}
          /\ \A m \in Nodes \ {n} : m \in owned => m \in owned'
          /\ engine' \subseteq engine /\ UNCHANGED <<phase, beat>>
          /\ row'.node = row.node /\ row'.lease = row.lease
      BY <1>1, <1>4 DEF SweepStarts
    <2> HIDE DEF l
    <2> QED
      BY <1>1, <1>2, <1>3, <2>1, <2>2, GoesOn
  <1>5. CASE Scan(o)
    <2>1. sent' = Back(o)
      BY <1>3, <1>5, NotSent DEF Scan
    <2>2. CASE op' = [op EXCEPT ![o] = Idle]
      <3>1. Done(o)
        BY <2>1, <2>2 DEF Done
      <3>2. UNCHANGED <<phase, beat>> /\ owned \subseteq owned' /\ engine' \subseteq engine
            /\ row'.node = row.node /\ row'.lease = row.lease
        BY <1>1
      <3> QED
        BY <1>1, <1>2, <1>3, <3>1, <3>2, DoneKeeps
    <2>3. CASE op' = [op EXCEPT ![o].at = "listed"]
      <3> DEFINE h == At(o, "listed")
      <3>1. h.at = "listed" /\ h.node = n /\ h \in OpTypes
        BY <1>2, <1>3 DEF At, OpsTyped, OpTypes
      <3>2. Fits(o, h)
        BY <1>1, <1>3, AtFits
      <3>3. Moved(o, h)
        <4>1. op' = [op EXCEPT ![o] = h]
          BY <2>3 DEF At
        <4> QED
          BY <2>1, <3>1, <4>1 DEF Moved, Querying
      <3> HIDE DEF h
      <3>4. /\ h.node \in {None, n} /\ (h.at = "idle" <=> h.node = None) /\ h.at \in {"idle", "scan", "listed"}
            /\ h.at \notin {"renew", "leave", "prep", "launch", "release"}
            /\ \A m \in Nodes \ {n} : m \in owned => m \in owned'
            /\ \A m \in Nodes : m \in engine' => m \in engine
            /\ (n \in owned => n \in owned') /\ UNCHANGED <<phase, beat>>
            /\ row'.node = row.node /\ row'.lease = row.lease
        BY <1>1, <1>3, <3>1
      <3> QED
        BY <1>1, <1>2, <1>3, <3>1, <3>2, <3>3, <3>4, QuietMoves
    <2> QED
      BY <1>5, <2>2, <2>3 DEF Scan
  <1> QED
    BY <1>4, <1>5

-----------------------------------------------------------------------------
(* The database *)

\* A query gets its answer, or fails: the order is kept.
LEMMA AnswerOrderly ==
  ASSUME Calm, TypeOK, Orderly, NEW o \in Ops, Connected(o), NEW a,
         sent' = [sent EXCEPT ![o].answer = a], UNCHANGED <<op, phase, engine>>
  PROVE  Orderly' /\ \A p \in Ops : /\ sent'[p].age = sent[p].age
                                    /\ p # o => sent'[p] = sent[p]
                  /\ sent'[o].answer = a
  <1>1. sent[o].ahead = {} /\ Wired(o) /\ OpsTyped
    BY ConnectedFirst DEF TypeOK
  <1>2. /\ \A p \in Ops : /\ sent'[p].age = sent[p].age /\ sent'[p].ahead = sent[p].ahead
                          /\ p # o => sent'[p] = sent[p]
        /\ sent'[o].answer = a
    BY <1>1 DEF OpsTyped, SentTypes
  <1>3. InOrder'
    BY <1>1, <1>2 DEF Orderly, InOrder, Wired, OnWire, OfNode
  <1>4. Placed' /\ DownIsEmpty' /\ OneVerb'
    BY DEF Orderly, Placed, Up, DownIsEmpty, OfNode, OneVerb, Works
  <1> QED
    BY <1>2, <1>3, <1>4 DEF Orderly

LEMMA FailKeeps ==
  ASSUME Calm, TypeOK, TypeOK', OwnInvariant, NEW o \in Ops, Fail(o)
  PROVE  OwnInvariant'
  <1>1. /\ UNCHANGED <<row, phase, beat, op, engine, owned>> /\ mishaps' = mishaps + 1
        /\ sent' = [sent EXCEPT ![o].answer = "error"] /\ Connected(o)
    BY DEF Fail, Mishap, local
  <1>2. /\ Orderly' /\ sent'[o].answer = "error"
        /\ \A p \in Ops : /\ sent'[p].age = sent[p].age
                          /\ p # o => sent'[p] = sent[p]
    BY <1>1, AnswerOrderly DEF OwnInvariant
  <1>3. ASSUME NEW n \in Nodes PROVE Safe(n)'
    <2> SUFFICES ASSUME Up(n)
                 PROVE (ClaimStands(n) /\ Covered(n) /\ RenewalAge(n) /\ LossTrue(n) /\ ReleaseIdle(n))'
      BY <1>1 DEF Safe, Up
    <2>1. /\ Safe(n) /\ ClaimStands(n) /\ Covered(n) /\ RenewalAge(n) /\ LossTrue(n) /\ ReleaseIdle(n)
          /\ Renewal(n) \in Ops
      BY Slots DEF OwnInvariant, Safe
    <2>2. Active(n)' <=> Active(n)
      BY <1>1 DEF Active, Starting, OfNode
    <2>3. Covered(n)'
      <3>1. Active(n) => n \in owned
        BY <2>1 DEF Covered
      <3> QED
        BY <1>1, <2>1, <2>2, <3>1, StaysCovered
    <2>4. ClaimStands(n)' /\ RenewalAge(n)' /\ ReleaseIdle(n)'
      BY <1>1, <1>2, <2>1 DEF ClaimStands, RenewalAge, ReleaseIdle, OfNode
    <2>5. LossTrue(n)'
      BY <1>1, <1>2, <2>1, <2>2 DEF LossTrue
    <2> QED
      BY <2>3, <2>4, <2>5
  <1> QED
    BY <1>2, <1>3 DEF OwnInvariant

\* What a query does to the lease of a node that is not its own.
LEMMA ExecuteSparesOthers ==
  ASSUME TypeOK, NEW o \in Ops, Execute(o), NEW m \in Nodes, op[o].node # m,
         row.node = m, row.lease > 0
  PROVE  row' = row
  <1>1. row \in RowTypes /\ row.lease \in Int /\ sent[o].age \in Nat /\ m # None
    BY OwnershipAssumption DEF TypeOK, RowTyped, RowTypes, OpsTyped, SentTypes
  <1>2. ~Lapsed(sent[o].age)
    BY <1>1 DEF Lapsed
  <1> QED
    BY <1>1, <1>2 DEF Execute, Claimable, Releasable

LEMMA ExecuteKeeps ==
  ASSUME Calm, TypeOK, TypeOK', OwnInvariant, NEW o \in Ops, Execute(o)
  PROVE  OwnInvariant'
  <1>1. /\ UNCHANGED <<phase, beat, op, engine, owned, mishaps>> /\ Connected(o)
        /\ sent[o].answer = "none" /\ \E h : Answer(o, h)
    BY DEF Execute, local, world
  <1>2. PICK a : sent' = [sent EXCEPT ![o].answer = a]
    BY <1>1 DEF Answer
  <1>3. PICK n \in Nodes : op[o].node = n
    BY <1>1, ConnectedFirst DEF TypeOK
  <1>4. /\ Orderly' /\ sent'[o].answer = a
        /\ \A p \in Ops : /\ sent'[p].age = sent[p].age
                          /\ p # o => sent'[p] = sent[p]
    BY <1>1, <1>2, AnswerOrderly DEF OwnInvariant
  <1>5. ASSUME NEW m \in Nodes, m # n PROVE Safe(m)'
    <2>1. /\ OfNode(m)' = OfNode(m)
          /\ \A p \in OfNode(m) : /\ op'[p] = op[p]
                                  /\ sent'[p].age = sent[p].age /\ sent'[p].answer = sent[p].answer
      BY <1>1, <1>3, <1>4, <1>5 DEF OfNode
    <2>2. row.node = m /\ row.lease > 0 => row'.node = row.node /\ row'.lease = row.lease
      BY <1>3, <1>5, ExecuteSparesOthers
    <2>3. Placed /\ Placed' /\ Safe(m)
      BY <1>4 DEF OwnInvariant, Orderly
    <2> QED
      BY <1>1, <2>1, <2>2, <2>3, SafeElsewhere
  <1>6. Safe(n)'
    <2> SUFFICES ASSUME Up(n)
                 PROVE (ClaimStands(n) /\ Covered(n) /\ RenewalAge(n) /\ LossTrue(n) /\ ReleaseIdle(n))'
      BY <1>1 DEF Safe, Up
    <2>1. /\ Safe(n) /\ ClaimStands(n) /\ Covered(n) /\ RenewalAge(n) /\ LossTrue(n) /\ ReleaseIdle(n)
          /\ Renewal(n) \in Ops
      BY Slots DEF OwnInvariant, Safe
    <2>2. Active(n)' <=> Active(n)
      BY <1>1 DEF Active, Starting, OfNode
    <2>3. RenewalAge(n)' /\ ReleaseIdle(n)'
      BY <1>1, <1>4, <2>1 DEF RenewalAge, ReleaseIdle, OfNode
    <2>4. sent[o].age \in 0..Slow /\ row \in RowTypes /\ row.lease \in Int /\ mishaps \in 0..MaxMishaps
          /\ beat[n] \in 0..Beat /\ beat[n] \in Int /\ Beat \in Nat /\ Slow \in Nat /\ TTL \in Nat
      BY OwnershipAssumption DEF TypeOK, OpsTyped, SentTypes, RowTyped, RowTypes, NodesTyped
    <2>5. Credit(mishaps) \in Int /\ Credit(mishaps) <= TTL - Slow
      BY <2>4, CreditFacts
    <2>6. Floor(n)' = Credit(mishaps) - (Beat - beat[n]) - (IF Due(n)' THEN Beat ELSE 0)
      BY <1>1 DEF Floor, Credit
    <2>7. ClaimStands(n)'
      <3> SUFFICES ASSUME NEW p \in OfNode(n), op[p].at = "claim", sent'[p].answer = "hit"
                   PROVE  row'.node = n /\ row'.lease = TTL - sent[p].age
        BY <1>1, <1>4 DEF ClaimStands, OfNode
      <3>1. CASE p = o
        <4>1. Answer(o, Claimable(n, sent[o].age))
          BY <1>3, <3>1 DEF Execute
        <4>2. Claimable(n, sent[o].age)
          BY <1>1, <3>1, <4>1 DEF Answer, TypeOK, OpsTyped, SentTypes
        <4>3. row' = [row EXCEPT !.node = n, !.lease = TTL - sent[o].age]
          BY <1>3, <3>1, <4>2 DEF Execute
        <4> QED
          BY <2>4, <3>1, <4>3 DEF RowTypes
      <3>2. CASE p # o
        <4>1. sent[p].answer = "hit" /\ p \in Ops /\ op[p].node = n
          BY <1>4, <3>2 DEF OfNode
        <4> QED
          BY <1>1, <1>3, <3>2, <4>1, OneConnected DEF OwnInvariant, Orderly, TypeOK
      <3> QED
        BY <3>1, <3>2
    <2>8. LossTrue(n)'
      <3> SUFFICES ASSUME op[Renewal(n)].at = "seen", sent'[Renewal(n)].answer = "miss"
                   PROVE  ~Active(n)
        BY <1>1, <2>2 DEF LossTrue
      <3>1. CASE o = Renewal(n)
        <4>1. Answer(o, row.node = n)
          BY <1>3, <3>1 DEF Execute
        <4>2. row.node # n
          BY <3>1, <4>1 DEF Answer, TypeOK, OpsTyped, SentTypes
        <4> QED
          BY <2>1, <4>2 DEF Covered
      <3>2. CASE o # Renewal(n)
        BY <1>4, <2>1, <3>2 DEF LossTrue
      <3> QED
        BY <3>1, <3>2
    <2>9. Covered(n)'
      <3> SUFFICES ASSUME Active(n)
                   PROVE  n \in owned /\ row'.node = n /\ row'.lease >= Floor(n)'
        BY <1>1, <2>2 DEF Covered
      <3>1. n \in owned /\ row.node = n /\ row.lease >= Floor(n)
        BY <2>1 DEF Covered
      <3>2. CASE row' = row /\ (Due(n)' <=> Due(n))
        <4>1. Floor(n)' = Floor(n)
          BY <1>1, <3>2 DEF Floor, Credit
        <4> QED
          BY <3>1, <3>2, <4>1
      <3>3. CASE row'.node = n /\ row'.lease = TTL - sent[o].age /\ (op[o].at = "renew" => o = Renewal(n))
        <4>1. o = Renewal(n) /\ op[o].at = "renew" => sent[o].age = Beat - beat[n] /\ ~Due(n)'
          <5>1. o = Renewal(n) /\ op[o].at = "renew" => sent'[o].answer = "hit"
            BY DEF Execute, Answer, TypeOK, OpsTyped, SentTypes
          <5> QED
            BY <2>1, <5>1 DEF RenewalAge, Due
        <4>2. TTL - sent[o].age >= Floor(n)'
          BY <2>4, <2>5, <2>6
        <4> QED
          BY <3>1, <3>3, <4>2
      <3>4. CASE op[o].at = "claim"
        <4>1. Claimable(n, sent[o].age)
          BY <3>1 DEF Claimable
        <4>2. row' = [row EXCEPT !.node = n, !.lease = TTL - sent[o].age]
          BY <1>3, <3>4, <4>1 DEF Execute
        <4> QED
          BY <2>4, <3>3, <3>4, <4>2 DEF RowTypes
      <3>5. CASE op[o].at = "release"
        <4>1. n \notin engine
          BY <1>3, <2>1, <3>5 DEF ReleaseIdle, OfNode
        <4>2. PICK p \in OfNode(n) : op[p].at \in {"prep", "launch"}
          BY <4>1 DEF Active, Starting
        <4> QED
          BY <1>3, <3>5, <4>2, NoRelease DEF OfNode
      <3>6. CASE op[o].at = "leave"
        <4>1. o = Renewal(n)
          BY <1>3, <3>6, Whose
        <4> QED
          BY <3>6, <4>1 DEF OwnInvariant, Orderly, Placed
      <3>7. CASE op[o].at = "renew"
        <4>1. row' = [row EXCEPT !.lease = TTL - sent[o].age]
          BY <1>3, <3>1, <3>7 DEF Execute
        <4>2. o = Renewal(n)
          BY <1>3, <3>7, Whose
        <4> QED
          BY <2>4, <3>1, <3>3, <4>1, <4>2 DEF RowTypes
      <3>8. CASE op[o].at \in {"seen", "fence"}
        <4>1. row' = row
          BY <3>8 DEF Execute
        <4>2. Due(n)' <=> Due(n)
          BY <1>1, <1>4, <2>1, <3>8 DEF Due
        <4> QED
          BY <3>2, <4>1, <4>2
      <3> QED
        BY <3>4, <3>5, <3>6, <3>7, <3>8 DEF Execute
    <2> QED
      BY <2>3, <2>7, <2>8, <2>9
  <1> QED
    BY <1>4, <1>5, <1>6 DEF OwnInvariant
-----------------------------------------------------------------------------
(* What begins on a node *)

\* A free slot of node n gets a handler that waits for its first query, or for its turn.
LEMMA BeginKeeps ==
  ASSUME Calm, TypeOK, TypeOK', OwnInvariant, NEW n \in Nodes, NEW o \in Ops, op[o].node = None,
         NEW h \in OpTypes, h.node = n, Moved(o, h), Fits(o, h),
         h.at \in {"claim", "fence", "seen", "scan", "listed"}, phase[n] # "down",
         o = Renewal(n) \/ h.at \in {"scan", "listed"}
           \/ \A p \in OfNode(n) : p = Renewal(n) \/ ~Works(p),
         UNCHANGED <<phase, owned, engine, mishaps>>, row'.node = row.node, row'.lease = row.lease,
         \A m \in Nodes \ {n} : beat'[m] = beat[m],
         beat'[n] = beat[n] \/ (~Active(n) /\ o = Renewal(n))
  PROVE  OwnInvariant'
  <1>1. n # None /\ OpsTyped /\ Orderly /\ Placed /\ Renewal(n) \in Ops /\ h.at # "idle"
    BY Slots DEF OwnInvariant, Orderly, TypeOK
  <1>m. /\ op'[o] = h /\ sent'[o].answer = "none"
        /\ \A p \in Ops \ {o} : /\ op'[p] = op[p] /\ sent'[p].age = sent[p].age
                                /\ sent'[p].answer = sent[p].answer
    <2>1. OpsTyped /\ Moved(o, h)
      BY <1>1
    <2> QED
      BY <2>1, MovedTo
  <1>2. Orderly'
    BY <1>1, MoveOrderly DEF Up
  <1>3. Placed'
    BY <1>2 DEF Orderly
  <1>4. ASSUME NEW m \in Nodes, m # n PROVE Safe(m)'
    BY <1>1, <1>3, <1>4, MoveElsewhere DEF OwnInvariant
  <1>5. Safe(n)'
    <2> SUFFICES ASSUME Up(n)
                 PROVE (ClaimStands(n) /\ Covered(n) /\ RenewalAge(n) /\ LossTrue(n) /\ ReleaseIdle(n))'
      BY DEF Safe, Up
    <2>1. Safe(n) /\ ClaimStands(n) /\ Covered(n) /\ RenewalAge(n) /\ LossTrue(n) /\ ReleaseIdle(n)
      BY DEF OwnInvariant, Safe
    <2>i. op[o].at = "idle"
      BY <1>1 DEF OpsTyped
    <2>2. /\ op'[o] = h /\ sent'[o].answer = "none"
          /\ \A p \in Ops \ {o} : /\ op'[p] = op[p] /\ sent'[p].age = sent[p].age
                                  /\ sent'[p].answer = sent[p].answer
      BY <1>m
    <2>3. Active(n)' <=> Active(n)
      BY <1>1, <2>2, <2>i DEF Active, Starting, OfNode
    <2>4. ClaimStands(n)' /\ ReleaseIdle(n)'
      BY <2>1, <2>2 DEF ClaimStands, ReleaseIdle, OfNode
    <2>5. LossTrue(n)'
      BY <1>1, <2>1, <2>2, <2>3 DEF LossTrue
    <2>6. RenewalAge(n)'
      BY <1>1, <2>1, <2>2 DEF RenewalAge
    <2>7. Covered(n)'
      <3> SUFFICES ASSUME Active(n)
                   PROVE  n \in owned /\ row.node = n /\ row.lease >= Floor(n)'
        BY <2>3 DEF Covered
      <3>1. n \in owned /\ row.node = n /\ row.lease >= Floor(n)
        BY <2>1 DEF Covered
      <3>2. Due(n)' => Due(n)
        BY <1>1, <2>i, <2>2 DEF Due
      <3>3. Due(n) => Due(n)'
        BY <1>1, <2>i, <2>2 DEF Due
      <3>4. /\ Credit(mishaps) \in Int /\ beat[n] \in 0..Beat /\ beat[n] \in Int /\ Beat \in Nat
            /\ row.lease \in Int
        BY CreditFacts, OwnershipAssumption DEF TypeOK, NodesTyped, RowTyped, RowTypes
      <3>5. Floor(n)' = Credit(mishaps) - (Beat - beat'[n]) - (IF Due(n) THEN Beat ELSE 0)
        BY <3>2, <3>3 DEF Floor, Credit
      <3>6. beat'[n] = beat[n]
        OBVIOUS
      <3> QED
        BY <3>1, <3>4, <3>5, <3>6 DEF Floor
    <2> QED
      BY <2>4, <2>5, <2>6, <2>7
  <1> QED
    BY <1>2, <1>4, <1>5 DEF OwnInvariant
\* A free request or sweep slot of n may take a handler that begins there.
LEMMA BeginFits ==
  ASSUME NEW n \in Nodes, NEW o \in Ops, o \in Clients \/ o = Sweep(n), NEW h,
         h.node = n, h.at \in {"claim", "fence", "scan", "listed"},
         h.verb \in {"start", "stop", "sweep", "auto"}
  PROVE  Fits(o, h)
  BY Slots DEF Fits

LEMMA RequestKeeps ==
  ASSUME Calm, TypeOK, TypeOK', OwnInvariant, NEW c \in Clients, NEW n \in Nodes, NEW v \in Verbs,
         Request(c, n, v)
  PROVE  OwnInvariant'
  <1> DEFINE l == IF v = "start" THEN "claim" ELSE "fence"
             h == [verb |-> v, at |-> l, node |-> n]
  <1>1. /\ op[c] = Idle /\ Clear(n) /\ phase[n] = "up" /\ Begin(c, v, l, n)
        /\ UNCHANGED <<row, owned, engine, phase, beat, mishaps>>
    BY DEF Request, world
  <1>2. v \in {"start", "stop"} /\ c \in Ops /\ OpsTyped
    BY Identities, OwnershipAssumption DEF TypeOK
  <1>3. h.node = n /\ h.at \in {"claim", "fence"} /\ h.verb \in {"start", "stop"} /\ h \in OpTypes
    BY <1>2 DEF OpTypes, Querying
  <1>4. Moved(c, h)
    BY <1>1, <1>2, <1>3, MovesAre DEF Querying
  <1>5. op[c].node = None
    BY <1>1 DEF Idle
  <1>6. \A p \in OfNode(n) : p = Renewal(n) \/ ~Works(p)
    BY <1>1, ClearNode
  <1> HIDE DEF h
  <1>7. Fits(c, h)
    BY <1>2, <1>3, BeginFits
  <1>8. /\ h.at \in {"claim", "fence", "seen", "scan", "listed"} /\ phase[n] # "down"
        /\ UNCHANGED <<phase, owned, engine, mishaps>> /\ row'.node = row.node /\ row'.lease = row.lease
        /\ \A m \in Nodes \ {n} : beat'[m] = beat[m]
        /\ beat'[n] = beat[n]
    BY <1>1, <1>3
  <1> QED
    BY <1>2, <1>3, <1>4, <1>5, <1>6, <1>7, <1>8, BeginKeeps

LEMMA BeginSweepKeeps ==
  ASSUME Calm, TypeOK, TypeOK', OwnInvariant, NEW n \in Nodes, BeginSweep(n)
  PROVE  OwnInvariant'
  <1> DEFINE o == Sweep(n)
             h == [verb |-> "sweep", at |-> "listed", node |-> n]
  <1>1. /\ op[o] = Idle /\ phase[n] = "up" /\ op' = [op EXCEPT ![o] = h]
        /\ UNCHANGED <<row, owned, engine, phase, beat, mishaps, sent>>
    BY DEF BeginSweep, world, local
  <1>2. o \in Ops /\ OpsTyped /\ InOrder
    BY Slots DEF TypeOK, OwnInvariant, Orderly
  <1>3. h.node = n /\ h.at = "listed" /\ h.verb = "sweep" /\ h \in OpTypes
    BY DEF OpTypes
  <1>4. op[o].node = None /\ ~Wired(o)
    BY <1>1 DEF Idle, Wired, Querying
  <1>5. Moved(o, h)
    BY <1>1, <1>2, <1>3, <1>4, NotSent DEF Moved, Querying
  <1>6. o = Sweep(n)
    OBVIOUS
  <1> HIDE DEF o, h
  <1>7. Fits(o, h)
    BY <1>2, <1>3, <1>6, BeginFits
  <1>8. /\ h.at \in {"claim", "fence", "seen", "scan", "listed"} /\ phase[n] # "down"
        /\ UNCHANGED <<phase, owned, engine, mishaps>> /\ row'.node = row.node /\ row'.lease = row.lease
        /\ \A m \in Nodes \ {n} : beat'[m] = beat[m]
        /\ beat'[n] = beat[n] /\ h.at \in {"scan", "listed"}
    BY <1>1, <1>3
  <1> QED
    BY <1>2, <1>3, <1>4, <1>5, <1>7, <1>8, BeginKeeps
\* A heartbeat that has nothing to renew, looks its claim up, or renews it: the lease then
\* has lasted a beat, and the renewal is due.
LEMMA HeartbeatKeeps ==
  ASSUME Calm, TypeOK, TypeOK', OwnInvariant, NEW n \in Nodes, Heartbeat(n)
  PROVE  OwnInvariant'
  <1> DEFINE o == Renewal(n)
  <1>1. /\ phase[n] = "up" /\ beat[n] = 0 /\ op[o] = Idle /\ beat' = [beat EXCEPT ![n] = Beat]
        /\ UNCHANGED <<row, owned, engine, phase, mishaps>>
    BY DEF Heartbeat, local
  <1>2. /\ o \in Ops /\ OpsTyped /\ Orderly /\ Safe(n) /\ Placed /\ n # None
        /\ beat'[n] = Beat /\ \A m \in Nodes \ {n} : beat'[m] = beat[m]
    BY <1>1, Slots DEF TypeOK, OwnInvariant, Orderly, NodesTyped
  <1>3. op[o].node = None /\ op[o].at = "idle"
    BY <1>1 DEF Idle
  <1>4. CASE n \notin owned /\ UNCHANGED <<op, sent>>
    <2>1. Orderly'
      BY <1>1, <1>2, <1>4 DEF Orderly, Placed, Up, DownIsEmpty, OfNode, OneVerb, Works, InOrder, Wired,
                              OnWire
    <2>2. ASSUME NEW m \in Nodes \ {n} PROVE Safe(m)'
      <3>1. /\ OfNode(m)' = OfNode(m)
            /\ \A p \in OfNode(m) : /\ op'[p] = op[p]
                                    /\ sent'[p].age = sent[p].age /\ sent'[p].answer = sent[p].answer
        BY <1>4 DEF OfNode
      <3>2. Placed /\ Placed' /\ Safe(m)
        BY <2>1 DEF OwnInvariant, Orderly
      <3> QED
        BY <1>1, <1>2, <3>1, <3>2, SafeElsewhere
    <2>3. Safe(n)'
      <3>1. ~Active(n) /\ (Active(n)' <=> Active(n))
        BY <1>1, <1>2, <1>4 DEF Safe, Up, Covered, Active, Starting, OfNode
      <3> QED
        BY <1>1, <1>2, <1>3, <1>4, <3>1
           DEF Safe, Up, ClaimStands, Covered, RenewalAge, LossTrue, ReleaseIdle, OfNode
    <2> QED
      BY <2>1, <2>2, <2>3 DEF OwnInvariant
  <1>5. CASE n \in owned /\ ~Active(n) /\ Begin(o, "renew", "seen", n)
    <2> DEFINE h == [verb |-> "renew", at |-> "seen", node |-> n]
    <2>1. Moved(o, h)
      BY <1>2, <1>5, MovesAre DEF Querying
    <2>2. h \in OpTypes /\ h.node = n /\ h.at = "seen" /\ h.verb = "renew"
      BY DEF OpTypes, Querying
    <2>3. o = Renewal(n)
      OBVIOUS
    <2> HIDE DEF h, o
    <2>4. Fits(o, h)
      BY <2>2, <2>3, Slots DEF Fits
    <2>5. /\ h.at \in {"claim", "fence", "seen", "scan", "listed"} /\ phase[n] # "down"
          /\ UNCHANGED <<phase, owned, engine, mishaps>> /\ row'.node = row.node /\ row'.lease = row.lease
          /\ (~Active(n) /\ o = Renewal(n))
      BY <1>1, <1>5, <2>2, <2>3
    <2> QED
      BY <1>2, <1>3, <2>1, <2>2, <2>4, <2>5, BeginKeeps
  <1>6. CASE n \in owned /\ Active(n) /\ Begin(o, "renew", "renew", n)
    <2> DEFINE h == [verb |-> "renew", at |-> "renew", node |-> n]
    <2>1. Moved(o, h)
      BY <1>2, <1>6, MovesAre DEF Querying
    <2>2. h \in OpTypes /\ h.node = n /\ h.at = "renew" /\ h.verb = "renew"
      BY DEF OpTypes, Querying
    <2>3. o = Renewal(n)
      OBVIOUS
    <2> HIDE DEF h, o
    <2>4. Fits(o, h)
      BY <2>2, <2>3, Slots DEF Fits
    <2>5. Orderly'
      BY <1>1, <1>2, <1>3, <2>1, <2>2, <2>3, <2>4, MoveOrderly DEF Up
    <2>6. ASSUME NEW m \in Nodes, m # n PROVE Safe(m)'
      <3>1. Placed' /\ Safe(m)
        BY <2>5 DEF OwnInvariant, Orderly
      <3> QED
        BY <1>1, <1>2, <1>3, <2>1, <2>2, <2>6, <3>1, MoveElsewhere
    <2>7. /\ op'[o] = h /\ sent'[o].age = 0 /\ sent'[o].answer = "none"
          /\ \A p \in Ops \ {o} : /\ op'[p] = op[p] /\ sent'[p].age = sent[p].age
                                  /\ sent'[p].answer = sent[p].answer
      BY <1>2, <2>1, <2>2, MovedTo
    <2>8. /\ ClaimStands(n) /\ Covered(n) /\ RenewalAge(n) /\ LossTrue(n) /\ ReleaseIdle(n)
      BY <1>1, <1>2 DEF Safe, Up
    <2>9. (ClaimStands(n) /\ RenewalAge(n) /\ LossTrue(n) /\ ReleaseIdle(n))'
      <3>1. ClaimStands(n)' /\ ReleaseIdle(n)'
        BY <1>1, <2>2, <2>7, <2>8 DEF ClaimStands, ReleaseIdle, OfNode
      <3>2. RenewalAge(n)'
        BY <1>2, <2>3, <2>7, OwnershipAssumption DEF RenewalAge
      <3>3. LossTrue(n)'
        BY <2>2, <2>3, <2>7 DEF LossTrue
      <3> QED
        BY <3>1, <3>2, <3>3
    <2>10. Covered(n)'
      <3>1. row'.node = n /\ n \in owned' /\ row'.lease >= Floor(n)
        BY <1>1, <1>6, <2>8 DEF Covered
      <3>2. Credit(mishaps) \in Int /\ Beat \in Nat
        BY CreditFacts, OwnershipAssumption DEF TypeOK, NodesTyped
      <3>3. Floor(n) = Credit(mishaps) - (Beat - 0) - 0
        BY <1>1, <1>3, <2>3 DEF Floor, Due
      <3>4. Floor(n)' = Credit(mishaps) - (Beat - Beat) - (IF Due(n)' THEN Beat ELSE 0)
        BY <1>1, <1>2 DEF Floor, Credit
      <3>5. Due(n)'
        BY <2>2, <2>3, <2>7 DEF Due
      <3> QED
        BY <3>1, <3>2, <3>3, <3>4, <3>5 DEF Covered
    <2> QED
      BY <2>5, <2>6, <2>8, <2>9, <2>10 DEF OwnInvariant, Safe
  <1> QED
    BY <1>4, <1>5, <1>6 DEF Heartbeat
-----------------------------------------------------------------------------
(* What happens to a node *)

LEMMA EngineGivesUpKeeps ==
  ASSUME Calm, TypeOK, TypeOK', OwnInvariant, NEW n \in Nodes, EngineGivesUp(n)
  PROVE  OwnInvariant'
  <1>1. /\ engine' = engine \ {n} /\ UNCHANGED <<phase, beat, mishaps, owned, op, sent>>
        /\ row' = row \/ row' = [row EXCEPT !.status = "failed"]
    BY DEF EngineGivesUp, world
  <1>2. row'.node = row.node /\ row'.lease = row.lease
    BY <1>1 DEF TypeOK, RowTyped, RowTypes
  <1>3. Orderly'
    BY <1>1 DEF OwnInvariant, Orderly, Placed, Up, DownIsEmpty, OfNode, OneVerb, Works, InOrder, Wired,
                OnWire
  <1>4. ASSUME NEW m \in Nodes PROVE Safe(m)'
    <2>1. /\ OfNode(m)' = OfNode(m)
          /\ \A p \in OfNode(m) : /\ op'[p] = op[p]
                                  /\ sent'[p].age = sent[p].age /\ sent'[p].answer = sent[p].answer
      BY <1>1 DEF OfNode
    <2>2. Placed /\ Placed' /\ Safe(m)
      BY <1>3 DEF OwnInvariant, Orderly
    <2>3. /\ phase'[m] = phase[m] /\ beat'[m] = beat[m] /\ (m \in owned => m \in owned')
          /\ (m \in engine' => m \in engine) /\ mishaps' \in {mishaps, mishaps + 1}
      BY <1>1
    <2> QED
      BY <1>2, <2>1, <2>2, <2>3, SafeElsewhere
  <1> QED
    BY <1>3, <1>4 DEF OwnInvariant

\* The process of a node ends: nothing of it is in flight.
LEMMA DropKeeps ==
  ASSUME Calm, TypeOK, TypeOK', OwnInvariant, NEW n \in Nodes, Drop(n),
         phase' = [phase EXCEPT ![n] = "down"], UNCHANGED <<row, beat>>,
         mishaps' \in {mishaps, mishaps + 1}
  PROVE  OwnInvariant'
  <1>1. /\ \A p \in OfNode(n) : op'[p] = Idle /\ sent'[p] = Unsent
        /\ \A p \in Ops \ OfNode(n) : op'[p] = op[p] /\ sent'[p] = sent[p]
        /\ engine' = engine \ {n} /\ owned' = owned \ {n}
    BY DEF Drop, OfNode
  <1>2. /\ phase'[n] = "down" /\ \A m \in Nodes \ {n} : phase'[m] = phase[m]
        /\ n # None /\ OpsTyped /\ Orderly
    BY Slots DEF TypeOK, NodesTyped, OwnInvariant
  <1>3. ASSUME NEW m, m # n, m # None PROVE OfNode(m)' = OfNode(m) /\ OnWire(m)' = OnWire(m)
    BY <1>1, <1>3 DEF OfNode, OnWire, Idle
  <1>4. OfNode(n)' = {}
    BY <1>1, <1>2 DEF OfNode, Idle
  <1>5. InOrder'
    <2>1. ASSUME NEW p \in Ops
          PROVE  /\ ~Wired(p)' => sent'[p] = Unsent
                 /\ sent'[p].ahead \subseteq OnWire(op[p].node)' \ {p}
                 /\ sent'[p].answer # "none" => sent'[p].ahead = {}
      <3>1. CASE p \in OfNode(n)
        BY <1>1, <3>1 DEF Unsent
      <3>2. CASE p \notin OfNode(n)
        <4>1. op'[p] = op[p] /\ sent'[p] = sent[p] /\ (Wired(p)' <=> Wired(p)) /\ op[p].node # n
          BY <1>1, <3>2 DEF Wired, OfNode
        <4>2. CASE op[p].node # None
          BY <1>2, <1>3, <4>1, <4>2 DEF Orderly, InOrder
        <4>3. CASE op[p].node = None
          <5>1. ~Wired(p)
            BY <1>2, <4>3 DEF Wired, OpsTyped, Querying
          <5> QED
            BY <1>2, <4>1, <5>1 DEF Orderly, InOrder, Unsent
        <4> QED
          BY <4>2, <4>3
      <3> QED
        BY <3>1, <3>2
    <2>2. ASSUME NEW p \in Ops, NEW q \in Ops, Wired(p)', Wired(q)', op'[p].node = op'[q].node, p # q
          PROVE  p \in sent'[q].ahead \/ q \in sent'[p].ahead
      <3>1. p \notin OfNode(n) /\ q \notin OfNode(n)
        BY <1>1, <2>2 DEF Wired, Querying, Idle
      <3> QED
        BY <1>1, <1>2, <2>2, <3>1 DEF Wired, Orderly, InOrder
    <2>3. \A p \in Ops : p \notin OfNode(n) => op'[p].node = op[p].node
      BY <1>1
    <2>4. ASSUME NEW p \in Ops PROVE (sent[p].ahead \subseteq OnWire(op[p].node) \ {p})'
      <3>1. CASE p \in OfNode(n)
        BY <1>1, <3>1 DEF Unsent
      <3>2. CASE p \notin OfNode(n)
        BY <2>1, <2>3, <3>2
      <3> QED
        BY <3>1, <3>2
    <2> QED
      BY <2>1, <2>2, <2>4 DEF InOrder
  <1>6. Placed'
    <2>1. \A p \in Ops : Fits(p, op'[p])
      BY <1>1, <1>2, IdleFits DEF Orderly, Placed
    <2>2. \A m \in Nodes : Up(m)' => op'[Renewal(m)].at # "leave"
      <3> SUFFICES ASSUME NEW m \in Nodes, Up(m)' PROVE op'[Renewal(m)].at # "leave"
        OBVIOUS
      <3>1. Up(m) /\ Renewal(m) \in Ops
        BY <1>2, Slots DEF Up
      <3> QED
        BY <1>1, <1>2, <3>1, IdleFits DEF Orderly, Placed
    <2> QED
      BY <2>1, <2>2 DEF Placed
  <1>7. DownIsEmpty'
    <2> SUFFICES ASSUME NEW m \in Nodes, phase'[m] = "down" PROVE OfNode(m)' = {} /\ m \notin engine'
      BY DEF DownIsEmpty
    <2>1. CASE m = n
      BY <1>1, <1>4, <2>1
    <2>2. CASE m # n
      BY <1>1, <1>2, <1>3, <2>2, Slots DEF Orderly, DownIsEmpty
    <2> QED
      BY <2>1, <2>2
  <1>8. OneVerb'
    <2>1. \A p \in Ops : Works(p)' => p \notin OfNode(n)
      BY <1>1 DEF Works, Idle
    <2> QED
      BY <1>1, <1>2, <2>1 DEF Orderly, OneVerb, Works
  <1>9. ASSUME NEW m \in Nodes PROVE Safe(m)'
    <2>1. CASE m = n
      BY <1>2, <2>1 DEF Safe, Up
    <2>2. CASE m # n
      <3>1. /\ OfNode(m)' = OfNode(m)
            /\ \A p \in OfNode(m) : /\ op'[p] = op[p]
                                    /\ sent'[p].age = sent[p].age /\ sent'[p].answer = sent[p].answer
        BY <1>1, <1>3, <2>2, Slots DEF OfNode
      <3>2. Placed /\ Placed' /\ Safe(m)
        BY <1>6 DEF OwnInvariant, Orderly
      <3>3. /\ phase'[m] = phase[m] /\ beat'[m] = beat[m] /\ (m \in owned => m \in owned')
            /\ (m \in engine' => m \in engine)
            /\ (row.node = m /\ row.lease > 0 => row'.node = row.node /\ row'.lease = row.lease)
        BY <1>1, <1>2, <2>2
      <3> QED
        BY <3>1, <3>2, <3>3, SafeElsewhere
    <2> QED
      BY <2>1, <2>2
  <1> QED
    BY <1>5, <1>6, <1>7, <1>8, <1>9 DEF OwnInvariant, Orderly
LEMMA ShutdownKeeps ==
  ASSUME Calm, TypeOK, TypeOK', OwnInvariant, NEW n \in Nodes, Shutdown(n)
  PROVE  OwnInvariant'
  <1> DEFINE o == Renewal(n)
             h == [verb |-> "leave", at |-> "leave", node |-> n]
  <1>1. /\ phase[n] = "up" /\ op[o] = Idle /\ phase' = [phase EXCEPT ![n] = "leaving"]
        /\ engine' = engine \ {n} /\ owned' = owned \ {n}
        /\ UNCHANGED <<row, beat>> /\ mishaps' = mishaps + 1
    BY DEF Shutdown, Mishap
  <1>2. /\ o \in Ops /\ OpsTyped /\ Orderly /\ Placed /\ n # None
        /\ phase'[n] = "leaving" /\ \A m \in Nodes \ {n} : phase'[m] = phase[m]
    BY <1>1, Slots DEF TypeOK, OwnInvariant, Orderly, NodesTyped
  <1>3. op[o].node = None /\ op[o].at = "idle"
    BY <1>1 DEF Idle
  <1>4. Safe(n)'
    BY <1>2 DEF Safe, Up
  <1>5. CASE UNCHANGED <<op, sent>>
    <2>1. Orderly'
      <3>1. DownIsEmpty'
        BY <1>1, <1>2, <1>5 DEF Orderly, DownIsEmpty, OfNode
      <3>2. Placed'
        BY <1>1, <1>2, <1>5 DEF Orderly, Placed, Up
      <3>3. OneVerb' /\ InOrder'
        BY <1>2, <1>5 DEF Orderly, OneVerb, Works, OfNode, InOrder, Wired, OnWire
      <3> QED
        BY <3>1, <3>2, <3>3 DEF Orderly
    <2>2. ASSUME NEW m \in Nodes \ {n} PROVE Safe(m)'
      <3>1. /\ OfNode(m)' = OfNode(m)
            /\ \A p \in OfNode(m) : /\ op'[p] = op[p]
                                    /\ sent'[p].age = sent[p].age /\ sent'[p].answer = sent[p].answer
        BY <1>5 DEF OfNode
      <3>2. Placed /\ Placed' /\ Safe(m)
        BY <2>1 DEF OwnInvariant, Orderly
      <3>3. /\ phase'[m] = phase[m] /\ beat'[m] = beat[m] /\ (m \in owned => m \in owned')
            /\ (m \in engine' => m \in engine)
            /\ (row.node = m /\ row.lease > 0 => row'.node = row.node /\ row'.lease = row.lease)
        BY <1>1, <1>2
      <3> QED
        BY <1>1, <3>1, <3>2, <3>3, SafeElsewhere
    <2> QED
      BY <1>4, <2>1, <2>2 DEF OwnInvariant
  <1>6. CASE Begin(o, "leave", "leave", n)
    <2>1. Moved(o, h)
      BY <1>2, <1>6, MovesAre DEF Querying
    <2>2. h \in OpTypes /\ h.node = n /\ h.at = "leave" /\ h.verb = "leave"
      BY DEF OpTypes, Querying
    <2>3. o = Renewal(n)
      OBVIOUS
    <2> HIDE DEF h, o
    <2>4. Fits(o, h)
      BY <2>2, <2>3, Slots DEF Fits
    <2>5. /\ \A m \in Nodes \ {n} : phase'[m] = phase[m] /\ (m \in engine' => m \in engine)
          /\ ~Up(n)' /\ phase'[n] # "down" /\ (h.at = "idle" <=> h.node = None)
      BY <1>1, <1>2, <2>2 DEF Up
    <2>6. Orderly'
      BY <1>2, <1>3, <2>1, <2>2, <2>3, <2>4, <2>5, MoveOrderly
    <2>7. ASSUME NEW m \in Nodes, m # n PROVE Safe(m)'
      <3>1. Placed' /\ Safe(m)
        BY <2>6 DEF OwnInvariant, Orderly
      <3> QED
        BY <1>1, <1>2, <1>3, <2>1, <2>2, <2>7, <3>1, MoveElsewhere
    <2> QED
      BY <1>4, <2>6, <2>7 DEF OwnInvariant
  <1> QED
    BY <1>5, <1>6 DEF Shutdown

\* A node that boots has nothing in flight and no engine; its scan is the first.
LEMMA BootKeeps ==
  ASSUME Calm, TypeOK, TypeOK', OwnInvariant, NEW n \in Nodes, Boot(n)
  PROVE  OwnInvariant'
  <1> DEFINE o == Sweep(n)
             h == [verb |-> "auto", at |-> "scan", node |-> n]
  <1>1. /\ phase[n] = "down" /\ phase' = [phase EXCEPT ![n] = "up"]
        /\ beat' = [beat EXCEPT ![n] = Beat] /\ op' = [op EXCEPT ![o] = h]
        /\ UNCHANGED <<owned, engine, sent, mishaps>>
        /\ row' = row \/ row' = [row EXCEPT !.status = "off"]
    BY DEF Boot, local
  <1>2. /\ o \in Ops /\ OpsTyped /\ Orderly /\ Placed /\ InOrder /\ n # None
        /\ phase'[n] = "up" /\ \A m \in Nodes \ {n} : phase'[m] = phase[m] /\ beat'[m] = beat[m]
    BY <1>1, Slots DEF TypeOK, OwnInvariant, Orderly, NodesTyped
  <1>3. row'.node = row.node /\ row'.lease = row.lease
    BY <1>1 DEF TypeOK, RowTyped, RowTypes
  <1>4. OfNode(n) = {} /\ n \notin engine
    BY <1>1, <1>2 DEF Orderly, DownIsEmpty
  <1>5. op[o].node = None /\ op[o].at = "idle"
    <2>1. Fits(o, op[o])
      BY <1>2 DEF Placed
    <2>2. op[o].node = None
      BY <1>2, <1>4, <2>1 DEF Fits, OfNode
    <2> QED
      BY <1>2, <2>2 DEF OpsTyped
  <1>6. op[Renewal(n)].at = "idle"
    BY <1>2, <1>4, RenewalHome
  <1>7. h.node = n /\ h.at = "scan" /\ h.verb = "auto" /\ h \in OpTypes
    BY DEF OpTypes
  <1>8. Moved(o, h)
    BY <1>1, <1>2, <1>5, <1>7, NotSent DEF Moved, Querying, Wired
  <1>9. o = Sweep(n) /\ o # Renewal(n)
    BY Slots
  <1> HIDE DEF o, h
  <1>10. Fits(o, h)
    BY <1>2, <1>7, <1>9, BeginFits
  <1>11. Orderly'
    <2>1. /\ \A m \in Nodes \ {n} : phase'[m] = phase[m] /\ (m \in engine' => m \in engine)
          /\ (Up(n)' => (Up(n) \/ op[Renewal(n)].at = "idle") /\ h.at # "leave")
          /\ phase'[n] # "down" /\ (h.at = "idle" <=> h.node = None) /\ h.at \in {"idle", "scan", "listed"}
      BY <1>1, <1>2, <1>6, <1>7
    <2> QED
      BY <1>2, <1>5, <1>7, <1>8, <1>10, <2>1, MoveOrderly
  <1>12. ASSUME NEW m \in Nodes, m # n PROVE Safe(m)'
    <2>1. Placed' /\ Safe(m)
      BY <1>11 DEF OwnInvariant, Orderly
    <2> QED
      BY <1>1, <1>2, <1>3, <1>5, <1>7, <1>8, <1>12, <2>1, MoveElsewhere
  <1>13. Safe(n)'
    <2>1. /\ op'[o] = h /\ \A p \in Ops \ {o} : op'[p] = op[p]
      BY <1>1, <1>2 DEF OpsTyped
    <2>2. \A p \in OfNode(n)' : op'[p].at = "scan"
      BY <1>4, <1>7, <2>1 DEF OfNode
    <2>3. ~Active(n)'
      BY <1>1, <1>4, <2>2 DEF Active, Starting
    <2>4. op'[Renewal(n)].at = "idle"
      BY <1>6, <1>9, <2>1, Slots
    <2> QED
      BY <2>2, <2>3, <2>4 DEF Safe, ClaimStands, Covered, RenewalAge, LossTrue, ReleaseIdle
  <1> QED
    BY <1>11, <1>12, <1>13 DEF OwnInvariant

\* A tick: the lease and what it has to last shrink alike.
LEMMA TickKeeps ==
  ASSUME Calm, TypeOK, TypeOK', OwnInvariant, Tick
  PROVE  OwnInvariant'
  <1>1. /\ UNCHANGED <<owned, engine, phase, op, mishaps>>
        /\ \A n \in Nodes : Up(n) => beat'[n] = beat[n] - 1
        /\ \A o \in Ops : sent'[o] = IF Wired(o) THEN [sent[o] EXCEPT !.age = @ + 1] ELSE sent[o]
    BY DEF Tick, local, Up, Wired
  <1>2. OpsTyped
    BY DEF TypeOK
  <1>3. \A o \in Ops : /\ sent'[o].ahead = sent[o].ahead /\ sent'[o].answer = sent[o].answer
                       /\ Wired(o) => sent'[o].age = sent[o].age + 1
                       /\ ~Wired(o) => sent'[o] = sent[o]
    BY <1>1, <1>2 DEF OpsTyped, SentTypes
  <1>4. Orderly'
    <2>1. InOrder'
      BY <1>1, <1>3 DEF OwnInvariant, Orderly, InOrder, Wired, OnWire, OfNode
    <2>2. Placed' /\ DownIsEmpty' /\ OneVerb'
      BY <1>1 DEF OwnInvariant, Orderly, Placed, Up, DownIsEmpty, OfNode, OneVerb, Works
    <2> QED
      BY <2>1, <2>2 DEF Orderly
  <1>5. ASSUME NEW n \in Nodes, row.node = n, row.lease > 0
        PROVE  row'.node = n /\ row'.lease = row.lease - 1
    <2>1. row \in RowTypes /\ row.lease \in Int /\ Slow \in Nat /\ n # None
      BY OwnershipAssumption, Slots DEF TypeOK, RowTyped, RowTypes
    <2>2. row.lease > -Slow
      BY <1>5, <2>1
    <2>3. row' = [row EXCEPT !.lease = row.lease - 1]
      BY <1>5, <2>1, <2>2 DEF Tick
    <2> QED
      BY <1>5, <2>1, <2>3 DEF RowTypes
  <1>6. ASSUME NEW n \in Nodes PROVE Safe(n)'
    <2> SUFFICES ASSUME Up(n)
                 PROVE (ClaimStands(n) /\ Covered(n) /\ RenewalAge(n) /\ LossTrue(n) /\ ReleaseIdle(n))'
      BY <1>1 DEF Safe, Up
    <2>1. /\ Safe(n) /\ ClaimStands(n) /\ Covered(n) /\ RenewalAge(n) /\ LossTrue(n) /\ ReleaseIdle(n)
          /\ Renewal(n) \in Ops
      BY Slots DEF OwnInvariant, Safe
    <2>2. Active(n)' <=> Active(n)
      BY <1>1 DEF Active, Starting, OfNode
    <2>3. ReleaseIdle(n)' /\ LossTrue(n)'
      BY <1>1, <1>3, <2>1, <2>2 DEF ReleaseIdle, LossTrue, OfNode
    <2>4. /\ beat[n] \in 0..Beat /\ beat[n] \in Int /\ Beat \in Nat /\ mishaps \in 0..MaxMishaps
          /\ row.lease \in Int /\ TTL \in Nat /\ Slow \in Nat
      BY OwnershipAssumption DEF TypeOK, NodesTyped, RowTyped, RowTypes
    <2>5. RenewalAge(n)'
      <3> SUFFICES ASSUME op[Renewal(n)].at = "renew"
                   PROVE  sent'[Renewal(n)].age = Beat - beat'[n]
        BY <1>1 DEF RenewalAge
      <3>1. sent'[Renewal(n)].age = sent[Renewal(n)].age + 1
        BY <1>3, <2>1 DEF Wired, Querying
      <3> QED
        BY <1>1, <2>1, <2>4, <3>1 DEF RenewalAge
    <2>6. ClaimStands(n)'
      <3> SUFFICES ASSUME NEW p \in OfNode(n), op[p].at = "claim", sent'[p].answer = "hit"
                   PROVE  row'.node = n /\ row'.lease = TTL - sent'[p].age
        BY <1>1 DEF ClaimStands, OfNode
      <3>1. p \in Ops /\ sent[p].answer = "hit" /\ sent'[p].age = sent[p].age + 1
        BY <1>3 DEF OfNode, Wired, Querying
      <3>2. row.node = n /\ row.lease = TTL - sent[p].age /\ sent[p].age \in 0..Slow
        BY <1>2, <2>1, <3>1 DEF ClaimStands, OpsTyped, SentTypes
      <3>3. Credit(mishaps) \in Int /\ Beat + Slow < Credit(mishaps) /\ Credit(mishaps) <= TTL - Slow
        BY <2>4, CreditFacts
      <3>4. row.lease > 0
        BY <2>4, <3>2, <3>3
      <3> QED
        BY <1>5, <2>4, <3>1, <3>2, <3>4
    <2>7. Covered(n)'
      <3> SUFFICES ASSUME Active(n)
                   PROVE  n \in owned /\ row'.node = n /\ row'.lease >= Floor(n)'
        BY <1>1, <2>2 DEF Covered
      <3>1. row.node = n /\ row.lease > 0 /\ n \in owned /\ row.lease >= Floor(n)
        BY <2>1, StillLive DEF Covered
      <3>2. Due(n)' <=> Due(n)
        BY <1>1, <1>3, <2>1 DEF Due
      <3>3. Credit(mishaps) \in Int
        BY <2>4, CreditFacts
      <3>4. Floor(n)' = Credit(mishaps) - (Beat - (beat[n] - 1)) - (IF Due(n) THEN Beat ELSE 0)
        BY <1>1, <3>2 DEF Floor, Credit
      <3>5. Floor(n)' = Floor(n) - 1 /\ Floor(n) \in Int
        BY <2>4, <3>3, <3>4 DEF Floor
      <3> QED
        BY <1>5, <2>4, <3>1, <3>5
    <2> QED
      BY <2>3, <2>5, <2>6, <2>7
  <1> QED
    BY <1>4, <1>6 DEF OwnInvariant

LEMMA InitOwned ==
  ASSUME Init
  PROVE  OwnInvariant
  <1>1. \A o \in Ops : op[o] = Idle /\ sent[o] = Unsent /\ op[o].node = None /\ op[o].at = "idle"
    BY DEF Init, Idle
  <1>2. /\ engine = {} /\ \A n \in Nodes : phase[n] = "up" /\ Renewal(n) \in Ops /\ n # None
    BY Slots DEF Init
  <1>3. \A n \in Nodes : OfNode(n) = {}
    BY <1>1, <1>2 DEF OfNode
  <1>4. Orderly
    <2>1. Placed
      BY <1>1, <1>2, IdleFits DEF Placed
    <2>2. InOrder
      BY <1>1 DEF InOrder, Unsent, Wired, Querying
    <2>3. DownIsEmpty /\ OneVerb
      BY <1>1, <1>2 DEF DownIsEmpty, OneVerb, Works
    <2> QED
      BY <2>1, <2>2, <2>3 DEF Orderly
  <1>5. ASSUME NEW n \in Nodes PROVE Safe(n)
    <2>1. ~Active(n) /\ op[Renewal(n)].at = "idle"
      BY <1>1, <1>2, <1>3 DEF Active, Starting
    <2> QED
      BY <1>3, <2>1 DEF Safe, ClaimStands, Covered, RenewalAge, LossTrue, ReleaseIdle
  <1> QED
    BY <1>4, <1>5 DEF OwnInvariant

\* At most one node that is up runs an engine of the session: each such engine runs under a
\* lease of its node that has not lapsed, and there is one lease.
THEOREM OneEngineHolds ==
  ASSUME Calm
  PROVE  Spec => []OneEngine
  <1>1. TypeOK /\ TypeOK' /\ OwnInvariant /\ [Next]_vars => OwnInvariant'
    <2> SUFFICES ASSUME TypeOK, TypeOK', OwnInvariant, [Next]_vars PROVE OwnInvariant'
      OBVIOUS
    <2>1. CASE \E c \in Clients, n \in Nodes, v \in Verbs : Request(c, n, v)
      BY <2>1, RequestKeeps
    <2>2. CASE \E o \in Ops : Step(o) \/ Fail(o)
      BY <2>2, ExecuteKeeps, EndsKeep, GoOnKeep, GivesUpKeep, RegisterKeeps, ClaimedKeeps, SweepKeeps,
         FailKeeps DEF Step
    <2>3. CASE \E n \in Nodes : EngineGivesUp(n) \/ Heartbeat(n) \/ BeginSweep(n) \/ Shutdown(n) \/ Boot(n)
      BY <2>3, EngineGivesUpKeeps, HeartbeatKeeps, BeginSweepKeeps, ShutdownKeeps, BootKeeps
    <2>4. CASE \E n \in Nodes : Crash(n) \/ Exit(n)
      BY <2>4, DropKeeps DEF Crash, Exit, Mishap
    <2>5. CASE Tick
      BY <2>5, TickKeeps
    <2>6. CASE UNCHANGED vars
      BY <2>6 DEF vars, OwnInvariant, Orderly, Placed, Up, DownIsEmpty, OfNode, OneVerb, Works, InOrder,
         Wired, OnWire, Safe, ClaimStands, Covered, Active, Starting, Floor, Due, RenewalAge, LossTrue,
         ReleaseIdle
    <2> QED
      BY <2>1, <2>2, <2>3, <2>4, <2>5, <2>6 DEF Next
  <1>2. TypeOK /\ OwnInvariant => OneEngine
    <2> SUFFICES ASSUME TypeOK, OwnInvariant, NEW m \in engine, NEW n \in engine, Up(m), Up(n)
                 PROVE  m = n
      BY DEF OneEngine, Up
    <2>1. m \in Nodes /\ n \in Nodes
      BY DEF TypeOK, NodesTyped
    <2>2. Active(m) /\ Active(n) /\ Safe(m) /\ Safe(n)
      BY <2>1 DEF OwnInvariant, Active
    <2>3. row.node = m /\ row.node = n
      BY <2>1, <2>2, StillLive
    <2> QED
      BY <2>3
  <1>3. Init => OwnInvariant
    BY InitOwned
  <1> QED
    BY <1>1, <1>2, <1>3, OwnershipTyped, PTL DEF Spec
=============================================================================
