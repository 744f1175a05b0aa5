-------------------------- MODULE SessionOwnership --------------------------
(***************************************************************************)
(* The ownership lease of one session among gateway nodes that share a      *)
(* database: SessionOwnershipService (claim, release, renew, releaseAll),   *)
(* its callers in SessionService (start, stop, boot and shutdown) and the   *)
(* sweep of SessionTakeoverService (openwa/src/modules/session, takeover).  *)
(* Of an engine only whether a node has one matters here: SessionLifecycle  *)
(* is the model of how it comes and goes.                                   *)
(*                                                                         *)
(* A handler sends a query, the database executes it, its answer comes      *)
(* back: three steps, with anything in between.  Time is counted in ticks;  *)
(* a lease is the number of ticks it has left, and a query that carries the *)
(* moment it was built is as old as its age says.                           *)
(***************************************************************************)
EXTENDS Integers, FiniteSets

CONSTANTS
  Nodes,      \* node identities (NODE_ID, or the hostname): stable across restarts
  Clients,    \* operator requests that can be in flight at once (a bound)
  None,
  TTL,        \* SESSION_LEASE_TTL_MS, in ticks
  Beat,       \* SESSION_LEASE_HEARTBEAT_MS, in ticks
  Slow,       \* the most ticks a query takes
  PoolSize,   \* connections of a node: DATABASE_POOL_SIZE
  Verbs,      \* the verbs operators use in this instance
  Serial,     \* a verb begins on a node only when no other one works there
  StartsFail, \* engine launches may be rejected, running engines may give up
  MaxMishaps  \* bound on the queries that fail and the processes that end

ASSUME OwnershipAssumption ==
  /\ None \notin Nodes
  /\ Clients \cap ({"sweep", "renew"} \X Nodes) = {}
  /\ IsFiniteSet(Clients) /\ IsFiniteSet(Nodes)
  /\ {Slow, MaxMishaps} \subseteq Nat
  /\ {TTL, Beat, PoolSize} \subseteq Nat \ {0}
  /\ Beat * 2 < TTL     \* refused by validateEnv otherwise
  /\ Verbs \subseteq {"start", "stop"}
  /\ {Serial, StartsFail} \subseteq BOOLEAN

\* Each node runs one sweep (at boot, the auto-start scan) and one renewal at a time.
Ops == Clients \cup ({"sweep", "renew"} \X Nodes)
Sweep(n) == <<"sweep", n>>
Renewal(n) == <<"renew", n>>

VARIABLES
  row,     \* the session's row: nodeId, what its leaseExpiresAt leaves, its status
  phase,   \* of each node's process: up, leaving (its engines are down) or down
  beat,    \* ticks until its next heartbeat
  owned,   \* nodes whose `owned` set has the session
  engine,  \* nodes whose registry has an engine, or a reconnect pending, for it
  marked,  \* nodes with the session in stoppingSessions
  op,      \* handlers in flight: what for, where, on which node
  sent,    \* of each handler's query: its age, the queries of its node sent before it
           \* and not yet back, its answer once executed
  wanted,  \* FALSE once a stop was answered and nobody asked for a start since
  mishaps

vars == <<row, phase, beat, owned, engine, marked, op, sent, wanted, mishaps>>
local == <<owned, engine, marked>>
world == <<phase, beat, mishaps>>

Idle == [verb |-> "none", at |-> "idle", node |-> None]
Unsent == [age |-> 0, ahead |-> {}, answer |-> "none"]

\* Where a handler is.  Waiting for a query; or for something else: scan (auto-start),
\* listed (its turn in the sweep), prep (start() before its engine is registered), launch
\* (initialize()), stopping (the teardown and DISCONNECTED), lost (engines of lost sessions).
Querying == {"claim", "fence", "release", "renew", "seen", "leave"}

Init ==
  /\ row = [node |-> None, lease |-> 0, status |-> "off"]
  /\ phase = [n \in Nodes |-> "up"]
  /\ beat = [n \in Nodes |-> Beat]
  /\ owned = {} /\ engine = {} /\ marked = {}
  /\ op = [o \in Ops |-> Idle]
  /\ sent = [o \in Ops |-> Unsent]
  /\ wanted = FALSE
  /\ mishaps = 0

-----------------------------------------------------------------------------
(* Queries *)

OfNode(n) == {o \in Ops : op[o].node = n}
OnWire(n) == {o \in OfNode(n) : op[o].at \in Querying}

\* o's query comes back; it sends the next one behind those on the wire.
Back(o) == [p \in Ops |-> IF p = o THEN Unsent ELSE [sent[p] EXCEPT !.ahead = @ \ {o}]]
Sends(o, n) == sent' = [Back(o) EXCEPT ![o].ahead = OnWire(n) \ {o}]

\* A new handler on n, and the query it begins with.
Begin(o, v, l, n) ==
  /\ op' = [op EXCEPT ![o] = [verb |-> v, at |-> l, node |-> n]]
  /\ Sends(o, n)

\* o's query, if it waited for one, is back: it goes on to another query, to something
\* else, or has ended.
Query(o, l) == op' = [op EXCEPT ![o].at = l] /\ Sends(o, op[o].node)
Goes(o, l) == op' = [op EXCEPT ![o].at = l] /\ sent' = Back(o)
Done(o) == op' = [op EXCEPT ![o] = Idle] /\ sent' = Back(o)

\* A connection works on o's query.
Connected(o) == op[o].at \in Querying /\ Cardinality(sent[o].ahead) < PoolSize

\* Mutants: a claim of whoever asks, a release of any holder's claim, a lease that
\* outlives its expiry.
ClaimAny(n, age) == TRUE
ReleaseAny(n, age) == row.node # None
NeverLapsed(age) == row.lease + age < 0 - TTL

\* leaseExpiresAt against the moment the query carries (a tie lasts a millisecond).
Lapsed(age) == row.lease + age <= 0
Live(age) == row.lease + age > 0
Free == [row EXCEPT !.node = None, !.lease = 0]

\* The WHERE of claim(), of release() and of isHeldByOtherNode().
Claimable(n, age) == row.node \in {None, n} \/ Lapsed(age)
Releasable(n, age) == row.node = n \/ (row.node # None /\ Lapsed(age))
HeldByOther(n, age) == row.node \notin {None, n} /\ Live(age)
\* lapsedHeldByOthers() and isEligible(): a failed session is left to its operator.
Adoptable(n) == row.node \notin {None, n} /\ Lapsed(0) /\ row.status # "failed"

Answer(o, hit) == sent' = [sent EXCEPT ![o].answer = IF hit THEN "hit" ELSE "miss"]

Mishap == mishaps < MaxMishaps /\ mishaps' = mishaps + 1

\* The database executes o's query.
Execute(o) ==
  /\ Connected(o) /\ sent[o].answer = "none"
  /\ LET n == op[o].node  age == sent[o].age IN
     \/ /\ op[o].at = "claim"
        /\ Answer(o, Claimable(n, age))
        /\ row' = IF Claimable(n, age) THEN [row EXCEPT !.node = n, !.lease = TTL - age] ELSE row
     \/ /\ op[o].at = "release"
        /\ Answer(o, TRUE)
        /\ row' = IF Releasable(n, age) THEN Free ELSE row
     \/ /\ op[o].at = "leave"
        /\ Answer(o, TRUE)
        /\ row' = IF row.node = n THEN Free ELSE row
     \/ /\ op[o].at = "renew"
        /\ Answer(o, TRUE)
        /\ row' = IF row.node = n THEN [row EXCEPT !.lease = TTL - age] ELSE row
     \/ op[o].at = "seen" /\ Answer(o, row.node = n) /\ UNCHANGED row
     \/ op[o].at = "fence" /\ Answer(o, ~HeldByOther(n, age)) /\ UNCHANGED row
  /\ UNCHANGED <<local, world, op, wanted>>

\* A connection breaks: before the query was executed, or with its answer on the way.
Fail(o) ==
  /\ Connected(o) /\ sent[o].answer # "error"
  /\ Mishap
  /\ sent' = [sent EXCEPT ![o].answer = "error"]
  /\ UNCHANGED <<row, local, phase, beat, op, wanted>>

Answered(o, l, a) == op[o].at = l /\ sent[o].answer = a /\ Connected(o)

-----------------------------------------------------------------------------
(* start() *)

\* initializingSessions, and isEngineActive().
Starting(n) == \E o \in OfNode(n) : op[o].at \in {"prep", "launch"}
Active(n) == n \in engine \/ Starting(n)

\* A verb may begin on n.
Clear(n) ==
  Serial => \A o \in OfNode(n) : op[o].verb = "renew" \/ op[o].at \in {"scan", "listed"}

Request(c, n, v) ==
  /\ op[c] = Idle /\ Clear(n) /\ phase[n] = "up" /\ v \in Verbs
  /\ Begin(c, v, IF v = "start" THEN "claim" ELSE "fence", n)
  /\ wanted' = (wanted \/ v = "start")
  \* stop() marks the session before it waits for anything
  /\ marked' = IF v = "stop" THEN marked \cup {n} ELSE marked
  /\ UNCHANGED <<row, owned, engine, world>>

\* claim() returned: owned, and lifecycle.start() reserves in the same turn; a start in
\* flight refuses it, and refused it leaves by releaseUnlessEngineActive: active.
Claimed(o) ==
  /\ Answered(o, "claim", "hit")
  /\ owned' = owned \cup {op[o].node}
  /\ IF Starting(op[o].node) THEN Done(o) ELSE Goes(o, "prep")
  /\ UNCHANGED <<row, engine, marked, world, wanted>>

\* claim() answered that another node holds the session, or failed.
NotClaimed(o) ==
  /\ Answered(o, "claim", "miss") \/ Answered(o, "claim", "error")
  /\ Done(o)
  /\ UNCHANGED <<row, local, world, wanted>>

\* releaseUnlessEngineActive(), of a handler that has given its own reservation up.
GiveUp(o) ==
  LET n == op[o].node
      others == \E p \in OfNode(n) \ {o} : op[p].at \in {"prep", "launch"}
  IN IF n \in engine' \/ others
     THEN Done(o) /\ UNCHANGED owned
     ELSE Query(o, "release") /\ owned' = owned \ {n}

\* The prelude of lifecycle.start(): an engine there already refuses it; else it clears
\* the stop mark, registers an engine and marks the row INITIALIZING.
Register(o) ==
  /\ op[o].at = "prep"
  /\ LET n == op[o].node IN
     \/ /\ n \in engine
        /\ UNCHANGED <<row, engine, marked>> /\ GiveUp(o)
     \/ /\ n \notin engine
        /\ engine' = engine \cup {n} /\ marked' = marked \ {n}
        /\ row' = [row EXCEPT !.status = "on"]
        /\ Goes(o, "launch") /\ UNCHANGED owned
  /\ UNCHANGED <<world, wanted>>

\* initialize() resolved, or was never called: a marked session is torn down again and
\* the start returns; otherwise its engine runs.
Launched(o) ==
  /\ op[o].at = "launch"
  /\ engine' = IF op[o].node \in marked THEN engine \ {op[o].node} ELSE engine
  /\ Done(o)
  /\ UNCHANGED <<row, owned, marked, world, wanted>>

\* initialize() was rejected: by a failure of its own, or because its engine was torn
\* down meanwhile.  FAILED is only for a session that is still ours.
Rejected(o) ==
  /\ op[o].at = "launch"
  /\ LET n == op[o].node IN
     /\ StartsFail \/ n \notin engine
     /\ engine' = engine \ {n}
     /\ row' = IF n \in engine /\ n \in owned THEN [row EXCEPT !.status = "failed"] ELSE row
     /\ GiveUp(o)
  /\ UNCHANGED <<marked, world, wanted>>

\* A release() has returned, or a stop() whose query failed gives up with a 500.
Released(o) ==
  /\ Answered(o, "release", "hit") \/ Answered(o, "release", "error")
  /\ Done(o)
  /\ wanted' = (wanted /\ ~(op[o].verb = "stop" /\ sent[o].answer = "hit"))
  /\ UNCHANGED <<row, local, world>>

\* The reconnect budget of a running engine is spent: FAILED if it is ours, no engine.
EngineGivesUp(n) ==
  /\ StartsFail /\ phase[n] = "up" /\ n \in engine /\ ~Starting(n)
  /\ engine' = engine \ {n}
  /\ row' = IF n \in owned THEN [row EXCEPT !.status = "failed"] ELSE row
  /\ UNCHANGED <<owned, marked, world, op, sent, wanted>>

-----------------------------------------------------------------------------
(* stop() *)

\* Not held elsewhere: lifecycle.stop() takes the engine down.
StopPasses(o) ==
  /\ Answered(o, "fence", "hit")
  /\ marked' = marked \cup {op[o].node}
  /\ engine' = engine \ {op[o].node}
  /\ Goes(o, "stopping")
  /\ UNCHANGED <<row, owned, world, wanted>>

\* Held by another node (409), or the query failed (500): its mark stays.
StopRefused(o) ==
  /\ Answered(o, "fence", "miss") \/ Answered(o, "fence", "error")
  /\ Done(o)
  /\ UNCHANGED <<row, local, world, wanted>>

\* DISCONNECTED is written, and the claim handed back unless something runs here; a write
\* that fails is a 500 before any of it.
StopWritten(o) ==
  /\ op[o].at = "stopping"
  /\ \/ /\ row' = [row EXCEPT !.status = "off"]
        /\ UNCHANGED engine /\ GiveUp(o)
        /\ wanted' = (wanted /\ ~Active(op[o].node))
        /\ UNCHANGED mishaps
     \/ /\ Mishap
        /\ Done(o)
        /\ UNCHANGED <<row, owned, engine, wanted>>
  /\ UNCHANGED <<marked, phase, beat>>

-----------------------------------------------------------------------------
(* The heartbeat *)

\* renew(): only a claim that still covers something alive is pushed out; every held one
\* is then looked up.
Heartbeat(n) ==
  /\ phase[n] = "up" /\ beat[n] = 0 /\ op[Renewal(n)] = Idle
  /\ beat' = [beat EXCEPT ![n] = Beat]
  /\ IF n \in owned
     THEN Begin(Renewal(n), "renew", IF Active(n) THEN "renew" ELSE "seen", n)
     ELSE UNCHANGED <<op, sent>>
  /\ UNCHANGED <<row, local, phase, mishaps, wanted>>

Renewed(o) ==
  /\ Answered(o, "renew", "hit")
  /\ Query(o, "seen")
  /\ UNCHANGED <<row, local, world, wanted>>

\* Still ours, or a failed query, which is no evidence of a loss.
Kept(o) ==
  /\ \/ Answered(o, "seen", "hit") \/ Answered(o, "seen", "error")
     \/ Answered(o, "renew", "error")
  /\ Done(o)
  /\ UNCHANGED <<row, local, world, wanted>>

\* Lost: forgotten, and stopOrphanEngines() marks it before it tears its engine down.
Lost(o) ==
  /\ Answered(o, "seen", "miss")
  /\ owned' = owned \ {op[o].node}
  /\ marked' = marked \cup {op[o].node}
  /\ Goes(o, "lost")
  /\ UNCHANGED <<row, engine, world, wanted>>

OrphanStopped(o) ==
  /\ op[o].at = "lost"
  /\ engine' = engine \ {op[o].node}
  /\ Done(o)
  /\ UNCHANGED <<row, owned, marked, world, wanted>>

-----------------------------------------------------------------------------
(* The takeover sweep *)

\* lapsedHeldByOthers() lists the session.  The starts of a list are made one by one, two
\* seconds apart and each after the launch of the one before.
BeginSweep(n) ==
  /\ phase[n] = "up" /\ op[Sweep(n)] = Idle
  /\ Adoptable(n)
  /\ op' = [op EXCEPT ![Sweep(n)] = [verb |-> "sweep", at |-> "listed", node |-> n]]
  /\ UNCHANGED <<row, local, world, sent, wanted>>

\* The scan of the boot lists it, or does not.
Scan(o) ==
  /\ op[o].at = "scan"
  /\ op' = IF Claimable(op[o].node, 0) /\ row.status = "off"
           THEN [op EXCEPT ![o].at = "listed"] ELSE [op EXCEPT ![o] = Idle]
  /\ UNCHANGED <<row, local, world, sent, wanted>>

SweepStarts(o) ==
  /\ op[o].at = "listed" /\ Clear(op[o].node)
  /\ Query(o, "claim")
  /\ UNCHANGED <<row, local, world, wanted>>

-----------------------------------------------------------------------------
(* Processes and time *)

Drop(n) ==
  /\ op' = [o \in Ops |-> IF o \in OfNode(n) THEN Idle ELSE op[o]]
  /\ sent' = [o \in Ops |-> IF o \in OfNode(n) THEN Unsent ELSE sent[o]]
  /\ owned' = owned \ {n} /\ engine' = engine \ {n} /\ marked' = marked \ {n}

Crash(n) ==
  /\ phase[n] # "down" /\ Mishap
  /\ phase' = [phase EXCEPT ![n] = "down"]
  /\ Drop(n)
  /\ UNCHANGED <<row, beat, wanted>>

\* onModuleDestroy(): no more heartbeats or sweeps, the engines go down, then releaseAll().
Shutdown(n) ==
  /\ phase[n] = "up" /\ Mishap /\ op[Renewal(n)] = Idle
  /\ phase' = [phase EXCEPT ![n] = "leaving"]
  /\ engine' = engine \ {n} /\ owned' = owned \ {n}
  /\ IF n \in owned
     THEN Begin(Renewal(n), "leave", "leave", n)
     ELSE UNCHANGED <<op, sent>>
  /\ UNCHANGED <<row, beat, marked, wanted>>

\* releaseAll() has settled: the process ends, whatever else was in flight in it.
Exit(n) ==
  /\ phase[n] = "leaving"
  /\ op[Renewal(n)] = Idle \/ sent[Renewal(n)].answer # "none"
  /\ phase' = [phase EXCEPT ![n] = "down"]
  /\ Drop(n)
  /\ UNCHANGED <<row, beat, mishaps, wanted>>

\* onModuleInit(): the rows this node may claim are reset, before anything is served;
\* then the auto-start scan.
Boot(n) ==
  /\ phase[n] = "down"
  /\ phase' = [phase EXCEPT ![n] = "up"]
  /\ beat' = [beat EXCEPT ![n] = Beat]
  /\ row' = IF Claimable(n, 0) /\ row.status = "on" THEN [row EXCEPT !.status = "off"] ELSE row
  /\ op' = [op EXCEPT ![Sweep(n)] = [verb |-> "auto", at |-> "scan", node |-> n]]
  /\ UNCHANGED <<local, sent, wanted, mishaps>>

\* Heartbeats are due on time, and no query takes longer than Slow.
Tick ==
  /\ \A n \in Nodes : phase[n] = "up" => beat[n] > 0
  /\ \A o \in Ops : op[o].at \in Querying => sent[o].age < Slow
  /\ row' = [row EXCEPT !.lease = IF row.node = None THEN 0 ELSE IF @ > -Slow THEN @ - 1 ELSE @]
  /\ beat' = [n \in Nodes |-> IF phase[n] = "up" THEN beat[n] - 1 ELSE beat[n]]
  /\ sent' = [o \in Ops |-> IF op[o].at \in Querying THEN [sent[o] EXCEPT !.age = @ + 1] ELSE sent[o]]
  /\ UNCHANGED <<local, phase, op, wanted, mishaps>>

\* A handler's next step once nothing goes wrong with its query.
Step(o) ==
  \/ Execute(o)
  \/ Claimed(o) \/ NotClaimed(o) \/ Register(o) \/ Launched(o) \/ Rejected(o) \/ Released(o)
  \/ StopPasses(o) \/ StopRefused(o) \/ StopWritten(o)
  \/ Renewed(o) \/ Kept(o) \/ Lost(o) \/ OrphanStopped(o)
  \/ Scan(o) \/ SweepStarts(o)

Next ==
  \/ \E c \in Clients, n \in Nodes, v \in Verbs : Request(c, n, v)
  \/ \E o \in Ops : Step(o) \/ Fail(o)
  \/ \E n \in Nodes :
       \/ EngineGivesUp(n) \/ Heartbeat(n) \/ BeginSweep(n)
       \/ Crash(n) \/ Shutdown(n) \/ Exit(n) \/ Boot(n)
  \/ Tick

Spec == Init /\ [][Next]_vars

\* Queries are executed and answered, launches end, timers fire and time goes on.
Fairness ==
  /\ \A o \in Ops : WF_vars(Step(o))
  /\ \A n \in Nodes : WF_vars(Heartbeat(n)) /\ WF_vars(BeginSweep(n)) /\ WF_vars(Exit(n))
  /\ SF_vars(Tick)

FairSpec == Spec /\ Fairness

-----------------------------------------------------------------------------
(* Properties *)

RowTypes == [node : Nodes \cup {None}, lease : (0 - Slow)..TTL, status : {"off", "on", "failed"}]
OpTypes == [verb : {"none", "start", "stop", "sweep", "auto", "renew", "leave"},
            at : {"idle", "scan", "listed", "prep", "launch", "stopping", "lost"} \cup Querying,
            node : Nodes \cup {None}]
SentTypes == [age : 0..Slow, ahead : SUBSET Ops, answer : {"none", "hit", "miss", "error"}]

\* A free session carries no expiry.
RowTyped == row \in RowTypes /\ (row.node = None => row.lease = 0)

NodesTyped ==
  /\ phase \in [Nodes -> {"up", "leaving", "down"}]
  /\ beat \in [Nodes -> 0..Beat]
  /\ owned \subseteq Nodes /\ engine \subseteq Nodes /\ marked \subseteq Nodes
  /\ wanted \in BOOLEAN
  /\ mishaps \in 0..MaxMishaps

OpsTyped ==
  /\ op \in [Ops -> OpTypes]
  /\ \A o \in Ops : (op[o].node = None) = (op[o].at = "idle")
  /\ sent \in [Ops -> SentTypes]

\* Type correctness.
TypeOK == RowTyped /\ NodesTyped /\ OpsTyped

\* At most one node runs an engine of the session, nodes that are shutting down apart:
\* what claim() before launch, the renewals and the loss handler are for.
OneEngine == \A m, n \in {k \in engine : phase[k] = "up"} : m = n

\* A claim that has not lapsed is only ended by its holder, whoever else starts, stops,
\* sweeps, boots or leaves, and however late their queries land.
LiveClaimRespected ==
  [][\A n \in Nodes : row.node = n /\ row.lease > 0 /\ row'.node # n =>
       \E o \in OfNode(n) : op[o].at \in {"release", "leave"}]_vars

\* The takeover sweep never claims a session that was stopped and not started since
\* (session-ownership.service.ts, release: a stop "must actually leave it down").
StoppedNotAdopted ==
  [][\A n \in Nodes :
       op[Sweep(n)].verb = "sweep" /\ row.node # n /\ row'.node = n
         => wanted \/ op[Sweep(n)].at # "claim"]_vars

\* The session of a node that died is claimed by another one: Lapsed() and the sweep
\* agree with what claim() accepts.
OrphanAdopted ==
  \A n \in Nodes :
    phase[n] = "down" /\ row.node = n /\ row.status # "failed"
      ~> phase[n] # "down" \/ row.node # n \/ row.status = "failed"
=============================================================================
