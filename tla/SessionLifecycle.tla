--------------------------- MODULE SessionLifecycle ---------------------------
(***************************************************************************)
(* The session lifecycle of the OpenWA gateway (openwa/src/modules/session): *)
(* the control verbs of SessionEngineControls (start, stop, logout,         *)
(* force-kill, delete), the engine creation, disconnect handling and        *)
(* reconnect loop of SessionEngineLifecycle, the fences of                  *)
(* SessionLifecycleFences and the liveness-gated engine callbacks of        *)
(* SessionEngineEventWiring, on one node that owns its sessions.            *)
(*                                                                         *)
(* JavaScript runs to completion: an action is the code between two awaits. *)
(* A handler in flight is a member of Procs; pc says which await it is in,  *)
(* op the verb, sid the session id it works on and eng the engine object it *)
(* captured.  An await of an already settled promise does not let another   *)
(* I/O callback in, so a fence with nothing pending costs no step.          *)
(***************************************************************************)
EXTENDS Integers, Sequences, FiniteSets

CONSTANTS
  Ids,            \* session UUIDs: never reused, a recreated session has a new one
  Names,          \* session names, the key of the credential directory on disk
  NameOf,         \* the name each UUID was created under
  Engines,        \* engine objects, recycled once nothing refers to them
  Procs,          \* handlers that can be in flight at once (a bound)
  None,           \* "undefined" / "null"
  Verbs,          \* the control verbs clients use in this instance
  Serial,         \* clients wait for a verb to finish before they send another
  MaxAttempts,    \* reconnect budget (config.maxReconnectAttempts), None for no limit
  MaxConcurrent,  \* MAX_CONCURRENT_SESSIONS, 0 for no cap
  MaxRequests,    \* bound on the control requests of a behaviour
  MaxWrites,      \* bound on the engine-driven status writes in flight
  DbInOrder,      \* status writes land in issue order (SQLite's one connection)
  DbFaults,       \* database calls may fail, or stall for seconds
  Unlinks,        \* engines may begin a credential rm on their own
  StrayReports,   \* engines may report a loss twice, or while initialize() or a teardown runs
  TeardownsFail   \* a bounded teardown may throw or hit its deadline

ASSUME ConstantsAssumption ==
  /\ NameOf \in [Ids -> Names]
  /\ None \notin Ids \cup Engines \cup Procs \cup Nat
  /\ None \notin [attempts : Nat, armed : BOOLEAN]
  /\ IsFiniteSet(Ids)
  /\ Verbs \subseteq {"start", "stop", "logout", "forceKill", "delete"}
  /\ {Serial, DbInOrder, DbFaults, Unlinks, StrayReports, TeardownsFail} \subseteq BOOLEAN
  /\ {MaxConcurrent, MaxRequests, MaxWrites} \subseteq Nat
  /\ MaxAttempts \in Nat \cup {None}

VARIABLES
  row,          \* the sessions table: status of each row, or why there is none
  auth,         \* names with a credential directory on disk
  engines,      \* EngineRegistry.engines
  initializing, \* EngineRegistry.initializing
  stopping,     \* stoppingSessions
  reconnect,    \* reconnectStates: attempts and whether a timer is armed
  stuckUsed,    \* stuckAuthRecoveryUsed
  pendingInit,  \* pendingInitialStatuses: the handler whose INITIALIZING is tracked
  estate,       \* what each engine object is: see EngineStates
  wiping,       \* credential rms in flight: who runs them, whether the lifecycle was
                \* told (pendingTeardowns), and the handlers waiting for them
  lost,         \* handleEngineDisconnected calls waiting for their row read
  writes,       \* status UPDATEs sent and not yet landed, in issue order
  pc, op, sid, eng,
  requests,     \* control requests so far
  leaked        \* names under which a browser or socket outlived its bounded teardown

procVars == <<pc, op, sid, eng>>
vars == <<row, auth, engines, initializing, stopping, reconnect, stuckUsed,
          pendingInit, estate, wiping, lost, writes, procVars, requests, leaked>>

Statuses == {"created", "initializing", "linking", "ready", "disconnected", "failed"}
NoRow == {"unborn", "deleted"}
\* gone: never launched, or evicted after its bounded teardown, whatever came of that: a
\* process that outlived it is in leaked; created: constructed, initialize() not called;
\* alive: may hold a browser or socket; down: reported its own disconnect; dying: evicted,
\* its background forceDestroy() has not settled.
EngineStates == {"gone", "created", "alive", "down", "dying"}
Locations == {"idle", "start_row", "start_fence", "start_hook",
              "init_write", "init_run", "init_kill", "init_kill_write",
              "catch_kill", "catch_write",
              "post_row", "retire_kill", "purge_id", "purge_name", "purge_rm",
              "verb_row", "delete_fence1", "verb_wait", "teardown", "delete_fence2",
              "delete_hook", "delete_purge", "verb_write", "refuse_write",
              "reconnect_kill", "reconnect_fence"}

Killing == {"init_kill", "catch_kill", "retire_kill", "teardown", "reconnect_kill"}

Init ==
  /\ row = [i \in Ids |-> "unborn"]
  /\ auth = {}
  /\ engines = [i \in Ids |-> None]
  /\ initializing = {}
  /\ stopping = {}
  /\ reconnect = [i \in Ids |-> None]
  /\ stuckUsed = {}
  /\ pendingInit = [i \in Ids |-> None]
  /\ estate = [e \in Engines |-> "gone"]
  /\ wiping = {}
  /\ lost = {}
  /\ writes = <<>>
  /\ pc = [p \in Procs |-> "idle"]
  /\ op = [p \in Procs |-> "none"]
  /\ sid = [p \in Procs |-> None]
  /\ eng = [p \in Procs |-> None]
  /\ requests = 0
  /\ leaked = {}

-----------------------------------------------------------------------------
(* Helpers *)

Exists(i) == row[i] \notin NoRow
Armed(i) == reconnect[i] # None /\ reconnect[i].armed
Live(i, e) == e # None /\ engines[i] = e
\* An adapter goes quiet when its destroy() or logout() begins (tearingDown).
Torn(e) == \E p \in Procs : eng[p] = e /\ pc[p] \in Killing
Held == {e \in Engines : estate[e] \in {"alive", "down"}}

\* Nothing refers to e any more: its object can stand for a new engine.
Recyclable(e) ==
  /\ estate[e] \in {"gone", "created"}
  /\ \A i \in Ids : engines[i] # e
  /\ \A p \in Procs : eng[p] # e
  /\ \A l \in lost : l[2] # e
  /\ \A w \in wiping : w.engine # e

\* Mutant: the fence is not consulted.
NoFence(n) == TRUE
\* awaitPendingTeardown: only rms somebody told the lifecycle about are seen.
FenceOpen(n) == \A w \in wiping : w.name = n => ~w.tracked

\* A handler waits for the rms in flight when it came to the fence, not for those that
\* begin while it waits, and leaves when they are over or its ten seconds are.
Await(p, n) ==
  wiping' = {IF w.name = n /\ w.tracked THEN [w EXCEPT !.waiters = @ \cup {p}] ELSE w : w \in wiping}
GiveUp(p) == wiping' = {[w EXCEPT !.waiters = @ \ {p}] : w \in wiping}
FencePassed(p) == \A w \in wiping : p \notin w.waiters

StatusWrite(i, s, p) == [id |-> i, status |-> s, by |-> p]
Without(s, k) == SubSeq(s, 1, k - 1) \o SubSeq(s, k + 1, Len(s))

\* An awaited status UPDATE of p settles and p runs on in the same turn of the event
\* loop.  On a row that is gone it changes nothing; a failed one is reported or ignored.
Lands(p, k) ==
  /\ k \in DOMAIN writes /\ writes[k].by = p
  /\ DbInOrder => k = 1
  /\ \/ row' = IF Exists(writes[k].id) THEN [row EXCEPT ![writes[k].id] = writes[k].status]
              ELSE row
     \/ DbFaults /\ p \notin {q \in Procs : pc[q] = "init_write"} /\ UNCHANGED row

Settled(p) == \E k \in 1..Len(writes) : Lands(p, k) /\ writes' = Without(writes, k)

Goto(p, l) == pc' = [pc EXCEPT ![p] = l]

Finish(p) ==
  /\ pc' = [pc EXCEPT ![p] = "idle"]
  /\ op' = [op EXCEPT ![p] = "none"]
  /\ sid' = [sid EXCEPT ![p] = None]
  /\ eng' = [eng EXCEPT ![p] = None]
  /\ initializing' = IF op[p] = "start" THEN initializing \ {sid[p]} ELSE initializing

\* Mutant: eviction by id, without the identity check.
DeleteById(i, e) == engines' = [engines EXCEPT ![i] = None]
\* registry.deleteIfLive(i, e): a superseded engine never evicts its replacement.
DeleteIfLive(i, e) ==
  engines' = IF engines[i] = e THEN [engines EXCEPT ![i] = None] ELSE engines

Closed(e) == [estate EXCEPT ![e] = "gone"]
\* teardownEngineSafely resolves to false when the teardown of e threw or hit its deadline:
\* its process may be alive and writing, and the callers go on as if it were not.
Outlives(n, e) ==
  leaked' \in {leaked} \cup
    (IF TeardownsFail /\ estate[e] \notin {"gone", "created"} THEN {leaked \cup {n}} ELSE {})
Reaping(sts, e) == IF e = None THEN sts ELSE [sts EXCEPT ![e] = "dying"]

\* What is sent when the teardown of e begins: an adapter that was connected reports
\* DISCONNECTED at once, and is heard while it is registered; one still launching,
\* logging out (slow) or resetting stuck credentials reports it later or never.
TeardownWrites(i, e, slow, ws) ==
  LET said == Append(ws, StatusWrite(i, "disconnected", None))
      unsure == \/ slow
                \/ \E p \in Procs : pc[p] = "init_run" /\ eng[p] = e
                \/ \E w \in wiping : w.engine = e /\ ~w.tracked
  IN IF estate[e] # "alive" \/ engines[i] # e \/ Torn(e) THEN {ws}
     ELSE IF unsure THEN {ws, said} ELSE {said}

CancelReconnect(i) == reconnect' = [reconnect EXCEPT ![i] = None]

\* decideReconnect: attempts made in one bad stretch against the configured cap.
Exhausted(n) == MaxAttempts # None /\ n >= MaxAttempts

\* scheduleReconnect over the registry and writes its caller left behind: with no
\* state nothing happens; an exhausted budget is terminal (FAILED, evict, forget);
\* otherwise one timer is armed.  The attempts restart at 0 after five quiet minutes.
ScheduleReconnect(i, regs, sts, ws) ==
  \/ /\ reconnect[i] = None
     /\ engines' = regs /\ estate' = sts /\ writes' = ws
     /\ UNCHANGED reconnect
  \/ /\ reconnect[i] # None
     /\ \E n \in {reconnect[i].attempts, 0} :
          \/ /\ Exhausted(n)
             /\ writes' = Append(ws, StatusWrite(i, "failed", None))
             /\ engines' = [regs EXCEPT ![i] = None]
             /\ estate' = Reaping(sts, regs[i])
             /\ CancelReconnect(i)
          \/ /\ ~Exhausted(n)
             /\ reconnect' = [reconnect EXCEPT ![i] =
                  [attempts |-> IF MaxAttempts = None THEN 0 ELSE n + 1, armed |-> TRUE]]
             /\ engines' = regs /\ estate' = sts /\ writes' = ws

-----------------------------------------------------------------------------
\* A serial client has no verb in flight when it sends the next, and starts a session
\* only when it is not reconnecting.
ClientsFree(v, i) ==
  Serial =>
    /\ \A q \in Procs : op[q] \in {"none", "reconnect"}
    /\ v = "start" => (\A q \in Procs : sid[q] # i) /\ ~Armed(i)

(* SessionService.create: the name is UNIQUE, the UUID fresh. *)

Create(i) ==
  /\ row[i] = "unborn"
  /\ \A j \in Ids : NameOf[j] = NameOf[i] => ~Exists(j)
  /\ ClientsFree("create", i)
  /\ row' = [row EXCEPT ![i] = "created"]
  /\ UNCHANGED <<auth, engines, initializing, stopping, reconnect, stuckUsed,
                 pendingInit, estate, wiping, lost, writes, procVars, requests, leaked>>

\* Mutant: the reservation is not looked at.
MayStartTwice(i) == TRUE
MayStart(i) == i \notin initializing

\* A client sends verb v for i: the part of the handler before its first await.
\* start() reserves the id synchronously; stop() and delete() set the stop mark
\* synchronously (SessionService.markStopping).
Request(p, v, i) ==
  /\ pc[p] = "idle"
  /\ requests < MaxRequests
  /\ ClientsFree(v, i)
  /\ row[i] # "unborn"
  /\ v = "start" => MayStart(i)
  /\ requests' = requests + 1
  /\ pc' = [pc EXCEPT ![p] = IF v = "start" THEN "start_row" ELSE "verb_row"]
  /\ op' = [op EXCEPT ![p] = v]
  /\ sid' = [sid EXCEPT ![p] = i]
  /\ initializing' = IF v = "start" THEN initializing \cup {i} ELSE initializing
  /\ stopping' = IF v \in {"stop", "delete"} THEN stopping \cup {i} ELSE stopping
  /\ UNCHANGED <<row, auth, engines, reconnect, stuckUsed, pendingInit, estate,
                 wiping, lost, writes, eng, leaked>>

-----------------------------------------------------------------------------
(* start() *)

\* Past the fence: the stop mark goes, the old reconnect timer goes, the hook runs.
AdmitStart(p) ==
  /\ stopping' = stopping \ {sid[p]}
  /\ CancelReconnect(sid[p])
  /\ Goto(p, "start_hook")
  /\ UNCHANGED <<op, sid, eng, initializing>>

\* Mutant: only registered engines count, not the starts in flight.
RegisteredOthers(i) == {j \in Ids : engines[j] # None} \ {i}
\* EngineRegistry.activeIds: running or starting, each once.
ActiveOthers(i) == ({j \in Ids : engines[j] # None} \cup initializing) \ {i}

StartRow(p) ==
  /\ pc[p] = "start_row"
  /\ LET i == sid[p]
         refused == \/ ~Exists(i)
                    \/ engines[i] # None
                    \/ MaxConcurrent > 0 /\ Cardinality(ActiveOthers(i)) >= MaxConcurrent
     IN \/ (refused \/ DbFaults) /\ Finish(p) /\ UNCHANGED <<stopping, reconnect, wiping>>
        \/ ~refused /\ FenceOpen(NameOf[i]) /\ AdmitStart(p) /\ UNCHANGED wiping
        \/ /\ ~refused /\ ~FenceOpen(NameOf[i])
           /\ Await(p, NameOf[i])
           /\ Goto(p, "start_fence")
           /\ UNCHANGED <<op, sid, eng, initializing, stopping, reconnect>>
  /\ UNCHANGED <<row, auth, engines, stuckUsed, pendingInit, estate, lost, writes, requests, leaked>>

\* Mutant: the wait for the fence has no bound.
StartFenceForever(p) ==
  /\ pc[p] = "start_fence"
  /\ FencePassed(p) /\ AdmitStart(p)
  /\ UNCHANGED <<row, auth, engines, stuckUsed, pendingInit, estate, wiping, lost,
                 writes, requests, leaked>>
\* The rms settle, or ten seconds pass and the start is refused with a 409.
StartFence(p) ==
  /\ pc[p] = "start_fence"
  /\ \/ FencePassed(p) /\ AdmitStart(p) /\ UNCHANGED wiping
     \/ ~FencePassed(p) /\ GiveUp(p) /\ Finish(p) /\ UNCHANGED <<stopping, reconnect>>
  /\ UNCHANGED <<row, auth, engines, stuckUsed, pendingInit, estate, lost, writes, requests, leaked>>

\* initializeEngine up to its await: create, register (over whatever is there),
\* send INITIALIZING and track that write.
InitializeEngine(p, i, e, regs, sts) ==
  /\ Recyclable(e)
  /\ engines' = [regs EXCEPT ![i] = e]
  /\ estate' = [sts EXCEPT ![e] = "created"]
  /\ pendingInit' = [pendingInit EXCEPT ![i] = p]
  /\ writes' = Append(writes, StatusWrite(i, "initializing", p))
  /\ eng' = [eng EXCEPT ![p] = e]
  /\ Goto(p, "init_write")

\* Mutant: the reconnect state is not created.
NoReconnectState == None
\* The reconnect state every accepted start() begins with.
FreshReconnect == [attempts |-> 0, armed |-> FALSE]

StartHook(p) ==
  /\ pc[p] = "start_hook"
  /\ reconnect' = [reconnect EXCEPT ![sid[p]] = FreshReconnect]
  /\ stuckUsed' = stuckUsed \ {sid[p]}
  /\ \E e \in Engines : InitializeEngine(p, sid[p], e, engines, estate)
  /\ UNCHANGED <<row, auth, initializing, stopping, wiping, lost, op, sid, requests, leaked>>

\* initializeEngine threw: start() evicts whatever is registered and kills it before
\* it records FAILED; executeReconnect() evicts it in the background and reschedules.
Throw(p, ws) ==
  LET i == sid[p] IN
  \/ /\ op[p] = "start" /\ engines[i] # None
     /\ engines' = [engines EXCEPT ![i] = None]
     /\ eng' = [eng EXCEPT ![p] = engines[i]]
     /\ Goto(p, "catch_kill")
     /\ writes' = ws
     /\ UNCHANGED <<op, sid, initializing, estate, reconnect>>
  \/ /\ op[p] = "start" /\ engines[i] = None
     /\ CancelReconnect(i)
     /\ Finish(p)
     /\ writes' = ws
     /\ UNCHANGED <<engines, estate>>
  \/ /\ op[p] = "reconnect"
     /\ ScheduleReconnect(i, [engines EXCEPT ![i] = None], Reaping(estate, engines[i]), ws)
     /\ Finish(p)

\* Mutant: the engine's owner does not look for a stop mark.
NeverRetired(i) == FALSE
\* isSessionRetired, first half: the mark of a verb that ran meanwhile.
MarkedRetired(i) == i \in stopping

\* initializeEngine returned to its caller, which looks at the stop mark at once and
\* otherwise reads the row.  (locs is pc with the other handlers this step moves, ws the
\* writes left in flight.)
InitReturns(p, locs, ws) ==
  LET i == sid[p] IN
  \/ /\ MarkedRetired(i) /\ engines[i] # None
     /\ eng' = [eng EXCEPT ![p] = engines[i]]
     /\ pc' = [locs EXCEPT ![p] = "retire_kill"]
     /\ writes' \in TeardownWrites(i, engines[i], FALSE, ws)
  \/ /\ MarkedRetired(i) /\ engines[i] = None
     /\ pc' = [locs EXCEPT ![p] = "purge_id"]
     /\ writes' = ws /\ UNCHANGED eng
  \/ /\ ~MarkedRetired(i)
     /\ pc' = [locs EXCEPT ![p] = "post_row"]
     /\ writes' = ws /\ UNCHANGED eng

Untrack(p) ==
  pendingInit' = IF pendingInit[sid[p]] = p THEN [pendingInit EXCEPT ![sid[p]] = None]
                 ELSE pendingInit

LogoutRm(p, e) ==
  [name |-> NameOf[sid[p]], engine |-> e, tracked |-> TRUE, waiters |-> {}]

\* The INITIALIZING write landed: a superseded or retired engine is not initialized,
\* and the verbs that waited for this engine's write tear it down.
InitWritten(p) ==
  LET i == sid[p]
      e == eng[p]
      waiters == {q \in Procs : pc[q] = "verb_wait" /\ eng[q] = e}
      locs == [q \in Procs |-> IF q \in waiters THEN "teardown" ELSE pc[q]]
  IN
  /\ pc[p] = "init_write"
  /\ Untrack(p)
  /\ wiping' = wiping \cup {LogoutRm(q, e) : q \in {x \in waiters : op[x] = "logout"}}
  /\ \/ /\ Live(i, e) /\ i \notin stopping
        /\ Settled(p)
        /\ estate' = IF estate[e] = "created" THEN [estate EXCEPT ![e] = "alive"] ELSE estate
        /\ auth' = auth \cup {NameOf[i]}
        /\ pc' = [locs EXCEPT ![p] = "init_run"]
        /\ UNCHANGED eng
     \/ /\ ~Live(i, e) \/ i \in stopping
        /\ \E k \in 1..Len(writes) : Lands(p, k) /\ InitReturns(p, locs, Without(writes, k))
        /\ UNCHANGED <<estate, auth>>
  /\ UNCHANGED <<engines, initializing, stopping, reconnect, stuckUsed, lost, op, sid,
                 requests, leaked>>

InitWriteFails(p) ==
  /\ DbFaults
  /\ pc[p] = "init_write"
  /\ \E k \in 1..Len(writes) :
       /\ writes[k].by = p
       /\ DbInOrder => k = 1
       /\ Throw(p, Without(writes, k))
  /\ Untrack(p)
  /\ UNCHANGED <<row, auth, stopping, stuckUsed, wiping, lost, requests, leaked>>

\* Mutant: the row of a failed engine keeps its status.
OnErrorSilently(i) ==
  /\ CancelReconnect(i)
  /\ estate' = Reaping(estate, engines[i])
  /\ engines' = [engines EXCEPT ![i] = None]
  /\ UNCHANGED writes
\* onError of the live engine: terminal, so the reconnect is cancelled and the engine
\* evicted and killed.
OnError(i) ==
  /\ CancelReconnect(i)
  /\ writes' = Append(writes, StatusWrite(i, "failed", None))
  /\ estate' = Reaping(estate, engines[i])
  /\ engines' = [engines EXCEPT ![i] = None]

\* initialize() rejects.  The adapter reports onError first, in the same turn: for the
\* live engine that leaves neither an engine nor a reconnect state to the catch.
InitRejects(p) ==
  \/ Live(sid[p], eng[p]) /\ OnError(sid[p]) /\ Finish(p)
  \/ ~Live(sid[p], eng[p]) /\ Throw(p, writes)

\* engine.initialize() settles, or its deadline passes first.  The deadline evicts
\* by id, whoever is registered, and kills the engine this call created.
InitRuns(p) ==
  /\ pc[p] = "init_run"
  /\ \/ /\ InitReturns(p, pc, writes)
        /\ UNCHANGED <<engines, initializing, estate, reconnect, op, sid>>
     \/ InitRejects(p)
     \/ /\ engines' = [engines EXCEPT ![sid[p]] = None]
        /\ Goto(p, "init_kill")
        /\ UNCHANGED <<initializing, estate, reconnect, writes, op, sid, eng>>
  /\ UNCHANGED <<row, auth, stopping, stuckUsed, pendingInit, wiping, lost, requests, leaked>>

InitKilled(p) ==
  /\ pc[p] = "init_kill"
  /\ estate' = Closed(eng[p])
  /\ Outlives(NameOf[sid[p]], eng[p])
  /\ writes' = Append(writes, StatusWrite(sid[p], "disconnected", p))
  /\ Goto(p, "init_kill_write")
  /\ UNCHANGED <<row, auth, engines, initializing, stopping, reconnect, stuckUsed,
                 pendingInit, wiping, lost, op, sid, eng, requests>>

InitKillWritten(p) ==
  /\ pc[p] = "init_kill_write"
  /\ \E k \in 1..Len(writes) : Lands(p, k) /\ Throw(p, Without(writes, k))
  /\ UNCHANGED <<auth, stopping, stuckUsed, pendingInit, wiping, lost, requests, leaked>>

\* start()'s catch: the engine is closed, FAILED is written, the state is dropped.
CatchKilled(p) ==
  /\ pc[p] = "catch_kill"
  /\ estate' = Closed(eng[p])
  /\ Outlives(NameOf[sid[p]], eng[p])
  /\ writes' = Append(writes, StatusWrite(sid[p], "failed", p))
  /\ Goto(p, "catch_write")
  /\ UNCHANGED <<row, auth, engines, initializing, stopping, reconnect, stuckUsed,
                 pendingInit, wiping, lost, op, sid, eng, requests>>

CatchWritten(p) ==
  /\ pc[p] = "catch_write"
  /\ Settled(p)
  /\ CancelReconnect(sid[p])
  /\ Finish(p)
  /\ UNCHANGED <<auth, engines, stopping, stuckUsed, pendingInit, estate, wiping, lost,
                 requests, leaked>>

-----------------------------------------------------------------------------
(* The guard after a successful initialization, in start() and executeReconnect() *)

\* Mutant: the guard trusts the stop mark, which a finished delete() has cleared.
RowIgnored(i) == FALSE
\* isSessionRetired, second half: the row is gone.
RowGone(i) == ~Exists(i)

\* A failed read keeps the engine.
PostRow(p) ==
  /\ pc[p] = "post_row"
  /\ LET i == sid[p] IN
     \/ (~RowGone(i) \/ DbFaults) /\ Finish(p) /\ UNCHANGED writes
     \/ /\ RowGone(i) /\ engines[i] # None
        /\ eng' = [eng EXCEPT ![p] = engines[i]]
        /\ Goto(p, "retire_kill")
        /\ writes' \in TeardownWrites(i, engines[i], FALSE, writes)
        /\ UNCHANGED <<op, sid, initializing>>
     \/ /\ RowGone(i) /\ engines[i] = None
        /\ Goto(p, "purge_id")
        /\ UNCHANGED <<op, sid, eng, initializing, writes>>
  /\ UNCHANGED <<row, auth, engines, stopping, reconnect, stuckUsed, pendingInit, estate,
                 wiping, lost, requests, leaked>>

RetireKilled(p) ==
  /\ pc[p] = "retire_kill"
  /\ estate' = Closed(eng[p])
  /\ Outlives(NameOf[sid[p]], eng[p])
  /\ DeleteIfLive(sid[p], eng[p])
  /\ Goto(p, "purge_id")
  /\ UNCHANGED <<row, auth, initializing, stopping, reconnect, stuckUsed, pendingInit,
                 wiping, lost, writes, op, sid, eng, requests>>

\* purgeAuthDirsIfDeleted: a row with the id or with the name keeps the directory.
PurgeCheck(p) ==
  /\ \/ pc[p] \in {"purge_id", "purge_name"} /\ DbFaults /\ Finish(p)
     \/ pc[p] = "purge_id" /\ IF Exists(sid[p]) THEN Finish(p)
                              ELSE Goto(p, "purge_name") /\ UNCHANGED <<op, sid, eng, initializing>>
     \/ /\ pc[p] = "purge_name"
        /\ IF \E j \in Ids : NameOf[j] = NameOf[sid[p]] /\ Exists(j) THEN Finish(p)
           ELSE Goto(p, "purge_rm") /\ UNCHANGED <<op, sid, eng, initializing>>
  /\ UNCHANGED <<row, auth, engines, stopping, reconnect, stuckUsed, pendingInit, estate,
                 wiping, lost, writes, requests, leaked>>

\* Mutant: the purge looks for the other engine's directory only.
PurgeNothing(p) == UNCHANGED auth
PurgeSessionData(p) == auth' = auth \ {NameOf[sid[p]]}

Purged(p) ==
  /\ pc[p] = "purge_rm"
  /\ PurgeSessionData(p)
  /\ Finish(p)
  /\ UNCHANGED <<row, engines, stopping, reconnect, stuckUsed, pendingInit, estate,
                 wiping, lost, writes, requests, leaked>>

-----------------------------------------------------------------------------
(* stop(), logout(), forceKill() and delete() *)

\* A logout's engine.logout() ends in an rm of the credentials, tracked by name from
\* the moment it is called.
BeginTeardown(p, e) ==
  /\ Goto(p, "teardown")
  /\ wiping' = IF op[p] = "logout"
               THEN wiping \cup {LogoutRm(p, e)}
               ELSE wiping

\* awaitInitialStatus: only the captured engine's own write is waited for.
AwaitsInitial(i, e) == pendingInit[i] # None /\ eng[pendingInit[i]] = e

\* delete() comes to its second fence: to the session:deleted hook, or to wait.
ToDeleteFence2(p) ==
  \/ FenceOpen(NameOf[sid[p]]) /\ Goto(p, "delete_hook") /\ UNCHANGED wiping
  \/ /\ ~FenceOpen(NameOf[sid[p]])
     /\ Await(p, NameOf[sid[p]])
     /\ Goto(p, "delete_fence2")

\* Mark, cancel the reconnect, capture the engine; then wait for ITS pending
\* INITIALIZING write, or tear it down at once when there is none.
Retire(p) ==
  LET i == sid[p]
      e == engines[i]
  IN
  /\ stopping' = stopping \cup {i}
  /\ CancelReconnect(i)
  /\ eng' = [eng EXCEPT ![p] = e]
  /\ \/ /\ e # None /\ AwaitsInitial(i, e)
        /\ Goto(p, "verb_wait") /\ UNCHANGED <<wiping, writes>>
     \/ /\ e # None /\ ~AwaitsInitial(i, e)
        /\ BeginTeardown(p, e)
        /\ writes' \in TeardownWrites(i, e, op[p] = "logout", writes)
     \/ /\ e = None /\ op[p] = "stop"
        /\ writes' = Append(writes, StatusWrite(i, "disconnected", p))
        /\ Goto(p, "verb_write") /\ UNCHANGED wiping
     \/ /\ e = None /\ op[p] = "delete"
        /\ ToDeleteFence2(p) /\ UNCHANGED writes
  /\ UNCHANGED <<op, sid, initializing>>

VerbRow(p) ==
  /\ pc[p] = "verb_row"
  /\ LET i == sid[p]
         refused == ~Exists(i) \/ (op[p] \in {"logout", "forceKill"} /\ engines[i] = None)
     IN \/ (refused \/ DbFaults) /\ Finish(p) /\ UNCHANGED <<stopping, reconnect, wiping, writes>>
        \/ /\ ~refused /\ op[p] = "delete" /\ ~FenceOpen(NameOf[i])
           /\ Await(p, NameOf[i])
           /\ Goto(p, "delete_fence1")
           /\ UNCHANGED <<op, sid, eng, initializing, stopping, reconnect, writes>>
        \/ /\ ~refused /\ (op[p] = "delete" => FenceOpen(NameOf[i]))
           /\ Retire(p)
  /\ UNCHANGED <<row, auth, engines, stuckUsed, pendingInit, estate, lost, requests, leaked>>

\* Fence #1: on a timeout delete() returns 409 and touches nothing more.
DeleteFence1(p) ==
  /\ pc[p] = "delete_fence1"
  /\ \/ FencePassed(p) /\ Retire(p)
     \/ /\ ~FencePassed(p)
        /\ GiveUp(p)
        /\ Finish(p) /\ UNCHANGED <<stopping, reconnect, writes>>
  /\ UNCHANGED <<row, auth, engines, stuckUsed, pendingInit, estate, lost, requests, leaked>>

\* awaitInitialStatus ends without the write having landed: the database stalled past
\* ten seconds and the verb goes on, or the write failed and the verb throws with it.
VerbWaited(p) ==
  /\ pc[p] = "verb_wait"
  /\ LET pending == \E q \in Procs : pc[q] = "init_write" /\ eng[q] = eng[p] IN
     \/ /\ pending /\ DbFaults
        /\ BeginTeardown(p, eng[p])
        /\ UNCHANGED <<stopping, initializing, op, sid, eng>>
     \/ /\ ~pending
        /\ stopping' = IF op[p] = "delete" THEN stopping \ {sid[p]} ELSE stopping
        /\ Finish(p) /\ UNCHANGED wiping
  /\ UNCHANGED <<row, auth, engines, reconnect, stuckUsed, pendingInit, estate, lost,
                 writes, requests, leaked>>

\* Mutant: the verb leaves the status to the engine's own report.
TornDownSilently(p) ==
  /\ pc[p] = "teardown"
  /\ estate' = Closed(eng[p])
  /\ Outlives(NameOf[sid[p]], eng[p])
  /\ DeleteIfLive(sid[p], eng[p])
  /\ \/ op[p] = "delete" /\ ToDeleteFence2(p) /\ UNCHANGED <<op, sid, eng, initializing>>
     \/ op[p] # "delete" /\ Finish(p) /\ UNCHANGED wiping
  /\ UNCHANGED <<row, auth, stopping, reconnect, stuckUsed, pendingInit, lost, writes, requests>>
\* The bounded teardown is over: whatever came of it, the engine leaves the registry.
TornDown(p) ==
  /\ pc[p] = "teardown"
  /\ estate' = Closed(eng[p])
  /\ Outlives(NameOf[sid[p]], eng[p])
  /\ DeleteIfLive(sid[p], eng[p])
  /\ \/ op[p] = "delete" /\ ToDeleteFence2(p) /\ UNCHANGED writes
     \/ /\ op[p] # "delete"
        /\ writes' = Append(writes, StatusWrite(sid[p], "disconnected", p))
        /\ Goto(p, "verb_write") /\ UNCHANGED wiping
  /\ UNCHANGED <<row, auth, initializing, stopping, reconnect, stuckUsed, pendingInit,
                 lost, op, sid, eng, requests>>

\* Fence #2: a refusal records DISCONNECTED for the engine delete() already killed.
DeleteFence2(p) ==
  /\ pc[p] = "delete_fence2"
  /\ \/ /\ FencePassed(p)
        /\ Goto(p, "delete_hook")
        /\ UNCHANGED <<op, sid, eng, initializing, stopping, wiping, writes>>
     \/ /\ ~FencePassed(p) /\ eng[p] # None
        /\ GiveUp(p)
        /\ writes' = Append(writes, StatusWrite(sid[p], "disconnected", p))
        /\ Goto(p, "refuse_write")
        /\ UNCHANGED <<op, sid, eng, initializing, stopping>>
     \/ /\ ~FencePassed(p) /\ eng[p] = None
        /\ GiveUp(p)
        /\ stopping' = stopping \ {sid[p]}
        /\ Finish(p) /\ UNCHANGED writes
  /\ UNCHANGED <<row, auth, engines, reconnect, stuckUsed, pendingInit, estate, lost, requests, leaked>>

\* The hook returns and the transaction commits, or it fails and nothing was deleted.
DeleteCommits(p) ==
  /\ pc[p] = "delete_hook"
  /\ \/ /\ row' = [row EXCEPT ![sid[p]] = "deleted"]
        /\ Goto(p, "delete_purge")
        /\ UNCHANGED <<op, sid, eng, initializing, stopping>>
     \/ /\ DbFaults
        /\ stopping' = stopping \ {sid[p]}
        /\ Finish(p) /\ UNCHANGED row
  /\ UNCHANGED <<auth, engines, reconnect, stuckUsed, pendingInit, estate, wiping,
                 lost, writes, requests, leaked>>

DeletePurged(p) ==
  /\ pc[p] = "delete_purge"
  /\ PurgeSessionData(p)
  /\ stopping' = stopping \ {sid[p]}
  /\ stuckUsed' = stuckUsed \ {sid[p]}
  /\ Finish(p)
  /\ UNCHANGED <<row, engines, reconnect, pendingInit, estate, wiping, lost, writes, requests, leaked>>

\* The final DISCONNECTED settled; a refused delete() also drops its mark.
VerbWritten(p) ==
  /\ pc[p] \in {"verb_write", "refuse_write"}
  /\ Settled(p)
  /\ stopping' = IF pc[p] = "refuse_write" THEN stopping \ {sid[p]} ELSE stopping
  /\ Finish(p)
  /\ UNCHANGED <<auth, engines, reconnect, stuckUsed, pendingInit, estate, wiping, lost,
                 requests, leaked>>

-----------------------------------------------------------------------------
(* executeReconnect() *)

\* The back-off is seconds long: only a stalled database is still busy when it ends.
DbQuiet ==
  /\ writes = <<>> /\ lost = {}
  /\ \A p \in Procs : pc[p] \notin {"start_row", "verb_row", "post_row", "purge_id", "purge_name"}

\* The timer fires.  A stop mark ends it; otherwise the old engine is closed, the
\* fence awaited, and a new engine created.
TimerFires(p, i) ==
  /\ pc[p] = "idle"
  /\ Armed(i)
  /\ DbFaults \/ DbQuiet
  /\ reconnect' = [reconnect EXCEPT ![i].armed = FALSE]
  /\ \/ i \in stopping /\ UNCHANGED <<engines, estate, pendingInit, wiping, writes, procVars>>
     \/ /\ i \notin stopping
        /\ op' = [op EXCEPT ![p] = "reconnect"]
        /\ sid' = [sid EXCEPT ![p] = i]
        /\ \/ /\ engines[i] # None
              /\ eng' = [eng EXCEPT ![p] = engines[i]]
              /\ Goto(p, "reconnect_kill")
              /\ writes' \in TeardownWrites(i, engines[i], FALSE, writes)
              /\ UNCHANGED <<engines, estate, pendingInit, wiping>>
           \/ /\ engines[i] = None /\ ~FenceOpen(NameOf[i])
              /\ Await(p, NameOf[i])
              /\ Goto(p, "reconnect_fence")
              /\ UNCHANGED <<eng, engines, estate, pendingInit, writes>>
           \/ /\ engines[i] = None /\ FenceOpen(NameOf[i])
              /\ \E e \in Engines : InitializeEngine(p, i, e, engines, estate)
              /\ UNCHANGED wiping
  /\ UNCHANGED <<row, auth, initializing, stopping, stuckUsed, lost, requests, leaked>>

\* The old engine's destroy (and the SIGKILL after a failed one) is over.
ReconnectKilled(p) ==
  /\ pc[p] = "reconnect_kill"
  /\ Outlives(NameOf[sid[p]], eng[p])
  /\ LET i == sid[p]
         regs == IF engines[i] = eng[p] THEN [engines EXCEPT ![i] = None] ELSE engines
     IN \/ /\ FenceOpen(NameOf[i])
           /\ \E e \in Engines : InitializeEngine(p, i, e, regs, Closed(eng[p]))
           /\ UNCHANGED wiping
        \/ /\ ~FenceOpen(NameOf[i])
           /\ Await(p, NameOf[i])
           /\ engines' = regs /\ estate' = Closed(eng[p])
           /\ Goto(p, "reconnect_fence")
           /\ UNCHANGED <<eng, pendingInit, writes>>
  /\ UNCHANGED <<row, auth, initializing, stopping, reconnect, stuckUsed, lost, op, sid,
                 requests>>

\* The rms settle, or the fence's timeout makes this a failed attempt.
ReconnectFence(p) ==
  /\ pc[p] = "reconnect_fence"
  /\ \/ /\ FencePassed(p)
        /\ \E e \in Engines : InitializeEngine(p, sid[p], e, engines, estate)
        /\ UNCHANGED <<op, sid, initializing, reconnect, wiping>>
     \/ ~FencePassed(p) /\ GiveUp(p) /\ Throw(p, writes) /\ UNCHANGED pendingInit
  /\ UNCHANGED <<row, auth, stopping, stuckUsed, lost, requests, leaked>>

-----------------------------------------------------------------------------
(* Engine callbacks: all but the credential rm are gated on the engine being live. *)

EngineUp(i) == engines[i] # None /\ estate[engines[i]] = "alive"

\* onReady: linked and connected; the attempt budget and the reset budget start over.
EngineReady(i) ==
  /\ EngineUp(i) /\ ~Torn(engines[i])
  /\ Len(writes) < MaxWrites
  /\ reconnect' = [reconnect EXCEPT ![i] =
                     IF @ = None THEN None ELSE [@ EXCEPT !.attempts = 0]]
  /\ stuckUsed' = stuckUsed \ {i}
  /\ writes' = Append(writes, StatusWrite(i, "ready", None))
  /\ auth' = auth \cup {NameOf[i]}
  /\ UNCHANGED <<row, engines, initializing, stopping, pendingInit, estate, wiping, lost,
                 procVars, requests, leaked>>

\* onQRCode, and onStateChanged for the statuses no other callback writes: INITIALIZING
\* (a launch, or a socket the adapter reopens itself), the linking ones, and the
\* DISCONNECTED of an adapter that reports its loss or its teardown late.
EngineState(i) ==
  /\ EngineUp(i)
  /\ Len(writes) < MaxWrites
  /\ \E s \in {"initializing", "linking", "disconnected"} :
       /\ s # "disconnected" => ~Torn(engines[i])
       /\ writes' = Append(writes, StatusWrite(i, s, None))
  /\ UNCHANGED <<row, auth, engines, initializing, stopping, reconnect, stuckUsed,
                 pendingInit, estate, wiping, lost, procVars, requests, leaked>>

\* The engine reports its disconnect (it never speaks again), or two watchdog probes
\* failed on one that said nothing: handleEngineDisconnected starts its row read.
EngineLost(i) ==
  /\ EngineUp(i)
  /\ <<i, engines[i]>> \notin lost
  /\ \/ StrayReports
     \/ /\ ~Torn(engines[i])
        /\ \A p \in Procs : eng[p] = engines[i] => pc[p] # "init_run"
        /\ \A w \in wiping : w.engine = engines[i] => w.tracked
  /\ lost' = lost \cup {<<i, engines[i]>>}
  /\ \/ /\ Len(writes) < MaxWrites
        /\ estate' = [estate EXCEPT ![engines[i]] = "down"]
        /\ writes' = Append(writes, StatusWrite(i, "disconnected", None))
     \/ UNCHANGED <<estate, writes>>
  /\ UNCHANGED <<row, auth, engines, initializing, stopping, reconnect, stuckUsed,
                 pendingInit, wiping, procVars, requests, leaked>>

\* The row was read: only an engine that is still the live one reconnects.
HandleLost(i, e) ==
  /\ <<i, e>> \in lost
  /\ Len(writes) < MaxWrites
  /\ lost' = lost \ {<<i, e>>}
  /\ \/ /\ Exists(i) /\ Live(i, e)
        /\ ScheduleReconnect(i, engines, estate,
                             Append(writes, StatusWrite(i, "disconnected", None)))
     \/ /\ ~(Exists(i) /\ Live(i, e)) \/ DbFaults
        /\ UNCHANGED <<engines, estate, reconnect, writes>>
  /\ UNCHANGED <<row, auth, initializing, stopping, stuckUsed, pendingInit, wiping,
                 procVars, requests, leaked>>

\* The engine reports a terminal failure.
EngineError(i) ==
  /\ EngineUp(i)
  /\ StrayReports \/ ~Torn(engines[i])
  /\ Len(writes) < MaxWrites
  /\ OnError(i)
  /\ UNCHANGED <<row, auth, initializing, stopping, stuckUsed, pendingInit, wiping, lost,
                 procVars, requests, leaked>>

\* The forceDestroy() of an evicted engine settles or hits its deadline.  (Which session
\* it was evicted from is not kept.)
Reap(e) ==
  /\ estate[e] = "dying"
  /\ estate' = Closed(e)
  /\ \E n \in Names : Outlives(n, e)
  /\ UNCHANGED <<row, auth, engines, initializing, stopping, reconnect, stuckUsed,
                 pendingInit, wiping, lost, writes, procVars, requests>>

\* A process that outlived its teardown goes on writing its profile, until the teardown
\* settles late or the next launch under its name sweeps it (killOrphanedChromiumProcesses).
LeftBehind(n) ==
  /\ n \in leaked
  /\ \/ auth' = auth \cup {n} /\ UNCHANGED leaked
     \/ leaked' = leaked \ {n} /\ UNCHANGED auth
  /\ UNCHANGED <<row, engines, initializing, stopping, reconnect, stuckUsed, pendingInit,
                 estate, wiping, lost, writes, procVars, requests>>

\* WhatsApp unlinked the device: the library removes the credentials and the adapter
\* reports it, even when the engine is already being torn down (and, in an event that
\* was queued when the process was killed or that comes from one that outlived its
\* teardown, after it was evicted).
EngineUnlinked(i, e) ==
  /\ Unlinks
  /\ \/ /\ estate[e] = "alive" \/ (StrayReports /\ estate[e] = "dying")
        /\ \/ engines[i] = e
           \/ \E p \in Procs : sid[p] = i /\ eng[p] = e
     \/ StrayReports /\ estate[e] = "gone" /\ NameOf[i] \in leaked
  /\ \A w \in wiping : w.engine # e
  /\ wiping' = wiping \cup {[name |-> NameOf[i], engine |-> e, tracked |-> TRUE,
                               waiters |-> {}]}
  /\ UNCHANGED <<row, auth, engines, initializing, stopping, reconnect, stuckUsed,
                 pendingInit, estate, lost, writes, procVars, requests, leaked>>

\* recoverFromStuckAuth: the session's one reset is claimed and the rm begins; the
\* adapter awaits it itself and reports its disconnect afterwards.
StuckAuth(i) ==
  /\ Unlinks
  /\ EngineUp(i) /\ ~Torn(engines[i])
  /\ \/ StrayReports
     \/ /\ \A p \in Procs : eng[p] = engines[i] => pc[p] # "init_run"
        /\ <<i, engines[i]>> \notin lost /\ ~Armed(i)
  /\ i \notin stuckUsed
  /\ \A w \in wiping : w.engine # engines[i]
  /\ stuckUsed' = stuckUsed \cup {i}
  /\ wiping' = wiping \cup {[name |-> NameOf[i], engine |-> engines[i], tracked |-> FALSE,
                               waiters |-> {}]}
  /\ UNCHANGED <<row, auth, engines, initializing, stopping, reconnect, pendingInit,
                 estate, lost, writes, procVars, requests, leaked>>

\* The rm is over: the credentials are gone, or it failed half-way.  The adapter that
\* awaited it reports its disconnect, and is heard while it is still the live engine.
WipeSettles(w) ==
  /\ w \in wiping
  /\ wiping' = wiping \ {w}
  /\ auth' \in {auth, auth \ {w.name}}
  /\ \/ /\ ~w.tracked
        /\ \E i \in Ids : /\ Live(i, w.engine)
                          /\ lost' = lost \cup {<<i, w.engine>>}
                          /\ writes' = Append(writes, StatusWrite(i, "disconnected", None))
        /\ estate' = [estate EXCEPT ![w.engine] = "down"]
     \/ /\ w.tracked \/ \A i \in Ids : ~Live(i, w.engine)
        /\ UNCHANGED <<estate, lost, writes>>
  /\ UNCHANGED <<row, engines, initializing, stopping, reconnect, stuckUsed, pendingInit,
                 procVars, requests, leaked>>

-----------------------------------------------------------------------------
(* The database *)

\* A status UPDATE nobody awaits settles.
WriteSettles ==
  /\ Settled(None)
  /\ UNCHANGED <<auth, engines, initializing, stopping, reconnect, stuckUsed, pendingInit,
                 estate, wiping, lost, procVars, requests, leaked>>

-----------------------------------------------------------------------------
Step(p) ==
  \/ StartRow(p) \/ StartFence(p) \/ StartHook(p)
  \/ InitWritten(p) \/ InitWriteFails(p) \/ InitRuns(p) \/ InitKilled(p)
  \/ InitKillWritten(p) \/ CatchKilled(p) \/ CatchWritten(p)
  \/ PostRow(p) \/ RetireKilled(p) \/ PurgeCheck(p) \/ Purged(p)
  \/ VerbRow(p) \/ DeleteFence1(p) \/ VerbWaited(p) \/ TornDown(p) \/ DeleteFence2(p)
  \/ DeleteCommits(p) \/ DeletePurged(p) \/ VerbWritten(p)
  \/ ReconnectKilled(p) \/ ReconnectFence(p)

EngineEvent ==
  \/ \E i \in Ids : EngineReady(i) \/ EngineState(i) \/ EngineLost(i) \/ EngineError(i)
                    \/ StuckAuth(i)
  \/ \E i \in Ids, e \in Engines : EngineUnlinked(i, e)

Background ==
  \/ \E l \in lost : HandleLost(l[1], l[2])
  \/ \E e \in Engines : Reap(e)
  \/ \E n \in leaked : LeftBehind(n)
  \/ \E w \in wiping : WipeSettles(w)
  \/ WriteSettles

\* Its promise has settled: p runs on before the event loop takes anything else up.
Woken(p) ==
  \/ pc[p] \in {"start_fence", "delete_fence1", "delete_fence2", "reconnect_fence"} /\ FencePassed(p)
  \/ pc[p] = "verb_wait" /\ \A q \in Procs : pc[q] = "init_write" => eng[q] # eng[p]

Next ==
  \/ \E p \in Procs : Woken(p) /\ Step(p)
  \/ /\ \A p \in Procs : ~Woken(p)
     /\ \/ \E i \in Ids : Create(i)
        \/ \E p \in Procs, v \in Verbs, i \in Ids : Request(p, v, i)
        \/ \E p \in Procs, i \in Ids : TimerFires(p, i)
        \/ \E p \in Procs : Step(p)
        \/ EngineEvent
        \/ Background

Spec == Init /\ [][Next]_vars

(* Promises settle, bounded waits end and timers fire; clients and engines owe nothing. *)
Fairness ==
  /\ \A p \in Procs : WF_vars(Step(p))
  /\ WF_vars(\E l \in lost : HandleLost(l[1], l[2]))
  /\ WF_vars(WriteSettles)
  /\ WF_vars(\E e \in Engines : Reap(e))
  /\ \A i \in Ids : WF_vars(\E p \in Procs : TimerFires(p, i))

FairSpec == Spec /\ Fairness

-----------------------------------------------------------------------------
(* Properties *)

Writes == [id : Ids, status : Statuses, by : Procs \cup {None}]

\* Every variable keeps the shape of the field it stands for.
TypeOK ==
  /\ row \in [Ids -> Statuses \cup NoRow]
  /\ auth \subseteq Names
  /\ engines \in [Ids -> Engines \cup {None}]
  /\ initializing \subseteq Ids
  /\ stopping \subseteq Ids
  /\ reconnect \in [Ids -> [attempts : Nat, armed : BOOLEAN] \cup {None}]
  /\ stuckUsed \subseteq Ids
  /\ pendingInit \in [Ids -> Procs \cup {None}]
  /\ estate \in [Engines -> EngineStates]
  /\ wiping \subseteq [name : Names, engine : Engines, tracked : BOOLEAN,
                  waiters : SUBSET Procs]
  /\ lost \subseteq Ids \X Engines
  /\ writes \in Seq(Writes)
  /\ pc \in [Procs -> Locations]
  /\ op \in [Procs -> {"none", "start", "stop", "logout", "forceKill", "delete", "reconnect"}]
  /\ sid \in [Procs -> Ids \cup {None}]
  /\ eng \in [Procs -> Engines \cup {None}]
  /\ requests \in Nat
  /\ leaked \subseteq Names

Starting == {p \in Procs : op[p] = "start"}

\* The reservation start() takes at entry and drops in its finally: however starts end
\* (refused, 409, thrown, retired, done), an id is reserved exactly while one start of
\* it is in flight, and never two.  A leaked reservation wedges the session at
\* "already starting"; a lost one lets a second engine be launched.
StartReservation ==
  /\ initializing = {sid[p] : p \in Starting}
  /\ \A p, q \in Starting : sid[p] = sid[q] => p = q

Owned(e) ==
  \/ \E i \in Ids : engines[i] = e
  \/ Torn(e)

\* While the budget lasts, a reconnect attempt whose initialize() failed is followed by
\* another: a session that nobody stopped keeps trying.
RetryFollowsFailure ==
  [][\A p \in Procs, i \in Ids :
       /\ op[p] = "reconnect" /\ sid[p] = i
       /\ pc[p] = "init_run" /\ pc'[p] = "idle"
       /\ MaxAttempts = None /\ reconnect[i] # None
       => Armed(i)']_vars

\* No browser or socket is left running that neither the registry nor a teardown in
\* flight can reach: every later stop, kill or delete would miss it.  One that its own
\* bounded teardown failed to end is the exception: the code lets it go (leaked), and this
\* says that nothing is let go before that teardown was tried.
NoOrphanEngine == \A e \in Held : Owned(e)

\* start()'s catch kills the engine in the registry on the ground that it is the one
\* this start created.
StartCatchOwnsEngine ==
  [][\A p \in Procs : pc[p] # "catch_kill" /\ pc'[p] = "catch_kill" => eng'[p] = eng[p]]_vars

Busy(i) == \E p \in Procs : sid[p] = i
Quiet ==
  /\ \A p \in Procs : pc[p] = "idle"
  /\ writes = <<>> /\ lost = {} /\ wiping = {}
  /\ \A i \in Ids : ~Armed(i)

\* When nothing is in flight, a session that was stopped, logged out or killed and not
\* started since (its stop mark stands) does not read INITIALIZING: the retiring verb
\* was the last to write the row.
StopIsFinal == Quiet => \A i \in stopping : engines[i] = None => row[i] # "initializing"

\* When nothing is in flight, a deleted session has no engine: nobody could stop it.
DeletedMeansGone == Quiet => \A i \in Ids : row[i] = "deleted" => engines[i] = None

\* When nothing is in flight, a row that reads INITIALIZING, linking or READY has an
\* engine behind it.
NoStaleStatus ==
  Quiet => \A i \in Ids : row[i] \in {"initializing", "linking", "ready"} => engines[i] # None

\* An engine that reported its disconnect is being dealt with: its handler runs, a
\* reconnect is armed, or a verb works on the session.  Otherwise it holds its slot
\* and answers nothing until an operator notices.
NoStrandedEngine ==
  \A i \in Ids :
    engines[i] # None /\ estate[engines[i]] = "down" =>
      \/ \E e \in Engines : <<i, e>> \in lost
      \/ Armed(i)
      \/ Busy(i)

\* When nothing is in flight, credentials on disk belong to a row: a
\* later session of that name must not silently re-link the account.
NoCredentialsWithoutRow ==
  Quiet => \A n \in auth : \E i \in Ids : NameOf[i] = n /\ Exists(i)

\* When nothing is in flight, a session whose stop mark stands has no engine: whatever
\* was creating one when the verb ran has retired it.
NoResurrection == Quiet => \A i \in stopping : engines[i] = None

Launched(i, e) == estate[e] = "created" /\ estate'[e] = "alive" /\ engines[i] = e

\* An engine is launched only over a directory nobody the lifecycle knows of is removing:
\* the rm would take the fresh credentials with the old ones.
LaunchBehindFence ==
  [][\A i \in Ids, e \in Engines : Launched(i, e) =>
       \A w \in wiping : w.name = NameOf[i] => ~w.tracked]_vars

\* The same over every rm an adapter runs: each is announced the instant it begins.
LaunchOverNoRm ==
  [][\A i \in Ids, e \in Engines : Launched(i, e) =>
       \A w \in wiping : w.name # NameOf[i]]_vars

\* A purge of a deleted session's directories removes none that a live engine of the
\* same name is using.
PurgeIsSafe ==
  [][\A p \in Procs :
       pc[p] \in {"delete_purge", "purge_rm"} /\ pc'[p] = "idle" =>
         \A i \in Ids : Exists(i) /\ NameOf[i] = NameOf[sid[p]] /\ engines[i] # None
                         => estate[engines[i]] # "alive"]_vars

\* The cap counts every session running or starting.
Admitted == {i \in Ids : engines[i] # None \/ \E p \in Starting :
               sid[p] = i /\ pc[p] \notin {"start_row"}}
CapRespected == MaxConcurrent > 0 => Cardinality(Admitted) <= MaxConcurrent

\* Every verb returns: no fence, hook, teardown or write waits for ever.
VerbsFinish == \A p \in Procs : pc[p] # "idle" ~> pc[p] = "idle"

\* A session whose engine reported its disconnect does not stay on that engine: it is
\* reconnected, stopped or given up on.
LostIsHandled ==
  \A i \in Ids, e \in Engines :
    engines[i] = e /\ estate[e] = "down" ~> engines[i] # e \/ estate[e] # "down"
=============================================================================
