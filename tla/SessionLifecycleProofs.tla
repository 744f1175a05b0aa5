------------------------ MODULE SessionLifecycleProofs ------------------------
(***************************************************************************)
(* What is proved of the session lifecycle, for every number of sessions,   *)
(* names, engines and handlers and every cap:                                *)
(*  - types and the reservation start() takes, with no other hypothesis;     *)
(*  - with no reconnects (MaxAttempts = 0): no engine out of reach, the      *)
(*    catch of a start kills its own engine, the cap on sessions;            *)
(*  - with engines, names and the database well behaved besides: the fence   *)
(*    before a launch;                                                       *)
(*  - with verbs that keep the row: the status of a session nobody runs;     *)
(*  - with clients that wait for one verb before they send the next: with    *)
(*    any budget of reconnects, no engine stranded and none that comes back  *)
(*    after a stop or a delete; with no reconnects, no credentials without a *)
(*    row.                                                                   *)
(***************************************************************************)
EXTENDS SessionLifecycle, SequenceTheorems, FiniteSetTheorems, TLAPS

RowsOK ==
  /\ row \in [Ids -> Statuses \cup NoRow]
  /\ auth \subseteq Names
  /\ stopping \subseteq Ids
  /\ stuckUsed \subseteq Ids
  /\ requests \in Nat
  /\ leaked \subseteq Names
EnginesOK ==
  /\ engines \in [Ids -> Engines \cup {None}]
  /\ estate \in [Engines -> EngineStates]
  /\ pendingInit \in [Ids -> Procs \cup {None}]
ReconnectOK == reconnect \in [Ids -> [attempts : Nat, armed : BOOLEAN] \cup {None}]
WipingOK ==
  wiping \subseteq [name : Names, engine : Engines, tracked : BOOLEAN, waiters : SUBSET Procs]
LostOK == lost \subseteq Ids \X Engines
WritesOK == writes \in Seq(Writes)
Ops == {"none", "start", "stop", "logout", "forceKill", "delete", "reconnect"}

\* Where a handler holds an engine object it is going to use.
HoldsEngine ==
  {"init_write", "init_run", "init_kill", "init_kill_write", "catch_kill",
   "retire_kill", "verb_wait", "teardown", "reconnect_kill"}

\* A handler that is not idle has a verb and a session, and an engine where it uses one.
Handlers ==
  \A p \in Procs :
    /\ pc[p] = "idle" <=> op[p] = "none"
    /\ pc[p] # "idle" => sid[p] \in Ids
    /\ pc[p] \in HoldsEngine => eng[p] \in Engines

ProcsOK ==
  /\ pc \in [Procs -> Locations]
  /\ op \in [Procs -> Ops]
  /\ sid \in [Procs -> Ids \cup {None}]
  /\ eng \in [Procs -> Engines \cup {None}]
  /\ initializing \subseteq Ids
  /\ Handlers

\* The inductive invariant: types, and what a handler in flight carries.
IInv == RowsOK /\ EnginesOK /\ ReconnectOK /\ WipingOK /\ LostOK /\ WritesOK /\ ProcsOK

-----------------------------------------------------------------------------
\* The inductive invariant holds the type invariant.
LEMMA IInvTypes == IInv => TypeOK
  BY DEF IInv, TypeOK, RowsOK, EnginesOK, ReconnectOK, WipingOK, LostOK, WritesOK, ProcsOK, Ops

\* It holds of a process that has just booted.
LEMMA InitInv == ASSUME Init PROVE IInv
  BY ConstantsAssumption DEF Init, IInv, RowsOK, EnginesOK, ReconnectOK, WipingOK, LostOK,
     WritesOK, ProcsOK, Handlers, HoldsEngine, Ops, Statuses, NoRow, EngineStates, Locations

\* A handler that ends leaves a well-formed set of handlers (the finally of start()).
LEMMA FinishProcs ==
  ASSUME IInv, NEW p \in Procs, Finish(p)
  PROVE  ProcsOK'
  BY ConstantsAssumption DEF IInv, ProcsOK, Handlers, HoldsEngine, Finish, Ops, Locations

\* So does one that moves to its next await with what that await needs.
LEMMA GotoProcs ==
  ASSUME IInv, NEW p \in Procs, NEW l \in Locations \ {"idle"}, Goto(p, l), pc[p] # "idle",
         l \in HoldsEngine => eng[p] \in Engines,
         UNCHANGED <<op, sid, eng, initializing>>
  PROVE  ProcsOK'
  BY DEF IInv, ProcsOK, Handlers, HoldsEngine, Goto, Ops, Locations

\* Joining the waiters of the credential fence keeps the rms well formed.
LEMMA AwaitWiping ==
  ASSUME WipingOK, NEW p \in Procs, NEW n, Await(p, n)
  PROVE  WipingOK'
  BY DEF WipingOK, Await

\* So does leaving them when the fence times out.
LEMMA GiveUpWiping ==
  ASSUME WipingOK, NEW p \in Procs, GiveUp(p)
  PROVE  WipingOK'
  BY DEF WipingOK, GiveUp

\* A settled write leaves a sequence of writes.
LEMMA WithoutType ==
  ASSUME NEW S, NEW s \in Seq(S), NEW k \in 1..Len(s)
  PROVE  Without(s, k) \in Seq(S)
  <1>1. SubSeq(s, 1, k - 1) \in Seq(S)
    BY SubSeqProperties
  <1>2. SubSeq(s, k + 1, Len(s)) \in Seq(S)
    BY SubSeqProperties
  <1> QED  BY <1>1, <1>2, ConcatProperties DEF Without

\* SessionService.create() keeps the invariant.
LEMMA CreateInv ==
  ASSUME IInv, NEW i \in Ids, Create(i)
  PROVE  IInv'
  BY DEF Create, IInv, RowsOK, EnginesOK, ReconnectOK, WipingOK, LostOK, WritesOK, ProcsOK,
     Handlers, procVars, Statuses

\* A new verb carries its name and its session from its first await on.
LEMMA RequestInv ==
  ASSUME IInv, NEW p \in Procs, NEW v \in Verbs, NEW i \in Ids, Request(p, v, i)
  PROVE  IInv'
  <1>1. ProcsOK'
    BY ConstantsAssumption DEF Request, IInv, ProcsOK, Handlers, HoldsEngine, Ops, Locations
  <1> QED
    BY <1>1 DEF Request, IInv, RowsOK, EnginesOK, ReconnectOK, WipingOK, LostOK, WritesOK

\* A status UPDATE lands as a status of an existing row.
LEMMA SettledTypes ==
  ASSUME IInv, NEW p, NEW k \in 1..Len(writes), Lands(p, k)
  PROVE  /\ row' \in [Ids -> Statuses \cup NoRow]
         /\ Without(writes, k) \in Seq(Writes)
  <1>1. writes[k] \in Writes
    BY DEF IInv, WritesOK
  <1>2. Without(writes, k) \in Seq(Writes)
    BY WithoutType DEF IInv, WritesOK
  <1> QED
    BY <1>1, <1>2 DEF Lands, IInv, RowsOK, Writes

\* An UPDATE that is sent is a well-formed write.
LEMMA AppendType ==
  ASSUME NEW ws \in Seq(Writes), NEW i \in Ids, NEW s \in Statuses, NEW p \in Procs \cup {None}
  PROVE  Append(ws, StatusWrite(i, s, p)) \in Seq(Writes)
  <1>1. StatusWrite(i, s, p) \in Writes
    BY DEF StatusWrite, Writes
  <1> QED
    BY <1>1, AppendProperties

\* What an adapter says while it is torn down is a well-formed write or nothing.
LEMMA TeardownWritesType ==
  ASSUME NEW ws \in Seq(Writes), NEW i \in Ids, NEW e, NEW slow
  PROVE  TeardownWrites(i, e, slow, ws) \subseteq Seq(Writes)
  <1>1. Append(ws, StatusWrite(i, "disconnected", None)) \in Seq(Writes)
    BY AppendType DEF Statuses
  <1> QED
    BY <1>1 DEF TeardownWrites

\* A start() past its fence goes on to its hook.
LEMMA AdmitStartInv ==
  ASSUME IInv, NEW p \in Procs, pc[p] \in {"start_row", "start_fence"}, AdmitStart(p)
  PROVE  ProcsOK' /\ ReconnectOK' /\ stopping' \subseteq Ids
  <1>1. ProcsOK'
    BY GotoProcs DEF AdmitStart, Locations, HoldsEngine
  <1> QED
    BY <1>1 DEF AdmitStart, CancelReconnect, IInv, ReconnectOK, RowsOK

\* The row read, the cap and the fence at the head of start().
LEMMA StartRowInv ==
  ASSUME IInv, NEW p \in Procs, StartRow(p)
  PROVE  IInv'
  <1>1. ProcsOK'
    BY FinishProcs, AdmitStartInv, GotoProcs DEF StartRow, Locations, HoldsEngine
  <1>2. ReconnectOK' /\ stopping' \subseteq Ids
    BY AdmitStartInv DEF StartRow, IInv, ReconnectOK, RowsOK
  <1>3. WipingOK'
    BY AwaitWiping DEF StartRow, IInv, WipingOK
  <1> QED
    BY <1>1, <1>2, <1>3 DEF StartRow, IInv, RowsOK, EnginesOK, LostOK, WritesOK

\* start()'s wait for the fence.
LEMMA StartFenceInv ==
  ASSUME IInv, NEW p \in Procs, StartFence(p)
  PROVE  IInv'
  <1>1. ProcsOK'
    BY FinishProcs, AdmitStartInv DEF StartFence
  <1>2. ReconnectOK' /\ stopping' \subseteq Ids
    BY AdmitStartInv DEF StartFence, IInv, ReconnectOK, RowsOK
  <1>3. WipingOK'
    BY GiveUpWiping DEF StartFence, IInv, WipingOK
  <1> QED
    BY <1>1, <1>2, <1>3 DEF StartFence, IInv, RowsOK, EnginesOK, LostOK, WritesOK

\* initializeEngine() up to its await.
LEMMA InitializeEngineInv ==
  ASSUME IInv, NEW p \in Procs, NEW i \in Ids, NEW e \in Engines,
         NEW regs \in [Ids -> Engines \cup {None}], NEW sts \in [Engines -> EngineStates],
         InitializeEngine(p, i, e, regs, sts)
  PROVE  /\ EnginesOK' /\ WritesOK'
         /\ eng' = [eng EXCEPT ![p] = e] /\ pc' = [pc EXCEPT ![p] = "init_write"]
  BY AppendType DEF InitializeEngine, Goto, IInv, EnginesOK, WritesOK, EngineStates, Statuses

\* start() comes back from its hook and creates the engine.
LEMMA StartHookInv ==
  ASSUME IInv, NEW p \in Procs, StartHook(p)
  PROVE  IInv'
  <1>1. sid[p] \in Ids
    BY DEF StartHook, IInv, ProcsOK, Handlers
  <1>2. PICK e \in Engines : InitializeEngine(p, sid[p], e, engines, estate)
    BY DEF StartHook
  <1>3. /\ EnginesOK' /\ WritesOK'
        /\ eng' = [eng EXCEPT ![p] = e] /\ pc' = [pc EXCEPT ![p] = "init_write"]
    BY <1>1, <1>2, InitializeEngineInv DEF IInv, EnginesOK
  <1>4. ProcsOK'
    BY <1>3 DEF StartHook, IInv, ProcsOK, Handlers, HoldsEngine, Locations
  <1>5. ReconnectOK'
    BY <1>1 DEF StartHook, IInv, ReconnectOK, FreshReconnect
  <1> QED
    BY <1>3, <1>4, <1>5 DEF StartHook, IInv, RowsOK, WipingOK, LostOK

\* scheduleReconnect(), over what its caller leaves behind.
LEMMA ScheduleReconnectInv ==
  ASSUME IInv, NEW i \in Ids, NEW regs \in [Ids -> Engines \cup {None}],
         NEW sts \in [Engines -> EngineStates], NEW ws \in Seq(Writes),
         ScheduleReconnect(i, regs, sts, ws)
  PROVE  /\ engines' \in [Ids -> Engines \cup {None}]
         /\ estate' \in [Engines -> EngineStates]
         /\ ReconnectOK' /\ WritesOK'
  <1>1. Append(ws, StatusWrite(i, "failed", None)) \in Seq(Writes)
    BY AppendType DEF Statuses
  <1>2. Reaping(sts, regs[i]) \in [Engines -> EngineStates]
    BY DEF Reaping, EngineStates
  <1>3. reconnect[i] # None => reconnect[i].attempts \in Nat
    BY DEF IInv, ReconnectOK
  <1>4. WritesOK'
    BY <1>1 DEF ScheduleReconnect, WritesOK
  <1>5. \/ reconnect' = reconnect
        \/ reconnect' = [reconnect EXCEPT ![i] = None]
        \/ \E n \in Nat : reconnect' = [reconnect EXCEPT ![i] = [attempts |-> n, armed |-> TRUE]]
    <2>1. \A n \in {reconnect[i].attempts, 0} :
            reconnect[i] # None => (IF MaxAttempts = None THEN 0 ELSE n + 1) \in Nat
      BY <1>3
    <2> QED
      BY <2>1 DEF ScheduleReconnect, CancelReconnect
  <1>6. ReconnectOK'
    <2> DEFINE States == [attempts : Nat, armed : BOOLEAN] \cup {None}
    <2>1. \A n \in Nat : [attempts |-> n, armed |-> TRUE] \in States
      OBVIOUS
    <2>2. reconnect \in [Ids -> States] /\ None \in States
      BY DEF IInv, ReconnectOK
    <2> HIDE DEF States
    <2>3. reconnect' \in [Ids -> States]
      BY <1>5, <2>1, <2>2
    <2> QED
      BY <2>3 DEF States, ReconnectOK
  <1> QED
    BY <1>2, <1>4, <1>6 DEF ScheduleReconnect

\* initializeEngine() threw into start() or executeReconnect().
LEMMA ThrowInv ==
  ASSUME IInv, NEW p \in Procs, pc[p] # "idle", NEW ws \in Seq(Writes), Throw(p, ws)
  PROVE  /\ engines' \in [Ids -> Engines \cup {None}]
         /\ estate' \in [Engines -> EngineStates]
         /\ ReconnectOK' /\ WritesOK' /\ ProcsOK'
  <1> DEFINE i == sid[p]
  <1>0. i \in Ids
    BY DEF IInv, ProcsOK, Handlers
  <1>1. CASE op[p] = "start" /\ engines[i] # None
    <2>1. engines[i] \in Engines
      BY <1>0, <1>1 DEF IInv, EnginesOK
    <2>2. ProcsOK'
      BY <1>1, <2>1, <1>0 DEF Throw, Goto, IInv, ProcsOK, Handlers, HoldsEngine, Locations
    <2> QED
      BY <1>1, <2>2 DEF Throw, IInv, EnginesOK, ReconnectOK, WritesOK
  <1>2. CASE op[p] = "start" /\ engines[i] = None
    <2>1. ProcsOK'
      BY <1>2, FinishProcs DEF Throw
    <2> QED
      BY <1>2, <2>1 DEF Throw, CancelReconnect, IInv, EnginesOK, ReconnectOK, WritesOK
  <1>3. CASE op[p] = "reconnect"
    <2>1. ProcsOK'
      BY <1>3, FinishProcs DEF Throw
    <2>2. Reaping(estate, engines[i]) \in [Engines -> EngineStates]
      BY DEF Reaping, IInv, EnginesOK, EngineStates
    <2>3. [engines EXCEPT ![i] = None] \in [Ids -> Engines \cup {None}]
      BY DEF IInv, EnginesOK
    <2>4. ScheduleReconnect(i, [engines EXCEPT ![i] = None], Reaping(estate, engines[i]), ws)
      BY <1>3 DEF Throw
    <2> HIDE DEF i
    <2> QED
      BY <1>0, <2>1, <2>2, <2>3, <2>4, ScheduleReconnectInv
  <1> QED
    BY <1>1, <1>2, <1>3 DEF Throw

\* onError of the live engine: FAILED, evicted, forgotten.
LEMMA OnErrorInv ==
  ASSUME IInv, NEW i \in Ids, OnError(i)
  PROVE  /\ engines' \in [Ids -> Engines \cup {None}]
         /\ estate' \in [Engines -> EngineStates]
         /\ ReconnectOK' /\ WritesOK'
  <1>1. WritesOK'
    BY AppendType DEF OnError, IInv, WritesOK, Statuses
  <1> QED
    BY <1>1 DEF OnError, CancelReconnect, Reaping, IInv, EnginesOK, ReconnectOK, EngineStates

\* The pending INITIALIZING write is forgotten by its own handler only.
LEMMA UntrackType ==
  ASSUME IInv, NEW p, Untrack(p)
  PROVE  pendingInit' \in [Ids -> Procs \cup {None}]
  BY DEF Untrack, IInv, EnginesOK

\* initializeEngine() returned: its caller retires the engine, purges, or reads the row.
LEMMA InitReturnsInv ==
  ASSUME IInv, NEW p \in Procs, pc[p] # "idle",
         NEW locs \in [Procs -> Locations],
         \A q \in Procs : locs[q] = pc[q] \/ (locs[q] = "teardown" /\ pc[q] = "verb_wait"),
         NEW ws \in Seq(Writes), InitReturns(p, locs, ws),
         UNCHANGED <<op, sid, initializing>>
  PROVE  ProcsOK' /\ WritesOK'
  <1> DEFINE i == sid[p]
  <1>1. i \in Ids
    BY DEF IInv, ProcsOK, Handlers
  <1>2. WritesOK'
    BY <1>1, TeardownWritesType DEF InitReturns, WritesOK
  <1>3. engines[i] \in Engines \cup {None}
    BY <1>1 DEF IInv, EnginesOK
  <1>4. \/ \E e \in Engines : eng' = [eng EXCEPT ![p] = e] /\ pc' = [locs EXCEPT ![p] = "retire_kill"]
        \/ eng' = eng /\ pc' \in {[locs EXCEPT ![p] = "purge_id"], [locs EXCEPT ![p] = "post_row"]}
    BY <1>3 DEF InitReturns
  <1>5. ProcsOK'
    BY <1>1, <1>4 DEF IInv, ProcsOK, Handlers, HoldsEngine, Locations
  <1> QED
    BY <1>2, <1>5

\* The rm a logout announces names a directory and an engine.
LEMMA LogoutRmType ==
  ASSUME NEW p, sid[p] \in Ids, NEW e \in Engines
  PROVE  LogoutRm(p, e) \in
           [name : Names, engine : Engines, tracked : BOOLEAN, waiters : SUBSET Procs]
  BY ConstantsAssumption DEF LogoutRm

\* The INITIALIZING write lands; the verbs that waited for it begin their teardown.
LEMMA InitWrittenInv ==
  ASSUME IInv, NEW p \in Procs, InitWritten(p)
  PROVE  IInv'
  <1> DEFINE i == sid[p]
             e == eng[p]
             waiters == {q \in Procs : pc[q] = "verb_wait" /\ eng[q] = e}
             locs == [q \in Procs |-> IF q \in waiters THEN "teardown" ELSE pc[q]]
  <1>1. i \in Ids /\ e \in Engines /\ pc[p] = "init_write" /\ NameOf[i] \in Names
    BY ConstantsAssumption DEF InitWritten, IInv, ProcsOK, Handlers, HoldsEngine
  <1>2. /\ locs \in [Procs -> Locations]
        /\ \A q \in Procs : locs[q] = pc[q] \/ (locs[q] = "teardown" /\ pc[q] = "verb_wait")
    BY DEF IInv, ProcsOK, Locations
  <1>3. PICK k \in 1..Len(writes) :
          /\ Lands(p, k)
          /\ \/ /\ writes' = Without(writes, k)
                /\ estate' = IF estate[e] = "created" THEN [estate EXCEPT ![e] = "alive"] ELSE estate
                /\ auth' = auth \cup {NameOf[i]}
                /\ pc' = [locs EXCEPT ![p] = "init_run"]
                /\ UNCHANGED eng
             \/ /\ InitReturns(p, locs, Without(writes, k))
                /\ UNCHANGED <<estate, auth>>
    BY DEF InitWritten, Settled
  <1>4. UNCHANGED <<op, sid, initializing>>
    BY DEF InitWritten
  <1>5. ProcsOK' /\ WritesOK'
    <2>1. Without(writes, k) \in Seq(Writes)
      BY <1>3, SettledTypes
    <2>2. CASE InitReturns(p, locs, Without(writes, k))
      <3> HIDE DEF locs
      <3> QED
        BY <1>1, <1>2, <1>4, <2>1, <2>2, InitReturnsInv
    <2>3. CASE pc' = [locs EXCEPT ![p] = "init_run"] /\ UNCHANGED eng
               /\ writes' = Without(writes, k)
      <3>1. WritesOK'
        BY <2>1, <2>3 DEF WritesOK
      <3>2. ProcsOK'
        <4> HIDE DEF locs
        <4> QED
          BY <1>1, <1>2, <1>4, <2>3 DEF IInv, ProcsOK, Handlers, HoldsEngine, Locations
      <3> QED
        BY <3>1, <3>2
    <2> QED
      BY <1>3, <2>2, <2>3
  <1>6. RowsOK'
    BY <1>1, <1>3, SettledTypes DEF InitWritten, IInv, RowsOK
  <1>7. EnginesOK'
    BY <1>1, <1>3, UntrackType DEF InitWritten, IInv, EnginesOK, EngineStates
  <1>8. WipingOK'
    <2>1. \A q \in waiters : LogoutRm(q, e) \in
            [name : Names, engine : Engines, tracked : BOOLEAN, waiters : SUBSET Procs]
      BY <1>1, LogoutRmType DEF IInv, ProcsOK, Handlers
    <2>2. wiping' = wiping \cup {LogoutRm(q, e) : q \in {x \in waiters : op[x] = "logout"}}
      BY DEF InitWritten
    <2> HIDE DEF waiters
    <2> QED
      BY <2>1, <2>2 DEF IInv, WipingOK
  <1> QED
    BY <1>5, <1>6, <1>7, <1>8 DEF InitWritten, IInv, ReconnectOK, LostOK

\* The INITIALIZING write fails and initializeEngine() throws.
LEMMA InitWriteFailsInv ==
  ASSUME IInv, NEW p \in Procs, InitWriteFails(p)
  PROVE  IInv'
  <1>1. PICK k \in 1..Len(writes) : Throw(p, Without(writes, k))
    BY DEF InitWriteFails
  <1>2. Without(writes, k) \in Seq(Writes)
    BY WithoutType DEF IInv, WritesOK
  <1>3. /\ engines' \in [Ids -> Engines \cup {None}]
        /\ estate' \in [Engines -> EngineStates]
        /\ ReconnectOK' /\ WritesOK' /\ ProcsOK'
    BY <1>1, <1>2, ThrowInv DEF InitWriteFails
  <1> QED
    BY <1>3, UntrackType DEF InitWriteFails, IInv, RowsOK, EnginesOK, WipingOK, LostOK

\* engine.initialize() settles or its deadline passes.
LEMMA InitRunsInv ==
  ASSUME IInv, NEW p \in Procs, InitRuns(p)
  PROVE  IInv'
  <1> DEFINE i == sid[p]
  <1>1. i \in Ids /\ pc[p] = "init_run"
    BY DEF InitRuns, IInv, ProcsOK, Handlers
  <1>2. /\ engines' \in [Ids -> Engines \cup {None}]
        /\ estate' \in [Engines -> EngineStates]
        /\ ReconnectOK' /\ WritesOK' /\ ProcsOK'
    <2>1. CASE InitReturns(p, pc, writes) /\ UNCHANGED <<engines, initializing, estate, reconnect, op, sid>>
      <3>1. ProcsOK' /\ WritesOK'
        BY <1>1, <2>1, InitReturnsInv DEF IInv, ProcsOK, WritesOK
      <3> QED
        BY <2>1, <3>1 DEF IInv, EnginesOK, ReconnectOK
    <2>2. CASE OnError(i) /\ Finish(p)
      BY <1>1, <2>2, OnErrorInv, FinishProcs
    <2>3. CASE Throw(p, writes)
      BY <1>1, <2>3, ThrowInv DEF IInv, WritesOK
    <2>4. CASE /\ engines' = [engines EXCEPT ![i] = None]
               /\ Goto(p, "init_kill")
               /\ UNCHANGED <<initializing, estate, reconnect, writes, op, sid, eng>>
      <3>1. eng[p] \in Engines
        BY <1>1 DEF IInv, ProcsOK, Handlers, HoldsEngine
      <3>2. ProcsOK'
        BY <1>1, <2>4, <3>1, GotoProcs DEF Locations
      <3> QED
        BY <2>4, <3>2 DEF IInv, EnginesOK, ReconnectOK, WritesOK
    <2> QED
      BY <2>1, <2>2, <2>3, <2>4 DEF InitRuns, InitRejects
  <1> QED
    BY <1>2 DEF InitRuns, IInv, RowsOK, EnginesOK, WipingOK, LostOK

\* A process that outlives its teardown is one of a session's name.
LEMMA OutlivesType ==
  ASSUME RowsOK, NEW n \in Names, NEW e, Outlives(n, e)
  PROVE  leaked' \subseteq Names
  BY DEF Outlives, RowsOK

\* The engine whose deadline passed is closed.
LEMMA InitKilledInv ==
  ASSUME IInv, NEW p \in Procs, InitKilled(p)
  PROVE  IInv'
  <1>1. pc[p] = "init_kill" /\ sid[p] \in Ids /\ eng[p] \in Engines
    BY DEF InitKilled, IInv, ProcsOK, Handlers, HoldsEngine
  <1>2. ProcsOK'
    BY <1>1, GotoProcs DEF InitKilled, Locations
  <1>3. WritesOK'
    BY <1>1, AppendType DEF InitKilled, IInv, WritesOK, Statuses
  <1>4. EnginesOK'
    BY <1>1 DEF InitKilled, Closed, IInv, EnginesOK, EngineStates
  <1>5. leaked' \subseteq Names
    BY <1>1, OutlivesType, ConstantsAssumption DEF InitKilled, IInv
  <1> QED
    BY <1>2, <1>3, <1>4, <1>5 DEF InitKilled, IInv, RowsOK, ReconnectOK, WipingOK, LostOK

\* DISCONNECTED is recorded for it and initializeEngine() throws.
LEMMA InitKillWrittenInv ==
  ASSUME IInv, NEW p \in Procs, InitKillWritten(p)
  PROVE  IInv'
  <1>1. PICK k \in 1..Len(writes) : Lands(p, k) /\ Throw(p, Without(writes, k))
    BY DEF InitKillWritten
  <1>2. row' \in [Ids -> Statuses \cup NoRow] /\ Without(writes, k) \in Seq(Writes)
    BY <1>1, SettledTypes
  <1>3. /\ engines' \in [Ids -> Engines \cup {None}]
        /\ estate' \in [Engines -> EngineStates]
        /\ ReconnectOK' /\ WritesOK' /\ ProcsOK'
    BY <1>1, <1>2, ThrowInv DEF InitKillWritten
  <1> QED
    BY <1>2, <1>3 DEF InitKillWritten, IInv, RowsOK, EnginesOK, WipingOK, LostOK

\* start()'s catch has closed the engine.
LEMMA CatchKilledInv ==
  ASSUME IInv, NEW p \in Procs, CatchKilled(p)
  PROVE  IInv'
  <1>1. pc[p] = "catch_kill" /\ sid[p] \in Ids /\ eng[p] \in Engines
    BY DEF CatchKilled, IInv, ProcsOK, Handlers, HoldsEngine
  <1>2. ProcsOK'
    BY <1>1, GotoProcs DEF CatchKilled, Locations
  <1>3. WritesOK'
    BY <1>1, AppendType DEF CatchKilled, IInv, WritesOK, Statuses
  <1>4. EnginesOK'
    BY <1>1 DEF CatchKilled, Closed, IInv, EnginesOK, EngineStates
  <1>5. leaked' \subseteq Names
    BY <1>1, OutlivesType, ConstantsAssumption DEF CatchKilled, IInv
  <1> QED
    BY <1>2, <1>3, <1>4, <1>5 DEF CatchKilled, IInv, RowsOK, ReconnectOK, WipingOK, LostOK

\* start()'s catch has recorded FAILED.
LEMMA CatchWrittenInv ==
  ASSUME IInv, NEW p \in Procs, CatchWritten(p)
  PROVE  IInv'
  <1>1. ProcsOK'
    BY FinishProcs DEF CatchWritten
  <1>2. row' \in [Ids -> Statuses \cup NoRow] /\ WritesOK'
    BY SettledTypes DEF CatchWritten, Settled, WritesOK
  <1> QED
    BY <1>1, <1>2 DEF CatchWritten, CancelReconnect, IInv, RowsOK, EnginesOK, ReconnectOK,
       WipingOK, LostOK

\* The guard after a successful initialization reads the row.
LEMMA PostRowInv ==
  ASSUME IInv, NEW p \in Procs, PostRow(p)
  PROVE  IInv'
  <1> DEFINE i == sid[p]
  <1>1. i \in Ids /\ pc[p] = "post_row" /\ engines[i] \in Engines \cup {None}
    BY DEF PostRow, IInv, ProcsOK, EnginesOK, Handlers
  <1>2. WritesOK'
    BY <1>1, TeardownWritesType DEF PostRow, IInv, WritesOK
  <1>3. ProcsOK'
    <2>1. CASE Finish(p)
      BY <2>1, FinishProcs
    <2>2. CASE /\ engines[i] \in Engines
               /\ eng' = [eng EXCEPT ![p] = engines[i]]
               /\ Goto(p, "retire_kill") /\ UNCHANGED <<op, sid, initializing>>
      BY <1>1, <2>2 DEF Goto, IInv, ProcsOK, Handlers, HoldsEngine, Locations
    <2>3. CASE Goto(p, "purge_id") /\ UNCHANGED <<op, sid, eng, initializing>>
      BY <1>1, <2>3, GotoProcs DEF Locations, HoldsEngine
    <2> QED
      BY <1>1, <2>1, <2>2, <2>3 DEF PostRow
  <1> QED
    BY <1>2, <1>3 DEF PostRow, IInv, RowsOK, EnginesOK, ReconnectOK, WipingOK, LostOK

\* The guard has closed the engine of a retired session.
LEMMA RetireKilledInv ==
  ASSUME IInv, NEW p \in Procs, RetireKilled(p)
  PROVE  IInv'
  <1>1. pc[p] = "retire_kill" /\ sid[p] \in Ids /\ eng[p] \in Engines
    BY DEF RetireKilled, IInv, ProcsOK, Handlers, HoldsEngine
  <1>2. ProcsOK'
    BY <1>1, GotoProcs DEF RetireKilled, Locations, HoldsEngine
  <1>3. EnginesOK'
    BY <1>1 DEF RetireKilled, Closed, DeleteIfLive, IInv, EnginesOK, EngineStates
  <1>4. leaked' \subseteq Names
    BY <1>1, OutlivesType, ConstantsAssumption DEF RetireKilled, IInv
  <1> QED
    BY <1>2, <1>3, <1>4 DEF RetireKilled, IInv, RowsOK, ReconnectOK, WipingOK, LostOK, WritesOK

\* purgeAuthDirsIfDeleted() looks for the id and for the name.
LEMMA PurgeCheckInv ==
  ASSUME IInv, NEW p \in Procs, PurgeCheck(p)
  PROVE  IInv'
  <1>1. ProcsOK'
    BY FinishProcs, GotoProcs DEF PurgeCheck, Locations, HoldsEngine
  <1> QED
    BY <1>1 DEF PurgeCheck, IInv, RowsOK, EnginesOK, ReconnectOK, WipingOK, LostOK, WritesOK

\* Its purge is done.
LEMMA PurgedInv ==
  ASSUME IInv, NEW p \in Procs, Purged(p)
  PROVE  IInv'
  <1>1. ProcsOK'
    BY FinishProcs DEF Purged
  <1> QED
    BY <1>1 DEF Purged, PurgeSessionData, IInv, RowsOK, EnginesOK, ReconnectOK, WipingOK,
       LostOK, WritesOK

-----------------------------------------------------------------------------
(* stop(), logout(), forceKill() and delete() *)

\* A verb's teardown begins.
LEMMA BeginTeardownInv ==
  ASSUME IInv, NEW p \in Procs, sid[p] \in Ids, NEW e \in Engines, BeginTeardown(p, e)
  PROVE  WipingOK' /\ Goto(p, "teardown")
  BY LogoutRmType DEF BeginTeardown, IInv, WipingOK

\* delete() comes to its second fence.
LEMMA ToDeleteFence2Inv ==
  ASSUME IInv, NEW p \in Procs, ToDeleteFence2(p)
  PROVE  WipingOK' /\ (Goto(p, "delete_hook") \/ Goto(p, "delete_fence2"))
  BY AwaitWiping DEF ToDeleteFence2, IInv, WipingOK

\* A verb marks the session, cancels its reconnect and captures its engine.
LEMMA RetireInv ==
  ASSUME IInv, NEW p \in Procs, pc[p] # "idle", Retire(p)
  PROVE  /\ stopping' \subseteq Ids
         /\ ReconnectOK' /\ WipingOK' /\ WritesOK' /\ ProcsOK'
  <1> DEFINE i == sid[p]
             e == engines[i]
  <1>1. i \in Ids /\ e \in Engines \cup {None}
    BY DEF IInv, ProcsOK, EnginesOK, Handlers
  <1>2. stopping' \subseteq Ids /\ ReconnectOK'
    BY <1>1 DEF Retire, CancelReconnect, IInv, RowsOK, ReconnectOK
  <1>3. \E l \in Locations \ {"idle"} : Goto(p, l) /\ (l \in HoldsEngine => e \in Engines)
    BY <1>1, BeginTeardownInv, ToDeleteFence2Inv DEF Retire, Locations, HoldsEngine
  <1>4. ProcsOK'
    <2>1. PICK l \in Locations \ {"idle"} : Goto(p, l) /\ (l \in HoldsEngine => e \in Engines)
      BY <1>3
    <2>2. eng' = [eng EXCEPT ![p] = e] /\ UNCHANGED <<op, sid, initializing>>
      BY DEF Retire
    <2> HIDE DEF e
    <2> QED
      BY <1>1, <2>1, <2>2 DEF Goto, IInv, ProcsOK, Handlers, HoldsEngine, Locations
  <1>5. WipingOK'
    BY <1>1, BeginTeardownInv, ToDeleteFence2Inv DEF Retire, IInv, WipingOK
  <1>6. WritesOK'
    BY <1>1, AppendType, TeardownWritesType DEF Retire, IInv, WritesOK, Statuses
  <1> QED
    BY <1>2, <1>4, <1>5, <1>6

\* The row read at the head of the four retiring verbs.
LEMMA VerbRowInv ==
  ASSUME IInv, NEW p \in Procs, VerbRow(p)
  PROVE  IInv'
  <1>1. ProcsOK'
    BY FinishProcs, GotoProcs, RetireInv DEF VerbRow, Locations, HoldsEngine
  <1>2. /\ stopping' \subseteq Ids
        /\ ReconnectOK' /\ WipingOK' /\ WritesOK'
    BY RetireInv, AwaitWiping DEF VerbRow, IInv, RowsOK, ReconnectOK, WipingOK, WritesOK
  <1> QED
    BY <1>1, <1>2 DEF VerbRow, IInv, RowsOK, EnginesOK, LostOK

\* delete()'s first fence.
LEMMA DeleteFence1Inv ==
  ASSUME IInv, NEW p \in Procs, DeleteFence1(p)
  PROVE  IInv'
  <1>1. ProcsOK'
    BY FinishProcs, RetireInv DEF DeleteFence1
  <1>2. /\ stopping' \subseteq Ids
        /\ ReconnectOK' /\ WipingOK' /\ WritesOK'
    BY RetireInv, GiveUpWiping DEF DeleteFence1, IInv, RowsOK, ReconnectOK, WipingOK, WritesOK
  <1> QED
    BY <1>1, <1>2 DEF DeleteFence1, IInv, RowsOK, EnginesOK, LostOK

\* A verb stops waiting for an INITIALIZING write that did not land.
LEMMA VerbWaitedInv ==
  ASSUME IInv, NEW p \in Procs, VerbWaited(p)
  PROVE  IInv'
  <1>1. pc[p] = "verb_wait" /\ sid[p] \in Ids /\ eng[p] \in Engines
    BY DEF VerbWaited, IInv, ProcsOK, Handlers, HoldsEngine
  <1>2. WipingOK' /\ ProcsOK'
    <2>1. CASE BeginTeardown(p, eng[p]) /\ UNCHANGED <<initializing, op, sid, eng>>
      BY <1>1, <2>1, BeginTeardownInv, GotoProcs DEF Locations
    <2>2. CASE Finish(p) /\ UNCHANGED wiping
      BY <2>2, FinishProcs DEF IInv, WipingOK
    <2> QED
      BY <2>1, <2>2 DEF VerbWaited
  <1>3. stopping' \subseteq Ids
    BY DEF VerbWaited, IInv, RowsOK
  <1> QED
    BY <1>2, <1>3 DEF VerbWaited, IInv, RowsOK, EnginesOK, ReconnectOK, LostOK, WritesOK

\* A verb's teardown is over.
LEMMA TornDownInv ==
  ASSUME IInv, NEW p \in Procs, TornDown(p)
  PROVE  IInv'
  <1>1. pc[p] = "teardown" /\ sid[p] \in Ids /\ eng[p] \in Engines
    BY DEF TornDown, IInv, ProcsOK, Handlers, HoldsEngine
  <1>2. ProcsOK'
    BY <1>1, GotoProcs, ToDeleteFence2Inv DEF TornDown, Locations, HoldsEngine
  <1>3. WipingOK'
    BY ToDeleteFence2Inv DEF TornDown, IInv, WipingOK
  <1>4. WritesOK'
    BY <1>1, AppendType DEF TornDown, IInv, WritesOK, Statuses
  <1>5. EnginesOK'
    BY <1>1 DEF TornDown, Closed, DeleteIfLive, IInv, EnginesOK, EngineStates
  <1>6. leaked' \subseteq Names
    BY <1>1, OutlivesType, ConstantsAssumption DEF TornDown, IInv
  <1> QED
    BY <1>2, <1>3, <1>4, <1>5, <1>6 DEF TornDown, IInv, RowsOK, ReconnectOK, LostOK

\* delete()'s second fence.
LEMMA DeleteFence2Inv ==
  ASSUME IInv, NEW p \in Procs, DeleteFence2(p)
  PROVE  IInv'
  <1>1. pc[p] = "delete_fence2" /\ sid[p] \in Ids
    BY DEF DeleteFence2, IInv, ProcsOK, Handlers
  <1>2. ProcsOK'
    BY <1>1, FinishProcs, GotoProcs DEF DeleteFence2, Locations, HoldsEngine
  <1>3. WipingOK'
    BY GiveUpWiping DEF DeleteFence2, IInv, WipingOK
  <1>4. WritesOK'
    BY <1>1, AppendType DEF DeleteFence2, IInv, WritesOK, Statuses
  <1>5. stopping' \subseteq Ids
    BY DEF DeleteFence2, IInv, RowsOK
  <1> QED
    BY <1>2, <1>3, <1>4, <1>5 DEF DeleteFence2, IInv, RowsOK, EnginesOK, ReconnectOK, LostOK

\* delete()'s transaction commits or fails.
LEMMA DeleteCommitsInv ==
  ASSUME IInv, NEW p \in Procs, DeleteCommits(p)
  PROVE  IInv'
  <1>1. ProcsOK'
    BY FinishProcs, GotoProcs DEF DeleteCommits, Locations, HoldsEngine
  <1>2. RowsOK'
    BY DEF DeleteCommits, IInv, RowsOK, NoRow
  <1> QED
    BY <1>1, <1>2 DEF DeleteCommits, IInv, EnginesOK, ReconnectOK, WipingOK, LostOK, WritesOK

\* delete()'s purge is done and its mark dropped.
LEMMA DeletePurgedInv ==
  ASSUME IInv, NEW p \in Procs, DeletePurged(p)
  PROVE  IInv'
  <1>1. ProcsOK'
    BY FinishProcs DEF DeletePurged
  <1>2. RowsOK'
    BY DEF DeletePurged, PurgeSessionData, IInv, RowsOK
  <1> QED
    BY <1>1, <1>2 DEF DeletePurged, IInv, EnginesOK, ReconnectOK, WipingOK, LostOK, WritesOK

\* A verb's final DISCONNECTED has settled.
LEMMA VerbWrittenInv ==
  ASSUME IInv, NEW p \in Procs, VerbWritten(p)
  PROVE  IInv'
  <1>1. ProcsOK'
    BY FinishProcs DEF VerbWritten
  <1>2. row' \in [Ids -> Statuses \cup NoRow] /\ WritesOK'
    BY SettledTypes DEF VerbWritten, Settled, WritesOK
  <1>3. stopping' \subseteq Ids
    BY DEF VerbWritten, IInv, RowsOK
  <1> QED
    BY <1>1, <1>2, <1>3 DEF VerbWritten, IInv, RowsOK, EnginesOK, ReconnectOK, WipingOK, LostOK

-----------------------------------------------------------------------------
(* executeReconnect() *)

\* A timer that fires leaves its attempts behind, disarmed.
LEMMA DisarmType ==
  ASSUME IInv, NEW i \in Ids, Armed(i), reconnect' = [reconnect EXCEPT ![i].armed = FALSE]
  PROVE  ReconnectOK'
  <1> DEFINE State == [attempts : Nat, armed : BOOLEAN]
  <1>1. reconnect \in [Ids -> State \cup {None}] /\ reconnect[i] \in State
    BY DEF IInv, ReconnectOK, Armed
  <1>2. [reconnect[i] EXCEPT !.armed = FALSE] \in State
    BY <1>1
  <1>3. reconnect' = [reconnect EXCEPT ![i] = [reconnect[i] EXCEPT !.armed = FALSE]]
    BY <1>1
  <1> HIDE DEF State
  <1>4. reconnect' \in [Ids -> State \cup {None}]
    BY <1>1, <1>2, <1>3
  <1> QED
    BY <1>4 DEF State, ReconnectOK

\* The reconnect timer fires.
LEMMA TimerFiresInv ==
  ASSUME IInv, NEW p \in Procs, NEW i \in Ids, TimerFires(p, i)
  PROVE  IInv'
  <1>1. ReconnectOK'
    BY DisarmType DEF TimerFires
  <1>2. UNCHANGED <<row, auth, initializing, stopping, stuckUsed, lost, requests, leaked>>
    BY DEF TimerFires
  <1>3. EnginesOK' /\ WipingOK' /\ WritesOK' /\ ProcsOK'
    <2>1. CASE UNCHANGED <<engines, estate, pendingInit, wiping, writes, procVars>>
      BY <1>2, <2>1 DEF IInv, EnginesOK, WipingOK, WritesOK, ProcsOK, Handlers, procVars
    <2>2. CASE /\ op' = [op EXCEPT ![p] = "reconnect"]
               /\ sid' = [sid EXCEPT ![p] = i]
               /\ \/ /\ engines[i] # None
                     /\ eng' = [eng EXCEPT ![p] = engines[i]]
                     /\ Goto(p, "reconnect_kill")
                     /\ writes' \in TeardownWrites(i, engines[i], FALSE, writes)
                     /\ UNCHANGED <<engines, estate, pendingInit, wiping>>
                  \/ /\ Await(p, NameOf[i])
                     /\ Goto(p, "reconnect_fence")
                     /\ UNCHANGED <<eng, engines, estate, pendingInit, writes>>
                  \/ /\ \E e \in Engines : InitializeEngine(p, i, e, engines, estate)
                     /\ UNCHANGED wiping
      <3>1. CASE /\ engines[i] # None
                 /\ eng' = [eng EXCEPT ![p] = engines[i]]
                 /\ Goto(p, "reconnect_kill")
                 /\ writes' \in TeardownWrites(i, engines[i], FALSE, writes)
                 /\ UNCHANGED <<engines, estate, pendingInit, wiping>>
        <4>1. engines[i] \in Engines
          BY <3>1 DEF IInv, EnginesOK
        <4>2. WritesOK'
          BY <3>1, TeardownWritesType DEF IInv, WritesOK
        <4>3. ProcsOK'
          BY <1>2, <2>2, <3>1, <4>1 DEF Goto, IInv, ProcsOK, Handlers, HoldsEngine, Ops, Locations
        <4> QED
          BY <3>1, <4>2, <4>3 DEF IInv, EnginesOK, WipingOK
      <3>2. CASE /\ Await(p, NameOf[i])
                 /\ Goto(p, "reconnect_fence")
                 /\ UNCHANGED <<eng, engines, estate, pendingInit, writes>>
        <4>1. ProcsOK'
          BY <1>2, <2>2, <3>2 DEF Goto, IInv, ProcsOK, Handlers, HoldsEngine, Ops, Locations
        <4>2. WipingOK'
          BY <3>2, AwaitWiping DEF IInv
        <4> QED
          BY <3>2, <4>1, <4>2 DEF IInv, EnginesOK, WritesOK
      <3>3. CASE /\ \E e \in Engines : InitializeEngine(p, i, e, engines, estate)
                 /\ UNCHANGED wiping
        <4>1. PICK e \in Engines : InitializeEngine(p, i, e, engines, estate)
          BY <3>3
        <4>2. /\ EnginesOK' /\ WritesOK'
              /\ eng' = [eng EXCEPT ![p] = e] /\ pc' = [pc EXCEPT ![p] = "init_write"]
          BY <4>1, InitializeEngineInv DEF IInv, EnginesOK
        <4>3. ProcsOK'
          BY <1>2, <2>2, <4>2 DEF IInv, ProcsOK, Handlers, HoldsEngine, Ops, Locations
        <4> QED
          BY <3>3, <4>2, <4>3 DEF IInv, WipingOK
      <3> QED
        BY <2>2, <3>1, <3>2, <3>3
    <2> QED
      BY <2>1, <2>2 DEF TimerFires
  <1> QED
    BY <1>1, <1>2, <1>3 DEF IInv, RowsOK, LostOK

\* A reconnect attempt has closed the old engine.
LEMMA ReconnectKilledInv ==
  ASSUME IInv, NEW p \in Procs, ReconnectKilled(p)
  PROVE  IInv'
  <1> DEFINE i == sid[p]
             regs == IF engines[i] = eng[p] THEN [engines EXCEPT ![i] = None] ELSE engines
  <1>1. i \in Ids /\ pc[p] = "reconnect_kill" /\ eng[p] \in Engines
    BY DEF ReconnectKilled, IInv, ProcsOK, Handlers, HoldsEngine
  <1>2. regs \in [Ids -> Engines \cup {None}] /\ Closed(eng[p]) \in [Engines -> EngineStates]
    BY <1>1 DEF Closed, IInv, EnginesOK, EngineStates
  <1>3. EnginesOK' /\ WipingOK' /\ WritesOK' /\ ProcsOK'
    <2>1. CASE \E e \in Engines : InitializeEngine(p, i, e, regs, Closed(eng[p])) /\ UNCHANGED wiping
      <3>1. PICK e \in Engines : InitializeEngine(p, i, e, regs, Closed(eng[p]))
        BY <2>1
      <3>2. /\ EnginesOK' /\ WritesOK'
            /\ eng' = [eng EXCEPT ![p] = e] /\ pc' = [pc EXCEPT ![p] = "init_write"]
        <4> HIDE DEF regs
        <4> QED
          BY <1>1, <1>2, <3>1, InitializeEngineInv
      <3>3. ProcsOK'
        BY <1>1, <3>2 DEF ReconnectKilled, IInv, ProcsOK, Handlers, HoldsEngine, Locations
      <3> QED
        BY <2>1, <3>2, <3>3 DEF IInv, WipingOK
    <2>2. CASE /\ Await(p, NameOf[i])
               /\ engines' = regs /\ estate' = Closed(eng[p])
               /\ Goto(p, "reconnect_fence")
               /\ UNCHANGED <<eng, pendingInit, writes>>
      <3>1. ProcsOK'
        BY <1>1, <2>2, GotoProcs DEF ReconnectKilled, Locations, HoldsEngine
      <3>2. WipingOK'
        BY <2>2, AwaitWiping DEF IInv
      <3> QED
        BY <1>2, <2>2, <3>1, <3>2 DEF IInv, EnginesOK, WritesOK
    <2> QED
      BY <2>1, <2>2 DEF ReconnectKilled
  <1>4. leaked' \subseteq Names
    BY <1>1, OutlivesType, ConstantsAssumption DEF ReconnectKilled, IInv
  <1> QED
    BY <1>3, <1>4 DEF ReconnectKilled, IInv, RowsOK, ReconnectOK, LostOK

\* A reconnect attempt waited for the fence.
LEMMA ReconnectFenceInv ==
  ASSUME IInv, NEW p \in Procs, ReconnectFence(p)
  PROVE  IInv'
  <1>1. sid[p] \in Ids /\ pc[p] = "reconnect_fence"
    BY DEF ReconnectFence, IInv, ProcsOK, Handlers
  <1>2. EnginesOK' /\ ReconnectOK' /\ WipingOK' /\ WritesOK' /\ ProcsOK'
    <2>1. CASE /\ \E e \in Engines : InitializeEngine(p, sid[p], e, engines, estate)
               /\ UNCHANGED <<op, sid, initializing, reconnect, wiping>>
      <3>1. PICK e \in Engines : InitializeEngine(p, sid[p], e, engines, estate)
        BY <2>1
      <3>2. /\ EnginesOK' /\ WritesOK'
            /\ eng' = [eng EXCEPT ![p] = e] /\ pc' = [pc EXCEPT ![p] = "init_write"]
        BY <1>1, <3>1, InitializeEngineInv DEF IInv, EnginesOK
      <3>3. ProcsOK'
        BY <1>1, <2>1, <3>2 DEF IInv, ProcsOK, Handlers, HoldsEngine, Locations
      <3> QED
        BY <2>1, <3>2, <3>3 DEF IInv, WipingOK, ReconnectOK
    <2>2. CASE GiveUp(p) /\ Throw(p, writes) /\ UNCHANGED pendingInit
      <3>1. /\ engines' \in [Ids -> Engines \cup {None}]
            /\ estate' \in [Engines -> EngineStates]
            /\ ReconnectOK' /\ WritesOK' /\ ProcsOK'
        BY <1>1, <2>2, ThrowInv DEF IInv, WritesOK
      <3> QED
        BY <2>2, <3>1, GiveUpWiping DEF IInv, EnginesOK
    <2> QED
      BY <2>1, <2>2 DEF ReconnectFence
  <1> QED
    BY <1>2 DEF ReconnectFence, IInv, RowsOK, LostOK

-----------------------------------------------------------------------------
(* Engine callbacks and the database *)

\* onReady keeps the invariant.
LEMMA EngineReadyInv ==
  ASSUME IInv, NEW i \in Ids, EngineReady(i)
  PROVE  IInv'
  <1>1. ReconnectOK'
    <2> DEFINE State == [attempts : Nat, armed : BOOLEAN]
               new == IF reconnect[i] = None THEN None ELSE [reconnect[i] EXCEPT !.attempts = 0]
    <2>1. reconnect \in [Ids -> State \cup {None}]
      BY DEF IInv, ReconnectOK
    <2>2. new \in State \cup {None}
      BY <2>1
    <2>3. reconnect' = [reconnect EXCEPT ![i] = new]
      BY <2>1 DEF EngineReady
    <2> HIDE DEF State, new
    <2>4. reconnect' \in [Ids -> State \cup {None}]
      BY <2>1, <2>2, <2>3
    <2> QED
      BY <2>4 DEF State, ReconnectOK
  <1>2. WritesOK'
    BY AppendType DEF EngineReady, IInv, WritesOK, Statuses
  <1>3. RowsOK'
    BY ConstantsAssumption DEF EngineReady, IInv, RowsOK
  <1> QED
    BY <1>1, <1>2, <1>3 DEF EngineReady, procVars, IInv, EnginesOK, WipingOK, LostOK, ProcsOK,
       Handlers

\* onQRCode and onStateChanged keep it.
LEMMA EngineStateInv ==
  ASSUME IInv, NEW i \in Ids, EngineState(i)
  PROVE  IInv'
  <1>1. WritesOK'
    BY AppendType DEF EngineState, IInv, WritesOK, Statuses
  <1> QED
    BY <1>1 DEF EngineState, procVars, IInv, RowsOK, EnginesOK, ReconnectOK, WipingOK, LostOK,
       ProcsOK, Handlers

\* A loss report keeps it.
LEMMA EngineLostInv ==
  ASSUME IInv, NEW i \in Ids, EngineLost(i)
  PROVE  IInv'
  <1>1. engines[i] \in Engines
    BY DEF EngineLost, EngineUp, IInv, EnginesOK
  <1>2. WritesOK'
    BY AppendType DEF EngineLost, IInv, WritesOK, Statuses
  <1>3. EnginesOK' /\ LostOK'
    BY <1>1 DEF EngineLost, IInv, EnginesOK, LostOK, EngineStates
  <1> QED
    BY <1>2, <1>3 DEF EngineLost, procVars, IInv, RowsOK, ReconnectOK, WipingOK, ProcsOK, Handlers

\* handleEngineDisconnected() after its row read.
LEMMA HandleLostInv ==
  ASSUME IInv, NEW i \in Ids, NEW e, HandleLost(i, e)
  PROVE  IInv'
  <1>1. Append(writes, StatusWrite(i, "disconnected", None)) \in Seq(Writes)
    BY AppendType DEF IInv, WritesOK, Statuses
  <1>2. /\ engines' \in [Ids -> Engines \cup {None}]
        /\ estate' \in [Engines -> EngineStates]
        /\ ReconnectOK' /\ WritesOK'
    <2>1. CASE ScheduleReconnect(i, engines, estate,
                                 Append(writes, StatusWrite(i, "disconnected", None)))
      BY <1>1, <2>1, ScheduleReconnectInv DEF IInv, EnginesOK
    <2>2. CASE UNCHANGED <<engines, estate, reconnect, writes>>
      BY <2>2 DEF IInv, EnginesOK, ReconnectOK, WritesOK
    <2> QED
      BY <2>1, <2>2 DEF HandleLost
  <1> QED
    BY <1>2 DEF HandleLost, procVars, IInv, RowsOK, EnginesOK, WipingOK, LostOK, ProcsOK, Handlers

\* onError keeps it.
LEMMA EngineErrorInv ==
  ASSUME IInv, NEW i \in Ids, EngineError(i)
  PROVE  IInv'
  <1>1. /\ engines' \in [Ids -> Engines \cup {None}]
        /\ estate' \in [Engines -> EngineStates]
        /\ ReconnectOK' /\ WritesOK'
    BY OnErrorInv DEF EngineError
  <1> QED
    BY <1>1 DEF EngineError, procVars, IInv, RowsOK, EnginesOK, WipingOK, LostOK, ProcsOK, Handlers

\* The background forceDestroy() of an evicted engine settles.
LEMMA ReapInv ==
  ASSUME IInv, NEW e \in Engines, Reap(e)
  PROVE  IInv'
  <1>1. leaked' \subseteq Names
    BY OutlivesType DEF Reap, IInv
  <1> QED
    BY <1>1 DEF Reap, Closed, procVars, IInv, RowsOK, EnginesOK, ReconnectOK, WipingOK, LostOK, WritesOK,
       ProcsOK, Handlers, EngineStates

\* A process left behind writes its profile or ends.
LEMMA LeftBehindInv ==
  ASSUME IInv, NEW n \in leaked, LeftBehind(n)
  PROVE  IInv'
  BY DEF LeftBehind, procVars, IInv, RowsOK, EnginesOK, ReconnectOK, WipingOK, LostOK, WritesOK,
     ProcsOK, Handlers

\* An unlink begins a credential rm the lifecycle is told about.
LEMMA EngineUnlinkedInv ==
  ASSUME IInv, NEW i \in Ids, NEW e \in Engines, EngineUnlinked(i, e)
  PROVE  IInv'
  <1> DEFINE rm == [name |-> NameOf[i], engine |-> e, tracked |-> TRUE, waiters |-> {}]
  <1>1. rm \in [name : Names, engine : Engines, tracked : BOOLEAN, waiters : SUBSET Procs]
    BY ConstantsAssumption
  <1>2. wiping' = wiping \cup {rm}
    BY DEF EngineUnlinked
  <1> HIDE DEF rm
  <1>3. WipingOK'
    BY <1>1, <1>2 DEF IInv, WipingOK
  <1> QED
    BY <1>3 DEF EngineUnlinked, procVars, IInv, RowsOK, EnginesOK, ReconnectOK, LostOK, WritesOK,
       ProcsOK, Handlers

\* A stuck-auth reset begins one it is not told about.
LEMMA StuckAuthInv ==
  ASSUME IInv, NEW i \in Ids, StuckAuth(i)
  PROVE  IInv'
  <1> DEFINE rm == [name |-> NameOf[i], engine |-> engines[i], tracked |-> FALSE, waiters |-> {}]
  <1>1. engines[i] \in Engines
    BY DEF StuckAuth, EngineUp, IInv, EnginesOK
  <1>2. rm \in [name : Names, engine : Engines, tracked : BOOLEAN, waiters : SUBSET Procs]
    BY <1>1, ConstantsAssumption
  <1>3. wiping' = wiping \cup {rm}
    BY DEF StuckAuth
  <1> HIDE DEF rm
  <1>4. WipingOK'
    BY <1>2, <1>3 DEF IInv, WipingOK
  <1>5. RowsOK'
    BY DEF StuckAuth, IInv, RowsOK
  <1> QED
    BY <1>4, <1>5 DEF StuckAuth, procVars, IInv, EnginesOK, ReconnectOK, LostOK, WritesOK,
       ProcsOK, Handlers

\* A credential rm ends.
LEMMA WipeSettlesInv ==
  ASSUME IInv, NEW w \in wiping, WipeSettles(w)
  PROVE  IInv'
  <1>1. w.engine \in Engines
    BY DEF IInv, WipingOK
  <1>2. WritesOK'
    BY AppendType DEF WipeSettles, IInv, WritesOK, Statuses
  <1>3. EnginesOK' /\ LostOK'
    BY <1>1 DEF WipeSettles, IInv, EnginesOK, LostOK, EngineStates
  <1>4. RowsOK' /\ WipingOK'
    BY DEF WipeSettles, IInv, RowsOK, WipingOK
  <1> QED
    BY <1>2, <1>3, <1>4 DEF WipeSettles, procVars, IInv, ReconnectOK, ProcsOK, Handlers

\* A status UPDATE nobody awaits settles.
LEMMA WriteSettlesInv ==
  ASSUME IInv, WriteSettles
  PROVE  IInv'
  <1>1. row' \in [Ids -> Statuses \cup NoRow] /\ WritesOK'
    BY SettledTypes DEF WriteSettles, Settled, WritesOK
  <1> QED
    BY <1>1 DEF WriteSettles, procVars, IInv, RowsOK, EnginesOK, ReconnectOK, WipingOK, LostOK,
       ProcsOK, Handlers

-----------------------------------------------------------------------------
(* Every step preserves the inductive invariant. *)

\* Every continuation of a handler keeps the invariant.
LEMMA StepInv ==
  ASSUME IInv, NEW p \in Procs, Step(p)
  PROVE  IInv'
  BY StartRowInv, StartFenceInv, StartHookInv, InitWrittenInv, InitWriteFailsInv, InitRunsInv,
     InitKilledInv, InitKillWrittenInv, CatchKilledInv, CatchWrittenInv, PostRowInv,
     RetireKilledInv, PurgeCheckInv, PurgedInv, VerbRowInv, DeleteFence1Inv, VerbWaitedInv,
     TornDownInv, DeleteFence2Inv, DeleteCommitsInv, DeletePurgedInv, VerbWrittenInv,
     ReconnectKilledInv, ReconnectFenceInv
  DEF Step

\* So does every engine callback.
LEMMA EngineEventInv ==
  ASSUME IInv, EngineEvent
  PROVE  IInv'
  BY EngineReadyInv, EngineStateInv, EngineLostInv, EngineErrorInv, StuckAuthInv, EngineUnlinkedInv
  DEF EngineEvent

\* So does everything that settles in the background.
LEMMA BackgroundInv ==
  ASSUME IInv, Background
  PROVE  IInv'
  <1>1. ASSUME NEW l \in lost, HandleLost(l[1], l[2])
        PROVE  IInv'
    <2>1. l[1] \in Ids
      BY DEF IInv, LostOK
    <2> QED
      BY <1>1, <2>1, HandleLostInv
  <1> QED
    BY <1>1, ReapInv, LeftBehindInv, WipeSettlesInv, WriteSettlesInv DEF Background

\* Every step keeps the invariant.
LEMMA NextInv ==
  ASSUME IInv, [Next]_vars
  PROVE  IInv'
  <1>1. CASE Next
    BY <1>1, CreateInv, RequestInv, TimerFiresInv, StepInv, EngineEventInv, BackgroundInv DEF Next
  <1>2. CASE UNCHANGED vars
    BY <1>2 DEF vars, procVars, IInv, RowsOK, EnginesOK, ReconnectOK, WipingOK, LostOK, WritesOK,
       ProcsOK, Handlers
  <1> QED
    BY <1>1, <1>2

\* In every reachable state the fields are well formed and each handler in flight has
\* the verb, the session and the engine the code it is about to run relies on.
THEOREM Inductive == Spec => []IInv
  BY InitInv, NextInv, PTL DEF Spec

\* Every variable keeps the shape of the field it stands for, whatever the instance.
THEOREM TypeCorrect == Spec => []TypeOK
  BY Inductive, IInvTypes, PTL

-----------------------------------------------------------------------------
(* The reservation of start() *)

\* What a step may do to the reservations: leave verbs, sessions and reservations alone,
\* end one handler, begin one, or begin a reconnect attempt.
Begins(p, v, i) ==
  /\ op[p] = "none" /\ v # "none"
  /\ v = "start" => i \notin initializing
  /\ op' = [op EXCEPT ![p] = v]
  /\ sid' = [sid EXCEPT ![p] = i]
  /\ initializing' = IF v = "start" THEN initializing \cup {i} ELSE initializing

Shape ==
  \/ UNCHANGED <<op, sid, initializing>>
  \/ \E p \in Procs : Finish(p)
  \/ \E p \in Procs, v \in Ops, i \in Ids : Begins(p, v, i)

\* A throw out of initializeEngine() leaves the reservations to the finally.
LEMMA ThrowShape ==
  ASSUME NEW p \in Procs, NEW ws, Throw(p, ws)
  PROVE  UNCHANGED <<op, sid, initializing>> \/ Finish(p)
  BY DEF Throw

\* A continuation leaves verbs, sessions and reservations alone or ends its handler.
LEMMA StepShape ==
  ASSUME NEW p \in Procs, Step(p)
  PROVE  UNCHANGED <<op, sid, initializing>> \/ Finish(p)
  <1>1. ASSUME StartRow(p) \/ StartFence(p) \/ StartHook(p)
        PROVE  UNCHANGED <<op, sid, initializing>> \/ Finish(p)
    BY <1>1 DEF StartRow, StartFence, StartHook, AdmitStart
  <1>2. ASSUME InitWritten(p) \/ InitWriteFails(p) \/ InitRuns(p) \/ InitKilled(p) \/ InitKillWritten(p)
        PROVE  UNCHANGED <<op, sid, initializing>> \/ Finish(p)
    BY <1>2, ThrowShape DEF InitWritten, InitWriteFails, InitRuns, InitRejects, InitKilled,
       InitKillWritten
  <1>3. ASSUME CatchKilled(p) \/ CatchWritten(p) \/ PostRow(p) \/ RetireKilled(p) \/ PurgeCheck(p) \/ Purged(p)
        PROVE  UNCHANGED <<op, sid, initializing>> \/ Finish(p)
    BY <1>3 DEF CatchKilled, CatchWritten, PostRow, RetireKilled, PurgeCheck, Purged
  <1>4. ASSUME VerbRow(p) \/ DeleteFence1(p) \/ VerbWaited(p) \/ TornDown(p) \/ DeleteFence2(p)
        PROVE  UNCHANGED <<op, sid, initializing>> \/ Finish(p)
    BY <1>4 DEF VerbRow, DeleteFence1, Retire, VerbWaited, TornDown, DeleteFence2
  <1>5. ASSUME DeleteCommits(p) \/ DeletePurged(p) \/ VerbWritten(p) \/ ReconnectKilled(p) \/ ReconnectFence(p)
        PROVE  UNCHANGED <<op, sid, initializing>> \/ Finish(p)
    BY <1>5, ThrowShape DEF DeleteCommits, DeletePurged, VerbWritten, ReconnectKilled, ReconnectFence
  <1> QED
    BY <1>1, <1>2, <1>3, <1>4, <1>5 DEF Step

\* Every step of the system has one of those shapes.
LEMMA NextShape ==
  ASSUME IInv, Next
  PROVE  Shape
  <1>1. ASSUME NEW i \in Ids, Create(i)
        PROVE  Shape
    BY <1>1 DEF Create, procVars, Shape
  <1>2. ASSUME NEW p \in Procs, NEW v \in Verbs, NEW i \in Ids, Request(p, v, i)
        PROVE  Shape
    <2>1. Begins(p, v, i) /\ v \in Ops
      BY <1>2, ConstantsAssumption DEF Request, MayStart, Begins, IInv, ProcsOK, Handlers, Ops
    <2> QED
      BY <2>1 DEF Shape
  <1>3. ASSUME NEW p \in Procs, NEW i \in Ids, TimerFires(p, i)
        PROVE  Shape
    <2>1. UNCHANGED <<op, sid, initializing>> \/ Begins(p, "reconnect", i)
      BY <1>3 DEF TimerFires, procVars, Begins, IInv, ProcsOK, Handlers
    <2> QED
      BY <2>1 DEF Shape, Ops
  <1>4. ASSUME NEW p \in Procs, Step(p)
        PROVE  Shape
    BY <1>4, StepShape DEF Shape
  <1>5. ASSUME EngineEvent \/ Background
        PROVE  Shape
    BY <1>5 DEF EngineEvent, Background, EngineReady, EngineState, EngineLost, EngineError,
       StuckAuth, EngineUnlinked, HandleLost, Reap, LeftBehind, WipeSettles, WriteSettles, procVars, Shape
  <1> QED
    BY <1>1, <1>2, <1>3, <1>4, <1>5 DEF Next

\* Each shape keeps reservations and starts in flight together.
LEMMA ReservationStep ==
  ASSUME IInv, StartReservation, [Next]_vars
  PROVE  StartReservation'
  <1>1. CASE UNCHANGED <<op, sid, initializing>>
    BY <1>1 DEF StartReservation, Starting
  <1>2. ASSUME NEW p \in Procs, Finish(p)
        PROVE  StartReservation'
    <2>1. Starting' = Starting \ {p}
      BY <1>2 DEF Finish, Starting, IInv, ProcsOK
    <2>2. \A q \in Procs \ {p} : sid'[q] = sid[q]
      BY <1>2 DEF Finish, IInv, ProcsOK
    <2>3. initializing' = {sid'[q] : q \in Starting'}
      BY <1>2, <2>1, <2>2 DEF Finish, StartReservation, Starting
    <2> QED
      BY <2>1, <2>2, <2>3 DEF StartReservation, Starting
  <1>3. ASSUME NEW p \in Procs, NEW v \in Ops, NEW i \in Ids, Begins(p, v, i)
        PROVE  StartReservation'
    <2>1. Starting' = IF v = "start" THEN Starting \cup {p} ELSE Starting
      BY <1>3 DEF Begins, Starting, IInv, ProcsOK
    <2>2. sid'[p] = i /\ \A q \in Procs \ {p} : sid'[q] = sid[q]
      BY <1>3 DEF Begins, IInv, ProcsOK
    <2>3. p \notin Starting
      BY <1>3 DEF Begins, Starting
    <2>4. initializing' = {sid'[q] : q \in Starting'}
      BY <1>3, <2>1, <2>2, <2>3 DEF Begins, StartReservation, Starting
    <2>5. v = "start" => \A q \in Starting : sid[q] # i
      BY <1>3 DEF Begins, StartReservation
    <2>6. \A q, r \in Starting' : sid'[q] = sid'[r] => q = r
      BY <2>1, <2>2, <2>3, <2>5 DEF StartReservation, Starting
    <2> QED
      BY <2>4, <2>6 DEF StartReservation
  <1>4. CASE UNCHANGED vars
    BY <1>1, <1>4 DEF vars, procVars
  <1> QED
    BY <1>1, <1>2, <1>3, <1>4, NextShape DEF Shape

\* However a start() ends (refused, 409, thrown, retired, done), its id is reserved
\* exactly while it is in flight, and no two starts of one session ever are.
THEOREM ReservationHolds == Spec => []StartReservation
  <1>1. Init => StartReservation
    BY DEF Init, StartReservation, Starting
  <1> QED
    BY <1>1, Inductive, ReservationStep, PTL DEF Spec

-----------------------------------------------------------------------------
(* Engines without reconnects *)

\* Where a start has not created its engine yet.
Ahead == {"start_row", "start_fence", "start_hook"}
\* Where a start is killing an engine it took out of the registry.
Clearing == {"init_kill", "catch_kill"}

\* Where it initializes it.
Launching == {"init_write", "init_run", "init_kill_write"}

\* With a reconnect budget of 0 no timer is ever armed.
NoTimers == \A i \in Ids : ~Armed(i)

\* No handler is a reconnect attempt, and only a start creates an engine.
Roles ==
  \A p \in Procs :
    /\ op[p] # "reconnect"
    /\ pc[p] \notin {"reconnect_kill", "reconnect_fence"}
    /\ pc[p] \in Ahead \cup Clearing \cup Launching => op[p] = "start"
    /\ pc[p] = "idle" => eng[p] = None

\* An engine object belongs to one session, in the registry and in the hands of handlers.
Homes ==
  /\ \A i, j \in Ids : engines[i] = engines[j] /\ engines[i] # None => i = j
  /\ \A p \in Procs, i \in Ids : eng[p] # None /\ engines[i] = eng[p] => sid[p] = i
  /\ \A p, q \in Procs : eng[p] # None /\ eng[p] = eng[q] => sid[p] = sid[q]

\* A start that has created its engine finds that engine or none in the registry.
StartsOwn ==
  \A p \in Starting :
    /\ pc[p] \in {"start_fence", "start_hook"} => engines[sid[p]] = None
    /\ pc[p] \notin Ahead => engines[sid[p]] \in {None, eng[p]}

\* The registry reaches e, or the start that took it out is about to kill it.
Reach(e) ==
  \/ \E i \in Ids : engines[i] = e
  \/ \E p \in Procs : eng[p] = e /\ pc[p] \in Clearing
Reached == \A e \in Held : Reach(e)

Ownership == NoTimers /\ Roles /\ Homes /\ StartsOwn /\ Reached

\* What a step may do to a handler q: nothing; end it; let it go on with the engine it has
\* or the one in the registry; begin it.
Stays(q) == pc'[q] = pc[q] /\ op'[q] = op[q] /\ sid'[q] = sid[q] /\ eng'[q] = eng[q]
Ends(q) == pc'[q] = "idle" /\ op'[q] = "none" /\ eng'[q] = None
Proceeds(q) ==
  /\ pc[q] # "idle" /\ op'[q] = op[q] /\ sid'[q] = sid[q]
  /\ eng'[q] \in {eng[q], engines[sid[q]]}
  /\ pc'[q] \notin {"idle", "reconnect_kill", "reconnect_fence"}
  /\ pc'[q] \in Ahead \cup Clearing \cup Launching => op[q] = "start"
  /\ pc'[q] \in {"start_fence", "start_hook"} => engines[sid[q]] = None
  /\ pc[q] \in Ahead => pc'[q] \in Ahead
Opens(q) ==
  /\ eng'[q] = None /\ op'[q] # "reconnect"
  /\ pc'[q] \in {"start_row", "verb_row"}
  /\ pc'[q] = "start_row" <=> op'[q] = "start"
Moves(q) == Stays(q) \/ Ends(q) \/ Proceeds(q) \/ Opens(q)

\* And to the registry, unless it creates an engine.
Evicts == \A i \in Ids : engines'[i] \in {engines[i], None}

\* Such a step keeps the handlers in order.
LEMMA MovesKeepOrder ==
  ASSUME IInv, IInv', Roles, Homes, StartsOwn, Evicts, \A q \in Procs : Moves(q)
  PROVE  Roles' /\ Homes' /\ StartsOwn'
  <1>1. Roles'
    BY DEF Roles, Moves, Stays, Ends, Proceeds, Opens, Ahead, Clearing, Launching
  <1>2. \A i, j \in Ids : engines'[i] = engines'[j] /\ engines'[i] # None => i = j
    BY DEF Homes, Evicts
  <1>3. \A p \in Procs : eng'[p] # None =>
          /\ pc[p] # "idle" /\ sid'[p] = sid[p] /\ eng'[p] \in {eng[p], engines[sid[p]]}
          /\ sid[p] \in Ids
    BY DEF Moves, Stays, Ends, Proceeds, Opens, Roles, IInv, ProcsOK, Handlers
  <1>4. \A p \in Procs, i \in Ids : eng'[p] # None /\ engines'[i] = eng'[p] => sid'[p] = i
    BY <1>3 DEF Homes, Evicts
  <1>5. \A p, q \in Procs : eng'[p] # None /\ eng'[p] = eng'[q] => sid'[p] = sid'[q]
    BY <1>3 DEF Homes
  <1>6. StartsOwn'
    <2> SUFFICES ASSUME NEW p \in Procs, op'[p] = "start"
                 PROVE  /\ pc'[p] \in {"start_fence", "start_hook"} => engines'[sid'[p]] = None
                        /\ pc'[p] \notin Ahead => engines'[sid'[p]] \in {None, eng'[p]}
      BY DEF StartsOwn, Starting
    <2>1. Moves(p)
      OBVIOUS
    <2>2. sid'[p] \in Ids
      BY DEF IInv, ProcsOK, Handlers
    <2>3. CASE Stays(p)
      BY <2>2, <2>3 DEF Stays, StartsOwn, Starting, Evicts
    <2>4. CASE Proceeds(p)
      BY <2>2, <2>4 DEF Proceeds, StartsOwn, Starting, Evicts
    <2>5. CASE Opens(p)
      BY <2>5 DEF Opens, Ahead
    <2>6. CASE Ends(p)
      BY <2>6 DEF Ends
    <2> QED
      BY <2>1, <2>3, <2>4, <2>5, <2>6 DEF Moves
  <1> QED
    BY <1>1, <1>2, <1>4, <1>5, <1>6 DEF Homes

\* A handler that ends, or goes to another await with what it has, moves alone.
LEMMA FinishMoves ==
  ASSUME IInv, NEW p \in Procs, Finish(p)
  PROVE  \A q \in Procs : Moves(q)
  BY DEF Finish, IInv, ProcsOK, Moves, Stays, Ends

\* So does one that goes on to another await with the engine it has or the registered one.
LEMMA GotoMoves ==
  ASSUME IInv, NEW p \in Procs, NEW l, Goto(p, l), UNCHANGED <<op, sid>>,
         eng' = eng \/ eng' = [eng EXCEPT ![p] = engines[sid[p]]],
         pc[p] \notin Ahead \cup {"idle"},
         l \notin Ahead \cup {"idle", "reconnect_kill", "reconnect_fence"},
         l \in Clearing \cup Launching => op[p] = "start"
  PROVE  \A q \in Procs : Moves(q)
  BY DEF Goto, IInv, ProcsOK, Moves, Stays, Proceeds, Ahead

\* Nothing happens to a handler none of whose fields change.
LEMMA IdleMoves ==
  ASSUME UNCHANGED procVars
  PROVE  \A q \in Procs : Moves(q)
  BY DEF procVars, Moves, Stays

\* An engine stays within reach when neither it, nor the registry, nor the kill changes.
LEMMA ReachStays ==
  ASSUME IInv, Reached, UNCHANGED <<engines, estate>>,
         \A q \in Procs : pc[q] \in Clearing => pc'[q] = pc[q] /\ eng'[q] = eng[q]
  PROVE  Reached'
  BY DEF Reached, Reach, Held

\* A step that leaves registry and engines alone, and no kill unfinished, keeps the rest.
LEMMA QuietOwnership ==
  ASSUME IInv, IInv', Ownership, UNCHANGED <<engines, estate>>, \A q \in Procs : Moves(q),
         \A q \in Procs : pc[q] \in Clearing => pc'[q] = pc[q] /\ eng'[q] = eng[q], NoTimers'
  PROVE  Ownership'
  <1>1. Evicts
    BY DEF Evicts
  <1>2. Roles' /\ Homes' /\ StartsOwn'
    BY <1>1, MovesKeepOrder DEF Ownership
  <1>3. Reached'
    BY ReachStays DEF Ownership
  <1> QED
    BY <1>2, <1>3 DEF Ownership

\* Cancelling a reconnect, or beginning its state afresh, arms no timer.
LEMMA TimersOff ==
  ASSUME IInv, NoTimers, NEW i \in Ids,
         \/ UNCHANGED reconnect
         \/ CancelReconnect(i)
         \/ reconnect' = [reconnect EXCEPT ![i] = FreshReconnect]
  PROVE  NoTimers'
  <1>1. FreshReconnect.armed = FALSE
    BY DEF FreshReconnect
  <1>2. reconnect \in [Ids -> [attempts : Nat, armed : BOOLEAN] \cup {None}]
    BY DEF IInv, ReconnectOK
  <1> HIDE DEF FreshReconnect
  <1> QED
    BY <1>1, <1>2 DEF NoTimers, Armed, CancelReconnect

\* With no attempt to make, scheduleReconnect() gives up at once or does nothing.
LEMMA ScheduleGivesUp ==
  ASSUME MaxAttempts = 0, IInv, NoTimers, NEW i \in Ids, NEW regs, NEW sts, NEW ws,
         ScheduleReconnect(i, regs, sts, ws)
  PROVE  /\ NoTimers'
         /\ \/ engines' = regs /\ estate' = sts
            \/ engines' = [regs EXCEPT ![i] = None] /\ estate' = Reaping(sts, regs[i])
  <1>1. reconnect[i] # None => reconnect[i].attempts \in Nat
    BY DEF IInv, ReconnectOK
  <1>2. \A n \in Nat : Exhausted(n)
    BY ConstantsAssumption DEF Exhausted
  <1>3. UNCHANGED reconnect \/ CancelReconnect(i)
    <2>1. CASE reconnect[i] = None
      BY <2>1 DEF ScheduleReconnect
    <2>2. CASE reconnect[i] # None
      <3>1. \A n \in {reconnect[i].attempts, 0} : Exhausted(n)
        BY <1>1, <1>2, <2>2
      <3> QED
        BY <2>2, <3>1 DEF ScheduleReconnect
    <2> QED
      BY <2>1, <2>2
  <1>4. NoTimers'
    BY <1>3, TimersOff
  <1>5. \/ engines' = regs /\ estate' = sts
        \/ engines' = [regs EXCEPT ![i] = None] /\ estate' = Reaping(sts, regs[i])
    BY DEF ScheduleReconnect
  <1> QED
    BY <1>4, <1>5

-----------------------------------------------------------------------------
\* The head of start() moves its handler alone, and with no engine registered.
LEMMA StartMoves ==
  ASSUME IInv, Roles, StartsOwn, NEW p \in Procs, StartRow(p) \/ StartFence(p)
  PROVE  \A q \in Procs : Moves(q)
  <1>1. CASE Finish(p)
    BY <1>1, FinishMoves
  <1>2. CASE /\ pc[p] \in {"start_row", "start_fence"} /\ engines[sid[p]] = None /\ op[p] = "start"
             /\ Goto(p, "start_hook") \/ Goto(p, "start_fence")
             /\ UNCHANGED <<op, sid, eng>>
    BY <1>2 DEF Goto, IInv, ProcsOK, Moves, Stays, Proceeds, Ahead, Clearing, Launching
  <1>3. pc[p] \in {"start_row", "start_fence"} /\ op[p] = "start"
    BY DEF StartRow, StartFence, Roles, Ahead
  <1>4. CASE StartRow(p)
    BY <1>1, <1>2, <1>3, <1>4 DEF StartRow, AdmitStart
  <1>5. CASE StartFence(p)
    <2>1. engines[sid[p]] = None
      BY <1>3, <1>5 DEF StartFence, StartsOwn, Starting
    <2> QED
      BY <1>1, <1>2, <1>3, <1>5, <2>1 DEF StartFence, AdmitStart
  <1> QED
    BY <1>4, <1>5

\* So does every continuation that leaves engines and registry alone.
LEMMA PurgeMoves ==
  ASSUME IInv, Roles, NEW p \in Procs, PurgeCheck(p) \/ Purged(p) \/ CatchWritten(p) \/ PostRow(p)
  PROVE  \A q \in Procs : Moves(q)
  <1>1. CASE Finish(p)
    BY <1>1, FinishMoves
  <1>2. CASE /\ pc[p] \in {"purge_id", "purge_name", "post_row"}
             /\ \E l \in {"purge_id", "purge_name", "purge_rm", "retire_kill"} : Goto(p, l)
             /\ UNCHANGED <<op, sid>>
             /\ eng' = eng \/ eng' = [eng EXCEPT ![p] = engines[sid[p]]]
    BY <1>2, GotoMoves DEF Ahead, Clearing, Launching
  <1> QED
    BY <1>1, <1>2 DEF PurgeCheck, Purged, CatchWritten, PostRow

\* So does every continuation of a verb but the teardown itself.
LEMMA VerbMoves ==
  ASSUME IInv, Roles, NEW p \in Procs,
         VerbRow(p) \/ DeleteFence1(p) \/ VerbWaited(p) \/ DeleteFence2(p) \/ DeleteCommits(p)
         \/ DeletePurged(p) \/ VerbWritten(p)
  PROVE  \A q \in Procs : Moves(q)
  <1>1. CASE Finish(p)
    BY <1>1, FinishMoves
  <1>2. CASE /\ pc[p] \in {"verb_row", "delete_fence1", "verb_wait", "delete_fence2", "delete_hook"}
             /\ \E l \in {"delete_fence1", "verb_wait", "teardown", "delete_fence2", "delete_hook",
                          "verb_write", "refuse_write", "delete_purge"} : Goto(p, l)
             /\ UNCHANGED <<op, sid>>
             /\ eng' = eng \/ eng' = [eng EXCEPT ![p] = engines[sid[p]]]
    BY <1>2, GotoMoves DEF Ahead, Clearing, Launching
  <1>3. ASSUME Retire(p), pc[p] \in {"verb_row", "delete_fence1"}
        PROVE  \A q \in Procs : Moves(q)
    <2>1. \E l \in {"verb_wait", "teardown", "verb_write", "delete_hook", "delete_fence2"} : Goto(p, l)
      BY <1>3 DEF Retire, BeginTeardown, ToDeleteFence2
    <2>2. eng' = [eng EXCEPT ![p] = engines[sid[p]]] /\ UNCHANGED <<op, sid>>
      BY <1>3 DEF Retire
    <2> QED
      BY <1>2, <1>3, <2>1, <2>2
  <1>4. CASE VerbRow(p) \/ DeleteFence1(p)
    BY <1>1, <1>2, <1>3, <1>4 DEF VerbRow, DeleteFence1
  <1>5. CASE VerbWaited(p) \/ DeleteFence2(p)
    BY <1>1, <1>2, <1>5 DEF VerbWaited, DeleteFence2, BeginTeardown
  <1>6. CASE DeleteCommits(p) \/ DeletePurged(p) \/ VerbWritten(p)
    BY <1>1, <1>2, <1>6 DEF DeleteCommits, DeletePurged, VerbWritten
  <1> QED
    BY <1>4, <1>5, <1>6

\* No handler but the one that moves leaves a kill unfinished.
LEMMA KillsGoOn ==
  ASSUME IInv, NEW p \in Procs, pc[p] \notin Clearing,
         \A q \in Procs \ {p} : pc'[q] = pc[q] /\ eng'[q] = eng[q]
  PROVE  \A q \in Procs : pc[q] \in Clearing => pc'[q] = pc[q] /\ eng'[q] = eng[q]
  OBVIOUS

\* The two owners' ends of initializeEngine(): it returns, and a retired engine is taken
\* out of its owner's hands, or it throws, and the owner kills what is registered.
LEMMA ReturnMoves ==
  ASSUME IInv, Roles, NEW p \in Procs, pc[p] \in {"init_write", "init_run"}, NEW locs, NEW ws,
         locs \in [Procs -> Locations],
         \A q \in Procs : locs[q] = pc[q] \/ (locs[q] = "teardown" /\ pc[q] = "verb_wait"),
         InitReturns(p, locs, ws), UNCHANGED <<op, sid>>
  PROVE  \A q \in Procs : Moves(q)
  <1>1. \E l \in {"retire_kill", "purge_id", "post_row"} : pc' = [locs EXCEPT ![p] = l]
    BY DEF InitReturns
  <1>2. eng' = eng \/ eng' = [eng EXCEPT ![p] = engines[sid[p]]]
    BY DEF InitReturns
  <1>3. Proceeds(p)
    BY <1>1, <1>2 DEF Proceeds, IInv, ProcsOK, Ahead, Clearing, Launching
  <1>4. ASSUME NEW q \in Procs \ {p}
        PROVE  Moves(q)
    <2>1. pc'[q] = locs[q] /\ eng'[q] = eng[q] /\ op'[q] = op[q] /\ sid'[q] = sid[q]
      BY <1>1, <1>2 DEF IInv, ProcsOK
    <2> QED
      BY <2>1 DEF Moves, Stays, Proceeds, Ahead, Clearing, Launching
  <1> QED
    BY <1>3, <1>4 DEF Moves

\* A throw out of initializeEngine() keeps the engines in order: what the catch takes out of
\* the registry is the engine its own start created.
LEMMA ThrowOwnership ==
  ASSUME IInv, IInv', Ownership, NEW p \in Procs, pc[p] \in Launching, NEW ws, Throw(p, ws)
  PROVE  Ownership' /\ (pc'[p] = "catch_kill" => eng'[p] = eng[p])
  <1> DEFINE i == sid[p]
  <1>1. op[p] = "start" /\ i \in Ids /\ engines[i] \in {None, eng[p]}
    BY DEF Ownership, Roles, Launching, Ahead, StartsOwn, Starting, IInv, ProcsOK, Handlers
  <1>2. CASE engines[i] = None /\ CancelReconnect(i) /\ Finish(p) /\ UNCHANGED <<engines, estate>>
    <2>1. NoTimers'
      BY <1>1, <1>2, TimersOff DEF Ownership
    <2>2. \A q \in Procs : pc[q] \in Clearing => pc'[q] = pc[q] /\ eng'[q] = eng[q]
      BY <1>2 DEF Finish, Launching, Clearing, IInv, ProcsOK
    <2>3. Ownership'
      BY <1>2, <2>1, <2>2, FinishMoves, QuietOwnership
    <2> QED
      BY <1>2, <2>3 DEF Finish, IInv, ProcsOK
  <1>3. CASE /\ engines[i] # None /\ engines' = [engines EXCEPT ![i] = None]
             /\ eng' = [eng EXCEPT ![p] = engines[i]] /\ Goto(p, "catch_kill")
             /\ UNCHANGED <<op, sid, initializing, estate, reconnect>>
    <2>1. Evicts
      BY <1>1, <1>3 DEF Evicts, IInv, EnginesOK
    <2>2. \A q \in Procs : Moves(q)
      BY <1>1, <1>3, GotoMoves DEF Launching, Ahead, Clearing
    <2>3. Roles' /\ Homes' /\ StartsOwn'
      BY <2>1, <2>2, MovesKeepOrder DEF Ownership
    <2>4. eng' = eng
      BY <1>1, <1>3 DEF IInv, ProcsOK
    <2>5. NoTimers'
      BY <1>1, <1>3, TimersOff DEF Ownership
    <2>6. pc'[p] = "catch_kill" /\ \A q \in Procs \ {p} : pc'[q] = pc[q]
      BY <1>3 DEF Goto, IInv, ProcsOK
    <2>7. ASSUME NEW e \in Held
          PROVE  Reach(e)'
      <3>1. CASE engines[i] = e
        BY <1>1, <1>3, <2>4, <2>6, <3>1 DEF Reach, Clearing, IInv, EnginesOK
      <3>2. CASE \E j \in Ids \ {i} : engines[j] = e
        BY <1>1, <1>3, <3>2 DEF Reach, IInv, EnginesOK
      <3>3. CASE \E q \in Procs : eng[q] = e /\ pc[q] \in Clearing
        BY <2>4, <2>6, <3>3 DEF Reach, Clearing
      <3> QED
        BY <3>1, <3>2, <3>3 DEF Ownership, Reached, Reach
    <2>8. Reached'
      BY <1>3, <2>7 DEF Reached, Held
    <2> QED
      BY <2>3, <2>4, <2>5, <2>8 DEF Ownership
  <1> QED
    BY <1>1, <1>2, <1>3 DEF Throw

\* An engine taken out of the registry, wherever it was, and no longer held.
LEMMA ClosedReached ==
  ASSUME IInv, Homes, Reached, Evicts, NEW e,
         \A f \in Engines : estate'[f] \in {"alive", "down"} => f # e /\ estate[f] \in {"alive", "down"},
         \A i \in Ids : engines[i] # e => engines'[i] = engines[i],
         \A q \in Procs : pc[q] \in Clearing /\ eng[q] # e => pc'[q] = pc[q] /\ eng'[q] = eng[q]
  PROVE  Reached'
  <1> SUFFICES ASSUME NEW f \in Engines, estate'[f] \in {"alive", "down"}
               PROVE  Reach(f)'
    BY DEF Reached, Held
  <1>1. f # e /\ Reach(f)
    BY DEF Reached, Held
  <1> QED
    BY <1>1 DEF Reach, Clearing

\* A handler that kills the engine it holds closes it, and takes it out if it is live.
LEMMA KillMoves ==
  ASSUME IInv, NEW p \in Procs,
         InitKilled(p) \/ CatchKilled(p) \/ RetireKilled(p) \/ TornDown(p),
         pc[p] \in {"init_kill", "catch_kill"} => op[p] = "start"
  PROVE  /\ \A q \in Procs : Moves(q)
         /\ \A q \in Procs : eng[q] # eng[p] => pc'[q] = pc[q] /\ eng'[q] = eng[q]
  <1>1. /\ \E l \in {"init_kill_write", "catch_write", "purge_id", "delete_hook", "delete_fence2",
                     "verb_write"} : Goto(p, l) /\ (l = "init_kill_write" => pc[p] = "init_kill")
        /\ UNCHANGED <<op, sid, eng>>
    BY DEF InitKilled, CatchKilled, RetireKilled, TornDown, ToDeleteFence2, Goto
  <1>2. pc[p] \in {"init_kill", "catch_kill", "retire_kill", "teardown"}
    BY DEF InitKilled, CatchKilled, RetireKilled, TornDown
  <1>3. \A q \in Procs : Moves(q)
    BY <1>1, <1>2, GotoMoves DEF Ahead, Clearing, Launching
  <1> QED
    BY <1>1, <1>3 DEF Goto, IInv, ProcsOK

\* The end of a kill keeps the engines in order.
LEMMA KillOwnership ==
  ASSUME IInv, IInv', Ownership, NEW p \in Procs,
         InitKilled(p) \/ CatchKilled(p) \/ RetireKilled(p) \/ TornDown(p)
  PROVE  Ownership'
  <1> DEFINE e == eng[p]
  <1>1. pc[p] \in {"init_kill", "catch_kill"} => op[p] = "start"
    BY DEF Ownership, Roles, Clearing
  <1>2. /\ \A q \in Procs : Moves(q)
        /\ \A q \in Procs : eng[q] # e => pc'[q] = pc[q] /\ eng'[q] = eng[q]
    BY <1>1, KillMoves
  <1>3. estate' = [estate EXCEPT ![e] = "gone"] /\ UNCHANGED reconnect
    BY DEF InitKilled, CatchKilled, RetireKilled, TornDown, Closed
  <1>4. Evicts /\ \A i \in Ids : engines[i] # e => engines'[i] = engines[i]
    BY DEF InitKilled, CatchKilled, RetireKilled, TornDown, DeleteIfLive, Evicts, IInv, EnginesOK
  <1>5. \A f \in Engines : estate'[f] \in {"alive", "down"} => f # e /\ estate[f] \in {"alive", "down"}
    BY <1>3 DEF IInv, EnginesOK
  <1>6. Roles' /\ Homes' /\ StartsOwn'
    BY <1>2, <1>4, MovesKeepOrder DEF Ownership
  <1>7. NoTimers'
    BY <1>3 DEF Ownership, NoTimers, Armed
  <1>8. Reached'
    <2>1. \A q \in Procs : pc[q] \in Clearing /\ eng[q] # e => pc'[q] = pc[q] /\ eng'[q] = eng[q]
      BY <1>2
    <2> HIDE DEF e
    <2> QED
      BY <1>4, <1>5, <2>1, ClosedReached DEF Ownership
  <1> QED
    BY <1>6, <1>7, <1>8 DEF Ownership

\* An engine that reports an error, or whose reconnects are over, is evicted and dying.
LEMMA EvictOwnership ==
  ASSUME IInv, IInv', Ownership, NoTimers', NEW i \in Ids,
         \A q \in Procs : Moves(q),
         \A q \in Procs : pc[q] \in Clearing => pc'[q] = pc[q] /\ eng'[q] = eng[q],
         engines' = [engines EXCEPT ![i] = None], estate' = Reaping(estate, engines[i])
  PROVE  Ownership'
  <1>1. Evicts /\ \A j \in Ids : engines[j] # engines[i] => engines'[j] = engines[j]
    BY DEF Evicts, IInv, EnginesOK
  <1>2. Roles' /\ Homes' /\ StartsOwn'
    BY <1>1, MovesKeepOrder DEF Ownership
  <1>3. Reached'
    <2>1. CASE engines[i] = None
      <3>1. UNCHANGED <<engines, estate>>
        BY <2>1 DEF Reaping, IInv, EnginesOK
      <3> QED
        BY <3>1, ReachStays DEF Ownership
    <2>2. CASE engines[i] # None
      <3>1. \A f \in Engines : estate'[f] \in {"alive", "down"} =>
              f # engines[i] /\ estate[f] \in {"alive", "down"}
        BY <2>2 DEF Reaping, IInv, EnginesOK
      <3> QED
        BY <1>1, <3>1, ClosedReached DEF Ownership
    <2> QED
      BY <2>1, <2>2
  <1> QED
    BY <1>2, <1>3 DEF Ownership

\* However initialize() settles, the engines stay in order.
LEMMA InitRunsOwnership ==
  ASSUME IInv, IInv', Ownership, NEW p \in Procs, InitRuns(p)
  PROVE  Ownership' /\ (pc'[p] = "catch_kill" => eng'[p] = eng[p])
  <1> DEFINE i == sid[p]
  <1>1. pc[p] = "init_run" /\ op[p] = "start" /\ i \in Ids /\ engines[i] \in {None, eng[p]}
    BY DEF InitRuns, Ownership, Roles, Launching, Ahead, StartsOwn, Starting, IInv, ProcsOK, Handlers
  <1>2. CASE InitReturns(p, pc, writes) /\ UNCHANGED <<engines, initializing, estate, reconnect, op, sid>>
    <2>1. \A q \in Procs : Moves(q)
      <3>1. pc \in [Procs -> Locations] /\ \A q \in Procs : pc[q] = pc[q]
        BY DEF IInv, ProcsOK
      <3> QED
        BY <1>1, <1>2, <3>1, ReturnMoves DEF Ownership
    <2>2. \A q \in Procs : pc[q] \in Clearing => pc'[q] = pc[q] /\ eng'[q] = eng[q]
      BY <1>1, <1>2 DEF InitReturns, Clearing, IInv, ProcsOK
    <2>3. NoTimers' /\ pc'[p] # "catch_kill"
      BY <1>1, <1>2 DEF Ownership, NoTimers, Armed, InitReturns, IInv, ProcsOK
    <2> QED
      BY <1>2, <2>1, <2>2, <2>3, QuietOwnership
  <1>3. CASE OnError(i) /\ Finish(p)
    <2>1. NoTimers'
      BY <1>1, <1>3, TimersOff DEF Ownership, OnError
    <2>2. \A q \in Procs : pc[q] \in Clearing => pc'[q] = pc[q] /\ eng'[q] = eng[q]
      BY <1>1, <1>3 DEF Finish, Clearing, IInv, ProcsOK
    <2>3. \A q \in Procs : Moves(q)
      BY <1>3, FinishMoves
    <2>4. pc'[p] # "catch_kill"
      BY <1>3 DEF Finish, IInv, ProcsOK
    <2>5. engines' = [engines EXCEPT ![i] = None] /\ estate' = Reaping(estate, engines[i])
      BY <1>3 DEF OnError
    <2> HIDE DEF i
    <2> QED
      BY <1>1, <2>1, <2>2, <2>3, <2>4, <2>5, EvictOwnership
  <1>4. CASE Throw(p, writes)
    BY <1>1, <1>4, ThrowOwnership DEF Launching
  <1>5. CASE /\ engines' = [engines EXCEPT ![i] = None]
             /\ Goto(p, "init_kill")
             /\ UNCHANGED <<initializing, estate, reconnect, writes, op, sid, eng>>
    <2>1. Evicts
      BY <1>1, <1>5 DEF Evicts, IInv, EnginesOK
    <2>2. \A q \in Procs : Moves(q)
      BY <1>1, <1>5, GotoMoves DEF Launching, Ahead, Clearing
    <2>3. Roles' /\ Homes' /\ StartsOwn'
      BY <2>1, <2>2, MovesKeepOrder DEF Ownership
    <2>4. NoTimers'
      BY <1>5 DEF Ownership, NoTimers, Armed
    <2>5. pc'[p] = "init_kill" /\ \A q \in Procs \ {p} : pc'[q] = pc[q]
      BY <1>5 DEF Goto, IInv, ProcsOK
    <2>6. ASSUME NEW e \in Held
          PROVE  Reach(e)'
      <3>1. e # None
        BY ConstantsAssumption DEF Held
      <3>2. CASE engines[i] = e
        BY <1>1, <1>5, <2>5, <3>1, <3>2 DEF Reach, Clearing
      <3>3. CASE \E j \in Ids \ {i} : engines[j] = e
        BY <1>1, <1>5, <3>3 DEF Reach, IInv, EnginesOK
      <3>4. CASE \E q \in Procs : eng[q] = e /\ pc[q] \in Clearing
        BY <1>5, <2>5, <3>4 DEF Reach, Clearing
      <3> QED
        BY <3>2, <3>3, <3>4 DEF Ownership, Reached, Reach
    <2>7. Reached'
      BY <1>5, <2>6 DEF Reached, Held
    <2> QED
      BY <2>3, <2>4, <2>5, <2>7 DEF Ownership
  <1> QED
    BY <1>2, <1>3, <1>4, <1>5 DEF InitRuns, InitRejects

\* The INITIALIZING write settles: the engine is launched where it is registered.
LEMMA InitWrittenOwnership ==
  ASSUME IInv, IInv', Ownership, NEW p \in Procs, InitWritten(p)
  PROVE  Ownership' /\ pc'[p] # "catch_kill"
  <1> DEFINE i == sid[p]
             e == eng[p]
             waiters == {q \in Procs : pc[q] = "verb_wait" /\ eng[q] = e}
             locs == [q \in Procs |-> IF q \in waiters THEN "teardown" ELSE pc[q]]
  <1>1. pc[p] = "init_write" /\ op[p] = "start" /\ i \in Ids /\ e \in Engines
    BY DEF InitWritten, Ownership, Roles, Launching, IInv, ProcsOK, Handlers, HoldsEngine
  <1>2. UNCHANGED <<op, sid, engines, reconnect>>
    BY DEF InitWritten
  <1>3. NoTimers' /\ Evicts
    BY <1>2 DEF Ownership, NoTimers, Armed, Evicts
  <1>4. /\ locs \in [Procs -> Locations]
        /\ \A q \in Procs : locs[q] = pc[q] \/ (locs[q] = "teardown" /\ pc[q] = "verb_wait")
    BY DEF IInv, ProcsOK, Locations
  <1>5. CASE /\ Live(i, e)
             /\ estate' = IF estate[e] = "created" THEN [estate EXCEPT ![e] = "alive"] ELSE estate
             /\ pc' = [locs EXCEPT ![p] = "init_run"]
             /\ UNCHANGED eng
    <2>1. \A q \in Procs : Moves(q)
      BY <1>1, <1>2, <1>4, <1>5 DEF Moves, Stays, Proceeds, Ahead, Clearing, Launching
    <2>2. \A q \in Procs : pc[q] \in Clearing => pc'[q] = pc[q] /\ eng'[q] = eng[q]
      BY <1>1, <1>4, <1>5 DEF Clearing
    <2>3. Roles' /\ Homes' /\ StartsOwn'
      BY <1>3, <2>1, MovesKeepOrder DEF Ownership
    <2>4. Held' \subseteq Held \cup {e}
      BY <1>5 DEF Held, IInv, EnginesOK
    <2>5. ASSUME NEW f \in Held'
          PROVE  Reach(f)'
      <3>1. CASE f = e
        BY <1>1, <1>2, <1>5, <3>1 DEF Live, Reach
      <3>2. CASE f \in Held
        BY <1>2, <2>2, <3>2 DEF Ownership, Reached, Reach, Clearing
      <3> QED
        BY <2>4, <3>1, <3>2
    <2>6. pc'[p] = "init_run"
      BY <1>4, <1>5
    <2> QED
      BY <1>3, <2>3, <2>5, <2>6 DEF Ownership, Reached
  <1>6. ASSUME NEW k \in 1..Len(writes), InitReturns(p, locs, Without(writes, k)), UNCHANGED estate
        PROVE  Ownership' /\ pc'[p] # "catch_kill"
    <2>1. \A q \in Procs : Moves(q)
      <3> HIDE DEF locs
      <3> QED
        BY <1>1, <1>2, <1>4, <1>6, ReturnMoves DEF Ownership
    <2>2. /\ \A q \in Procs : pc[q] \in Clearing => pc'[q] = pc[q] /\ eng'[q] = eng[q]
          /\ pc'[p] # "catch_kill"
      <3> HIDE DEF locs
      <3> QED
        BY <1>1, <1>4, <1>6 DEF InitReturns, Clearing, IInv, ProcsOK
    <2> QED
      BY <1>2, <1>3, <1>6, <2>1, <2>2, QuietOwnership
  <1> QED
    BY <1>5, <1>6 DEF InitWritten

\* start() registers a new engine, which nothing else refers to, where there was none.
LEMMA StartHookOwnership ==
  ASSUME IInv, IInv', StartReservation, Ownership, NEW p \in Procs, StartHook(p)
  PROVE  Ownership' /\ pc'[p] # "catch_kill"
  <1>1. PICK i \in Ids : i = sid[p]
    BY DEF StartHook, IInv, ProcsOK, Handlers
  <1>2. /\ pc[p] = "start_hook" /\ op[p] = "start" /\ engines[i] = None
        /\ UNCHANGED <<op, sid>>
    BY <1>1 DEF StartHook, Ownership, Roles, Ahead, StartsOwn, Starting
  <1>3. PICK e \in Engines : InitializeEngine(p, i, e, engines, estate)
    BY <1>1 DEF StartHook
  <1>4. /\ engines' = [engines EXCEPT ![i] = e] /\ estate' = [estate EXCEPT ![e] = "created"]
        /\ eng' = [eng EXCEPT ![p] = e] /\ pc' = [pc EXCEPT ![p] = "init_write"]
    BY <1>3 DEF InitializeEngine, Goto
  <1>5. /\ \A j \in Ids : engines[j] # e
        /\ \A q \in Procs : eng[q] # e
        /\ e # None
    BY <1>3, ConstantsAssumption DEF InitializeEngine, Recyclable
  <1>6. /\ engines'[i] = e /\ \A j \in Ids \ {i} : engines'[j] = engines[j]
        /\ eng'[p] = e /\ \A q \in Procs \ {p} : eng'[q] = eng[q]
        /\ pc'[p] = "init_write" /\ \A q \in Procs \ {p} : pc'[q] = pc[q]
    BY <1>4 DEF IInv, ProcsOK, EnginesOK
  <1>7. NoTimers'
    <2>1. reconnect' = [reconnect EXCEPT ![i] = FreshReconnect]
      BY <1>1 DEF StartHook
    <2> QED
      BY <2>1, TimersOff DEF Ownership
  <1>8. Roles'
    <2> SUFFICES ASSUME NEW q \in Procs
                 PROVE  /\ op'[q] # "reconnect"
                        /\ pc'[q] \notin {"reconnect_kill", "reconnect_fence"}
                        /\ pc'[q] \in Ahead \cup Clearing \cup Launching => op'[q] = "start"
                        /\ pc'[q] = "idle" => eng'[q] = None
      BY DEF Roles
    <2>1. CASE q = p
      BY <1>2, <1>6, <2>1
    <2>2. CASE q # p
      BY <1>2, <1>6, <2>2 DEF Ownership, Roles
    <2> QED
      BY <2>1, <2>2
  <1>9. Homes'
    <2>1. \A j, k \in Ids : engines'[j] = engines'[k] /\ engines'[j] # None => j = k
      BY <1>5, <1>6 DEF Ownership, Homes
    <2>2. \A q \in Procs, j \in Ids : eng'[q] # None /\ engines'[j] = eng'[q] => sid'[q] = j
      BY <1>1, <1>2, <1>5, <1>6 DEF Ownership, Homes
    <2>3. \A q, r \in Procs : eng'[q] # None /\ eng'[q] = eng'[r] => sid'[q] = sid'[r]
      BY <1>2, <1>5, <1>6 DEF Ownership, Homes
    <2> QED
      BY <2>1, <2>2, <2>3 DEF Homes
  <1>10. StartsOwn'
    <2> SUFFICES ASSUME NEW q \in Procs, op'[q] = "start"
                 PROVE  /\ pc'[q] \in {"start_fence", "start_hook"} => engines'[sid'[q]] = None
                        /\ pc'[q] \notin Ahead => engines'[sid'[q]] \in {None, eng'[q]}
      BY DEF StartsOwn, Starting
    <2>1. CASE q = p
      BY <1>1, <1>2, <1>6, <2>1 DEF Ahead
    <2>2. CASE q # p
      <3>1. sid[q] # i /\ sid[q] \in Ids
        BY <1>1, <1>2, <2>2 DEF StartReservation, Starting, IInv, ProcsOK, Handlers
      <3> QED
        BY <1>2, <1>6, <2>2, <3>1 DEF Ownership, StartsOwn, Starting
    <2> QED
      BY <2>1, <2>2
  <1>11. Reached'
    <2> SUFFICES ASSUME NEW f \in Held'
                 PROVE  Reach(f)'
      BY DEF Reached
    <2>1. f \in Held /\ f # e /\ f # None
      BY <1>4, ConstantsAssumption DEF Held, IInv, EnginesOK
    <2>2. CASE \E j \in Ids : engines[j] = f
      BY <1>2, <1>6, <2>1, <2>2 DEF Reach
    <2>3. CASE \E q \in Procs : eng[q] = f /\ pc[q] \in Clearing
      BY <1>2, <1>6, <2>3 DEF Reach, Clearing
    <2> QED
      BY <2>1, <2>2, <2>3 DEF Ownership, Reached, Reach
  <1> QED
    BY <1>6, <1>7, <1>8, <1>9, <1>10, <1>11 DEF Ownership

-----------------------------------------------------------------------------
\* Every continuation of a handler keeps the engines in order, and a start's catch kills
\* the engine the start created.
LEMMA StepOwnership ==
  ASSUME MaxAttempts = 0, IInv, IInv', StartReservation, Ownership, NEW p \in Procs, Step(p)
  PROVE  Ownership' /\ (pc'[p] = "catch_kill" => pc[p] = "catch_kill" \/ eng'[p] = eng[p])
  <1>1. CASE StartRow(p) \/ StartFence(p)
    <2>1. \A q \in Procs : Moves(q)
      BY <1>1, StartMoves DEF Ownership
    <2>2. UNCHANGED <<engines, estate>> /\ (UNCHANGED reconnect \/ CancelReconnect(sid[p]))
      BY <1>1 DEF StartRow, StartFence, AdmitStart
    <2>3. /\ \A q \in Procs : pc[q] \in Clearing => pc'[q] = pc[q] /\ eng'[q] = eng[q]
          /\ pc'[p] # "catch_kill" /\ sid[p] \in Ids
      BY <1>1 DEF StartRow, StartFence, AdmitStart, Finish, Goto, Clearing, IInv, ProcsOK, Handlers
    <2>4. NoTimers'
      BY <2>2, <2>3, TimersOff DEF Ownership
    <2> QED
      BY <2>1, <2>2, <2>3, <2>4, QuietOwnership
  <1>2. CASE PurgeCheck(p) \/ Purged(p) \/ CatchWritten(p) \/ PostRow(p)
    <2>1. \A q \in Procs : Moves(q)
      BY <1>2, PurgeMoves DEF Ownership
    <2>2. UNCHANGED <<engines, estate>> /\ (UNCHANGED reconnect \/ CancelReconnect(sid[p]))
      BY <1>2 DEF PurgeCheck, Purged, CatchWritten, PostRow
    <2>3. /\ \A q \in Procs : pc[q] \in Clearing => pc'[q] = pc[q] /\ eng'[q] = eng[q]
          /\ pc'[p] # "catch_kill" /\ sid[p] \in Ids
      BY <1>2 DEF PurgeCheck, Purged, CatchWritten, PostRow, Finish, Goto, Clearing, IInv, ProcsOK,
         Handlers
    <2>4. NoTimers'
      BY <2>2, <2>3, TimersOff DEF Ownership
    <2> QED
      BY <2>1, <2>2, <2>3, <2>4, QuietOwnership
  <1>3. CASE VerbRow(p) \/ DeleteFence1(p) \/ VerbWaited(p) \/ DeleteFence2(p) \/ DeleteCommits(p)
             \/ DeletePurged(p) \/ VerbWritten(p)
    <2>1. \A q \in Procs : Moves(q)
      BY <1>3, VerbMoves DEF Ownership
    <2>2. UNCHANGED <<engines, estate>> /\ (UNCHANGED reconnect \/ CancelReconnect(sid[p]))
      BY <1>3 DEF VerbRow, DeleteFence1, Retire, VerbWaited, DeleteFence2, DeleteCommits,
         DeletePurged, VerbWritten
    <2>3. /\ pc[p] \in {"verb_row", "delete_fence1", "verb_wait", "delete_fence2", "delete_hook",
                        "delete_purge", "verb_write", "refuse_write"}
          /\ \E l : Goto(p, l) /\ l # "catch_kill"
          /\ \A q \in Procs \ {p} : eng'[q] = eng[q]
      <3>1. CASE VerbRow(p) \/ DeleteFence1(p)
        BY <3>1 DEF VerbRow, DeleteFence1, Retire, BeginTeardown, ToDeleteFence2, Finish, Goto, IInv, ProcsOK
      <3>2. CASE VerbWaited(p) \/ DeleteFence2(p)
        BY <3>2 DEF VerbWaited, DeleteFence2, BeginTeardown, Finish, Goto, IInv, ProcsOK
      <3>3. CASE DeleteCommits(p) \/ DeletePurged(p) \/ VerbWritten(p)
        BY <3>3 DEF DeleteCommits, DeletePurged, VerbWritten, Finish, Goto, IInv, ProcsOK
      <3> QED
        BY <1>3, <3>1, <3>2, <3>3
    <2>4. /\ \A q \in Procs : pc[q] \in Clearing => pc'[q] = pc[q] /\ eng'[q] = eng[q]
          /\ pc'[p] # "catch_kill" /\ sid[p] \in Ids
      BY <2>3 DEF Goto, Clearing, IInv, ProcsOK, Handlers
    <2>5. NoTimers'
      BY <2>2, <2>4, TimersOff DEF Ownership
    <2> QED
      BY <2>1, <2>2, <2>4, <2>5, QuietOwnership
  <1>4. CASE InitKilled(p) \/ CatchKilled(p) \/ RetireKilled(p) \/ TornDown(p)
    <2>1. UNCHANGED eng
      BY <1>4 DEF InitKilled, CatchKilled, RetireKilled, TornDown
    <2> QED
      BY <1>4, <2>1, KillOwnership
  <1>5. CASE InitWriteFails(p) \/ InitKillWritten(p)
    <2>1. PICK k \in 1..Len(writes) : Throw(p, Without(writes, k))
      BY <1>5 DEF InitWriteFails, InitKillWritten
    <2>2. pc[p] \in Launching
      BY <1>5 DEF InitWriteFails, InitKillWritten, Launching
    <2> QED
      BY <2>1, <2>2, ThrowOwnership
  <1>6. CASE StartHook(p)
    BY <1>6, StartHookOwnership
  <1>7. CASE InitWritten(p)
    BY <1>7, InitWrittenOwnership
  <1>8. CASE InitRuns(p)
    BY <1>8, InitRunsOwnership
  <1>9. CASE ReconnectKilled(p) \/ ReconnectFence(p)
    BY <1>9 DEF ReconnectKilled, ReconnectFence, Ownership, Roles
  <1> QED
    BY <1>1, <1>2, <1>3, <1>4, <1>5, <1>6, <1>7, <1>8, <1>9 DEF Step

\* A client's call touches no engine.
LEMMA ClientOwnership ==
  ASSUME IInv, IInv', Ownership,
         \/ \E i \in Ids : Create(i)
         \/ \E p \in Procs, v \in Verbs, i \in Ids : Request(p, v, i)
  PROVE  Ownership' /\ \A q \in Procs : pc'[q] = pc[q] \/ pc'[q] \in {"start_row", "verb_row"}
  <1>1. UNCHANGED <<engines, estate, reconnect>>
    BY DEF Create, Request
  <1>2. NoTimers'
    BY <1>1 DEF Ownership, NoTimers, Armed
  <1>3. ASSUME NEW i \in Ids, Create(i)
        PROVE  UNCHANGED procVars
    BY <1>3 DEF Create
  <1>4. ASSUME NEW p \in Procs, NEW v \in Verbs, NEW i \in Ids, Request(p, v, i)
        PROVE  \A q \in Procs : /\ Moves(q)
                                /\ pc[q] \in Clearing => pc'[q] = pc[q] /\ eng'[q] = eng[q]
                                /\ pc'[q] = pc[q] \/ pc'[q] \in {"start_row", "verb_row"}
    <2>1. eng[p] = None /\ v # "reconnect" /\ pc[p] = "idle"
      BY <1>4, ConstantsAssumption DEF Request, Ownership, Roles
    <2>2. UNCHANGED eng
      BY <1>4 DEF Request
    <2>3. /\ pc'[p] = IF v = "start" THEN "start_row" ELSE "verb_row"
          /\ op'[p] = v
          /\ \A q \in Procs \ {p} : pc'[q] = pc[q] /\ op'[q] = op[q] /\ sid'[q] = sid[q]
      BY <1>4 DEF Request, IInv, ProcsOK
    <2>4. Opens(p)
      BY <2>1, <2>2, <2>3 DEF Opens
    <2> QED
      BY <2>1, <2>2, <2>3, <2>4 DEF Moves, Stays, Clearing
  <1>5. \A q \in Procs : /\ Moves(q)
                         /\ pc[q] \in Clearing => pc'[q] = pc[q] /\ eng'[q] = eng[q]
                         /\ pc'[q] = pc[q] \/ pc'[q] \in {"start_row", "verb_row"}
    BY <1>3, <1>4, IdleMoves DEF procVars
  <1> QED
    BY <1>1, <1>2, <1>5, QuietOwnership

\* What an engine reports evicts it or leaves it registered.
LEMMA EventOwnership ==
  ASSUME IInv, IInv', Ownership, EngineEvent
  PROVE  Ownership' /\ UNCHANGED procVars
  <1>1. UNCHANGED procVars
    BY DEF EngineEvent, EngineReady, EngineState, EngineLost, EngineError, StuckAuth, EngineUnlinked
  <1>2. /\ \A q \in Procs : Moves(q)
        /\ \A q \in Procs : pc[q] \in Clearing => pc'[q] = pc[q] /\ eng'[q] = eng[q]
    BY <1>1, IdleMoves DEF procVars
  <1>3. ASSUME NEW i \in Ids, EngineReady(i)
        PROVE  Ownership'
    <2>1. NoTimers'
      <3> SUFFICES ASSUME NEW j \in Ids, Armed(j)'
                   PROVE  FALSE
        BY DEF NoTimers
      <3>1. CASE j # i
        BY <1>3, <3>1 DEF EngineReady, Ownership, NoTimers, Armed, IInv, ReconnectOK
      <3>2. CASE j = i
        BY <1>3, <3>2 DEF EngineReady, Ownership, NoTimers, Armed, IInv, ReconnectOK
      <3> QED
        BY <3>1, <3>2
    <2> QED
      BY <1>2, <1>3, <2>1, QuietOwnership DEF EngineReady
  <1>4. ASSUME NEW i \in Ids, EngineState(i) \/ StuckAuth(i) \/ \E e \in Engines : EngineUnlinked(i, e)
        PROVE  Ownership'
    <2>1. UNCHANGED <<engines, estate, reconnect>>
      BY <1>4 DEF EngineState, StuckAuth, EngineUnlinked
    <2>2. NoTimers'
      BY <2>1 DEF Ownership, NoTimers, Armed
    <2> QED
      BY <1>2, <2>1, <2>2, QuietOwnership
  <1>5. ASSUME NEW i \in Ids, EngineLost(i)
        PROVE  Ownership'
    <2>1. UNCHANGED <<engines, reconnect>> /\ engines[i] # None
          /\ (UNCHANGED estate \/ estate' = [estate EXCEPT ![engines[i]] = "down"])
      BY <1>5 DEF EngineLost, EngineUp
    <2>2. NoTimers' /\ Evicts
      BY <2>1 DEF Ownership, NoTimers, Armed, Evicts
    <2>3. Roles' /\ Homes' /\ StartsOwn'
      BY <1>2, <2>2, MovesKeepOrder DEF Ownership
    <2>4. Reached'
      <3> SUFFICES ASSUME NEW f \in Held'
                   PROVE  Reach(f)'
        BY DEF Reached
      <3>1. f = engines[i] \/ f \in Held
        BY <2>1 DEF Held, IInv, EnginesOK
      <3>2. f = engines[i] \/ Reach(f)
        BY <3>1 DEF Ownership, Reached
      <3> QED
        BY <1>1, <2>1, <3>2 DEF Reach, procVars
    <2> QED
      BY <2>2, <2>3, <2>4 DEF Ownership
  <1>6. ASSUME NEW i \in Ids, EngineError(i)
        PROVE  Ownership'
    <2>1. NoTimers'
      BY <1>6, TimersOff DEF EngineError, OnError, Ownership
    <2> QED
      BY <1>2, <1>6, <2>1, EvictOwnership DEF EngineError, OnError
  <1> QED
    BY <1>1, <1>3, <1>4, <1>5, <1>6 DEF EngineEvent

\* So does what settles in the background.
LEMMA BackgroundOwnership ==
  ASSUME MaxAttempts = 0, IInv, IInv', Ownership, Background
  PROVE  Ownership' /\ UNCHANGED procVars
  <1>1. UNCHANGED procVars
    BY DEF Background, HandleLost, Reap, LeftBehind, WipeSettles, WriteSettles
  <1>2. /\ \A q \in Procs : Moves(q)
        /\ \A q \in Procs : pc[q] \in Clearing => pc'[q] = pc[q] /\ eng'[q] = eng[q]
    BY <1>1, IdleMoves DEF procVars
  <1>3. ASSUME NEW i \in Ids, NEW e, HandleLost(i, e)
        PROVE  Ownership'
    <2>1. CASE UNCHANGED <<engines, estate, reconnect>>
      <3>1. NoTimers'
        BY <2>1 DEF Ownership, NoTimers, Armed
      <3> QED
        BY <1>2, <2>1, <3>1, QuietOwnership
    <2>2. CASE ScheduleReconnect(i, engines, estate,
                                 Append(writes, StatusWrite(i, "disconnected", None)))
      <3>1. NoTimers' /\ \/ engines' = engines /\ estate' = estate
                         \/ engines' = [engines EXCEPT ![i] = None] /\ estate' = Reaping(estate, engines[i])
        BY <2>2, ScheduleGivesUp DEF Ownership
      <3> QED
        BY <1>2, <3>1, QuietOwnership, EvictOwnership
    <2> QED
      BY <1>3, <2>1, <2>2 DEF HandleLost
  <1>4. ASSUME NEW e \in Engines, Reap(e)
        PROVE  Ownership'
    <2>1. UNCHANGED <<engines, reconnect>> /\ estate' = [estate EXCEPT ![e] = "gone"]
      BY <1>4 DEF Reap, Closed
    <2>2. NoTimers' /\ Evicts
      BY <2>1 DEF Ownership, NoTimers, Armed, Evicts
    <2>3. Roles' /\ Homes' /\ StartsOwn'
      BY <1>2, <2>2, MovesKeepOrder DEF Ownership
    <2>4. Reached'
      <3>1. \A f \in Engines : estate'[f] \in {"alive", "down"} => f # e /\ estate[f] \in {"alive", "down"}
        BY <2>1 DEF IInv, EnginesOK
      <3> QED
        BY <1>2, <2>1, <2>2, <3>1, ClosedReached DEF Ownership
    <2> QED
      BY <2>2, <2>3, <2>4 DEF Ownership
  <1>5. ASSUME NEW w \in wiping, WipeSettles(w)
        PROVE  Ownership'
    <2>1. UNCHANGED <<engines, reconnect>>
          /\ (UNCHANGED estate \/ /\ \E i \in Ids : engines[i] = w.engine
                                  /\ estate' = [estate EXCEPT ![w.engine] = "down"])
      BY <1>5 DEF WipeSettles, Live
    <2>2. NoTimers' /\ Evicts
      BY <2>1 DEF Ownership, NoTimers, Armed, Evicts
    <2>3. Roles' /\ Homes' /\ StartsOwn'
      BY <1>2, <2>2, MovesKeepOrder DEF Ownership
    <2>4. Reached'
      <3> SUFFICES ASSUME NEW f \in Held'
                   PROVE  Reach(f)'
        BY DEF Reached
      <3>1. f \in Held \/ \E i \in Ids : engines[i] = f
        BY <2>1 DEF Held, IInv, EnginesOK
      <3>2. Reach(f)
        BY <3>1 DEF Ownership, Reached, Reach
      <3> QED
        BY <1>1, <2>1, <3>2 DEF Reach, procVars
    <2> QED
      BY <2>2, <2>3, <2>4 DEF Ownership
  <1>6. ASSUME WriteSettles
        PROVE  Ownership'
    <2>1. UNCHANGED <<engines, estate, reconnect>>
      BY <1>6 DEF WriteSettles
    <2>2. NoTimers'
      BY <2>1 DEF Ownership, NoTimers, Armed
    <2> QED
      BY <1>2, <2>1, <2>2, QuietOwnership
  <1>7. ASSUME NEW l \in lost, HandleLost(l[1], l[2])
        PROVE  Ownership'
    <2>1. l[1] \in Ids
      BY DEF IInv, LostOK
    <2> QED
      BY <1>3, <1>7, <2>1
  <1>8. ASSUME NEW n \in leaked, LeftBehind(n)
        PROVE  Ownership'
    <2>1. UNCHANGED <<engines, estate, reconnect>>
      BY <1>8 DEF LeftBehind
    <2>2. NoTimers'
      BY <2>1 DEF Ownership, NoTimers, Armed
    <2> QED
      BY <1>2, <2>1, <2>2, QuietOwnership
  <1> QED
    BY <1>1, <1>4, <1>5, <1>6, <1>7, <1>8 DEF Background

\* A step moves one handler; the INITIALIZING write that lands also lets the verbs that
\* waited for it begin their teardown.
LEMMA OthersStay ==
  ASSUME IInv, NEW p \in Procs, Step(p), NEW q \in Procs \ {p}
  PROVE  /\ pc'[q] = pc[q] \/ (InitWritten(p) /\ pc[q] = "verb_wait" /\ pc'[q] = "teardown")
         /\ op'[q] = op[q] /\ sid'[q] = sid[q] /\ eng'[q] = eng[q]
  <1>1. CASE StartRow(p) \/ StartFence(p) \/ StartHook(p)
    BY <1>1 DEF StartRow, StartFence, StartHook, AdmitStart, InitializeEngine, Finish, Goto, IInv, ProcsOK
  <1>2. CASE InitWritten(p)
    BY <1>2 DEF InitWritten, InitReturns, IInv, ProcsOK
  <1>3. CASE InitWriteFails(p) \/ InitRuns(p) \/ InitKilled(p) \/ InitKillWritten(p)
    BY <1>3 DEF InitWriteFails, InitRuns, InitReturns, InitRejects, InitKilled, InitKillWritten,
       Throw, Finish, Goto, IInv, ProcsOK
  <1>4. CASE CatchKilled(p) \/ CatchWritten(p) \/ PostRow(p) \/ RetireKilled(p) \/ PurgeCheck(p)
             \/ Purged(p)
    BY <1>4 DEF CatchKilled, CatchWritten, PostRow, RetireKilled, PurgeCheck, Purged, Finish, Goto,
       IInv, ProcsOK
  <1>5. CASE VerbRow(p) \/ DeleteFence1(p) \/ VerbWaited(p) \/ TornDown(p) \/ DeleteFence2(p)
    BY <1>5 DEF VerbRow, DeleteFence1, Retire, VerbWaited, TornDown, DeleteFence2, BeginTeardown,
       ToDeleteFence2, Finish, Goto, IInv, ProcsOK
  <1>6. CASE DeleteCommits(p) \/ DeletePurged(p) \/ VerbWritten(p) \/ ReconnectKilled(p)
             \/ ReconnectFence(p)
    BY <1>6 DEF DeleteCommits, DeletePurged, VerbWritten, ReconnectKilled, ReconnectFence,
       InitializeEngine, Throw, Finish, Goto, IInv, ProcsOK
  <1> QED
    BY <1>1, <1>2, <1>3, <1>4, <1>5, <1>6 DEF Step

\* Every step keeps the engines in order.
LEMMA OwnershipStep ==
  ASSUME MaxAttempts = 0, IInv, StartReservation, Ownership, [Next]_vars
  PROVE  /\ Ownership'
         /\ \A p \in Procs : pc[p] # "catch_kill" /\ pc'[p] = "catch_kill" => eng'[p] = eng[p]
  <1>1. IInv'
    BY NextInv
  <1>2. CASE UNCHANGED vars
    BY <1>2 DEF vars, procVars, Ownership, NoTimers, Armed, Roles, Homes, StartsOwn, Starting,
       Reached, Reach, Held
  <1>3. ASSUME NEW p \in Procs, Step(p)
        PROVE  /\ Ownership'
               /\ \A q \in Procs : pc[q] # "catch_kill" /\ pc'[q] = "catch_kill" => eng'[q] = eng[q]
    <2>1. Ownership' /\ (pc'[p] = "catch_kill" => pc[p] = "catch_kill" \/ eng'[p] = eng[p])
      BY <1>1, <1>3, StepOwnership
    <2>2. \A q \in Procs \ {p} : pc'[q] = "catch_kill" => pc[q] = "catch_kill"
      BY <1>3, OthersStay
    <2> QED
      BY <2>1, <2>2
  <1>4. ASSUME NEW p \in Procs, NEW i \in Ids, TimerFires(p, i)
        PROVE  FALSE
    BY <1>4 DEF TimerFires, Ownership, NoTimers
  <1>5. CASE (\E i \in Ids : Create(i)) \/ (\E p \in Procs, v \in Verbs, i \in Ids : Request(p, v, i))
    BY <1>1, <1>5, ClientOwnership
  <1>6. CASE EngineEvent \/ Background
    BY <1>1, <1>6, EventOwnership, BackgroundOwnership DEF procVars
  <1> QED
    BY <1>2, <1>3, <1>4, <1>5, <1>6 DEF Next

\* Nothing is registered or running when the process boots.
LEMMA InitOwnership ==
  ASSUME Init
  PROVE  Ownership
  BY ConstantsAssumption DEF Init, Ownership, NoTimers, Armed, Roles, Homes, StartsOwn, Starting, Reached,
     Held, Ahead, Clearing, Launching

\* With no reconnects, engines stay in order for ever.
LEMMA OwnershipHolds ==
  ASSUME MaxAttempts = 0
  PROVE  Spec => []Ownership
  <1>1. Init => Ownership
    BY InitOwnership
  <1>2. IInv /\ StartReservation /\ Ownership /\ [Next]_vars => Ownership'
    BY OwnershipStep
  <1> QED
    BY <1>1, <1>2, Inductive, ReservationHolds, PTL DEF Spec

\* With no reconnects no engine is ever left running out of reach, whatever verbs race,
\* whatever database calls fail and whatever engines report.
THEOREM EnginesReached ==
  ASSUME MaxAttempts = 0
  PROVE  Spec => []NoOrphanEngine
  <1>1. Ownership => NoOrphanEngine
    BY DEF Ownership, Reached, Reach, NoOrphanEngine, Owned, Torn, Killing, Clearing
  <1> QED
    BY <1>1, OwnershipHolds, PTL

\* With no reconnects the engine that the catch of a start kills is the one it created.
THEOREM CatchKillsItsOwn ==
  ASSUME MaxAttempts = 0
  PROVE  Spec => StartCatchOwnsEngine
  <1>1. IInv /\ StartReservation /\ Ownership /\ [Next]_vars =>
          [\A p \in Procs : pc[p] # "catch_kill" /\ pc'[p] = "catch_kill" => eng'[p] = eng[p]]_vars
    BY OwnershipStep
  <1> QED
    BY <1>1, OwnershipHolds, Inductive, ReservationHolds, PTL DEF Spec, StartCatchOwnsEngine

-----------------------------------------------------------------------------
(* The cap on sessions *)

\* Only start(), coming back from its hook, registers an engine.
LEMMA StepEvicts ==
  ASSUME IInv, Ownership, NEW p \in Procs, Step(p), ~StartHook(p)
  PROVE  Evicts
  <1>1. \A i \in Ids : engines[i] \in {engines[i], None}
    OBVIOUS
  <1>2. CASE StartRow(p) \/ StartFence(p) \/ InitWritten(p) \/ InitKilled(p) \/ CatchKilled(p)
             \/ CatchWritten(p) \/ PostRow(p) \/ PurgeCheck(p) \/ Purged(p)
    BY <1>2 DEF Evicts, StartRow, StartFence, InitWritten, InitKilled, CatchKilled, CatchWritten, PostRow,
       PurgeCheck, Purged
  <1>3. ASSUME NEW ws, Throw(p, ws)
        PROVE  Evicts
    BY <1>3 DEF Throw, Evicts, Ownership, Roles, IInv, EnginesOK
  <1>4. CASE InitWriteFails(p) \/ InitRuns(p) \/ InitKillWritten(p)
    BY <1>3, <1>4 DEF Evicts, InitWriteFails, InitRuns, InitRejects, OnError, InitKillWritten, IInv, EnginesOK
  <1>5. CASE RetireKilled(p) \/ TornDown(p)
    BY <1>5 DEF Evicts, RetireKilled, TornDown, DeleteIfLive, IInv, EnginesOK
  <1>6. CASE VerbRow(p) \/ DeleteFence1(p) \/ VerbWaited(p) \/ DeleteFence2(p) \/ DeleteCommits(p)
             \/ DeletePurged(p) \/ VerbWritten(p)
    BY <1>6 DEF Evicts, VerbRow, DeleteFence1, VerbWaited, DeleteFence2, DeleteCommits, DeletePurged,
       VerbWritten
  <1>7. CASE ReconnectKilled(p) \/ ReconnectFence(p)
    BY <1>7 DEF ReconnectKilled, ReconnectFence, Ownership, Roles
  <1> QED
    BY <1>2, <1>4, <1>5, <1>6, <1>7 DEF Step

\* Nothing outside a handler registers one.
LEMMA OutsideEvicts ==
  ASSUME MaxAttempts = 0, IInv, Ownership,
         \/ \E i \in Ids : Create(i)
         \/ \E p \in Procs, v \in Verbs, i \in Ids : Request(p, v, i)
         \/ EngineEvent \/ Background
  PROVE  Evicts
  <1>1. ASSUME NEW i \in Ids, NEW e, HandleLost(i, e)
        PROVE  Evicts
    <2>1. \/ engines' = engines
          \/ engines' = [engines EXCEPT ![i] = None]
      BY <1>1, ScheduleGivesUp DEF HandleLost, Ownership
    <2> QED
      BY <2>1 DEF Evicts, IInv, EnginesOK
  <1>2. ASSUME NEW l \in lost, HandleLost(l[1], l[2])
        PROVE  Evicts
    <2>1. l[1] \in Ids
      BY DEF IInv, LostOK
    <2> QED
      BY <1>1, <1>2, <2>1
  <1>3. CASE Background
    BY <1>2, <1>3 DEF Background, Reap, LeftBehind, WipeSettles, WriteSettles, Evicts
  <1>4. CASE EngineEvent
    BY <1>4 DEF EngineEvent, EngineReady, EngineState, EngineLost, EngineError, OnError, StuckAuth,
       EngineUnlinked, Evicts, IInv, EnginesOK
  <1>5. CASE (\E i \in Ids : Create(i)) \/ (\E p \in Procs, v \in Verbs, i \in Ids : Request(p, v, i))
    BY <1>5 DEF Create, Request, Evicts
  <1> QED
    BY <1>3, <1>4, <1>5

\* Sessions are admitted by the check at the head of start() and by nothing else.
LEMMA AdmittedStep ==
  ASSUME MaxAttempts = 0, IInv, Ownership, [Next]_vars
  PROVE  \/ Admitted' \subseteq Admitted
         \/ \E p \in Procs : StartRow(p) /\ Admitted' \subseteq Admitted \cup {sid[p]}
                             /\ pc'[p] # "idle"
  <1> DEFINE In(i) == engines[i] # None \/ \E p \in Starting : sid[p] = i /\ pc[p] # "start_row"
  <1>0. Admitted = {i \in Ids : In(i)} /\ Admitted' = {i \in Ids : In(i)'}
    BY DEF Admitted
  <1>1. CASE UNCHANGED vars
    BY <1>1 DEF vars, procVars, Admitted, Starting
  <1>2. ASSUME NEW p \in Procs, Step(p)
        PROVE  \/ Admitted' \subseteq Admitted
               \/ StartRow(p) /\ Admitted' \subseteq Admitted \cup {sid[p]} /\ pc'[p] # "idle"
    <2>1. /\ \A q \in Starting' : q \in Starting /\ sid'[q] = sid[q]
          /\ pc'[p] = "idle" => p \notin Starting'
      <3>1. UNCHANGED <<op, sid, initializing>> \/ Finish(p)
        BY <1>2, StepShape
      <3>2. IInv'
        BY <1>2, NextInv
      <3> QED
        BY <3>1, <3>2 DEF Finish, Starting, IInv, ProcsOK, Handlers
    <2>2. \A q \in Procs \ {p} : pc[q] = "start_row" => pc'[q] = "start_row"
      BY <1>2, OthersStay
    <2>3. \A i \in Ids : engines'[i] # None =>
            engines[i] # None \/ (StartHook(p) /\ i = sid[p] /\ p \in Starting /\ pc[p] # "start_row")
      <3>1. CASE StartHook(p)
        BY <3>1 DEF StartHook, InitializeEngine, Ownership, Roles, Ahead, Starting, IInv, EnginesOK
      <3>2. CASE ~StartHook(p)
        BY <1>2, <3>2, StepEvicts DEF Evicts
      <3> QED
        BY <3>1, <3>2
    <2>4. pc[p] = "start_row" => StartRow(p)
      BY <1>2 DEF Step, StartFence, StartHook, InitWritten, InitWriteFails, InitRuns, InitKilled,
         InitKillWritten, CatchKilled, CatchWritten, PostRow, RetireKilled, PurgeCheck, Purged,
         VerbRow, DeleteFence1, VerbWaited, TornDown, DeleteFence2, DeleteCommits, DeletePurged,
         VerbWritten, ReconnectKilled, ReconnectFence
    <2>5. ASSUME NEW i \in Ids, In(i)'
          PROVE  In(i) \/ (StartRow(p) /\ i = sid[p] /\ pc'[p] # "idle")
      <3>1. CASE engines'[i] # None
        BY <2>3, <3>1
      <3>2. ASSUME NEW q \in Starting', sid'[q] = i, pc'[q] # "start_row"
            PROVE  In(i) \/ (StartRow(p) /\ i = sid[p] /\ pc'[p] # "idle")
        <4>1. q \in Starting /\ sid[q] = i /\ q \in Procs
          BY <2>1, <3>2 DEF Starting
        <4>2. CASE q = p
          BY <2>1, <2>4, <3>2, <4>1, <4>2
        <4>3. CASE q # p
          BY <2>2, <3>2, <4>1, <4>3
        <4> QED
          BY <4>2, <4>3
      <3> QED
        BY <2>5, <3>1, <3>2
    <2> HIDE DEF In
    <2> QED
      BY <1>0, <2>5
  <1>3. CASE \/ \E i \in Ids : Create(i)
             \/ \E p \in Procs, v \in Verbs, i \in Ids : Request(p, v, i)
             \/ EngineEvent \/ Background
    <2>1. Evicts
      BY <1>3, OutsideEvicts
    <2>2. \A q \in Starting' : \/ q \in Starting /\ sid'[q] = sid[q] /\ pc'[q] = pc[q]
                              \/ pc'[q] = "start_row"
      <3>1. CASE \E p \in Procs, v \in Verbs, i \in Ids : Request(p, v, i)
        BY <3>1 DEF Request, Starting, IInv, ProcsOK
      <3>2. CASE (\E i \in Ids : Create(i)) \/ EngineEvent \/ Background
        BY <3>2 DEF Create, EngineEvent, EngineReady, EngineState, EngineLost, EngineError, StuckAuth,
           EngineUnlinked, Background, HandleLost, Reap, LeftBehind, WipeSettles, WriteSettles, procVars, Starting
      <3> QED
        BY <1>3, <3>1, <3>2
    <2> QED
      BY <2>1, <2>2 DEF Evicts, Admitted
  <1>4. ASSUME NEW p \in Procs, NEW i \in Ids, TimerFires(p, i)
        PROVE  FALSE
    BY <1>4 DEF TimerFires, Ownership, NoTimers
  <1> QED
    BY <1>1, <1>2, <1>3, <1>4 DEF Next

\* The check leaves room for the session it admits.
LEMMA CapStep ==
  ASSUME MaxAttempts = 0, IInv, StartReservation, Ownership, CapRespected, [Next]_vars
  PROVE  CapRespected'
  <1> SUFFICES ASSUME MaxConcurrent > 0
               PROVE  Cardinality(Admitted') <= MaxConcurrent
    BY DEF CapRespected
  <1>1. MaxConcurrent \in Nat /\ IsFiniteSet(Ids) /\ Cardinality(Admitted) <= MaxConcurrent
    BY ConstantsAssumption DEF CapRespected
  <1>2. IsFiniteSet(Admitted) /\ IsFiniteSet(Admitted')
    BY <1>1, FS_Subset DEF Admitted
  <1>3. CASE Admitted' \subseteq Admitted
    <2>1. Cardinality(Admitted') <= Cardinality(Admitted)
      BY <1>2, <1>3, FS_Subset
    <2> QED
      BY <1>1, <1>2, <2>1, FS_CardinalityType
  <1>4. ASSUME NEW p \in Procs, StartRow(p), Admitted' \subseteq Admitted \cup {sid[p]}, pc'[p] # "idle"
        PROVE  Cardinality(Admitted') <= MaxConcurrent
    <2> DEFINE Others == ActiveOthers(sid[p])
    <2>1. Admitted' \subseteq Others \cup {sid[p]}
      BY <1>4 DEF ActiveOthers, Admitted, StartReservation
    <2>2. Others \subseteq Ids /\ sid[p] \notin Others
      BY DEF ActiveOthers, IInv, ProcsOK
    <2>3. ~(Cardinality(Others) >= MaxConcurrent)
      BY <1>4 DEF StartRow, Finish, IInv, ProcsOK
    <2> HIDE DEF Others
    <2>4. IsFiniteSet(Others) /\ Cardinality(Others) \in Nat
      BY <1>1, <2>2, FS_Subset, FS_CardinalityType
    <2>5. IsFiniteSet(Others \cup {sid[p]}) /\ Cardinality(Others \cup {sid[p]}) = Cardinality(Others) + 1
      BY <2>2, <2>4, FS_AddElement
    <2>6. Cardinality(Admitted') <= Cardinality(Others \cup {sid[p]})
      BY <2>1, <2>5, FS_Subset
    <2>7. Cardinality(Admitted') \in Nat
      BY <1>2, FS_CardinalityType
    <2> QED
      BY <1>1, <2>3, <2>4, <2>5, <2>6, <2>7
  <1> QED
    BY <1>3, <1>4, AdmittedStep

\* With no reconnects the sessions that run or start never exceed the cap, however their
\* starts overlap, and whatever database calls fail.
THEOREM CapHolds ==
  ASSUME MaxAttempts = 0
  PROVE  Spec => []CapRespected
  <1>1. Init => CapRespected
    <2> SUFFICES ASSUME Init
                 PROVE  CapRespected
      OBVIOUS
    <2>1. Admitted = {}
      BY DEF Init, Admitted, Starting
    <2> QED
      BY <2>1, FS_EmptySet, ConstantsAssumption DEF CapRespected
  <1>2. IInv /\ StartReservation /\ Ownership /\ CapRespected /\ [Next]_vars => CapRespected'
    BY CapStep
  <1> QED
    BY <1>1, <1>2, Inductive, ReservationHolds, OwnershipHolds, PTL DEF Spec

-----------------------------------------------------------------------------
(* The fence before a launch *)

\* No reconnects, no failing database, engines that report nothing once torn down, and no
\* session created under a name in use or used before.
Confined ==
  /\ MaxAttempts = 0 /\ ~DbFaults /\ ~StrayReports
  /\ \A i, j \in Ids : NameOf[i] = NameOf[j] => i = j

\* A session's INITIALIZING write is tracked exactly while its start waits for it.
Tracked ==
  \A i \in Ids, p \in Procs : pendingInit[i] = p <=> pc[p] = "init_write" /\ sid[p] = i
\* Until it has landed the engine of that start is not running.
Unlaunched == \A p \in Procs : pc[p] = "init_write" => estate[eng[p]] # "alive"
\* From its fence to the launch of its engine a start knows of every tracked rm of its name:
\* it waits for it, or there is none.
Fenced ==
  \A p \in Starting :
    /\ pc[p] = "start_fence" =>
         \A w \in wiping : w.name = NameOf[sid[p]] /\ w.tracked => p \in w.waiters
    /\ pc[p] \in {"start_hook", "init_write"} =>
         \A w \in wiping : w.name = NameOf[sid[p]] => ~w.tracked

TrackInv == Tracked /\ Unlaunched
FenceInv == TrackInv /\ Fenced

Between == {"start_fence", "start_hook", "init_write"}

\* No tracked rm of i's directory begins in this step, and p goes on waiting for what it
\* waits for.
NoNewRm(i, p) ==
  \A w \in wiping' : w.name = NameOf[i] /\ w.tracked =>
    \E v \in wiping : /\ v.name = NameOf[i] /\ v.tracked
                      /\ p \in v.waiters => p \in w.waiters

\* Joining or leaving the waiters of an rm begins none.
LEMMA WaitingIsNoRm ==
  ASSUME NEW p \in Procs, NEW i \in Ids, NEW q \in Procs \ {p}, NEW n,
         UNCHANGED wiping \/ Await(q, n) \/ GiveUp(q)
  PROVE  NoNewRm(i, p)
  <1>1. CASE UNCHANGED wiping
    BY <1>1 DEF NoNewRm
  <1>2. CASE Await(q, n)
    <2> SUFFICES ASSUME NEW v \in wiping,
                        NEW w, w = IF v.name = n /\ v.tracked THEN [v EXCEPT !.waiters = @ \cup {q}] ELSE v,
                        w.name = NameOf[i], w.tracked
                 PROVE  \E u \in wiping : /\ u.name = NameOf[i] /\ u.tracked
                                          /\ p \in u.waiters => p \in w.waiters
      BY <1>2 DEF Await, NoNewRm
    <2> QED
      OBVIOUS
  <1>3. CASE GiveUp(q)
    <2> SUFFICES ASSUME NEW v \in wiping, NEW w, w = [v EXCEPT !.waiters = @ \ {q}],
                        w.name = NameOf[i], w.tracked
                 PROVE  \E u \in wiping : /\ u.name = NameOf[i] /\ u.tracked
                                          /\ p \in u.waiters => p \in w.waiters
      BY <1>3 DEF GiveUp, NoNewRm
    <2> QED
      OBVIOUS
  <1> QED
    BY <1>1, <1>2, <1>3

\* While a start is between its fence and its launch, no verb begins a logout's rm: there is
\* no engine to log out of, or the verb waits for the INITIALIZING write.
LEMMA NoLogoutRm ==
  ASSUME IInv, Ownership, Tracked, NEW p \in Starting, pc[p] \in Between,
         NEW q \in Procs, sid[q] = sid[p]
  PROVE  engines[sid[q]] # None => AwaitsInitial(sid[q], engines[sid[q]])
  <1>1. pc[p] # "idle" /\ sid[p] \in Ids /\ p \in Procs /\ p # None
    BY ConstantsAssumption DEF Starting, Between, IInv, ProcsOK, Handlers
  <1>2. CASE pc[p] \in {"start_fence", "start_hook"}
    BY <1>2 DEF Ownership, StartsOwn
  <1>3. CASE pc[p] = "init_write"
    <2>1. pendingInit[sid[p]] = p
      BY <1>1, <1>3 DEF Tracked
    <2>2. engines[sid[p]] \in {None, eng[p]}
      BY <1>3 DEF Ownership, StartsOwn, Ahead
    <2> QED
      BY <1>1, <2>1, <2>2 DEF AwaitsInitial
  <1> QED
    BY <1>2, <1>3 DEF Between

\* Nor does an engine of its session begin one: none is running.
LEMMA NoneRunning ==
  ASSUME IInv, StartReservation, Ownership, Unlaunched, NEW p \in Starting, pc[p] \in Between,
         NEW e \in Engines, estate[e] = "alive"
  PROVE  /\ engines[sid[p]] # e
         /\ \A q \in Procs : eng[q] = e => sid[q] # sid[p]
  <1>1. sid[p] \in Ids /\ p \in Procs /\ op[p] = "start" /\ e # None
    BY ConstantsAssumption DEF Starting, Between, IInv, ProcsOK, Handlers
  <1>2. engines[sid[p]] # e
    BY <1>1 DEF Ownership, StartsOwn, Unlaunched, Between, Ahead
  <1>3. ASSUME NEW q \in Procs, eng[q] = e, sid[q] = sid[p]
        PROVE  FALSE
    <2>1. Reach(e)
      BY DEF Ownership, Reached, Held
    <2>2. CASE \E i \in Ids : engines[i] = e
      BY <1>1, <1>2, <1>3, <2>2 DEF Ownership, Homes
    <2>3. ASSUME NEW r \in Procs, eng[r] = e, pc[r] \in Clearing
          PROVE  FALSE
      <3>1. sid[r] = sid[p]
        BY <1>1, <1>3, <2>3 DEF Ownership, Homes
      <3>2. op[r] = "start"
        BY <2>3 DEF Ownership, Roles
      <3> QED
        BY <1>1, <2>3, <3>1, <3>2 DEF StartReservation, Starting, Between, Clearing
    <2> QED
      BY <2>1, <2>2, <2>3 DEF Reach
  <1> QED
    BY <1>2, <1>3

\* A retiring verb begins no rm of the directory p is about to launch over.
LEMMA RetireNoRm ==
  ASSUME Confined, IInv, Ownership, Tracked, NEW p \in Starting, pc[p] \in Between,
         NEW q \in Procs \ {p}, sid[q] \in Ids, Retire(q)
  PROVE  NoNewRm(sid[p], p)
  <1>1. sid[p] \in Ids /\ p \in Procs
    BY DEF Starting, Between, IInv, ProcsOK, Handlers
  <1>2. UNCHANGED wiping \/ Await(q, NameOf[sid[q]])
        \/ \E e : BeginTeardown(q, e) /\ e = engines[sid[q]] /\ e # None /\ ~AwaitsInitial(sid[q], e)
    BY DEF Retire, ToDeleteFence2
  <1>3. CASE UNCHANGED wiping \/ Await(q, NameOf[sid[q]])
    BY <1>1, <1>3, WaitingIsNoRm
  <1>4. ASSUME NEW e, BeginTeardown(q, e), e = engines[sid[q]], e # None, ~AwaitsInitial(sid[q], e)
        PROVE  NoNewRm(sid[p], p)
    <2>1. sid[q] # sid[p]
      BY <1>4, NoLogoutRm
    <2>2. NameOf[sid[q]] # NameOf[sid[p]]
      BY <1>1, <2>1 DEF Confined
    <2>3. wiping' \subseteq wiping \cup {LogoutRm(q, e)} /\ LogoutRm(q, e).name = NameOf[sid[q]]
      BY <1>4 DEF BeginTeardown, LogoutRm
    <2> QED
      BY <2>2, <2>3 DEF NoNewRm
  <1> QED
    BY <1>2, <1>3, <1>4

\* Nor does any other continuation.
LEMMA StepNoRm ==
  ASSUME Confined, IInv, StartReservation, Ownership, Tracked, NEW p \in Starting, pc[p] \in Between,
         NEW q \in Procs \ {p}, Step(q)
  PROVE  NoNewRm(sid[p], p)
  <1>1. sid[p] \in Ids /\ p \in Procs /\ op[p] = "start"
    BY DEF Starting, Between, IInv, ProcsOK, Handlers
  <1>2. CASE \E n : UNCHANGED wiping \/ Await(q, n) \/ GiveUp(q)
    BY <1>1, <1>2, WaitingIsNoRm
  <1>3. CASE VerbRow(q) \/ DeleteFence1(q)
    <2>1. sid[q] \in Ids
      BY <1>3 DEF VerbRow, DeleteFence1, IInv, ProcsOK, Handlers
    <2> QED
      BY <1>2, <1>3, <2>1, RetireNoRm DEF VerbRow, DeleteFence1
  <1>4. CASE InitWritten(q)
    <2> DEFINE new == {LogoutRm(x, eng[q]) : x \in {y \in Procs : pc[y] = "verb_wait" /\ eng[y] = eng[q]
                                                               /\ op[y] = "logout"}}
    <2>1. wiping' = wiping \cup new
      BY <1>4 DEF InitWritten
    <2>2. pc[q] = "init_write" /\ op[q] = "start" /\ sid[q] # sid[p]
      BY <1>1, <1>4 DEF InitWritten, Ownership, Roles, Launching, StartReservation, Starting
    <2>3. eng[q] # None
      BY <2>2, ConstantsAssumption DEF IInv, ProcsOK, Handlers, HoldsEngine
    <2>4. \A x \in Procs : pc[x] = "verb_wait" /\ eng[x] = eng[q] =>
            NameOf[sid[x]] # NameOf[sid[p]]
      <3> SUFFICES ASSUME NEW x \in Procs, pc[x] = "verb_wait", eng[x] = eng[q]
                   PROVE  NameOf[sid[x]] # NameOf[sid[p]]
        OBVIOUS
      <3>1. sid[x] = sid[q]
        BY <2>3 DEF Ownership, Homes
      <3>2. sid[x] \in Ids
        BY DEF IInv, ProcsOK, Handlers
      <3> QED
        BY <1>1, <2>2, <3>1, <3>2 DEF Confined
    <2>5. \A w \in new : w.name # NameOf[sid[p]]
      BY <2>4 DEF LogoutRm
    <2> HIDE DEF new
    <2> QED
      BY <2>1, <2>5 DEF NoNewRm
  <1>5. CASE StartRow(q) \/ StartFence(q) \/ StartHook(q)
    BY <1>2, <1>5 DEF StartRow, StartFence, StartHook
  <1>6. CASE InitWriteFails(q) \/ InitRuns(q) \/ InitKilled(q) \/ InitKillWritten(q) \/ CatchKilled(q)
             \/ CatchWritten(q) \/ PostRow(q) \/ RetireKilled(q) \/ PurgeCheck(q) \/ Purged(q)
    BY <1>2, <1>6 DEF InitWriteFails, InitRuns, InitKilled, InitKillWritten, CatchKilled,
       CatchWritten, PostRow, RetireKilled, PurgeCheck, Purged
  <1>7. CASE VerbWaited(q)
    BY <1>2, <1>7 DEF VerbWaited, Confined
  <1>8. CASE TornDown(q) \/ DeleteFence2(q) \/ DeleteCommits(q) \/ DeletePurged(q) \/ VerbWritten(q)
    BY <1>2, <1>8 DEF TornDown, ToDeleteFence2, DeleteFence2, DeleteCommits, DeletePurged, VerbWritten
  <1>9. CASE ReconnectKilled(q) \/ ReconnectFence(q)
    BY <1>9 DEF ReconnectKilled, ReconnectFence, Ownership, Roles
  <1> QED
    BY <1>3, <1>4, <1>5, <1>6, <1>7, <1>8, <1>9 DEF Step

\* Nor anything outside a handler.
LEMMA OutsideNoRm ==
  ASSUME Confined, IInv, StartReservation, Ownership, Unlaunched, NEW p \in Starting, pc[p] \in Between,
         \/ \E i \in Ids : Create(i)
         \/ \E q \in Procs, v \in Verbs, i \in Ids : Request(q, v, i)
         \/ EngineEvent \/ Background
  PROVE  NoNewRm(sid[p], p)
  <1>1. CASE wiping' \subseteq wiping
    BY <1>1 DEF NoNewRm
  <1>2. ASSUME NEW i \in Ids, NEW e \in Engines, EngineUnlinked(i, e)
        PROVE  NoNewRm(sid[p], p)
    <2>1. estate[e] = "alive" /\ (engines[i] = e \/ \E q \in Procs : sid[q] = i /\ eng[q] = e)
      BY <1>2 DEF EngineUnlinked, Confined
    <2>2. i # sid[p] /\ sid[p] \in Ids
      BY <2>1, NoneRunning DEF Starting, Between, IInv, ProcsOK, Handlers
    <2>3. NameOf[i] # NameOf[sid[p]]
      BY <2>2 DEF Confined
    <2> QED
      BY <1>2, <2>3 DEF EngineUnlinked, NoNewRm
  <1>3. ASSUME NEW i \in Ids, StuckAuth(i)
        PROVE  NoNewRm(sid[p], p)
    BY <1>3 DEF StuckAuth, NoNewRm
  <1>4. CASE EngineEvent
    BY <1>1, <1>2, <1>3, <1>4 DEF EngineEvent, EngineReady, EngineState, EngineLost, EngineError
  <1>5. CASE Background
    BY <1>1, <1>5 DEF Background, HandleLost, Reap, LeftBehind, WipeSettles, WriteSettles
  <1>6. CASE (\E i \in Ids : Create(i)) \/ (\E q \in Procs, v \in Verbs, i \in Ids : Request(q, v, i))
    BY <1>1, <1>6 DEF Create, Request
  <1> QED
    BY <1>4, <1>5, <1>6

\* A handler comes to the fence, the hook and the INITIALIZING write by the head of start()
\* only; it leaves the write when that has landed; no other step launches an engine.
LEMMA ElsewhereStep ==
  ASSUME ~DbFaults, IInv, Roles, NEW q \in Procs, Step(q),
         ~(StartRow(q) \/ StartFence(q) \/ StartHook(q) \/ InitWritten(q))
  PROVE  /\ pc[q] \notin Between /\ pc'[q] \notin Between
         /\ UNCHANGED pendingInit
         /\ \A e \in Engines : estate'[e] = "alive" => estate[e] = "alive"
  <1>1. CASE InitRuns(q) \/ InitKilled(q) \/ InitKillWritten(q) \/ InitWriteFails(q)
    <2>1. ASSUME NEW ws, Throw(q, ws)
          PROVE  /\ pc'[q] \notin Between
                 /\ \A e \in Engines : estate'[e] = "alive" => estate[e] = "alive"
      BY <2>1 DEF Throw, Finish, Goto, Between, Roles, IInv, ProcsOK, EnginesOK
    <2>2. pc[q] \notin Between /\ UNCHANGED pendingInit
      BY <1>1 DEF InitRuns, InitKilled, InitKillWritten, InitWriteFails, Between
    <2>3. CASE InitRuns(q)
      BY <2>1, <2>2, <2>3 DEF InitRuns, InitReturns, InitRejects, OnError, Reaping, Finish, Goto, Between, IInv, ProcsOK,
         EnginesOK
    <2>4. CASE InitKilled(q)
      BY <2>2, <2>4 DEF InitKilled, Closed, Goto, Between, IInv, ProcsOK, EnginesOK
    <2>5. CASE InitKillWritten(q) \/ InitWriteFails(q)
      BY <2>1, <2>2, <2>5 DEF InitKillWritten, InitWriteFails
    <2> QED
      BY <1>1, <2>3, <2>4, <2>5
  <1>2. CASE CatchKilled(q) \/ CatchWritten(q) \/ PostRow(q) \/ RetireKilled(q) \/ PurgeCheck(q)
             \/ Purged(q)
    BY <1>2 DEF CatchKilled, CatchWritten, PostRow, RetireKilled, PurgeCheck, Purged, Closed, Finish, Goto,
       Between, IInv, ProcsOK, EnginesOK
  <1>3. CASE VerbRow(q) \/ DeleteFence1(q) \/ VerbWaited(q) \/ TornDown(q) \/ DeleteFence2(q)
    BY <1>3 DEF VerbRow, DeleteFence1, Retire, VerbWaited, TornDown, DeleteFence2, BeginTeardown,
       ToDeleteFence2, Closed, Finish, Goto, Between, IInv, ProcsOK, EnginesOK
  <1>4. CASE DeleteCommits(q) \/ DeletePurged(q) \/ VerbWritten(q)
    BY <1>4 DEF DeleteCommits, DeletePurged, VerbWritten, Finish, Goto, Between, IInv, ProcsOK
  <1>5. CASE ReconnectKilled(q) \/ ReconnectFence(q)
    BY <1>5 DEF ReconnectKilled, ReconnectFence, Roles
  <1> QED
    BY <1>1, <1>2, <1>3, <1>4, <1>5 DEF Step

\* A step of another handler keeps what the fence gives p.
LEMMA FencedOthers ==
  ASSUME IInv, Fenced, NEW p \in Procs, op'[p] = "start", op[p] = "start", sid'[p] = sid[p],
         pc'[p] = pc[p] \/ pc'[p] \notin Between,
         pc[p] \in Between => NoNewRm(sid[p], p)
  PROVE  /\ pc'[p] = "start_fence" =>
              \A w \in wiping' : w.name = NameOf[sid'[p]] /\ w.tracked => p \in w.waiters
         /\ pc'[p] \in {"start_hook", "init_write"} =>
              \A w \in wiping' : w.name = NameOf[sid'[p]] => ~w.tracked
  BY DEF Fenced, Starting, NoNewRm, Between

\* The head of start(): the fence is open, or the start joins every rm of the name; when
\* it has passed none of those is left, and no other has begun.
LEMMA FencedHead ==
  ASSUME IInv, Fenced, NEW p \in Procs, StartRow(p) \/ StartFence(p) \/ StartHook(p),
         op'[p] = "start"
  PROVE  /\ pc'[p] = "start_fence" =>
              \A w \in wiping' : w.name = NameOf[sid'[p]] /\ w.tracked => p \in w.waiters
         /\ pc'[p] \in {"start_hook", "init_write"} =>
              \A w \in wiping' : w.name = NameOf[sid'[p]] => ~w.tracked
  <1>1. ~Finish(p)
    BY DEF Finish, IInv, ProcsOK
  <1>2. CASE StartRow(p)
    <2>1. sid'[p] = sid[p]
      BY <1>1, <1>2 DEF StartRow, AdmitStart
    <2>2. CASE FenceOpen(NameOf[sid[p]]) /\ AdmitStart(p) /\ UNCHANGED wiping
      BY <2>1, <2>2 DEF FenceOpen, AdmitStart, Goto, IInv, ProcsOK
    <2>3. CASE Await(p, NameOf[sid[p]]) /\ Goto(p, "start_fence")
      <3>1. pc'[p] = "start_fence"
        BY <2>3 DEF Goto, IInv, ProcsOK
      <3>2. \A v \in wiping : v = [name |-> v.name, engine |-> v.engine, tracked |-> v.tracked,
                                   waiters |-> v.waiters]
        BY DEF IInv, WipingOK
      <3>3. ASSUME NEW w \in wiping', w.name = NameOf[sid[p]], w.tracked
            PROVE  p \in w.waiters
        <4>1. PICK v \in wiping : w = IF v.name = NameOf[sid[p]] /\ v.tracked
                                      THEN [v EXCEPT !.waiters = @ \cup {p}] ELSE v
          BY <2>3 DEF Await
        <4> QED
          BY <3>2, <3>3, <4>1
      <3> QED
        BY <2>1, <3>1, <3>3
    <2> QED
      BY <1>1, <1>2, <2>2, <2>3 DEF StartRow
  <1>3. CASE StartFence(p)
    <2>1. FencePassed(p) /\ AdmitStart(p) /\ UNCHANGED wiping /\ pc[p] = "start_fence" /\ op[p] = "start"
      BY <1>1, <1>3 DEF StartFence, AdmitStart
    <2> QED
      BY <2>1 DEF FencePassed, AdmitStart, Goto, Fenced, Starting, IInv, ProcsOK
  <1>4. CASE StartHook(p)
    <2>1. /\ pc[p] = "start_hook" /\ op[p] = "start" /\ sid'[p] = sid[p]
          /\ pc'[p] = "init_write" /\ UNCHANGED wiping
      BY <1>4 DEF StartHook, InitializeEngine, Goto, IInv, ProcsOK
    <2> QED
      BY <2>1 DEF Fenced, Starting
  <1> QED
    BY <1>2, <1>3, <1>4

\* Tracking and launch through a step of a handler.
LEMMA TrackHandler ==
  ASSUME ~DbFaults, IInv, IInv', StartReservation, Ownership, TrackInv, NEW q \in Procs, Step(q)
  PROVE  TrackInv'
  <1>2. \A x \in Procs \ {q} : /\ pc'[x] = pc[x] \/ (pc[x] \notin Between /\ pc'[x] \notin Between)
                               /\ op'[x] = op[x] /\ sid'[x] = sid[x] /\ eng'[x] = eng[x]
    BY OthersStay DEF Between
  <1>4. CASE StartHook(q)
    <2>1. PICK i \in Ids : i = sid[q]
      BY <1>4 DEF StartHook, IInv, ProcsOK, Handlers
    <2>2. PICK e \in Engines : InitializeEngine(q, i, e, engines, estate)
      BY <1>4, <2>1 DEF StartHook
    <2>3. /\ pendingInit'[i] = q /\ \A j \in Ids \ {i} : pendingInit'[j] = pendingInit[j]
          /\ pc[q] = "start_hook" /\ op[q] = "start" /\ sid'[q] = i
          /\ pc'[q] = "init_write" /\ \A x \in Procs \ {q} : pc'[x] = pc[x]
          /\ eng'[q] = e /\ estate' = [estate EXCEPT ![e] = "created"]
          /\ \A x \in Procs : eng[x] # e
      BY <1>4, <2>1, <2>2 DEF StartHook, InitializeEngine, Recyclable, Goto, Ownership, Roles, Ahead,
         IInv, ProcsOK, EnginesOK
    <2>4. \A x \in Procs \ {q} : pc[x] = "init_write" => sid[x] # i
      BY <2>1, <2>3 DEF StartReservation, Starting, Ownership, Roles, Launching
    <2>5. Tracked'
      BY <1>2, <2>1, <2>3, <2>4 DEF TrackInv, Tracked
    <2>6. Unlaunched'
      BY <1>2, <2>3 DEF TrackInv, Unlaunched, IInv, EnginesOK, ProcsOK, Handlers, HoldsEngine
    <2> QED
      BY <2>5, <2>6 DEF TrackInv
  <1>5. CASE InitWritten(q)
    <2>1. /\ pc[q] = "init_write" /\ op[q] = "start" /\ sid[q] \in Ids /\ sid'[q] = sid[q]
          /\ eng[q] \in Engines /\ pc'[q] # "init_write"
      BY <1>5 DEF InitWritten, InitReturns, Ownership, Roles, Launching, IInv, ProcsOK, Handlers, HoldsEngine
    <2>2. pendingInit[sid[q]] = q
      BY <2>1 DEF TrackInv, Tracked
    <2>3. pendingInit' = [pendingInit EXCEPT ![sid[q]] = None]
      BY <1>5, <2>2 DEF InitWritten, Untrack
    <2>4. Tracked'
      <3> SUFFICES ASSUME NEW i \in Ids, NEW p \in Procs
                   PROVE  pendingInit'[i] = p <=> pc'[p] = "init_write" /\ sid'[p] = i
        BY DEF Tracked
      <3>1. pendingInit[i] = p <=> pc[p] = "init_write" /\ sid[p] = i
        BY DEF TrackInv, Tracked
      <3>2. pendingInit'[i] = IF i = sid[q] THEN None ELSE pendingInit[i]
        BY <2>1, <2>3 DEF IInv, EnginesOK
      <3>3. CASE p = q
        BY <2>1, <3>1, <3>2, <3>3, ConstantsAssumption
      <3>4. CASE p # q
        <4>1. sid'[p] = sid[p] /\ (pc'[p] = "init_write" <=> pc[p] = "init_write")
          BY <1>2, <3>4 DEF Between
        <4>2. pendingInit'[i] = p <=> pendingInit[i] = p
          BY <2>2, <3>2, <3>4, ConstantsAssumption
        <4> QED
          BY <3>1, <4>1, <4>2
      <3> QED
        BY <3>3, <3>4
    <2>5. Unlaunched'
      <3> SUFFICES ASSUME NEW p \in Procs, pc'[p] = "init_write"
                   PROVE  estate'[eng'[p]] # "alive"
        BY DEF Unlaunched
      <3>1. p # q /\ pc[p] = "init_write" /\ eng'[p] = eng[p] /\ eng[p] \in Engines
        BY <1>2, <2>1 DEF Between, IInv, ProcsOK, Handlers, HoldsEngine
      <3>2. sid[p] # sid[q]
        BY <2>1, <3>1 DEF StartReservation, Starting, Ownership, Roles, Launching
      <3>3. eng[p] # eng[q]
        BY <2>1, <3>1, <3>2, ConstantsAssumption DEF Ownership, Homes
      <3>4. UNCHANGED estate \/ estate' = [estate EXCEPT ![eng[q]] = "alive"]
        BY <1>5 DEF InitWritten
      <3> QED
        BY <3>1, <3>3, <3>4 DEF TrackInv, Unlaunched, IInv, EnginesOK
    <2> QED
      BY <2>4, <2>5 DEF TrackInv
  <1>6. CASE ~(StartHook(q) \/ InitWritten(q))
    <2>1. /\ pc[q] # "init_write" /\ pc'[q] # "init_write" /\ UNCHANGED pendingInit
          /\ \A e \in Engines : estate'[e] = "alive" => estate[e] = "alive"
      <3>1. CASE StartRow(q) \/ StartFence(q)
        BY <3>1 DEF StartRow, StartFence, AdmitStart, Finish, Goto, IInv, ProcsOK
      <3> QED
        BY <1>6, <3>1, ElsewhereStep DEF Between, Ownership
    <2>2. \A p \in Procs : pc'[p] = "init_write" <=> pc[p] = "init_write"
      BY <1>2, <2>1 DEF Between
    <2>3. \A p \in Procs : pc[p] = "init_write" => eng'[p] = eng[p] /\ sid'[p] = sid[p] /\ eng[p] \in Engines
      BY <1>2, <2>1 DEF IInv, ProcsOK, Handlers, HoldsEngine
    <2>4. Tracked' /\ Unlaunched'
      BY <2>1, <2>2, <2>3 DEF TrackInv, Tracked, Unlaunched
    <2> QED
      BY <2>4 DEF TrackInv
  <1> QED
    BY <1>4, <1>5, <1>6

\* The fence through a step of a handler.
LEMMA FenceHandler ==
  ASSUME Confined, IInv, IInv', StartReservation, Ownership, FenceInv, NEW q \in Procs, Step(q)
  PROVE  FenceInv'
  <1>1. MaxAttempts = 0 /\ ~DbFaults
    BY DEF Confined
  <1>2. \A x \in Procs \ {q} : /\ pc'[x] = pc[x] \/ (pc[x] \notin Between /\ pc'[x] \notin Between)
                               /\ op'[x] = op[x] /\ sid'[x] = sid[x] /\ eng'[x] = eng[x]
    BY OthersStay DEF Between
  <1>3. Fenced'
    <2> SUFFICES ASSUME NEW p \in Procs, op'[p] = "start"
                 PROVE  /\ pc'[p] = "start_fence" =>
                             \A w \in wiping' : w.name = NameOf[sid'[p]] /\ w.tracked => p \in w.waiters
                        /\ pc'[p] \in {"start_hook", "init_write"} =>
                             \A w \in wiping' : w.name = NameOf[sid'[p]] => ~w.tracked
      BY DEF Fenced, Starting
    <2>1. CASE p # q
      <3>1. op[p] = "start" /\ sid'[p] = sid[p] /\ (pc'[p] = pc[p] \/ pc'[p] \notin Between)
        BY <1>2, <2>1
      <3>2. pc[p] \in Between => NoNewRm(sid[p], p)
        <4>1. p \in Starting /\ q \in Procs \ {p}
          BY <2>1, <3>1 DEF Starting
        <4> QED
          BY <4>1, StepNoRm DEF FenceInv, TrackInv
      <3> QED
        BY <3>1, <3>2, FencedOthers DEF FenceInv
    <2>2. CASE p = q /\ (StartRow(q) \/ StartFence(q) \/ StartHook(q))
      BY <2>2, FencedHead DEF FenceInv
    <2>3. CASE p = q /\ ~(StartRow(q) \/ StartFence(q) \/ StartHook(q))
      <3>1. pc'[q] \notin Between
        <4>1. CASE InitWritten(q)
          BY <4>1 DEF InitWritten, InitReturns, Between, IInv, ProcsOK
        <4> QED
          BY <1>1, <2>3, <4>1, ElsewhereStep DEF Ownership
      <3> QED
        BY <2>3, <3>1 DEF Between
    <2> QED
      BY <2>1, <2>2, <2>3
  <1>4. TrackInv'
    BY <1>1, TrackHandler DEF FenceInv
  <1> QED
    BY <1>3, <1>4 DEF FenceInv

\* And through every other step, which launches nothing.
LEMMA TrackOutside ==
  ASSUME MaxAttempts = 0, IInv, IInv', Ownership, TrackInv,
         \/ \E i \in Ids : Create(i)
         \/ \E q \in Procs, v \in Verbs, i \in Ids : Request(q, v, i)
         \/ EngineEvent \/ Background
  PROVE  /\ TrackInv'
         /\ \A e \in Engines : estate'[e] = "alive" => estate[e] = "alive"
         /\ \A q \in Procs :
              \/ pc'[q] = pc[q] /\ op'[q] = op[q] /\ sid'[q] = sid[q] /\ eng'[q] = eng[q]
              \/ pc[q] = "idle" /\ pc'[q] \in {"start_row", "verb_row"}
  <1>2. \A q \in Procs : \/ pc'[q] = pc[q] /\ op'[q] = op[q] /\ sid'[q] = sid[q] /\ eng'[q] = eng[q]
                         \/ pc[q] = "idle" /\ pc'[q] \in {"start_row", "verb_row"}
    <2>1. CASE \E q \in Procs, v \in Verbs, i \in Ids : Request(q, v, i)
      BY <2>1 DEF Request, IInv, ProcsOK
    <2>2. CASE (\E i \in Ids : Create(i)) \/ EngineEvent \/ Background
      BY <2>2 DEF Create, EngineEvent, EngineReady, EngineState, EngineLost, EngineError, StuckAuth,
         EngineUnlinked, Background, HandleLost, Reap, LeftBehind, WipeSettles, WriteSettles, procVars
    <2> QED
      BY <2>1, <2>2
  <1>3. UNCHANGED pendingInit
    BY DEF Create, Request, EngineEvent, EngineReady, EngineState, EngineLost, EngineError, StuckAuth,
       EngineUnlinked, Background, HandleLost, Reap, LeftBehind, WipeSettles, WriteSettles
  <1>4. \A e \in Engines : estate'[e] = "alive" => estate[e] = "alive"
    <2>1. ASSUME NEW l \in lost, HandleLost(l[1], l[2])
          PROVE  \A e \in Engines : estate'[e] = "alive" => estate[e] = "alive"
      <3>1. l[1] \in Ids
        BY DEF IInv, LostOK
      <3>2. \/ UNCHANGED estate
            \/ estate' = Reaping(estate, engines[l[1]])
        BY <2>1, <3>1, ScheduleGivesUp DEF HandleLost, Ownership
      <3> QED
        BY <3>2 DEF Reaping, IInv, EnginesOK
    <2>2. CASE Background
      BY <2>1, <2>2 DEF Background, Reap, Closed, LeftBehind, WipeSettles, WriteSettles, IInv, EnginesOK
    <2>3. CASE EngineEvent
      BY <2>3 DEF EngineEvent, EngineReady, EngineState, EngineLost, EngineError, OnError, Reaping,
         StuckAuth, EngineUnlinked, IInv, EnginesOK
    <2>4. CASE (\E i \in Ids : Create(i)) \/ (\E q \in Procs, v \in Verbs, i \in Ids : Request(q, v, i))
      BY <2>4 DEF Create, Request
    <2> QED
      BY <2>2, <2>3, <2>4
  <1>5. Tracked'
    BY <1>2, <1>3 DEF TrackInv, Tracked, Between
  <1>6. Unlaunched'
    <2> SUFFICES ASSUME NEW p \in Procs, pc'[p] = "init_write"
                 PROVE  estate'[eng'[p]] # "alive"
      BY DEF Unlaunched
    <2>1. pc[p] = "init_write" /\ eng'[p] = eng[p] /\ eng[p] \in Engines
      BY <1>2 DEF Between, IInv, ProcsOK, Handlers, HoldsEngine
    <2> QED
      BY <1>4, <2>1 DEF TrackInv, Unlaunched
  <1> QED
    BY <1>2, <1>4, <1>5, <1>6 DEF TrackInv

\* So does the fence.
LEMMA FenceOutside ==
  ASSUME Confined, IInv, IInv', StartReservation, Ownership, FenceInv,
         \/ \E i \in Ids : Create(i)
         \/ \E q \in Procs, v \in Verbs, i \in Ids : Request(q, v, i)
         \/ EngineEvent \/ Background
  PROVE  /\ FenceInv'
         /\ \A e \in Engines : estate'[e] = "alive" => estate[e] = "alive"
  <1>1. MaxAttempts = 0
    BY DEF Confined
  <1>2. /\ TrackInv'
        /\ \A e \in Engines : estate'[e] = "alive" => estate[e] = "alive"
        /\ \A q \in Procs :
             \/ pc'[q] = pc[q] /\ op'[q] = op[q] /\ sid'[q] = sid[q] /\ eng'[q] = eng[q]
             \/ pc[q] = "idle" /\ pc'[q] \in {"start_row", "verb_row"}
    BY <1>1, TrackOutside DEF FenceInv
  <1>3. Fenced'
    <2> SUFFICES ASSUME NEW p \in Procs, op'[p] = "start", pc'[p] \in Between
                 PROVE  /\ pc'[p] = "start_fence" =>
                             \A w \in wiping' : w.name = NameOf[sid'[p]] /\ w.tracked => p \in w.waiters
                        /\ pc'[p] \in {"start_hook", "init_write"} =>
                             \A w \in wiping' : w.name = NameOf[sid'[p]] => ~w.tracked
      BY DEF Fenced, Starting, Between
    <2>1. pc'[p] = pc[p] /\ op[p] = "start" /\ sid'[p] = sid[p]
      BY <1>2 DEF Between
    <2>2. NoNewRm(sid[p], p)
      <3>1. p \in Starting /\ pc[p] \in Between
        BY <2>1 DEF Starting
      <3> QED
        BY <3>1, OutsideNoRm DEF FenceInv, TrackInv
    <2> QED
      BY <2>1, <2>2, FencedOthers DEF FenceInv
  <1> QED
    BY <1>2, <1>3 DEF FenceInv

\* The launch of an engine is the landing of its session's INITIALIZING write.
LEMMA LaunchIsFenced ==
  ASSUME Confined, IInv, Ownership, FenceInv, NEW q \in Procs, Step(q),
         NEW i \in Ids, NEW e \in Engines, Launched(i, e), NEW w \in wiping, w.name = NameOf[i]
  PROVE  ~w.tracked
  <1>1. CASE InitWritten(q)
    <2>1. /\ pc[q] = "init_write" /\ op[q] = "start" /\ sid[q] \in Ids
      BY <1>1 DEF InitWritten, Ownership, Roles, Launching, IInv, ProcsOK, Handlers
    <2>2. e = eng[q] /\ Live(sid[q], eng[q])
      BY <1>1 DEF InitWritten, Launched, IInv, EnginesOK
    <2>3. i = sid[q]
      BY <2>1, <2>2 DEF Live, Launched, Ownership, Homes
    <2> QED
      BY <2>1, <2>3 DEF FenceInv, Fenced, Starting
  <1>2. CASE StartHook(q) \/ StartRow(q) \/ StartFence(q)
    BY <1>2 DEF StartHook, InitializeEngine, StartRow, StartFence, Launched, IInv, EnginesOK
  <1>3. CASE ~(StartRow(q) \/ StartFence(q) \/ StartHook(q) \/ InitWritten(q))
    BY <1>3, ElsewhereStep DEF Confined, Ownership, Launched
  <1> QED
    BY <1>1, <1>2, <1>3

\* Every step keeps the fence, and launches behind it.
LEMMA FenceStep ==
  ASSUME Confined, IInv, StartReservation, Ownership, FenceInv, [Next]_vars
  PROVE  /\ FenceInv'
         /\ \A i \in Ids, e \in Engines : Launched(i, e) =>
              \A w \in wiping : w.name = NameOf[i] => ~w.tracked
  <1>1. IInv'
    BY NextInv
  <1>2. CASE UNCHANGED vars
    BY <1>2 DEF vars, procVars, FenceInv, TrackInv, Tracked, Unlaunched, Fenced, Starting, Launched
  <1>3. ASSUME NEW p \in Procs, Step(p)
        PROVE  /\ FenceInv'
               /\ \A i \in Ids, e \in Engines : Launched(i, e) =>
                    \A w \in wiping : w.name = NameOf[i] => ~w.tracked
    BY <1>1, <1>3, FenceHandler, LaunchIsFenced
  <1>4. ASSUME NEW p \in Procs, NEW i \in Ids, TimerFires(p, i)
        PROVE  FALSE
    BY <1>4 DEF TimerFires, Ownership, NoTimers
  <1>5. CASE \/ \E i \in Ids : Create(i)
             \/ \E p \in Procs, v \in Verbs, i \in Ids : Request(p, v, i)
             \/ EngineEvent \/ Background
    BY <1>1, <1>5, FenceOutside DEF Launched
  <1> QED
    BY <1>2, <1>3, <1>4, <1>5 DEF Next

\* Whatever verbs race, an engine is launched only when no rm of its directory that the
\* lifecycle knows of is under way: with no reconnects, a database that answers, engines
\* silent once torn down, and names that are not used again.
THEOREM LaunchIsBehindFence ==
  ASSUME Confined
  PROVE  Spec => LaunchBehindFence
  <1>1. MaxAttempts = 0
    BY DEF Confined
  <1>2. Init => FenceInv
    BY ConstantsAssumption DEF Init, FenceInv, TrackInv, Tracked, Unlaunched, Fenced, Starting
  <1>3. IInv /\ StartReservation /\ Ownership /\ FenceInv /\ [Next]_vars =>
          /\ FenceInv'
          /\ [\A i \in Ids, e \in Engines : Launched(i, e) =>
                \A w \in wiping : w.name = NameOf[i] => ~w.tracked]_vars
    BY FenceStep
  <1> QED
    BY <1>1, <1>2, <1>3, Inductive, ReservationHolds, OwnershipHolds, PTL DEF Spec, LaunchBehindFence

\* Without failing queries, tracking is exact for ever.
LEMMA TrackStep ==
  ASSUME MaxAttempts = 0, ~DbFaults, IInv, StartReservation, Ownership, TrackInv, [Next]_vars
  PROVE  TrackInv'
  <1>1. IInv'
    BY NextInv
  <1>2. CASE UNCHANGED vars
    BY <1>2 DEF vars, procVars, TrackInv, Tracked, Unlaunched
  <1>3. ASSUME NEW p \in Procs, NEW i \in Ids, TimerFires(p, i)
        PROVE  FALSE
    BY <1>3 DEF TimerFires, Ownership, NoTimers
  <1> QED
    BY <1>1, <1>2, <1>3, TrackHandler, TrackOutside DEF Next

\* So the INITIALIZING writes stay tracked for ever.
LEMMA TrackHolds ==
  ASSUME MaxAttempts = 0, ~DbFaults
  PROVE  Spec => []TrackInv
  <1>1. Init => TrackInv
    BY ConstantsAssumption DEF Init, TrackInv, Tracked, Unlaunched
  <1>2. IInv /\ StartReservation /\ Ownership /\ TrackInv /\ [Next]_vars => TrackInv'
    BY TrackStep
  <1> QED
    BY <1>1, <1>2, Inductive, ReservationHolds, OwnershipHolds, PTL DEF Spec

-----------------------------------------------------------------------------
(* The status of a session nobody runs *)

\* The verbs that keep the row: no delete, and no stop of a session without an engine.
Retiring ==
  /\ MaxAttempts = 0 /\ DbInOrder /\ ~DbFaults
  /\ Verbs \cap {"stop", "delete"} = {}

Active == {"initializing", "linking", "ready"}

\* What the row of i will read when the writes in flight have landed is a status of S.
SaysIn(ws, r, i, S) ==
  \/ \E k \in 1..Len(ws) : /\ ws[k].id = i /\ ws[k].status \in S
                           /\ \A m \in (k + 1)..Len(ws) : ws[m].id # i
  \/ (\A k \in 1..Len(ws) : ws[k].id # i) /\ r[i] \in S
Heard(i) == SaysIn(writes, row, i, Active)

\* A handler is going to write the row of i after taking its engine away.
HandLocs == {"init_kill", "catch_kill", "verb_wait", "teardown"}
Hands(i) == \E q \in Procs : sid[q] = i /\ pc[q] \in HandLocs

DeleteLocs == {"delete_fence1", "delete_fence2", "delete_hook", "delete_purge", "refuse_write"}

\* Every session a handler, an engine or a write is about has its row.
Present ==
  /\ \A i \in Ids : row[i] # "deleted" /\ (engines[i] # None => Exists(i))
  /\ \A p \in Procs : pc[p] # "idle" =>
       Exists(sid[p]) /\ op[p] \in {"start", "logout", "forceKill"} /\ pc[p] \notin DeleteLocs
  /\ \A k \in 1..Len(writes) : Exists(writes[k].id)
\* A verb waits for an INITIALIZING write only while that write is in flight.
WaitsForWrite ==
  \A q \in Procs : pc[q] = "verb_wait" => \E p \in Procs : pc[p] = "init_write" /\ eng[p] = eng[q]
\* A start that is in its hook has no stop mark; one that retires its engine has one.
StartMarks ==
  \A p \in Procs :
    /\ pc[p] = "start_hook" => sid[p] \notin stopping
    /\ pc[p] = "retire_kill" => op[p] = "start" /\ sid[p] \in stopping
\* Behind a marked session that still has an engine is a verb that tears that engine down.
Marks ==
  \A i \in stopping : engines[i] # None =>
    \E q \in Procs : sid[q] = i /\ pc[q] \in {"verb_wait", "teardown"} /\ eng[q] = engines[i]
\* A session whose row is about to read active has an engine, or a handler that will write.
Spoken == \A i \in Ids : Heard(i) => engines[i] # None \/ Hands(i)

StatusInv == Present /\ WaitsForWrite /\ StartMarks /\ Marks /\ Spoken

-----------------------------------------------------------------------------
\* An UPDATE that is sent decides what its own row will read, and no other.
LEMMA SaysAppend ==
  ASSUME NEW ws \in Seq(Writes), NEW w \in Writes, NEW r, NEW i, NEW S,
         SaysIn(Append(ws, w), r, i, S)
  PROVE  IF w.id = i THEN w.status \in S ELSE SaysIn(ws, r, i, S)
  <1> DEFINE a == Append(ws, w)
             n == Len(ws)
  <1>1. n \in Nat /\ Len(a) = n + 1 /\ a[n + 1] = w /\ \A k \in 1..n : a[k] = ws[k]
    BY AppendProperties, LenProperties
  <1> HIDE DEF a
  <1>2. SaysIn(a, r, i, S)
    BY DEF a
  <1>3. CASE w.id = i
    <2>1. \A k \in 1..Len(a) : a[k].id = i /\ (\A m \in (k + 1)..Len(a) : a[m].id # i) => k = n + 1
      BY <1>1, <1>3
    <2>2. n + 1 \in 1..Len(a) /\ a[n + 1].id = i
      BY <1>1, <1>3
    <2> QED
      BY <1>1, <1>2, <1>3, <2>1, <2>2 DEF SaysIn
  <1>4. CASE w.id # i
    <2>1. ASSUME NEW k \in 1..Len(a), a[k].id = i, a[k].status \in S,
                 \A m \in (k + 1)..Len(a) : a[m].id # i
          PROVE  SaysIn(ws, r, i, S)
      <3>1. k \in 1..n
        BY <1>1, <1>4, <2>1
      <3>2. \A m \in (k + 1)..n : ws[m].id # i
        BY <1>1, <2>1, <3>1
      <3> QED
        BY <1>1, <2>1, <3>1, <3>2 DEF SaysIn
    <2>2. ASSUME \A k \in 1..Len(a) : a[k].id # i, r[i] \in S
          PROVE  SaysIn(ws, r, i, S)
      <3>1. \A k \in 1..n : ws[k].id # i
        BY <1>1, <2>2
      <3> QED
        BY <2>2, <3>1 DEF SaysIn
    <2>3. SaysIn(ws, r, i, S)
      BY <1>2, <2>1, <2>2 DEF SaysIn
    <2> QED
      BY <1>4, <2>3
  <1> QED
    BY <1>3, <1>4

\* What is left of the writes when the first has landed.
LEMMA WithoutFirst ==
  ASSUME NEW ws \in Seq(Writes), 1 \in 1..Len(ws)
  PROVE  /\ Len(ws) \in Nat /\ Len(Without(ws, 1)) = Len(ws) - 1
         /\ \A k \in 1..(Len(ws) - 1) : Without(ws, 1)[k] = ws[k + 1]
  <1> DEFINE n == Len(ws)
             h == SubSeq(ws, 1, 0)
             t == SubSeq(ws, 2, n)
  <1>1. n \in Nat /\ n >= 1
    BY LenProperties
  <1>2. h \in Seq(Writes) /\ Len(h) = 0
    BY <1>1, SubSeqProperties
  <1>3. t \in Seq(Writes) /\ Len(t) = n - 1 /\ \A k \in 1..(n - 1) : t[k] = ws[k + 1]
    <2>1. 2 \in 1..(n + 1) /\ n \in (2 - 1)..n
      BY <1>1
    <2>2. t \in Seq(Writes) /\ Len(t) = (IF 2 <= n THEN n - 2 + 1 ELSE 0)
          /\ \A k \in 1..(n - 2 + 1) : t[k] = ws[2 + k - 1]
      BY <1>1, <2>1, SubSeqProperties
    <2>3. \A k \in 1..(n - 1) : t[k] = ws[k + 1]
      <3> SUFFICES ASSUME NEW k \in 1..(n - 1)
                   PROVE  t[k] = ws[k + 1]
        OBVIOUS
      <3>1. k \in 1..(n - 2 + 1) /\ 2 + k - 1 = k + 1
        BY <1>1
      <3> HIDE DEF t
      <3> QED
        BY <2>2, <3>1
    <2>4. (IF 2 <= n THEN n - 2 + 1 ELSE 0) = n - 1
      <3>1. CASE n = 1
        BY <3>1
      <3>2. CASE n >= 2
        BY <1>1, <3>2
      <3> HIDE DEF n
      <3> QED
        BY <1>1, <3>1, <3>2
    <2> HIDE DEF t, n
    <2> QED
      BY <2>2, <2>3, <2>4
  <1>4. Without(ws, 1) = h \o t
    BY DEF Without
  <1> HIDE DEF h, t, n
  <1>5. /\ Len(h \o t) = n - 1
        /\ \A k \in 1..(n - 1) : (h \o t)[k] = t[k]
    BY <1>1, <1>2, <1>3, ConcatProperties
  <1> QED
    BY <1>1, <1>3, <1>4, <1>5 DEF n

\* An UPDATE that lands changes nothing of what the rows will read.
LEMMA SaysLanded ==
  ASSUME NEW ws \in Seq(Writes), 1 \in 1..Len(ws), NEW r, NEW i \in Ids, NEW S,
         NEW s, s[i] = (IF ws[1].id = i THEN ws[1].status ELSE r[i]),
         SaysIn(Without(ws, 1), s, i, S)
  PROVE  SaysIn(ws, r, i, S)
  <1> DEFINE v == Without(ws, 1)
             n == Len(ws)
  <1>1. n \in Nat /\ n >= 1 /\ Len(v) = n - 1 /\ \A k \in 1..(n - 1) : v[k] = ws[k + 1]
    BY WithoutFirst
  <1>2. SaysIn(v, s, i, S)
    OBVIOUS
  <1> HIDE DEF v
  <1>3. ASSUME NEW k \in 1..Len(v), v[k].id = i, v[k].status \in S,
               \A m \in (k + 1)..Len(v) : v[m].id # i
        PROVE  SaysIn(ws, r, i, S)
    <2>1. k + 1 \in 1..n /\ ws[k + 1].id = i /\ ws[k + 1].status \in S
      BY <1>1, <1>3
    <2>2. ASSUME NEW m \in (k + 2)..n
          PROVE  ws[m].id # i
      <3>1. m - 1 \in (k + 1)..Len(v) /\ m - 1 \in 1..(n - 1) /\ m - 1 + 1 = m
        BY <1>1, <1>3
      <3> QED
        BY <1>1, <1>3, <3>1
    <2>3. (k + 1) + 1 = k + 2
      OBVIOUS
    <2> QED
      BY <2>1, <2>2, <2>3 DEF SaysIn
  <1>4. ASSUME \A k \in 1..Len(v) : v[k].id # i, s[i] \in S
        PROVE  SaysIn(ws, r, i, S)
    <2>1. \A m \in 2..n : ws[m].id # i
      <3> SUFFICES ASSUME NEW m \in 2..n
                   PROVE  ws[m].id # i
        OBVIOUS
      <3>1. m - 1 \in 1..(n - 1) /\ m - 1 \in 1..Len(v) /\ m - 1 + 1 = m
        BY <1>1
      <3> QED
        BY <1>1, <1>4, <3>1
    <2>2. CASE ws[1].id = i
      BY <1>1, <1>4, <2>1, <2>2 DEF SaysIn
    <2>3. CASE ws[1].id # i
      <3>1. \A k \in 1..n : ws[k].id # i
        BY <1>1, <2>1, <2>3
      <3> QED
        BY <1>4, <2>3, <3>1 DEF SaysIn
    <2> QED
      BY <2>2, <2>3
  <1> QED
    BY <1>2, <1>3, <1>4 DEF SaysIn

\* The writes ws, over the rows after the step: none is about a session without a row, and
\* a session they leave active was so before or has its engine after the step.
Left(ws) ==
  /\ ws \in Seq(Writes)
  /\ \A i \in Ids : row'[i] # "deleted" /\ (Exists(i) => Exists(i)')
  /\ \A k \in 1..Len(ws) : row'[ws[k].id] \notin NoRow
  /\ \A i \in Ids : SaysIn(ws, row', i, Active) => Heard(i) \/ engines'[i] # None

\* Writes and rows that stay.
LEMMA LeftNow ==
  ASSUME IInv, Present, UNCHANGED row
  PROVE  Left(writes)
  <1>1. \A i \in Ids : row'[i] # "deleted" /\ (Exists(i) => Exists(i)')
    BY DEF Present, Exists
  <1>2. \A k \in 1..Len(writes) : row'[writes[k].id] \notin NoRow
    BY DEF Present, Exists
  <1>3. \A i \in Ids : SaysIn(writes, row', i, Active) => Heard(i)
    <2>1. row' = row
      OBVIOUS
    <2> QED
      BY <2>1 DEF Heard
  <1> QED
    BY <1>1, <1>2, <1>3 DEF Left, IInv, WritesOK

\* The first UPDATE lands.
LEMMA LeftLanded ==
  ASSUME IInv, Present, DbInOrder, ~DbFaults, NEW p, NEW k \in 1..Len(writes), Lands(p, k)
  PROVE  Left(Without(writes, k))
  <1>1. k = 1 /\ writes \in Seq(Writes) /\ writes[1] \in Writes
    BY DEF Lands, IInv, WritesOK
  <1>2. Exists(writes[1].id) /\ row \in [Ids -> Statuses \cup NoRow] /\ writes[1].status \in Statuses
        /\ writes[1].id \in Ids
    BY <1>1 DEF Present, Writes, IInv, RowsOK
  <1>3. row' = [row EXCEPT ![writes[1].id] = writes[1].status]
    BY <1>1, <1>2 DEF Lands
  <1>4. /\ \A i \in Ids : row'[i] = IF writes[1].id = i THEN writes[1].status ELSE row[i]
        /\ \A i \in Ids : row[i] # "deleted"
    BY <1>2, <1>3 DEF Present
  <1>5. \A i \in Ids : row'[i] # "deleted" /\ (Exists(i) => Exists(i)')
    BY <1>2, <1>4 DEF Exists, NoRow, Statuses
  <1>6. Without(writes, 1) \in Seq(Writes)
    BY <1>1, WithoutType
  <1>7. \A m \in 1..Len(Without(writes, 1)) : \E n \in 1..Len(writes) : Without(writes, 1)[m] = writes[n]
    <2>1. /\ Len(writes) \in Nat /\ Len(Without(writes, 1)) = Len(writes) - 1
          /\ \A m \in 1..(Len(writes) - 1) : Without(writes, 1)[m] = writes[m + 1]
      BY <1>1, WithoutFirst
    <2> SUFFICES ASSUME NEW m \in 1..Len(Without(writes, 1))
                 PROVE  Without(writes, 1)[m] = writes[m + 1] /\ m + 1 \in 1..Len(writes)
      OBVIOUS
    <2>2. m \in 1..(Len(writes) - 1) /\ m + 1 \in 1..Len(writes)
      BY <2>1
    <2> QED
      BY <2>1, <2>2
  <1>8. \A m \in 1..Len(Without(writes, 1)) : row'[Without(writes, 1)[m].id] \notin NoRow
    <2>1. \A n \in 1..Len(writes) : Exists(writes[n].id) /\ writes[n].id \in Ids
      <3>1. \A n \in 1..Len(writes) : writes[n] \in Writes
        BY <1>1
      <3> QED
        BY <3>1 DEF Present, Writes
    <2> SUFFICES ASSUME NEW m \in 1..Len(Without(writes, 1))
                 PROVE  row'[Without(writes, 1)[m].id] \notin NoRow
      OBVIOUS
    <2>2. PICK n \in 1..Len(writes) : Without(writes, 1)[m] = writes[n]
      BY <1>7
    <2> QED
      BY <1>5, <2>1, <2>2 DEF Exists
  <1>9. ASSUME NEW i \in Ids, SaysIn(Without(writes, 1), row', i, Active)
        PROVE  Heard(i)
    <2>1. row'[i] = (IF writes[1].id = i THEN writes[1].status ELSE row[i])
      BY <1>4
    <2> QED
      BY <1>1, <1>9, <2>1, SaysLanded DEF Heard
  <1> QED
    BY <1>1, <1>5, <1>6, <1>8, <1>9 DEF Left

\* One more UPDATE is sent, of a session that has its row; unless it is of a live engine it
\* leaves the session inactive.
LEMMA LeftSent ==
  ASSUME NEW ws, Left(ws), NEW i \in Ids, NEW s \in Statuses, NEW p \in Procs \cup {None},
         Exists(i), s \in Active => engines'[i] # None
  PROVE  /\ Left(Append(ws, StatusWrite(i, s, p)))
         /\ s \notin Active => ~SaysIn(Append(ws, StatusWrite(i, s, p)), row', i, Active)
  <1> DEFINE w == StatusWrite(i, s, p)
  <1>1. w \in Writes /\ w.id = i /\ w.status = s /\ ws \in Seq(Writes)
    BY DEF StatusWrite, Writes, Left
  <1> HIDE DEF w
  <1>2. /\ Append(ws, w) \in Seq(Writes) /\ Len(Append(ws, w)) = Len(ws) + 1 /\ Len(ws) \in Nat
        /\ Append(ws, w)[Len(ws) + 1] = w
        /\ \A k \in 1..Len(ws) : Append(ws, w)[k] = ws[k]
    BY <1>1, AppendProperties, LenProperties
  <1>3. \A j \in Ids : SaysIn(Append(ws, w), row', j, Active) =>
          IF w.id = j THEN w.status \in Active ELSE SaysIn(ws, row', j, Active)
    BY <1>1, SaysAppend
  <1>4. \A k \in 1..Len(Append(ws, w)) : row'[Append(ws, w)[k].id] \notin NoRow
    <2>1. row'[w.id] \notin NoRow /\ \A k \in 1..Len(ws) : row'[ws[k].id] \notin NoRow
      BY <1>1 DEF Left, Exists
    <2>2. \A k \in 1..Len(Append(ws, w)) : k = Len(ws) + 1 \/ k \in 1..Len(ws)
      BY <1>2
    <2> QED
      BY <1>2, <2>1, <2>2
  <1>5. Left(Append(ws, w))
    BY <1>1, <1>2, <1>3, <1>4 DEF Left
  <1> QED
    BY <1>1, <1>3, <1>5 DEF w

\* Everything that is known of a state.
Ordered == IInv /\ StartReservation /\ Ownership /\ TrackInv /\ StatusInv

\* What an adapter says when its teardown begins is that it is disconnected.
LEMMA LeftTeardown ==
  ASSUME NEW ws, Left(ws), NEW i \in Ids, Exists(i), NEW e, NEW slow,
         NEW v, v \in TeardownWrites(i, e, slow, ws)
  PROVE  Left(v)
  <1>1. Left(Append(ws, StatusWrite(i, "disconnected", None)))
    BY LeftSent DEF Active, Statuses
  <1>2. v = ws \/ v = Append(ws, StatusWrite(i, "disconnected", None))
    BY DEF TeardownWrites
  <1> QED
    BY <1>1, <1>2

\* initializeEngine() returns: nothing is said, or that the retired engine is disconnected.
LEMMA LeftReturns ==
  ASSUME NEW p \in Procs, sid[p] \in Ids, Exists(sid[p]), NEW ws, Left(ws), NEW locs,
         InitReturns(p, locs, ws)
  PROVE  Left(writes')
  <1>1. writes' = ws \/ writes' \in TeardownWrites(sid[p], engines[sid[p]], FALSE, ws)
    BY DEF InitReturns
  <1> QED
    BY <1>1, LeftTeardown

\* With the row there for good and the database answering, these steps cannot happen.
LEMMA NoSuchStep ==
  ASSUME Retiring, Ordered, NEW p \in Procs
  PROVE  ~(InitWriteFails(p) \/ DeleteFence1(p) \/ VerbWaited(p) \/ DeleteFence2(p)
           \/ DeleteCommits(p) \/ DeletePurged(p) \/ ReconnectKilled(p) \/ ReconnectFence(p))
  <1>1. ~(InitWriteFails(p) \/ DeleteFence1(p) \/ DeleteFence2(p) \/ DeleteCommits(p) \/ DeletePurged(p))
    BY DEF Retiring, Ordered, StatusInv, Present, DeleteLocs, InitWriteFails, DeleteFence1, DeleteFence2,
       DeleteCommits, DeletePurged
  <1>2. ~VerbWaited(p)
    BY DEF Retiring, Ordered, StatusInv, WaitsForWrite, VerbWaited
  <1>3. ~(ReconnectKilled(p) \/ ReconnectFence(p))
    BY DEF Ordered, Ownership, Roles, ReconnectKilled, ReconnectFence
  <1> QED
    BY <1>1, <1>2, <1>3

\* A handler that works on a session works on one that has a row.
LEMMA AtWork ==
  ASSUME Ordered, NEW p \in Procs, pc[p] # "idle"
  PROVE  /\ sid[p] \in Ids /\ Exists(sid[p]) /\ op[p] \in {"start", "logout", "forceKill"}
         /\ pc[p] \notin DeleteLocs
         /\ p \in Procs \cup {None}
  BY DEF Ordered, StatusInv, Present, IInv, ProcsOK, Handlers

\* If the session of p is about to read active, and had an engine or p in hand, it still
\* has an engine, or p or another handler in hand.
Cares(p) ==
  SaysIn(writes', row', sid[p], Active) /\ (engines[sid[p]] # None \/ pc[p] \in HandLocs) =>
    \/ engines'[sid[p]] # None
    \/ pc'[p] \in HandLocs /\ sid'[p] = sid[p]
    \/ \E q \in Procs \ {p} : sid[q] = sid[p] /\ pc[q] \in HandLocs

\* The same, when the row of the session is known to read active no more.
LEMMA Silenced ==
  ASSUME NEW p \in Procs, ~SaysIn(writes', row', sid[p], Active)
  PROVE  Cares(p)
  BY DEF Cares

\* A throw says nothing, and a start that finds an engine has it in hand to kill and report.
LEMMA ThrowCares ==
  ASSUME Ordered, NEW p \in Procs, pc[p] \in Launching, NEW ws, Left(ws), Throw(p, ws)
  PROVE  Left(writes') /\ Cares(p)
  <1>1. op[p] = "start" /\ sid[p] \in Ids
    BY DEF Ordered, Ownership, Roles, Launching, IInv, ProcsOK, Handlers
  <1>2. writes' = ws
    BY <1>1 DEF Throw
  <1>3. CASE engines[sid[p]] # None
    <2>1. pc'[p] = "catch_kill" /\ sid'[p] = sid[p]
      BY <1>1, <1>3 DEF Throw, Goto, Ordered, IInv, ProcsOK
    <2> QED
      BY <1>2, <2>1 DEF Cares, HandLocs
  <1>4. CASE engines[sid[p]] = None
    BY <1>2, <1>4 DEF Cares, HandLocs, Launching
  <1> QED
    BY <1>3, <1>4

\* The steps before and after a launch.
LEMMA QuietSays ==
  ASSUME Retiring, Ordered, NEW p \in Procs,
         StartRow(p) \/ StartFence(p) \/ PostRow(p) \/ PurgeCheck(p) \/ Purged(p) \/ RetireKilled(p)
  PROVE  Left(writes') /\ Cares(p)
  <1>1. pc[p] # "idle" /\ pc[p] \notin HandLocs /\ UNCHANGED row
    BY DEF StartRow, StartFence, PostRow, PurgeCheck, Purged, RetireKilled, HandLocs
  <1>2. sid[p] \in Ids /\ Exists(sid[p])
    BY <1>1, AtWork
  <1>3. UNCHANGED writes
    BY <1>2 DEF StartRow, StartFence, PostRow, RowGone, PurgeCheck, Purged, RetireKilled
  <1>4. Left(writes')
    BY <1>1, <1>3, LeftNow DEF Ordered, StatusInv
  <1>5. CASE RetireKilled(p)
    <2>1. CASE engines[sid[p]] = None
      BY <1>1, <1>4, <2>1 DEF Cares
    <2>2. CASE engines[sid[p]] # None
      <3>1. sid[p] \in stopping
        BY <1>5 DEF RetireKilled, Ordered, StatusInv, StartMarks
      <3>2. PICK q \in Procs : sid[q] = sid[p] /\ pc[q] \in {"verb_wait", "teardown"}
        BY <2>2, <3>1 DEF Ordered, StatusInv, Marks
      <3>3. q # p
        BY <1>1, <3>2 DEF HandLocs
      <3> QED
        BY <1>4, <3>2, <3>3 DEF Cares, HandLocs
    <2> QED
      BY <2>1, <2>2
  <1>6. CASE ~RetireKilled(p)
    <2>1. UNCHANGED engines
      BY <1>6 DEF StartRow, StartFence, PostRow, PurgeCheck, Purged
    <2> QED
      BY <1>1, <1>4, <2>1 DEF Cares
  <1> QED
    BY <1>4, <1>5, <1>6

\* start() registers an engine and says INITIALIZING.
LEMMA HookSays ==
  ASSUME Retiring, Ordered, NEW p \in Procs, StartHook(p)
  PROVE  Left(writes') /\ Cares(p)
  <1>1. sid[p] \in Ids /\ Exists(sid[p]) /\ UNCHANGED row
    BY AtWork DEF StartHook
  <1>2. engines'[sid[p]] # None
    BY <1>1, ConstantsAssumption DEF StartHook, InitializeEngine, Ordered, IInv, EnginesOK
  <1>3. Left(writes)
    BY <1>1, LeftNow DEF Ordered, StatusInv
  <1>4. writes' = Append(writes, StatusWrite(sid[p], "initializing", p))
    BY DEF StartHook, InitializeEngine
  <1>5. Left(Append(writes, StatusWrite(sid[p], "initializing", p)))
    BY <1>1, <1>2, <1>3, LeftSent DEF Statuses
  <1> QED
    BY <1>2, <1>4, <1>5 DEF Cares

\* That write lands.
LEMMA WrittenSays ==
  ASSUME Retiring, Ordered, NEW p \in Procs, InitWritten(p)
  PROVE  Left(writes') /\ Cares(p)
  <1> DEFINE waiters == {q \in Procs : pc[q] = "verb_wait" /\ eng[q] = eng[p]}
             locs == [q \in Procs |-> IF q \in waiters THEN "teardown" ELSE pc[q]]
  <1>1. sid[p] \in Ids /\ Exists(sid[p]) /\ pc[p] \notin HandLocs /\ UNCHANGED engines
    BY AtWork DEF InitWritten, HandLocs
  <1>2. PICK k \in 1..Len(writes) : Lands(p, k) /\ (writes' = Without(writes, k)
                                                    \/ InitReturns(p, locs, Without(writes, k)))
    BY DEF InitWritten, Settled
  <1> HIDE DEF locs
  <1>3. Left(Without(writes, k))
    BY <1>2, LeftLanded DEF Retiring, Ordered, StatusInv
  <1>4. Left(writes')
    BY <1>1, <1>2, <1>3, LeftReturns
  <1> QED
    BY <1>1, <1>4 DEF Cares

\* initialize() settles.
LEMMA RunsSays ==
  ASSUME Retiring, Ordered, NEW p \in Procs, InitRuns(p)
  PROVE  Left(writes') /\ Cares(p)
  <1>1. pc[p] = "init_run" /\ sid[p] \in Ids /\ Exists(sid[p]) /\ UNCHANGED row /\ pc[p] \notin HandLocs
    BY AtWork DEF InitRuns, HandLocs
  <1>2. Left(writes)
    BY <1>1, LeftNow DEF Ordered, StatusInv
  <1>3. CASE InitReturns(p, pc, writes) /\ UNCHANGED engines
    BY <1>1, <1>2, <1>3, LeftReturns DEF Cares
  <1>4. CASE OnError(sid[p]) /\ Finish(p)
    <2>1. writes' = Append(writes, StatusWrite(sid[p], "failed", None))
      BY <1>4 DEF OnError
    <2>2. /\ Left(Append(writes, StatusWrite(sid[p], "failed", None)))
          /\ ~SaysIn(Append(writes, StatusWrite(sid[p], "failed", None)), row', sid[p], Active)
      BY <1>1, <1>2, LeftSent DEF Statuses, Active
    <2>3. ~SaysIn(writes', row', sid[p], Active)
      BY <2>1, <2>2
    <2> QED
      BY <2>1, <2>2, <2>3, Silenced
  <1>5. CASE Throw(p, writes)
    BY <1>1, <1>2, <1>5, ThrowCares DEF Launching
  <1>6. CASE Goto(p, "init_kill") /\ UNCHANGED <<writes, sid>>
    <2>1. pc'[p] = "init_kill"
      BY <1>6 DEF Goto, Ordered, IInv, ProcsOK
    <2> QED
      BY <1>2, <1>6, <2>1 DEF Cares, HandLocs
  <1> QED
    BY <1>3, <1>4, <1>5, <1>6 DEF InitRuns, InitRejects

\* A handler that has closed an engine says so.
LEMMA KilledSays ==
  ASSUME Retiring, Ordered, NEW p \in Procs, InitKilled(p) \/ CatchKilled(p) \/ TornDown(p)
  PROVE  Left(writes') /\ Cares(p)
  <1>1. sid[p] \in Ids /\ Exists(sid[p]) /\ UNCHANGED row /\ op[p] # "delete"
    BY AtWork DEF InitKilled, CatchKilled, TornDown
  <1>2. Left(writes)
    BY <1>1, LeftNow DEF Ordered, StatusInv
  <1>3. PICK s \in {"disconnected", "failed"} : writes' = Append(writes, StatusWrite(sid[p], s, p))
    BY <1>1 DEF InitKilled, CatchKilled, TornDown
  <1>4. /\ Left(Append(writes, StatusWrite(sid[p], s, p)))
        /\ ~SaysIn(Append(writes, StatusWrite(sid[p], s, p)), row', sid[p], Active)
    BY <1>1, <1>2, LeftSent DEF Statuses, Active
  <1> QED
    BY <1>3, <1>4, Silenced

\* The last UPDATE of a handler lands.
LEMMA LastSays ==
  ASSUME Retiring, Ordered, NEW p \in Procs, InitKillWritten(p) \/ CatchWritten(p) \/ VerbWritten(p)
  PROVE  Left(writes') /\ Cares(p)
  <1>1. PICK k \in 1..Len(writes) :
          /\ Lands(p, k)
          /\ \/ pc[p] \in Launching /\ Throw(p, Without(writes, k))
             \/ pc[p] \notin HandLocs /\ UNCHANGED engines /\ writes' = Without(writes, k)
    BY DEF InitKillWritten, CatchWritten, VerbWritten, Settled, Launching, HandLocs
  <1>2. Left(Without(writes, k))
    BY <1>1, LeftLanded DEF Retiring, Ordered, StatusInv
  <1>3. CASE Throw(p, Without(writes, k)) /\ pc[p] \in Launching
    BY <1>2, <1>3, ThrowCares
  <1>4. CASE pc[p] \notin HandLocs /\ UNCHANGED engines /\ writes' = Without(writes, k)
    BY <1>2, <1>4 DEF Cares
  <1> QED
    BY <1>1, <1>3, <1>4

\* What a logout or a kill does once it has read its row: refused, or it retires an engine.
LEMMA VerbRetires ==
  ASSUME Retiring, Ordered, NEW p \in Procs, VerbRow(p)
  PROVE  /\ sid[p] \in Ids /\ Exists(sid[p]) /\ pc[p] = "verb_row"
         /\ UNCHANGED <<row, engines>>
         /\ \/ Finish(p) /\ UNCHANGED <<stopping, writes>>
            \/ /\ engines[sid[p]] # None
               /\ stopping' = stopping \cup {sid[p]} /\ sid'[p] = sid[p]
               /\ eng' = [eng EXCEPT ![p] = engines[sid[p]]]
               /\ \/ /\ AwaitsInitial(sid[p], engines[sid[p]])
                     /\ Goto(p, "verb_wait") /\ UNCHANGED writes
                  \/ /\ Goto(p, "teardown")
                     /\ writes' \in TeardownWrites(sid[p], engines[sid[p]], op[p] = "logout", writes)
  <1>1. op[p] \in {"start", "logout", "forceKill"} /\ sid[p] \in Ids /\ Exists(sid[p])
        /\ pc[p] = "verb_row" /\ UNCHANGED <<row, engines>>
    BY AtWork DEF VerbRow
  <1>2. (Finish(p) /\ UNCHANGED <<stopping, writes>>) \/ Retire(p)
    BY <1>1 DEF VerbRow
  <1>3. CASE Retire(p)
    <2>1. sid'[p] = sid[p]
      BY <1>3 DEF Retire
    <2> QED
      BY <1>1, <1>3, <2>1 DEF Retire, BeginTeardown
  <1> QED
    BY <1>1, <1>2, <1>3

\* A logout or kill that retires its session keeps its engine registered meanwhile.
LEMMA VerbSays ==
  ASSUME Retiring, Ordered, NEW p \in Procs, VerbRow(p)
  PROVE  Left(writes') /\ Cares(p)
  <1>1. UNCHANGED <<row, engines>> /\ sid[p] \in Ids /\ Exists(sid[p]) /\ pc[p] = "verb_row"
    BY VerbRetires
  <1>2. Left(writes)
    BY <1>1, LeftNow DEF Ordered, StatusInv
  <1>3. writes' = writes \/ writes' \in TeardownWrites(sid[p], engines[sid[p]], op[p] = "logout", writes)
    BY VerbRetires
  <1>4. Left(writes')
    BY <1>1, <1>2, <1>3, LeftTeardown
  <1> QED
    BY <1>1, <1>4 DEF Cares, HandLocs

\* A handler registers and evicts engines of its own session only.
LEMMA EnginesElsewhere ==
  ASSUME IInv, Roles, NEW p \in Procs, Step(p)
  PROVE  \A i \in Ids \ {sid[p]} : engines'[i] = engines[i]
  <1>1. ASSUME NEW ws, Throw(p, ws)
        PROVE  \A i \in Ids \ {sid[p]} : engines'[i] = engines[i]
    BY <1>1 DEF Throw, Roles, IInv, EnginesOK
  <1>2. CASE StartRow(p) \/ StartFence(p) \/ InitWritten(p) \/ InitKilled(p) \/ CatchKilled(p)
             \/ CatchWritten(p) \/ PostRow(p) \/ PurgeCheck(p) \/ Purged(p)
    BY <1>2 DEF StartRow, StartFence, InitWritten, InitKilled, CatchKilled, CatchWritten, PostRow,
       PurgeCheck, Purged
  <1>3. CASE StartHook(p)
    BY <1>3 DEF StartHook, InitializeEngine, IInv, EnginesOK
  <1>4. CASE InitWriteFails(p) \/ InitRuns(p) \/ InitKillWritten(p)
    BY <1>1, <1>4 DEF InitWriteFails, InitRuns, InitRejects, OnError, InitKillWritten, IInv, EnginesOK
  <1>5. CASE RetireKilled(p) \/ TornDown(p)
    BY <1>5 DEF RetireKilled, TornDown, DeleteIfLive, IInv, EnginesOK
  <1>6. CASE VerbRow(p) \/ DeleteFence1(p) \/ VerbWaited(p) \/ DeleteFence2(p) \/ DeleteCommits(p)
             \/ DeletePurged(p) \/ VerbWritten(p)
    BY <1>6 DEF VerbRow, DeleteFence1, VerbWaited, DeleteFence2, DeleteCommits, DeletePurged,
       VerbWritten
  <1>7. CASE ReconnectKilled(p) \/ ReconnectFence(p)
    BY <1>7 DEF ReconnectKilled, ReconnectFence, Roles
  <1> QED
    BY <1>2, <1>3, <1>4, <1>5, <1>6, <1>7 DEF Step

\* What every continuation says, and whom it leaves in charge of its session.
LEMMA StepSays ==
  ASSUME Retiring, Ordered, NEW p \in Procs, Step(p)
  PROVE  Left(writes') /\ Cares(p)
  <1>1. CASE StartRow(p) \/ StartFence(p) \/ PostRow(p) \/ PurgeCheck(p) \/ Purged(p) \/ RetireKilled(p)
    BY <1>1, QuietSays
  <1>2. CASE StartHook(p) \/ InitWritten(p) \/ InitRuns(p)
    BY <1>2, HookSays, WrittenSays, RunsSays
  <1>3. CASE InitKilled(p) \/ CatchKilled(p) \/ TornDown(p)
    BY <1>3, KilledSays
  <1>4. CASE InitKillWritten(p) \/ CatchWritten(p) \/ VerbWritten(p)
    BY <1>4, LastSays
  <1>5. CASE VerbRow(p)
    BY <1>5, VerbSays
  <1> QED
    BY <1>1, <1>2, <1>3, <1>4, <1>5, NoSuchStep DEF Step

\* Such a step keeps an engine or a handler behind every session about to read active.
LEMMA StepSpoken ==
  ASSUME Retiring, Ordered, NEW p \in Procs, Step(p)
  PROVE  Spoken'
  <1> SUFFICES ASSUME NEW i \in Ids, Heard(i)', engines'[i] = None
               PROVE  Hands(i)'
    BY DEF Spoken
  <1>1. SaysIn(writes', row', i, Active)
    BY DEF Heard
  <1>2. Heard(i)
    BY <1>1, StepSays DEF Left
  <1>3. engines[i] # None \/ \E q \in Procs : sid[q] = i /\ pc[q] \in HandLocs
    BY <1>2 DEF Ordered, StatusInv, Spoken, Hands
  <1>4. \A q \in Procs \ {p} : pc[q] \in HandLocs => pc'[q] \in HandLocs /\ sid'[q] = sid[q]
    BY OthersStay DEF Ordered, HandLocs
  <1>5. CASE i # sid[p]
    <2>1. engines[i] = None
      BY <1>5, EnginesElsewhere DEF Ordered, Ownership
    <2>2. PICK q \in Procs : sid[q] = i /\ pc[q] \in HandLocs
      BY <1>3, <2>1
    <2> QED
      BY <1>4, <1>5, <2>2 DEF Hands
  <1>6. CASE i = sid[p]
    <2>1. engines[sid[p]] # None \/ pc[p] \in HandLocs \/ \E q \in Procs \ {p} : sid[q] = sid[p] /\ pc[q] \in HandLocs
      BY <1>3, <1>6
    <2>2. Cares(p)
      BY StepSays
    <2>3. SaysIn(writes', row', sid[p], Active) /\ engines'[sid[p]] = None
      BY <1>1, <1>6
    <2>4. (pc'[p] \in HandLocs /\ sid'[p] = sid[p]) \/ \E q \in Procs \ {p} : sid[q] = sid[p] /\ pc[q] \in HandLocs
      BY <2>1, <2>2, <2>3 DEF Cares
    <2> QED
      BY <1>4, <1>6, <2>4 DEF Hands
  <1> QED
    BY <1>5, <1>6

\* No handler gets where only delete() goes.
LEMMA NoDelete ==
  ASSUME Retiring, Ordered, NEW p \in Procs, Step(p)
  PROVE  pc'[p] \notin DeleteLocs /\ (pc'[p] = "idle" \/ (op'[p] = op[p] /\ sid'[p] = sid[p]))
  <1>1. IInv /\ pc \in [Procs -> Locations]
    BY DEF Ordered, IInv, ProcsOK
  <1>2. pc'[p] = "idle" \/ (op'[p] = op[p] /\ sid'[p] = sid[p])
    <2>1. UNCHANGED <<op, sid, initializing>> \/ Finish(p)
      BY <1>1, StepShape
    <2> QED
      BY <1>1, <2>1 DEF Finish
  <1>3. CASE pc'[p] = "idle"
    BY <1>2, <1>3 DEF DeleteLocs
  <1>4. pc[p] # "idle" /\ op[p] # "delete"
    <2>1. pc[p] # "idle"
      BY DEF Step, StartRow, StartFence, StartHook, InitWritten, InitWriteFails, InitRuns, InitKilled,
         InitKillWritten, CatchKilled, CatchWritten, PostRow, RetireKilled, PurgeCheck, Purged,
         VerbRow, DeleteFence1, VerbWaited, TornDown, DeleteFence2, DeleteCommits, DeletePurged,
         VerbWritten, ReconnectKilled, ReconnectFence
    <2> QED
      BY <2>1, AtWork
  <1>5. CASE StartRow(p) \/ StartFence(p) \/ StartHook(p)
    BY <1>1, <1>5 DEF StartRow, StartFence, StartHook, AdmitStart, InitializeEngine, Finish, Goto, DeleteLocs
  <1>6. CASE InitWritten(p)
    BY <1>1, <1>6 DEF InitWritten, InitReturns, DeleteLocs
  <1>7. CASE InitRuns(p) \/ InitKillWritten(p)
    <2>1. ASSUME NEW ws, Throw(p, ws)
          PROVE  pc'[p] \in {"idle", "catch_kill"}
      BY <1>1, <2>1 DEF Throw, Finish, Goto
    <2> QED
      BY <1>1, <1>2, <1>7, <2>1 DEF InitRuns, InitReturns, InitRejects, InitKillWritten, Finish, Goto, DeleteLocs
  <1>8. CASE InitKilled(p) \/ CatchKilled(p) \/ CatchWritten(p) \/ PostRow(p) \/ RetireKilled(p)
             \/ PurgeCheck(p) \/ Purged(p)
    BY <1>1, <1>8 DEF InitKilled, CatchKilled, CatchWritten, PostRow, RetireKilled, PurgeCheck, Purged,
       Finish, Goto, DeleteLocs
  <1>9. CASE TornDown(p) \/ VerbWritten(p)
    BY <1>1, <1>4, <1>9 DEF TornDown, VerbWritten, Finish, Goto, DeleteLocs
  <1>10. CASE VerbRow(p)
    BY <1>1, <1>2, <1>10, VerbRetires DEF Finish, Goto, DeleteLocs
  <1> QED
    BY <1>2, <1>5, <1>6, <1>7, <1>8, <1>9, <1>10, NoSuchStep DEF Step

\* Rows stay.
LEMMA StepPresent ==
  ASSUME Retiring, Ordered, NEW p \in Procs, Step(p)
  PROVE  Present'
  <1>1. Left(writes')
    BY StepSays
  <1>2. \A i \in Ids : row'[i] # "deleted" /\ (Exists(i) => Exists(i)')
    BY <1>1 DEF Left
  <1>3. \A k \in 1..Len(writes') : Exists(writes[k].id)'
    BY <1>1 DEF Left, Exists
  <1>4. ASSUME NEW i \in Ids, engines'[i] # None
        PROVE  Exists(i)'
    <2>1. CASE StartHook(p)
      <3>1. Exists(sid[p])
        BY <2>1, AtWork DEF StartHook
      <3>2. i # sid[p] => Exists(i)
        BY <1>4, EnginesElsewhere DEF Ordered, Ownership, StatusInv, Present
      <3> QED
        BY <1>2, <3>1, <3>2
    <2>2. CASE ~StartHook(p)
      <3>1. engines[i] # None
        BY <1>4, <2>2, StepEvicts DEF Ordered, Evicts
      <3> QED
        BY <1>2, <3>1 DEF Ordered, StatusInv, Present
    <2> QED
      BY <2>1, <2>2
  <1>5. ASSUME NEW q \in Procs, pc'[q] # "idle"
        PROVE  Exists(sid[q])' /\ op'[q] \in {"start", "logout", "forceKill"} /\ pc'[q] \notin DeleteLocs
    <2>1. pc[q] # "idle" /\ op'[q] = op[q] /\ sid'[q] = sid[q] /\ pc'[q] \notin DeleteLocs
      <3>1. CASE q = p
        <4>1. pc[p] # "idle"
          BY DEF Step, StartRow, StartFence, StartHook, InitWritten, InitWriteFails, InitRuns, InitKilled,
             InitKillWritten, CatchKilled, CatchWritten, PostRow, RetireKilled, PurgeCheck, Purged,
             VerbRow, DeleteFence1, VerbWaited, TornDown, DeleteFence2, DeleteCommits, DeletePurged,
             VerbWritten, ReconnectKilled, ReconnectFence
        <4> QED
          BY <1>5, <3>1, <4>1, NoDelete
      <3>2. CASE q # p
        <4>1. pc[q] # "idle"
          BY <1>5, <3>2, OthersStay DEF Ordered
        <4> QED
          BY <3>2, <4>1, OthersStay, AtWork DEF Ordered, DeleteLocs
      <3> QED
        BY <3>1, <3>2
    <2>2. sid[q] \in Ids /\ Exists(sid[q]) /\ op[q] \in {"start", "logout", "forceKill"}
      BY <2>1, AtWork
    <2> QED
      BY <1>2, <2>1, <2>2 DEF Exists
  <1> QED
    BY <1>2, <1>3, <1>4, <1>5 DEF Present

\* The step after which a verb waits for a write, or does no more.
LEMMA StepWaits ==
  ASSUME Retiring, Ordered, NEW p \in Procs, Step(p)
  PROVE  WaitsForWrite'
  <1> SUFFICES ASSUME NEW q \in Procs, pc'[q] = "verb_wait"
               PROVE  \E r \in Procs : pc'[r] = "init_write" /\ eng'[r] = eng'[q]
    BY DEF WaitsForWrite
  <1>1. CASE q = p
    <2>1. VerbRow(p)
      <3>1. ASSUME NEW ws, Throw(p, ws)
            PROVE  FALSE
        BY <1>1, <3>1 DEF Throw, Finish, Goto, Ordered, IInv, ProcsOK
      <3>2. ~(StartRow(p) \/ StartFence(p) \/ StartHook(p) \/ InitKilled(p) \/ CatchKilled(p))
        BY <1>1 DEF StartRow, StartFence, StartHook, AdmitStart, InitializeEngine, InitKilled, CatchKilled,
           Finish, Goto, Ordered, IInv, ProcsOK
      <3>3. ~(InitWritten(p) \/ InitRuns(p) \/ InitKillWritten(p))
        BY <1>1, <3>1 DEF InitWritten, InitRuns, InitReturns, InitRejects, InitKillWritten, Finish, Goto,
           Ordered, IInv, ProcsOK
      <3>4. ~(CatchWritten(p) \/ PostRow(p) \/ RetireKilled(p) \/ PurgeCheck(p) \/ Purged(p))
        BY <1>1 DEF CatchWritten, PostRow, RetireKilled, PurgeCheck, Purged, Finish, Goto, Ordered, IInv, ProcsOK
      <3>5. ~(TornDown(p) \/ VerbWritten(p))
        BY <1>1 DEF TornDown, ToDeleteFence2, VerbWritten, Finish, Goto, Ordered, IInv, ProcsOK
      <3> QED
        BY <3>2, <3>3, <3>4, <3>5, NoSuchStep DEF Step
    <2>2. /\ AwaitsInitial(sid[p], engines[sid[p]]) /\ eng' = [eng EXCEPT ![p] = engines[sid[p]]]
          /\ Goto(p, "verb_wait") /\ sid[p] \in Ids /\ pc[p] = "verb_row"
      BY <1>1, <2>1, VerbRetires DEF Finish, Goto, Ordered, IInv, ProcsOK
    <2>3. PICK r \in Procs : pendingInit[sid[p]] = r /\ eng[r] = engines[sid[p]]
      BY <2>2 DEF AwaitsInitial, Ordered, IInv, EnginesOK
    <2>4. pc[r] = "init_write" /\ r # p
      BY <2>2, <2>3 DEF Ordered, TrackInv, Tracked
    <2> QED
      BY <1>1, <2>2, <2>3, <2>4 DEF Goto, Ordered, IInv, ProcsOK
  <1>2. CASE q # p
    <2>1. pc[q] = "verb_wait" /\ eng'[q] = eng[q]
      BY <1>2, OthersStay DEF Ordered
    <2>2. PICK r \in Procs : pc[r] = "init_write" /\ eng[r] = eng[q]
      BY <2>1 DEF Ordered, StatusInv, WaitsForWrite
    <2>3. r # p
      <3>1. CASE InitWritten(p)
        <4>1. \E locs : /\ locs = [x \in Procs |-> IF x \in {y \in Procs : pc[y] = "verb_wait" /\ eng[y] = eng[p]}
                                                  THEN "teardown" ELSE pc[x]]
                        /\ \E l : pc' = [locs EXCEPT ![p] = l]
          BY <3>1 DEF InitWritten, InitReturns
        <4>2. eng[q] = eng[p] => pc'[q] = "teardown"
          BY <1>2, <2>1, <4>1
        <4> QED
          BY <1>2, <2>1, <2>2, <4>2
      <3>2. CASE ~InitWritten(p)
        <4>1. pc[p] # "init_write"
          BY <3>2, NoSuchStep DEF Step, StartRow, StartFence, StartHook, InitRuns, InitKilled,
             InitKillWritten, CatchKilled, CatchWritten, PostRow, RetireKilled, PurgeCheck, Purged,
             VerbRow, TornDown, VerbWritten
        <4> QED
          BY <2>2, <4>1
      <3> QED
        BY <3>1, <3>2
    <2>4. pc'[r] = "init_write" /\ eng'[r] = eng[r]
      BY <2>2, <2>3, OthersStay DEF Ordered
    <2> QED
      BY <2>1, <2>2, <2>4
  <1> QED
    BY <1>1, <1>2

\* Only the head of start() drops a stop mark, its own session's, and only a verb sets one.
LEMMA StepStopping ==
  ASSUME Retiring, Ordered, NEW p \in Procs, Step(p)
  PROVE  \/ UNCHANGED stopping
         \/ StartRow(p) /\ stopping' = stopping \ {sid[p]}
         \/ StartFence(p) /\ stopping' = stopping \ {sid[p]}
         \/ VerbRow(p) /\ stopping' = stopping \cup {sid[p]} /\ engines[sid[p]] # None
  <1>1. CASE StartRow(p) \/ StartFence(p)
    BY <1>1 DEF StartRow, StartFence, AdmitStart
  <1>2. CASE VerbRow(p)
    BY <1>2, VerbRetires
  <1>3. CASE StartHook(p) \/ InitWritten(p) \/ InitRuns(p) \/ InitKilled(p) \/ InitKillWritten(p)
             \/ CatchKilled(p) \/ CatchWritten(p) \/ PostRow(p) \/ RetireKilled(p) \/ PurgeCheck(p)
             \/ Purged(p) \/ TornDown(p)
    BY <1>3 DEF StartHook, InitWritten, InitRuns, InitKilled, InitKillWritten, CatchKilled, CatchWritten,
       PostRow, RetireKilled, PurgeCheck, Purged, TornDown
  <1>4. CASE VerbWritten(p)
    <2>1. pc[p] # "refuse_write" /\ pc[p] # "idle"
      BY <1>4, AtWork DEF VerbWritten, DeleteLocs
    <2> QED
      BY <1>4, <2>1 DEF VerbWritten
  <1> QED
    BY <1>1, <1>2, <1>3, <1>4, NoSuchStep DEF Step

\* A handler comes to the hook by dropping the mark, and retires its engine only for a mark.
LEMMA MarksPassed ==
  ASSUME Retiring, Ordered, NEW p \in Procs, Step(p)
  PROVE  /\ pc'[p] = "start_hook" => AdmitStart(p)
         /\ pc'[p] = "retire_kill" =>
              sid[p] \in stopping /\ op[p] = "start" /\ UNCHANGED <<stopping, op, sid>>
  <1>1. ASSUME NEW ws, Throw(p, ws)
        PROVE  pc'[p] \in {"idle", "catch_kill"}
    BY <1>1 DEF Throw, Finish, Goto, Ordered, IInv, ProcsOK
  <1>2. CASE StartRow(p) \/ StartFence(p) \/ StartHook(p) \/ InitKilled(p) \/ CatchKilled(p)
    BY <1>2 DEF StartRow, StartFence, StartHook, AdmitStart, InitializeEngine, InitKilled, CatchKilled,
       Finish, Goto, Ordered, IInv, ProcsOK
  <1>3. CASE InitWritten(p) \/ InitRuns(p)
    <2>1. pc[p] \in {"init_write", "init_run"} /\ op[p] = "start" /\ UNCHANGED stopping
      BY <1>3 DEF InitWritten, InitRuns, Ordered, Ownership, Roles, Launching
    <2>2. /\ pc'[p] # "start_hook"
          /\ pc'[p] = "retire_kill" => sid[p] \in stopping /\ UNCHANGED <<op, sid>>
      BY <1>1, <1>3 DEF InitWritten, InitRuns, InitReturns, MarkedRetired, InitRejects, Finish, Goto,
         Ordered, IInv, ProcsOK
    <2> QED
      BY <2>1, <2>2
  <1>4. CASE InitKillWritten(p)
    BY <1>1, <1>4 DEF InitKillWritten
  <1>5. CASE PostRow(p)
    <2>1. ~RowGone(sid[p])
      BY <1>5, AtWork DEF PostRow, RowGone
    <2> QED
      BY <1>5, <2>1 DEF PostRow, Finish, Ordered, IInv, ProcsOK
  <1>6. CASE CatchWritten(p) \/ RetireKilled(p) \/ PurgeCheck(p) \/ Purged(p)
    BY <1>6 DEF CatchWritten, RetireKilled, PurgeCheck, Purged, Finish, Goto, Ordered, IInv, ProcsOK
  <1>7. CASE TornDown(p) \/ VerbWritten(p)
    BY <1>7 DEF TornDown, ToDeleteFence2, VerbWritten, Finish, Goto, Ordered, IInv, ProcsOK
  <1>8. CASE VerbRow(p)
    BY <1>8, VerbRetires DEF Finish, Goto, Ordered, IInv, ProcsOK
  <1> QED
    BY <1>2, <1>3, <1>4, <1>5, <1>6, <1>7, <1>8, NoSuchStep DEF Step

\* Every continuation keeps the marks of the starts.
LEMMA StepStartMarks ==
  ASSUME Retiring, Ordered, NEW p \in Procs, Step(p)
  PROVE  StartMarks'
  <1> SUFFICES ASSUME NEW q \in Procs
               PROVE  /\ pc'[q] = "start_hook" => sid'[q] \notin stopping'
                      /\ pc'[q] = "retire_kill" => op'[q] = "start" /\ sid'[q] \in stopping'
    BY DEF StartMarks
  <1>1. CASE q = p
    BY <1>1, MarksPassed DEF AdmitStart
  <1>2. CASE q # p
    <2>1. op'[q] = op[q] /\ sid'[q] = sid[q] /\ (pc'[q] = pc[q] \/ pc'[q] = "teardown")
      BY <1>2, OthersStay DEF Ordered
    <2>2. ASSUME pc[q] = "start_hook"
          PROVE  sid[q] \notin stopping'
      <3>1. sid[q] \notin stopping /\ engines[sid[q]] = None
        BY <2>2 DEF Ordered, StatusInv, StartMarks, Ownership, Roles, Ahead, StartsOwn, Starting
      <3> QED
        BY <3>1, StepStopping
    <2>3. ASSUME pc[q] = "retire_kill"
          PROVE  op[q] = "start" /\ sid[q] \in stopping'
      <3>1. op[q] = "start" /\ sid[q] \in stopping
        BY <2>3 DEF Ordered, StatusInv, StartMarks
      <3>2. StartRow(p) \/ StartFence(p) => op[p] = "start"
        BY DEF StartRow, StartFence, Ordered, Ownership, Roles, Ahead
      <3>3. op[p] = "start" => sid[p] # sid[q]
        BY <1>2, <3>1 DEF Ordered, StartReservation, Starting
      <3> QED
        BY <3>1, <3>2, <3>3, StepStopping
    <2> QED
      BY <2>1, <2>2, <2>3
  <1> QED
    BY <1>1, <1>2

\* Behind a mark there stays a verb that tears the engine down.
LEMMA StepMarks ==
  ASSUME Retiring, Ordered, NEW p \in Procs, Step(p)
  PROVE  Marks'
  <1> DEFINE Tears(q, i) == sid[q] = i /\ pc[q] \in {"verb_wait", "teardown"} /\ eng[q] = engines[i]
  <1>0. stopping' \subseteq Ids
    BY StepInv DEF Ordered, IInv, RowsOK
  <1> SUFFICES ASSUME NEW i \in Ids, i \in stopping', engines'[i] # None
               PROVE  \E q \in Procs : sid'[q] = i /\ pc'[q] \in {"verb_wait", "teardown"}
                                       /\ eng'[q] = engines'[i]
    BY <1>0 DEF Marks
  <1>1. ASSUME NEW q \in Procs \ {p}, Tears(q, i), engines'[i] = engines[i]
        PROVE  \E r \in Procs : sid'[r] = i /\ pc'[r] \in {"verb_wait", "teardown"}
                                /\ eng'[r] = engines'[i]
    BY <1>1, OthersStay DEF Ordered
  <1>2. CASE StartHook(p)
    <2>1. pc[p] = "start_hook" /\ UNCHANGED stopping
      BY <1>2 DEF StartHook
    <2>2. i # sid[p]
      BY <2>1 DEF Ordered, StatusInv, StartMarks
    <2>3. engines'[i] = engines[i]
      BY <2>2, EnginesElsewhere DEF Ordered, Ownership
    <2>4. PICK q \in Procs : Tears(q, i)
      BY <2>1, <2>3 DEF Ordered, StatusInv, Marks
    <2> QED
      BY <1>1, <2>1, <2>3, <2>4
  <1>3. CASE VerbRow(p) /\ i \notin stopping
    <2>1. i = sid[p] /\ sid'[p] = sid[p] /\ eng' = [eng EXCEPT ![p] = engines[sid[p]]]
          /\ (Goto(p, "verb_wait") \/ Goto(p, "teardown")) /\ UNCHANGED engines
      BY <1>3, VerbRetires
    <2> QED
      BY <2>1 DEF Goto, Ordered, IInv, ProcsOK
  <1>4. CASE ~StartHook(p) /\ i \in stopping
    <2>1. engines'[i] = engines[i]
      BY <1>4, StepEvicts DEF Ordered, Evicts
    <2>2. PICK q \in Procs : Tears(q, i)
      BY <1>4, <2>1 DEF Ordered, StatusInv, Marks
    <2>3. CASE q = p
      <3>1. TornDown(p)
        BY <1>4, <2>2, <2>3, NoSuchStep DEF Step, StartRow, StartFence, InitWritten, InitRuns, InitKilled,
           InitKillWritten, CatchKilled, CatchWritten, PostRow, RetireKilled, PurgeCheck, Purged,
           VerbRow, VerbWritten
      <3> QED
        BY <2>1, <2>2, <2>3, <3>1 DEF TornDown, DeleteIfLive, Ordered, IInv, EnginesOK
    <2>4. CASE q # p
      BY <1>1, <2>1, <2>2, <2>4
    <2> QED
      BY <2>3, <2>4
  <1> QED
    BY <1>2, <1>3, <1>4, StepStopping

\* Every continuation of a handler keeps the status of its session in order.
LEMMA StepStatus ==
  ASSUME Retiring, Ordered, NEW p \in Procs, Step(p)
  PROVE  StatusInv'
  BY StepPresent, StepWaits, StepStartMarks, StepMarks, StepSpoken DEF StatusInv

-----------------------------------------------------------------------------
\* A step of no handler changes no engine but by eviction, nor a mark, nor a handler at work.
LEMMA OutsideSays ==
  ASSUME Retiring, Ordered, Left(writes'), Evicts, UNCHANGED stopping,
         \A q \in Procs :
           \/ pc'[q] = pc[q] /\ op'[q] = op[q] /\ sid'[q] = sid[q] /\ eng'[q] = eng[q]
           \/ /\ pc[q] = "idle" /\ pc'[q] \in {"start_row", "verb_row"}
              /\ Exists(sid'[q]) /\ sid'[q] \in Ids /\ op'[q] \in {"start", "logout", "forceKill"},
         \A i \in Ids : SaysIn(writes', row', i, Active) /\ engines[i] # None => engines'[i] # None
  PROVE  StatusInv'
  <1>1. \A i \in Ids : row'[i] # "deleted" /\ (Exists(i) => Exists(i)')
    BY DEF Left
  <1>2. Present'
    <2>1. \A k \in 1..Len(writes') : Exists(writes[k].id)'
      BY DEF Left, Exists
    <2>2. \A i \in Ids : engines'[i] # None => Exists(i)'
      BY <1>1 DEF Evicts, Ordered, StatusInv, Present
    <2>3. ASSUME NEW q \in Procs, pc'[q] # "idle"
          PROVE  Exists(sid[q])' /\ op'[q] \in {"start", "logout", "forceKill"} /\ pc'[q] \notin DeleteLocs
      <3>1. sid'[q] \in Ids /\ Exists(sid'[q]) /\ op'[q] \in {"start", "logout", "forceKill"}
            /\ pc'[q] \notin DeleteLocs
        BY <2>3, AtWork DEF DeleteLocs
      <3> QED
        BY <1>1, <3>1 DEF Exists
    <2> QED
      BY <1>1, <2>1, <2>2, <2>3 DEF Present
  <1>3. \A q \in Procs : pc'[q] \notin {"idle", "start_row", "verb_row"} =>
          pc'[q] = pc[q] /\ op'[q] = op[q] /\ sid'[q] = sid[q] /\ eng'[q] = eng[q]
    OBVIOUS
  <1>4. \A q \in Procs : pc[q] \notin {"idle", "start_row", "verb_row"} =>
          pc'[q] = pc[q] /\ op'[q] = op[q] /\ sid'[q] = sid[q] /\ eng'[q] = eng[q]
    OBVIOUS
  <1>5. WaitsForWrite'
    BY <1>3, <1>4 DEF WaitsForWrite, Ordered, StatusInv
  <1>6. StartMarks'
    BY <1>3 DEF StartMarks, Ordered, StatusInv
  <1>7. Marks'
    BY <1>4 DEF Marks, Ordered, StatusInv, Evicts, IInv, RowsOK
  <1>8. Spoken'
    <2> SUFFICES ASSUME NEW i \in Ids, Heard(i)', engines'[i] = None
                 PROVE  Hands(i)'
      BY DEF Spoken
    <2>1. SaysIn(writes', row', i, Active)
      BY DEF Heard
    <2>2. Heard(i) /\ engines[i] = None
      BY <2>1 DEF Left
    <2>3. PICK q \in Procs : sid[q] = i /\ pc[q] \in HandLocs
      BY <2>2 DEF Ordered, StatusInv, Spoken, Hands
    <2> QED
      BY <1>4, <2>3 DEF Hands, HandLocs
  <1> QED
    BY <1>2, <1>5, <1>6, <1>7, <1>8 DEF StatusInv

\* A session that is created is not active.
LEMMA CreateStatus ==
  ASSUME Retiring, Ordered, NEW i \in Ids, Create(i)
  PROVE  StatusInv'
  <1>1. /\ row[i] = "unborn" /\ row' = [row EXCEPT ![i] = "created"]
        /\ UNCHANGED <<engines, stopping, writes, procVars>>
    BY DEF Create
  <1>2. \A j \in Ids : /\ row'[j] # "deleted" /\ (Exists(j) => Exists(j)')
                       /\ j # i => row'[j] = row[j]
    BY <1>1 DEF Ordered, StatusInv, Present, Exists, NoRow, IInv, RowsOK
  <1>3. ASSUME NEW j \in Ids, SaysIn(writes, row', j, Active)
        PROVE  Heard(j)
    <2>1. CASE j = i
      <3>1. row'[i] \notin Active
        BY <1>1 DEF Ordered, IInv, RowsOK, Active
      <3> QED
        BY <1>3, <2>1, <3>1 DEF SaysIn, Heard
    <2>2. CASE j # i
      BY <1>2, <1>3, <2>2 DEF SaysIn, Heard
    <2> QED
      BY <2>1, <2>2
  <1>4. \A k \in 1..Len(writes) : row'[writes[k].id] \notin NoRow
    <2>1. \A k \in 1..Len(writes) : writes[k].id \in Ids
      <3>1. \A k \in 1..Len(writes) : writes[k] \in Writes
        BY DEF Ordered, IInv, WritesOK
      <3> QED
        BY <3>1 DEF Writes
    <2> QED
      BY <1>2, <2>1 DEF Ordered, StatusInv, Present, Exists
  <1>5. Left(writes)
    BY <1>2, <1>3, <1>4 DEF Left, Ordered, IInv, WritesOK
  <1>6. Left(writes')
    BY <1>1, <1>5
  <1> QED
    BY <1>1, <1>6, OutsideSays DEF procVars, Evicts

\* A client's call is about a session that has a row, and sets no mark.
LEMMA RequestStatus ==
  ASSUME Retiring, Ordered, NEW p \in Procs, NEW v \in Verbs, NEW i \in Ids, Request(p, v, i)
  PROVE  StatusInv'
  <1>1. v \in {"start", "logout", "forceKill"}
    BY ConstantsAssumption DEF Retiring
  <1>2. Exists(i) /\ pc[p] = "idle"
    BY DEF Request, Ordered, StatusInv, Present, Exists, NoRow, IInv, RowsOK
  <1>3. UNCHANGED <<row, engines, stopping, writes, eng>>
    BY <1>1 DEF Request
  <1>4. Left(writes')
    BY <1>3, LeftNow DEF Ordered, StatusInv
  <1>5. /\ pc'[p] \in {"start_row", "verb_row"} /\ op'[p] = v /\ sid'[p] = i
        /\ \A q \in Procs \ {p} : pc'[q] = pc[q] /\ op'[q] = op[q] /\ sid'[q] = sid[q] /\ eng'[q] = eng[q]
    BY <1>3 DEF Request, Ordered, IInv, ProcsOK
  <1>6. \A q \in Procs :
           \/ pc'[q] = pc[q] /\ op'[q] = op[q] /\ sid'[q] = sid[q] /\ eng'[q] = eng[q]
           \/ /\ pc[q] = "idle" /\ pc'[q] \in {"start_row", "verb_row"}
              /\ Exists(sid'[q]) /\ sid'[q] \in Ids /\ op'[q] \in {"start", "logout", "forceKill"}
    BY <1>1, <1>2, <1>5
  <1> QED
    BY <1>3, <1>4, <1>6, OutsideSays DEF Evicts

\* What an engine reports is about its own session, while it is registered.
LEMMA EventStatus ==
  ASSUME Retiring, Ordered, EngineEvent
  PROVE  StatusInv'
  <1>1. UNCHANGED <<row, stopping, procVars>>
    BY DEF EngineEvent, EngineReady, EngineState, EngineLost, EngineError, OnError, StuckAuth, EngineUnlinked
  <1>2. Left(writes)
    BY <1>1, LeftNow DEF Ordered, StatusInv
  <1>3. \A i \in Ids : EngineUp(i) => engines[i] # None /\ Exists(i)
    BY DEF EngineUp, Ordered, StatusInv, Present
  <1>4. CASE UNCHANGED <<engines, writes>>
    <2>1. Left(writes')
      BY <1>2, <1>4
    <2> QED
      BY <1>1, <1>4, <2>1, OutsideSays DEF procVars, Evicts
  <1>5. ASSUME NEW i \in Ids, NEW s \in Statuses, EngineUp(i), UNCHANGED engines,
               writes' = Append(writes, StatusWrite(i, s, None))
        PROVE  StatusInv'
    <2>1. Left(Append(writes, StatusWrite(i, s, None)))
      BY <1>2, <1>3, <1>5, LeftSent
    <2>2. Left(writes')
      BY <1>5, <2>1
    <2> QED
      BY <1>1, <1>5, <2>2, OutsideSays DEF procVars, Evicts
  <1>6. ASSUME NEW i \in Ids, EngineError(i)
        PROVE  StatusInv'
    <2>1. /\ EngineUp(i) /\ writes' = Append(writes, StatusWrite(i, "failed", None))
          /\ engines' = [engines EXCEPT ![i] = None]
      BY <1>6 DEF EngineError, OnError
    <2>2. /\ Left(Append(writes, StatusWrite(i, "failed", None)))
          /\ ~SaysIn(Append(writes, StatusWrite(i, "failed", None)), row', i, Active)
      BY <1>2, <1>3, <2>1, LeftSent DEF Statuses, Active
    <2>3. Left(writes') /\ ~SaysIn(writes', row', i, Active)
      BY <2>1, <2>2
    <2>4. Evicts /\ \A j \in Ids \ {i} : engines'[j] = engines[j]
      BY <2>1 DEF Evicts, Ordered, IInv, EnginesOK
    <2> QED
      BY <1>1, <2>3, <2>4, OutsideSays DEF procVars
  <1>7. ASSUME NEW i \in Ids, EngineReady(i) \/ EngineState(i) \/ EngineLost(i) \/ StuckAuth(i)
        PROVE  \/ UNCHANGED <<engines, writes>>
               \/ \E s \in Statuses : EngineUp(i) /\ UNCHANGED engines
                                      /\ writes' = Append(writes, StatusWrite(i, s, None))
    BY <1>7 DEF EngineReady, EngineState, EngineLost, StuckAuth, Statuses
  <1>8. ASSUME NEW i \in Ids, NEW e \in Engines, EngineUnlinked(i, e)
        PROVE  UNCHANGED <<engines, writes>>
    BY <1>8 DEF EngineUnlinked
  <1> QED
    BY <1>4, <1>5, <1>6, <1>7, <1>8 DEF EngineEvent

\* What settles in the background leaves a session active only with its engine.
LEMMA BackgroundStatus ==
  ASSUME Retiring, Ordered, Background
  PROVE  StatusInv'
  <1>1. UNCHANGED <<stopping, procVars>>
    BY DEF Background, HandleLost, Reap, LeftBehind, WipeSettles, WriteSettles
  <1>2. UNCHANGED row => Left(writes)
    BY LeftNow DEF Ordered, StatusInv
  <1>3. ASSUME NEW i \in Ids, NEW e, HandleLost(i, e)
        PROVE  StatusInv'
    <2> DEFINE ws == Append(writes, StatusWrite(i, "disconnected", None))
    <2>1. UNCHANGED row
      BY <1>3 DEF HandleLost
    <2>2. CASE UNCHANGED <<engines, writes>>
      <3>1. Left(writes')
        BY <1>2, <2>1, <2>2
      <3> QED
        BY <1>1, <2>2, <3>1, OutsideSays DEF procVars, Evicts
    <2>3. CASE Exists(i) /\ ScheduleReconnect(i, engines, estate, ws)
      <3>1. Left(ws)
        BY <1>2, <2>1, <2>3, LeftSent DEF Statuses, Active
      <3>2. /\ Left(Append(ws, StatusWrite(i, "failed", None)))
            /\ ~SaysIn(Append(ws, StatusWrite(i, "failed", None)), row', i, Active)
        <4> HIDE DEF ws
        <4> QED
          BY <2>3, <3>1, LeftSent DEF Statuses, Active
      <3> HIDE DEF ws
      <3>3. \/ engines' = engines /\ writes' = ws
            \/ writes' = Append(ws, StatusWrite(i, "failed", None)) /\ engines' = [engines EXCEPT ![i] = None]
        BY <2>3 DEF ScheduleReconnect
      <3>4. CASE engines' = engines /\ writes' = ws
        <4>1. Left(writes')
          BY <3>1, <3>4
        <4> QED
          BY <1>1, <3>4, <4>1, OutsideSays DEF procVars, Evicts
      <3>5. CASE writes' = Append(ws, StatusWrite(i, "failed", None)) /\ engines' = [engines EXCEPT ![i] = None]
        <4>1. Left(writes') /\ ~SaysIn(writes', row', i, Active)
          BY <3>2, <3>5
        <4>2. Evicts /\ \A j \in Ids \ {i} : engines'[j] = engines[j]
          BY <3>5 DEF Evicts, Ordered, IInv, EnginesOK
        <4> QED
          BY <1>1, <4>1, <4>2, OutsideSays DEF procVars
      <3> QED
        BY <3>3, <3>4, <3>5
    <2> QED
      BY <1>3, <2>2, <2>3 DEF HandleLost
  <1>4. ASSUME NEW l \in lost, HandleLost(l[1], l[2])
        PROVE  StatusInv'
    <2>1. l[1] \in Ids
      BY DEF Ordered, IInv, LostOK
    <2> QED
      BY <1>3, <1>4, <2>1
  <1>5. ASSUME NEW e \in Engines, Reap(e)
        PROVE  StatusInv'
    <2>1. UNCHANGED <<row, engines, writes>>
      BY <1>5 DEF Reap
    <2>2. Left(writes')
      BY <1>2, <2>1
    <2> QED
      BY <1>1, <2>1, <2>2, OutsideSays DEF procVars, Evicts
  <1>6. ASSUME NEW w \in wiping, WipeSettles(w)
        PROVE  StatusInv'
    <2>1. UNCHANGED <<row, engines>>
      BY <1>6 DEF WipeSettles
    <2>2. \/ UNCHANGED writes
          \/ \E i \in Ids : engines[i] # None
                            /\ writes' = Append(writes, StatusWrite(i, "disconnected", None))
      BY <1>6 DEF WipeSettles, Live
    <2>3. ASSUME NEW i \in Ids, engines[i] # None
          PROVE  Left(Append(writes, StatusWrite(i, "disconnected", None)))
      <3>1. Exists(i)
        BY <2>3 DEF Ordered, StatusInv, Present
      <3> QED
        BY <1>2, <2>1, <3>1, LeftSent DEF Statuses, Active
    <2>4. Left(writes')
      BY <1>2, <2>1, <2>2, <2>3
    <2> QED
      BY <1>1, <2>1, <2>4, OutsideSays DEF procVars, Evicts
  <1>7. ASSUME WriteSettles
        PROVE  StatusInv'
    <2>1. PICK k \in 1..Len(writes) : Lands(None, k) /\ writes' = Without(writes, k)
      BY <1>7 DEF WriteSettles, Settled
    <2>2. Left(Without(writes, k))
      BY <2>1, LeftLanded DEF Retiring, Ordered, StatusInv
    <2>3. Left(writes') /\ UNCHANGED engines
      BY <1>7, <2>1, <2>2 DEF WriteSettles
    <2> QED
      BY <1>1, <2>3, OutsideSays DEF procVars, Evicts
  <1>8. ASSUME NEW n \in leaked, LeftBehind(n)
        PROVE  StatusInv'
    <2>1. UNCHANGED <<row, engines, writes>>
      BY <1>8 DEF LeftBehind
    <2>2. Left(writes')
      BY <1>2, <2>1
    <2> QED
      BY <1>1, <2>1, <2>2, OutsideSays DEF procVars, Evicts
  <1> QED
    BY <1>4, <1>5, <1>6, <1>7, <1>8 DEF Background

\* Every step keeps the status of every session in order.
LEMMA StatusStep ==
  ASSUME Retiring, Ordered, [Next]_vars
  PROVE  StatusInv'
  <1>1. CASE UNCHANGED vars
    BY <1>1 DEF vars, procVars, Ordered, StatusInv, Present, Exists, WaitsForWrite, StartMarks, Marks, Spoken,
       Heard, Hands
  <1>2. ASSUME NEW p \in Procs, Step(p)
        PROVE  StatusInv'
    BY <1>2, StepStatus
  <1>3. ASSUME NEW p \in Procs, NEW i \in Ids, TimerFires(p, i)
        PROVE  FALSE
    BY <1>3 DEF TimerFires, Ordered, Ownership, NoTimers
  <1> QED
    BY <1>1, <1>2, <1>3, CreateStatus, RequestStatus, EventStatus, BackgroundStatus DEF Next

\* The status of every session stays in order for ever.
LEMMA StatusHolds ==
  ASSUME Retiring
  PROVE  Spec => []StatusInv
  <1>1. Init => StatusInv
    BY ConstantsAssumption DEF Init, StatusInv, Present, Exists, WaitsForWrite, StartMarks, Marks, Spoken,
       Heard, SaysIn, Active
  <1>2. IInv /\ StartReservation /\ Ownership /\ TrackInv /\ StatusInv /\ [Next]_vars => StatusInv'
    BY StatusStep DEF Ordered
  <1>3. MaxAttempts = 0 /\ ~DbFaults
    BY DEF Retiring
  <1> QED
    BY <1>1, <1>2, <1>3, Inductive, ReservationHolds, OwnershipHolds, TrackHolds, PTL DEF Spec

\* Once everything has settled, a row that reads INITIALIZING, linking or READY has its engine,
\* however logouts and kills raced starts, errors and writes in flight.
THEOREM StatusIsBacked ==
  ASSUME Retiring
  PROVE  Spec => []NoStaleStatus
  <1>1. StatusInv => NoStaleStatus
    <2> SUFFICES ASSUME StatusInv, Quiet, NEW i \in Ids, row[i] \in Active
                 PROVE  engines[i] # None
      BY DEF NoStaleStatus, Active
    <2>1. Heard(i)
      BY DEF Heard, SaysIn, Quiet
    <2>2. ~Hands(i)
      BY DEF Hands, HandLocs, Quiet
    <2> QED
      BY <2>1, <2>2 DEF StatusInv, Spoken
  <1> QED
    BY <1>1, StatusHolds, PTL

\* The verb that retired a session had the last word on its row.
THEOREM RetiredStaysRetired ==
  ASSUME Retiring
  PROVE  Spec => []StopIsFinal
  <1>1. IInv /\ NoStaleStatus => StopIsFinal
    BY DEF IInv, RowsOK, NoStaleStatus, StopIsFinal
  <1> QED
    BY <1>1, StatusIsBacked, Inductive, PTL
-----------------------------------------------------------------------------
(* Reconnects, with clients that wait for one verb before they send the next *)

\* Clients that wait, a database that answers, and engines that remove no credentials on
\* their own and report nothing twice, during initialize() or once torn down.  The budget
\* of reconnects is any.
Patient == Serial /\ ~DbFaults /\ ~Unlinks /\ ~StrayReports

ClientVerbs == {"start", "stop", "logout", "forceKill", "delete"}
\* A session is driven by the start or the reconnect attempt that creates its engine.
Drives(p) == op[p] \in {"start", "reconnect"}

\* Where each verb can be.
DriverLocs == {"init_write", "init_run", "init_kill", "init_kill_write", "post_row", "retire_kill",
               "purge_id", "purge_name", "purge_rm"}
RetiredLocs == {"verb_wait", "teardown", "delete_hook", "delete_purge", "verb_write"}
Fit(p) ==
  /\ pc[p] \in Ahead => op[p] = "start"
  /\ pc[p] \in DriverLocs => op[p] \in {"start", "reconnect"}
  /\ pc[p] \in {"reconnect_kill", "reconnect_fence"} => op[p] = "reconnect"
  /\ pc[p] \in RetiredLocs \cup {"verb_row", "delete_fence1"} =>
       op[p] \in {"stop", "logout", "forceKill", "delete"}
  /\ pc[p] \in {"delete_fence1", "delete_hook", "delete_purge"} => op[p] = "delete"
  /\ pc[p] \notin {"delete_fence2", "refuse_write", "catch_kill", "catch_write"}
  /\ pc[p] = "idle" => eng[p] = None /\ sid[p] = None

\* One verb of a client at a time, and one driver of a session.
Alone ==
  /\ \A p, q \in Procs : op[p] \in ClientVerbs /\ op[q] \in ClientVerbs => p = q
  /\ \A p, q \in Procs : Drives(p) /\ Drives(q) /\ sid[p] = sid[q] => p = q

\* Where a driver has taken its engine out of the registry, or has registered none yet.
FreeLocs == {"start_fence", "start_hook", "reconnect_fence", "init_kill", "init_kill_write",
             "purge_id", "purge_name", "purge_rm"}
\* A driver finds in the registry the engine it created, or none.
OwnsSlot(p) ==
  Drives(p) =>
    /\ pc[p] # "start_row" => engines[sid[p]] \in {None, eng[p]}
    /\ pc[p] \in FreeLocs => engines[sid[p]] = None

\* The live engine of i has no loss to handle.
NoLiveLoss(i) == \A e \in Engines : <<i, e>> \in lost => engines[i] # e
\* While a session is driven no timer of it is armed, and no loss is about to arm one.
NoTimer(p) ==
  Drives(p) =>
    /\ pc[p] \notin {"start_row", "post_row"} =>
         ~Armed(sid[p]) /\ (reconnect[sid[p]] = None \/ NoLiveLoss(sid[p]))
    /\ pc[p] = "start_row" /\ engines[sid[p]] = None => ~Armed(sid[p])

\* What a verb knows of its session's stop mark, reconnect state and row.
Knows(p) ==
  /\ pc[p] \in RetiredLocs => sid[p] \in stopping /\ reconnect[sid[p]] = None
  /\ op[p] \in {"stop", "delete"} => sid[p] \in stopping
  /\ op[p] \in ClientVerbs /\ pc[p] \notin {"start_row", "verb_row", "delete_purge"} => Exists(sid[p])
  /\ op[p] = "start" /\ pc[p] \notin {"start_row", "start_fence"} => sid[p] \notin stopping
  /\ pc[p] = "delete_purge" => ~Exists(sid[p])

\* The session was retired, or its row is gone: it is to have no engine.
Doomed(i) == i \in stopping \/ ~Exists(i)
\* An attempt under way has a budget, or its session was retired meanwhile.
HasBudget(p) ==
  pc[p] \in {"reconnect_kill", "reconnect_fence"} => reconnect[sid[p]] # None \/ Doomed(sid[p])

HandlerFits(p) == OwnsSlot(p) /\ NoTimer(p) /\ Knows(p) /\ HasBudget(p)

\* p is going to take the engine of i out of the registry, and the handler that does so is
\* never one of a timeout.
Removes(p, i) ==
  \/ pc[p] \in {"verb_row", "delete_fence1"} /\ Exists(i)
  \/ pc[p] \in {"verb_wait", "teardown", "retire_kill"} /\ eng[p] = engines[i]
  \/ op[p] = "reconnect" /\ pc[p] \in {"reconnect_kill", "init_write", "init_run"}
  \/ pc[p] = "post_row" /\ ~Exists(i)
\* Whoever dooms a session leaves somebody who removes its engine.
BeingRemoved(i) == Doomed(i) /\ engines[i] # None => \E p \in Procs : sid[p] = i /\ Removes(p, i)

\* Only an existing session has a reconnect state, and every engine but a doomed one has it.
Budgeted(i) ==
  /\ ~Exists(i) => reconnect[i] = None
  /\ reconnect[i] = None /\ engines[i] # None => Doomed(i)

\* An engine that reported its disconnect is handled, reconnected or doomed.
Tended(i) ==
  engines[i] # None /\ estate[engines[i]] = "down" =>
    \/ <<i, engines[i]>> \in lost
    \/ Armed(i)
    \/ Doomed(i)
    \/ \E p \in Procs : sid[p] = i /\ pc[p] = "reconnect_kill"

\* Nothing is known of a session not created yet.
Unborn(i) ==
  row[i] = "unborn" => engines[i] = None /\ reconnect[i] = None /\ \A p \in Procs : sid[p] # i

SessionFits(i) == BeingRemoved(i) /\ Budgeted(i) /\ Tended(i) /\ Unborn(i)

\* The write a verb waits for is the one its engine's creator waits for.
Awaited ==
  /\ \A i \in Ids, p \in Procs : pendingInit[i] = p => pc[p] = "init_write" /\ sid[p] = i
  /\ \A q \in Procs : pc[q] = "verb_wait" =>
       \E p \in Procs : pc[p] = "init_write" /\ eng[p] = eng[q]

OneRow == \A i, j \in Ids : NameOf[i] = NameOf[j] /\ Exists(i) /\ Exists(j) => i = j

\* The rms in flight are those of logouts: they are announced, the session of the name does not
\* reconnect and has no engine but the one being logged out, and whoever comes to the fence
\* waits for all of them.
RmKnown(w) ==
  /\ w.tracked
  /\ \A p \in w.waiters :
       pc[p] \in {"start_fence", "delete_fence1", "reconnect_fence"} /\ NameOf[sid[p]] = w.name
RmAlone(w) ==
  \A i \in Ids : NameOf[i] = w.name /\ Exists(i) =>
    /\ reconnect[i] = None
    /\ engines[i] # None => \E q \in Procs : /\ sid[q] = i /\ eng[q] = engines[i]
                                             /\ op[q] = "logout" /\ pc[q] = "teardown"
RmAwaited(w) ==
  \A p \in Procs : pc[p] # "idle" /\ NameOf[sid[p]] = w.name /\ Exists(sid[p]) =>
    /\ pc[p] \in {"start_fence", "reconnect_fence", "delete_fence1"} => p \in w.waiters
    /\ pc[p] \notin {"start_hook", "verb_wait", "delete_hook"}
    /\ pc[p] = "teardown" => op[p] = "logout"
RmsFit == \A w \in wiping : RmKnown(w) /\ RmAlone(w) /\ RmAwaited(w)

AllFit ==
  /\ \A p \in Procs : Fit(p) /\ HandlerFits(p)
  /\ \A i \in Ids : SessionFits(i)
Orderly ==
  /\ AllFit
  /\ Alone /\ Homes /\ Awaited /\ Unlaunched /\ OneRow /\ RmsFit

\* What the invariant is for.
LEMMA OrderlyShows ==
  ASSUME IInv, Orderly
  PROVE  NoStrandedEngine /\ NoResurrection /\ DeletedMeansGone
  <1>1. \A i \in Ids : Doomed(i) /\ engines[i] # None => \E p \in Procs : sid[p] = i /\ pc[p] # "idle"
    BY DEF Orderly, AllFit, SessionFits, BeingRemoved, Removes, IInv, ProcsOK, Handlers
  <1>2. NoResurrection /\ DeletedMeansGone
    BY <1>1 DEF NoResurrection, DeletedMeansGone, Quiet, Doomed, Exists, NoRow, IInv, RowsOK
  <1>3. NoStrandedEngine
    <2> SUFFICES ASSUME NEW i \in Ids, engines[i] # None, estate[engines[i]] = "down"
                 PROVE  (\E e \in Engines : <<i, e>> \in lost) \/ Armed(i) \/ Busy(i)
      BY DEF NoStrandedEngine
    <2>1. engines[i] \in Engines
      BY DEF IInv, EnginesOK
    <2> QED
      BY <1>1, <2>1 DEF Orderly, AllFit, SessionFits, Tended, Busy
  <1> QED
    BY <1>2, <1>3

\* Nothing is registered, sent or removed when the process boots.
LEMMA InitOrderly ==
  ASSUME Init
  PROVE  Orderly
  <1>1. \A p \in Procs : Fit(p) /\ HandlerFits(p)
    BY DEF Init, Fit, HandlerFits, OwnsSlot, NoTimer, Knows, HasBudget, Drives, Ahead, DriverLocs, RetiredLocs,
       ClientVerbs
  <1>2. \A i \in Ids : SessionFits(i)
    BY ConstantsAssumption DEF Init, SessionFits, BeingRemoved, Budgeted, Tended, Unborn
  <1>3. Alone /\ Homes /\ Awaited /\ Unlaunched /\ OneRow /\ RmsFit
    BY ConstantsAssumption DEF Init, Alone, Drives, ClientVerbs, Homes, Awaited, Unlaunched, OneRow, Exists, NoRow, RmsFit
  <1> QED
    BY <1>1, <1>2, <1>3 DEF Orderly, AllFit

-----------------------------------------------------------------------------
\* A handler that does not move, or whose wait for the INITIALIZING write is over.
GoesOn(q) ==
  /\ op'[q] = op[q] /\ sid'[q] = sid[q] /\ eng'[q] = eng[q]
  /\ pc'[q] = pc[q] \/ (pc[q] = "verb_wait" /\ pc'[q] = "teardown")
\* A session nothing happens to.
LeftAlone(j) ==
  /\ engines'[j] = engines[j] /\ reconnect'[j] = reconnect[j]
  /\ j \in stopping' <=> j \in stopping
  /\ Exists(j)' <=> Exists(j)
  /\ row'[j] = "unborn" <=> row[j] = "unborn"
  /\ \A e \in Engines : <<j, e>> \in lost' <=> <<j, e>> \in lost
NoneFalls == \A e \in Engines : estate'[e] = "down" => estate[e] = "down"

\* A handler stays in order when neither it nor its session changes.
LEMMA HandlerApart ==
  ASSUME IInv, Orderly, NEW q \in Procs, GoesOn(q), pc[q] # "idle" => LeftAlone(sid[q])
  PROVE  Fit(q)' /\ HandlerFits(q)'
  <1>1. CASE pc[q] = "idle"
    BY <1>1 DEF GoesOn, Orderly, AllFit, Fit, HandlerFits, OwnsSlot, NoTimer, Knows, HasBudget, Drives, ClientVerbs,
       Ahead, DriverLocs, RetiredLocs, IInv, ProcsOK, Handlers
  <1>2. CASE pc[q] # "idle"
    <2> DEFINE j == sid[q]
    <2>0. Fit(q) /\ HandlerFits(q) /\ j \in Ids /\ LeftAlone(j) /\ sid'[q] = j
      BY <1>2 DEF GoesOn, Orderly, AllFit, IInv, ProcsOK, Handlers
    <2> HIDE DEF j
    <2>1. Fit(q)'
      BY <2>0 DEF GoesOn, Fit, Ahead, DriverLocs, RetiredLocs
    <2>2. OwnsSlot(q)'
      BY <2>0 DEF GoesOn, LeftAlone, HandlerFits, OwnsSlot, Drives, FreeLocs, j
    <2>3. NoTimer(q)'
      BY <2>0 DEF GoesOn, LeftAlone, HandlerFits, NoTimer, NoLiveLoss, Armed, Drives, j
    <2>4. Knows(q)' /\ HasBudget(q)'
      BY <2>0 DEF GoesOn, LeftAlone, HandlerFits, Knows, HasBudget, Doomed, RetiredLocs, ClientVerbs, j
    <2> QED
      BY <2>1, <2>2, <2>3, <2>4 DEF HandlerFits
  <1> QED
    BY <1>1, <1>2

\* So does a session when neither it nor its handlers change.
LEMMA SessionBeside ==
  ASSUME IInv, Orderly, NEW j \in Ids, LeftAlone(j),
         engines[j] # None /\ estate'[engines[j]] = "down" => estate[engines[j]] = "down",
         \A q \in Procs : GoesOn(q) \/ (sid[q] # j /\ sid'[q] # j)
  PROVE  SessionFits(j)'
  <1>0. SessionFits(j)
    BY DEF Orderly, AllFit
  <1>1. BeingRemoved(j)'
    <2> SUFFICES ASSUME Doomed(j), engines[j] # None
                 PROVE  \E q \in Procs : sid'[q] = j /\ Removes(q, j)'
      BY DEF BeingRemoved, LeftAlone, Doomed
    <2>1. PICK q \in Procs : sid[q] = j /\ Removes(q, j)
      BY <1>0 DEF SessionFits, BeingRemoved
    <2>2. sid'[q] = j /\ Removes(q, j)'
      BY <2>1 DEF Removes, GoesOn, LeftAlone
    <2> QED
      BY <2>2
  <1>2. Budgeted(j)' /\ Unborn(j)'
    BY <1>0 DEF SessionFits, Budgeted, Unborn, Doomed, LeftAlone, GoesOn
  <1>3. Tended(j)'
    <2>1. engines[j] # None => engines[j] \in Engines
      BY DEF IInv, EnginesOK
    <2> QED
      BY <1>0, <2>1 DEF SessionFits, Tended, Armed, Doomed, LeftAlone, GoesOn
  <1> QED
    BY <1>1, <1>2, <1>3 DEF SessionFits

\* In particular when no engine has just gone down.
LEMMA SessionApart ==
  ASSUME IInv, Orderly, NEW j \in Ids, LeftAlone(j), NoneFalls,
         \A q \in Procs : GoesOn(q) \/ (sid[q] # j /\ sid'[q] # j)
  PROVE  SessionFits(j)'
  <1>1. engines[j] # None => engines[j] \in Engines
    BY DEF IInv, EnginesOK
  <1> QED
    BY <1>1, SessionBeside DEF NoneFalls

\* Beside a driver of its session there is only a verb that retires it, or reads its row.
LEMMA BesideDriver ==
  ASSUME IInv, Orderly, NEW p \in Procs, NEW i \in Ids, sid[p] = i, Drives(p), NEW q \in Procs \ {p}, sid[q] = i, GoesOn(q),
         op[p] = "reconnect" =>
           /\ i \in stopping' <=> i \in stopping
           /\ Exists(i)' <=> Exists(i)
           /\ reconnect[i] = None => reconnect'[i] = None
  PROVE  Fit(q)' /\ HandlerFits(q)'
  <1>1. pc[q] # "idle" /\ sid[q] \in Ids /\ ~Drives(q) /\ op[q] \in ClientVerbs
    BY ConstantsAssumption DEF Orderly, AllFit, Alone, Fit, Drives, IInv, ProcsOK, Handlers, Ops, ClientVerbs
  <1>2. op[p] = "reconnect"
    BY <1>1 DEF Orderly, AllFit, Alone, Drives, ClientVerbs
  <1>3. Fit(q) /\ HandlerFits(q)
    BY DEF Orderly, AllFit
  <1>4. Fit(q)'
    BY <1>3 DEF GoesOn, Fit, Ahead, DriverLocs, RetiredLocs
  <1>5. OwnsSlot(q)' /\ NoTimer(q)' /\ HasBudget(q)'
    BY <1>1, <1>3 DEF GoesOn, Fit, OwnsSlot, NoTimer, HasBudget, Drives
  <1>6. Knows(q)'
    BY <1>1, <1>2, <1>3 DEF HandlerFits, GoesOn, Knows, RetiredLocs, ClientVerbs, Drives
  <1> QED
    BY <1>4, <1>5, <1>6 DEF HandlerFits

\* Beside a verb of its session there is only a reconnect attempt.
LEMMA BesideVerb ==
  ASSUME IInv, Orderly, NEW p \in Procs, NEW i \in Ids, sid[p] = i, op[p] \in ClientVerbs, op[p] # "start",
         NEW q \in Procs \ {p}, sid[q] = i, GoesOn(q),
         engines'[i] \in {engines[i], None},
         \/ reconnect'[i] = reconnect[i] /\ (Doomed(i) => Doomed(i)')
         \/ reconnect'[i] = None /\ Doomed(i)',
         lost' = lost
  PROVE  Fit(q)' /\ HandlerFits(q)'
  <1>1. pc[q] # "idle" /\ sid[q] \in Ids /\ op[q] = "reconnect" /\ Drives(q)
    BY ConstantsAssumption DEF Orderly, AllFit, Alone, Fit, Drives, IInv, ProcsOK, Handlers, Ops, ClientVerbs
  <1>3. Fit(q) /\ HandlerFits(q)
    BY DEF Orderly, AllFit
  <1>4. Fit(q)'
    BY <1>3 DEF GoesOn, Fit, Ahead, DriverLocs, RetiredLocs
  <1>5. pc'[q] = pc[q] /\ sid'[q] = i /\ op'[q] = "reconnect" /\ eng'[q] = eng[q]
    BY <1>1, <1>3 DEF GoesOn, Fit, RetiredLocs
  <1>6. OwnsSlot(q)' /\ NoTimer(q)'
    <2>1. OwnsSlot(q)'
      BY <1>1, <1>3, <1>5 DEF HandlerFits, OwnsSlot, Drives, FreeLocs
    <2>2. NoLiveLoss(i) => NoLiveLoss(i)'
      BY ConstantsAssumption DEF NoLiveLoss
    <2>3. reconnect'[i] # None => reconnect'[i] = reconnect[i]
      OBVIOUS
    <2>4. Armed(i)' => Armed(i)
      BY <2>3 DEF Armed
    <2>5. pc[q] # "start_row"
      BY <1>1, <1>3 DEF Fit, Ahead
    <2> QED
      BY <1>1, <1>3, <1>5, <2>1, <2>2, <2>3, <2>4, <2>5 DEF HandlerFits, NoTimer, Drives
  <1>7. HasBudget(q)' /\ Knows(q)'
    BY <1>1, <1>3, <1>4, <1>5 DEF HandlerFits, HasBudget, Knows, Fit, RetiredLocs, ClientVerbs
  <1> QED
    BY <1>4, <1>6, <1>7 DEF HandlerFits

-----------------------------------------------------------------------------
\* A status UPDATE that lands neither creates nor deletes a row.
LEMMA LandsRows ==
  ASSUME IInv, NEW p, NEW k \in 1..Len(writes), Lands(p, k), NEW j \in Ids
  PROVE  (Exists(j)' <=> Exists(j)) /\ (row'[j] = "unborn" <=> row[j] = "unborn")
  <1>1. writes[k] \in Writes
    BY DEF IInv, WritesOK
  <1>2. writes[k].id \in Ids /\ writes[k].status \in Statuses
    BY <1>1 DEF Writes
  <1>3. row \in [Ids -> Statuses \cup NoRow]
    BY DEF IInv, RowsOK
  <1> QED
    BY <1>2, <1>3 DEF Lands, Exists, Statuses, NoRow

\* scheduleReconnect() concerns its session alone.
LEMMA ScheduleApart ==
  ASSUME IInv, NEW i \in Ids, NEW regs, NEW sts, NEW ws, ScheduleReconnect(i, regs, sts, ws),
         regs \in [Ids -> Engines \cup {None}], sts \in [Engines -> EngineStates],
         \A j \in Ids \ {i} : regs[j] = engines[j],
         \A e \in Engines : sts[e] = "down" => estate[e] = "down"
  PROVE  /\ \A j \in Ids \ {i} : engines'[j] = engines[j] /\ reconnect'[j] = reconnect[j]
         /\ NoneFalls
         /\ reconnect[i] = None => reconnect'[i] = None
         /\ engines'[i] = regs[i] \/ (engines'[i] = None /\ reconnect'[i] = None)
  <1>1. reconnect \in [Ids -> [attempts : Nat, armed : BOOLEAN] \cup {None}]
    BY DEF IInv, ReconnectOK
  <1>2. CASE reconnect[i] = None
    BY <1>2 DEF ScheduleReconnect, NoneFalls
  <1>3. CASE reconnect[i] # None /\ engines' = regs /\ estate' = sts
    BY <1>1, <1>3 DEF ScheduleReconnect, CancelReconnect, NoneFalls
  <1>4. CASE /\ reconnect[i] # None /\ engines' = [regs EXCEPT ![i] = None]
             /\ estate' = Reaping(sts, regs[i]) /\ CancelReconnect(i)
    BY <1>1, <1>4 DEF CancelReconnect, Reaping, NoneFalls
  <1> QED
    BY <1>2, <1>3, <1>4 DEF ScheduleReconnect

\* So does a throw out of initializeEngine(): here only a reconnect attempt or a start with no
\* engine registered meets one, and it ends there.
LEMMA ThrowApart ==
  ASSUME IInv, NEW p \in Procs, NEW i \in Ids, sid[p] = i, Drives(p), engines[i] = None,
         NEW ws, Throw(p, ws)
  PROVE  /\ \A j \in Ids \ {i} : reconnect'[j] = reconnect[j]
         /\ engines' = engines /\ NoneFalls /\ Finish(p)
         /\ reconnect[i] = None => reconnect'[i] = None
         /\ op[p] = "start" => reconnect'[i] = None
  <1>1. reconnect \in [Ids -> [attempts : Nat, armed : BOOLEAN] \cup {None}]
    BY DEF IInv, ReconnectOK
  <1>2. CASE op[p] = "start"
    BY <1>1, <1>2 DEF Throw, CancelReconnect, NoneFalls
  <1>3. CASE op[p] = "reconnect"
    <2>1. engines \in [Ids -> Engines \cup {None}] /\ estate \in [Engines -> EngineStates]
      BY DEF IInv, EnginesOK
    <2>2. [engines EXCEPT ![i] = None] = engines /\ Reaping(estate, engines[i]) = estate
      BY <2>1 DEF Reaping
    <2>3. ScheduleReconnect(i, engines, estate, ws) /\ Finish(p)
      BY <1>3, <2>2 DEF Throw
    <2>4. \/ engines' = engines
          \/ engines' = [engines EXCEPT ![i] = None]
      BY <2>3 DEF ScheduleReconnect
    <2> QED
      BY <1>3, <2>1, <2>2, <2>3, <2>4, ScheduleApart
  <1> QED
    BY <1>2, <1>3 DEF Drives

\* Where each of a patient client's steps starts from.
LEMMA DriverSteps ==
  ASSUME IInv, Orderly, NEW p \in Procs
  PROVE  /\ pc[p] # "idle" => sid[p] \in Ids
         /\ pc[p] \in DriverLocs \cup Ahead \cup {"reconnect_kill", "reconnect_fence"} => Drives(p)
         /\ pc[p] \in RetiredLocs \cup {"verb_row", "delete_fence1"} =>
              op[p] \in ClientVerbs /\ op[p] # "start"
         /\ pc[p] \in FreeLocs => engines[sid[p]] = None
  BY DEF Orderly, AllFit, Fit, HandlerFits, OwnsSlot, Drives, ClientVerbs, DriverLocs, Ahead, RetiredLocs, FreeLocs,
     IInv, ProcsOK, Handlers

\* A handler's step leaves the losses, and every session but its own, alone.
LEMMA StepSessions ==
  ASSUME Patient, IInv, Orderly, NEW p \in Procs, Step(p), NEW i \in Ids, sid[p] = i
  PROVE  /\ lost' = lost /\ NoneFalls
         /\ \A j \in Ids \ {i} : LeftAlone(j)
  <1> DEFINE Rest == /\ lost' = lost /\ NoneFalls
                     /\ \A j \in Ids \ {i} : /\ engines'[j] = engines[j] /\ reconnect'[j] = reconnect[j]
                                             /\ j \in stopping' <=> j \in stopping
             Rows == \A j \in Ids \ {i} : /\ Exists(j)' <=> Exists(j)
                                          /\ row'[j] = "unborn" <=> row[j] = "unborn"
  <1>0. /\ engines \in [Ids -> Engines \cup {None}] /\ estate \in [Engines -> EngineStates]
        /\ reconnect \in [Ids -> [attempts : Nat, armed : BOOLEAN] \cup {None}]
        /\ row \in [Ids -> Statuses \cup NoRow]
    BY DEF IInv, EnginesOK, ReconnectOK, RowsOK
  <1>1. ~DbFaults
    BY DEF Patient
  <1>2. CASE StartRow(p) \/ StartFence(p)
    BY <1>0, <1>2 DEF StartRow, StartFence, AdmitStart, CancelReconnect, NoneFalls, LeftAlone, Exists
  <1>3. CASE StartHook(p)
    BY <1>0, <1>3 DEF StartHook, InitializeEngine, NoneFalls, LeftAlone, Exists
  <1>4. CASE InitWritten(p)
    <2>1. PICK k \in 1..Len(writes) : Lands(p, k)
      BY <1>4 DEF InitWritten, Settled
    <2>2. Rows
      BY <2>1, LandsRows
    <2> QED
      BY <1>0, <1>4, <2>2 DEF InitWritten, NoneFalls, LeftAlone
  <1>5. CASE InitWriteFails(p)
    BY <1>1, <1>5 DEF InitWriteFails
  <1>6. ASSUME NEW ws, Throw(p, ws), pc[p] \in {"init_run", "init_kill_write", "reconnect_fence"},
               engines[i] = None, UNCHANGED <<lost, stopping>>
        PROVE  Rest
    <2>1. Drives(p)
      BY <1>6, DriverSteps DEF DriverLocs
    <2> QED
      BY <1>0, <1>6, <2>1, ThrowApart
  <1>7. CASE InitRuns(p)
    <2>1. CASE InitRejects(p) /\ ~Live(i, eng[p])
      <3>1. engines[i] = None
        BY <1>0, <1>7, <2>1, DriverSteps DEF InitRuns, Live, Orderly, AllFit, HandlerFits, OwnsSlot, DriverLocs
      <3>2. Throw(p, writes)
        BY <2>1 DEF InitRejects
      <3> QED
        BY <1>6, <1>7, <3>1, <3>2 DEF InitRuns, LeftAlone, Exists
    <2>2. CASE OnError(i)
      BY <1>0, <1>7, <2>2 DEF InitRuns, OnError, CancelReconnect, Reaping, NoneFalls, LeftAlone, Exists
    <2>3. CASE UNCHANGED <<estate, reconnect>> /\ engines' \in {engines, [engines EXCEPT ![i] = None]}
      BY <1>0, <1>7, <2>3 DEF InitRuns, NoneFalls, LeftAlone, Exists
    <2> QED
      BY <1>7, <2>1, <2>2, <2>3 DEF InitRuns, InitRejects
  <1>8. CASE InitKilled(p) \/ CatchKilled(p) \/ RetireKilled(p)
    BY <1>0, <1>8 DEF InitKilled, CatchKilled, RetireKilled, DeleteIfLive, Closed, NoneFalls, LeftAlone, Exists
  <1>9. CASE InitKillWritten(p)
    <2>1. PICK k \in 1..Len(writes) : Lands(p, k) /\ Throw(p, Without(writes, k))
      BY <1>9 DEF InitKillWritten
    <2>2. Rows
      BY <2>1, LandsRows
    <2>3. engines[i] = None /\ pc[p] = "init_kill_write"
      BY <1>9, DriverSteps DEF InitKillWritten, FreeLocs
    <2>4. Rest
      BY <1>6, <1>9, <2>1, <2>3 DEF InitKillWritten
    <2> QED
      BY <2>2, <2>4 DEF LeftAlone
  <1>10. CASE CatchWritten(p) \/ VerbWritten(p)
    <2>1. PICK k \in 1..Len(writes) : Lands(p, k)
      BY <1>10 DEF CatchWritten, VerbWritten, Settled
    <2>2. Rows
      BY <2>1, LandsRows
    <2> QED
      BY <1>0, <1>10, <2>2 DEF CatchWritten, VerbWritten, CancelReconnect, NoneFalls, LeftAlone
  <1>11. CASE PostRow(p) \/ PurgeCheck(p) \/ Purged(p)
    BY <1>11 DEF PostRow, PurgeCheck, Purged, NoneFalls, LeftAlone, Exists
  <1>12. CASE VerbRow(p) \/ DeleteFence1(p) \/ VerbWaited(p) \/ DeleteFence2(p)
    BY <1>0, <1>12 DEF VerbRow, DeleteFence1, Retire, VerbWaited, DeleteFence2, CancelReconnect, NoneFalls, LeftAlone,
       Exists
  <1>13. CASE TornDown(p) \/ DeleteCommits(p) \/ DeletePurged(p)
    BY <1>0, <1>13 DEF TornDown, DeleteIfLive, Closed, DeleteCommits, DeletePurged, NoneFalls, LeftAlone, Exists
  <1>14. CASE ReconnectKilled(p)
    BY <1>0, <1>14 DEF ReconnectKilled, InitializeEngine, Closed, NoneFalls, LeftAlone, Exists
  <1>15. CASE ReconnectFence(p)
    <2>1. engines[i] = None /\ pc[p] = "reconnect_fence"
      BY <1>15, DriverSteps DEF ReconnectFence, FreeLocs
    <2>2. CASE Throw(p, writes)
      BY <1>6, <1>15, <2>1, <2>2 DEF ReconnectFence, LeftAlone, Exists
    <2>3. CASE \E e \in Engines : InitializeEngine(p, i, e, engines, estate) /\ UNCHANGED reconnect
      BY <1>0, <1>15, <2>3 DEF ReconnectFence, InitializeEngine, NoneFalls, LeftAlone, Exists
    <2> QED
      BY <1>15, <2>2, <2>3 DEF ReconnectFence
  <1> QED
    BY <1>2, <1>3, <1>4, <1>5, <1>7, <1>8, <1>9, <1>10, <1>11, <1>12, <1>13, <1>14, <1>15 DEF Step

\* It leaves every other handler where it is, but for the verbs that waited for its write.
LEMMA StepHandlers ==
  ASSUME Patient, IInv, Orderly, NEW p \in Procs, Step(p), NEW q \in Procs \ {p}
  PROVE  /\ GoesOn(q)
         /\ pc'[q] # pc[q] => InitWritten(p) /\ sid[q] = sid[p]
  <1>1. /\ pc'[q] = pc[q] \/ (InitWritten(p) /\ pc[q] = "verb_wait" /\ pc'[q] = "teardown")
        /\ op'[q] = op[q] /\ sid'[q] = sid[q] /\ eng'[q] = eng[q]
    BY OthersStay
  <1>2. ASSUME InitWritten(p), pc'[q] # pc[q]
        PROVE  sid[q] = sid[p]
    <2>1. eng[q] = eng[p] /\ eng[p] # None
      BY <1>2, ConstantsAssumption DEF InitWritten, InitReturns, IInv, ProcsOK, Handlers, HoldsEngine
    <2> QED
      BY <2>1 DEF Orderly, AllFit, Homes
  <1> QED
    BY <1>1, <1>2 DEF GoesOn

\* The handler itself ends, or goes on with its verb and its session.
Over(p) == pc'[p] = "idle" /\ op'[p] = "none" /\ sid'[p] = None /\ eng'[p] = None
Further(p) == pc'[p] # "idle" /\ op'[p] = op[p] /\ sid'[p] = sid[p]

\* A handler's step ends it or takes it further.
LEMMA StepGoes ==
  ASSUME Patient, IInv, Orderly, NEW p \in Procs, Step(p)
  PROVE  pc[p] # "idle" /\ (Over(p) \/ Further(p))
  <1>0. pc \in [Procs -> Locations] /\ op \in [Procs -> Ops] /\ sid \in [Procs -> Ids \cup {None}]
        /\ eng \in [Procs -> Engines \cup {None}]
    BY DEF IInv, ProcsOK
  <1>1. CASE StartRow(p) \/ StartFence(p) \/ StartHook(p)
    BY <1>0, <1>1 DEF StartRow, StartFence, StartHook, AdmitStart, InitializeEngine, Finish, Goto, Over, Further
  <1>2. CASE InitWritten(p)
    BY <1>0, <1>2 DEF InitWritten, InitReturns, Over, Further
  <1>3. CASE InitWriteFails(p) \/ InitRuns(p) \/ InitKilled(p) \/ InitKillWritten(p)
    BY <1>0, <1>3 DEF InitWriteFails, InitRuns, InitReturns, InitRejects, InitKilled, InitKillWritten,
       Throw, Finish, Goto, Over, Further
  <1>4. CASE CatchKilled(p) \/ CatchWritten(p) \/ PostRow(p) \/ RetireKilled(p) \/ PurgeCheck(p)
             \/ Purged(p)
    BY <1>0, <1>4 DEF CatchKilled, CatchWritten, PostRow, RetireKilled, PurgeCheck, Purged, Finish, Goto,
       Over, Further
  <1>5. CASE VerbRow(p) \/ DeleteFence1(p) \/ VerbWaited(p) \/ TornDown(p) \/ DeleteFence2(p)
    BY <1>0, <1>5 DEF VerbRow, DeleteFence1, Retire, VerbWaited, TornDown, DeleteFence2, BeginTeardown,
       ToDeleteFence2, Finish, Goto, Over, Further
  <1>6. CASE DeleteCommits(p) \/ DeletePurged(p) \/ VerbWritten(p) \/ ReconnectKilled(p)
             \/ ReconnectFence(p)
    BY <1>0, <1>6 DEF DeleteCommits, DeletePurged, VerbWritten, ReconnectKilled, ReconnectFence,
       InitializeEngine, Throw, Finish, Goto, Over, Further
  <1> QED
    BY <1>1, <1>2, <1>3, <1>4, <1>5, <1>6 DEF Step

\* So a step is to be looked at where its own session and its own handler are concerned.
LEMMA StepFits ==
  ASSUME Patient, IInv, Orderly, NEW p \in Procs, Step(p), NEW i \in Ids, sid[p] = i,
         Fit(p)' /\ HandlerFits(p)', SessionFits(i)',
         \A q \in Procs \ {p} : sid[q] = i => Fit(q)' /\ HandlerFits(q)'
  PROVE  AllFit' /\ Alone'
  <1>1. \A j \in Ids \ {i} : LeftAlone(j) /\ NoneFalls
    BY StepSessions
  <1>2. \A q \in Procs \ {p} : GoesOn(q) /\ (pc[q] # "idle" => sid[q] \in Ids)
    BY StepHandlers DEF IInv, ProcsOK, Handlers
  <1>3. ASSUME NEW q \in Procs \ {p}, sid[q] # i
        PROVE  Fit(q)' /\ HandlerFits(q)'
    BY <1>1, <1>2, <1>3, HandlerApart
  <1>4. pc[p] # "idle" /\ (Over(p) \/ Further(p))
    BY StepGoes
  <1>5. ASSUME NEW j \in Ids \ {i}
        PROVE  SessionFits(j)'
    <2>1. sid'[p] # j
      BY <1>4, ConstantsAssumption DEF Over, Further
    <2> QED
      BY <1>1, <1>2, <2>1, SessionApart
  <1>6. Alone'
    BY <1>2, <1>4 DEF Orderly, AllFit, Alone, Drives, ClientVerbs, GoesOn, Over, Further
  <1> QED
    BY <1>3, <1>5, <1>6 DEF AllFit

\* A step of p on its session i that registers no engine: what it owes the session while it
\* leaves one registered.
Owes(p, i) ==
  /\ Doomed(i) => Doomed(i)'
  /\ reconnect'[i] = reconnect[i] \/ Doomed(i)'
  /\ Doomed(i)' => Doomed(i) \/ (sid'[p] = i /\ Removes(p, i)')
  /\ Doomed(i) /\ Removes(p, i) => sid'[p] = i /\ Removes(p, i)'
  /\ pc[p] # "reconnect_kill"
SameRow(i) == (Exists(i)' <=> Exists(i)) /\ (row'[i] = "unborn" <=> row[i] = "unborn")
Keeps(p, i) ==
  /\ engines'[i] \in {engines[i], None}
  /\ reconnect[i] = None => reconnect'[i] = None
  /\ SameRow(i)
  /\ engines'[i] # None => Owes(p, i)

\* Then the session stays in order.
LEMMA SessionKept ==
  ASSUME IInv, Orderly, NEW p \in Procs, NEW i \in Ids, sid[p] = i, Keeps(p, i),
         lost' = lost, NoneFalls, \A q \in Procs \ {p} : GoesOn(q)
  PROVE  SessionFits(i)'
  <1>0. SessionFits(i) /\ row[i] # "unborn" /\ row'[i] # "unborn"
    BY DEF Orderly, AllFit, SessionFits, Unborn, Keeps, SameRow
  <1>1. BeingRemoved(i)'
    <2> SUFFICES ASSUME Doomed(i)', engines'[i] # None
                 PROVE  \E q \in Procs : sid'[q] = i /\ Removes(q, i)'
      BY DEF BeingRemoved
    <2>1. Owes(p, i) /\ engines'[i] = engines[i] /\ SameRow(i)
      BY DEF Keeps
    <2>2. CASE Doomed(i)
      <3>1. PICK q \in Procs : sid[q] = i /\ Removes(q, i)
        BY <1>0, <2>1, <2>2 DEF SessionFits, BeingRemoved
      <3>2. CASE q = p
        BY <2>1, <3>1, <3>2 DEF Owes
      <3>3. CASE q # p
        BY <2>1, <3>1, <3>3 DEF Removes, GoesOn, SameRow
      <3> QED
        BY <3>2, <3>3
    <2> QED
      BY <2>1, <2>2 DEF Owes
  <1>2. Budgeted(i)'
    BY <1>0 DEF SessionFits, Budgeted, Keeps, Owes, SameRow
  <1>3. Tended(i)'
    <2> SUFFICES ASSUME engines'[i] # None, estate'[engines'[i]] = "down", ~Doomed(i)'
                 PROVE  \/ <<i, engines'[i]>> \in lost'
                        \/ Armed(i)'
                        \/ \E q \in Procs : sid'[q] = i /\ pc'[q] = "reconnect_kill"
      BY DEF Tended
    <2>1. Owes(p, i) /\ engines'[i] = engines[i] /\ engines[i] \in Engines
      BY DEF Keeps, IInv, EnginesOK
    <2>2. ~Doomed(i) /\ estate[engines[i]] = "down" /\ reconnect'[i] = reconnect[i] /\ pc[p] # "reconnect_kill"
      BY <2>1 DEF Owes, NoneFalls
    <2> QED
      BY <1>0, <2>1, <2>2 DEF SessionFits, Tended, Armed, GoesOn
  <1> QED
    BY <1>0, <1>1, <1>2, <1>3 DEF SessionFits, Unborn

\* A handler that ends is in order.
LEMMA OverFits ==
  ASSUME NEW p \in Procs, Over(p)
  PROVE  Fit(p)' /\ HandlerFits(p)'
  BY DEF Over, Fit, HandlerFits, OwnsSlot, NoTimer, Knows, HasBudget, Drives, ClientVerbs, Ahead, DriverLocs,
     RetiredLocs

\* A driver's step that registers no engine.
LEMMA DriverFits ==
  ASSUME Patient, IInv, Orderly, NEW p \in Procs, Step(p), NEW i \in Ids, sid[p] = i, Drives(p),
         Keeps(p, i), op[p] = "reconnect" => (i \in stopping' <=> i \in stopping),
         Over(p) \/ (Fit(p)' /\ HandlerFits(p)')
  PROVE  AllFit' /\ Alone'
  <1>1. lost' = lost /\ NoneFalls /\ \A q \in Procs \ {p} : GoesOn(q)
    BY StepSessions, StepHandlers
  <1>2. SessionFits(i)'
    BY <1>1, SessionKept
  <1>3. Fit(p)' /\ HandlerFits(p)'
    BY OverFits
  <1>4. \A q \in Procs \ {p} : sid[q] = i => Fit(q)' /\ HandlerFits(q)'
    BY <1>1, BesideDriver DEF Keeps, SameRow
  <1> QED
    BY <1>2, <1>3, <1>4, StepFits

\* A verb's.
LEMMA VerbFits ==
  ASSUME Patient, IInv, Orderly, NEW p \in Procs, Step(p), NEW i \in Ids, sid[p] = i,
         op[p] \in ClientVerbs, op[p] # "start", Keeps(p, i),
         \/ reconnect'[i] = reconnect[i] /\ (Doomed(i) => Doomed(i)')
         \/ reconnect'[i] = None /\ Doomed(i)',
         Over(p) \/ (Fit(p)' /\ HandlerFits(p)')
  PROVE  AllFit' /\ Alone'
  <1>1. lost' = lost /\ NoneFalls /\ \A q \in Procs \ {p} : GoesOn(q)
    BY StepSessions, StepHandlers
  <1>2. SessionFits(i)'
    BY <1>1, SessionKept
  <1>3. Fit(p)' /\ HandlerFits(p)'
    BY OverFits
  <1>4. \A q \in Procs \ {p} : sid[q] = i => Fit(q)' /\ HandlerFits(q)'
    BY <1>1, BesideVerb DEF Keeps
  <1> QED
    BY <1>2, <1>3, <1>4, StepFits

-----------------------------------------------------------------------------
\* The state a handler's step starts from, and the fields it may change.
LEMMA AtStep ==
  ASSUME IInv, Orderly, NEW p \in Procs, NEW i \in Ids, sid[p] = i
  PROVE  /\ Fit(p) /\ OwnsSlot(p) /\ NoTimer(p) /\ Knows(p) /\ HasBudget(p)
         /\ BeingRemoved(i) /\ Budgeted(i) /\ row[i] # "unborn"
         /\ engines \in [Ids -> Engines \cup {None}] /\ estate \in [Engines -> EngineStates]
         /\ reconnect \in [Ids -> [attempts : Nat, armed : BOOLEAN] \cup {None}]
         /\ row \in [Ids -> Statuses \cup NoRow]
         /\ stopping \subseteq Ids
         /\ pc \in [Procs -> Locations] /\ op \in [Procs -> Ops]
         /\ sid \in [Procs -> Ids \cup {None}] /\ eng \in [Procs -> Engines \cup {None}]
  BY DEF Orderly, AllFit, HandlerFits, SessionFits, Unborn, IInv, EnginesOK, ReconnectOK, RowsOK, ProcsOK

\* The head of start(): refused, at its fence, or past it with no engine registered.
LEMMA StartHeadFits ==
  ASSUME Patient, IInv, Orderly, NEW p \in Procs, Step(p), NEW i \in Ids, sid[p] = i,
         StartRow(p) \/ StartFence(p)
  PROVE  AllFit' /\ Alone'
  <1>1. op[p] = "start" /\ Drives(p) /\ pc[p] \in {"start_row", "start_fence"}
    BY AtStep DEF StartRow, StartFence, Fit, Ahead, Drives
  <1>2. SameRow(i)
    BY DEF StartRow, StartFence, SameRow, Exists
  <1>3. CASE Finish(p)
    <2>1. Over(p)
      BY <1>3, AtStep DEF Finish, Over
    <2>2. UNCHANGED <<engines, reconnect, stopping>>
      BY <1>1, <1>3, AtStep DEF StartRow, StartFence, AdmitStart, Goto, Finish
    <2>3. Keeps(p, i)
      BY <1>1, <1>2, <2>2 DEF Keeps, Owes, SameRow, Doomed, Removes
    <2> QED
      BY <1>1, <2>1, <2>3, DriverFits
  <1>4. CASE ~Finish(p)
    <2>1. /\ engines[i] = None /\ engines' = engines /\ ~Armed(i)
          /\ pc[p] = "start_row" => Exists(i)
      BY <1>1, <1>4, AtStep DEF StartRow, StartFence, OwnsSlot, NoTimer, FreeLocs, Patient
    <2>2. Exists(i)
      BY <1>1, <2>1, AtStep DEF Knows, ClientVerbs
    <2>3. /\ op' = op /\ sid' = sid /\ eng' = eng
          /\ \/ pc'[p] = "start_fence" /\ reconnect' = reconnect /\ stopping' = stopping
             \/ pc'[p] = "start_hook" /\ reconnect'[i] = None /\ i \notin stopping'
      BY <1>1, <1>4, AtStep DEF StartRow, StartFence, AdmitStart, CancelReconnect, Goto, Patient
    <2>4. Keeps(p, i)
      BY <1>2, <2>1, <2>3 DEF Keeps
    <2>5. Fit(p)'
      BY <1>1, <2>3 DEF Fit, Ahead, DriverLocs, RetiredLocs
    <2>6. OwnsSlot(p)' /\ HasBudget(p)'
      BY <2>1, <2>3 DEF OwnsSlot, HasBudget
    <2>7. Exists(i)' /\ pc'[p] # "delete_purge" /\ pc'[p] \notin RetiredLocs
      BY <1>2, <2>2, <2>3 DEF SameRow, RetiredLocs
    <2>8. Knows(p)'
      BY <1>1, <2>3, <2>7 DEF Knows
    <2>9. ~Armed(i)'
      BY <2>1, <2>3 DEF Armed
    <2>10. NoLiveLoss(i)'
      BY <2>1, ConstantsAssumption DEF NoLiveLoss
    <2>11. NoTimer(p)'
      BY <2>3, <2>9, <2>10 DEF NoTimer
    <2> QED
      BY <1>1, <2>4, <2>5, <2>6, <2>8, <2>11, DriverFits DEF HandlerFits
  <1> QED
    BY <1>3, <1>4

\* initializeEngine() returned to its caller, which retires the engine or reads the row.
LEMMA ReturnFits ==
  ASSUME Patient, IInv, Orderly, NEW p \in Procs, Step(p), NEW i \in Ids, sid[p] = i,
         pc[p] \in {"init_write", "init_run"}, NEW locs \in [Procs -> Locations], NEW ws,
         InitReturns(p, locs, ws), SameRow(i), UNCHANGED <<op, sid, engines, reconnect, stopping, lost>>
  PROVE  AllFit' /\ Alone'
  <1>1. Drives(p) /\ op'[p] = op[p] /\ sid'[p] = i
    BY DriverSteps DEF DriverLocs
  <1>2. \/ pc'[p] = "retire_kill" /\ eng'[p] = engines[i] /\ i \in stopping
        \/ pc'[p] = "purge_id" /\ eng'[p] = eng[p] /\ engines[i] = None /\ i \in stopping
        \/ pc'[p] = "post_row" /\ eng'[p] = eng[p] /\ i \notin stopping
    BY AtStep DEF InitReturns, MarkedRetired
  <1>3. Fit(p)'
    BY <1>1, <1>2 DEF Fit, Ahead, DriverLocs, RetiredLocs, Drives
  <1>4. Keeps(p, i)
    BY <1>1, <1>2 DEF Keeps, Owes, SameRow, Doomed, Removes
  <1>5. OwnsSlot(p)' /\ HasBudget(p)'
    BY <1>1, <1>2, AtStep DEF OwnsSlot, HasBudget, FreeLocs
  <1>6. NoTimer(p)'
    BY <1>1, <1>2, AtStep DEF NoTimer, NoLiveLoss, Armed
  <1>7. Knows(p)'
    BY <1>1, <1>2, AtStep DEF Knows, RetiredLocs, SameRow, Drives
  <1> QED
    BY <1>1, <1>3, <1>4, <1>5, <1>6, <1>7, DriverFits DEF HandlerFits

\* The INITIALIZING write landed.
LEMMA WrittenFits ==
  ASSUME Patient, IInv, Orderly, NEW p \in Procs, NEW i \in Ids, sid[p] = i, InitWritten(p)
  PROVE  AllFit' /\ Alone'
  <1>0. Step(p)
    BY DEF Step
  <1>1. pc[p] = "init_write" /\ UNCHANGED <<op, sid, engines, reconnect, stopping, lost>>
    BY DEF InitWritten
  <1>2. SameRow(i)
    BY LandsRows DEF InitWritten, Settled, SameRow
  <1>3. CASE Live(i, eng[p]) /\ i \notin stopping
    <2>1. pc'[p] = "init_run" /\ eng' = eng
      BY <1>3, AtStep DEF InitWritten
    <2>2. Drives(p)
      BY <1>1, DriverSteps DEF DriverLocs
    <2>3. Fit(p)'
      BY <1>1, <2>1, <2>2 DEF Fit, Ahead, DriverLocs, RetiredLocs, Drives
    <2>4. Keeps(p, i)
      BY <1>1, <1>2, <2>1 DEF Keeps, Owes, SameRow, Doomed, Removes
    <2>5. OwnsSlot(p)' /\ HasBudget(p)' /\ NoTimer(p)'
      BY <1>1, <2>1, <2>2, AtStep DEF OwnsSlot, HasBudget, FreeLocs, NoTimer, NoLiveLoss, Armed, Drives
    <2>6. Knows(p)'
      BY <1>1, <1>2, <2>1, <2>2, AtStep DEF Knows, RetiredLocs, SameRow, Drives
    <2> QED
      BY <1>0, <1>1, <2>2, <2>3, <2>4, <2>5, <2>6, DriverFits DEF HandlerFits
  <1>4. CASE ~(Live(i, eng[p]) /\ i \notin stopping)
    <2> DEFINE locs == [q \in Procs |-> IF pc[q] = "verb_wait" /\ eng[q] = eng[p] THEN "teardown" ELSE pc[q]]
    <2>1. locs \in [Procs -> Locations]
      BY AtStep DEF Locations
    <2>2. locs = [q \in Procs |-> IF q \in {r \in Procs : pc[r] = "verb_wait" /\ eng[r] = eng[p]}
                                  THEN "teardown" ELSE pc[q]]
      OBVIOUS
    <2>3. \E k \in 1..Len(writes) : InitReturns(p, locs, Without(writes, k))
      BY <1>4, <2>2 DEF InitWritten
    <2> HIDE DEF locs
    <2> QED
      BY <1>0, <1>1, <1>2, <2>1, <2>3, ReturnFits
  <1> QED
    BY <1>3, <1>4

\* A throw out of initializeEngine(), with no engine registered.
LEMMA ThrowFits ==
  ASSUME Patient, IInv, Orderly, NEW p \in Procs, Step(p), NEW i \in Ids, sid[p] = i,
         Drives(p), engines[i] = None, NEW ws, Throw(p, ws), SameRow(i), stopping' = stopping
  PROVE  AllFit' /\ Alone'
  <1>1. Over(p)
    BY ThrowApart, AtStep DEF Finish, Over
  <1>2. Keeps(p, i)
    BY ThrowApart DEF Keeps
  <1> QED
    BY <1>1, <1>2, DriverFits

\* A driver that goes on with no engine registered, its mark and its budget as they were.
LEMMA DriverGoesOn ==
  ASSUME Patient, IInv, Orderly, NEW p \in Procs, Step(p), NEW i \in Ids, sid[p] = i,
         pc[p] \in DriverLocs \ {"init_write"}, pc'[p] \in DriverLocs,
         pc[p] # "post_row" \/ ~Exists(i),
         engines'[i] = None, SameRow(i), UNCHANGED <<op, sid, eng, reconnect, stopping, lost>>
  PROVE  AllFit' /\ Alone'
  <1>1. Drives(p) /\ Drives(p)' /\ pc'[p] # "idle"
    BY DriverSteps DEF DriverLocs, Drives
  <1>2. Keeps(p, i)
    BY DEF Keeps
  <1>3. Fit(p)'
    BY <1>1 DEF Fit, Ahead, DriverLocs, RetiredLocs, Drives
  <1>4. OwnsSlot(p)' /\ HasBudget(p)'
    BY <1>1, AtStep DEF OwnsSlot, HasBudget, DriverLocs
  <1>5. NoTimer(p)'
    <2>1. NoLiveLoss(i) => NoLiveLoss(i)'
      BY ConstantsAssumption DEF NoLiveLoss
    <2>2. Armed(i)' <=> Armed(i)
      BY DEF Armed
    <2>3. ~Exists(i) => reconnect[i] = None
      BY AtStep DEF Budgeted
    <2> QED
      BY <1>1, <2>1, <2>2, <2>3, AtStep DEF NoTimer, DriverLocs, Armed
  <1>6. Knows(p)'
    BY <1>1, AtStep DEF Knows, RetiredLocs, SameRow, Drives, DriverLocs
  <1> QED
    BY <1>1, <1>2, <1>3, <1>4, <1>5, <1>6, DriverFits DEF HandlerFits

\* initialize() settles, or its deadline takes the engine out of the registry.
LEMMA RunsFits ==
  ASSUME Patient, IInv, Orderly, NEW p \in Procs, NEW i \in Ids, sid[p] = i, InitRuns(p)
  PROVE  AllFit' /\ Alone'
  <1>0. Step(p)
    BY DEF Step
  <1>1. pc[p] = "init_run" /\ UNCHANGED <<row, stopping, lost>> /\ SameRow(i)
    BY DEF InitRuns, SameRow, Exists
  <1>2. Drives(p)
    BY <1>1, DriverSteps DEF DriverLocs
  <1>3. CASE InitReturns(p, pc, writes) /\ UNCHANGED <<engines, initializing, estate, reconnect, op, sid>>
    BY <1>0, <1>1, <1>3, ReturnFits, AtStep
  <1>4. CASE Live(i, eng[p]) /\ OnError(i) /\ Finish(p)
    <2>1. engines'[i] = None /\ reconnect'[i] = None
      BY <1>4, AtStep DEF OnError, CancelReconnect
    <2>2. Over(p)
      BY <1>4, AtStep DEF Finish, Over
    <2> QED
      BY <1>0, <1>1, <1>2, <2>1, <2>2, DriverFits DEF Keeps
  <1>5. CASE ~Live(i, eng[p]) /\ Throw(p, writes)
    <2>1. engines[i] = None
      BY <1>1, <1>2, <1>5, AtStep DEF Live, OwnsSlot
    <2> QED
      BY <1>0, <1>1, <1>2, <1>5, <2>1, ThrowFits
  <1>6. CASE engines' = [engines EXCEPT ![i] = None] /\ Goto(p, "init_kill")
             /\ UNCHANGED <<initializing, estate, reconnect, writes, op, sid, eng>>
    <2>1. engines'[i] = None /\ pc'[p] = "init_kill"
      BY <1>6, AtStep DEF Goto
    <2> QED
      BY <1>0, <1>1, <1>6, <2>1, DriverGoesOn DEF DriverLocs
  <1> QED
    BY <1>1, <1>3, <1>4, <1>5, <1>6 DEF InitRuns, InitRejects

\* The deadline's kill, and the purges of an owner whose session is gone.
LEMMA KillFits ==
  ASSUME Patient, IInv, Orderly, NEW p \in Procs, NEW i \in Ids, sid[p] = i,
         InitKilled(p) \/ InitKillWritten(p) \/ RetireKilled(p) \/ PurgeCheck(p) \/ Purged(p)
  PROVE  AllFit' /\ Alone'
  <1>0. Step(p)
    BY DEF Step
  <1>1. CASE InitKilled(p)
    <2>1. pc[p] = "init_kill" /\ pc'[p] = "init_kill_write" /\ engines' = engines /\ SameRow(i)
          /\ UNCHANGED <<op, sid, eng, reconnect, stopping, lost>>
      BY <1>1, AtStep DEF InitKilled, Goto, SameRow, Exists
    <2>2. engines[i] = None
      BY <2>1, DriverSteps DEF FreeLocs
    <2> QED
      BY <1>0, <2>1, <2>2, DriverGoesOn DEF DriverLocs
  <1>2. CASE InitKillWritten(p)
    <2>1. pc[p] = "init_kill_write" /\ SameRow(i) /\ stopping' = stopping
      BY <1>2, LandsRows DEF InitKillWritten, SameRow
    <2>2. engines[i] = None /\ Drives(p)
      BY <2>1, DriverSteps DEF FreeLocs, DriverLocs
    <2> QED
      BY <1>0, <1>2, <2>1, <2>2, ThrowFits DEF InitKillWritten
  <1>3. CASE RetireKilled(p)
    <2>1. pc[p] = "retire_kill" /\ pc'[p] = "purge_id" /\ SameRow(i)
          /\ UNCHANGED <<op, sid, eng, reconnect, stopping, lost>>
      BY <1>3, AtStep DEF RetireKilled, Goto, SameRow, Exists
    <2>2. engines[i] \in {None, eng[p]}
      BY <2>1, DriverSteps, AtStep DEF OwnsSlot, DriverLocs
    <2>3. engines'[i] = None
      BY <1>3, <2>2, AtStep DEF RetireKilled, DeleteIfLive
    <2> QED
      BY <1>0, <2>1, <2>3, DriverGoesOn DEF DriverLocs
  <1>4. CASE PurgeCheck(p) \/ Purged(p)
    <2>1. pc[p] \in {"purge_id", "purge_name", "purge_rm"} /\ UNCHANGED <<engines, reconnect, stopping, lost>>
          /\ SameRow(i)
      BY <1>4 DEF PurgeCheck, Purged, SameRow, Exists
    <2>2. engines[i] = None /\ Drives(p)
      BY <2>1, DriverSteps DEF FreeLocs, DriverLocs
    <2>3. CASE Finish(p)
      <3>1. Over(p)
        BY <2>3, AtStep DEF Finish, Over
      <3> QED
        BY <1>0, <2>1, <2>2, <3>1, DriverFits DEF Keeps
    <2>4. CASE ~Finish(p)
      <3>1. pc'[p] \in {"purge_name", "purge_rm"} /\ UNCHANGED <<op, sid, eng>>
        BY <1>4, <2>4, AtStep DEF PurgeCheck, Purged, Goto, Patient
      <3> QED
        BY <1>0, <2>1, <2>2, <3>1, DriverGoesOn DEF DriverLocs
    <2> QED
      BY <2>3, <2>4
  <1> QED
    BY <1>1, <1>2, <1>3, <1>4

\* The guard after a successful initialization.
LEMMA PostRowFits ==
  ASSUME Patient, IInv, Orderly, NEW p \in Procs, NEW i \in Ids, sid[p] = i, PostRow(p)
  PROVE  AllFit' /\ Alone'
  <1>0. Step(p)
    BY DEF Step
  <1>1. pc[p] = "post_row" /\ UNCHANGED <<engines, reconnect, stopping, lost>> /\ SameRow(i) /\ Drives(p)
    BY DriverSteps DEF PostRow, SameRow, Exists, DriverLocs
  <1>2. CASE Finish(p)
    <2>1. Over(p) /\ Exists(i)
      BY <1>2, AtStep DEF PostRow, Finish, Over, RowGone, Goto, Patient
    <2>2. Keeps(p, i)
      BY <1>1, <1>2, <2>1 DEF Keeps, Owes, SameRow, Doomed, Removes
    <2> QED
      BY <1>0, <1>1, <2>1, <2>2, DriverFits
  <1>3. CASE Goto(p, "retire_kill") /\ ~Exists(i) /\ engines[i] # None
             /\ eng' = [eng EXCEPT ![p] = engines[i]] /\ UNCHANGED <<op, sid>>
    <2>1. pc'[p] = "retire_kill" /\ eng'[p] = engines[i]
      BY <1>3, AtStep DEF Goto
    <2>2. Keeps(p, i)
      BY <1>1, <1>3, <2>1 DEF Keeps, Owes, SameRow, Doomed, Removes
    <2>3. Fit(p)'
      BY <1>1, <1>3, <2>1 DEF Fit, Ahead, RetiredLocs, DriverLocs, Drives
    <2>4. OwnsSlot(p)' /\ HasBudget(p)'
      BY <1>1, <1>3, <2>1 DEF OwnsSlot, HasBudget, FreeLocs
    <2>5. reconnect'[i] = None
      BY <1>1, <1>3, AtStep DEF Budgeted
    <2>6. NoTimer(p)' /\ Knows(p)'
      BY <1>1, <1>3, <2>1, <2>5, AtStep DEF NoTimer, Armed, Knows, RetiredLocs, SameRow, Drives
    <2> QED
      BY <1>0, <1>1, <2>2, <2>3, <2>4, <2>6, DriverFits DEF HandlerFits
  <1>4. CASE Goto(p, "purge_id") /\ ~Exists(i) /\ engines[i] = None /\ UNCHANGED <<op, sid, eng>>
    <2>1. pc'[p] = "purge_id"
      BY <1>4, AtStep DEF Goto
    <2> QED
      BY <1>0, <1>1, <1>4, <2>1, DriverGoesOn DEF DriverLocs
  <1> QED
    BY <1>2, <1>3, <1>4 DEF PostRow, RowGone

-----------------------------------------------------------------------------
\* A driver that registers a new engine: its session has a budget for it or a reconnect attempt
\* that is to remove it, and nothing is known of the engine yet.
LEMMA LaunchFits ==
  ASSUME IInv, Orderly, NEW p \in Procs, NEW i \in Ids, NEW e \in Engines, Recyclable(e),
         pc'[p] = "init_write", op'[p] \in {"start", "reconnect"}, sid'[p] = i, eng'[p] = e,
         engines'[i] = e, estate'[e] = "created", lost' = lost, stopping' = stopping,
         SameRow(i), row[i] # "unborn",
         ~Armed(i)', ~Exists(i) => reconnect'[i] = None,
         reconnect'[i] = None => Doomed(i),
         op'[p] = "start" => ~Doomed(i)
  PROVE  Fit(p)' /\ HandlerFits(p)' /\ SessionFits(i)'
  <1>1. Fit(p)'
    BY DEF Fit, Ahead, DriverLocs, RetiredLocs
  <1>2. NoLiveLoss(i)'
    BY DEF NoLiveLoss, Recyclable
  <1>3. Doomed(i)' <=> Doomed(i)
    BY DEF Doomed, SameRow
  <1>4. HandlerFits(p)'
    BY <1>2, <1>3 DEF HandlerFits, OwnsSlot, NoTimer, Knows, HasBudget, RetiredLocs, FreeLocs, ClientVerbs, Doomed
  <1>5. BeingRemoved(i)'
    BY <1>3 DEF BeingRemoved, Removes
  <1>6. Budgeted(i)' /\ Tended(i)' /\ Unborn(i)'
    BY <1>3 DEF Budgeted, Tended, Unborn, SameRow
  <1> QED
    BY <1>1, <1>4, <1>5, <1>6 DEF SessionFits

\* start() comes back from its hook and creates the engine.
LEMMA HookFits ==
  ASSUME Patient, IInv, Orderly, NEW p \in Procs, NEW i \in Ids, sid[p] = i, StartHook(p)
  PROVE  AllFit' /\ Alone'
  <1>0. Step(p)
    BY DEF Step
  <1>1. pc[p] = "start_hook" /\ op[p] = "start" /\ Drives(p)
    BY AtStep DEF StartHook, Fit, Ahead, Drives
  <1>2. PICK e \in Engines : InitializeEngine(p, i, e, engines, estate)
    BY DEF StartHook
  <1>3. /\ pc'[p] = "init_write" /\ op' = op /\ sid' = sid /\ eng'[p] = e /\ engines'[i] = e
        /\ estate'[e] = "created" /\ lost' = lost /\ stopping' = stopping /\ Recyclable(e)
    BY <1>2, AtStep DEF StartHook, InitializeEngine, Goto
  <1>4. SameRow(i) /\ row[i] # "unborn"
    BY AtStep DEF StartHook, SameRow, Exists
  <1>5. reconnect'[i] = FreshReconnect /\ ~FreshReconnect.armed /\ FreshReconnect # None
    <2>1. reconnect'[i] = FreshReconnect
      BY AtStep DEF StartHook
    <2>2. FreshReconnect \in [attempts : Nat, armed : BOOLEAN]
      BY DEF FreshReconnect
    <2>3. FreshReconnect # None
      BY <2>2, ConstantsAssumption
    <2> QED
      BY <2>1, <2>3 DEF FreshReconnect
  <1>6. ~Armed(i)'
    BY <1>5 DEF Armed
  <1>7. ~Doomed(i) /\ Exists(i)
    BY <1>1, AtStep DEF Doomed, Knows, ClientVerbs
  <1>8. Fit(p)' /\ HandlerFits(p)' /\ SessionFits(i)'
    BY <1>1, <1>3, <1>4, <1>5, <1>6, <1>7, LaunchFits
  <1>9. \A q \in Procs \ {p} : sid[q] = i => Fit(q)' /\ HandlerFits(q)'
    BY <1>0, <1>1, BesideDriver, StepHandlers
  <1> QED
    BY <1>0, <1>8, <1>9, StepFits

\* A reconnect attempt closes the old engine, and creates one or comes to the fence.
LEMMA ReconnectKillFits ==
  ASSUME Patient, IInv, Orderly, NEW p \in Procs, NEW i \in Ids, sid[p] = i, ReconnectKilled(p)
  PROVE  AllFit' /\ Alone'
  <1>0. Step(p)
    BY DEF Step
  <1>1. /\ pc[p] = "reconnect_kill" /\ op[p] = "reconnect" /\ Drives(p)
        /\ UNCHANGED <<op, sid, reconnect, stopping, lost>> /\ SameRow(i) /\ row[i] # "unborn"
    BY AtStep DEF ReconnectKilled, Fit, Drives, SameRow, Exists
  <1>2. ~Armed(i) /\ (reconnect[i] # None \/ Doomed(i)) /\ (~Exists(i) => reconnect[i] = None)
    BY <1>1, AtStep DEF NoTimer, HasBudget, Budgeted
  <1>3. \A q \in Procs \ {p} : sid[q] = i => Fit(q)' /\ HandlerFits(q)'
    BY <1>0, <1>1, BesideDriver, StepHandlers DEF SameRow
  <1> DEFINE regs == IF engines[i] = eng[p] THEN [engines EXCEPT ![i] = None] ELSE engines
  <1>4. CASE \E e \in Engines : InitializeEngine(p, i, e, regs, Closed(eng[p]))
    <2>1. PICK e \in Engines : InitializeEngine(p, i, e, regs, Closed(eng[p]))
      BY <1>4
    <2>2. /\ pc'[p] = "init_write" /\ eng'[p] = e /\ engines'[i] = e /\ estate'[e] = "created" /\ Recyclable(e)
      BY <2>1, AtStep DEF InitializeEngine, Goto, Closed
    <2>3. ~Armed(i)'
      BY <1>1, <1>2 DEF Armed
    <2>4. Fit(p)' /\ HandlerFits(p)' /\ SessionFits(i)'
      BY <1>1, <1>2, <2>2, <2>3, LaunchFits
    <2> QED
      BY <1>0, <1>3, <2>4, StepFits
  <1>5. CASE engines' = regs /\ Goto(p, "reconnect_fence") /\ UNCHANGED eng
    <2>1. pc'[p] = "reconnect_fence" /\ eng'[p] = eng[p]
      BY <1>5, AtStep DEF Goto
    <2>2. engines'[i] = None
      BY <1>1, <1>5, AtStep DEF OwnsSlot
    <2>3. Keeps(p, i)
      BY <1>1, <2>2 DEF Keeps
    <2>4. Fit(p)'
      BY <1>1, <2>1 DEF Fit, Ahead, DriverLocs, RetiredLocs
    <2>5. ~Armed(i)' /\ NoLiveLoss(i)'
      BY <1>1, <1>2, <2>2, ConstantsAssumption DEF Armed, NoLiveLoss
    <2>6. HandlerFits(p)'
      BY <1>1, <1>2, <2>1, <2>2, <2>5 DEF HandlerFits, OwnsSlot, NoTimer, Knows, HasBudget, Doomed, SameRow, RetiredLocs,
         ClientVerbs
    <2> QED
      BY <1>0, <1>1, <2>3, <2>4, <2>6, DriverFits
  <1> QED
    BY <1>4, <1>5 DEF ReconnectKilled

\* It comes from the fence, or gives up waiting.
LEMMA ReconnectFenceFits ==
  ASSUME Patient, IInv, Orderly, NEW p \in Procs, NEW i \in Ids, sid[p] = i, ReconnectFence(p)
  PROVE  AllFit' /\ Alone'
  <1>0. Step(p)
    BY DEF Step
  <1>1. /\ pc[p] = "reconnect_fence" /\ op[p] = "reconnect" /\ Drives(p) /\ engines[i] = None
        /\ UNCHANGED <<stopping, lost>> /\ SameRow(i) /\ row[i] # "unborn"
    BY AtStep, DriverSteps DEF ReconnectFence, Fit, Drives, SameRow, Exists, FreeLocs
  <1>2. ~Armed(i) /\ (reconnect[i] # None \/ Doomed(i)) /\ (~Exists(i) => reconnect[i] = None)
    BY <1>1, AtStep DEF NoTimer, HasBudget, Budgeted
  <1>3. CASE (\E e \in Engines : InitializeEngine(p, i, e, engines, estate)) /\ UNCHANGED <<op, sid, reconnect>>
    <2>1. PICK e \in Engines : InitializeEngine(p, i, e, engines, estate)
      BY <1>3
    <2>2. /\ pc'[p] = "init_write" /\ eng'[p] = e /\ engines'[i] = e /\ estate'[e] = "created" /\ Recyclable(e)
      BY <2>1, AtStep DEF InitializeEngine, Goto
    <2>3. ~Armed(i)'
      BY <1>2, <1>3 DEF Armed
    <2>4. Fit(p)' /\ HandlerFits(p)' /\ SessionFits(i)'
      BY <1>1, <1>2, <1>3, <2>2, <2>3, LaunchFits
    <2>5. \A q \in Procs \ {p} : sid[q] = i => Fit(q)' /\ HandlerFits(q)'
      BY <1>0, <1>1, <1>3, BesideDriver, StepHandlers DEF SameRow
    <2> QED
      BY <1>0, <2>4, <2>5, StepFits
  <1>4. CASE Throw(p, writes)
    BY <1>0, <1>1, <1>4, ThrowFits
  <1> QED
    BY <1>3, <1>4 DEF ReconnectFence

-----------------------------------------------------------------------------
\* A delete() past its first fence, or done with the engine, finds its second one open.
LEMMA DeleteFindsOpen ==
  ASSUME Patient, IInv, Orderly, NEW p \in Procs, NEW i \in Ids, sid[p] = i, op[p] = "delete",
         pc[p] \in {"delete_fence1", "teardown"}, pc[p] = "delete_fence1" => FencePassed(p)
  PROVE  FenceOpen(NameOf[i])
  <1>1. Exists(i)
    BY AtStep DEF Knows, ClientVerbs
  <1>2. ASSUME NEW w \in wiping, w.name = NameOf[i]
        PROVE  FALSE
    BY <1>1, <1>2 DEF Orderly, RmsFit, RmAwaited, FencePassed
  <1> QED
    BY <1>2 DEF FenceOpen

\* Marked, its reconnect cancelled, its engine captured: the session is as good as retired.
LEMMA RetireFits ==
  ASSUME Patient, IInv, Orderly, NEW p \in Procs, Step(p), NEW i \in Ids, sid[p] = i,
         pc[p] \in {"verb_row", "delete_fence1"}, Exists(i), Retire(p), SameRow(i), engines' = engines,
         op[p] = "delete" => FenceOpen(NameOf[i])
  PROVE  AllFit' /\ Alone'
  <1>1. op[p] \in ClientVerbs /\ op[p] # "start" /\ op'[p] = op[p] /\ sid'[p] = i
    BY DriverSteps DEF Retire
  <1>2. i \in stopping' /\ reconnect'[i] = None /\ eng'[p] = engines[i] /\ Exists(i)'
    BY AtStep DEF Retire, CancelReconnect, SameRow
  <1>3. \/ pc'[p] \in {"verb_wait", "teardown"}
        \/ pc'[p] \in {"verb_write", "delete_hook"} /\ engines[i] = None
    BY AtStep DEF Retire, BeginTeardown, ToDeleteFence2, Goto
  <1>4. pc'[p] = "delete_hook" => op[p] = "delete"
    BY AtStep DEF Retire, BeginTeardown, ToDeleteFence2, Goto
  <1>5. Keeps(p, i)
    BY <1>1, <1>2, <1>3 DEF Keeps, Owes, Doomed, Removes
  <1>6. Fit(p)'
    BY <1>1, <1>3, <1>4 DEF Fit, Ahead, DriverLocs, RetiredLocs, ClientVerbs
  <1>7. HandlerFits(p)'
    BY <1>1, <1>2, <1>3 DEF HandlerFits, OwnsSlot, NoTimer, HasBudget, Knows, Drives, RetiredLocs, ClientVerbs
  <1> QED
    BY <1>1, <1>2, <1>5, <1>6, <1>7, VerbFits DEF Doomed

\* A verb that goes on, or ends, with its session's mark and budget as they are.
LEMMA VerbGoesOn ==
  ASSUME Patient, IInv, Orderly, NEW p \in Procs, Step(p), NEW i \in Ids, sid[p] = i,
         op[p] \in ClientVerbs, op[p] # "start", Keeps(p, i), UNCHANGED <<reconnect, stopping>>,
         \/ Over(p)
         \/ /\ UNCHANGED <<op, sid>> /\ Fit(p)' /\ Exists(i) /\ pc'[p] # "delete_purge"
            /\ pc'[p] \in RetiredLocs => pc[p] \in RetiredLocs
  PROVE  AllFit' /\ Alone'
  <1>1. CASE Over(p)
    BY <1>1, VerbFits DEF Keeps, SameRow, Doomed
  <1>2. CASE ~Over(p)
    <2>1. op'[p] = op[p] /\ sid'[p] = i /\ Exists(i)' /\ ~Drives(p)'
      BY <1>2 DEF Keeps, SameRow, Drives, ClientVerbs
    <2>2. HandlerFits(p)'
      BY <1>2, <2>1, AtStep DEF HandlerFits, OwnsSlot, NoTimer, HasBudget, Knows, Drives, ClientVerbs, Fit
    <2> QED
      BY <1>2, <2>2, VerbFits DEF Keeps, SameRow, Doomed
  <1> QED
    BY <1>1, <1>2

\* The row read of a verb, and the first fence of delete().
LEMMA VerbRowFits ==
  ASSUME Patient, IInv, Orderly, NEW p \in Procs, NEW i \in Ids, sid[p] = i, VerbRow(p)
  PROVE  AllFit' /\ Alone'
  <1>0. Step(p)
    BY DEF Step
  <1>1. pc[p] = "verb_row" /\ op[p] \in ClientVerbs /\ op[p] # "start" /\ SameRow(i) /\ engines' = engines
    BY DriverSteps DEF VerbRow, SameRow, Exists
  <1>2. CASE /\ Finish(p) /\ UNCHANGED <<stopping, reconnect>>
             /\ ~Exists(i) \/ engines[i] = None
    <2>1. Over(p)
      BY <1>2, AtStep DEF Finish, Over
    <2>2. Keeps(p, i)
      BY <1>1, <1>2 DEF Keeps, Owes, SameRow, Doomed, Removes
    <2> QED
      BY <1>0, <1>1, <1>2, <2>1, <2>2, VerbGoesOn
  <1>3. CASE /\ Exists(i) /\ op[p] = "delete" /\ Goto(p, "delete_fence1")
             /\ UNCHANGED <<op, sid, eng, stopping, reconnect>>
    <2>1. pc'[p] = "delete_fence1"
      BY <1>3, AtStep DEF Goto
    <2>2. Keeps(p, i)
      BY <1>1, <1>3, <2>1 DEF Keeps, Owes, SameRow, Doomed, Removes
    <2>3. Fit(p)'
      BY <1>1, <1>3, <2>1 DEF Fit, Ahead, DriverLocs, RetiredLocs
    <2> QED
      BY <1>0, <1>1, <1>3, <2>1, <2>2, <2>3, VerbGoesOn DEF RetiredLocs
  <1>4. CASE Exists(i) /\ (op[p] = "delete" => FenceOpen(NameOf[i])) /\ Retire(p)
    BY <1>0, <1>1, <1>4, RetireFits
  <1> QED
    BY <1>2, <1>3, <1>4 DEF VerbRow, Patient

\* A delete that waited at its first fence retires its session, or is refused.
LEMMA DeleteFenceFits ==
  ASSUME Patient, IInv, Orderly, NEW p \in Procs, NEW i \in Ids, sid[p] = i, DeleteFence1(p)
  PROVE  AllFit' /\ Alone'
  <1>0. Step(p)
    BY DEF Step
  <1>1. /\ pc[p] = "delete_fence1" /\ op[p] \in ClientVerbs /\ op[p] # "start" /\ op[p] = "delete"
        /\ SameRow(i) /\ engines' = engines
    BY DriverSteps, AtStep DEF DeleteFence1, SameRow, Exists, Fit
  <1>2. Exists(i)
    BY <1>1, AtStep DEF Knows
  <1>3. CASE FencePassed(p) /\ Retire(p)
    BY <1>0, <1>1, <1>2, <1>3, RetireFits, DeleteFindsOpen
  <1>4. CASE ~FencePassed(p) /\ Finish(p) /\ UNCHANGED <<stopping, reconnect>>
    <2>1. PICK w \in wiping : p \in w.waiters
      BY <1>4 DEF FencePassed
    <2>2. w.name = NameOf[i] /\ RmAlone(w)
      BY <2>1 DEF Orderly, RmsFit, RmKnown
    <2>3. engines[i] = None
      BY <1>1, <1>2, <2>2 DEF RmAlone, Orderly, Alone, ClientVerbs
    <2>4. Over(p)
      BY <1>4, AtStep DEF Finish, Over
    <2>5. Keeps(p, i)
      BY <1>1, <1>4, <2>3 DEF Keeps
    <2> QED
      BY <1>0, <1>1, <1>4, <2>4, <2>5, VerbGoesOn
  <1> QED
    BY <1>3, <1>4 DEF DeleteFence1

\* The teardown is over: the engine is out of the registry.
LEMMA TornDownFits ==
  ASSUME Patient, IInv, Orderly, NEW p \in Procs, NEW i \in Ids, sid[p] = i, TornDown(p)
  PROVE  AllFit' /\ Alone'
  <1>0. Step(p)
    BY DEF Step
  <1>1. /\ pc[p] = "teardown" /\ op[p] \in ClientVerbs /\ op[p] # "start" /\ SameRow(i)
        /\ UNCHANGED <<op, sid, reconnect, stopping>>
    BY DriverSteps DEF TornDown, SameRow, Exists, RetiredLocs
  <1>2. Exists(i)
    BY <1>1, AtStep DEF Knows
  <1>3. \/ op[p] = "delete" /\ pc'[p] = "delete_hook"
        \/ op[p] # "delete" /\ pc'[p] = "verb_write"
    BY <1>1, AtStep, DeleteFindsOpen DEF TornDown, ToDeleteFence2, Goto
  <1>4. engines'[i] = IF engines[i] = eng[p] THEN None ELSE engines[i]
    BY AtStep DEF TornDown, DeleteIfLive
  <1>5. Keeps(p, i)
    BY <1>1, <1>4 DEF Keeps, Owes, SameRow, Doomed, Removes
  <1>6. Fit(p)'
    BY <1>1, <1>3 DEF Fit, Ahead, DriverLocs, RetiredLocs, ClientVerbs
  <1> QED
    BY <1>0, <1>1, <1>2, <1>3, <1>5, <1>6, VerbGoesOn DEF RetiredLocs

\* The transaction commits: the row is gone, and the mark still stands.
LEMMA CommitFits ==
  ASSUME Patient, IInv, Orderly, NEW p \in Procs, NEW i \in Ids, sid[p] = i, DeleteCommits(p)
  PROVE  AllFit' /\ Alone'
  <1>0. Step(p)
    BY DEF Step
  <1>1. /\ pc[p] = "delete_hook" /\ op[p] = "delete" /\ pc'[p] = "delete_purge" /\ row'[i] = "deleted"
        /\ UNCHANGED <<op, sid, eng, stopping, engines, reconnect, lost, estate>>
    BY AtStep DEF DeleteCommits, Goto, Fit, Patient
  <1>2. i \in stopping /\ reconnect[i] = None /\ ~Exists(i)' /\ Doomed(i) /\ Exists(i)
    BY <1>1, AtStep DEF Knows, RetiredLocs, Exists, NoRow, Doomed, ClientVerbs
  <1>3. Fit(p)' /\ HandlerFits(p)'
    BY <1>1, <1>2 DEF Fit, Ahead, DriverLocs, RetiredLocs, HandlerFits, OwnsSlot, NoTimer, HasBudget, Knows, Drives,
       ClientVerbs
  <1>4. ASSUME NEW q \in Procs \ {p}
        PROVE  GoesOn(q) /\ pc'[q] = pc[q]
    BY <1>0, <1>1, <1>4, StepHandlers DEF InitWritten
  <1>5. BeingRemoved(i)'
    <2> SUFFICES ASSUME engines[i] # None
                 PROVE  \E q \in Procs : sid'[q] = i /\ Removes(q, i)'
      BY <1>1 DEF BeingRemoved
    <2>1. PICK q \in Procs : sid[q] = i /\ Removes(q, i)
      BY <1>2, AtStep DEF BeingRemoved
    <2>2. q # p
      BY <1>1, <2>1 DEF Removes
    <2>3. op[q] \notin ClientVerbs
      BY <1>1, <2>2 DEF Orderly, Alone, ClientVerbs
    <2>4. pc[q] \notin {"verb_row", "delete_fence1"}
      BY <2>3, DriverSteps
    <2>5. sid'[q] = i /\ Removes(q, i)'
      BY <1>1, <1>2, <1>4, <2>1, <2>2, <2>4 DEF Removes, GoesOn
    <2> QED
      BY <2>5
  <1>6. Budgeted(i)' /\ Tended(i)' /\ Unborn(i)'
    BY <1>1, <1>2 DEF Budgeted, Tended, Unborn, Doomed
  <1>7. \A q \in Procs \ {p} : sid[q] = i => Fit(q)' /\ HandlerFits(q)'
    BY <1>1, <1>2, <1>4, BesideVerb DEF Doomed, ClientVerbs
  <1> QED
    BY <1>0, <1>3, <1>5, <1>6, <1>7, StepFits DEF SessionFits

\* The purge of a deleted session takes its mark; the last write of a verb changes nothing.
LEMMA VerbEndFits ==
  ASSUME Patient, IInv, Orderly, NEW p \in Procs, NEW i \in Ids, sid[p] = i,
         DeletePurged(p) \/ VerbWritten(p)
  PROVE  AllFit' /\ Alone'
  <1>0. Step(p)
    BY DEF Step
  <1>1. /\ pc[p] \in {"delete_purge", "verb_write", "refuse_write"} /\ Fit(p)
        /\ op[p] \in ClientVerbs /\ op[p] # "start"
        /\ Over(p) /\ UNCHANGED <<engines, reconnect, lost>>
    <2>1. pc[p] \in {"delete_purge", "verb_write"} /\ Finish(p) /\ UNCHANGED <<engines, reconnect, lost>>
      BY AtStep DEF DeletePurged, VerbWritten, Fit
    <2> QED
      BY <2>1, DriverSteps, AtStep DEF Finish, Over, RetiredLocs
  <1>2. CASE DeletePurged(p)
    <2>1. SameRow(i) /\ pc[p] = "delete_purge"
      BY <1>2 DEF DeletePurged, SameRow, Exists
    <2>2. ~Exists(i)
      BY <2>1, AtStep DEF Knows
    <2>3. Keeps(p, i)
      BY <1>1, <2>1, <2>2 DEF Keeps, Owes, SameRow, Doomed, Removes
    <2> QED
      BY <1>0, <1>1, <2>1, <2>2, <2>3, VerbFits DEF Doomed, SameRow
  <1>3. CASE VerbWritten(p)
    <2>1. SameRow(i)
      BY <1>3, LandsRows DEF VerbWritten, Settled, SameRow
    <2>2. pc[p] = "verb_write" /\ stopping' = stopping
      BY <1>1, <1>3 DEF VerbWritten, Fit
    <2>3. Keeps(p, i)
      BY <1>1, <2>1, <2>2 DEF Keeps, Owes, SameRow, Doomed, Removes
    <2> QED
      BY <1>0, <1>1, <2>2, <2>3, VerbGoesOn
  <1> QED
    BY <1>2, <1>3

\* So every handler's step keeps handlers and sessions in order.
LEMMA HandlerStepFits ==
  ASSUME Patient, IInv, Orderly, NEW p \in Procs, Step(p)
  PROVE  AllFit' /\ Alone'
  <1>1. sid[p] \in Ids
    BY StepGoes, DriverSteps
  <1>2. ~InitWriteFails(p)
    BY DEF InitWriteFails, Patient
  <1>3. ~CatchKilled(p) /\ ~CatchWritten(p) /\ ~DeleteFence2(p)
    BY DEF CatchKilled, CatchWritten, DeleteFence2, Orderly, AllFit, Fit
  <1>4. ~VerbWaited(p)
    BY DEF VerbWaited, Patient, Orderly, Awaited
  <1> DEFINE i == sid[p]
  <1> HIDE DEF i
  <1> QED
    BY <1>1, <1>2, <1>3, <1>4, StartHeadFits, HookFits, WrittenFits, RunsFits, KillFits, PostRowFits, VerbRowFits,
       DeleteFenceFits, TornDownFits, CommitFits, VerbEndFits, ReconnectKillFits, ReconnectFenceFits DEF Step, i

-----------------------------------------------------------------------------
\* What a handler's step does to the registry and to the engine it holds: it takes no engine but
\* the one registered for its session, unless it registers a new one.
Takes(p, i) ==
  /\ Evicts /\ pc'[p] # "init_write"
  /\ eng'[p] \in {None, eng[p]} \/ (eng'[p] = engines[i] /\ sid'[p] = i)
  /\ pendingInit' = pendingInit \/ InitWritten(p)
Registers(p, i) ==
  \E e \in Engines :
    /\ Recyclable(e) /\ eng'[p] = e /\ sid'[p] = i /\ pc'[p] = "init_write"
    /\ engines'[i] = e /\ \A j \in Ids \ {i} : engines'[j] = engines[j]
    /\ estate'[e] = "created" /\ pendingInit' = [pendingInit EXCEPT ![i] = p]
    /\ pc[p] \in {"start_hook", "reconnect_kill", "reconnect_fence"}
    /\ pc[p] = "reconnect_kill" => FenceOpen(NameOf[i])
    /\ pc[p] = "reconnect_fence" => FencePassed(p)

\* Every step of a handler does one or the other.
LEMMA StepEngines ==
  ASSUME Patient, IInv, Orderly, NEW p \in Procs, Step(p), NEW i \in Ids, sid[p] = i
  PROVE  Takes(p, i) \/ Registers(p, i)
  <1>0. /\ engines \in [Ids -> Engines \cup {None}] /\ estate \in [Engines -> EngineStates]
        /\ pc \in [Procs -> Locations] /\ sid \in [Procs -> Ids \cup {None}] /\ eng \in [Procs -> Engines \cup {None}]
    BY AtStep
  <1>1. \A j \in Ids \ {i} : engines'[j] = engines[j]
    BY StepSessions DEF LeftAlone
  <1>2. CASE StartRow(p) \/ StartFence(p)
    BY <1>0, <1>2 DEF StartRow, StartFence, AdmitStart, Finish, Goto, Takes, Evicts
  <1>3. CASE StartHook(p)
    BY <1>0, <1>1, <1>3 DEF StartHook, InitializeEngine, Goto, Registers
  <1>4. CASE InitWritten(p)
    BY <1>0, <1>4 DEF InitWritten, InitReturns, Takes, Evicts
  <1>5. CASE InitWriteFails(p) \/ CatchKilled(p) \/ CatchWritten(p) \/ DeleteFence2(p)
    BY <1>5 DEF InitWriteFails, CatchKilled, CatchWritten, DeleteFence2, Patient, Orderly, AllFit, Fit
  <1>6. ASSUME NEW ws, Throw(p, ws), engines[i] = None, Drives(p), pendingInit' = pendingInit
        PROVE  Takes(p, i)
    <2>1. engines' = engines /\ Finish(p)
      BY <1>6, ThrowApart
    <2> QED
      BY <1>0, <1>6, <2>1 DEF Finish, Takes, Evicts
  <1>7. CASE InitRuns(p)
    <2>1. CASE ~Live(i, eng[p]) /\ Throw(p, writes)
      <3>1. Drives(p) /\ engines[i] = None
        BY <1>0, <1>7, <2>1, DriverSteps, AtStep DEF InitRuns, Live, OwnsSlot, DriverLocs
      <3> QED
        BY <1>6, <1>7, <2>1, <3>1 DEF InitRuns
    <2>2. CASE OnError(i) /\ Finish(p)
      BY <1>0, <1>7, <2>2 DEF InitRuns, OnError, Finish, Takes, Evicts
    <2>3. CASE InitReturns(p, pc, writes) /\ UNCHANGED <<engines, sid>>
      BY <1>0, <1>7, <2>3 DEF InitRuns, InitReturns, Takes, Evicts
    <2>4. CASE engines' = [engines EXCEPT ![i] = None] /\ Goto(p, "init_kill") /\ UNCHANGED eng
      BY <1>0, <1>7, <2>4 DEF InitRuns, Goto, Takes, Evicts
    <2> QED
      BY <1>7, <2>1, <2>2, <2>3, <2>4 DEF InitRuns, InitRejects
  <1>8. CASE InitKillWritten(p)
    <2>1. Drives(p) /\ engines[i] = None
      BY <1>8, DriverSteps DEF InitKillWritten, DriverLocs, FreeLocs
    <2> QED
      BY <1>6, <1>8, <2>1 DEF InitKillWritten
  <1>9. CASE InitKilled(p) \/ RetireKilled(p) \/ PostRow(p) \/ PurgeCheck(p) \/ Purged(p)
    BY <1>0, <1>9 DEF InitKilled, RetireKilled, DeleteIfLive, PostRow, PurgeCheck, Purged, Finish, Goto, Takes, Evicts
  <1>10. CASE VerbRow(p) \/ DeleteFence1(p) \/ VerbWaited(p) \/ TornDown(p)
    BY <1>0, <1>10 DEF VerbRow, DeleteFence1, Retire, VerbWaited, TornDown, DeleteIfLive, BeginTeardown,
       ToDeleteFence2, Finish, Goto, Takes, Evicts
  <1>11. CASE DeleteCommits(p) \/ DeletePurged(p) \/ VerbWritten(p)
    BY <1>0, <1>11 DEF DeleteCommits, DeletePurged, VerbWritten, Finish, Goto, Takes, Evicts
  <1>12. CASE ReconnectKilled(p)
    BY <1>0, <1>1, <1>12 DEF ReconnectKilled, InitializeEngine, Closed, Goto, Takes, Evicts, Registers
  <1>13. CASE ReconnectFence(p)
    <2>1. CASE Throw(p, writes) /\ UNCHANGED pendingInit
      <3>1. Drives(p) /\ engines[i] = None
        BY <1>13, DriverSteps DEF ReconnectFence, FreeLocs
      <3> QED
        BY <1>6, <2>1, <3>1
    <2>2. CASE /\ FencePassed(p) /\ UNCHANGED <<op, sid>>
               /\ \E e \in Engines : InitializeEngine(p, i, e, engines, estate)
      BY <1>0, <1>1, <1>13, <2>2 DEF ReconnectFence, InitializeEngine, Goto, Registers
    <2> QED
      BY <1>13, <2>1, <2>2 DEF ReconnectFence
  <1> QED
    BY <1>2, <1>3, <1>4, <1>5, <1>7, <1>8, <1>9, <1>10, <1>11, <1>12, <1>13 DEF Step

\* Engines keep their homes.
LEMMA HomesKept ==
  ASSUME IInv, Homes, Evicts,
         \A q \in Procs : \/ eng'[q] = None
                          \/ eng'[q] = eng[q] /\ sid'[q] = sid[q]
                          \/ sid'[q] \in Ids /\ eng'[q] = engines[sid'[q]]
  PROVE  Homes'
  <1>1. \A i, j \in Ids : engines'[i] = engines'[j] /\ engines'[i] # None => i = j
    BY DEF Homes, Evicts
  <1>2. \A q \in Procs, i \in Ids : eng'[q] # None /\ engines[i] = eng'[q] => sid'[q] = i
    BY DEF Homes
  <1>3. \A q \in Procs, i \in Ids : eng'[q] # None /\ engines'[i] = eng'[q] => sid'[q] = i
    BY <1>2 DEF Evicts
  <1>4. \A p, q \in Procs : eng'[p] # None /\ eng'[p] = eng'[q] => sid'[p] = sid'[q]
    BY DEF Homes
  <1> QED
    BY <1>1, <1>3, <1>4 DEF Homes

\* A new engine has one home.
LEMMA HomesOpened ==
  ASSUME IInv, Homes, NEW p \in Procs, NEW i \in Ids, NEW e \in Engines, Recyclable(e),
         engines'[i] = e, \A j \in Ids \ {i} : engines'[j] = engines[j],
         eng'[p] = e, sid'[p] = i, \A q \in Procs \ {p} : eng'[q] = eng[q] /\ sid'[q] = sid[q]
  PROVE  Homes'
  <1>1. \A j \in Ids : engines[j] # e
    BY DEF Recyclable
  <1>2. \A q \in Procs : eng[q] # e
    BY DEF Recyclable
  <1> QED
    BY <1>1, <1>2 DEF Homes

\* A handler's step leaves every engine with one session.
LEMMA StepHomes ==
  ASSUME Patient, IInv, Orderly, NEW p \in Procs, Step(p)
  PROVE  Homes'
  <1> DEFINE i == sid[p]
  <1>0. i \in Ids /\ (Over(p) \/ Further(p)) /\ Homes
    BY StepGoes, DriverSteps DEF Orderly
  <1>1. \A q \in Procs \ {p} : eng'[q] = eng[q] /\ sid'[q] = sid[q]
    BY StepHandlers DEF GoesOn
  <1>2. CASE Takes(p, i)
    BY <1>0, <1>1, <1>2, HomesKept DEF Takes, Over, Further
  <1>3. CASE Registers(p, i)
    BY <1>0, <1>1, <1>3, HomesOpened DEF Registers
  <1> QED
    BY <1>0, <1>2, <1>3, StepEngines

\* A handler's step creates no row.
LEMMA StepRows ==
  ASSUME Patient, IInv, Orderly, NEW p \in Procs, Step(p), NEW j \in Ids, Exists(j)'
  PROVE  Exists(j)
  <1>1. CASE j # sid[p]
    BY <1>1, StepSessions, StepGoes, DriverSteps DEF LeftAlone
  <1>2. CASE j = sid[p]
    <2>1. CASE UNCHANGED row
      BY <2>1 DEF Exists
    <2>2. CASE \E k \in 1..Len(writes) : Lands(p, k)
      BY <2>2, LandsRows
    <2>3. CASE row' = [row EXCEPT ![j] = "deleted"]
      BY <2>3, AtStep, <1>2 DEF Exists, NoRow
    <2> QED
      BY <1>2, <2>1, <2>2, <2>3 DEF Step, StartRow, StartFence, StartHook, InitWritten, Settled, InitWriteFails, InitRuns,
         InitKilled, InitKillWritten, CatchKilled, CatchWritten, PostRow, RetireKilled, PurgeCheck, Purged, VerbRow,
         DeleteFence1, VerbWaited, TornDown, DeleteFence2, DeleteCommits, DeletePurged, VerbWritten, ReconnectKilled,
         ReconnectFence
  <1> QED
    BY <1>1, <1>2

\* Only the INITIALIZING write that lands sets an engine running.
LEMMA StepRises ==
  ASSUME Patient, IInv, Orderly, NEW p \in Procs, Step(p), NEW e \in Engines,
         estate'[e] = "alive", estate[e] # "alive"
  PROVE  InitWritten(p) /\ e = eng[p]
  <1>0. estate \in [Engines -> EngineStates]
    BY DEF IInv, EnginesOK
  <1>1. CASE UNCHANGED estate
    BY <1>1
  <1>2. ASSUME NEW f, \/ estate' = Closed(f)
                      \/ estate' = Reaping(estate, f)
                      \/ estate' = [estate EXCEPT ![f] = "created"]
                      \/ \E g : estate' = [Closed(g) EXCEPT ![f] = "created"]
        PROVE  FALSE
    BY <1>0, <1>2 DEF Closed, Reaping
  <1>3. CASE InitWritten(p)
    BY <1>0, <1>3 DEF InitWritten
  <1>4. CASE StartRow(p) \/ StartFence(p) \/ PostRow(p) \/ PurgeCheck(p) \/ Purged(p) \/ CatchWritten(p)
             \/ VerbRow(p) \/ DeleteFence1(p) \/ VerbWaited(p) \/ DeleteFence2(p) \/ DeleteCommits(p)
             \/ DeletePurged(p) \/ VerbWritten(p)
    BY <1>1, <1>4 DEF StartRow, StartFence, PostRow, PurgeCheck, Purged, CatchWritten, VerbRow, DeleteFence1,
       VerbWaited, DeleteFence2, DeleteCommits, DeletePurged, VerbWritten
  <1>5. CASE StartHook(p) \/ InitKilled(p) \/ CatchKilled(p) \/ RetireKilled(p) \/ TornDown(p) \/ ReconnectKilled(p)
    BY <1>1, <1>2, <1>5 DEF StartHook, InitializeEngine, InitKilled, CatchKilled, RetireKilled, TornDown, ReconnectKilled
  <1>6. ASSUME NEW ws, Throw(p, ws)
        PROVE  FALSE
    <2>1. \A f, g : Reaping(Reaping(estate, f), g)[e] # "alive"
      BY <1>0 DEF Reaping
    <2> QED
      BY <1>0, <1>1, <1>2, <1>6, <2>1 DEF Throw, ScheduleReconnect
  <1>7. CASE InitWriteFails(p) \/ InitRuns(p) \/ InitKillWritten(p) \/ ReconnectFence(p)
    BY <1>1, <1>2, <1>6, <1>7 DEF InitWriteFails, InitRuns, InitRejects, OnError, InitKillWritten, ReconnectFence,
       InitializeEngine
  <1> QED
    BY <1>3, <1>4, <1>5, <1>7 DEF Step

\* No engine runs whose INITIALIZING write is still awaited.
LEMMA StepUnlaunched ==
  ASSUME Patient, IInv, Orderly, NEW p \in Procs, Step(p)
  PROVE  Unlaunched'
  <1> SUFFICES ASSUME NEW q \in Procs, pc'[q] = "init_write", estate'[eng'[q]] = "alive"
               PROVE  FALSE
    BY DEF Unlaunched
  <1>0. sid[p] \in Ids
    BY StepGoes, DriverSteps
  <1>1. q # p
    BY <1>0, StepEngines DEF Takes, Registers
  <1>2. pc[q] = "init_write" /\ eng'[q] = eng[q] /\ eng[q] \in Engines
    BY <1>1, StepHandlers DEF GoesOn, IInv, ProcsOK, Handlers, HoldsEngine
  <1>3. InitWritten(p) /\ eng[q] = eng[p]
    BY <1>2, StepRises DEF Orderly, Unlaunched
  <1>4. sid[p] = sid[q] /\ Drives(p) /\ Drives(q)
    BY <1>2, <1>3, DriverSteps, ConstantsAssumption DEF Orderly, Homes, InitWritten, DriverLocs
  <1> QED
    BY <1>1, <1>4 DEF Orderly, Alone

\* The tracked INITIALIZING write is that of a driver at its await, for whoever waits for it.
LEMMA StepAwaited ==
  ASSUME Patient, IInv, Orderly, NEW p \in Procs, Step(p)
  PROVE  Awaited'
  <1> DEFINE i == sid[p]
  <1>0. i \in Ids /\ pendingInit \in [Ids -> Procs \cup {None}] /\ None \notin Procs
    BY StepGoes, DriverSteps, ConstantsAssumption DEF IInv, EnginesOK
  <1>1. \A q \in Procs \ {p} : GoesOn(q)
    BY StepHandlers
  <1>2. pc[p] = "init_write" => InitWritten(p)
    BY DEF Step, StartRow, StartFence, StartHook, InitWriteFails, InitRuns, InitKilled, InitKillWritten, CatchKilled,
       CatchWritten, PostRow, RetireKilled, PurgeCheck, Purged, VerbRow, DeleteFence1, VerbWaited, TornDown,
       DeleteFence2, DeleteCommits, DeletePurged, VerbWritten, ReconnectKilled, ReconnectFence, Patient
  <1>3. ASSUME NEW j \in Ids, NEW q \in Procs, pendingInit'[j] = q
        PROVE  pc'[q] = "init_write" /\ sid'[q] = j
    <2>1. CASE Registers(p, i) /\ j = i
      BY <1>0, <1>3, <2>1 DEF Registers
    <2>2. CASE ~(Registers(p, i) /\ j = i)
      <3>1. pendingInit[j] = q /\ (InitWritten(p) => q # p)
        BY <1>0, <1>3, <2>2, StepEngines DEF Takes, Registers, InitWritten, Untrack, Orderly, Awaited
      <3>2. pc[q] = "init_write" /\ sid[q] = j /\ q # p
        BY <1>2, <3>1 DEF Orderly, Awaited
      <3> QED
        BY <1>1, <3>2 DEF GoesOn
    <2> QED
      BY <2>1, <2>2
  <1>4. ASSUME NEW q \in Procs \ {p}, pc'[q] = "verb_wait"
        PROVE  \E r \in Procs : pc'[r] = "init_write" /\ eng'[r] = eng'[q]
    <2>1. pc[q] = "verb_wait" /\ eng'[q] = eng[q]
      BY <1>1, <1>4 DEF GoesOn
    <2>2. PICK r \in Procs : pc[r] = "init_write" /\ eng[r] = eng[q]
      BY <2>1 DEF Orderly, Awaited
    <2>3. r # p
      BY <1>2, <1>4, <2>1, <2>2 DEF InitWritten, InitReturns, IInv, ProcsOK
    <2> QED
      BY <1>1, <2>1, <2>2, <2>3 DEF GoesOn
  <1>5. ASSUME pc'[p] = "verb_wait"
        PROVE  \E r \in Procs : pc'[r] = "init_write" /\ eng'[r] = eng'[p]
    <2>1. Retire(p) /\ pc[p] \in {"verb_row", "delete_fence1"}
      BY <1>5 DEF Step, StartRow, StartFence, StartHook, AdmitStart, InitWritten, InitReturns, InitWriteFails, InitRuns,
         InitRejects, InitKilled, InitKillWritten, Throw, CatchKilled,
         CatchWritten, PostRow, RetireKilled, PurgeCheck, Purged, VerbRow, DeleteFence1, VerbWaited, TornDown,
         DeleteFence2, DeleteCommits, DeletePurged, VerbWritten, ReconnectKilled, ReconnectFence, BeginTeardown,
         ToDeleteFence2, InitializeEngine, Goto, Finish, IInv, ProcsOK
    <2>2. AwaitsInitial(i, engines[i]) /\ eng'[p] = engines[i]
      BY <1>5, <2>1 DEF Retire, BeginTeardown, ToDeleteFence2, Goto, IInv, ProcsOK
    <2>3. PICK r \in Procs : pendingInit[i] = r /\ eng[r] = engines[i]
      BY <1>0, <2>2 DEF AwaitsInitial
    <2>4. pc[r] = "init_write" /\ r # p
      BY <1>0, <2>1, <2>3 DEF Orderly, Awaited
    <2> QED
      BY <1>1, <2>2, <2>3, <2>4 DEF GoesOn
  <1> HIDE DEF i
  <1> QED
    BY <1>3, <1>4, <1>5 DEF Awaited

-----------------------------------------------------------------------------
\* The rms in flight after a step of p were in flight before it, and p has joined or left their
\* waiters; or a logout begins one.
WaitLocs == {"start_fence", "delete_fence1", "reconnect_fence"}
Carried(p, i, w) ==
  \E v \in wiping :
    /\ w.name = v.name /\ (w.tracked <=> v.tracked)
    /\ \A q \in Procs \ {p} : q \in w.waiters <=> q \in v.waiters
    /\ w.waiters \subseteq v.waiters \cup {p}
    /\ p \in w.waiters => w.name = NameOf[i] /\ pc'[p] \in WaitLocs
    /\ pc'[p] \in WaitLocs /\ w.name = NameOf[i] /\ w.tracked => p \in w.waiters
Begun(i, w) ==
  /\ w.tracked /\ w.waiters = {} /\ w.name = NameOf[i] /\ Exists(i) /\ reconnect'[i] = None
  /\ \E q \in Procs : sid'[q] = i /\ op'[q] = "logout" /\ pc'[q] = "teardown" /\ eng'[q] # None
                      /\ engines'[i] \in {None, eng'[q]}
  /\ \A q \in Procs : sid'[q] = i /\ op'[q] = "reconnect" => pc'[q] # "reconnect_fence"

\* Joining the waiters of a name's rms, and leaving them.
LEMMA AwaitCarries ==
  ASSUME IInv, NEW p \in Procs, NEW i, Await(p, NameOf[i]), pc'[p] \in WaitLocs,
         \A v \in wiping : p \notin v.waiters, NEW w \in wiping'
  PROVE  Carried(p, i, w)
  <1>1. PICK v \in wiping : w = IF v.name = NameOf[i] /\ v.tracked THEN [v EXCEPT !.waiters = @ \cup {p}] ELSE v
    BY DEF Await
  <1>2. v \in [name : Names, engine : Engines, tracked : BOOLEAN, waiters : SUBSET Procs]
    BY DEF IInv, WipingOK
  <1>3. CASE v.name = NameOf[i] /\ v.tracked
    <2>1. w = [v EXCEPT !.waiters = v.waiters \cup {p}]
      BY <1>1, <1>3
    <2> QED
      BY <1>3, <1>2, <2>1 DEF Carried
  <1>4. CASE ~(v.name = NameOf[i] /\ v.tracked)
    BY <1>1, <1>4 DEF Carried
  <1> QED
    BY <1>3, <1>4

\* A handler that gives up waiting leaves the rms in flight.
LEMMA GiveUpCarries ==
  ASSUME IInv, NEW p \in Procs, NEW i, GiveUp(p), pc'[p] \notin WaitLocs, NEW w \in wiping'
  PROVE  Carried(p, i, w)
  <1>1. PICK v \in wiping : w = [v EXCEPT !.waiters = v.waiters \ {p}]
    BY DEF GiveUp
  <1>2. v \in [name : Names, engine : Engines, tracked : BOOLEAN, waiters : SUBSET Procs]
    BY DEF IInv, WipingOK
  <1> QED
    BY <1>1, <1>2 DEF Carried

\* So does a step that concerns no rm.
LEMMA SameCarries ==
  ASSUME NEW p \in Procs, NEW i, NEW w \in wiping, p \notin w.waiters, pc'[p] \notin WaitLocs
  PROVE  Carried(p, i, w)
  BY DEF Carried

\* A verb that retires its session begins the rm of a logout, when there is an engine to log out.
LEMMA RetireRms ==
  ASSUME Patient, IInv, Orderly, NEW p \in Procs, Step(p), NEW i \in Ids, sid[p] = i,
         pc[p] \in {"verb_row", "delete_fence1"}, Exists(i), Retire(p), engines' = engines,
         op[p] = "delete" => FenceOpen(NameOf[i]), \A v \in wiping : p \notin v.waiters, NEW w \in wiping'
  PROVE  Carried(p, i, w) \/ Begun(i, w)
  <1>1. pc'[p] \notin WaitLocs
    BY AtStep DEF Retire, BeginTeardown, ToDeleteFence2, Goto, WaitLocs
  <1>2. CASE w \in wiping
    BY <1>1, <1>2, SameCarries
  <1>3. CASE w \notin wiping
    <2>1. /\ op[p] = "logout" /\ engines[i] # None /\ w = LogoutRm(p, engines[i]) /\ Goto(p, "teardown")
          /\ op' = op /\ sid' = sid /\ eng'[p] = engines[i]
      BY <1>3, AtStep DEF Retire, BeginTeardown, ToDeleteFence2
    <2>2. pc'[p] = "teardown" /\ reconnect'[i] = None
      BY <2>1, AtStep DEF Goto, Retire, CancelReconnect
    <2>3. ASSUME NEW q \in Procs, sid'[q] = i, op'[q] = "reconnect", pc'[q] = "reconnect_fence"
          PROVE  FALSE
      <3>1. q # p
        BY <2>1, <2>3
      <3>2. pc[q] = "reconnect_fence" /\ sid[q] = i
        BY <2>3, <3>1, StepHandlers DEF GoesOn
      <3> QED
        BY <2>1, <3>2, DriverSteps DEF FreeLocs
    <2> QED
      BY <2>1, <2>2, <2>3 DEF Begun, LogoutRm
  <1> QED
    BY <1>2, <1>3

\* The write a logout waited for has landed, and its rm begins.
LEMMA WrittenRms ==
  ASSUME Patient, IInv, Orderly, NEW p \in Procs, NEW i \in Ids, sid[p] = i, InitWritten(p), NEW w \in wiping'
  PROVE  Carried(p, i, w) \/ Begun(i, w)
  <1>0. Step(p)
    BY DEF Step
  <1>1. pc[p] = "init_write" /\ Drives(p) /\ pc'[p] \notin WaitLocs
    BY AtStep, DriverSteps DEF InitWritten, InitReturns, DriverLocs, WaitLocs
  <1>2. CASE w \in wiping
    <2>1. p \notin w.waiters
      BY <1>1, <1>2 DEF Orderly, RmsFit, RmKnown
    <2> QED
      BY <1>1, <1>2, <2>1, SameCarries
  <1>3. CASE w \notin wiping
    <2>1. PICK q \in Procs : pc[q] = "verb_wait" /\ eng[q] = eng[p] /\ op[q] = "logout" /\ w = LogoutRm(q, eng[p])
      BY <1>3 DEF InitWritten
    <2>2. q # p /\ eng[p] \in Engines /\ eng[p] # None
      BY <1>1, <2>1, ConstantsAssumption DEF IInv, ProcsOK, Handlers, HoldsEngine
    <2>3. sid[q] = i
      BY <2>1, <2>2 DEF Orderly, Homes
    <2>4. pc'[q] = "teardown" /\ op'[q] = "logout" /\ sid'[q] = i /\ eng'[q] = eng[p]
      <3>1. pc'[q] = "teardown"
        BY <2>1, <2>2 DEF InitWritten, InitReturns, IInv, ProcsOK
      <3> QED
        BY <1>0, <2>1, <2>2, <2>3, <3>1, StepHandlers DEF GoesOn
    <2>5. Exists(i) /\ reconnect'[i] = None
      BY <2>1, <2>3, AtStep DEF Knows, RetiredLocs, ClientVerbs, InitWritten
    <2>6. engines'[i] \in {None, eng[p]}
      BY <1>1, AtStep DEF OwnsSlot, InitWritten
    <2>7. ASSUME NEW r \in Procs, sid'[r] = i, op'[r] = "reconnect", pc'[r] = "reconnect_fence"
          PROVE  FALSE
      <3>1. r # p
        BY <1>1, <2>7 DEF WaitLocs
      <3>2. sid[r] = i /\ Drives(r)
        BY <1>0, <2>7, <3>1, StepHandlers DEF GoesOn, Drives
      <3> QED
        BY <1>1, <3>1, <3>2 DEF Orderly, Alone
    <2> QED
      BY <2>1, <2>2, <2>3, <2>4, <2>5, <2>6, <2>7 DEF Begun, LogoutRm
  <1> QED
    BY <1>2, <1>3

\* Every rm in flight after a handler's step was there before it, or is that of a logout.
LEMMA StepCarries ==
  ASSUME Patient, IInv, Orderly, NEW p \in Procs, Step(p), NEW i \in Ids, sid[p] = i, NEW w \in wiping'
  PROVE  Carried(p, i, w) \/ Begun(i, w)
  <1>0. pc \in [Procs -> Locations] /\ ~DbFaults
    BY AtStep DEF Patient
  <1>1. pc[p] \notin WaitLocs => \A v \in wiping : p \notin v.waiters
    BY DEF Orderly, RmsFit, RmKnown, WaitLocs
  <1>2. FencePassed(p) => \A v \in wiping : p \notin v.waiters
    BY DEF FencePassed
  <1>3. CASE UNCHANGED wiping /\ pc'[p] \notin WaitLocs /\ (pc[p] \notin WaitLocs \/ FencePassed(p))
    BY <1>1, <1>2, <1>3, SameCarries
  <1>4. CASE Await(p, NameOf[i]) /\ pc'[p] \in WaitLocs /\ pc[p] \notin WaitLocs
    BY <1>1, <1>4, AwaitCarries
  <1>5. CASE GiveUp(p) /\ pc'[p] \notin WaitLocs
    BY <1>5, GiveUpCarries
  <1>6. CASE StartRow(p) \/ StartFence(p)
    BY <1>0, <1>3, <1>4, <1>5, <1>6 DEF StartRow, StartFence, AdmitStart, Finish, Goto, WaitLocs
  <1>7. CASE StartHook(p)
    BY <1>0, <1>3, <1>7 DEF StartHook, InitializeEngine, Goto, WaitLocs
  <1>8. CASE InitWritten(p)
    BY <1>8, WrittenRms
  <1>9. ASSUME NEW ws, Throw(p, ws)
        PROVE  pc'[p] \notin WaitLocs
    BY <1>0, <1>9 DEF Throw, Finish, Goto, WaitLocs
  <1>10. CASE InitWriteFails(p) \/ InitRuns(p) \/ InitKilled(p) \/ InitKillWritten(p)
    BY <1>0, <1>3, <1>9, <1>10 DEF InitWriteFails, InitRuns, InitReturns, InitRejects, InitKilled, InitKillWritten,
       Finish, Goto, WaitLocs
  <1>11. CASE CatchKilled(p) \/ CatchWritten(p) \/ PostRow(p) \/ RetireKilled(p) \/ PurgeCheck(p) \/ Purged(p)
    BY <1>0, <1>3, <1>11 DEF CatchKilled, CatchWritten, PostRow, RetireKilled, PurgeCheck, Purged, Finish, Goto,
       WaitLocs
  <1>12. CASE VerbRow(p)
    <2>1. CASE Retire(p) /\ (op[p] = "delete" => FenceOpen(NameOf[i])) /\ Exists(i)
      BY <1>1, <1>12, <2>1, RetireRms DEF VerbRow, WaitLocs
    <2> QED
      BY <1>0, <1>3, <1>4, <1>12, <2>1 DEF VerbRow, Finish, Goto, WaitLocs
  <1>13. CASE DeleteFence1(p)
    <2>1. Exists(i) /\ op[p] = "delete" /\ pc[p] = "delete_fence1"
      BY <1>13, AtStep DEF DeleteFence1, Knows, ClientVerbs, Fit
    <2>2. CASE Retire(p) /\ FencePassed(p)
      BY <1>2, <1>13, <2>1, <2>2, RetireRms, DeleteFindsOpen DEF DeleteFence1
    <2> QED
      BY <1>0, <1>5, <1>13, <2>2 DEF DeleteFence1, Finish, WaitLocs
  <1>14. CASE TornDown(p)
    <2>1. op[p] = "delete" => FenceOpen(NameOf[i])
      BY <1>14, DeleteFindsOpen DEF TornDown
    <2> QED
      BY <1>0, <1>3, <1>14, <2>1 DEF TornDown, ToDeleteFence2, Goto, WaitLocs
  <1>15. CASE VerbWaited(p) \/ DeleteFence2(p)
    BY <1>15, <1>0 DEF VerbWaited, DeleteFence2, Orderly, AllFit, Fit, Awaited
  <1>16. CASE DeleteCommits(p) \/ DeletePurged(p) \/ VerbWritten(p)
    BY <1>0, <1>3, <1>16 DEF DeleteCommits, DeletePurged, VerbWritten, Finish, Goto, WaitLocs
  <1>17. CASE ReconnectKilled(p)
    BY <1>0, <1>3, <1>4, <1>17 DEF ReconnectKilled, InitializeEngine, Goto, WaitLocs
  <1>18. CASE ReconnectFence(p)
    <2>1. pc'[p] \notin WaitLocs
      BY <1>0, <1>9, <1>18 DEF ReconnectFence, InitializeEngine, Goto, WaitLocs
    <2> QED
      BY <1>3, <1>5, <1>18, <2>1 DEF ReconnectFence
  <1> QED
    BY <1>6, <1>7, <1>8, <1>10, <1>11, <1>12, <1>13, <1>14, <1>15, <1>16, <1>17, <1>18 DEF Step

\* Where the steps that a credential rm must not meet come from.
LEMMA StepPast ==
  ASSUME Patient, IInv, Orderly, NEW p \in Procs, Step(p), NEW i \in Ids, sid[p] = i
  PROVE  /\ pc'[p] = "start_hook" => FenceOpen(NameOf[i]) \/ (pc[p] = "start_fence" /\ FencePassed(p))
         /\ pc'[p] \in {"verb_wait", "teardown"} => engines[i] # None /\ pc[p] \in {"verb_row", "delete_fence1"}
         /\ pc'[p] = "delete_hook" => FenceOpen(NameOf[i])
         /\ pc[p] = "teardown" /\ engines[i] = eng[p] => engines'[i] = None
  <1>0. pc \in [Procs -> Locations] /\ engines \in [Ids -> Engines \cup {None}] /\ ~DbFaults
    BY AtStep DEF Patient
  <1>1. CASE StartRow(p) \/ StartFence(p) \/ StartHook(p)
    BY <1>0, <1>1 DEF StartRow, StartFence, AdmitStart, StartHook, InitializeEngine, Finish, Goto
  <1>2. CASE InitWritten(p)
    BY <1>0, <1>2 DEF InitWritten, InitReturns
  <1>3. CASE InitWriteFails(p) \/ InitRuns(p) \/ InitKilled(p) \/ InitKillWritten(p)
    BY <1>0, <1>3 DEF InitWriteFails, InitRuns, InitReturns, InitRejects, InitKilled, InitKillWritten,
       Throw, Finish, Goto
  <1>4. CASE CatchKilled(p) \/ CatchWritten(p) \/ PostRow(p) \/ RetireKilled(p) \/ PurgeCheck(p) \/ Purged(p)
    BY <1>0, <1>4 DEF CatchKilled, CatchWritten, PostRow, RetireKilled, PurgeCheck, Purged, Finish, Goto
  <1>5. CASE VerbRow(p)
    BY <1>0, <1>5 DEF VerbRow, Retire, BeginTeardown, ToDeleteFence2, Finish, Goto
  <1>6. CASE DeleteFence1(p)
    <2>1. op[p] = "delete"
      BY <1>6, AtStep DEF DeleteFence1, Fit
    <2>2. FencePassed(p) => FenceOpen(NameOf[i])
      BY <1>6, <2>1, DeleteFindsOpen DEF DeleteFence1
    <2> QED
      BY <1>0, <1>6, <2>1, <2>2 DEF DeleteFence1, Retire, BeginTeardown, ToDeleteFence2, Finish, Goto
  <1>7. CASE VerbWaited(p) \/ DeleteFence2(p)
    BY <1>7, <1>0 DEF VerbWaited, DeleteFence2, Orderly, AllFit, Fit, Awaited
  <1>8. CASE TornDown(p)
    BY <1>0, <1>8 DEF TornDown, DeleteIfLive, ToDeleteFence2, Goto
  <1>9. CASE DeleteCommits(p) \/ DeletePurged(p) \/ VerbWritten(p)
    BY <1>0, <1>9 DEF DeleteCommits, DeletePurged, VerbWritten, Finish, Goto
  <1>10. CASE ReconnectKilled(p) \/ ReconnectFence(p)
    BY <1>0, <1>10 DEF ReconnectKilled, ReconnectFence, InitializeEngine, Throw, Finish, Goto
  <1> QED
    BY <1>1, <1>2, <1>3, <1>4, <1>5, <1>6, <1>7, <1>8, <1>9, <1>10 DEF Step

\* A session gets a reconnect state from start() alone.
LEMMA StepBudget ==
  ASSUME Patient, IInv, Orderly, NEW p \in Procs, Step(p), NEW i \in Ids, sid[p] = i,
         reconnect[i] = None, pc[p] # "start_hook"
  PROVE  reconnect'[i] = None
  <1>0. reconnect \in [Ids -> [attempts : Nat, armed : BOOLEAN] \cup {None}] /\ pc[p] # "idle"
    BY AtStep, StepGoes
  <1>1. CASE UNCHANGED reconnect \/ CancelReconnect(i)
    BY <1>0, <1>1 DEF CancelReconnect
  <1>2. CASE \E ws : Throw(p, ws)
    BY <1>0, <1>1, <1>2 DEF Throw, ScheduleReconnect
  <1> QED
    BY <1>0, <1>1, <1>2 DEF Step, StartRow, StartFence, AdmitStart, StartHook, InitWritten, InitWriteFails, InitRuns, InitRejects,
       OnError, InitKilled, InitKillWritten, CatchKilled, CatchWritten, PostRow, RetireKilled, PurgeCheck, Purged,
       VerbRow, DeleteFence1, Retire, VerbWaited, TornDown, DeleteFence2, DeleteCommits, DeletePurged,
       VerbWritten, ReconnectKilled, ReconnectFence


\* An rm that was in flight before the step is still one of a logout.
LEMMA CarriedFits ==
  ASSUME Patient, IInv, Orderly, NEW p \in Procs, Step(p), NEW i \in Ids, sid[p] = i, NEW w \in wiping',
         Carried(p, i, w)
  PROVE  RmKnown(w)' /\ RmAlone(w)' /\ RmAwaited(w)'
  <1>1. PICK v \in wiping :
          /\ w.name = v.name /\ (w.tracked <=> v.tracked)
          /\ \A q \in Procs \ {p} : q \in w.waiters <=> q \in v.waiters
          /\ w.waiters \subseteq v.waiters \cup {p}
          /\ p \in w.waiters => w.name = NameOf[i] /\ pc'[p] \in WaitLocs
          /\ pc'[p] \in WaitLocs /\ w.name = NameOf[i] /\ w.tracked => p \in w.waiters
    BY DEF Carried
  <1>2. RmKnown(v) /\ RmAlone(v) /\ RmAwaited(v) /\ v.waiters \subseteq Procs /\ v.tracked /\ w.tracked
    BY <1>1 DEF Orderly, RmsFit, RmKnown, IInv, WipingOK
  <1>3. \A q \in Procs \ {p} : GoesOn(q)
    BY StepHandlers
  <1>4. pc[p] # "idle" /\ (pc'[p] # "idle" => op'[p] = op[p] /\ sid'[p] = i)
    BY StepGoes DEF Over, Further
  <1>5. \A j \in Ids : Exists(j)' => Exists(j)
    BY StepRows
  <1>6. w.name = NameOf[i] => ~FenceOpen(NameOf[i])
    BY <1>1, <1>2 DEF FenceOpen
  <1>7. w.name = NameOf[i] /\ Exists(i) => /\ pc[p] # "start_hook"
                                           /\ pc[p] \in {"start_fence", "reconnect_fence"} => ~FencePassed(p)
    BY <1>1, <1>2, <1>4 DEF RmAwaited, FencePassed
  <1>8. RmKnown(w)'
    <2> SUFFICES ASSUME NEW q \in w.waiters
                 PROVE  pc'[q] \in WaitLocs /\ NameOf[sid'[q]] = w.name
      BY <1>2 DEF RmKnown, WaitLocs
    <2>1. CASE q = p
      BY <1>1, <1>4, <2>1 DEF WaitLocs
    <2>2. CASE q # p
      <3>1. q \in Procs \ {p} /\ q \in v.waiters
        BY <1>1, <1>2, <2>2
      <3> QED
        BY <1>1, <1>2, <1>3, <3>1 DEF RmKnown, GoesOn, WaitLocs
    <2> QED
      BY <2>1, <2>2
  <1>9. RmAlone(w)'
    <2> SUFFICES ASSUME NEW j \in Ids, NameOf[j] = w.name, Exists(j)'
                 PROVE  /\ reconnect'[j] = None
                        /\ engines'[j] # None => \E q \in Procs : sid'[q] = j /\ eng'[q] = engines'[j]
                                                    /\ op'[q] = "logout" /\ pc'[q] = "teardown"
      BY DEF RmAlone
    <2>1. /\ Exists(j) /\ reconnect[j] = None
          /\ engines[j] # None => \E q \in Procs : sid[q] = j /\ eng[q] = engines[j]
                                                    /\ op[q] = "logout" /\ pc[q] = "teardown"
      BY <1>1, <1>2, <1>5 DEF RmAlone
    <2>2. CASE j # i
      <3>1. reconnect'[j] = reconnect[j] /\ engines'[j] = engines[j]
        BY <2>2, StepSessions DEF LeftAlone
      <3> QED
        BY <1>3, <2>1, <2>2, <3>1 DEF GoesOn
    <2>3. CASE j = i
      <3>1. reconnect'[i] = None
        BY <1>7, <2>1, <2>3, StepBudget
      <3>2. ~Registers(p, i)
        BY <1>6, <1>7, <2>1, <2>3 DEF Registers
      <3>3. engines'[i] \in {engines[i], None}
        BY <3>2, StepEngines DEF Takes, Evicts
      <3>4. ASSUME engines'[i] # None
            PROVE  \E q \in Procs : sid'[q] = i /\ eng'[q] = engines'[i] /\ op'[q] = "logout" /\ pc'[q] = "teardown"
        <4>1. engines'[i] = engines[i] /\ engines[i] # None
          BY <3>3, <3>4
        <4>2. PICK q \in Procs : sid[q] = i /\ eng[q] = engines[i] /\ op[q] = "logout" /\ pc[q] = "teardown"
          BY <2>1, <2>3, <4>1
        <4>3. q # p
          BY <4>1, <4>2, StepPast
        <4> QED
          BY <1>3, <4>1, <4>2, <4>3 DEF GoesOn
      <3> QED
        BY <2>3, <3>1, <3>4
    <2> QED
      BY <2>2, <2>3
  <1>10. RmAwaited(w)'
    <2> SUFFICES ASSUME NEW q \in Procs, pc'[q] # "idle", NEW j, sid'[q] = j, NameOf[j] = w.name, Exists(j)'
                 PROVE  /\ pc'[q] \in WaitLocs => q \in w.waiters
                        /\ pc'[q] \notin {"start_hook", "verb_wait", "delete_hook"}
                        /\ pc'[q] = "teardown" => op'[q] = "logout"
      BY DEF RmAwaited, WaitLocs
    <2>1. CASE q # p
      <3>1. /\ pc[q] # "idle" /\ sid[q] = j /\ op'[q] = op[q]
            /\ pc'[q] = pc[q] \/ (pc[q] = "verb_wait" /\ pc'[q] = "teardown")
        BY <1>3, <2>1 DEF GoesOn
      <3>2. j \in Ids /\ Exists(j)
        BY <1>5, <3>1 DEF IInv, ProcsOK, Handlers
      <3> QED
        BY <1>1, <1>2, <2>1, <3>1, <3>2 DEF RmAwaited, WaitLocs
    <2>2. CASE q = p
      <3>1. j = i /\ Exists(i) /\ w.name = NameOf[i]
        BY <1>4, <1>5, <2>2
      <3>2. pc'[p] \notin {"start_hook", "delete_hook"}
        BY <1>6, <1>7, <3>1, StepPast
      <3>3. ASSUME pc'[p] \in {"verb_wait", "teardown"}
            PROVE  FALSE
        <4>1. engines[i] # None /\ pc[p] \in {"verb_row", "delete_fence1"} /\ op[p] \in ClientVerbs
          BY <3>3, StepPast, DriverSteps
        <4>2. PICK r \in Procs : op[r] = "logout" /\ pc[r] = "teardown"
          BY <1>1, <1>2, <3>1, <4>1 DEF RmAlone
        <4>3. op[r] \in ClientVerbs /\ r # p
          BY <4>1, <4>2 DEF ClientVerbs
        <4> QED
          BY <4>1, <4>3 DEF Orderly, Alone
      <3> QED
        BY <1>1, <1>2, <2>2, <3>1, <3>2, <3>3
    <2> QED
      BY <2>1, <2>2
  <1> QED
    BY <1>8, <1>9, <1>10

\* So is the one a logout begins.
LEMMA BegunFits ==
  ASSUME Patient, IInv, Orderly, NEW p \in Procs, Step(p), NEW i \in Ids, NEW w \in wiping', Begun(i, w)
  PROVE  RmKnown(w)' /\ RmAlone(w)' /\ RmAwaited(w)'
  <1>1. IInv' /\ AllFit' /\ Alone'
    BY StepInv, HandlerStepFits
  <1>2. \A j \in Ids : NameOf[j] = NameOf[i] /\ Exists(j)' => j = i
    BY StepRows DEF Begun, Orderly, OneRow
  <1>3. PICK q \in Procs : /\ sid'[q] = i /\ op'[q] = "logout" /\ pc'[q] = "teardown" /\ eng'[q] # None
                           /\ engines'[i] \in {None, eng'[q]}
    BY DEF Begun
  <1>4. RmKnown(w)'
    BY DEF RmKnown, Begun
  <1>5. RmAlone(w)'
    BY <1>2, <1>3 DEF RmAlone, Begun
  <1>6. RmAwaited(w)'
    <2> SUFFICES ASSUME NEW r \in Procs, pc'[r] # "idle", NEW j, sid'[r] = j, NameOf[j] = w.name, Exists(j)'
                 PROVE  /\ pc'[r] \notin WaitLocs \cup {"start_hook", "verb_wait", "delete_hook"}
                        /\ pc'[r] = "teardown" => op'[r] = "logout"
      BY DEF RmAwaited, WaitLocs
    <2>1. j = i
      BY <1>1, <1>2 DEF Begun, IInv, ProcsOK, Handlers
    <2>2. CASE op'[r] \in ClientVerbs
      <3>1. r = q
        BY <1>1, <1>3, <2>2 DEF Alone, ClientVerbs
      <3> QED
        BY <1>3, <3>1 DEF WaitLocs
    <2>3. CASE op'[r] \notin ClientVerbs
      <3>1. op'[r] = "reconnect" /\ Fit(r)'
        BY <1>1, <2>3 DEF IInv, ProcsOK, Handlers, Ops, ClientVerbs, AllFit
      <3>2. pc'[r] # "reconnect_fence"
        BY <2>1, <3>1 DEF Begun
      <3> QED
        BY <3>1, <3>2 DEF Fit, Ahead, RetiredLocs, WaitLocs
    <2> QED
      BY <2>2, <2>3
  <1> QED
    BY <1>4, <1>5, <1>6

\* A handler's step keeps the invariant.
LEMMA StepOrderly ==
  ASSUME Patient, IInv, Orderly, NEW p \in Procs, Step(p)
  PROVE  Orderly'
  <1> DEFINE i == sid[p]
  <1>1. i \in Ids
    BY StepGoes, DriverSteps
  <1>2. RmsFit'
    <2> SUFFICES ASSUME NEW w \in wiping'
                 PROVE  RmKnown(w)' /\ RmAlone(w)' /\ RmAwaited(w)'
      BY DEF RmsFit
    <2> QED
      BY <1>1, StepCarries, CarriedFits, BegunFits
  <1>3. OneRow'
    BY StepRows DEF Orderly, OneRow
  <1> QED
    BY <1>2, <1>3, HandlerStepFits, StepHomes, StepAwaited, StepUnlaunched DEF Orderly

-----------------------------------------------------------------------------
\* An event that concerns one session, and no handler.
LEMMA EventOrderly ==
  ASSUME IInv, Orderly, UNCHANGED <<procVars, pendingInit, stopping>>, NEW i \in Ids,
         \A j \in Ids \ {i} :
           /\ LeftAlone(j)
           /\ engines[j] # None /\ estate'[engines[j]] = "down" => estate[engines[j]] = "down",
         \A q \in Procs : sid[q] = i => HandlerFits(q)',
         SessionFits(i)', engines'[i] \in {engines[i], None}, SameRow(i),
         reconnect[i] = None => reconnect'[i] = None,
         \A e \in Engines : estate'[e] = "alive" => estate[e] = "alive",
         wiping' \subseteq wiping
  PROVE  Orderly'
  <1>0. UNCHANGED <<pc, op, sid, eng>> /\ \A q \in Procs : GoesOn(q)
    BY DEF procVars, GoesOn
  <1>1. \A q \in Procs : pc[q] # "idle" => sid[q] \in Ids
    BY DEF IInv, ProcsOK, Handlers
  <1>2. \A q \in Procs : Fit(q)' /\ HandlerFits(q)'
    <2> SUFFICES ASSUME NEW q \in Procs
                 PROVE  Fit(q)' /\ HandlerFits(q)'
      OBVIOUS
    <2>1. Fit(q)'
      BY <1>0 DEF Fit, Orderly, AllFit
    <2>2. CASE sid[q] # i
      BY <1>0, <1>1, <2>2, HandlerApart
    <2> QED
      BY <2>1, <2>2
  <1>3. \A j \in Ids : SessionFits(j)'
    BY <1>0, SessionBeside
  <1>4. \A j \in Ids : /\ Exists(j)' <=> Exists(j)
                       /\ engines'[j] \in {engines[j], None}
                       /\ reconnect[j] = None => reconnect'[j] = None
    BY DEF SameRow, LeftAlone
  <1>5. Alone'
    BY <1>0 DEF Orderly, Alone, Drives
  <1>6. Homes'
    BY <1>0, <1>4, HomesKept DEF Orderly, Evicts
  <1>7. Awaited' /\ OneRow'
    BY <1>0, <1>4 DEF Orderly, Awaited, OneRow
  <1>8. Unlaunched'
    BY <1>0 DEF Orderly, Unlaunched, IInv, ProcsOK, Handlers, HoldsEngine
  <1>9. RmsFit'
    <2> SUFFICES ASSUME NEW w \in wiping'
                 PROVE  RmKnown(w)' /\ RmAlone(w)' /\ RmAwaited(w)'
      BY DEF RmsFit
    <2>1. RmKnown(w) /\ RmAlone(w) /\ RmAwaited(w)
      BY DEF Orderly, RmsFit
    <2>2. RmKnown(w)' /\ RmAlone(w)'
      BY <1>0, <1>4, <2>1 DEF RmKnown, RmAlone
    <2>3. RmAwaited(w)'
      BY <1>0, <1>1, <1>4, <2>1 DEF RmAwaited
    <2> QED
      BY <2>2, <2>3
  <1> QED
    BY <1>2, <1>3, <1>5, <1>6, <1>7, <1>8, <1>9 DEF Orderly, AllFit

\* Beside a live engine that nobody is closing, the driver of its session is at a row read or
\* in the initialize() of that engine.
LEMMA DriverOfLive ==
  ASSUME IInv, Orderly, NEW q \in Procs, NEW i \in Ids, sid[q] = i, Drives(q), EngineUp(i), ~Torn(engines[i])
  PROVE  /\ pc[q] \in {"start_row", "post_row", "init_run"}
         /\ pc[q] = "init_run" => eng[q] = engines[i]
  <1>1. Fit(q) /\ OwnsSlot(q) /\ pc[q] \in Locations /\ pc[q] # "idle" /\ op[q] \in {"start", "reconnect"}
    BY AtStep DEF Drives, IInv, ProcsOK, Handlers
  <1>2. engines[i] # None /\ estate[engines[i]] = "alive"
    BY DEF EngineUp
  <1>3. pc[q] \notin FreeLocs /\ (pc[q] # "start_row" => eng[q] = engines[i])
    BY <1>1, <1>2 DEF OwnsSlot, Drives
  <1>4. pc[q] \notin Killing
    BY <1>3 DEF Torn, Killing
  <1>5. pc[q] # "init_write"
    BY <1>2, <1>3 DEF Orderly, Unlaunched
  <1> QED
    BY <1>1, <1>3, <1>4, <1>5 DEF Fit, RetiredLocs, FreeLocs, Killing, Locations

\* A live engine is ready, or reports a status: no timer and no loss comes of it.
LEMMA ReportOrderly ==
  ASSUME Patient, IInv, Orderly, NEW i \in Ids, EngineReady(i) \/ EngineState(i)
  PROVE  Orderly'
  <1>0. reconnect \in [Ids -> [attempts : Nat, armed : BOOLEAN] \cup {None}]
    BY DEF IInv, ReconnectOK
  <1>1. UNCHANGED <<row, engines, stopping, pendingInit, estate, wiping, lost, procVars>>
    BY DEF EngineReady, EngineState
  <1>2. /\ \A j \in Ids \ {i} : reconnect'[j] = reconnect[j]
        /\ reconnect'[i] = None <=> reconnect[i] = None
        /\ Armed(i)' <=> Armed(i)
    <2>1. CASE EngineState(i)
      BY <2>1 DEF EngineState, Armed
    <2>2. CASE EngineReady(i) /\ reconnect[i] = None
      BY <1>0, <2>2 DEF EngineReady, Armed
    <2>3. CASE EngineReady(i) /\ reconnect[i] # None
      <3>1. reconnect[i] \in [attempts : Nat, armed : BOOLEAN]
        BY <1>0, <2>3
      <3>2. reconnect' = [reconnect EXCEPT ![i] = [reconnect[i] EXCEPT !.attempts = 0]]
        BY <2>3 DEF EngineReady
      <3>3. /\ reconnect'[i] = [reconnect[i] EXCEPT !.attempts = 0]
            /\ \A j \in Ids \ {i} : reconnect'[j] = reconnect[j]
        BY <1>0, <3>2
      <3>4. reconnect'[i] \in [attempts : Nat, armed : BOOLEAN] /\ reconnect'[i].armed = reconnect[i].armed
        BY <3>1, <3>3
      <3> QED
        BY <2>3, <3>3, <3>4, ConstantsAssumption DEF Armed
    <2> QED
      BY <2>1, <2>2, <2>3
  <1>3. \A j \in Ids \ {i} : LeftAlone(j)
    BY <1>1, <1>2 DEF LeftAlone, Exists
  <1>4. SameRow(i)
    BY <1>1 DEF SameRow, Exists
  <1>5. UNCHANGED <<pc, op, sid, eng>>
    BY <1>1 DEF procVars
  <1>6. \A q \in Procs : sid[q] = i => HandlerFits(q)'
    <2> SUFFICES ASSUME NEW q \in Procs, sid[q] = i
                 PROVE  HandlerFits(q)'
      OBVIOUS
    <2>1. HandlerFits(q)
      BY DEF Orderly, AllFit
    <2>2. OwnsSlot(q)'
      BY <1>1, <1>5, <2>1 DEF HandlerFits, OwnsSlot, Drives
    <2>3. NoTimer(q)'
      BY <1>1, <1>2, <1>5, <2>1 DEF HandlerFits, NoTimer, NoLiveLoss, Drives
    <2>4. Knows(q)' /\ HasBudget(q)'
      BY <1>1, <1>2, <1>5, <2>1 DEF HandlerFits, Knows, HasBudget, Doomed, Exists
    <2> QED
      BY <2>2, <2>3, <2>4 DEF HandlerFits
  <1>7. SessionFits(i)'
    <2>1. SessionFits(i)
      BY DEF Orderly, AllFit
    <2>2. BeingRemoved(i)'
      BY <1>1, <1>5, <2>1 DEF SessionFits, BeingRemoved, Removes, Doomed, Exists
    <2>3. Budgeted(i)' /\ Tended(i)' /\ Unborn(i)'
      BY <1>1, <1>2, <1>5, <2>1 DEF SessionFits, Budgeted, Tended, Unborn, Doomed, Exists
    <2> QED
      BY <2>2, <2>3 DEF SessionFits
  <1> QED
    BY <1>1, <1>2, <1>3, <1>4, <1>6, <1>7, EventOrderly

\* A live engine reports its loss: no handler of its session minds, and somebody is to handle it.
LEMMA LossOrderly ==
  ASSUME Patient, IInv, Orderly, NEW i \in Ids, EngineLost(i)
  PROVE  Orderly'
  <1> DEFINE e == engines[i]
  <1>0. /\ estate \in [Engines -> EngineStates] /\ engines \in [Ids -> Engines \cup {None}]
        /\ e \in Engines /\ e # None
    BY ConstantsAssumption DEF IInv, EnginesOK, EngineLost, EngineUp
  <1>1. /\ UNCHANGED <<row, engines, stopping, reconnect, pendingInit, wiping, procVars>>
        /\ UNCHANGED <<pc, op, sid, eng>>
    BY DEF EngineLost, procVars
  <1>2. /\ lost' = lost \cup {<<i, e>>}
        /\ estate' = estate \/ estate' = [estate EXCEPT ![e] = "down"]
    BY DEF EngineLost
  <1>3. EngineUp(i) /\ ~Torn(e) /\ \A q \in Procs : eng[q] = e => pc[q] # "init_run"
    BY DEF EngineLost, Patient
  <1>4. \A j \in Ids \ {i} : engines[j] # e
    BY <1>0 DEF Orderly, Homes
  <1> HIDE DEF e
  <1>5. \A j \in Ids \ {i} : LeftAlone(j)
    BY <1>1, <1>2 DEF LeftAlone, Exists
  <1>6. \A j \in Ids \ {i} : engines[j] # None /\ estate'[engines[j]] = "down" => estate[engines[j]] = "down"
    BY <1>0, <1>2, <1>4
  <1>7. \A f \in Engines : estate'[f] = "alive" => estate[f] = "alive"
    BY <1>0, <1>2
  <1>8. SameRow(i)
    BY <1>1 DEF SameRow, Exists
  <1>9. \A q \in Procs : sid[q] = i => HandlerFits(q)'
    <2> SUFFICES ASSUME NEW q \in Procs, sid[q] = i
                 PROVE  HandlerFits(q)'
      OBVIOUS
    <2>1. HandlerFits(q)
      BY DEF Orderly, AllFit
    <2>2. OwnsSlot(q)' /\ Knows(q)' /\ HasBudget(q)'
      BY <1>1, <2>1 DEF HandlerFits, OwnsSlot, Knows, HasBudget, Drives, Doomed, Exists
    <2>3. Drives(q) => pc[q] \in {"start_row", "post_row"}
      BY <1>3, DriverOfLive DEF e
    <2>4. NoTimer(q)'
      BY <1>1, <2>1, <2>3 DEF HandlerFits, NoTimer, Drives, Armed
    <2> QED
      BY <2>2, <2>4 DEF HandlerFits
  <1>10. SessionFits(i)'
    <2>1. SessionFits(i)
      BY DEF Orderly, AllFit
    <2>2. BeingRemoved(i)' /\ Budgeted(i)' /\ Unborn(i)'
      BY <1>1, <2>1 DEF SessionFits, BeingRemoved, Removes, Budgeted, Unborn, Doomed, Exists
    <2>3. Tended(i)'
      BY <1>1, <1>2 DEF Tended, e
    <2> QED
      BY <2>2, <2>3 DEF SessionFits
  <1> QED
    BY <1>1, <1>5, <1>6, <1>7, <1>8, <1>9, <1>10, EventOrderly

\* A live engine is given up on (onError, or an exhausted budget) and leaves the registry: it
\* was not being reconnected.
LEMMA GivenUp ==
  ASSUME Patient, IInv, Orderly, NEW i \in Ids, UNCHANGED <<row, stopping, pendingInit, wiping, procVars>>,
         engines[i] # None, engines' = [engines EXCEPT ![i] = None], estate' = Reaping(estate, engines[i]),
         reconnect' = [reconnect EXCEPT ![i] = None],
         lost' \subseteq lost, \A j \in Ids \ {i}, e \in Engines : <<j, e>> \in lost => <<j, e>> \in lost',
         \A q \in Procs : sid[q] = i /\ Drives(q) => pc[q] # "reconnect_kill"
  PROVE  Orderly'
  <1>0. /\ estate \in [Engines -> EngineStates] /\ engines \in [Ids -> Engines \cup {None}]
        /\ reconnect \in [Ids -> [attempts : Nat, armed : BOOLEAN] \cup {None}]
        /\ UNCHANGED <<pc, op, sid, eng>>
    BY DEF IInv, EnginesOK, ReconnectOK, procVars
  <1>1. engines'[i] = None /\ reconnect'[i] = None
    BY <1>0
  <1>2. \A f \in Engines : /\ estate'[f] = "alive" => estate[f] = "alive"
                           /\ estate'[f] = "down" => estate[f] = "down"
    BY <1>0 DEF Reaping
  <1>3. \A j \in Ids \ {i} : LeftAlone(j)
    BY <1>0 DEF LeftAlone, Exists
  <1>4. \A j \in Ids \ {i} : engines[j] # None /\ estate'[engines[j]] = "down" => estate[engines[j]] = "down"
    BY <1>0, <1>2
  <1>5. SameRow(i)
    BY DEF SameRow, Exists
  <1>6. \A q \in Procs : sid[q] = i => HandlerFits(q)'
    <2> SUFFICES ASSUME NEW q \in Procs, sid[q] = i
                 PROVE  HandlerFits(q)'
      OBVIOUS
    <2>1. HandlerFits(q) /\ Fit(q)
      BY DEF Orderly, AllFit
    <2>2. OwnsSlot(q)' /\ Knows(q)'
      BY <1>0, <1>1, <2>1 DEF HandlerFits, OwnsSlot, Knows, Drives, Exists
    <2>3. NoTimer(q)'
      BY <1>0, <1>1 DEF NoTimer, Drives, Armed
    <2>4. pc[q] \notin {"reconnect_kill", "reconnect_fence"}
      BY <2>1, DriverSteps DEF FreeLocs
    <2>5. HasBudget(q)'
      BY <1>0, <2>4 DEF HasBudget
    <2> QED
      BY <2>2, <2>3, <2>5 DEF HandlerFits
  <1>7. SessionFits(i)'
    <2>1. row[i] # "unborn"
      BY DEF Orderly, AllFit, SessionFits, Unborn
    <2> QED
      BY <1>1, <2>1 DEF SessionFits, BeingRemoved, Budgeted, Tended, Unborn
  <1> QED
    BY <1>1, <1>2, <1>3, <1>4, <1>5, <1>6, <1>7, EventOrderly

\* A live engine reports a terminal failure.
LEMMA ErrorOrderly ==
  ASSUME Patient, IInv, Orderly, NEW i \in Ids, EngineError(i)
  PROVE  Orderly'
  <1>1. EngineUp(i) /\ ~Torn(engines[i]) /\ engines[i] # None
    BY DEF EngineError, EngineUp, Patient
  <1>2. \A q \in Procs : sid[q] = i /\ Drives(q) => pc[q] # "reconnect_kill"
    BY <1>1, DriverOfLive
  <1> QED
    BY <1>1, <1>2, GivenUp DEF EngineError, OnError, CancelReconnect

\* The handler of a loss: only an engine that is still the live one is given up on or gets a
\* reconnect timer, and then no driver of its session is under way.
LEMMA HandledOrderly ==
  ASSUME Patient, IInv, Orderly, NEW i \in Ids, NEW e \in Engines, HandleLost(i, e)
  PROVE  Orderly'
  <1>0. /\ estate \in [Engines -> EngineStates] /\ engines \in [Ids -> Engines \cup {None}]
        /\ reconnect \in [Ids -> [attempts : Nat, armed : BOOLEAN] \cup {None}]
        /\ e # None /\ <<i, e>> \in lost
    BY ConstantsAssumption DEF IInv, EnginesOK, ReconnectOK, HandleLost
  <1>1. /\ UNCHANGED <<row, stopping, pendingInit, wiping, procVars>>
        /\ UNCHANGED <<pc, op, sid, eng>>
    BY DEF HandleLost, procVars
  <1>2. lost' = lost \ {<<i, e>>}
    BY DEF HandleLost
  <1>3. /\ lost' \subseteq lost
        /\ \A j \in Ids \ {i}, f \in Engines : <<j, f>> \in lost => <<j, f>> \in lost'
        /\ \A f \in Engines : <<i, f>> \in lost /\ f # e => <<i, f>> \in lost'
    BY <1>2
  <1>4. CASE Exists(i) /\ Live(i, e) /\ CancelReconnect(i) /\ reconnect[i] # None
             /\ engines' = [engines EXCEPT ![i] = None] /\ estate' = Reaping(estate, engines[i])
    <2>1. \A q \in Procs : sid[q] = i /\ Drives(q) => pc[q] # "reconnect_kill"
      BY <1>0, <1>4, AtStep DEF NoTimer, NoLiveLoss, Live
    <2> QED
      BY <1>0, <1>1, <1>3, <1>4, <2>1, GivenUp DEF CancelReconnect, Live
  <1>5. CASE /\ UNCHANGED <<engines, estate>>
             /\ \/ reconnect' = reconnect /\ (Exists(i) /\ Live(i, e) => reconnect[i] = None)
                \/ /\ Exists(i) /\ Live(i, e) /\ reconnect[i] # None
                   /\ \E n \in Nat : reconnect' = [reconnect EXCEPT ![i] = [attempts |-> n, armed |-> TRUE]]
    <2>1. \A j \in Ids \ {i} : LeftAlone(j)
      BY <1>0, <1>1, <1>3, <1>5 DEF LeftAlone, Exists
    <2>2. SameRow(i)
      BY <1>1 DEF SameRow, Exists
    <2>3. SessionFits(i)
      BY DEF Orderly, AllFit
    <2>4. CASE reconnect' = reconnect /\ (Exists(i) /\ Live(i, e) => reconnect[i] = None)
      <3>1. \A q \in Procs : sid[q] = i => HandlerFits(q)'
        <4> SUFFICES ASSUME NEW q \in Procs, sid[q] = i
                     PROVE  HandlerFits(q)'
          OBVIOUS
        <4>1. HandlerFits(q)
          BY DEF Orderly, AllFit
        <4>2. OwnsSlot(q)' /\ Knows(q)' /\ HasBudget(q)'
          BY <1>1, <1>5, <2>4, <4>1 DEF HandlerFits, OwnsSlot, Knows, HasBudget, Drives, Doomed, Exists
        <4>3. NoTimer(q)'
          BY <1>1, <1>3, <1>5, <2>4, <4>1 DEF HandlerFits, NoTimer, NoLiveLoss, Armed, Drives
        <4> QED
          BY <4>2, <4>3 DEF HandlerFits
      <3>2. BeingRemoved(i)' /\ Budgeted(i)' /\ Unborn(i)'
        BY <1>1, <1>5, <2>3, <2>4 DEF SessionFits, BeingRemoved, Removes, Budgeted, Unborn, Doomed, Exists
      <3>3. Tended(i)'
        <4>1. CASE engines[i] = e
          BY <1>0, <1>1, <1>5, <2>3, <2>4, <4>1 DEF SessionFits, Budgeted, Tended, Doomed, Live, Exists
        <4>2. CASE engines[i] # e
          BY <1>0, <1>1, <1>3, <1>5, <2>3, <2>4, <4>2 DEF SessionFits, Tended, Armed, Doomed, Exists
        <4> QED
          BY <4>1, <4>2
      <3>4. SessionFits(i)'
        BY <3>2, <3>3 DEF SessionFits
      <3> QED
        BY <1>1, <1>5, <2>1, <2>2, <2>4, <3>1, <3>4, EventOrderly
    <2>5. CASE /\ Exists(i) /\ Live(i, e) /\ reconnect[i] # None
               /\ \E n \in Nat : reconnect' = [reconnect EXCEPT ![i] = [attempts |-> n, armed |-> TRUE]]
      <3>0. reconnect'[i] # None /\ engines[i] = e
        <4>1. PICK n \in Nat : reconnect' = [reconnect EXCEPT ![i] = [attempts |-> n, armed |-> TRUE]]
          BY <2>5
        <4>2. [attempts |-> n, armed |-> TRUE] \in [attempts : Nat, armed : BOOLEAN]
          OBVIOUS
        <4>3. [attempts |-> n, armed |-> TRUE] # None
          BY <4>2, ConstantsAssumption
        <4>4. reconnect'[i] = [attempts |-> n, armed |-> TRUE]
          BY <1>0, <4>1
        <4> QED
          BY <2>5, <4>3, <4>4 DEF Live
      <3>1. \A q \in Procs : sid[q] = i => HandlerFits(q)'
        <4> SUFFICES ASSUME NEW q \in Procs, sid[q] = i
                     PROVE  HandlerFits(q)'
          OBVIOUS
        <4>1. HandlerFits(q)
          BY DEF Orderly, AllFit
        <4>2. OwnsSlot(q)' /\ Knows(q)' /\ HasBudget(q)'
          BY <1>1, <1>5, <2>5, <3>0, <4>1 DEF HandlerFits, OwnsSlot, Knows, HasBudget, Drives, Exists
        <4>3. Drives(q) => pc[q] \in {"start_row", "post_row"}
          BY <1>0, <2>5, <3>0, <4>1 DEF HandlerFits, NoTimer, NoLiveLoss
        <4>4. NoTimer(q)'
          BY <1>0, <1>1, <1>5, <3>0, <4>3 DEF NoTimer, Drives
        <4> QED
          BY <4>2, <4>4 DEF HandlerFits
      <3>2. BeingRemoved(i)'
        BY <1>1, <1>5, <2>3 DEF SessionFits, BeingRemoved, Removes, Doomed, Exists
      <3>3. Budgeted(i)' /\ Unborn(i)' /\ Tended(i)'
        <4>1. Exists(i)' /\ row'[i] # "unborn"
          BY <1>1, <2>5 DEF Exists, NoRow
        <4>2. Armed(i)'
          BY <1>0, <2>5, <3>0 DEF Armed
        <4> QED
          BY <3>0, <4>1, <4>2 DEF Budgeted, Unborn, Tended
      <3>4. SessionFits(i)'
        BY <3>2, <3>3 DEF SessionFits
      <3> QED
        BY <1>1, <1>5, <2>1, <2>2, <2>5, <3>1, <3>4, EventOrderly
    <2> QED
      BY <1>5, <2>4, <2>5
  <1>6. CASE UNCHANGED <<engines, estate, reconnect>> /\ ~(Exists(i) /\ Live(i, e))
    BY <1>5, <1>6
  <1>7. CASE Exists(i) /\ Live(i, e) /\ ScheduleReconnect(i, engines, estate, Append(writes, StatusWrite(i, "disconnected", None)))
    <2>1. CASE reconnect[i] = None
      BY <1>5, <1>7, <2>1 DEF ScheduleReconnect
    <2>2. CASE reconnect[i] # None
      <3>1. PICK n \in {reconnect[i].attempts, 0} :
              \/ /\ engines' = [engines EXCEPT ![i] = None] /\ estate' = Reaping(estate, engines[i])
                 /\ CancelReconnect(i)
              \/ /\ reconnect' = [reconnect EXCEPT ![i] =
                      [attempts |-> IF MaxAttempts = None THEN 0 ELSE n + 1, armed |-> TRUE]]
                 /\ engines' = engines /\ estate' = estate
        BY <1>7, <2>2 DEF ScheduleReconnect
      <3>2. n \in Nat
        BY <1>0, <2>2
      <3>3. (IF MaxAttempts = None THEN 0 ELSE n + 1) \in Nat
        BY <3>2
      <3> QED
        BY <1>4, <1>5, <1>7, <2>2, <3>1, <3>3
    <2> QED
      BY <2>1, <2>2
  <1> QED
    BY <1>6, <1>7 DEF HandleLost, Patient

\* Nothing of this concerns a session: an evicted engine's process ends or stays behind, an rm
\* is over, a status UPDATE nobody awaits lands.
LEMMA BackgroundOrderly ==
  ASSUME Patient, IInv, Orderly,
         \/ \E e \in Engines : Reap(e)
         \/ \E n \in leaked : LeftBehind(n)
         \/ (\E w \in wiping : WipeSettles(w)) \/ WriteSettles
  PROVE  Orderly'
  <1>0. estate \in [Engines -> EngineStates] /\ \A w \in wiping : w.tracked
    BY DEF IInv, EnginesOK, Orderly, RmsFit, RmKnown
  <1>1. /\ UNCHANGED <<engines, stopping, reconnect, pendingInit, lost, procVars>> /\ NoneFalls
        /\ \A e \in Engines : estate'[e] = "alive" => estate[e] = "alive"
        /\ wiping' \subseteq wiping
    BY <1>0 DEF Reap, Closed, LeftBehind, WipeSettles, WriteSettles, NoneFalls
  <1>2. \A j \in Ids : SameRow(j)
    <2>1. CASE UNCHANGED row
      BY <2>1 DEF SameRow, Exists
    <2>2. CASE WriteSettles
      BY <2>2, LandsRows DEF WriteSettles, Settled, SameRow
    <2> QED
      BY <2>1, <2>2 DEF Reap, LeftBehind, WipeSettles
  <1>3. UNCHANGED <<pc, op, sid, eng>>
    BY <1>1 DEF procVars
  <1>4. \A j \in Ids : LeftAlone(j)
    BY <1>1, <1>2 DEF LeftAlone, SameRow
  <1>5. \A j \in Ids : engines[j] # None /\ estate'[engines[j]] = "down" => estate[engines[j]] = "down"
    BY <1>1 DEF IInv, EnginesOK, NoneFalls
  <1>6. \A q \in Procs : GoesOn(q)
    BY <1>3 DEF GoesOn
  <1>7. \A q \in Procs : Fit(q)' /\ HandlerFits(q)'
    BY <1>4, <1>6, HandlerApart DEF IInv, ProcsOK, Handlers
  <1>8. \A j \in Ids : SessionFits(j)'
    BY <1>4, <1>5, <1>6, SessionBeside
  <1>9. CASE Ids # {}
    <2>1. PICK i \in Ids : TRUE
      BY <1>9
    <2> QED
      BY <1>1, <1>2, <1>4, <1>5, <1>7, <1>8, EventOrderly
  <1>10. CASE Ids = {}
    <2>1. \A q \in Procs : pc[q] = "idle" /\ pc'[q] = "idle"
      BY <1>3, <1>10 DEF IInv, ProcsOK, Handlers
    <2>2. Alone' /\ Homes' /\ Awaited' /\ Unlaunched' /\ OneRow'
      BY <1>1, <1>3, <1>10, <2>1 DEF Orderly, Alone, Drives, Homes, Awaited, Unlaunched, OneRow
    <2>3. RmsFit'
      BY <1>1, <1>3, <1>10, <2>1 DEF Orderly, RmsFit, RmKnown, RmAlone, RmAwaited
    <2> QED
      BY <1>7, <1>8, <2>2, <2>3 DEF Orderly, AllFit
  <1> QED
    BY <1>9, <1>10

-----------------------------------------------------------------------------
\* A new session has no engine, no reconnect state and no handler.
LEMMA CreateOrderly ==
  ASSUME Patient, IInv, Orderly, NEW i \in Ids, Create(i)
  PROVE  Orderly'
  <1>0. /\ row \in [Ids -> Statuses \cup NoRow] /\ row[i] = "unborn"
        /\ UNCHANGED <<engines, stopping, reconnect, pendingInit, estate, wiping, lost>>
        /\ UNCHANGED <<pc, op, sid, eng>>
        /\ row' = [row EXCEPT ![i] = "created"]
        /\ \A j \in Ids : NameOf[j] = NameOf[i] => ~Exists(j)
    BY DEF IInv, RowsOK, Create, procVars
  <1>1. engines[i] = None /\ reconnect[i] = None /\ \A q \in Procs : sid[q] # i
    BY <1>0 DEF Orderly, AllFit, SessionFits, Unborn
  <1>2. \A j \in Ids \ {i} : LeftAlone(j)
    BY <1>0 DEF LeftAlone, Exists
  <1>3. NoneFalls /\ \A q \in Procs : GoesOn(q)
    BY <1>0 DEF NoneFalls, GoesOn
  <1>4. \A q \in Procs : pc[q] # "idle" => sid[q] \in Ids \ {i}
    BY <1>1 DEF IInv, ProcsOK, Handlers
  <1>5. \A q \in Procs : Fit(q)' /\ HandlerFits(q)'
    BY <1>2, <1>3, <1>4, HandlerApart
  <1>6. SessionFits(i)'
    BY <1>0, <1>1 DEF SessionFits, BeingRemoved, Budgeted, Tended, Unborn
  <1>7. \A j \in Ids : SessionFits(j)'
    BY <1>2, <1>3, <1>6, SessionApart
  <1>8. Alone' /\ Homes' /\ Awaited' /\ Unlaunched'
    BY <1>0 DEF Orderly, Alone, Drives, Homes, Awaited, Unlaunched
  <1>9. \A j \in Ids \ {i} : Exists(j)' <=> Exists(j)
    BY <1>2 DEF LeftAlone
  <1>10. OneRow'
    BY <1>0, <1>9 DEF Orderly, OneRow
  <1>11. RmsFit'
    <2> SUFFICES ASSUME NEW w \in wiping
                 PROVE  RmKnown(w)' /\ RmAlone(w)' /\ RmAwaited(w)'
      BY <1>0 DEF RmsFit
    <2>1. RmKnown(w) /\ RmAlone(w) /\ RmAwaited(w)
      BY DEF Orderly, RmsFit
    <2>2. RmKnown(w)' /\ RmAlone(w)'
      BY <1>0, <1>1, <1>9, <2>1 DEF RmKnown, RmAlone
    <2>3. RmAwaited(w)'
      BY <1>0, <1>4, <1>9, <2>1 DEF RmAwaited
    <2> QED
      BY <2>2, <2>3
  <1> QED
    BY <1>5, <1>7, <1>8, <1>10, <1>11 DEF Orderly, AllFit

\* A client sends its next verb: no other is in flight, and a start meets no reconnect attempt
\* and no timer.
LEMMA RequestOrderly ==
  ASSUME Patient, IInv, Orderly, NEW p \in Procs, NEW v \in Verbs, NEW i \in Ids, Request(p, v, i)
  PROVE  Orderly'
  <1>0. /\ pc \in [Procs -> Locations] /\ op \in [Procs -> Ops] /\ sid \in [Procs -> Ids \cup {None}]
        /\ stopping \subseteq Ids /\ v \in ClientVerbs
        /\ Exists(i) \/ row[i] = "deleted"
        /\ row[i] # "unborn"
    BY ConstantsAssumption DEF IInv, ProcsOK, RowsOK, Request, Exists, NoRow, ClientVerbs
  <1>1. /\ pc[p] = "idle" /\ pc'[p] = IF v = "start" THEN "start_row" ELSE "verb_row"
        /\ op'[p] = v /\ sid'[p] = i
        /\ \A q \in Procs \ {p} : pc'[q] = pc[q] /\ op'[q] = op[q] /\ sid'[q] = sid[q]
        /\ UNCHANGED <<row, engines, reconnect, pendingInit, estate, wiping, lost, eng>>
    BY <1>0 DEF Request
  <1>2. eng[p] = None /\ sid[p] = None /\ op[p] = "none"
    BY <1>1 DEF Orderly, AllFit, Fit, IInv, ProcsOK, Handlers
  <1>3. stopping' = IF v \in {"stop", "delete"} THEN stopping \cup {i} ELSE stopping
    BY DEF Request
  <1>4. /\ \A q \in Procs : op[q] \in {"none", "reconnect"}
        /\ v = "start" => (\A q \in Procs : sid[q] # i) /\ ~Armed(i)
    BY DEF Request, ClientsFree, Patient
  <1>5. \A q \in Procs \ {p} : GoesOn(q)
    BY <1>1 DEF GoesOn
  <1>6. NoneFalls /\ \A j \in Ids \ {i} : LeftAlone(j)
    BY <1>1, <1>3 DEF NoneFalls, LeftAlone, Exists
  <1>7. Doomed(i) => Doomed(i)'
    BY <1>1, <1>3 DEF Doomed, Exists
  <1>8. Fit(p)' /\ HandlerFits(p)'
    <2>1. Fit(p)'
      BY <1>0, <1>1 DEF Fit, ClientVerbs, Ahead, DriverLocs, RetiredLocs
    <2>2. OwnsSlot(p)' /\ NoTimer(p)'
      <3>1. CASE v = "start"
        <4>1. pc'[p] = "start_row" /\ ~Armed(i)'
          BY <1>1, <1>4, <3>1 DEF Armed
        <4> QED
          BY <1>1, <4>1 DEF OwnsSlot, NoTimer, FreeLocs
      <3>2. CASE v # "start"
        <4>1. ~Drives(p)'
          BY <1>0, <1>1, <3>2 DEF Drives, ClientVerbs
        <4> QED
          BY <4>1 DEF OwnsSlot, NoTimer
      <3> QED
        BY <3>1, <3>2
    <2>3. Knows(p)' /\ HasBudget(p)'
      BY <1>1, <1>3 DEF Knows, HasBudget, RetiredLocs
    <2> QED
      BY <2>1, <2>2, <2>3 DEF HandlerFits
  <1>9. ASSUME NEW q \in Procs \ {p}
        PROVE  Fit(q)' /\ HandlerFits(q)'
    <2>1. CASE pc[q] # "idle" => sid[q] # i
      BY <1>5, <1>6, <2>1, HandlerApart DEF IInv, ProcsOK, Handlers
    <2>2. CASE pc[q] # "idle" /\ sid[q] = i
      <3>1. op[q] = "reconnect" /\ Fit(q) /\ HandlerFits(q)
        BY <1>4, <2>2 DEF IInv, ProcsOK, Handlers, Orderly, AllFit
      <3>2. Fit(q)'
        BY <1>1, <3>1 DEF Fit
      <3>3. OwnsSlot(q)' /\ NoTimer(q)' /\ HasBudget(q)'
        BY <1>1, <1>7, <2>2, <3>1 DEF HandlerFits, OwnsSlot, NoTimer, NoLiveLoss, HasBudget, Drives, Armed
      <3>4. Knows(q)'
        BY <1>1, <3>1 DEF Knows, Fit, RetiredLocs, ClientVerbs
      <3> QED
        BY <3>2, <3>3, <3>4 DEF HandlerFits
    <2> QED
      BY <2>1, <2>2
  <1>10. SessionFits(i)'
    <2>1. SessionFits(i)
      BY DEF Orderly, AllFit
    <2>2. BeingRemoved(i)'
      <3> SUFFICES ASSUME Doomed(i)', engines[i] # None
                   PROVE  \E q \in Procs : sid'[q] = i /\ Removes(q, i)'
        BY <1>1 DEF BeingRemoved
      <3>1. CASE Doomed(i)
        <4>1. PICK q \in Procs : sid[q] = i /\ Removes(q, i)
          BY <2>1, <3>1 DEF SessionFits, BeingRemoved
        <4>2. q # p
          BY <1>2, <4>1, ConstantsAssumption
        <4>3. sid'[q] = i /\ Removes(q, i)'
          BY <1>1, <4>1, <4>2 DEF Removes, Exists
        <4> QED
          BY <4>3
      <3>2. CASE ~Doomed(i)
        <4>1. v \in {"stop", "delete"} /\ Exists(i)
          BY <1>1, <1>3, <3>2 DEF Doomed, Exists
        <4>2. sid'[p] = i /\ Removes(p, i)'
          BY <1>1, <4>1 DEF Removes, Exists
        <4> QED
          BY <4>2
      <3> QED
        BY <3>1, <3>2
    <2>3. Budgeted(i)' /\ Unborn(i)'
      BY <1>0, <1>1, <1>7, <2>1 DEF SessionFits, Budgeted, Unborn, Exists
    <2>4. Tended(i)'
      BY <1>1, <1>2, <1>7, <2>1 DEF SessionFits, Tended, Armed
    <2> QED
      BY <2>2, <2>3, <2>4 DEF SessionFits
  <1>11. \A j \in Ids : SessionFits(j)'
    BY <1>1, <1>2, <1>5, <1>6, <1>10, SessionApart, ConstantsAssumption
  <1>12. Alone'
    <2>1. \A q \in Procs \ {p} : op'[q] \notin ClientVerbs
      BY <1>1, <1>4 DEF ClientVerbs
    <2>2. \A q \in Procs \ {p} : v = "start" => sid'[q] # i
      BY <1>1, <1>4
    <2>3. Drives(p)' => v = "start"
      BY <1>0, <1>1 DEF Drives, ClientVerbs
    <2> QED
      BY <1>1, <2>1, <2>2, <2>3 DEF Orderly, Alone, Drives
  <1>13. Homes'
    BY <1>1, <1>2, HomesKept DEF Orderly, Evicts
  <1>14. Awaited' /\ Unlaunched' /\ OneRow'
    <2>1. Awaited'
      BY <1>1 DEF Orderly, Awaited
    <2>2. Unlaunched' /\ OneRow'
      BY <1>1 DEF Orderly, Unlaunched, OneRow, Exists
    <2> QED
      BY <2>1, <2>2
  <1>15. RmsFit'
    <2> SUFFICES ASSUME NEW w \in wiping
                 PROVE  RmKnown(w)' /\ RmAlone(w)' /\ RmAwaited(w)'
      BY <1>1 DEF RmsFit
    <2>1. RmKnown(w) /\ RmAlone(w) /\ RmAwaited(w) /\ w.waiters \subseteq Procs
      BY DEF Orderly, RmsFit, IInv, WipingOK
    <2>2. RmKnown(w)'
      BY <1>1, <2>1 DEF RmKnown
    <2>3. RmAlone(w)'
      BY <1>1, <2>1 DEF RmAlone, Exists
    <2>4. RmAwaited(w)'
      BY <1>1, <2>1 DEF RmAwaited, Exists
    <2> QED
      BY <2>2, <2>3, <2>4
  <1> QED
    BY <1>8, <1>9, <1>11, <1>12, <1>13, <1>14, <1>15 DEF Orderly, AllFit

\* The handlers of a session whose timer fires: none drives it, and none has retired it.
LEMMA FiringFinds ==
  ASSUME Patient, IInv, Orderly, NEW i \in Ids, Armed(i),
         \A q \in Procs : pc[q] \notin {"start_row", "verb_row", "post_row", "purge_id", "purge_name"}
  PROVE  /\ Exists(i) /\ reconnect[i] # None
         /\ \A q \in Procs : sid[q] = i => ~Drives(q) /\ pc[q] \notin RetiredLocs
         /\ \A w \in wiping : w.name # NameOf[i]
  <1>1. Exists(i) /\ reconnect[i] # None
    BY DEF Armed, Orderly, AllFit, SessionFits, Budgeted
  <1>2. ASSUME NEW q \in Procs, sid[q] = i
        PROVE  ~Drives(q) /\ pc[q] \notin RetiredLocs
    BY <1>1, <1>2, AtStep DEF NoTimer, Knows
  <1>3. \A w \in wiping : w.name # NameOf[i]
    BY <1>1 DEF Orderly, RmsFit, RmAlone
  <1> QED
    BY <1>1, <1>2, <1>3

\* Beside what fires, the verbs at their first fence stay in order.
LEMMA FiringBeside ==
  ASSUME IInv, Orderly, NEW i \in Ids, NEW q \in Procs, sid[q] = i, GoesOn(q), ~Drives(q), pc[q] \notin RetiredLocs,
         UNCHANGED <<stopping, row>>, reconnect'[i] # None
  PROVE  Fit(q)' /\ HandlerFits(q)'
  <1>1. Fit(q) /\ HandlerFits(q) /\ pc'[q] = pc[q]
    BY DEF Orderly, AllFit, GoesOn, RetiredLocs
  <1>2. Fit(q)'
    BY <1>1 DEF Fit, GoesOn
  <1>3. OwnsSlot(q)' /\ NoTimer(q)' /\ HasBudget(q)'
    BY DEF OwnsSlot, NoTimer, HasBudget, Drives, GoesOn
  <1>4. Knows(q)'
    BY <1>1 DEF HandlerFits, Knows, GoesOn, Exists
  <1> QED
    BY <1>2, <1>3, <1>4 DEF HandlerFits

\* The timer fires on a session that was stopped: nothing comes of it.
LEMMA StoppedTimer ==
  ASSUME Patient, IInv, Orderly, NEW i \in Ids, Armed(i), i \in stopping,
         \A q \in Procs : pc[q] \notin {"start_row", "verb_row", "post_row", "purge_id", "purge_name"},
         reconnect' = [reconnect EXCEPT ![i].armed = FALSE],
         UNCHANGED <<row, stopping, lost, engines, estate, pendingInit, wiping, procVars>>
  PROVE  Orderly'
  <1>1. /\ Exists(i) /\ reconnect[i] # None
        /\ \A q \in Procs : sid[q] = i => ~Drives(q) /\ pc[q] \notin RetiredLocs
    BY FiringFinds
  <1>2. reconnect'[i] # None /\ \A j \in Ids \ {i} : reconnect'[j] = reconnect[j]
    <2>1. reconnect[i] \in [attempts : Nat, armed : BOOLEAN]
      BY <1>1 DEF IInv, ReconnectOK
    <2>2. [reconnect[i] EXCEPT !.armed = FALSE] \in [attempts : Nat, armed : BOOLEAN]
      BY <2>1
    <2>3. reconnect' = [reconnect EXCEPT ![i] = [reconnect[i] EXCEPT !.armed = FALSE]]
      OBVIOUS
    <2>4. /\ reconnect'[i] = [reconnect[i] EXCEPT !.armed = FALSE]
          /\ \A j \in Ids \ {i} : reconnect'[j] = reconnect[j]
      BY <2>3 DEF IInv, ReconnectOK
    <2> QED
      BY <2>2, <2>4, ConstantsAssumption
  <1>3. UNCHANGED <<pc, op, sid, eng>> /\ \A q \in Procs : GoesOn(q)
    BY DEF procVars, GoesOn
  <1>4. \A j \in Ids \ {i} : LeftAlone(j)
    BY <1>2 DEF LeftAlone, Exists
  <1>5. \A q \in Procs : sid[q] = i => HandlerFits(q)'
    BY <1>1, <1>2, <1>3, FiringBeside
  <1>6. SessionFits(i)'
    <2>1. SessionFits(i)
      BY DEF Orderly, AllFit
    <2>2. BeingRemoved(i)'
      BY <1>3, <2>1 DEF SessionFits, BeingRemoved, Removes, Doomed, Exists
    <2>3. Budgeted(i)' /\ Tended(i)' /\ Unborn(i)'
      BY <1>1, <1>2 DEF Budgeted, Tended, Unborn, Doomed, Exists, NoRow
    <2> QED
      BY <2>2, <2>3 DEF SessionFits
  <1>7. SameRow(i)
    BY DEF SameRow, Exists
  <1> QED
    BY <1>1, <1>4, <1>5, <1>6, <1>7, EventOrderly

\* The timer fires and a reconnect attempt begins: with the close of the old engine, or at once
\* with a new one.
LEMMA TimerOrderly ==
  ASSUME Patient, IInv, Orderly, NEW p \in Procs, NEW i \in Ids, TimerFires(p, i)
  PROVE  Orderly'
  <1>0. /\ pc \in [Procs -> Locations] /\ op \in [Procs -> Ops] /\ sid \in [Procs -> Ids \cup {None}]
        /\ eng \in [Procs -> Engines \cup {None}]
        /\ engines \in [Ids -> Engines \cup {None}] /\ estate \in [Engines -> EngineStates]
        /\ reconnect \in [Ids -> [attempts : Nat, armed : BOOLEAN] \cup {None}]
    BY DEF IInv, ProcsOK, EnginesOK, ReconnectOK
  <1>1. /\ pc[p] = "idle" /\ Armed(i) /\ lost = {}
        /\ \A q \in Procs : pc[q] \notin {"start_row", "verb_row", "post_row", "purge_id", "purge_name"}
        /\ reconnect' = [reconnect EXCEPT ![i].armed = FALSE]
        /\ UNCHANGED <<row, stopping, lost>>
    BY DEF TimerFires, DbQuiet, Patient
  <1>2. CASE i \in stopping
    <2>1. UNCHANGED <<engines, estate, pendingInit, wiping, procVars>>
      BY <1>2 DEF TimerFires
    <2> QED
      BY <1>1, <1>2, <2>1, StoppedTimer
  <1>3. CASE i \notin stopping
    <2>1. /\ Exists(i) /\ reconnect[i] # None
          /\ \A q \in Procs : sid[q] = i => ~Drives(q) /\ pc[q] \notin RetiredLocs
          /\ \A w \in wiping : w.name # NameOf[i]
      BY <1>1, FiringFinds
    <2>2. FenceOpen(NameOf[i])
      BY <2>1 DEF FenceOpen
    <2>3. /\ reconnect'[i] # None /\ ~Armed(i)'
          /\ \A j \in Ids \ {i} : reconnect'[j] = reconnect[j]
      <3>1. reconnect[i] \in [attempts : Nat, armed : BOOLEAN]
        BY <1>0, <2>1
      <3>2. [reconnect[i] EXCEPT !.armed = FALSE] \in [attempts : Nat, armed : BOOLEAN]
            /\ [reconnect[i] EXCEPT !.armed = FALSE].armed = FALSE
        BY <3>1
      <3>3. reconnect' = [reconnect EXCEPT ![i] = [reconnect[i] EXCEPT !.armed = FALSE]]
        BY <1>1
      <3>4. /\ reconnect'[i] = [reconnect[i] EXCEPT !.armed = FALSE]
            /\ \A j \in Ids \ {i} : reconnect'[j] = reconnect[j]
        BY <1>0, <3>3
      <3> QED
        BY <3>2, <3>4, ConstantsAssumption DEF Armed
    <2>4. /\ op'[p] = "reconnect" /\ sid'[p] = i /\ wiping' = wiping
          /\ \A q \in Procs \ {p} : op'[q] = op[q] /\ sid'[q] = sid[q] /\ eng'[q] = eng[q] /\ pc'[q] = pc[q]
          /\ \A j \in Ids \ {i} : engines'[j] = engines[j]
      BY <1>0, <1>3, <2>2 DEF TimerFires, InitializeEngine, Goto
    <2>5. \/ /\ engines[i] # None /\ eng'[p] = engines[i] /\ pc'[p] = "reconnect_kill"
             /\ UNCHANGED <<engines, estate, pendingInit>>
          \/ /\ engines[i] = None /\ \E e \in Engines : InitializeEngine(p, i, e, engines, estate)
      BY <1>0, <1>3, <2>2 DEF TimerFires, Goto
    <2>6. Fit(p) /\ op[p] = "none" /\ eng[p] = None /\ sid[p] = None
      BY <1>1 DEF Orderly, AllFit, Fit, IInv, ProcsOK, Handlers
    <2>7. \A q \in Procs \ {p} : GoesOn(q)
      BY <2>4 DEF GoesOn
    <2>8. SameRow(i) /\ row[i] # "unborn"
      BY <1>1, <2>1 DEF SameRow, Exists, NoRow
    <2>9. \A j \in Ids \ {i} : LeftAlone(j)
      BY <1>1, <2>3, <2>4 DEF LeftAlone, Exists
    <2>10. \A q \in Procs \ {p} : Fit(q)' /\ HandlerFits(q)'
      <3> SUFFICES ASSUME NEW q \in Procs \ {p}
                   PROVE  Fit(q)' /\ HandlerFits(q)'
        OBVIOUS
      <3>1. CASE sid[q] = i
        BY <1>1, <2>1, <2>3, <2>7, <3>1, FiringBeside
      <3>2. CASE sid[q] # i
        BY <2>7, <2>9, <3>2, HandlerApart DEF IInv, ProcsOK, Handlers
      <3> QED
        BY <3>1, <3>2
    <2>11. Alone'
      <3>1. \A q \in Procs \ {p} : sid'[q] = i => ~Drives(q)'
        BY <2>1, <2>4 DEF Drives
      <3> QED
        BY <2>4, <3>1 DEF Orderly, Alone, Drives, ClientVerbs
    <2>12. OneRow'
      BY <1>1 DEF Orderly, OneRow, Exists
    <2>13. NoneFalls /\ Fit(p)' /\ HandlerFits(p)' /\ SessionFits(i)' /\ Homes' /\ Awaited' /\ Unlaunched'
      <3>1. CASE /\ engines[i] # None /\ eng'[p] = engines[i] /\ pc'[p] = "reconnect_kill"
                 /\ UNCHANGED <<engines, estate, pendingInit>>
        <4>1. NoneFalls /\ Fit(p)'
          BY <2>4, <3>1 DEF NoneFalls, Fit, Ahead, DriverLocs, RetiredLocs
        <4>2. HandlerFits(p)'
          BY <1>1, <2>3, <2>4, <3>1 DEF HandlerFits, OwnsSlot, NoTimer, NoLiveLoss, Knows, HasBudget, FreeLocs,
             RetiredLocs, ClientVerbs
        <4>3. BeingRemoved(i)' /\ Tended(i)'
          BY <2>4, <3>1 DEF BeingRemoved, Removes, Tended
        <4>4. Budgeted(i)' /\ Unborn(i)'
          BY <2>1, <2>3, <2>8 DEF Budgeted, Unborn, SameRow
        <4>5. Homes'
          BY <2>4, <3>1, HomesKept DEF Orderly, Evicts
        <4>6. Awaited'
          BY <1>1, <2>4, <3>1 DEF Orderly, Awaited
        <4>7. Unlaunched'
          BY <2>4, <3>1 DEF Orderly, Unlaunched
        <4> QED
          BY <4>1, <4>2, <4>3, <4>4, <4>5, <4>6, <4>7 DEF SessionFits
      <3>2. ASSUME NEW e \in Engines, InitializeEngine(p, i, e, engines, estate)
            PROVE  NoneFalls /\ Fit(p)' /\ HandlerFits(p)' /\ SessionFits(i)' /\ Homes' /\ Awaited' /\ Unlaunched'
        <4>1. /\ Recyclable(e) /\ pc'[p] = "init_write" /\ eng'[p] = e /\ engines'[i] = e
              /\ estate' = [estate EXCEPT ![e] = "created"] /\ pendingInit' = [pendingInit EXCEPT ![i] = p]
          BY <1>0, <3>2 DEF InitializeEngine, Goto
        <4>2. estate'[e] = "created" /\ NoneFalls
          BY <1>0, <4>1 DEF NoneFalls
        <4>3. Fit(p)' /\ HandlerFits(p)' /\ SessionFits(i)'
          BY <1>1, <2>1, <2>3, <2>4, <2>8, <4>1, <4>2, LaunchFits
        <4>4. Homes'
          BY <2>4, <4>1, HomesOpened DEF Orderly
        <4>5. Awaited'
          <5>1. pendingInit \in [Ids -> Procs \cup {None}]
            BY DEF IInv, EnginesOK
          <5>2. ASSUME NEW j \in Ids, NEW q \in Procs, pendingInit'[j] = q
                PROVE  pc'[q] = "init_write" /\ sid'[q] = j
            BY <1>1, <2>4, <4>1, <5>1, <5>2 DEF Orderly, Awaited
          <5>3. ASSUME NEW q \in Procs, pc'[q] = "verb_wait"
                PROVE  \E r \in Procs : pc'[r] = "init_write" /\ eng'[r] = eng'[q]
            BY <1>1, <2>4, <4>1, <5>3 DEF Orderly, Awaited
          <5> QED
            BY <5>2, <5>3 DEF Awaited
        <4>6. Unlaunched'
          <5> SUFFICES ASSUME NEW q \in Procs, pc'[q] = "init_write", estate'[eng'[q]] = "alive"
                       PROVE  FALSE
            BY DEF Unlaunched
          <5>1. q # p
            BY <4>1, <4>2
          <5>2. pc[q] = "init_write" /\ eng'[q] = eng[q] /\ eng[q] \in Engines
            BY <2>4, <5>1 DEF IInv, ProcsOK, Handlers, HoldsEngine
          <5> QED
            BY <1>0, <4>1, <5>2 DEF Orderly, Unlaunched
        <4> QED
          BY <4>2, <4>3, <4>4, <4>5, <4>6
      <3> QED
        BY <2>5, <3>1, <3>2
    <2>14. \A j \in Ids : SessionFits(j)'
      <3>1. \A j \in Ids \ {i} : sid[p] # j /\ sid'[p] # j
        BY <2>4, <2>6, ConstantsAssumption
      <3> QED
        BY <2>7, <2>9, <2>13, <3>1, SessionApart
    <2>15. RmsFit'
      <3> SUFFICES ASSUME NEW w \in wiping
                   PROVE  RmKnown(w)' /\ RmAlone(w)' /\ RmAwaited(w)'
        BY <2>4 DEF RmsFit
      <3>1. RmKnown(w) /\ RmAlone(w) /\ RmAwaited(w) /\ w.waiters \subseteq Procs /\ w.name # NameOf[i]
        BY <2>1 DEF Orderly, RmsFit, IInv, WipingOK
      <3>2. RmKnown(w)'
        BY <1>1, <2>4, <3>1 DEF RmKnown
      <3>3. RmAlone(w)'
        <4> SUFFICES ASSUME NEW j \in Ids, NameOf[j] = w.name, Exists(j)'
                     PROVE  /\ reconnect'[j] = None
                            /\ engines'[j] # None => \E q \in Procs : /\ sid'[q] = j /\ eng'[q] = engines'[j]
                                                                      /\ op'[q] = "logout" /\ pc'[q] = "teardown"
          BY DEF RmAlone
        <4>1. j # i /\ Exists(j) /\ reconnect'[j] = reconnect[j] /\ engines'[j] = engines[j]
          BY <2>9, <3>1 DEF LeftAlone
        <4> QED
          BY <1>1, <2>4, <3>1, <4>1 DEF RmAlone
      <3>4. RmAwaited(w)'
        BY <1>1, <2>4, <3>1 DEF RmAwaited, Exists
      <3> QED
        BY <3>2, <3>3, <3>4
    <2> QED
      BY <2>10, <2>11, <2>12, <2>13, <2>14, <2>15 DEF Orderly, AllFit
  <1> QED
    BY <1>2, <1>3

-----------------------------------------------------------------------------
\* Every step keeps the invariant.
LEMMA NextOrderly ==
  ASSUME Patient, IInv, Orderly, [Next]_vars
  PROVE  Orderly'
  <1>1. CASE Next
    <2>1. CASE \E p \in Procs : Step(p)
      BY <2>1, StepOrderly
    <2>2. CASE \E i \in Ids : Create(i)
      BY <2>2, CreateOrderly
    <2>3. CASE \E p \in Procs, v \in Verbs, i \in Ids : Request(p, v, i)
      BY <2>3, RequestOrderly
    <2>4. CASE \E p \in Procs, i \in Ids : TimerFires(p, i)
      BY <2>4, TimerOrderly
    <2>5. CASE EngineEvent
      BY <2>5, ReportOrderly, LossOrderly, ErrorOrderly DEF EngineEvent, StuckAuth, EngineUnlinked, Patient
    <2>6. CASE Background
      <3>1. CASE \E l \in lost : HandleLost(l[1], l[2])
        <4>1. PICK l \in lost : HandleLost(l[1], l[2])
          BY <3>1
        <4>2. l[1] \in Ids /\ l[2] \in Engines
          BY DEF IInv, LostOK
        <4> QED
          BY <4>1, <4>2, HandledOrderly
      <3> QED
        BY <2>6, <3>1, BackgroundOrderly DEF Background
    <2> QED
      BY <1>1, <2>1, <2>2, <2>3, <2>4, <2>5, <2>6 DEF Next
  <1>2. CASE UNCHANGED vars
    BY <1>2 DEF vars, procVars, Orderly, AllFit, Fit, HandlerFits, OwnsSlot, NoTimer, NoLiveLoss, Knows, HasBudget,
       Drives, SessionFits, BeingRemoved, Removes, Budgeted, Tended, Unborn, Doomed, Armed, Exists, Alone, Homes,
       Awaited, Unlaunched, OneRow, RmsFit, RmKnown, RmAlone, RmAwaited
  <1> QED
    BY <1>1, <1>2

\* The engines, handlers and rms of waiting clients stay in order, whatever the budget of
\* reconnects, the order the writes land in and the names of the sessions.
LEMMA KeptOrderly == ASSUME Patient PROVE Spec => []Orderly
  <1>1. Init => Orderly
    BY InitOrderly
  <1>2. IInv /\ Orderly /\ [Next]_vars => Orderly'
    BY NextOrderly
  <1> QED
    BY <1>1, <1>2, Inductive, PTL DEF Spec

\* An engine that reported its disconnect is being dealt with: its loss is handled, a reconnect
\* is armed, or a verb works on its session.
THEOREM NoneStranded == ASSUME Patient PROVE Spec => []NoStrandedEngine
  BY OrderlyShows, KeptOrderly, Inductive, PTL

\* A session whose stop mark stands has no engine once everything is quiet.
THEOREM NothingResurrected == ASSUME Patient PROVE Spec => []NoResurrection
  BY OrderlyShows, KeptOrderly, Inductive, PTL

\* Nor has a deleted one.
THEOREM DeletedStaysGone == ASSUME Patient PROVE Spec => []DeletedMeansGone
  BY OrderlyShows, KeptOrderly, Inductive, PTL

-----------------------------------------------------------------------------
(* Credentials, with no reconnects and clients that wait *)

\* Without reconnect attempts a client that waits has one handler at work.
OneAtATime == \A p, q \in Procs : pc[p] # "idle" /\ pc[q] # "idle" => p = q
\* Whoever can write the credentials of a name has a row: a registered engine, and a start
\* past its row read.
EngineHasRow == \A i \in Ids : engines[i] # None => Exists(i)
StartHasRow == \A p \in Procs : op[p] = "start" /\ pc[p] # "start_row" => Exists(sid[p])
\* A verb that retired its session found in the registry the engine it holds, or none; a
\* delete has taken it out when it comes to its second fence.
Emptied ==
  \A p \in Procs :
    /\ pc[p] \in {"verb_row", "delete_fence1", "verb_wait", "teardown", "delete_fence2", "delete_hook",
                  "delete_purge"} => op[p] # "start"
    /\ pc[p] \in {"verb_wait", "teardown"} => engines[sid[p]] \in {None, eng[p]}
    /\ pc[p] \in {"delete_fence2", "delete_hook", "delete_purge"} => engines[sid[p]] = None
\* Credentials belong to a row, or the delete that removed it is about to purge them.
Backed ==
  \A n \in auth :
    \/ \E i \in Ids : NameOf[i] = n /\ Exists(i)
    \/ \E p \in Procs : pc[p] = "delete_purge" /\ NameOf[sid[p]] = n
Accounted == OneAtATime /\ EngineHasRow /\ StartHasRow /\ Emptied /\ Backed

\* There are no credentials when the process boots.
LEMMA InitAccounted == ASSUME Init PROVE Accounted
  BY DEF Init, Accounted, OneAtATime, EngineHasRow, StartHasRow, Emptied, Backed

\* Only a delete's commit takes a row away, and no step of a handler creates one.
LEMMA StepKeepsRows ==
  ASSUME IInv, NEW p \in Procs, Step(p), ~DeleteCommits(p), NEW j \in Ids
  PROVE  Exists(j)' <=> Exists(j)
  <1>1. CASE UNCHANGED row
    BY <1>1 DEF Exists
  <1>2. CASE \E k \in 1..Len(writes) : Lands(p, k)
    BY <1>2, LandsRows
  <1> QED
    BY <1>1, <1>2 DEF Step, StartRow, StartFence, StartHook, InitWritten, Settled, InitWriteFails, InitRuns,
       InitKilled, InitKillWritten, CatchKilled, CatchWritten, PostRow, RetireKilled, PurgeCheck, Purged, VerbRow,
       DeleteFence1, VerbWaited, TornDown, DeleteFence2, DeletePurged, VerbWritten, ReconnectKilled,
       ReconnectFence

\* Where a step may lead, by what the credentials of its session depend on.
LEMMA StepLeads ==
  ASSUME IInv, Ownership, Accounted, NEW p \in Procs, Step(p), NEW i \in Ids, sid[p] = i
  PROVE  /\ pc'[p] \in {"verb_row", "delete_fence1", "verb_wait", "teardown", "delete_fence2", "delete_hook",
                        "delete_purge"} => op[p] # "start"
         /\ pc'[p] \in {"verb_wait", "teardown"} => engines'[i] \in {None, eng'[p]}
         /\ pc'[p] \in {"delete_fence2", "delete_hook", "delete_purge"} => engines'[i] = None
         /\ op[p] = "start" /\ pc'[p] \notin {"idle", "start_row"} => Exists(i)
  <1>0. /\ pc \in [Procs -> Locations] /\ eng \in [Procs -> Engines \cup {None}]
        /\ engines \in [Ids -> Engines \cup {None}]
    BY DEF IInv, ProcsOK, EnginesOK
  <1>1. /\ op[p] # "reconnect" /\ pc[p] \in Ahead \cup Clearing \cup Launching => op[p] = "start"
    BY DEF Ownership, Roles
  <1>2. op[p] = "start" /\ pc[p] # "start_row" => Exists(i)
    BY DEF Accounted, StartHasRow
  <1>3. /\ pc[p] \in {"verb_row", "delete_fence1", "verb_wait", "teardown", "delete_fence2", "delete_hook",
                      "delete_purge"} => op[p] # "start"
        /\ pc[p] \in {"verb_wait", "teardown"} => engines[i] \in {None, eng[p]}
        /\ pc[p] \in {"delete_fence2", "delete_hook", "delete_purge"} => engines[i] = None
    BY DEF Accounted, Emptied
  <1>4. CASE StartRow(p) \/ StartFence(p) \/ StartHook(p)
    BY <1>0, <1>2, <1>4 DEF StartRow, StartFence, StartHook, AdmitStart, InitializeEngine, Finish, Goto
  <1>5. CASE InitWritten(p)
    BY <1>0, <1>2, <1>5 DEF InitWritten, InitReturns
  <1>6. CASE InitWriteFails(p) \/ InitRuns(p) \/ InitKilled(p) \/ InitKillWritten(p) \/ CatchKilled(p) \/ CatchWritten(p)
    BY <1>0, <1>1, <1>2, <1>6 DEF InitWriteFails, InitRuns, InitReturns, InitRejects, InitKilled, InitKillWritten, Throw,
       CatchKilled, CatchWritten, Finish, Goto
  <1>7. CASE PostRow(p) \/ RetireKilled(p) \/ PurgeCheck(p) \/ Purged(p)
    BY <1>0, <1>2, <1>7 DEF PostRow, RetireKilled, PurgeCheck, Purged, Finish, Goto
  <1>8. CASE VerbRow(p) \/ DeleteFence1(p)
    BY <1>0, <1>3, <1>8 DEF VerbRow, DeleteFence1, Retire, BeginTeardown, ToDeleteFence2, Finish, Goto
  <1>9. CASE VerbWaited(p) \/ DeleteFence2(p)
    BY <1>0, <1>3, <1>9 DEF VerbWaited, DeleteFence2, BeginTeardown, Finish, Goto
  <1>10. CASE TornDown(p)
    BY <1>0, <1>3, <1>10 DEF TornDown, DeleteIfLive, ToDeleteFence2, Goto
  <1>11. CASE DeleteCommits(p) \/ DeletePurged(p) \/ VerbWritten(p)
    BY <1>0, <1>2, <1>3, <1>11 DEF DeleteCommits, DeletePurged, VerbWritten, Finish, Goto
  <1>12. ~ReconnectKilled(p) /\ ~ReconnectFence(p)
    BY DEF ReconnectKilled, ReconnectFence, Ownership, Roles
  <1> QED
    BY <1>4, <1>5, <1>6, <1>7, <1>8, <1>9, <1>10, <1>11, <1>12 DEF Step

\* Only the launch of an engine, whose start has a row, adds credentials; the purge of a delete
\* leaves none.
LEMMA StepCredentials ==
  ASSUME IInv, NEW p \in Procs, Step(p)
  PROVE  /\ auth' \subseteq auth \/ (pc[p] = "init_write" /\ auth' \subseteq auth \cup {NameOf[sid[p]]})
         /\ pc[p] = "delete_purge" => NameOf[sid[p]] \notin auth'
         /\ pc[p] # "idle"
  BY DEF Step, StartRow, StartFence, StartHook, InitWritten, InitWriteFails, InitRuns,
     InitKilled, InitKillWritten, CatchKilled, CatchWritten, PostRow, RetireKilled, PurgeCheck, Purged, VerbRow,
     DeleteFence1, VerbWaited, TornDown, DeleteFence2, DeleteCommits, DeletePurged, VerbWritten, ReconnectKilled,
     ReconnectFence, PurgeSessionData

\* A handler's step keeps the account.
LEMMA StepAccounted ==
  ASSUME IInv, Ownership, Accounted, NEW p \in Procs, Step(p), NEW i \in Ids, sid[p] = i
  PROVE  Accounted'
  <1>0. /\ pc[p] # "idle" /\ IInv'
        /\ row \in [Ids -> Statuses \cup NoRow]
    BY StepCredentials, StepInv DEF IInv, ProcsOK, Handlers, RowsOK
  <1>1. \A q \in Procs \ {p} : pc[q] = "idle" /\ pc'[q] = "idle"
    BY <1>0, OthersStay DEF Accounted, OneAtATime
  <1>2. (sid'[p] = i /\ op'[p] = op[p]) \/ pc'[p] = "idle"
    BY StepShape DEF Finish, IInv, ProcsOK
  <1>3. /\ pc'[p] \in {"verb_row", "delete_fence1", "verb_wait", "teardown", "delete_fence2", "delete_hook",
                       "delete_purge"} => op[p] # "start"
        /\ pc'[p] \in {"verb_wait", "teardown"} => engines'[i] \in {None, eng'[p]}
        /\ pc'[p] \in {"delete_fence2", "delete_hook", "delete_purge"} => engines'[i] = None
        /\ op[p] = "start" /\ pc'[p] \notin {"idle", "start_row"} => Exists(i)
    BY <1>0, StepLeads
  <1>4. ~DeleteCommits(p) => \A j \in Ids : Exists(j)' <=> Exists(j)
    BY StepKeepsRows
  <1>5. ASSUME DeleteCommits(p)
        PROVE  /\ pc[p] = "delete_hook" /\ op[p] # "start" /\ engines[i] = None /\ engines' = engines
               /\ \A j \in Ids \ {i} : Exists(j)' <=> Exists(j)
               /\ Exists(i) => Exists(i)' \/ (pc'[p] = "delete_purge" /\ sid'[p] = i)
    <2>1. pc[p] = "delete_hook" /\ op[p] # "start" /\ engines[i] = None /\ engines' = engines
      BY <1>5 DEF DeleteCommits, Accounted, Emptied
    <2>2. \/ row' = row
          \/ row' = [row EXCEPT ![i] = "deleted"] /\ pc'[p] = "delete_purge" /\ sid'[p] = i
      BY <1>5 DEF DeleteCommits, Goto, IInv, ProcsOK
    <2> QED
      BY <1>0, <2>1, <2>2 DEF Exists
  <1>6. pc[p] = "init_write" => op[p] = "start" /\ ~DeleteCommits(p)
    BY DEF Ownership, Roles, Launching, DeleteCommits
  <1>7. OneAtATime'
    BY <1>1 DEF OneAtATime
  <1>8. EngineHasRow'
    <2> SUFFICES ASSUME NEW j \in Ids, engines'[j] # None
                 PROVE  Exists(j)'
      BY DEF EngineHasRow
    <2>1. CASE StartHook(p) /\ j = i
      <3>1. op[p] = "start" /\ pc[p] = "start_hook" /\ ~DeleteCommits(p)
        BY <2>1 DEF StartHook, DeleteCommits, Ownership, Roles, Ahead
      <3> QED
        BY <1>4, <2>1, <3>1 DEF Accounted, StartHasRow
    <2>2. CASE ~(StartHook(p) /\ j = i)
      <3>1. engines[j] # None
        <4>1. CASE StartHook(p)
          BY <2>2, <4>1 DEF StartHook, InitializeEngine, IInv, EnginesOK
        <4>2. CASE ~StartHook(p)
          BY <4>2, StepEvicts DEF Evicts
        <4> QED
          BY <4>1, <4>2
      <3>2. Exists(j)
        BY <3>1 DEF Accounted, EngineHasRow
      <3> QED
        BY <1>4, <1>5, <3>1, <3>2
    <2> QED
      BY <2>1, <2>2
  <1>9. StartHasRow'
    <2> SUFFICES ASSUME NEW q \in Procs, NEW j, j = sid'[q], op'[q] = "start", pc'[q] # "start_row"
                 PROVE  Exists(j)'
      BY DEF StartHasRow
    <2>1. q = p /\ pc'[p] # "idle" /\ j = i /\ op[p] = "start" /\ ~DeleteCommits(p)
      BY <1>0, <1>1, <1>2, <1>5 DEF IInv, ProcsOK, Handlers
    <2> QED
      BY <1>0, <1>3, <1>4, <2>1
  <1>10. Emptied'
    <2> SUFFICES ASSUME NEW q \in Procs, pc'[q] # "idle"
                 PROVE  /\ pc'[q] \in {"verb_row", "delete_fence1", "verb_wait", "teardown", "delete_fence2",
                                       "delete_hook", "delete_purge"} => op'[q] # "start"
                        /\ pc'[q] \in {"verb_wait", "teardown"} => engines'[sid'[q]] \in {None, eng'[q]}
                        /\ pc'[q] \in {"delete_fence2", "delete_hook", "delete_purge"} => engines'[sid'[q]] = None
      BY DEF Emptied
    <2>1. q = p
      BY <1>1
    <2> QED
      BY <1>2, <1>3, <2>1
  <1>11. Backed'
    <2> SUFFICES ASSUME NEW n \in auth'
                 PROVE  \/ \E j \in Ids : NameOf[j] = n /\ Exists(j)'
                        \/ \E q \in Procs : pc'[q] = "delete_purge" /\ NameOf[sid'[q]] = n
      BY DEF Backed
    <2>1. CASE n \in auth
      <3>1. CASE \E q \in Procs : pc[q] = "delete_purge" /\ NameOf[sid[q]] = n
        BY <1>1, <3>1, StepCredentials
      <3>2. CASE \E j \in Ids : NameOf[j] = n /\ Exists(j)
        <4>1. PICK j \in Ids : NameOf[j] = n /\ Exists(j)
          BY <3>2
        <4>2. Exists(j)' \/ (j = i /\ pc'[p] = "delete_purge" /\ sid'[p] = i)
          BY <1>4, <1>5, <4>1
        <4> QED
          BY <4>1, <4>2
      <3> QED
        BY <2>1, <3>1, <3>2 DEF Accounted, Backed
    <2>2. CASE n \notin auth
      <3>1. pc[p] = "init_write" /\ n = NameOf[i]
        BY <2>2, StepCredentials
      <3>2. Exists(i)
        BY <1>6, <3>1 DEF Accounted, StartHasRow
      <3> QED
        BY <1>0, <1>4, <1>6, <3>1, <3>2
    <2> QED
      BY <2>1, <2>2
  <1> QED
    BY <1>7, <1>8, <1>9, <1>10, <1>11 DEF Accounted

\* What clients, engines and the background do keeps it too.
LEMMA OutsideAccounted ==
  ASSUME leaked = {}, Serial, MaxAttempts = 0, IInv, Ownership, Accounted,
         \/ \E i \in Ids : Create(i)
         \/ \E p \in Procs, v \in Verbs, i \in Ids : Request(p, v, i)
         \/ EngineEvent \/ Background
  PROVE  Accounted'
  <1>1. Evicts
    BY OutsideEvicts
  <1>2. \A j \in Ids : Exists(j) => Exists(j)'
    <2>1. CASE UNCHANGED row
      BY <2>1 DEF Exists
    <2>2. CASE WriteSettles
      BY <2>2, LandsRows DEF WriteSettles, Settled
    <2>3. CASE \E i \in Ids : Create(i)
      BY <2>3 DEF Create, Exists, NoRow, IInv, RowsOK
    <2> QED
      BY <2>1, <2>2, <2>3 DEF Request, EngineEvent, Background, EngineReady, EngineState, EngineLost, EngineError,
         StuckAuth, EngineUnlinked, HandleLost, Reap, LeftBehind, WipeSettles
  <1>3. \A n \in auth' : n \in auth \/ \E i \in Ids : engines[i] # None /\ n = NameOf[i]
    <2>1. ASSUME NEW i \in Ids, EngineReady(i)
          PROVE  engines[i] # None /\ auth' = auth \cup {NameOf[i]}
      BY <2>1 DEF EngineReady, EngineUp
    <2> QED
      BY <2>1 DEF Create, Request, EngineEvent, Background, EngineState, EngineLost, EngineError,
         StuckAuth, EngineUnlinked, HandleLost, Reap, LeftBehind, WipeSettles, WriteSettles
  <1>4. EngineHasRow'
    BY <1>1, <1>2 DEF Accounted, EngineHasRow, Evicts
  <1>5. \/ UNCHANGED <<pc, op, sid, eng>>
        \/ \E p \in Procs, v \in Verbs, i \in Ids : Request(p, v, i)
    BY DEF Create, EngineEvent, Background, EngineReady, EngineState, EngineLost, EngineError,
       StuckAuth, EngineUnlinked, HandleLost, Reap, LeftBehind, WipeSettles, WriteSettles, procVars
  <1>6. CASE UNCHANGED <<pc, op, sid, eng>>
    <2>1. OneAtATime' /\ StartHasRow' /\ Emptied'
      <3>1. \A q \in Procs : pc[q] # "idle" => sid[q] \in Ids
        BY DEF IInv, ProcsOK, Handlers
      <3>2. \A q \in Procs : op[q] = "start" => pc[q] # "idle"
        BY DEF IInv, ProcsOK, Handlers
      <3>3. OneAtATime' /\ StartHasRow'
        BY <1>2, <1>6, <3>1, <3>2 DEF Accounted, OneAtATime, StartHasRow
      <3>4. Emptied'
        BY <1>1, <1>6, <3>1 DEF Accounted, Emptied, Evicts
      <3> QED
        BY <3>3, <3>4
    <2>2. Backed'
      BY <1>2, <1>3, <1>6 DEF Accounted, Backed, EngineHasRow
    <2> QED
      BY <1>4, <2>1, <2>2 DEF Accounted
  <1>7. CASE \E p \in Procs, v \in Verbs, i \in Ids : Request(p, v, i)
    <2>1. PICK p \in Procs, v \in Verbs, i \in Ids : Request(p, v, i)
      BY <1>7
    <2>2. \A q \in Procs : pc[q] = "idle"
      BY <2>1 DEF Request, ClientsFree, Ownership, Roles, IInv, ProcsOK, Handlers
    <2>3. /\ pc' = [pc EXCEPT ![p] = IF v = "start" THEN "start_row" ELSE "verb_row"]
          /\ op' = [op EXCEPT ![p] = v] /\ UNCHANGED <<row, auth, engines>>
      BY <2>1 DEF Request
    <2>4. /\ pc'[p] = IF v = "start" THEN "start_row" ELSE "verb_row"
          /\ op'[p] = v
          /\ \A q \in Procs \ {p} : pc'[q] = "idle" /\ op'[q] = "none"
      BY <2>2, <2>3 DEF IInv, ProcsOK, Handlers
    <2>5. OneAtATime' /\ StartHasRow' /\ Emptied'
      BY <2>4 DEF OneAtATime, StartHasRow, Emptied
    <2>6. Backed'
      BY <2>2, <2>3 DEF Accounted, Backed, Exists
    <2> QED
      BY <1>4, <2>5, <2>6 DEF Accounted
  <1> QED
    BY <1>5, <1>6, <1>7

\* When every bounded teardown ends its process, none is left behind.
LEMMA NothingLeaks ==
  ASSUME ~TeardownsFail, leaked = {}, [Next]_vars
  PROVE  leaked' = {}
  <1>1. ASSUME NEW p \in Procs, Step(p)
        PROVE  leaked' = {}
    BY <1>1 DEF Step, StartRow, StartFence, StartHook, InitWritten, InitWriteFails, InitRuns,
       InitKilled, InitKillWritten, CatchKilled, CatchWritten, PostRow, RetireKilled, PurgeCheck, Purged,
       VerbRow, DeleteFence1, VerbWaited, TornDown, DeleteFence2, DeleteCommits, DeletePurged, VerbWritten,
       ReconnectKilled, ReconnectFence, Outlives
  <1>2. CASE EngineEvent \/ Background
    BY <1>2 DEF EngineEvent, EngineReady, EngineState, EngineLost, EngineError, StuckAuth, EngineUnlinked,
       Background, HandleLost, Reap, LeftBehind, WipeSettles, WriteSettles, Outlives
  <1> QED
    BY <1>1, <1>2 DEF Next, vars, Create, Request, TimerFires

\* With no reconnects and clients that wait, no credentials outlive their row, whatever names are
\* used again, whatever the engines report or remove and whatever database calls fail, as long as
\* no process outlives its bounded teardown: the purge of a delete comes after everything that
\* could write them.
THEOREM CredentialsHaveRow ==
  ASSUME Serial, MaxAttempts = 0, ~TeardownsFail
  PROVE  Spec => []NoCredentialsWithoutRow
  <1>0. Spec => [](leaked = {})
    <2>1. Init => leaked = {}
      BY DEF Init
    <2>2. leaked = {} /\ [Next]_vars => (leaked = {})'
      BY NothingLeaks
    <2> QED
      BY <2>1, <2>2, PTL DEF Spec
  <1>1. Init => Accounted
    BY InitAccounted
  <1>2. ASSUME IInv, Ownership, leaked = {}, Accounted, [Next]_vars
        PROVE  Accounted'
    <2>1. CASE UNCHANGED vars
      BY <1>2, <2>1 DEF vars, procVars, Accounted, OneAtATime, EngineHasRow, StartHasRow, Emptied, Backed, Exists
    <2>2. ASSUME NEW p \in Procs, NEW i \in Ids, TimerFires(p, i)
          PROVE  FALSE
      BY <1>2, <2>2 DEF TimerFires, Ownership, NoTimers
    <2>3. ASSUME NEW p \in Procs, Step(p)
          PROVE  Accounted'
      <3>1. sid[p] \in Ids
        BY <1>2, <2>3, StepCredentials DEF IInv, ProcsOK, Handlers
      <3> QED
        BY <1>2, <2>3, <3>1, StepAccounted
    <2> QED
      BY <1>2, <2>1, <2>2, <2>3, OutsideAccounted DEF Next
  <1>3. Accounted => NoCredentialsWithoutRow
    BY DEF Accounted, Backed, NoCredentialsWithoutRow, Quiet
  <1> QED
    BY <1>0, <1>1, <1>2, <1>3, OwnershipHolds, Inductive, PTL DEF Spec
=============================================================================
