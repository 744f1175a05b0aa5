------------------------ MODULE ConcurrencyLimiter ------------------------
(***************************************************************************)
(* ConcurrencyLimiter (openwa/src/common/utils/concurrency-limiter.ts): the *)
(* FIFO gate in front of webhook deliveries, inbound media downloads and    *)
(* ffmpeg.  A task is one call of run().  The slot of a task that ends is   *)
(* handed to the first waiter without being released; the waiter's own      *)
(* continuation runs in a later microtask ("resumed"), and other calls of   *)
(* run() may come in between.                                               *)
(***************************************************************************)
EXTENDS Integers, Sequences, FiniteSets

CONSTANTS
  Tasks,
  ConfiguredMax,    \* the arguments of the constructor, before it clamps them
  ConfiguredQueued

ASSUME LimiterAssumption == ConfiguredMax \in Int /\ ConfiguredQueued \in Int

Max == IF ConfiguredMax < 1 THEN 1 ELSE ConfiguredMax
MaxQueued == IF ConfiguredQueued < 0 THEN 0 ELSE ConfiguredQueued

VARIABLES
  active,   \* slots in use
  waiters,  \* tasks parked for one, first come first
  closed,
  task      \* what each call of run() is doing

limiterVars == <<active, waiters, closed, task>>

TaskStates == {"idle", "parked", "resumed", "running", "done", "refused", "closed"}

LimiterInit ==
  /\ active = 0
  /\ waiters = <<>>
  /\ closed = FALSE
  /\ task = [t \in Tasks |-> "idle"]

\* run() with a free slot calls the task at once.
Admit(t) ==
  /\ task[t] = "idle" /\ ~closed /\ active < Max
  /\ active' = active + 1
  /\ task' = [task EXCEPT ![t] = "running"]
  /\ UNCHANGED <<waiters, closed>>

\* Mutant: one task too many may park.
ParkOneMore(t) ==
  /\ task[t] = "idle" /\ ~closed /\ active >= Max /\ Len(waiters) <= MaxQueued
  /\ waiters' = Append(waiters, t)
  /\ task' = [task EXCEPT ![t] = "parked"]
  /\ UNCHANGED <<active, closed>>
Park(t) ==
  /\ task[t] = "idle" /\ ~closed /\ active >= Max /\ Len(waiters) < MaxQueued
  /\ waiters' = Append(waiters, t)
  /\ task' = [task EXCEPT ![t] = "parked"]
  /\ UNCHANGED <<active, closed>>

\* 'ConcurrencyLimiter queue full'
RefuseFull(t) ==
  /\ task[t] = "idle" /\ ~closed /\ active >= Max /\ Len(waiters) >= MaxQueued
  /\ task' = [task EXCEPT ![t] = "refused"]
  /\ UNCHANGED <<active, waiters, closed>>

\* 'ConcurrencyLimiter closed'
RefuseClosed(t) ==
  /\ task[t] = "idle" /\ closed
  /\ task' = [task EXCEPT ![t] = "closed"]
  /\ UNCHANGED <<active, waiters, closed>>

Run(t) == Admit(t) \/ Park(t) \/ RefuseFull(t) \/ RefuseClosed(t)

\* The waiter that was handed a slot comes back from its await and calls the task.
Resume(t) ==
  /\ task[t] = "resumed"
  /\ task' = [task EXCEPT ![t] = "running"]
  /\ UNCHANGED <<active, waiters, closed>>

\* Mutant: the slot is released and nobody is woken.
ReleaseOnly(t) ==
  /\ active' = active - 1
  /\ task' = [task EXCEPT ![t] = "done"]
  /\ UNCHANGED waiters
\* The finally of run(): the slot goes to the first waiter, or is released.
HandOver(t) ==
  IF waiters = <<>>
  THEN active' = active - 1 /\ UNCHANGED waiters /\ task' = [task EXCEPT ![t] = "done"]
  ELSE /\ waiters' = Tail(waiters)
       /\ task' = [task EXCEPT ![t] = "done", ![Head(waiters)] = "resumed"]
       /\ UNCHANGED active

\* The task settles, well or badly.
Settle(t) ==
  /\ task[t] = "running"
  /\ HandOver(t)
  /\ UNCHANGED closed

\* close(): parked tasks are rejected, tasks that hold a slot run on.
Close ==
  /\ closed' = TRUE
  /\ waiters' = <<>>
  /\ task' = [t \in Tasks |-> IF task[t] = "parked" THEN "closed" ELSE task[t]]
  /\ UNCHANGED active

LimiterNext ==
  \/ \E t \in Tasks : Run(t) \/ Resume(t) \/ Settle(t)
  \/ Close

LimiterSpec == LimiterInit /\ [][LimiterNext]_limiterVars

-----------------------------------------------------------------------------
(* Properties *)

\* Each field keeps its shape; the parked tasks are the waiters, each once, and there
\* are no more of them than may queue.
LimiterTypeOK ==
  /\ active \in Nat
  /\ closed \in BOOLEAN
  /\ task \in [Tasks -> TaskStates]
  /\ waiters \in Seq({t \in Tasks : task[t] = "parked"})
  /\ \A t \in Tasks : task[t] = "parked" => \E k \in 1..Len(waiters) : waiters[k] = t
  /\ \A k, l \in 1..Len(waiters) : waiters[k] = waiters[l] => k = l
  /\ Len(waiters) <= MaxQueued

Holders == {t \in Tasks : task[t] \in {"resumed", "running"}}

\* The count is the number of tasks that hold a slot, through the gap between a slot
\* handed over and its new holder's continuation, and never exceeds the maximum: a
\* count that drifts up wedges the gate, one that drifts down over-admits.
SlotsBounded == active = Cardinality(Holders) /\ Cardinality(Holders) <= Max

\* No task waits beside a free slot, or behind a closed gate.
NoIdleSlot == waiters # <<>> => active = Max /\ ~closed

\* The limiter implements the pool of slots it promises: bounded, first come first
\* served, work conserving.
Pool == INSTANCE SlotPool WITH
  serving <- Holders,
  line <- waiters,
  over <- {t \in Tasks : task[t] \in {"done", "refused", "closed"}},
  shut <- closed
ImplementsPool == Pool!Spec
=============================================================================
