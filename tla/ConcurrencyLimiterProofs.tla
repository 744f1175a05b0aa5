---------------------- MODULE ConcurrencyLimiterProofs ----------------------
(***************************************************************************)
(* The limiter for every set of callers and every configuration: its count  *)
(* is the number of slots held, never above the maximum, nobody waits       *)
(* beside a free slot, and it implements the pool of slots it promises.     *)
(***************************************************************************)
EXTENDS ConcurrencyLimiter, FiniteSetTheorems, SequenceTheorems, TLAPS

\* The inductive invariant: the shape of the fields, the count, and no idle slot.
LimiterInv ==
  /\ LimiterTypeOK
  /\ IsFiniteSet(Holders)
  /\ SlotsBounded
  /\ NoIdleSlot

\* The clamped limits are what the code divides work by: at least one slot.
LEMMA LimitsType == Max \in Nat \ {0} /\ MaxQueued \in Nat
  BY LimiterAssumption DEF Max, MaxQueued

\* A new limiter is idle.
LEMMA LimiterInitInv == ASSUME LimiterInit PROVE LimiterInv
  <1>1. Holders = {}
    BY DEF LimiterInit, Holders
  <1>2. LimiterTypeOK
    <2>1. \A t \in Tasks : task[t] = "idle"
      BY DEF LimiterInit
    <2>2. waiters \in Seq({t \in Tasks : task[t] = "parked"}) /\ Len(waiters) = 0
      BY EmptySeq DEF LimiterInit
    <2>3. 1..Len(waiters) = {}
      BY <2>2
    <2>4. task \in [Tasks -> TaskStates] /\ closed \in BOOLEAN /\ active \in Nat
      BY DEF LimiterInit, TaskStates
    <2>5. \A t \in Tasks : task[t] # "parked"
      BY <2>1
    <2> QED
      BY <2>2, <2>3, <2>4, <2>5, LimitsType DEF LimiterTypeOK
  <1> QED
    BY <1>1, <1>2, LimitsType, FS_EmptySet DEF LimiterInv, SlotsBounded, NoIdleSlot, LimiterInit

\* A task that takes a free slot is one holder more.
LEMMA AdmitInv ==
  ASSUME LimiterInv, NEW t \in Tasks, Admit(t)
  PROVE  LimiterInv'
  <1>1. Holders' = Holders \cup {t} /\ t \notin Holders
    BY DEF Admit, Holders, LimiterInv, LimiterTypeOK, TaskStates
  <1>2. IsFiniteSet(Holders') /\ Cardinality(Holders') = Cardinality(Holders) + 1
    BY <1>1, FS_AddElement DEF LimiterInv
  <1>3. SlotsBounded'
    BY <1>2, LimitsType DEF Admit, LimiterInv, SlotsBounded, LimiterTypeOK
  <1>4. \A u \in Tasks : task'[u] = "parked" <=> task[u] = "parked"
    BY DEF Admit, LimiterInv, LimiterTypeOK
  <1>5. LimiterTypeOK'
    <2>1. {u \in Tasks : task'[u] = "parked"} = {u \in Tasks : task[u] = "parked"}
      BY <1>4
    <2> QED
      BY <1>4, <2>1 DEF Admit, LimiterInv, LimiterTypeOK, TaskStates
  <1>6. NoIdleSlot'
    BY LimitsType DEF Admit, LimiterInv, NoIdleSlot, LimiterTypeOK
  <1> QED
    BY <1>2, <1>3, <1>5, <1>6 DEF LimiterInv

\* A task that parks joins the end of the line, behind a full set of holders.
LEMMA ParkInv ==
  ASSUME LimiterInv, NEW t \in Tasks, Park(t)
  PROVE  LimiterInv'
  <1>1. Holders' = Holders
    BY DEF Park, Holders, LimiterInv, LimiterTypeOK, TaskStates
  <1>2. \A u \in Tasks : task'[u] = "parked" <=> task[u] = "parked" \/ u = t
    BY DEF Park, LimiterInv, LimiterTypeOK
  <1>3. task[t] = "idle"
    BY DEF Park
  <1>4. waiters' = Append(waiters, t)
    BY DEF Park
  <1> DEFINE P == {u \in Tasks : task[u] = "parked"}
             Q == {u \in Tasks : task'[u] = "parked"}
  <1>5. P \subseteq Q /\ t \in Q
    BY <1>2
  <1>6. waiters \in Seq(P) /\ waiters \in Seq(Q)
    BY <1>5 DEF LimiterInv, LimiterTypeOK
  <1>7. /\ waiters' \in Seq(Q) /\ Len(waiters') = Len(waiters) + 1
        /\ \A k \in 1..Len(waiters) : waiters'[k] = waiters[k]
        /\ waiters'[Len(waiters) + 1] = t
    BY <1>4, <1>5, <1>6
  <1>8. \A k \in 1..Len(waiters) : waiters[k] # t
    BY <1>3, <1>6
  <1>9. Len(waiters) \in Nat
    BY <1>6
  <1>10. \A u \in Tasks : task'[u] = "parked" => \E k \in 1..Len(waiters') : waiters'[k] = u
    <2>1. TAKE u \in Tasks
    <2>2. CASE u = t
      BY <2>2, <1>7, <1>9
    <2>3. CASE u # t /\ task'[u] = "parked"
      <3>1. PICK k \in 1..Len(waiters) : waiters[k] = u
        BY <2>3, <1>2 DEF LimiterInv, LimiterTypeOK
      <3> QED
        BY <3>1, <1>7, <1>9
    <2> QED
      BY <2>2, <2>3
  <1>11. \A k, l \in 1..Len(waiters') : waiters'[k] = waiters'[l] => k = l
    <2>1. \A k \in 1..Len(waiters') : k \in 1..Len(waiters) \/ k = Len(waiters) + 1
      BY <1>7, <1>9
    <2> QED
      BY <2>1, <1>7, <1>8 DEF LimiterInv, LimiterTypeOK
  <1>12. Len(waiters') <= MaxQueued
    BY <1>7, <1>9, LimitsType DEF Park
  <1>13. LimiterTypeOK'
    BY <1>7, <1>10, <1>11, <1>12 DEF Park, LimiterInv, LimiterTypeOK, TaskStates
  <1>14. SlotsBounded' /\ IsFiniteSet(Holders')
    BY <1>1 DEF Park, LimiterInv, SlotsBounded
  <1>15. NoIdleSlot'
    BY LimitsType DEF Park, LimiterInv, SlotsBounded, NoIdleSlot, LimiterTypeOK
  <1> QED
    BY <1>13, <1>14, <1>15 DEF LimiterInv

\* A rejected call of run() changes nothing but its own fate; neither does a waiter that
\* comes back with the slot it was handed.
LEMMA QuietInv ==
  ASSUME LimiterInv, NEW t \in Tasks, RefuseFull(t) \/ RefuseClosed(t) \/ Resume(t)
  PROVE  LimiterInv'
  <1>1. Holders' = Holders
    BY DEF RefuseFull, RefuseClosed, Resume, Holders, LimiterInv, LimiterTypeOK, TaskStates
  <1>2. \A u \in Tasks : task'[u] = "parked" <=> task[u] = "parked"
    BY DEF RefuseFull, RefuseClosed, Resume, LimiterInv, LimiterTypeOK
  <1>3. {u \in Tasks : task'[u] = "parked"} = {u \in Tasks : task[u] = "parked"}
    BY <1>2
  <1>4. LimiterTypeOK'
    BY <1>2, <1>3 DEF RefuseFull, RefuseClosed, Resume, LimiterInv, LimiterTypeOK, TaskStates
  <1>5. SlotsBounded' /\ IsFiniteSet(Holders') /\ NoIdleSlot'
    BY <1>1 DEF RefuseFull, RefuseClosed, Resume, LimiterInv, SlotsBounded, NoIdleSlot
  <1> QED
    BY <1>4, <1>5 DEF LimiterInv

\* The tail of the line without its head.
LEMMA TailLine ==
  ASSUME LimiterInv, waiters # <<>>
  PROVE  /\ Head(waiters) \in Tasks /\ task[Head(waiters)] = "parked"
         /\ Len(waiters) \in Nat \ {0}
         /\ Len(Tail(waiters)) = Len(waiters) - 1
         /\ \A k \in 1..(Len(waiters) - 1) : Tail(waiters)[k] = waiters[k + 1]
         /\ \A k \in 1..(Len(waiters) - 1) : Tail(waiters)[k] # Head(waiters)
         /\ Tail(waiters) \in Seq({u \in Tasks : task[u] = "parked"} \ {Head(waiters)})
  <1> DEFINE P == {u \in Tasks : task[u] = "parked"}
             n == Len(waiters)
  <1>1. waiters \in Seq(P)
    BY DEF LimiterInv, LimiterTypeOK
  <1>2. n \in Nat \ {0} /\ Head(waiters) = waiters[1] /\ Head(waiters) \in P
    BY <1>1, EmptySeq
  <1>3. /\ Tail(waiters) \in Seq(P) /\ Len(Tail(waiters)) = n - 1
        /\ \A k \in 1..(n - 1) : Tail(waiters)[k] = waiters[k + 1]
    BY <1>1
  <1>4. \A k \in 1..(n - 1) : Tail(waiters)[k] # Head(waiters)
    <2>1. TAKE k \in 1..(n - 1)
    <2>2. k + 1 \in 1..n /\ 1 \in 1..n /\ k + 1 # 1
      BY <1>2
    <2>3. waiters[k + 1] # waiters[1]
      BY <2>2 DEF LimiterInv, LimiterTypeOK
    <2> QED
      BY <2>3, <1>2, <1>3
  <1>5. Tail(waiters) \in Seq(P \ {Head(waiters)})
    <2> DEFINE s == Tail(waiters)
               R == P \ {Head(waiters)}
    <2>1. s \in [1..Len(s) -> P] /\ Len(s) \in Nat
      BY <1>3, LenProperties
    <2>2. \A k \in 1..Len(s) : s[k] \in R
      BY <2>1, <1>3, <1>4
    <2>3. s \in [1..Len(s) -> R]
      BY <2>1, <2>2
    <2> HIDE DEF s, R
    <2>4. s \in Seq(R)
      BY <2>1, <2>3, SeqDef
    <2> QED
      BY <2>4 DEF s, R
  <1> QED
    BY <1>2, <1>3, <1>4, <1>5

\* A slot that is given up goes to the head of the line, or one holder less is counted.
LEMMA SettleInv ==
  ASSUME LimiterInv, NEW t \in Tasks, Settle(t)
  PROVE  LimiterInv'
  <1>1. t \in Holders /\ task[t] = "running"
    BY DEF Settle, Holders
  <1>2. CASE waiters = <<>>
    <2>1. Holders' = Holders \ {t}
      BY <1>1, <1>2 DEF Settle, HandOver, Holders, LimiterInv, LimiterTypeOK
    <2>2. IsFiniteSet(Holders') /\ Cardinality(Holders') = Cardinality(Holders) - 1
      BY <1>1, <2>1, FS_RemoveElement DEF LimiterInv
    <2>3. active' = active - 1 /\ active' \in Nat
      BY <1>1, <1>2, <2>2, FS_CardinalityType DEF Settle, HandOver, LimiterInv, SlotsBounded
    <2>4. SlotsBounded'
      BY <2>2, <2>3, LimitsType DEF LimiterInv, SlotsBounded, LimiterTypeOK
    <2>5. \A u \in Tasks : task'[u] = "parked" <=> task[u] = "parked"
      BY <1>1, <1>2 DEF Settle, HandOver, LimiterInv, LimiterTypeOK
    <2>6. LimiterTypeOK'
      BY <1>2, <2>3, <2>5 DEF Settle, HandOver, LimiterInv, LimiterTypeOK, TaskStates
    <2>7. NoIdleSlot'
      BY <1>2 DEF Settle, HandOver, NoIdleSlot
    <2> QED
      BY <2>2, <2>4, <2>6, <2>7 DEF LimiterInv
  <1>3. CASE waiters # <<>>
    <2> DEFINE h == Head(waiters)
    <2>1. h \in Tasks /\ h # t /\ h \notin Holders
      BY <1>1, <1>3, TailLine DEF Holders
    <2>2. /\ waiters' = Tail(waiters) /\ active' = active /\ closed' = closed
          /\ task' = [task EXCEPT ![t] = "done", ![h] = "resumed"]
      BY <1>3 DEF Settle, HandOver
    <2>3. Holders' = (Holders \ {t}) \cup {h}
      BY <1>1, <2>1, <2>2 DEF Holders, LimiterInv, LimiterTypeOK
    <2>4. IsFiniteSet(Holders \ {t}) /\ Cardinality(Holders \ {t}) = Cardinality(Holders) - 1
      BY <1>1, FS_RemoveElement DEF LimiterInv
    <2>5. IsFiniteSet(Holders') /\ Cardinality(Holders') = Cardinality(Holders)
      BY <2>1, <2>3, <2>4, FS_AddElement, FS_CardinalityType DEF LimiterInv
    <2>6. SlotsBounded'
      BY <2>2, <2>5 DEF LimiterInv, SlotsBounded
    <2>7. {u \in Tasks : task'[u] = "parked"} = {u \in Tasks : task[u] = "parked"} \ {h}
      BY <1>1, <2>1, <2>2 DEF LimiterInv, LimiterTypeOK
    <2>8. \A u \in Tasks : task'[u] = "parked" => \E k \in 1..Len(waiters') : waiters'[k] = u
      <3>1. SUFFICES ASSUME NEW u \in Tasks, task'[u] = "parked"
                     PROVE  \E k \in 1..Len(waiters') : waiters'[k] = u
        OBVIOUS
      <3>2. task[u] = "parked" /\ u # h
        BY <3>1, <2>7
      <3>3. PICK k \in 1..Len(waiters) : waiters[k] = u
        BY <3>2 DEF LimiterInv, LimiterTypeOK
      <3>4. k # 1
        BY <3>2, <3>3, <1>3, TailLine DEF LimiterInv, LimiterTypeOK
      <3>5. k - 1 \in 1..Len(Tail(waiters)) /\ Tail(waiters)[k - 1] = u
        BY <3>3, <3>4, <1>3, TailLine
      <3> QED
        BY <3>5, <2>2
    <2>9. \A k, l \in 1..Len(waiters') : waiters'[k] = waiters'[l] => k = l
      <3>1. SUFFICES ASSUME NEW k \in 1..(Len(waiters) - 1), NEW l \in 1..(Len(waiters) - 1),
                            Tail(waiters)[k] = Tail(waiters)[l]
                     PROVE  k = l
        BY <1>3, <2>2, TailLine
      <3>2. k + 1 \in 1..Len(waiters) /\ l + 1 \in 1..Len(waiters)
        BY <1>3, TailLine
      <3>3. waiters[k + 1] = waiters[l + 1]
        BY <3>1, <1>3, TailLine
      <3> QED
        BY <3>2, <3>3 DEF LimiterInv, LimiterTypeOK
    <2>10. Len(waiters') <= MaxQueued
      BY <1>3, <2>2, TailLine, LimitsType DEF LimiterInv, LimiterTypeOK
    <2>11. task' \in [Tasks -> TaskStates]
      BY <2>2 DEF LimiterInv, LimiterTypeOK, TaskStates
    <2>12. waiters' \in Seq({u \in Tasks : task'[u] = "parked"})
      BY <1>3, <2>2, <2>7, TailLine
    <2>13. LimiterTypeOK'
      BY <2>2, <2>8, <2>9, <2>10, <2>11, <2>12 DEF LimiterInv, LimiterTypeOK
    <2>14. NoIdleSlot'
      BY <1>3, <2>2 DEF LimiterInv, NoIdleSlot
    <2> QED
      BY <2>5, <2>6, <2>13, <2>14 DEF LimiterInv
  <1> QED
    BY <1>2, <1>3

\* close() empties the line and leaves the holders alone.
LEMMA CloseInv ==
  ASSUME LimiterInv, Close
  PROVE  LimiterInv'
  <1>1. Holders' = Holders
    BY DEF Close, Holders, LimiterInv, LimiterTypeOK
  <1>2. \A u \in Tasks : task'[u] # "parked" /\ task'[u] \in TaskStates
    BY DEF Close, LimiterInv, LimiterTypeOK, TaskStates
  <1>3. LimiterTypeOK'
    BY <1>2, LimitsType DEF Close, LimiterInv, LimiterTypeOK
  <1>4. SlotsBounded' /\ IsFiniteSet(Holders') /\ NoIdleSlot'
    BY <1>1 DEF Close, LimiterInv, SlotsBounded, NoIdleSlot
  <1> QED
    BY <1>3, <1>4 DEF LimiterInv

\* Every step of the limiter keeps the invariant.
LEMMA LimiterStepInv ==
  ASSUME LimiterInv, [LimiterNext]_limiterVars
  PROVE  LimiterInv'
  <1>1. CASE UNCHANGED limiterVars
    BY <1>1 DEF limiterVars, LimiterInv, LimiterTypeOK, SlotsBounded, NoIdleSlot, Holders
  <1>2. ASSUME NEW t \in Tasks, Run(t) \/ Resume(t) \/ Settle(t)
        PROVE  LimiterInv'
    BY <1>2, AdmitInv, ParkInv, QuietInv, SettleInv DEF Run
  <1>3. CASE Close
    BY <1>3, CloseInv
  <1> QED
    BY <1>1, <1>2, <1>3 DEF LimiterNext

\* In every reachable state the line is the parked tasks, the count is the slots held,
\* and there is no idle slot while somebody waits.
THEOREM LimiterInductive == LimiterSpec => []LimiterInv
  BY LimiterInitInv, LimiterStepInv, PTL DEF LimiterSpec

\* The count of active tasks is the number of tasks that hold a slot, also between a slot
\* that was handed over and its new holder, and never exceeds the maximum.
THEOREM LimiterBounds == LimiterSpec => []SlotsBounded
  <1>1. LimiterInv => SlotsBounded
    BY DEF LimiterInv
  <1> QED
    BY <1>1, LimiterInductive, PTL

\* No task waits beside a free slot or behind a closed gate.
THEOREM LimiterWorkConserving == LimiterSpec => []NoIdleSlot
  <1>1. LimiterInv => NoIdleSlot
    BY DEF LimiterInv
  <1> QED
    BY <1>1, LimiterInductive, PTL

-----------------------------------------------------------------------------
(* The limiter implements SlotPool *)

Over == {t \in Tasks : task[t] \in {"done", "refused", "closed"}}

\* The line of the pool is the parked tasks; a task that has not called run() is new.
LEMMA MappedLine ==
  ASSUME LimiterInv
  PROVE  /\ Pool!InLine = {u \in Tasks : task[u] = "parked"}
         /\ \A t \in Tasks : task[t] = "idle" => t \in Pool!New
  <1>1. DOMAIN waiters = 1..Len(waiters)
    BY LenProperties DEF LimiterInv, LimiterTypeOK
  <1>2. \A k \in 1..Len(waiters) : waiters[k] \in {u \in Tasks : task[u] = "parked"}
    BY ElementOfSeq DEF LimiterInv, LimiterTypeOK
  <1>3. Pool!InLine = {u \in Tasks : task[u] = "parked"}
    BY <1>1, <1>2 DEF LimiterInv, LimiterTypeOK, Pool!InLine
  <1> QED
    BY <1>3 DEF Pool!New, Holders

\* A full pool is a count at its maximum.
LEMMA MappedFull ==
  ASSUME LimiterInv
  PROVE  Pool!Full <=> active >= Max
  <1>1. Pool!Cardinality(Holders) = Cardinality(Holders)
    BY DEF Pool!Cardinality, Cardinality
  <1> QED
    BY <1>1 DEF Pool!Full, LimiterInv, SlotsBounded

\* Taking a free slot is entering the pool, parking is waiting in line, and a rejected
\* call is turned away.
LEMMA RunRefines ==
  ASSUME LimiterInv, NEW t \in Tasks, Run(t)
  PROVE  Pool!Next
  <1>1. t \in Pool!New /\ task[t] = "idle"
    BY MappedLine DEF Run, Admit, Park, RefuseFull, RefuseClosed
  <1>2. active = Cardinality(Holders) /\ task \in [Tasks -> TaskStates]
    BY DEF LimiterInv, SlotsBounded, LimiterTypeOK
  <1>3. ASSUME Admit(t)
        PROVE  Pool!Enter(t)
    <2>1. Holders' = Holders \cup {t} /\ Over' = Over
      BY <1>2, <1>3 DEF Admit, Holders, Over, TaskStates
    <2>2. ~Pool!Full
      BY <1>3, MappedFull, LimitsType DEF Admit, LimiterInv, LimiterTypeOK
    <2> QED
      BY <1>1, <1>3, <2>1, <2>2 DEF Admit, Pool!Enter, Over
  <1>4. ASSUME Park(t)
        PROVE  Pool!Wait(t)
    <2>1. Holders' = Holders /\ Over' = Over
      BY <1>2, <1>4 DEF Park, Holders, Over, TaskStates
    <2> QED
      BY <1>1, <1>4, <2>1, MappedFull DEF Park, Pool!Wait, Over
  <1>5. ASSUME RefuseFull(t) \/ RefuseClosed(t)
        PROVE  Pool!TurnAway(t)
    <2>1. Holders' = Holders /\ Over' = Over \cup {t}
      BY <1>2, <1>5 DEF RefuseFull, RefuseClosed, Holders, Over, TaskStates
    <2> QED
      BY <1>1, <1>5, <2>1, MappedFull DEF RefuseFull, RefuseClosed, Pool!TurnAway, Over
  <1> QED
    BY <1>3, <1>4, <1>5 DEF Run, Pool!Next

\* The waiter that takes up the slot it was handed is a stutter: the pool gave it the
\* slot when its last holder left.
LEMMA ResumeRefines ==
  ASSUME LimiterInv, NEW t \in Tasks, Resume(t)
  PROVE  UNCHANGED Pool!vars
  <1>1. Holders' = Holders /\ Over' = Over
    BY DEF Resume, Holders, Over, LimiterInv, LimiterTypeOK, TaskStates
  <1> QED
    BY <1>1 DEF Resume, Pool!vars, Over

\* A task that ends leaves the pool, and the head of the line enters in the same step.
LEMMA SettleRefines ==
  ASSUME LimiterInv, NEW t \in Tasks, Settle(t)
  PROVE  Pool!Next
  <1>1. t \in Holders /\ task[t] = "running" /\ task \in [Tasks -> TaskStates]
    BY DEF Settle, Holders, LimiterInv, LimiterTypeOK
  <1>2. CASE waiters = <<>>
    <2>1. Holders' = Holders \ {t} /\ Over' = Over \cup {t}
      BY <1>1, <1>2 DEF Settle, HandOver, Holders, Over, TaskStates
    <2>2. Pool!Leave(t)
      BY <1>1, <1>2, <2>1 DEF Settle, HandOver, Pool!Leave, Over
    <2> QED
      BY <2>2 DEF Pool!Next
  <1>3. CASE waiters # <<>>
    <2> DEFINE h == Head(waiters)
    <2>1. h \in Tasks /\ task[h] = "parked" /\ h # t
      BY <1>1, <1>3, TailLine
    <2>2. task' = [task EXCEPT ![t] = "done", ![h] = "resumed"] /\ waiters' = Tail(waiters)
      BY <1>3 DEF Settle, HandOver
    <2>3. Holders' = (Holders \ {t}) \cup {h} /\ Over' = Over \cup {t}
      BY <1>1, <2>1, <2>2 DEF Holders, Over, TaskStates
    <2>4. Pool!Leave(t)
      BY <1>1, <1>3, <2>2, <2>3 DEF Settle, Pool!Leave, Over
    <2> QED
      BY <2>4 DEF Pool!Next
  <1> QED
    BY <1>2, <1>3

\* close() shuts the door on the whole line.
LEMMA CloseRefines ==
  ASSUME LimiterInv, Close
  PROVE  Pool!Next
  <1>1. Holders' = Holders /\ Over' = Over \cup {u \in Tasks : task[u] = "parked"}
    BY DEF Close, Holders, Over, LimiterInv, LimiterTypeOK, TaskStates
  <1>2. Over' = Over \cup Pool!InLine
    BY <1>1, MappedLine
  <1>3. Pool!Shut
    BY <1>1, <1>2 DEF Close, Pool!Shut, Over
  <1> QED
    BY <1>3 DEF Pool!Next

\* The counter, the hand-over and the microtask gap of the limiter are, seen from its
\* callers, a pool of slots with a bounded line served in order of arrival.
THEOREM LimiterImplementsPool == LimiterSpec => ImplementsPool
  <1>1. LimiterInit => Pool!Init
    <2>1. ASSUME LimiterInit
          PROVE  Holders = {} /\ Over = {}
      BY <2>1 DEF LimiterInit, Holders, Over
    <2> QED
      BY <2>1 DEF LimiterInit, Pool!Init, Over
  <1>2. LimiterInv /\ [LimiterNext]_limiterVars => [Pool!Next]_(Pool!vars)
    <2> SUFFICES ASSUME LimiterInv, [LimiterNext]_limiterVars
                 PROVE  [Pool!Next]_(Pool!vars)
      OBVIOUS
    <2>1. CASE UNCHANGED limiterVars
      BY <2>1 DEF limiterVars, Pool!vars, Holders
    <2>2. ASSUME NEW t \in Tasks, Run(t) \/ Resume(t) \/ Settle(t)
          PROVE  [Pool!Next]_(Pool!vars)
      BY <2>2, RunRefines, ResumeRefines, SettleRefines
    <2>3. CASE Close
      BY <2>3, CloseRefines
    <2> QED
      BY <2>1, <2>2, <2>3 DEF LimiterNext
  <1> QED
    BY <1>1, <1>2, LimiterInductive, PTL DEF LimiterSpec, ImplementsPool, Pool!Spec
=============================================================================
