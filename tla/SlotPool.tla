------------------------------ MODULE SlotPool ------------------------------
(***************************************************************************)
(* What ConcurrencyLimiter promises to its callers                          *)
(* (openwa/src/common/utils/concurrency-limiter.ts): a fixed number of      *)
(* slots, a bounded line served in order of arrival, no slot idle while     *)
(* somebody is in line, and a door that can be shut.  There is no counter   *)
(* and no gap between a slot that is freed and its next holder.             *)
(***************************************************************************)
EXTENDS Integers, Sequences, FiniteSets

CONSTANTS Tasks, Max, MaxQueued

VARIABLES
  serving,  \* tasks that hold a slot
  line,     \* tasks waiting for one
  over,     \* tasks that were served or turned away
  shut

vars == <<serving, line, over, shut>>

InLine == {line[k] : k \in DOMAIN line}
New == Tasks \ (serving \cup InLine \cup over)

Init == serving = {} /\ line = <<>> /\ over = {} /\ shut = FALSE

Full == Cardinality(serving) >= Max

\* A task that comes to a free slot takes it.
Enter(t) ==
  /\ t \in New /\ ~shut /\ ~Full
  /\ serving' = serving \cup {t}
  /\ UNCHANGED <<line, over, shut>>

\* One that comes to a full pool goes to the end of the line.
Wait(t) ==
  /\ t \in New /\ ~shut /\ Full /\ Len(line) < MaxQueued
  /\ line' = Append(line, t)
  /\ UNCHANGED <<serving, over, shut>>

\* One that comes to a full line, or to a shut door, is turned away.
TurnAway(t) ==
  /\ t \in New
  /\ shut \/ (Full /\ Len(line) >= MaxQueued)
  /\ over' = over \cup {t}
  /\ UNCHANGED <<serving, line, shut>>

\* A slot that is given up goes to the head of the line in the same step.
Leave(t) ==
  /\ t \in serving
  /\ over' = over \cup {t}
  /\ IF line = <<>>
     THEN serving' = serving \ {t} /\ UNCHANGED line
     ELSE serving' = (serving \ {t}) \cup {Head(line)} /\ line' = Tail(line)
  /\ UNCHANGED shut

\* The door shuts on everybody in line.
Shut ==
  /\ shut' = TRUE
  /\ over' = over \cup InLine
  /\ line' = <<>>
  /\ UNCHANGED serving

Next ==
  \/ \E t \in Tasks : Enter(t) \/ Wait(t) \/ TurnAway(t) \/ Leave(t)
  \/ Shut

Spec == Init /\ [][Next]_vars
=============================================================================
