----------------------- MODULE IngressPipelineProofs -----------------------
(***************************************************************************)
(* The ingress pipeline for every set of deliveries and dead letters and    *)
(* every budget: type correctness, the bound on what the sweep replays, and *)
(* that no recorded delivery is lost.                                       *)
(***************************************************************************)
EXTENDS IngressPipeline, FiniteSetTheorems, TLAPS

EventTypes == [state : {"none", "pending", "dispatched", "failed"},
               born : Nat, tries : Nat, aged : BOOLEAN, touched : BOOLEAN]
LetterTypes == [of : Deliveries \cup {None}, redriven : BOOLEAN]
JobStates == {"none", "waiting", "running", "saving", "thrown", "stalled", "completed", "failed"}
JobTypes == [state : JobStates, made : 0..JobAttempts, stalls : 0..(MaxStalled + 1)]
SweepTypes == [at : {"idle", "turn", "enqueue", "inline", "mark", "retire", "count", "letter",
                     "close", "bump"},
               row : Deliveries \cup {None}, rows : SUBSET Deliveries, tries : [Deliveries -> Nat]]
RedriveTypes == [at : {"idle", "turn", "inline", "retire", "close"}, rows : SUBSET Letters,
                 row : Letters \cup {None}]

\* TypeOK in parts.
EventsTyped == event \in [Deliveries -> EventTypes]
LettersTyped == letter \in [Letters -> LetterTypes] /\ last \in [Deliveries -> Letters \cup {None}]
JobsTyped == job \in [Jobs -> JobTypes]
LiveTyped == live \in [Deliveries -> {"off", "enqueue", "inline", "mark", "bump", "touch", "letter"}]
SweepTyped == sweep \in SweepTypes /\ (sweep.at # "idle" => sweep.row \in Deliveries)
RedriveTyped == redrive \in RedriveTypes
RestTyped == /\ {up, reach} \subseteq BOOLEAN /\ enabled \subseteq Instances
             /\ delivered \subseteq Deliveries /\ replays \in [Deliveries -> Nat]
             /\ {faults, crashes, orders} \subseteq Nat

\* A job that has not failed has an attempt left, and no more stalls than the process crashed.
Spent(j) == job[j].stalls + (IF JobAt(j, "stalled") THEN 1 ELSE 0)
HasLeft(j) == ~JobAt(j, "failed") => job[j].made < JobAttempts /\ job[j].stalls <= MaxStalled
\* The dead letter of a redrive's job, and of a row being replayed, is written.
Written(l) == letter[l].of \in Deliveries
Held == /\ \A j \in Jobs : HasLeft(j)
        /\ \A l \in Letters : ~JobAt(l, "none") => Written(l)
        /\ \A l \in Letters : letter[l].redriven => Written(l)
        /\ \A l \in redrive.rows : Written(l)
        /\ redrive.at \in {"inline", "retire", "close"} => redrive.row \in Letters /\ Written(redrive.row)

TypeInv == /\ EventsTyped /\ LettersTyped /\ JobsTyped /\ LiveTyped /\ SweepTyped /\ RedriveTyped
           /\ RestTyped /\ Held

LEMMA TypeInvTyped == TypeInv => TypeOK
  BY DEF TypeInv, TypeOK, EventsTyped, LettersTyped, JobsTyped, LiveTyped, SweepTyped, RedriveTyped,
     RestTyped, EventTypes, LetterTypes, JobTypes, JobStates, SweepTypes, RedriveTypes

LEMMA Names == None \notin Deliveries /\ None \notin Letters
  BY IngressAssumption

-----------------------------------------------------------------------------
(* The operators of the steps *)

LEMMA WithJobTyped ==
  ASSUME TypeInv, NEW j \in Jobs
  PROVE  /\ WithJob(j) \in [Jobs -> JobTypes] /\ WithJob(j)[j].state # "none"
         /\ \A k \in Jobs : k # j => WithJob(j)[k] = job[k]
         /\ \A k \in Jobs : ~JobAt(k, "none") => WithJob(j)[k] = job[k]
         /\ \A k \in Jobs : /\ WithJob(j)[k].made = job[k].made
                            /\ WithJob(j)[k].stalls = job[k].stalls
                            /\ WithJob(j)[k].state \in {job[k].state, "waiting"}
  BY DEF TypeInv, JobsTyped, JobTypes, JobStates, WithJob, JobAt

\* Adding a job touches only one that was not there.
Adds(j) == /\ job' \in [Jobs -> JobTypes]
           /\ \A k \in Jobs : ~JobAt(k, "none") => job'[k] = job[k]
           /\ \A k \in Jobs : k # j => job'[k] = job[k]
           /\ \A k \in Jobs : /\ job'[k].made = job[k].made /\ job'[k].stalls = job[k].stalls
                              /\ job'[k].state \in {job[k].state, "waiting"}

LEMMA QueuedAdds ==
  ASSUME TypeInv, NEW j \in Jobs, Queued(j)
  PROVE  Adds(j) /\ job'[j].state # "none"
  BY WithJobTyped DEF Queued, Adds

LEMMA RefusedAdds ==
  ASSUME TypeInv, NEW j \in Jobs, Refused(j)
  PROVE  Adds(j)
  <1>1. job' \in {job, WithJob(j)}
    BY DEF Refused
  <1>2. CASE job' = WithJob(j)
    BY <1>2, WithJobTyped DEF Adds
  <1>3. CASE job' = job
    BY <1>3 DEF Adds, TypeInv, JobsTyped
  <1> QED
    BY <1>1, <1>2, <1>3

\* A new dead letter is one that was free; the others stay.
LEMMA LetterWritten ==
  ASSUME TypeInv, NEW d \in Deliveries, WriteLetter(d)
  PROVE  /\ NewLetter \in Letters /\ letter[NewLetter] = NoLetter
         /\ LettersTyped'
         /\ letter'[NewLetter].of = d /\ ~letter'[NewLetter].redriven
         /\ \A l \in Letters : l # NewLetter => letter'[l] = letter[l]
         /\ last'[d] = NewLetter
         /\ \A e \in Deliveries : e # d => last'[e] = last[e]
         /\ \A l \in Letters : Written(l) => letter'[l] = letter[l]
         /\ \A l \in Letters : Written(l)' => Written(l) \/ l = NewLetter
  <1>1. NewLetter \in Free
    BY DEF NewLetter, WriteLetter
  <1>2. NewLetter \in Letters /\ letter[NewLetter] = NoLetter
    BY <1>1 DEF Free
  <1> HIDE DEF NewLetter
  <1>3. letter \in [Letters -> LetterTypes] /\ last \in [Deliveries -> Letters \cup {None}]
    BY DEF TypeInv, LettersTyped
  <1>4. letter' = [letter EXCEPT ![NewLetter].of = d] /\ last' = [last EXCEPT ![d] = NewLetter]
    BY DEF WriteLetter
  <1>5. letter'[NewLetter].of = d /\ ~letter'[NewLetter].redriven
    BY <1>2, <1>3, <1>4 DEF LetterTypes, NoLetter
  <1>6. \A l \in Letters : l # NewLetter => letter'[l] = letter[l]
    BY <1>2, <1>3, <1>4
  <1>7. letter' \in [Letters -> LetterTypes]
    BY <1>2, <1>3, <1>4 DEF LetterTypes
  <1>8. last' \in [Deliveries -> Letters \cup {None}]
    BY <1>2, <1>3, <1>4
  <1>9. ~Written(NewLetter)
    BY <1>2, Names DEF Written, NoLetter
  <1> QED
    BY <1>2, <1>3, <1>4, <1>5, <1>6, <1>7, <1>8, <1>9 DEF LettersTyped, Written

LEMMA MarkIs ==
  ASSUME EventsTyped, NEW d \in Deliveries, MarkDispatched(d)
  PROVE  event' = [event EXCEPT ![d] = [event[d] EXCEPT !.state = "dispatched", !.touched = TRUE]]
  BY DEF MarkDispatched, EventsTyped, EventTypes

LEMMA SweepGoesTyped ==
  ASSUME NEW rows \in SUBSET Deliveries, NEW tries \in [Deliveries -> Nat], SweepGoes(rows, tries)
  PROVE  SweepTyped' /\ sweep'.at \in {"idle", "turn"}
  <1>1. CASE rows = {}
    BY <1>1 DEF SweepGoes, SweepTyped, SweepTypes, NoSweep, NoTries
  <1>2. CASE rows # {}
    <2>1. PICK d \in rows :
            sweep' = [at |-> "turn", row |-> d, rows |-> rows \ {d}, tries |-> tries]
      BY <1>2 DEF SweepGoes
    <2> QED
      BY <2>1 DEF SweepTyped, SweepTypes
  <1> QED
    BY <1>1, <1>2

LEMMA SweepNextTyped ==
  ASSUME TypeInv, SweepNext
  PROVE  SweepTyped' /\ sweep'.at \in {"idle", "turn"}
  BY SweepGoesTyped DEF TypeInv, SweepTyped, SweepTypes, SweepNext

LEMMA SweepToTyped ==
  ASSUME TypeInv, ~SweepAt("idle"),
         NEW l \in {"enqueue", "inline", "mark", "retire", "count", "letter", "close", "bump"}, SweepTo(l)
  PROVE  SweepTyped' /\ sweep'.at = l /\ sweep'.row = sweep.row
  BY DEF TypeInv, SweepTyped, SweepTypes, SweepTo, SweepAt

-----------------------------------------------------------------------------
(* Types *)

LEMMA InitTyped == Init => TypeInv
  <1> SUFFICES ASSUME Init PROVE TypeInv
    OBVIOUS
  <1> USE IngressAssumption DEF Init
  <1>1. EventsTyped /\ LettersTyped /\ LiveTyped
    BY DEF EventsTyped, EventTypes, LettersTyped, LetterTypes, LiveTyped, NoLetter
  <1>2. JobsTyped
    BY DEF JobsTyped, JobTypes, JobStates, NoJob
  <1>3. SweepTyped /\ RedriveTyped
    BY DEF SweepTyped, SweepTypes, RedriveTyped, RedriveTypes, NoSweep, NoTries, NoRedrive
  <1>4. RestTyped
    BY DEF RestTyped
  <1>5. Held
    BY DEF Held, HasLeft, Written, JobAt, NoJob, NoLetter, NoRedrive, Jobs
  <1> QED
    BY <1>1, <1>2, <1>3, <1>4, <1>5 DEF TypeInv

\* A step that writes no letter, no job and no row being replayed keeps what is held.
LEMMA HeldKept ==
  ASSUME TypeInv, UNCHANGED <<letter, job, redrive>>
  PROVE  Held'
  BY DEF TypeInv, Held, HasLeft, Written, JobAt

\* Adding a job of a delivery, or of a written letter.
LEMMA HeldByAdding ==
  ASSUME TypeInv, NEW j \in Jobs, Adds(j), j \in Deliveries \/ Written(j), UNCHANGED letter,
         \/ UNCHANGED redrive
         \/ /\ redrive'.rows \subseteq redrive.rows
            /\ redrive'.row \in Letters /\ Written(redrive'.row)
  PROVE  Held' /\ JobsTyped'
  <1>1. \A k \in Jobs : HasLeft(k)'
    BY DEF TypeInv, Held, HasLeft, Adds, JobAt
  <1>2. \A l \in Letters : ~JobAt(l, "none")' => Written(l)
    <2> SUFFICES ASSUME NEW l \in Letters, ~JobAt(l, "none")' PROVE Written(l)
      OBVIOUS
    <2>1. l \in Jobs
      BY DEF Jobs
    <2>2. CASE l = j
      BY <2>2, IngressAssumption
    <2>3. CASE l # j
      BY <2>1, <2>3 DEF Adds, JobAt, TypeInv, Held
    <2> QED
      BY <2>2, <2>3
  <1> QED
    BY <1>1, <1>2 DEF TypeInv, Held, Written, Adds, JobsTyped

LEMMA HeldByLetter ==
  ASSUME TypeInv, NEW d \in Deliveries, WriteLetter(d), UNCHANGED <<job, redrive>>
  PROVE  Held' /\ LettersTyped'
  <1>1. /\ NewLetter \in Letters /\ LettersTyped'
        /\ letter'[NewLetter].of = d /\ ~letter'[NewLetter].redriven
        /\ \A l \in Letters : l # NewLetter => letter'[l] = letter[l]
        /\ \A l \in Letters : Written(l) => letter'[l] = letter[l]
    BY LetterWritten
  <1> HIDE DEF NewLetter
  <1>2. \A l \in Letters : Written(l) => Written(l)'
    BY <1>1 DEF Written
  <1>3. \A l \in Letters : letter'[l].redriven => Written(l)'
    BY <1>1, <1>2 DEF TypeInv, Held
  <1>4. redrive.rows \subseteq Letters
    BY DEF TypeInv, RedriveTyped, RedriveTypes
  <1> QED
    BY <1>1, <1>2, <1>3, <1>4 DEF TypeInv, Held, HasLeft, JobAt

LEMMA LiveStepTyped ==
  ASSUME TypeInv, NEW d \in Deliveries, Live(d) \/ LiveFault(d)
  PROVE  TypeInv'
  <1> USE DEF TypeInv
  <1>j. d \in Jobs
    BY DEF Jobs
  <1>1. CASE LiveEnqueue(d)
    <2>1. Adds(d)
      BY <1>1, <1>j, QueuedAdds, RefusedAdds DEF LiveEnqueue
    <2>2. Held' /\ JobsTyped'
      BY <1>1, <1>j, <2>1, HeldByAdding DEF LiveEnqueue, tables
    <2>3. LiveTyped'
      BY <1>1 DEF LiveEnqueue, LiveTo, LiveTyped
    <2> QED
      BY <1>1, <2>2, <2>3 DEF LiveEnqueue, tables, outside, ghosts, bounds, EventsTyped,
         LettersTyped, SweepTyped, RedriveTyped, RestTyped
  <1>2. CASE LiveInline(d)
    <2>1. Held'
      BY <1>2, HeldKept DEF LiveInline, tables
    <2>2. LiveTyped' /\ delivered' \subseteq Deliveries
      BY <1>2 DEF LiveInline, LiveTo, LiveTyped, Handled, RestTyped
    <2> QED
      BY <1>2, <2>1, <2>2 DEF LiveInline, tables, outside, bounds, EventsTyped, LettersTyped,
         JobsTyped, SweepTyped, RedriveTyped, RestTyped
  <1>3. CASE LiveMark(d) \/ LiveBump(d) \/ LiveTouch(d)
    <2>1. Held'
      BY <1>3, HeldKept DEF LiveMark, LiveBump, LiveTouch
    <2>2. LiveTyped'
      BY <1>3 DEF LiveMark, LiveBump, LiveTouch, LiveTo, LiveTyped
    <2>3. event[d] \in EventTypes /\ \E e \in EventTypes : event' = [event EXCEPT ![d] = e]
      <3>1. event[d] \in EventTypes
        BY DEF EventsTyped
      <3>2. CASE LiveMark(d)
        <4>1. [event[d] EXCEPT !.state = "dispatched", !.touched = TRUE] \in EventTypes
          BY <3>1 DEF EventTypes
        <4> QED
          BY <3>1, <3>2, <4>1, MarkIs DEF LiveMark
      <3>3. CASE LiveBump(d)
        <4>1. [event[d] EXCEPT !.tries = @ + 1] \in EventTypes
          BY <3>1 DEF EventTypes
        <4>2. event' = [event EXCEPT ![d] = [event[d] EXCEPT !.tries = @ + 1]]
          BY <3>3 DEF LiveBump
        <4> QED
          BY <3>1, <4>1, <4>2
      <3>4. CASE LiveTouch(d)
        <4>1. [event[d] EXCEPT !.touched = TRUE] \in EventTypes
          BY <3>1 DEF EventTypes
        <4>2. event' = [event EXCEPT ![d] = [event[d] EXCEPT !.touched = TRUE]]
          BY <3>4 DEF LiveTouch
        <4> QED
          BY <3>1, <4>1, <4>2
      <3> QED
        BY <1>3, <3>2, <3>3, <3>4
    <2>4. EventsTyped'
      BY <2>3 DEF EventsTyped
    <2> QED
      BY <1>3, <2>1, <2>2, <2>4 DEF LiveMark, LiveBump, LiveTouch, outside, ghosts, bounds,
         LettersTyped, JobsTyped, SweepTyped, RedriveTyped, RestTyped
  <1>4. CASE LiveLetter(d)
    <2>1. Held' /\ LettersTyped'
      BY <1>4, HeldByLetter DEF LiveLetter
    <2>2. LiveTyped'
      BY <1>4 DEF LiveLetter, LiveTo, LiveTyped
    <2> QED
      BY <1>4, <2>1, <2>2 DEF LiveLetter, outside, bounds, EventsTyped, JobsTyped, SweepTyped,
         RedriveTyped, RestTyped
  <1>5. CASE LiveFault(d)
    <2>1. Held'
      BY <1>5, HeldKept DEF LiveFault, tables
    <2>2. LiveTyped' /\ faults' \in Nat
      BY <1>5 DEF LiveFault, LiveTo, LiveTyped, Fault, RestTyped
    <2> QED
      BY <1>5, <2>1, <2>2 DEF LiveFault, tables, outside, ghosts, EventsTyped, LettersTyped,
         JobsTyped, SweepTyped, RedriveTyped, RestTyped
  <1> QED
    BY <1>1, <1>2, <1>3, <1>4, <1>5 DEF Live

\* The delivery of a job that is there.
LEMMA OfTyped ==
  ASSUME TypeInv, NEW j \in Jobs, ~JobAt(j, "none")
  PROVE  Of(j) \in Deliveries
  BY DEF TypeInv, Held, Of, Written, Jobs

\* A job moves on: neither rows nor letters are touched.
LEMMA JobMoves ==
  ASSUME TypeInv, NEW j \in Jobs, ~JobAt(j, "none"), NEW r \in JobTypes,
         job' = [job EXCEPT ![j] = r], r.state # "failed" => r.made < JobAttempts /\ r.stalls <= MaxStalled,
         UNCHANGED <<letter, redrive>>
  PROVE  JobsTyped' /\ Held'
  <1>1. JobsTyped'
    BY DEF TypeInv, JobsTyped
  <1>2. \A k \in Jobs : HasLeft(k)'
    BY DEF TypeInv, JobsTyped, Held, HasLeft, JobAt
  <1>3. \A l \in Letters : ~JobAt(l, "none")' => ~JobAt(l, "none")
    BY DEF TypeInv, JobsTyped, JobAt, Jobs
  <1> QED
    BY <1>1, <1>2, <1>3 DEF TypeInv, Held, Written

LEMMA WorkStepTyped ==
  ASSUME TypeInv, NEW j \in Jobs, Work(j)
  PROVE  TypeInv'
  <1> USE DEF TypeInv
  <1>j. job[j] \in JobTypes /\ job \in [Jobs -> JobTypes]
    BY DEF JobsTyped
  <1>c. {JobAttempts, MaxStalled} \subseteq Nat
    BY IngressAssumption
  <1>h. HasLeft(j)
    BY DEF Held
  <1>1. CASE Take(j)
    <2>1. [job[j] EXCEPT !.state = "running"] \in JobTypes
      BY <1>j DEF JobTypes, JobStates
    <2>2. job' = [job EXCEPT ![j] = [job[j] EXCEPT !.state = "running"]]
      BY <1>1 DEF Take
    <2>3. JobsTyped' /\ Held'
      BY <1>1, <1>j, <1>h, <2>1, <2>2, JobMoves DEF Take, JobAt, HasLeft, tables, memory, JobTypes
    <2> QED
      BY <1>1, <2>3 DEF Take, tables, memory, outside, ghosts, bounds, EventsTyped, LettersTyped,
         LiveTyped, SweepTyped, RedriveTyped, RestTyped
  <1>2. CASE Complete(j)
    <2>1. [job[j] EXCEPT !.state = "completed"] \in JobTypes
      BY <1>j DEF JobTypes, JobStates
    <2>2. job' = [job EXCEPT ![j] = [job[j] EXCEPT !.state = "completed"]]
      BY <1>2 DEF Complete
    <2>3. JobsTyped' /\ Held'
      BY <1>2, <1>j, <1>h, <2>1, <2>2, JobMoves DEF Complete, JobAt, HasLeft, tables, memory, JobTypes
    <2>4. delivered' \subseteq Deliveries
      BY <1>2, OfTyped DEF Complete, JobAt, Handled, RestTyped
    <2> QED
      BY <1>2, <2>3, <2>4 DEF Complete, tables, memory, outside, bounds, EventsTyped, LettersTyped,
         LiveTyped, SweepTyped, RedriveTyped, RestTyped
  <1>3. CASE Throw(j)
    <2>1. PICK r \in JobTypes : /\ job' = [job EXCEPT ![j] = r] /\ r.state # "failed"
                                /\ r.made < JobAttempts /\ r.stalls = job[j].stalls
      <3>1. CASE Final(j)
        <4>1. [job[j] EXCEPT !.state = "saving"] \in JobTypes
          BY <1>j DEF JobTypes, JobStates
        <4>2. job' = [job EXCEPT ![j] = [job[j] EXCEPT !.state = "saving"]]
          BY <1>3, <3>1 DEF Throw
        <4> QED
          BY <1>3, <1>j, <1>h, <4>1, <4>2 DEF Throw, JobAt, HasLeft, JobTypes
      <3>2. CASE ~Final(j)
        <4>1. job[j].made + 1 < JobAttempts /\ job[j].made + 1 \in 0..JobAttempts
          BY <3>2, <1>j, <1>c DEF Final, JobTypes
        <4>2. [job[j] EXCEPT !.state = "waiting", !.made = @ + 1] \in JobTypes
          BY <1>j, <4>1 DEF JobTypes, JobStates
        <4>3. job' = [job EXCEPT ![j] = [job[j] EXCEPT !.state = "waiting", !.made = @ + 1]]
          BY <1>3, <1>j, <3>2 DEF Throw, JobTypes
        <4> QED
          BY <1>j, <4>1, <4>2, <4>3 DEF JobTypes
      <3> QED
        BY <3>1, <3>2
    <2>2. JobsTyped' /\ Held'
      BY <1>3, <1>j, <1>h, <2>1, JobMoves DEF Throw, JobAt, HasLeft, tables, memory
    <2> QED
      BY <1>3, <2>2 DEF Throw, tables, memory, outside, ghosts, bounds, EventsTyped, LettersTyped,
         LiveTyped, SweepTyped, RedriveTyped, RestTyped
  <1>4. CASE JobLetter(j)
    <2>1. [job[j] EXCEPT !.state = "thrown"] \in JobTypes
      BY <1>j DEF JobTypes, JobStates
    <2>2. job' = [job EXCEPT ![j] = [job[j] EXCEPT !.state = "thrown"]] /\ JobAt(j, "saving")
      BY <1>4 DEF JobLetter
    <2>3. JobsTyped'
      BY <1>j, <2>1, <2>2 DEF JobsTyped
    <2>4. \A k \in Jobs : HasLeft(k)'
      BY <1>j, <1>h, <2>2 DEF Held, HasLeft, JobAt, JobTypes
    <2>5. \A l \in Letters : ~JobAt(l, "none")' => ~JobAt(l, "none")
      BY <1>j, <2>2 DEF JobAt, Jobs
    <2>6. LettersTyped' /\ \A l \in Letters : /\ Written(l) => Written(l)'
                                              /\ letter'[l].redriven => Written(l)'
      <3>1. CASE WriteLetter(Of(j))
        <4>1. Of(j) \in Deliveries
          BY <2>2, OfTyped DEF JobAt
        <4>2. /\ NewLetter \in Letters /\ LettersTyped' /\ ~letter'[NewLetter].redriven
              /\ \A l \in Letters : l # NewLetter => letter'[l] = letter[l]
              /\ \A l \in Letters : Written(l) => letter'[l] = letter[l]
          BY <3>1, <4>1, LetterWritten
        <4> HIDE DEF NewLetter
        <4> QED
          BY <4>2 DEF Held, Written
      <3>2. CASE UNCHANGED <<letter, last>>
        BY <3>2 DEF LettersTyped, Held, Written
      <3> QED
        BY <1>4, <3>1, <3>2 DEF JobLetter
    <2>7. Held'
      <3>1. redrive' = redrive /\ redrive.rows \subseteq Letters
        BY <1>4 DEF JobLetter, memory, RedriveTyped, RedriveTypes
      <3> QED
        BY <2>4, <2>5, <2>6, <3>1 DEF Held
    <2> QED
      BY <1>4, <2>3, <2>6, <2>7 DEF JobLetter, memory, outside, bounds, EventsTyped, LiveTyped,
         SweepTyped, RedriveTyped, RestTyped
  <1>5. CASE JobFails(j)
    <2>1. job[j].made + 1 \in 0..JobAttempts
      BY <1>5, <1>c, <1>j, <1>h DEF JobFails, JobAt, HasLeft, JobTypes
    <2>2. [job[j] EXCEPT !.state = "failed", !.made = @ + 1] \in JobTypes
      BY <1>j, <2>1 DEF JobTypes, JobStates
    <2>3. job' = [job EXCEPT ![j] = [job[j] EXCEPT !.state = "failed", !.made = @ + 1]]
      BY <1>5, <1>j DEF JobFails, JobTypes
    <2>4. [job[j] EXCEPT !.state = "failed", !.made = @ + 1].state = "failed"
      BY <1>j DEF JobTypes
    <2>5. JobsTyped' /\ Held'
      BY <1>5, <2>2, <2>3, <2>4, JobMoves DEF JobFails, JobAt, tables, memory
    <2> QED
      BY <1>5, <2>5 DEF JobFails, tables, memory, outside, ghosts, bounds, EventsTyped, LettersTyped,
         LiveTyped, SweepTyped, RedriveTyped, RestTyped
  <1>6. CASE Unstall(j)
    <2> DEFINE s == IF job[j].stalls < MaxStalled THEN "waiting" ELSE "failed"
               r == [job[j] EXCEPT !.stalls = @ + 1, !.state = s]
    <2>1. job[j].stalls <= MaxStalled /\ job[j].made < JobAttempts
      BY <1>6, <1>h DEF Unstall, JobAt, HasLeft
    <2>2. job[j].stalls + 1 \in 0..(MaxStalled + 1) /\ job[j].stalls \in Nat
      BY <1>c, <1>j, <2>1 DEF JobTypes
    <2>3. r \in JobTypes
      BY <1>j, <2>2 DEF JobTypes, JobStates
    <2>4. job' = [job EXCEPT ![j] = r]
      BY <1>6, <1>j DEF Unstall, JobTypes
    <2>5. r.state # "failed" => r.made < JobAttempts /\ r.stalls <= MaxStalled
      BY <1>c, <1>j, <2>1, <2>2 DEF JobTypes
    <2> HIDE DEF r
    <2>6. JobsTyped' /\ Held'
      BY <1>6, <2>3, <2>4, <2>5, JobMoves DEF Unstall, JobAt, tables, memory
    <2> QED
      BY <1>6, <2>6 DEF Unstall, tables, memory, outside, ghosts, bounds, EventsTyped, LettersTyped,
         LiveTyped, SweepTyped, RedriveTyped, RestTyped
  <1> QED
    BY <1>1, <1>2, <1>3, <1>4, <1>5, <1>6 DEF Work

\* Steps that change events and the sweep alone.
LEMMA SweepOnly ==
  ASSUME TypeInv, SweepTyped', EventsTyped',
         UNCHANGED <<letter, last, job, live, redrive, outside, delivered, replays, bounds>>
  PROVE  TypeInv'
  <1>1. Held'
    BY HeldKept
  <1> QED
    BY <1>1 DEF TypeInv, outside, bounds, LettersTyped, JobsTyped, LiveTyped, RedriveTyped, RestTyped

LEMMA SweepStepTyped ==
  ASSUME TypeInv, Sweep \/ SweepFault
  PROVE  TypeInv'
  <1> USE DEF TypeInv
  <1>r. ~SweepAt("idle") => Row \in Deliveries /\ Row \in Jobs
    BY DEF SweepTyped, Row, SweepAt, Jobs
  <1>e. event \in [Deliveries -> EventTypes] /\ sweep.tries \in [Deliveries -> Nat]
    BY DEF EventsTyped, SweepTyped, SweepTypes
  <1>1. CASE SweepFind
    <2>1. Due \in SUBSET Deliveries
      BY DEF Due, Stale
    <2>2. [d \in Deliveries |-> IF d \in Due THEN event[d].tries ELSE 0] \in [Deliveries -> Nat]
      BY <1>e DEF EventTypes
    <2>3. SweepTyped'
      BY <1>1, <2>1, <2>2, SweepGoesTyped DEF SweepFind
    <2> QED
      BY <1>1, <2>3, SweepOnly DEF SweepFind, tables, ghosts, EventsTyped
  <1>2. CASE SweepTurn
    <2>1. SweepTyped'
      BY <1>2, SweepToTyped, SweepNextTyped DEF SweepTurn, SweepSkips, SweepAt
    <2> QED
      BY <1>2, <2>1, SweepOnly DEF SweepTurn, tables, ghosts, EventsTyped
  <1>3. CASE SweepEnqueue
    <2>1. SweepTyped'
      BY <1>3, SweepToTyped DEF SweepEnqueue, SweepAt
    <2>2. Adds(Row)
      BY <1>3, <1>r, QueuedAdds, RefusedAdds DEF SweepEnqueue, SweepAt
    <2>3. Held' /\ JobsTyped'
      BY <1>3, <1>r, <2>2, HeldByAdding DEF SweepEnqueue, SweepAt, tables
    <2>4. replays' \in [Deliveries -> Nat]
      <3>1. replays \in [Deliveries -> Nat]
        BY DEF RestTyped
      <3>2. replays' = [replays EXCEPT ![Row] = replays[Row] + 1]
        BY <1>3 DEF SweepEnqueue
      <3>3. Row \in Deliveries
        BY <1>3, <1>r DEF SweepEnqueue, SweepAt
      <3> HIDE DEF Row
      <3>4. replays[Row] + 1 \in Nat
        BY <3>1, <3>3
      <3> QED
        BY <3>1, <3>2, <3>4
    <2> QED
      BY <1>3, <2>1, <2>3, <2>4 DEF SweepEnqueue, tables, outside, bounds, EventsTyped, LettersTyped,
         LiveTyped, RedriveTyped, RestTyped
  <1>4. CASE SweepInline
    <2>1. SweepTyped'
      BY <1>4, SweepToTyped DEF SweepInline, SweepAt, AfterFailure
    <2>2. Held'
      BY <1>4, HeldKept DEF SweepInline, tables
    <2>3. delivered' \subseteq Deliveries
      BY <1>4, <1>r DEF SweepInline, Handled, RestTyped, SweepAt
    <2> QED
      BY <1>4, <2>1, <2>2, <2>3 DEF SweepInline, tables, outside, bounds, EventsTyped, LettersTyped,
         JobsTyped, LiveTyped, RedriveTyped, RestTyped
  <1>5. CASE SweepMark
    <2>1. SweepTyped'
      BY <1>5, SweepToTyped DEF SweepMark, SweepAt
    <2>2. EventsTyped'
      <3>1. Row \in Deliveries /\ event[Row] \in EventTypes
        BY <1>5, <1>r, <1>e DEF SweepMark, SweepAt
      <3>2. [event[Row] EXCEPT !.state = "dispatched", !.touched = TRUE] \in EventTypes
        BY <3>1 DEF EventTypes
      <3> QED
        BY <1>5, <1>e, <3>1, <3>2, MarkIs DEF SweepMark, EventsTyped
    <2> QED
      BY <1>5, <2>1, <2>2, SweepOnly DEF SweepMark, ghosts
  <1>6. CASE SweepRetire
    <2>1. SweepTyped'
      BY <1>6, SweepNextTyped DEF SweepRetire
    <2>2. letter \in [Letters -> LetterTypes] /\ last \in [Deliveries -> Letters \cup {None}]
      BY DEF LettersTyped
    <2>3. letter' \in [Letters -> LetterTypes]
      BY <1>6, <2>2 DEF SweepRetire, LetterTypes
    <2>4. \A l \in Letters : Written(l) => Written(l)'
      BY <1>6, <2>2 DEF SweepRetire, LetterTypes, Written
    <2>5. \A l \in Letters : letter'[l].redriven => Written(l)'
      <3> SUFFICES ASSUME NEW l \in Letters, letter'[l].redriven PROVE Written(l)'
        OBVIOUS
      <3>1. CASE l \in LettersOf(Row)
        <4>1. Written(l)
          BY <1>6, <1>r, <3>1 DEF SweepRetire, SweepAt, LettersOf, Written
        <4> QED
          BY <4>1, <2>4
      <3>2. CASE l \notin LettersOf(Row)
        <4>1. letter'[l] = letter[l]
          BY <1>6, <3>2 DEF SweepRetire
        <4> QED
          BY <4>1, <2>4 DEF Held
      <3> QED
        BY <3>1, <3>2
    <2>6. Held'
      <3>1. redrive' = redrive /\ redrive.rows \subseteq Letters /\ job' = job
        BY <1>6 DEF SweepRetire, RedriveTyped, RedriveTypes
      <3> QED
        BY <2>4, <2>5, <3>1 DEF Held, HasLeft, JobAt
    <2> QED
      BY <1>6, <2>1, <2>2, <2>3, <2>6 DEF SweepRetire, outside, ghosts, bounds, EventsTyped,
         LettersTyped, JobsTyped, LiveTyped, RedriveTyped, RestTyped
  <1>7. CASE SweepCount
    <2>1. SweepTyped'
      BY <1>7, SweepToTyped DEF SweepCount, SweepAt
    <2> QED
      BY <1>7, <2>1, SweepOnly DEF SweepCount, tables, ghosts, EventsTyped
  <1>8. CASE SweepLetter
    <2>1. SweepTyped'
      BY <1>8, SweepToTyped DEF SweepLetter, SweepAt
    <2>2. Held' /\ LettersTyped'
      BY <1>8, <1>r, HeldByLetter DEF SweepLetter, SweepAt
    <2> QED
      BY <1>8, <2>1, <2>2 DEF SweepLetter, outside, bounds, EventsTyped, JobsTyped, LiveTyped,
         RedriveTyped, RestTyped
  <1>9. CASE SweepClose \/ SweepBump
    <2>1. SweepTyped' /\ Row \in Deliveries
      BY <1>9, <1>r, SweepNextTyped DEF SweepClose, SweepBump, SweepAt
    <2>2. event[Row] \in EventTypes /\ Tries \in Nat
      BY <1>e, <2>1 DEF Tries
    <2>3. /\ [event[Row] EXCEPT !.state = "failed", !.tries = Tries, !.touched = TRUE] \in EventTypes
          /\ [event[Row] EXCEPT !.tries = Tries, !.touched = TRUE] \in EventTypes
      BY <2>2 DEF EventTypes
    <2>4. \/ event' = [event EXCEPT ![Row] =
                         [event[Row] EXCEPT !.state = "failed", !.tries = Tries, !.touched = TRUE]]
          \/ event' = [event EXCEPT ![Row] = [event[Row] EXCEPT !.tries = Tries, !.touched = TRUE]]
      BY <1>9 DEF SweepClose, SweepBump, Counted
    <2>5. EventsTyped'
      BY <1>e, <2>1, <2>3, <2>4 DEF EventsTyped
    <2> QED
      BY <1>9, <2>1, <2>5, SweepOnly DEF SweepClose, SweepBump, ghosts
  <1>10. CASE SweepFault
    <2>1. SweepTyped'
      BY <1>10, SweepNextTyped DEF SweepFault, SweepSkips
    <2>2. Held' /\ faults' \in Nat
      BY <1>10, HeldKept DEF SweepFault, tables, Fault, RestTyped
    <2> QED
      BY <1>10, <2>1, <2>2 DEF SweepFault, tables, outside, ghosts, EventsTyped, LettersTyped,
         JobsTyped, LiveTyped, RedriveTyped, RestTyped
  <1> QED
    BY <1>1, <1>2, <1>3, <1>4, <1>5, <1>6, <1>7, <1>8, <1>9, <1>10 DEF Sweep

LEMMA RedriveNextTyped ==
  ASSUME TypeInv, RedriveNext
  PROVE  RedriveTyped' /\ redrive'.at \in {"idle", "turn"} /\ redrive'.rows \subseteq redrive.rows
  BY DEF TypeInv, RedriveTyped, RedriveTypes, RedriveNext, NoRedrive

LEMMA RedriveToTyped ==
  ASSUME TypeInv, NEW l \in {"retire", "close"}, RedriveTo(l)
  PROVE  RedriveTyped' /\ redrive'.at = l /\ redrive'.rows = redrive.rows /\ redrive'.row = redrive.row
  BY DEF TypeInv, RedriveTyped, RedriveTypes, RedriveTo

\* Steps of a redrive that write no letter and no job.
LEMMA RedriveOnly ==
  ASSUME TypeInv, RedriveTyped', EventsTyped', UNCHANGED <<letter, last, job, live, sweep, outside, replays>>,
         delivered' \subseteq Deliveries, {faults', crashes', orders'} \subseteq Nat,
         \A l \in redrive'.rows : Written(l),
         redrive'.at \in {"inline", "retire", "close"} => redrive'.row \in Letters /\ Written(redrive'.row)
  PROVE  TypeInv'
  <1>1. Held'
    BY DEF TypeInv, Held, HasLeft, Written, JobAt
  <1> QED
    BY <1>1 DEF TypeInv, outside, LettersTyped, JobsTyped, LiveTyped, SweepTyped, RestTyped

LEMMA RedriveStepTyped ==
  ASSUME TypeInv, Redrive \/ RedriveFault
  PROVE  TypeInv'
  <1> USE DEF TypeInv
  <1>r. redrive.at \in {"inline", "retire", "close"} => Letter \in Letters /\ Letter \in Jobs /\ LetterOf \in Deliveries
    BY DEF Held, Letter, LetterOf, Written, Jobs
  <1>h. /\ redrive.rows \subseteq Letters /\ \A l \in redrive.rows : Written(l)
        /\ {faults, crashes, orders} \subseteq Nat /\ delivered \subseteq Deliveries
    BY DEF Held, RedriveTyped, RedriveTypes, RestTyped
  <1>l. letter \in [Letters -> LetterTypes]
    BY DEF LettersTyped
  <1>1. CASE RedriveFind
    <2>1. redrive' = [NoRedrive EXCEPT !.at = "turn", !.rows = {l \in Letters : Open(l)}]
      BY <1>1 DEF RedriveFind
    <2>2. \A l \in Letters : Open(l) => Written(l)
      BY <1>l DEF Open, Written, LetterTypes
    <2>3. RedriveTyped' /\ redrive'.at = "turn" /\ redrive'.rows = {l \in Letters : Open(l)}
      BY <2>1 DEF RedriveTyped, RedriveTypes, NoRedrive
    <2>4. orders' \in Nat
      BY <1>1, <1>h DEF RedriveFind
    <2> QED
      BY <1>1, <1>h, <2>2, <2>3, <2>4, RedriveOnly DEF RedriveFind, tables, ghosts, EventsTyped
  <1>2. ASSUME NEW l \in Letters, RedriveEnqueue(l) PROVE TypeInv'
    <2>1. PICK at \in {"retire", "inline"} :
             /\ Queued(l) \/ Refused(l)
             /\ redrive' = [at |-> at, rows |-> redrive.rows \ {l}, row |-> l]
      BY <1>2 DEF RedriveEnqueue
    <2>2. l \in Jobs /\ Written(l)
      BY <1>2, <1>h DEF RedriveEnqueue, Jobs
    <2>3. Adds(l)
      BY <2>1, <2>2, QueuedAdds, RefusedAdds
    <2>4. RedriveTyped' /\ redrive'.rows \subseteq redrive.rows /\ redrive'.row = l
      BY <1>h, <2>1 DEF RedriveTyped, RedriveTypes
    <2>5. Held' /\ JobsTyped'
      BY <1>2, <2>2, <2>3, <2>4, HeldByAdding DEF RedriveEnqueue, tables
    <2> QED
      BY <1>2, <2>4, <2>5 DEF RedriveEnqueue, tables, outside, ghosts, bounds, EventsTyped,
         LettersTyped, LiveTyped, SweepTyped, RestTyped
  <1>3. CASE RedriveInline
    <2>1. /\ RedriveTyped' /\ redrive'.rows \subseteq redrive.rows
          /\ redrive'.at \in {"inline", "retire", "close"} => redrive'.row = redrive.row
      BY <1>3, RedriveToTyped, RedriveNextTyped DEF RedriveInline
    <2>2. delivered' \subseteq Deliveries
      BY <1>3, <1>r, <1>h DEF RedriveInline, RedriveAt, Handled
    <2> QED
      BY <1>3, <1>h, <1>r, <2>1, <2>2, RedriveOnly DEF RedriveInline, RedriveAt, tables, bounds, EventsTyped,
         Letter, LetterOf, Written
  <1>4. CASE RedriveRetire
    <2>1. RedriveTyped' /\ redrive'.rows \subseteq redrive.rows /\ redrive'.row = redrive.row
      BY <1>4, RedriveToTyped DEF RedriveRetire
    <2>2. EventsTyped'
      <3>1. LetterOf \in Deliveries /\ event \in [Deliveries -> EventTypes]
        BY <1>4, <1>r DEF RedriveRetire, RedriveAt, EventsTyped
      <3>2. [event[LetterOf] EXCEPT !.state = "dispatched", !.touched = TRUE] \in EventTypes
        BY <3>1 DEF EventTypes
      <3> QED
        BY <1>4, <3>1, <3>2, MarkIs DEF RedriveRetire, EventsTyped
    <2> QED
      BY <1>4, <1>h, <1>r, <2>1, <2>2, RedriveOnly DEF RedriveRetire, RedriveAt, ghosts, bounds,
         Letter, LetterOf, Written
  <1>5. CASE RedriveClose
    <2>1. RedriveTyped' /\ redrive'.rows \subseteq redrive.rows /\ redrive'.at \in {"idle", "turn"}
      BY <1>5, RedriveNextTyped DEF RedriveClose
    <2>2. Letter \in Letters /\ letter' = [letter EXCEPT ![Letter].redriven = TRUE] /\ Written(Letter)
      BY <1>5, <1>r DEF RedriveClose, RedriveAt, LetterOf, Written
    <2>3. letter' \in [Letters -> LetterTypes]
      BY <1>l, <2>2 DEF LetterTypes
    <2>4. /\ \A l \in Letters : letter'[l].of = letter[l].of
          /\ \A l \in Letters : letter'[l].redriven => letter[l].redriven \/ l = Letter
      BY <1>l, <2>2 DEF LetterTypes
    <2>5. Held'
      <3>1. \A l \in Letters : Written(l) <=> Written(l)'
        BY <2>4 DEF Written
      <3>2. job' = job /\ redrive'.rows \subseteq Letters
        BY <1>5, <1>h, <2>1 DEF RedriveClose
      <3> QED
        BY <2>1, <2>2, <2>4, <3>1, <3>2 DEF Held, HasLeft, JobAt
    <2> QED
      BY <1>5, <2>1, <2>3, <2>5 DEF RedriveClose, outside, ghosts, bounds, EventsTyped, LettersTyped,
         JobsTyped, LiveTyped, SweepTyped, RestTyped
  <1>6. CASE RedriveFault
    <2>1. RedriveTyped' /\ redrive'.rows = {} /\ redrive'.at = "idle"
      BY <1>6 DEF RedriveFault, RedriveTyped, RedriveTypes, NoRedrive
    <2>2. faults' \in Nat
      BY <1>6, <1>h DEF RedriveFault, Fault
    <2> QED
      BY <1>6, <1>h, <2>1, <2>2, RedriveOnly DEF RedriveFault, tables, ghosts, EventsTyped
  <1> QED
    BY <1>1, <1>2, <1>3, <1>4, <1>5, <1>6 DEF Redrive

LEMMA OutsideStepTyped ==
  ASSUME TypeInv,
         \/ \E d \in Deliveries : Post(d) \/ Age(d) \/ Cool(d)
         \/ \E i \in Instances : Toggle(i)
         \/ Outage \/ Reconnect \/ Crash \/ Boot
  PROVE  TypeInv'
  <1> USE DEF TypeInv
  <1>1. ASSUME NEW d \in Deliveries, Post(d) \/ Age(d) \/ Cool(d) PROVE TypeInv'
    <2>1. event \in [Deliveries -> EventTypes] /\ event[d] \in EventTypes
      BY DEF EventsTyped
    <2>2. Cardinality({e \in Deliveries : Recorded(e)}) \in Nat
      <3>1. IsFiniteSet({e \in Deliveries : Recorded(e)})
        BY IngressAssumption, FS_Subset
      <3> QED
        BY <3>1, FS_CardinalityType
    <2> DEFINE n == Cardinality({e \in Deliveries : Recorded(e)})
    <2>3. /\ [event[d] EXCEPT !.state = "pending", !.born = n] \in EventTypes
          /\ [event[d] EXCEPT !.aged = TRUE] \in EventTypes
          /\ [event[d] EXCEPT !.touched = FALSE] \in EventTypes
      BY <2>1, <2>2 DEF EventTypes
    <2>4. \/ event' = [event EXCEPT ![d] = [event[d] EXCEPT !.state = "pending", !.born = n]]
          \/ event' = [event EXCEPT ![d] = [event[d] EXCEPT !.aged = TRUE]]
          \/ event' = [event EXCEPT ![d] = [event[d] EXCEPT !.touched = FALSE]]
      BY <1>1, <2>1 DEF Post, Age, Cool, EventTypes
    <2> HIDE DEF n
    <2>5. EventsTyped'
      BY <2>1, <2>3, <2>4 DEF EventsTyped
    <2>6. LiveTyped'
      BY <1>1 DEF Post, Age, Cool, LiveTo, LiveTyped, memory
    <2>7. Held'
      BY <1>1, HeldKept DEF Post, Age, Cool, memory
    <2> QED
      BY <1>1, <2>5, <2>6, <2>7 DEF Post, Age, Cool, memory, outside, ghosts, bounds, LettersTyped,
         JobsTyped, SweepTyped, RedriveTyped, RestTyped
  <1>2. CASE (\E i \in Instances : Toggle(i)) \/ Outage \/ Reconnect \/ Boot
    <2>1. Held'
      BY <1>2, HeldKept DEF Toggle, Outage, Reconnect, Boot, tables, memory
    <2>2. RestTyped'
      <3>1. CASE \E i \in Instances : Toggle(i)
        BY <3>1 DEF RestTyped, Toggle, ghosts
      <3>2. CASE Outage
        <4>1. up' = up /\ reach' \in BOOLEAN /\ enabled' = enabled
          BY <3>2 DEF Outage
        <4>2. faults' \in Nat
          BY <3>2 DEF Outage, Fault, RestTyped
        <4> QED
          BY <3>2, <4>1, <4>2 DEF RestTyped, Outage, ghosts
      <3>3. CASE Reconnect
        BY <3>3 DEF RestTyped, Reconnect, ghosts, bounds
      <3>4. CASE Boot
        BY <3>4 DEF RestTyped, Boot, ghosts, bounds
      <3> QED
        BY <1>2, <3>1, <3>2, <3>3, <3>4
    <2> QED
      BY <1>2, <2>1, <2>2 DEF Toggle, Outage, Reconnect, Boot, tables, memory, ghosts, EventsTyped,
         LettersTyped, JobsTyped, LiveTyped, SweepTyped, RedriveTyped
  <1>3. CASE Crash
    <2>1. job \in [Jobs -> JobTypes]
      BY DEF JobsTyped
    <2>2. /\ job' \in [Jobs -> JobTypes]
          /\ \A j \in Jobs : /\ job'[j].made = job[j].made /\ job'[j].stalls = job[j].stalls
                             /\ job'[j].state \in {job[j].state, "stalled"}
                             /\ job[j].state \in {"none", "failed"} => job'[j] = job[j]
      BY <1>3, <2>1 DEF Crash, JobTypes, JobStates
    <2>3. Held'
      <3>1. redrive'.rows = {} /\ redrive'.at = "idle" /\ letter' = letter
        BY <1>3 DEF Crash, NoRedrive, tables
      <3>2. \A j \in Jobs : HasLeft(j)'
        BY <2>2 DEF Held, HasLeft, JobAt
      <3>3. \A l \in Letters : ~JobAt(l, "none")' => ~JobAt(l, "none")
        BY <2>2 DEF JobAt, Jobs
      <3> QED
        BY <3>1, <3>2, <3>3 DEF Held, Written
    <2>4. LiveTyped' /\ SweepTyped' /\ RedriveTyped'
      BY <1>3 DEF Crash, LiveTyped, SweepTyped, SweepTypes, RedriveTyped, RedriveTypes, NoSweep,
         NoTries, NoRedrive
    <2>5. RestTyped'
      <3>1. up' \in BOOLEAN /\ reach' = reach /\ enabled' = enabled
        BY <1>3 DEF Crash
      <3>2. crashes' \in Nat
        BY <1>3 DEF Crash, RestTyped
      <3>3. /\ delivered' = delivered /\ replays' = replays /\ faults' = faults /\ orders' = orders
        BY <1>3 DEF Crash, ghosts
      <3> QED
        BY <3>1, <3>2, <3>3 DEF RestTyped
    <2> QED
      BY <1>3, <2>2, <2>3, <2>4, <2>5 DEF Crash, tables, ghosts, EventsTyped, LettersTyped, JobsTyped
  <1> QED
    BY <1>1, <1>2, <1>3

LEMMA StepTyped == TypeInv /\ [Next]_vars => TypeInv'
  <1> SUFFICES ASSUME TypeInv, [Next]_vars PROVE TypeInv'
    OBVIOUS
  <1>1. CASE UNCHANGED vars
    <2>1. UNCHANGED <<letter, job, redrive>>
      BY <1>1 DEF vars, tables, memory
    <2>2. Held'
      BY <2>1, HeldKept
    <2> QED
      BY <1>1, <2>2 DEF TypeInv, vars, tables, memory, outside, ghosts, bounds, EventsTyped,
         LettersTyped, JobsTyped, LiveTyped, SweepTyped, RedriveTyped, RestTyped
  <1> QED
    BY <1>1, LiveStepTyped, WorkStepTyped, SweepStepTyped, RedriveStepTyped, OutsideStepTyped DEF Next

LEMMA AlwaysTyped == Spec => []TypeInv
  BY InitTyped, StepTyped, PTL DEF Spec

\* Every reachable state is well typed; a job's attempts and stalls (IngressProcessor's
\* final attempt, BullMQ's stalled check) stay within their budgets.
THEOREM IngressTyped == Spec => []TypeOK
  BY AlwaysTyped, TypeInvTyped, PTL

-----------------------------------------------------------------------------
(* Replays *)

\* What a recorded attempt count leaves of the budget, and what failures add to it.
Used(n) == IF n < MaxAttempts THEN n ELSE MaxAttempts - 1
Extra == faults + crashes

\* The sweep has read a row and not dispatched it yet; has dispatched it and not said so yet.
Ahead(d) == d \in sweep.rows \/ (sweep.at \in {"turn", "enqueue"} /\ Row = d)
Spending(d) ==
  sweep.at \in {"inline", "mark", "retire", "count", "letter", "close", "bump"} /\ Row = d

\* The dispatches of a delivery are in its attempt count, in the one the sweep has read, or
\* are the one the sweep is at.
Paid(d) ==
  /\ replays[d] <= MaxAttempts + Extra
  /\ ~Recorded(d) => replays[d] = 0 /\ ~Ahead(d) /\ ~Spending(d)
  /\ Ahead(d) => replays[d] <= Used(sweep.tries[d]) + Extra
  /\ Spending(d) => replays[d] <= Used(sweep.tries[d]) + 1 + Extra
  /\ Ahead(d) \/ Spending(d) => (Pending(d) => sweep.tries[d] <= event[d].tries)
  /\ ~Ahead(d) /\ ~Spending(d) => (Pending(d) => replays[d] <= Used(event[d].tries) + Extra)

\* The sweep is at one row at a time, and bumps only a row with attempts left.
SweepShape ==
  /\ SweepAt("idle") => sweep.rows = {}
  /\ Row \notin sweep.rows
  /\ SweepAt("retire") => ~Pending(Row)
  /\ SweepAt("bump") => sweep.tries[Row] + 1 < MaxAttempts

ReplayInv == SweepShape /\ \A d \in Deliveries : Paid(d)

LEMMA UsedType ==
  /\ \A n \in Nat : Used(n) \in Nat /\ Used(n) + 1 <= MaxAttempts
  /\ \A m, n \in Nat : m <= n => Used(m) <= Used(n)
  /\ \A n \in Nat : n + 1 < MaxAttempts => Used(n) + 1 = Used(n + 1)
  BY IngressAssumption DEF Used

\* A step that is not the sweep's: a row may become pending, or stop being so, and its
\* attempts grow.
LEMMA ReplaysKept ==
  ASSUME TypeInv, TypeInv', ReplayInv, sweep' = sweep, replays' = replays, Extra <= Extra',
         \A d \in Deliveries :
           /\ Recorded(d) => Recorded(d)'
           /\ Pending(d)' /\ Recorded(d) => Pending(d) /\ event[d].tries <= event'[d].tries
  PROVE  ReplayInv'
  <1>1. /\ event \in [Deliveries -> EventTypes] /\ event' \in [Deliveries -> EventTypes]
        /\ sweep \in SweepTypes /\ (sweep.at # "idle" => sweep.row \in Deliveries)
        /\ replays \in [Deliveries -> Nat] /\ Extra \in Nat /\ Extra' \in Nat
    BY DEF TypeInv, EventsTyped, SweepTyped, RestTyped, Extra
  <1>2. SweepShape'
    <2>1. SweepAt("retire") => Recorded(Row) /\ Row \in Deliveries
      BY <1>1 DEF ReplayInv, Paid, Spending, SweepAt, Row
    <2> QED
      BY <2>1 DEF ReplayInv, SweepShape, SweepAt, Row
  <1>3. ASSUME NEW d \in Deliveries
        PROVE  Paid(d)'
    <2>1. Paid(d) /\ (Ahead(d)' <=> Ahead(d)) /\ (Spending(d)' <=> Spending(d))
      BY DEF ReplayInv, Ahead, Spending, Row
    <2>2. replays[d] \in Nat /\ event[d].tries \in Nat /\ event'[d].tries \in Nat
          /\ sweep.tries[d] \in Nat
      BY <1>1 DEF EventTypes, SweepTypes
    <2>3. CASE ~Recorded(d)
      <3>1. 0 <= Used(event'[d].tries) + Extra'
        <4>1. Used(event'[d].tries) \in Nat
          BY <2>2, UsedType
        <4> QED
          BY <1>1, <4>1
      <3> QED
        BY <1>1, <2>1, <2>2, <2>3, <3>1, IngressAssumption DEF Paid
    <2>4. CASE Recorded(d)
      <3>1. Pending(d)' => Used(event[d].tries) <= Used(event'[d].tries)
        BY <2>2, <2>4, UsedType
      <3>2. Used(event[d].tries) \in Nat /\ Used(event'[d].tries) \in Nat
            /\ Used(sweep.tries[d]) \in Nat
        BY <2>2, UsedType
      <3> QED
        BY <1>1, <2>1, <2>2, <2>4, <3>1, <3>2, IngressAssumption DEF Paid
    <2> QED
      BY <2>3, <2>4
  <1> QED
    BY <1>2, <1>3 DEF ReplayInv

\* The sweep goes on: what it was at is settled.
LEMMA SweepLeaves ==
  ASSUME TypeInv, TypeInv', ReplayInv, SweepNext, sweep.at # "idle", replays' = replays,
         Extra <= Extra', NEW r \in Deliveries, r = Row, Recorded(r)',
         \A d \in Deliveries \ {r} : event'[d] = event[d],
         Pending(r)' => replays[r] <= Used(event'[r].tries) + Extra'
  PROVE  ReplayInv'
  <1>1. /\ event \in [Deliveries -> EventTypes] /\ event' \in [Deliveries -> EventTypes]
        /\ sweep \in SweepTypes /\ sweep.row \in Deliveries
        /\ replays \in [Deliveries -> Nat] /\ Extra \in Nat /\ Extra' \in Nat
    BY DEF TypeInv, EventsTyped, SweepTyped, RestTyped, Extra
  <1>2. /\ SweepShape'
        /\ \A d \in Deliveries : Ahead(d)' <=> d \in sweep.rows
        /\ \A d \in Deliveries : ~Spending(d)'
        /\ sweep.rows # {} => sweep'.tries = sweep.tries
    <2>1. CASE sweep.rows = {}
      BY <2>1 DEF SweepNext, SweepGoes, NoSweep, SweepShape, SweepAt, Ahead, Spending, Row
    <2>2. CASE sweep.rows # {}
      <3>1. PICK d \in sweep.rows :
              sweep' = [at |-> "turn", row |-> d, rows |-> sweep.rows \ {d}, tries |-> sweep.tries]
        BY <2>2 DEF SweepNext, SweepGoes
      <3> QED
        BY <3>1 DEF SweepShape, SweepAt, Ahead, Spending, Row
    <2> QED
      BY <2>1, <2>2
  <1>3. ASSUME NEW d \in Deliveries
        PROVE  Paid(d)'
    <2>1. Paid(d) /\ replays[d] \in Nat /\ event'[d].tries \in Nat /\ event[d].tries \in Nat
          /\ sweep.tries[d] \in Nat
      BY <1>1 DEF ReplayInv, EventTypes, SweepTypes
    <2>2. Used(event[d].tries) \in Nat /\ Used(event'[d].tries) \in Nat
          /\ Used(sweep.tries[d]) \in Nat
      BY <2>1, UsedType
    <2>3. CASE d = r
      <3>1. ~Ahead(d)'
        BY <1>2, <2>3 DEF ReplayInv, SweepShape
      <3> QED
        BY <1>1, <1>2, <2>1, <2>2, <2>3, <3>1, IngressAssumption DEF Paid
    <2>4. CASE d # r /\ d \in sweep.rows
      <3>1. Ahead(d) /\ Ahead(d)' /\ ~Spending(d)' /\ sweep'.tries = sweep.tries
        BY <1>2, <2>4 DEF Ahead
      <3>2. event'[d] = event[d]
        BY <2>4
      <3> QED
        BY <1>1, <2>1, <2>2, <3>1, <3>2, IngressAssumption DEF Paid, Recorded, Pending
    <2>5. CASE d # r /\ d \notin sweep.rows
      <3>1. ~Ahead(d) /\ ~Spending(d) /\ ~Ahead(d)' /\ ~Spending(d)'
        BY <1>2, <2>5 DEF Ahead, Spending
      <3>2. event'[d] = event[d]
        BY <2>5
      <3> QED
        BY <1>1, <2>1, <2>2, <3>1, <3>2, IngressAssumption DEF Paid, Recorded, Pending
    <2> QED
      BY <2>3, <2>4, <2>5
  <1> QED
    BY <1>2, <1>3 DEF ReplayInv

\* The sweep goes from one await of a row to the next.
LEMMA SweepStays ==
  ASSUME TypeInv, TypeInv', ReplayInv, NEW l \in {"mark", "retire", "count", "letter", "close", "bump"},
         SweepTo(l), sweep.at \in {"inline", "mark", "count", "letter"}, replays' = replays,
         Extra' = Extra,
         \A d \in Deliveries : \/ event'[d] = event[d]
                               \/ d = Row /\ Recorded(d)' /\ ~Pending(d)',
         l = "retire" => ~Pending(Row)',
         l = "bump" => sweep.tries[Row] + 1 < MaxAttempts
  PROVE  ReplayInv'
  <1>1. /\ sweep \in SweepTypes /\ sweep.row \in Deliveries
        /\ sweep' = [sweep EXCEPT !.at = l]
    BY DEF TypeInv, SweepTyped, SweepTo
  <1>2. /\ sweep'.at = l /\ sweep'.row = sweep.row /\ sweep'.rows = sweep.rows
        /\ sweep'.tries = sweep.tries
    BY <1>1 DEF SweepTypes
  <1>3. SweepShape'
    BY <1>2 DEF ReplayInv, SweepShape, SweepAt, Row
  <1>4. ASSUME NEW d \in Deliveries
        PROVE  Paid(d)'
    <2>1. Paid(d) /\ (Ahead(d)' <=> Ahead(d)) /\ (Spending(d)' <=> Spending(d))
      BY <1>2 DEF ReplayInv, Ahead, Spending, Row
    <2>2. CASE event'[d] = event[d]
      BY <1>2, <2>1, <2>2 DEF Paid, Recorded, Pending
    <2>3. CASE d = Row /\ Recorded(d)' /\ ~Pending(d)'
      BY <1>2, <2>1, <2>3 DEF Paid
    <2> QED
      BY <2>2, <2>3
  <1> QED
    BY <1>3, <1>4 DEF ReplayInv

\* The sweep dispatches its row.
LEMMA SweepSpends ==
  ASSUME TypeInv, TypeInv', ReplayInv, SweepEnqueue
  PROVE  ReplayInv'
  <1>1. /\ event' = event /\ Extra' = Extra /\ Extra \in Nat
        /\ sweep \in SweepTypes /\ replays \in [Deliveries -> Nat] /\ SweepAt("enqueue")
    BY DEF TypeInv, SweepTyped, RestTyped, Extra, SweepEnqueue, tables, bounds
  <1>2. PICK r \in Deliveries : r = Row
    BY <1>1 DEF TypeInv, SweepTyped, SweepAt, Row
  <1>3. replays'[r] = replays[r] + 1 /\ \A d \in Deliveries \ {r} : replays'[d] = replays[d]
    BY <1>1, <1>2 DEF SweepEnqueue
  <1>4. PICK l \in {"mark", "inline"} : SweepTo(l)
    BY DEF SweepEnqueue
  <1>5. /\ sweep'.at = l /\ sweep'.row = sweep.row /\ sweep'.rows = sweep.rows
        /\ sweep'.tries = sweep.tries
    BY <1>1, <1>4 DEF SweepTo, SweepTypes
  <1>6. SweepShape'
    BY <1>5 DEF ReplayInv, SweepShape, SweepAt, Row
  <1>7. ASSUME NEW d \in Deliveries
        PROVE  Paid(d)'
    <2>1. Paid(d) /\ Paid(r) /\ replays[d] \in Nat /\ sweep.tries[d] \in Nat
      BY <1>1 DEF ReplayInv, SweepTypes
    <2>2. Used(sweep.tries[d]) \in Nat /\ Used(sweep.tries[d]) + 1 <= MaxAttempts
      BY <2>1, UsedType
    <2>3. CASE d = r
      <3>1. Ahead(d) /\ Spending(d)' /\ ~Ahead(d)'
        BY <1>1, <1>2, <1>5, <2>3 DEF Ahead, Spending, SweepAt, Row, ReplayInv, SweepShape
      <3>2. Recorded(d)
        BY <2>1, <3>1 DEF Paid
      <3> QED
        BY <1>1, <1>3, <1>5, <2>1, <2>2, <2>3, <3>1, <3>2, IngressAssumption
           DEF Paid, Recorded, Pending
    <2>4. CASE d # r
      <3>1. (Ahead(d)' <=> Ahead(d)) /\ (Spending(d)' <=> Spending(d))
        BY <1>2, <1>5, <2>4 DEF Ahead, Spending, Row
      <3> QED
        BY <1>1, <1>3, <1>5, <2>1, <2>4, <3>1 DEF Paid, Recorded, Pending
    <2> QED
      BY <2>3, <2>4
  <1> QED
    BY <1>6, <1>7 DEF ReplayInv

\* The sweep reads the pending rows with their attempts.
LEMMA SweepReads ==
  ASSUME TypeInv, TypeInv', ReplayInv, SweepFind
  PROVE  ReplayInv'
  <1>1. /\ event' = event /\ replays' = replays /\ Extra' = Extra
        /\ sweep \in SweepTypes /\ SweepAt("idle")
        /\ event \in [Deliveries -> EventTypes] /\ replays \in [Deliveries -> Nat]
    BY DEF TypeInv, EventsTyped, SweepTyped, RestTyped, Extra, SweepFind, tables, bounds, ghosts
  <1> DEFINE tries == [d \in Deliveries |-> IF d \in Due THEN event[d].tries ELSE 0]
  <1>2. PICK e \in Due : sweep' = [at |-> "turn", row |-> e, rows |-> Due \ {e}, tries |-> tries]
    BY DEF SweepFind, SweepGoes
  <1>3. SweepShape'
    BY <1>2 DEF SweepShape, SweepAt, Row
  <1>4. ASSUME NEW d \in Deliveries
        PROVE  Paid(d)'
    <2>1. Paid(d) /\ ~Ahead(d) /\ ~Spending(d)
      BY <1>1 DEF ReplayInv, SweepShape, SweepAt, Ahead, Spending
    <2>2. ~Spending(d)' /\ (Ahead(d)' <=> d \in Due)
      BY <1>2 DEF Ahead, Spending, Row
    <2>3. d \in Due => Pending(d) /\ sweep'.tries[d] = event[d].tries
      BY <1>2 DEF Due, Stale
    <2>4. event[d].tries \in Nat
      BY <1>1 DEF EventTypes
    <2> QED
      BY <1>1, <2>1, <2>2, <2>3, <2>4 DEF Paid, Recorded, Pending
  <1> QED
    BY <1>3, <1>4 DEF ReplayInv

\* The steps of the sweep.
LEMMA SweepPays ==
  ASSUME TypeInv, TypeInv', ReplayInv, Sweep \/ SweepFault
  PROVE  ReplayInv'
  <1>1. /\ event \in [Deliveries -> EventTypes] /\ replays \in [Deliveries -> Nat]
        /\ sweep \in SweepTypes /\ (sweep.at # "idle" => sweep.row \in Deliveries)
        /\ faults \in Nat /\ crashes \in Nat /\ Extra \in Nat
    BY DEF TypeInv, EventsTyped, SweepTyped, RestTyped, Extra
  <1>2. ~SweepFault => Extra' = Extra
    BY DEF Sweep, SweepFind, SweepTurn, SweepEnqueue, SweepInline, SweepMark, SweepRetire,
       SweepCount, SweepLetter, SweepClose, SweepBump, Extra, bounds
  <1>3. ~SweepEnqueue => replays' = replays
    BY DEF Sweep, SweepFind, SweepTurn, SweepInline, SweepMark, SweepRetire, SweepCount,
       SweepLetter, SweepClose, SweepBump, SweepFault, ghosts
  <1>4. CASE SweepFind
    BY <1>4, SweepReads
  <1>5. CASE SweepEnqueue
    BY <1>5, SweepSpends
  <1> SUFFICES ASSUME ~SweepFind, ~SweepEnqueue
               PROVE  ReplayInv'
    BY <1>4, <1>5
  <1>6. PICK r \in Deliveries : r = Row /\ sweep.at # "idle"
    BY <1>1 DEF Sweep, SweepTurn, SweepInline, SweepMark, SweepRetire, SweepCount, SweepLetter,
       SweepClose, SweepBump, SweepFault, SweepAt, Row
  <1>7. /\ Paid(r) /\ SweepShape /\ replays[r] \in Nat /\ event[r] \in EventTypes
        /\ sweep.tries[r] \in Nat /\ event[r].tries \in Nat
        /\ Used(sweep.tries[r]) \in Nat /\ Used(event[r].tries) \in Nat
        /\ (sweep.tries[r] <= event[r].tries => Used(sweep.tries[r]) <= Used(event[r].tries))
    <2>1. event[r].tries \in Nat /\ sweep.tries[r] \in Nat
      BY <1>1 DEF EventTypes, SweepTypes
    <2> QED
      BY <1>1, <2>1, UsedType DEF ReplayInv
  <1>8. Ahead(r) \/ Spending(r)
    BY <1>1, <1>6 DEF Ahead, Spending, SweepTypes, Row
  <1>9. CASE SweepTurn
    <2>1. event' = event /\ SweepAt("turn")
      BY <1>9 DEF SweepTurn, tables
    <2>2. Ahead(r) /\ Recorded(r)
      BY <1>6, <1>7, <2>1 DEF Ahead, Paid, SweepAt
    <2>3. CASE SweepNext
      <3>1. Pending(r) => replays[r] <= Used(event[r].tries) + Extra
        BY <1>1, <1>7, <2>2 DEF Paid
      <3>2. replays' = replays /\ Extra' = Extra
        BY <1>2, <1>3, <1>9 DEF SweepTurn, ghosts, bounds, Extra
      <3>3. Recorded(r)' /\ (Pending(r)' => replays[r] <= Used(event'[r].tries) + Extra')
        BY <2>1, <2>2, <3>1, <3>2 DEF Recorded, Pending
      <3> QED
        BY <1>1, <1>6, <2>1, <2>3, <3>2, <3>3, SweepLeaves
    <2>4. CASE SweepTo("enqueue")
      <3>1. /\ sweep'.at = "enqueue" /\ sweep'.row = sweep.row /\ sweep'.rows = sweep.rows
            /\ sweep'.tries = sweep.tries
        BY <1>1, <2>4 DEF SweepTo, SweepTypes
      <3>2. SweepShape'
        BY <1>7, <3>1 DEF SweepShape, SweepAt, Row
      <3>3. ASSUME NEW d \in Deliveries
            PROVE  Paid(d)'
        <4>1. Paid(d) /\ (Ahead(d)' <=> Ahead(d)) /\ (Spending(d)' <=> Spending(d))
          BY <2>1, <3>1 DEF ReplayInv, Ahead, Spending, SweepAt, Row
        <4>2. replays'[d] = replays[d] /\ event'[d] = event[d] /\ Extra' = Extra
          BY <1>2, <1>3, <1>9, <2>1 DEF SweepTurn, SweepFault, bounds, Extra
        <4> QED
          BY <3>1, <4>1, <4>2 DEF Paid, Recorded, Pending
      <3> QED
        BY <3>2, <3>3 DEF ReplayInv
    <2> QED
      BY <1>9, <2>3, <2>4 DEF SweepTurn, SweepSkips
  <1>10. CASE SweepInline \/ SweepCount \/ SweepLetter
    <2>1. event' = event /\ sweep.at \in {"inline", "count", "letter"} /\ Extra' = Extra
      BY <1>10 DEF SweepInline, SweepCount, SweepLetter, tables, SweepAt, bounds, Extra
    <2>2. PICK l \in {"mark", "count", "bump", "letter", "close"} :
            SweepTo(l) /\ (l = "bump" => ~Exhausted)
      BY <1>10 DEF SweepInline, SweepCount, SweepLetter, AfterFailure
    <2>3. l = "bump" => sweep.tries[Row] + 1 < MaxAttempts
      BY <1>6, <1>7, <2>2, IngressAssumption DEF Exhausted, Tries
    <2> QED
      BY <1>3, <2>1, <2>2, <2>3, SweepStays
  <1>11. CASE SweepMark
    <2>1. event' = [event EXCEPT ![r] = [event[r] EXCEPT !.state = "dispatched", !.touched = TRUE]]
      BY <1>6, <1>11, MarkIs DEF SweepMark, TypeInv
    <2>2. event'[r].state = "dispatched" /\ \A d \in Deliveries \ {r} : event'[d] = event[d]
      BY <1>1, <1>7, <2>1 DEF EventTypes
    <2>3. SweepTo("retire") /\ SweepAt("mark") /\ Extra' = Extra
      BY <1>11 DEF SweepMark, bounds, Extra
    <2>4. Row' = Row
      BY <1>1, <2>3 DEF SweepTo, SweepTypes, Row
    <2>5. \A d \in Deliveries : event'[d] = event[d] \/ (d = Row /\ Recorded(d)' /\ ~Pending(d)')
      BY <1>6, <2>2 DEF Recorded, Pending
    <2>6. ~Pending(Row)'
      BY <1>6, <2>2, <2>4 DEF Pending
    <2> QED
      BY <1>3, <2>3, <2>5, <2>6, SweepStays DEF SweepAt
  <1>12. CASE SweepRetire
    <2>1. event' = event /\ SweepAt("retire") /\ SweepNext /\ Extra' = Extra
      BY <1>12 DEF SweepRetire, bounds, Extra
    <2>2. Recorded(r) /\ ~Pending(r)
      BY <1>6, <1>7, <1>8, <2>1 DEF Paid, SweepShape
    <2> QED
      BY <1>1, <1>3, <1>6, <2>1, <2>2, SweepLeaves DEF Recorded, Pending
  <1>13. CASE SweepClose
    <2>1. event' = [event EXCEPT ![r] =
                      [event[r] EXCEPT !.state = "failed", !.tries = Tries, !.touched = TRUE]]
      BY <1>6, <1>13 DEF SweepClose
    <2>2. event'[r].state = "failed" /\ \A d \in Deliveries \ {r} : event'[d] = event[d]
      BY <1>1, <1>7, <2>1 DEF EventTypes
    <2>3. SweepNext /\ Extra' = Extra
      BY <1>13 DEF SweepClose, bounds, Extra
    <2> QED
      BY <1>1, <1>3, <1>6, <2>2, <2>3, SweepLeaves DEF Recorded, Pending
  <1>14. CASE SweepBump
    <2>1. event' = [event EXCEPT ![r] = [event[r] EXCEPT !.tries = Tries, !.touched = TRUE]]
      BY <1>6, <1>14 DEF SweepBump, Counted
    <2>2. /\ event'[r].state = event[r].state /\ event'[r].tries = sweep.tries[r] + 1
          /\ \A d \in Deliveries \ {r} : event'[d] = event[d]
      BY <1>1, <1>6, <1>7, <2>1 DEF EventTypes, Tries
    <2>3. SweepNext /\ Extra' = Extra /\ SweepAt("bump")
      BY <1>14 DEF SweepBump, bounds, Extra
    <2>4. Spending(r) /\ Recorded(r)
      BY <1>6, <1>7, <1>8, <2>3 DEF Spending, Paid, SweepAt
    <2>5. Used(sweep.tries[r]) + 1 = Used(sweep.tries[r] + 1)
      BY <1>6, <1>7, <2>3, UsedType DEF SweepShape
    <2>6. replays[r] <= Used(event'[r].tries) + Extra'
      BY <1>1, <1>7, <2>2, <2>3, <2>4, <2>5 DEF Paid
    <2> QED
      BY <1>1, <1>3, <1>6, <2>2, <2>3, <2>4, <2>6, SweepLeaves DEF Recorded
  <1>15. CASE SweepFault
    <2>1. event' = event /\ SweepNext /\ Extra' = Extra + 1
      BY <1>1, <1>15 DEF SweepFault, tables, SweepSkips, Fault, Extra
    <2>2. Recorded(r)
      BY <1>7, <1>8 DEF Paid
    <2>3. Pending(r) => replays[r] <= Used(event[r].tries) + (Extra + 1)
      BY <1>1, <1>7, <1>8 DEF Paid
    <2> QED
      BY <1>1, <1>3, <1>6, <2>1, <2>2, <2>3, SweepLeaves DEF Recorded, Pending
  <1> QED
    BY <1>9, <1>10, <1>11, <1>12, <1>13, <1>14, <1>15 DEF Sweep

\* The process ends: a dispatch of the sweep that was not counted is paid by the crash.
LEMMA CrashPays ==
  ASSUME TypeInv, TypeInv', ReplayInv, Crash
  PROVE  ReplayInv'
  <1>1. /\ event' = event /\ replays' = replays /\ sweep' = NoSweep /\ Extra' = Extra + 1
        /\ Extra \in Nat /\ replays \in [Deliveries -> Nat] /\ event \in [Deliveries -> EventTypes]
        /\ sweep \in SweepTypes
    BY DEF TypeInv, EventsTyped, SweepTyped, RestTyped, Crash, tables, ghosts, Extra
  <1>2. SweepShape' /\ \A d \in Deliveries : ~Ahead(d)' /\ ~Spending(d)'
    BY <1>1 DEF NoSweep, SweepShape, SweepAt, Ahead, Spending, Row
  <1>3. ASSUME NEW d \in Deliveries
        PROVE  Paid(d)'
    <2>1. Paid(d) /\ replays[d] \in Nat /\ event[d].tries \in Nat /\ sweep.tries[d] \in Nat
      BY <1>1 DEF ReplayInv, EventTypes, SweepTypes
    <2>2. /\ Used(event[d].tries) \in Nat /\ Used(sweep.tries[d]) \in Nat
          /\ sweep.tries[d] <= event[d].tries => Used(sweep.tries[d]) <= Used(event[d].tries)
      BY <2>1, UsedType
    <2> QED
      BY <1>1, <1>2, <2>1, <2>2, IngressAssumption DEF Paid, Recorded, Pending
  <1> QED
    BY <1>2, <1>3 DEF ReplayInv

\* A mark, an increment, a touch: what the others do to a row.
LEMMA RowMoves ==
  ASSUME TypeInv, [Next]_vars, ~Sweep, ~SweepFault, NEW d \in Deliveries
  PROVE  /\ Recorded(d) => Recorded(d)'
         /\ Pending(d)' /\ Recorded(d) => Pending(d) /\ event[d].tries <= event'[d].tries
  <1>1. event \in [Deliveries -> EventTypes] /\ event[d] \in EventTypes /\ event[d].tries \in Nat
    BY DEF TypeInv, EventsTyped, EventTypes
  <1>2. CASE event' = event
    BY <1>1, <1>2 DEF Recorded, Pending
  <1>3. ASSUME NEW e \in Deliveries, NEW n \in EventTypes, event' = [event EXCEPT ![e] = n],
               event[e].state = "none" \/ (n.state # "none" /\ event[e].tries <= n.tries),
               n.state = "pending" => event[e].state \in {"none", "pending"}
        PROVE  /\ Recorded(d) => Recorded(d)'
               /\ Pending(d)' /\ Recorded(d) => Pending(d) /\ event[d].tries <= event'[d].tries
    BY <1>1, <1>3 DEF Recorded, Pending, EventTypes
  <1>4. ASSUME NEW e \in Deliveries, MarkDispatched(e)
        PROVE  /\ Recorded(d) => Recorded(d)'
               /\ Pending(d)' /\ Recorded(d) => Pending(d) /\ event[d].tries <= event'[d].tries
    <2> DEFINE n == [event[e] EXCEPT !.state = "dispatched", !.touched = TRUE]
    <2>1. event[e] \in EventTypes /\ event[e].tries \in Nat
      BY <1>1 DEF EventTypes
    <2>2. n \in EventTypes /\ n.state = "dispatched" /\ n.tries = event[e].tries
      BY <2>1 DEF EventTypes
    <2>3. event' = [event EXCEPT ![e] = n]
      BY <1>4, MarkIs DEF TypeInv
    <2>4. n.state # "none" /\ event[e].tries <= n.tries /\ n.state # "pending"
      BY <2>1, <2>2
    <2> HIDE DEF n
    <2> QED
      BY <1>3, <2>2, <2>3, <2>4
  <1>5. ASSUME NEW e \in Deliveries, Post(e) \/ Age(e) \/ Cool(e) \/ Live(e) \/ LiveFault(e)
        PROVE  /\ Recorded(d) => Recorded(d)'
               /\ Pending(d)' /\ Recorded(d) => Pending(d) /\ event[d].tries <= event'[d].tries
    <2>1. event[e] \in EventTypes /\ event[e].tries \in Nat
      BY <1>1 DEF EventTypes
    <2>2. CASE Post(e)
      BY <1>1, <2>1, <2>2 DEF Post, NewRow, Recorded, Pending, EventTypes
    <2>3. CASE Age(e) \/ Cool(e) \/ LiveTouch(e)
      BY <1>1, <2>1, <2>3 DEF Age, Cool, LiveTouch, Recorded, Pending, EventTypes
    <2>4. CASE LiveBump(e)
      BY <1>1, <2>1, <2>4 DEF LiveBump, Recorded, Pending, EventTypes
    <2>5. CASE LiveMark(e)
      BY <1>4, <2>5 DEF LiveMark
    <2> QED
      BY <1>2, <1>5, <2>2, <2>3, <2>4, <2>5 DEF Live, LiveEnqueue, LiveInline, LiveLetter, LiveFault,
         tables
  <1>6. CASE Redrive \/ RedriveFault
    <2>1. CASE RedriveRetire
      <3>1. LetterOf \in Deliveries
        BY <2>1 DEF RedriveRetire, RedriveAt, TypeInv, Held, Written, LetterOf, Letter
      <3> QED
        BY <1>2, <1>4, <2>1, <3>1 DEF RedriveRetire
    <2> QED
      BY <1>2, <1>6, <2>1 DEF Redrive, RedriveFind, RedriveEnqueue, RedriveInline, RedriveClose,
         RedriveFault, tables
  <1>7. ASSUME NEW j \in Jobs, Work(j)
        PROVE  event' = event
    BY <1>7 DEF Work, Take, Complete, Throw, JobLetter, JobFails, Unstall, tables
  <1>8. CASE (\E i \in Instances : Toggle(i)) \/ Outage \/ Reconnect \/ Crash \/ Boot \/ UNCHANGED vars
    BY <1>2, <1>8 DEF Toggle, Outage, Reconnect, Crash, Boot, vars, tables
  <1> QED
    BY <1>2, <1>5, <1>6, <1>7, <1>8 DEF Next

\* Every step keeps the account.
LEMMA StepPays ==
  ASSUME TypeInv, TypeInv', ReplayInv, [Next]_vars
  PROVE  ReplayInv'
  <1>1. CASE Sweep \/ SweepFault
    BY <1>1, SweepPays
  <1>2. CASE Crash
    BY <1>2, CrashPays
  <1>3. CASE ~Sweep /\ ~SweepFault /\ ~Crash
    <2>1. sweep' = sweep /\ replays' = replays
      BY <1>3 DEF Next, Post, Live, LiveEnqueue, LiveInline, LiveMark, LiveBump, LiveTouch, LiveLetter,
         LiveFault, Age, Cool, Work, Take, Complete, Throw, JobLetter, JobFails, Unstall, Redrive,
         RedriveFind, RedriveEnqueue, RedriveInline, RedriveRetire, RedriveClose, RedriveFault,
         Toggle, Outage, Reconnect, Boot, memory, ghosts, vars
    <2>2. Extra <= Extra'
      <3>1. faults \in Nat /\ crashes \in Nat
        BY DEF TypeInv, RestTyped
      <3>2. CASE RedriveFault \/ Outage \/ \E d \in Deliveries : LiveFault(d)
        BY <3>1, <3>2 DEF LiveFault, RedriveFault, Outage, Fault, Extra
      <3>3. CASE \E d \in Deliveries : Post(d) \/ Live(d) \/ Age(d) \/ Cool(d)
        BY <3>1, <3>3 DEF Post, Live, LiveEnqueue, LiveInline, LiveMark, LiveBump, LiveTouch,
           LiveLetter, Age, Cool, bounds, Extra
      <3>4. CASE Redrive
        BY <3>1, <3>4 DEF Redrive, RedriveFind, RedriveEnqueue, RedriveInline, RedriveRetire,
           RedriveClose, bounds, Extra
      <3>5. CASE (\E j \in Jobs : Work(j)) \/ (\E i \in Instances : Toggle(i)) \/ Reconnect \/ Boot
                 \/ UNCHANGED vars
        <4>1. bounds' = bounds \/ (faults' = faults /\ crashes' = crashes)
          BY <3>5 DEF Work, Take, Complete, Throw, JobLetter, JobFails, Unstall, Toggle,
             Reconnect, Boot, vars
        <4> QED
          BY <3>1, <4>1 DEF bounds, Extra
      <3> QED
        <4>1. CASE Next
          BY <1>3, <3>2, <3>3, <3>4, <3>5, <4>1, Zenon DEF Next
        <4>2. CASE UNCHANGED vars
          BY <3>5, <4>2
        <4> QED
          BY <4>1, <4>2
    <2> QED
      BY <1>3, <2>1, <2>2, RowMoves, ReplaysKept
  <1> QED
    BY <1>1, <1>2, <1>3

\* The sweep dispatches a delivery at most INGRESS_RECONCILE_MAX_ATTEMPTS times, and once more
\* for each query, queue call or process that failed it.
THEOREM ReplaysAreBounded == Spec => []ReplaysBounded
  <1>1. Init => ReplayInv
    <2> SUFFICES ASSUME Init PROVE ReplayInv
      OBVIOUS
    <2>1. SweepShape
      BY DEF Init, SweepShape, SweepAt, NoSweep, Row
    <2>2. ASSUME NEW d \in Deliveries PROVE Paid(d)
      BY IngressAssumption DEF Init, Paid, Ahead, Spending, NoSweep, Recorded, Pending, Row, Extra
    <2> QED
      BY <2>1, <2>2 DEF ReplayInv
  <1>2. TypeInv /\ ReplayInv => ReplaysBounded
    <2> SUFFICES ASSUME TypeInv, ReplayInv, NEW d \in Deliveries
                 PROVE  replays[d] <= MaxAttempts + faults + crashes
      BY DEF ReplaysBounded
    <2>1. faults \in Nat /\ crashes \in Nat /\ replays[d] \in Nat /\ Paid(d)
      BY DEF TypeInv, RestTyped, ReplayInv
    <2> QED
      BY <2>1, IngressAssumption DEF Paid, Extra
  <1>3. TypeInv /\ TypeInv' /\ ReplayInv /\ [Next]_vars => ReplayInv'
    BY StepPays
  <1> QED
    BY <1>1, <1>2, <1>3, AlwaysTyped, PTL DEF Spec
-----------------------------------------------------------------------------
(* No recorded delivery is lost, when the process does not end more often than a job may   *)
(* stall and the worker's dead-letter write does not fail.                                *)

\* A delivery a handler took, or whose own job exists.
Covered(d) == d \in delivered \/ ~JobAt(d, "none")
Lettered(d) == last[d] # None
\* A replay of a dead letter that reached the handler or the queue.
Replayed(l) == letter[l].of \in delivered \/ ~JobAt(l, "none")

\* A closed row is covered or dead-lettered.
ClosedIsHeld == \A d \in Deliveries : event[d].state \in {"dispatched", "failed"} => Covered(d) \/ Lettered(d)
\* The latest dead letter of a delivery is not one whose own replay failed in the queue,
\* and is retired only by a replay.
LastIsOpen ==
  \A d \in Deliveries : Lettered(d) =>
    /\ letter[last[d]].of = d
    /\ ~JobAt(last[d], "thrown") /\ ~JobAt(last[d], "failed")
    /\ letter[last[d]].redriven => Covered(d) \/ ~JobAt(last[d], "none")
LettersAreKnown == \A l \in Letters : Written(l) => Lettered(letter[l].of)
DoneIsDelivered == \A j \in Jobs : JobAt(j, "completed") => Of(j) \in delivered
FailedIsLettered == \A d \in Deliveries : JobAt(d, "thrown") \/ JobAt(d, "failed") => Lettered(d)
\* What the awaits in flight still know.
LiveKnows == \A d \in Deliveries : LiveAt(d, "mark") => Covered(d)
SweepKnows == /\ sweep.at \in {"mark", "retire"} => Covered(Row)
              /\ SweepAt("close") => Lettered(Row)
RedriveKnows == redrive.at \in {"retire", "close"} => Replayed(Letter)
\* No job stalls more often than the process ended.
StallsBounded == /\ \A j \in Jobs : ~JobAt(j, "failed") => Spent(j) <= crashes
                 /\ crashes <= MaxCrashes

LossInv == /\ ClosedIsHeld /\ LastIsOpen /\ LettersAreKnown /\ DoneIsDelivered /\ FailedIsLettered
           /\ LiveKnows /\ SweepKnows /\ RedriveKnows /\ StallsBounded

-----------------------------------------------------------------------------
(* What a step does to the jobs, the dead letters and the deliveries taken *)

JobMove(j) ==
  \/ job'[j].state = job[j].state /\ job'[j].stalls = job[j].stalls
  \/ /\ job[j].state \in {"none", "waiting", "running"}
     /\ job'[j].state \in {"waiting", "running", "saving"} /\ job'[j].stalls = job[j].stalls
  \/ JobAt(j, "running") /\ JobAt(j, "completed")' /\ job'[j].stalls = job[j].stalls /\ Of(j) \in delivered'
  \/ JobAt(j, "saving") /\ JobAt(j, "thrown")' /\ job'[j].stalls = job[j].stalls /\ WriteLetter(Of(j))
  \/ JobAt(j, "thrown") /\ JobAt(j, "failed")'
  \/ /\ JobAt(j, "stalled") /\ job'[j].stalls = job[j].stalls + 1
     /\ job'[j].state = IF job[j].stalls < MaxStalled THEN "waiting" ELSE "failed"
  \/ /\ job[j].state \in {"running", "saving", "thrown"} /\ JobAt(j, "stalled")'
     /\ job'[j].stalls = job[j].stalls /\ crashes' = crashes + 1

LetterMove == \/ UNCHANGED <<letter, last>>
              \/ \E d \in Deliveries : WriteLetter(d)
              \/ SweepRetire
              \/ RedriveClose

LEMMA AddsMoves ==
  ASSUME NEW k \in Jobs, Adds(k), NEW j \in Jobs
  PROVE  JobMove(j)
  <1>1. CASE JobAt(j, "none")
    BY <1>1 DEF Adds, JobMove, JobAt
  <1>2. CASE ~JobAt(j, "none")
    BY <1>2 DEF Adds, JobMove, JobAt
  <1> QED
    BY <1>1, <1>2

LEMMA WorkMoves ==
  ASSUME ~SaveFails, TypeInv, NEW k \in Jobs, Work(k), NEW j \in Jobs
  PROVE  JobMove(j)
  <1>1. job \in [Jobs -> JobTypes] /\ job[j] \in JobTypes /\ job[k] \in JobTypes
    BY DEF TypeInv, JobsTyped
  <1>2. CASE j # k
    <2>1. job'[j] = job[j]
      BY <1>1, <1>2 DEF Work, Take, Complete, Throw, JobLetter, JobFails, Unstall
    <2> QED
      BY <2>1 DEF JobMove
  <1>3. CASE j = k
    <2>1. CASE Take(j)
      BY <1>1, <2>1 DEF Take, JobMove, JobAt, JobTypes
    <2>2. CASE Complete(j)
      BY <1>1, <2>2 DEF Complete, JobMove, JobAt, JobTypes, Handled
    <2>3. CASE Throw(j)
      BY <1>1, <2>3 DEF Throw, JobMove, JobAt, JobTypes
    <2>4. CASE JobLetter(j)
      <3>1. WriteLetter(Of(j))
        BY <2>4 DEF JobLetter
      <3>2. JobAt(j, "saving") /\ job' = [job EXCEPT ![j].state = "thrown"]
        BY <2>4 DEF JobLetter
      <3>3. job'[j].state = "thrown" /\ job'[j].stalls = job[j].stalls
        BY <1>1, <3>2 DEF JobTypes
      <3> QED
        BY <3>1, <3>2, <3>3 DEF JobMove, JobAt
    <2>5. CASE JobFails(j)
      BY <1>1, <2>5 DEF JobFails, JobMove, JobAt, JobTypes
    <2>6. CASE Unstall(j)
      BY <1>1, <2>6 DEF Unstall, JobMove, JobAt, JobTypes
    <2> QED
      BY <1>3, <2>1, <2>2, <2>3, <2>4, <2>5, <2>6 DEF Work
  <1> QED
    BY <1>2, <1>3

LEMMA CrashMoves ==
  ASSUME TypeInv, Crash, NEW j \in Jobs
  PROVE  JobMove(j)
  <1>1. job \in [Jobs -> JobTypes] /\ job[j] \in JobTypes
    BY DEF TypeInv, JobsTyped
  <1>2. CASE job[j].state \in {"running", "saving", "thrown"}
    <2>1. job'[j] = [job[j] EXCEPT !.state = "stalled"] /\ crashes' = crashes + 1
      BY <1>2 DEF Crash
    <2>2. job'[j].state = "stalled" /\ job'[j].stalls = job[j].stalls
      BY <1>1, <2>1 DEF JobTypes
    <2> QED
      BY <1>2, <2>1, <2>2 DEF JobMove, JobAt
  <1>3. CASE job[j].state \notin {"running", "saving", "thrown"}
    <2>1. job'[j] = job[j]
      BY <1>3 DEF Crash
    <2> QED
      BY <2>1 DEF JobMove
  <1> QED
    BY <1>2, <1>3

\* Only the queue's steps, an enqueue and a crash move a job.
LEMMA JobSteps ==
  ASSUME TypeInv, [Next]_vars
  PROVE  \/ job' = job
         \/ \E k \in Jobs : Adds(k)
         \/ \E k \in Jobs : Work(k)
         \/ Crash
  <1>1. CASE UNCHANGED vars
    BY <1>1 DEF vars
  <1>2. ASSUME NEW d \in Deliveries, Live(d) \/ LiveFault(d) PROVE job' = job \/ \E k \in Jobs : Adds(k)
    <2>1. d \in Jobs
      BY DEF Jobs
    <2>2. CASE LiveEnqueue(d)
      BY <2>1, <2>2, QueuedAdds, RefusedAdds DEF LiveEnqueue
    <2> QED
      BY <1>2, <2>2 DEF Live, LiveInline, LiveMark, LiveBump, LiveTouch, LiveLetter, LiveFault
  <1>3. CASE Sweep \/ SweepFault
    <2>1. CASE SweepEnqueue
      <3>1. Row \in Jobs
        BY <2>1 DEF SweepEnqueue, SweepAt, TypeInv, SweepTyped, Row, Jobs
      <3> QED
        BY <2>1, <3>1, QueuedAdds, RefusedAdds DEF SweepEnqueue
    <2> QED
      BY <1>3, <2>1 DEF Sweep, SweepFind, SweepTurn, SweepInline, SweepMark, SweepRetire, SweepCount,
         SweepLetter, SweepClose, SweepBump, SweepFault
  <1>4. CASE Redrive \/ RedriveFault
    <2>1. ASSUME NEW l \in Letters, RedriveEnqueue(l) PROVE \E k \in Jobs : Adds(k)
      BY <2>1, QueuedAdds, RefusedAdds DEF RedriveEnqueue, Jobs
    <2> QED
      BY <1>4, <2>1 DEF Redrive, RedriveFind, RedriveInline, RedriveRetire, RedriveClose, RedriveFault
  <1>5. CASE \/ \E d \in Deliveries : Post(d) \/ Age(d) \/ Cool(d)
             \/ \E i \in Instances : Toggle(i)
             \/ Outage \/ Reconnect \/ Boot
    BY <1>5 DEF Post, Age, Cool, Toggle, Outage, Reconnect, Boot
  <1> QED
    BY <1>1, <1>2, <1>3, <1>4, <1>5 DEF Next

LEMMA StepMovesJob ==
  ASSUME ~SaveFails, TypeInv, [Next]_vars, NEW j \in Jobs
  PROVE  JobMove(j)
  <1>1. CASE job' = job
    BY <1>1 DEF JobMove
  <1>2. ASSUME NEW k \in Jobs, Adds(k) PROVE JobMove(j)
    BY <1>2, AddsMoves
  <1>3. ASSUME NEW k \in Jobs, Work(k) PROVE JobMove(j)
    BY <1>3, WorkMoves
  <1>4. CASE Crash
    BY <1>4, CrashMoves
  <1>5. \/ job' = job
        \/ \E k \in Jobs : Adds(k)
        \/ \E k \in Jobs : Work(k)
        \/ Crash
    BY JobSteps
  <1> QED
    BY <1>1, <1>2, <1>3, <1>4, <1>5

LEMMA LetterMoves ==
  ASSUME TypeInv, [Next]_vars
  PROVE  LetterMove
  <1> USE DEF LetterMove
  <1>1. CASE UNCHANGED vars
    BY <1>1 DEF vars, tables, ghosts
  <1>2. ASSUME NEW d \in Deliveries, Live(d) \/ LiveFault(d) PROVE LetterMove
    BY <1>2 DEF Live, LiveEnqueue, LiveInline, LiveMark, LiveBump, LiveTouch, LiveLetter, LiveFault,
       tables, ghosts
  <1>3. ASSUME NEW j \in Jobs, Work(j) PROVE LetterMove
    <2>1. CASE JobLetter(j)
      BY <2>1, OfTyped DEF JobLetter, JobAt
    <2> QED
      BY <1>3, <2>1 DEF Work, Take, Complete, Throw, JobFails, Unstall, tables, ghosts
  <1>4. CASE Sweep \/ SweepFault
    <2>1. CASE SweepLetter
      BY <2>1 DEF SweepLetter, SweepAt, TypeInv, SweepTyped, Row
    <2> QED
      BY <1>4, <2>1 DEF Sweep, SweepFind, SweepTurn, SweepEnqueue, SweepInline, SweepMark, SweepCount,
         SweepClose, SweepBump, SweepFault, tables, ghosts
  <1>5. CASE Redrive \/ RedriveFault
    BY <1>5 DEF Redrive, RedriveFind, RedriveEnqueue, RedriveInline, RedriveRetire, RedriveFault,
       tables, ghosts
  <1>6. CASE \/ \E d \in Deliveries : Post(d) \/ Age(d) \/ Cool(d)
             \/ \E i \in Instances : Toggle(i)
             \/ Outage \/ Reconnect \/ Crash \/ Boot
    BY <1>6 DEF Post, Age, Cool, Toggle, Outage, Reconnect, Crash, Boot, tables, ghosts
  <1> QED
    BY <1>1, <1>2, <1>3, <1>4, <1>5, <1>6 DEF Next

\* Deliveries taken only grow; the process ends at most MaxCrashes times.
LEMMA OthersMove ==
  ASSUME [Next]_vars
  PROVE  /\ delivered \subseteq delivered'
         /\ crashes' = crashes \/ (crashes < MaxCrashes /\ crashes' = crashes + 1)
  <1>1. CASE UNCHANGED vars
    BY <1>1 DEF vars, ghosts, bounds
  <1>2. ASSUME NEW d \in Deliveries, Live(d) \/ LiveFault(d)
        PROVE  delivered \subseteq delivered' /\ crashes' = crashes
    BY <1>2 DEF Live, LiveEnqueue, LiveInline, LiveMark, LiveBump, LiveTouch, LiveLetter, LiveFault,
       Handled, ghosts, bounds
  <1>3. ASSUME NEW j \in Jobs, Work(j) PROVE delivered \subseteq delivered' /\ crashes' = crashes
    BY <1>3 DEF Work, Take, Complete, Throw, JobLetter, JobFails, Unstall, Handled, ghosts, bounds
  <1>4. ASSUME Sweep \/ SweepFault PROVE delivered \subseteq delivered' /\ crashes' = crashes
    BY <1>4 DEF Sweep, SweepFind, SweepTurn, SweepEnqueue, SweepInline, SweepMark, SweepRetire, SweepCount,
       SweepLetter, SweepClose, SweepBump, SweepFault, Handled, ghosts, bounds
  <1>5. ASSUME Redrive \/ RedriveFault PROVE delivered \subseteq delivered' /\ crashes' = crashes
    BY <1>5 DEF Redrive, RedriveFind, RedriveEnqueue, RedriveInline, RedriveRetire, RedriveClose,
       RedriveFault, Handled, ghosts, bounds
  <1>6. ASSUME NEW d \in Deliveries, Post(d) \/ Age(d) \/ Cool(d)
        PROVE  delivered \subseteq delivered' /\ crashes' = crashes
    BY <1>6 DEF Post, Age, Cool, ghosts, bounds
  <1>7. CASE (\E i \in Instances : Toggle(i)) \/ Outage \/ Reconnect \/ Boot
    BY <1>7 DEF Toggle, Outage, Reconnect, Boot, ghosts, bounds
  <1>8. CASE Crash
    BY <1>8 DEF Crash, ghosts
  <1> QED
    BY <1>1, <1>2, <1>3, <1>4, <1>5, <1>6, <1>7, <1>8 DEF Next

\* What is known of a delivery or a dead letter stays known.
Grows == /\ \A l \in Letters : Written(l) => letter'[l].of = letter[l].of
         /\ \A d \in Deliveries : (Lettered(d) => Lettered(d)') /\ (Covered(d) => Covered(d)')
         /\ \A l \in Letters : Written(l) /\ Replayed(l) => Replayed(l)'
         /\ \A j \in Jobs : ~JobAt(j, "none") => ~JobAt(j, "none")' /\ Of(j)' = Of(j)

LEMMA LettersKept ==
  ASSUME TypeInv, [Next]_vars
  PROVE  /\ \A l \in Letters : Written(l) => letter'[l].of = letter[l].of
         /\ \A d \in Deliveries : Lettered(d) => Lettered(d)'
  <1>1. letter \in [Letters -> LetterTypes] /\ last \in [Deliveries -> Letters \cup {None}]
    BY DEF TypeInv, LettersTyped
  <1>2. CASE UNCHANGED <<letter, last>>
    BY <1>2 DEF Lettered
  <1>3. ASSUME NEW d \in Deliveries, WriteLetter(d)
        PROVE  /\ \A l \in Letters : Written(l) => letter'[l].of = letter[l].of
               /\ \A e \in Deliveries : Lettered(e) => Lettered(e)'
    BY <1>3, LetterWritten, Names DEF Lettered
  <1>4. CASE SweepRetire
    BY <1>1, <1>4 DEF SweepRetire, Lettered, ghosts, LetterTypes
  <1>5. CASE RedriveClose
    BY <1>1, <1>5 DEF RedriveClose, Lettered, ghosts, LetterTypes
  <1> QED
    BY <1>2, <1>3, <1>4, <1>5, LetterMoves DEF LetterMove

LEMMA StepGrows ==
  ASSUME ~SaveFails, TypeInv, [Next]_vars
  PROVE  Grows
  <1>1. \A j \in Jobs : ~JobAt(j, "none") => ~JobAt(j, "none")'
    <2> SUFFICES ASSUME NEW j \in Jobs, ~JobAt(j, "none") PROVE ~JobAt(j, "none")'
      OBVIOUS
    <2>1. JobMove(j)
      BY StepMovesJob
    <2> QED
      BY <2>1 DEF JobMove, JobAt
  <1>2. \A j \in Jobs : ~JobAt(j, "none") /\ j \notin Deliveries => j \in Letters /\ Written(j)
    BY DEF TypeInv, Held, Jobs
  <1>3. \A j \in Jobs : ~JobAt(j, "none") => Of(j)' = Of(j)
    BY <1>2, LettersKept DEF Of
  <1>4. delivered \subseteq delivered'
    BY OthersMove
  <1>5. \A d \in Deliveries : Covered(d) => Covered(d)'
    BY <1>1, <1>4 DEF Covered, Jobs
  <1>6. \A l \in Letters : Written(l) /\ Replayed(l) => Replayed(l)'
    BY <1>1, <1>4, LettersKept DEF Replayed, Jobs
  <1> QED
    BY <1>1, <1>3, <1>5, <1>6, LettersKept DEF Grows

-----------------------------------------------------------------------------
(* The parts of the invariant, each kept by every step *)

LEMMA StallsKept ==
  ASSUME ~SaveFails, TypeInv, StallsBounded, [Next]_vars
  PROVE  StallsBounded'
  <1>1. crashes' <= MaxCrashes /\ crashes <= crashes' /\ crashes' \in Nat /\ crashes \in Nat
    BY OthersMove, IngressAssumption DEF StallsBounded, TypeInv, RestTyped
  <1>2. ASSUME NEW j \in Jobs, ~JobAt(j, "failed")' PROVE Spent(j)' <= crashes'
    <2>1. JobMove(j)
      BY StepMovesJob
    <2>2. job[j].stalls \in Nat
      BY DEF TypeInv, JobsTyped, JobTypes
    <2>3. ~JobAt(j, "failed") => Spent(j) <= crashes
      BY DEF StallsBounded
    <2> QED
      BY <1>1, <1>2, <2>1, <2>2, <2>3 DEF JobMove, JobAt, Spent
  <1> QED
    BY <1>1, <1>2 DEF StallsBounded

\* A job whose worker died is retried: its stalls are within the budget.
LEMMA StalledIsRetried ==
  ASSUME MaxCrashes <= MaxStalled, TypeInv, StallsBounded, NEW j \in Jobs, JobAt(j, "stalled")
  PROVE  job[j].stalls < MaxStalled
  <1>1. Spent(j) <= crashes /\ crashes <= MaxCrashes
    BY DEF StallsBounded, JobAt
  <1>2. job[j].stalls \in Nat /\ crashes \in Nat
    BY DEF TypeInv, JobsTyped, JobTypes, RestTyped
  <1> QED
    BY <1>1, <1>2, IngressAssumption DEF Spent

\* A job that has thrown had, or just wrote, a dead letter.
LEMMA ThrownMoves ==
  ASSUME ~SaveFails, MaxCrashes <= MaxStalled, TypeInv, StallsBounded, [Next]_vars, NEW j \in Jobs,
         JobAt(j, "thrown")' \/ JobAt(j, "failed")'
  PROVE  JobAt(j, "thrown") \/ JobAt(j, "failed") \/ (JobAt(j, "saving") /\ WriteLetter(Of(j)))
  <1>1. JobMove(j)
    BY StepMovesJob
  <1>2. JobAt(j, "stalled") => job[j].stalls < MaxStalled
    BY StalledIsRetried
  <1> QED
    BY <1>1, <1>2 DEF JobMove, JobAt

LEMMA FailedKept ==
  ASSUME ~SaveFails, MaxCrashes <= MaxStalled, TypeInv, LossInv, [Next]_vars
  PROVE  FailedIsLettered'
  <1> SUFFICES ASSUME NEW d \in Deliveries, JobAt(d, "thrown")' \/ JobAt(d, "failed")'
               PROVE  Lettered(d)'
    BY DEF FailedIsLettered
  <1>1. d \in Jobs /\ Of(d) = d
    BY DEF Jobs, Of
  <1>2. JobAt(d, "thrown") \/ JobAt(d, "failed") \/ (JobAt(d, "saving") /\ WriteLetter(Of(d)))
    BY <1>1, ThrownMoves DEF LossInv
  <1>3. CASE JobAt(d, "thrown") \/ JobAt(d, "failed")
    BY <1>3, LettersKept DEF LossInv, FailedIsLettered
  <1>4. CASE WriteLetter(Of(d))
    BY <1>1, <1>4, LetterWritten, Names DEF Lettered
  <1> QED
    BY <1>2, <1>3, <1>4

LEMMA DoneKept ==
  ASSUME ~SaveFails, TypeInv, DoneIsDelivered, [Next]_vars
  PROVE  DoneIsDelivered'
  <1> SUFFICES ASSUME NEW j \in Jobs, JobAt(j, "completed")' PROVE Of(j)' \in delivered'
    BY DEF DoneIsDelivered
  <1>1. JobMove(j)
    BY StepMovesJob
  <1>2. JobAt(j, "completed") \/ (JobAt(j, "running") /\ Of(j) \in delivered')
    BY <1>1 DEF JobMove, JobAt
  <1>3. ~JobAt(j, "none")
    BY <1>2 DEF JobAt
  <1>4. Of(j)' = Of(j)
    BY <1>3, StepGrows DEF Grows
  <1>5. CASE JobAt(j, "completed")
    BY <1>4, <1>5, OthersMove DEF DoneIsDelivered
  <1> QED
    BY <1>2, <1>4, <1>5

LEMMA KnownKept ==
  ASSUME TypeInv, LettersAreKnown, [Next]_vars
  PROVE  LettersAreKnown'
  <1> SUFFICES ASSUME NEW l \in Letters, Written(l)' PROVE last'[letter'[l].of] # None
    BY DEF LettersAreKnown, Lettered
  <1>1. letter \in [Letters -> LetterTypes]
    BY DEF TypeInv, LettersTyped
  <1>2. CASE Written(l)
    <2>1. letter[l].of \in Deliveries /\ Lettered(letter[l].of)
      BY <1>2 DEF LettersAreKnown, Written
    <2> QED
      BY <1>2, <2>1, LettersKept DEF Lettered
  <1>3. CASE ~Written(l)
    <2>1. ASSUME NEW d \in Deliveries, WriteLetter(d) PROVE last'[letter'[l].of] # None
      BY <1>3, <2>1, LetterWritten, Names
    <2>2. letter' = letter => FALSE
      BY <1>3 DEF Written
    <2>3. ~SweepRetire
      BY <1>1, <1>3 DEF SweepRetire, Written, LetterTypes
    <2>4. ~RedriveClose
      BY <1>1, <1>3 DEF RedriveClose, Written, LetterTypes
    <2> QED
      BY <2>1, <2>2, <2>3, <2>4, LetterMoves DEF LetterMove
  <1> QED
    BY <1>2, <1>3

LEMMA LastKept ==
  ASSUME ~SaveFails, MaxCrashes <= MaxStalled, TypeInv, LossInv, [Next]_vars
  PROVE  LastIsOpen'
  <1> SUFFICES ASSUME NEW d \in Deliveries, Lettered(d)'
               PROVE  /\ letter'[last'[d]].of = d
                      /\ job'[last'[d]].state \notin {"thrown", "failed"}
                      /\ letter'[last'[d]].redriven => Covered(d)' \/ job'[last'[d]].state # "none"
    BY DEF LastIsOpen, JobAt
  <1>t. letter \in [Letters -> LetterTypes] /\ last \in [Deliveries -> Letters \cup {None}]
    BY DEF TypeInv, LettersTyped
  <1>g. Grows
    BY StepGrows
  <1>1. CASE last'[d] = last[d]
    <2>0. PICK l \in Letters : l = last[d]
      BY <1>1, <1>t DEF Lettered
    <2>1. l \in Letters /\ l \in Jobs /\ l \notin Deliveries
      BY IngressAssumption DEF Jobs
    <2>2. /\ Lettered(d) /\ letter[l].of = d /\ ~JobAt(l, "thrown") /\ ~JobAt(l, "failed")
          /\ letter[l].redriven => Covered(d) \/ ~JobAt(l, "none")
      BY <1>1, <2>0 DEF LossInv, LastIsOpen, Lettered
    <2>3. letter'[l].of = d
      BY <1>g, <2>1, <2>2 DEF Grows, Written
    <2>4. ~JobAt(l, "thrown")' /\ ~JobAt(l, "failed")'
      <3>1. SUFFICES ASSUME JobAt(l, "thrown")' \/ JobAt(l, "failed")' PROVE FALSE
        OBVIOUS
      <3>2. JobAt(l, "saving") /\ WriteLetter(Of(l))
        BY <2>1, <2>2, <3>1, ThrownMoves DEF LossInv
      <3>3. WriteLetter(d)
        BY <2>1, <2>2, <3>2 DEF Of
      <3>4. last'[d] = NewLetter /\ letter[NewLetter] = NoLetter
        BY <3>3, LetterWritten
      <3> QED
        BY <1>1, <2>0, <2>2, <3>4, Names DEF NoLetter
    <2>5. letter'[l].redriven => Covered(d)' \/ ~JobAt(l, "none")'
      <3>1. CASE letter[l].redriven
        BY <1>g, <2>1, <2>2, <3>1 DEF Grows
      <3>2. CASE ~letter[l].redriven
        <4>1. ASSUME NEW e \in Deliveries, WriteLetter(e) PROVE ~letter'[l].redriven
          BY <2>1, <3>2, <4>1, LetterWritten
        <4>2. CASE SweepRetire
          <5>1. letter'[l].redriven => d = Row
            BY <1>t, <2>1, <2>2, <3>2, <4>2 DEF SweepRetire, LettersOf, LetterTypes
          <5>2. Covered(Row)
            BY <4>2 DEF SweepRetire, SweepAt, LossInv, SweepKnows
          <5> QED
            BY <1>g, <5>1, <5>2 DEF Grows
        <4>3. CASE RedriveClose
          <5>1. letter'[l].redriven => l = Letter
            BY <1>t, <2>1, <3>2, <4>3 DEF RedriveClose, LetterTypes
          <5>2. Replayed(Letter)
            BY <4>3 DEF RedriveClose, RedriveAt, LossInv, RedriveKnows
          <5>3. Replayed(l) => Covered(d)' \/ ~JobAt(l, "none")'
            BY <1>g, <2>1, <2>2 DEF Grows, Replayed, Covered
          <5> QED
            BY <5>1, <5>2, <5>3
        <4>4. CASE letter' = letter
          BY <3>2, <4>4
        <4> QED
          BY <4>1, <4>2, <4>3, <4>4, LetterMoves DEF LetterMove
      <3> QED
        BY <3>1, <3>2
    <2> QED
      BY <1>1, <2>0, <2>3, <2>4, <2>5 DEF JobAt
  <1>2. CASE last'[d] # last[d]
    <2>1. WriteLetter(d)
      <3>1. ASSUME NEW e \in Deliveries, WriteLetter(e), e # d PROVE FALSE
        BY <1>2, <3>1, LetterWritten
      <3>2. ~SweepRetire /\ ~RedriveClose
        BY <1>2 DEF SweepRetire, RedriveClose, ghosts
      <3> QED
        BY <1>2, <3>1, <3>2, LetterMoves DEF LetterMove
    <2>0. PICK l \in Letters : l = NewLetter
      BY <2>1, LetterWritten
    <2>2. /\ l \in Letters /\ letter[l] = NoLetter /\ last'[d] = l
          /\ letter'[l].of = d /\ ~letter'[l].redriven
      BY <2>0, <2>1, LetterWritten
    <2>3. l \in Jobs
      BY <2>2 DEF Jobs
    <2>4. JobAt(l, "none")
      BY <2>2, Names DEF TypeInv, Held, Written, NoLetter
    <2>5. ~JobAt(l, "thrown")' /\ ~JobAt(l, "failed")'
      BY <2>3, <2>4, ThrownMoves DEF LossInv, JobAt
    <2> QED
      BY <2>2, <2>5 DEF JobAt
  <1> QED
    BY <1>1, <1>2

LEMMA ClosedKept ==
  ASSUME ~SaveFails, TypeInv, LossInv, [Next]_vars
  PROVE  ClosedIsHeld'
  <1> SUFFICES ASSUME NEW d \in Deliveries, event'[d].state \in {"dispatched", "failed"}
               PROVE  Covered(d)' \/ Lettered(d)'
    BY DEF ClosedIsHeld
  <1>t. event \in [Deliveries -> EventTypes] /\ event[d] \in EventTypes
    BY DEF TypeInv, EventsTyped
  <1>g. Grows
    BY StepGrows
  <1> SUFFICES event[d].state \in {"dispatched", "failed"} \/ Covered(d) \/ Lettered(d)
    BY <1>g DEF Grows, LossInv, ClosedIsHeld
  <1> DEFINE Goal == event[d].state \in {"dispatched", "failed"} \/ Covered(d) \/ Lettered(d)
  <1>0. event' = event => Goal
    OBVIOUS
  <1> HIDE DEF Goal
  <1>1. CASE UNCHANGED vars
    BY <1>0, <1>1 DEF vars, tables
  <1>2. ASSUME NEW e \in Deliveries, Live(e) \/ LiveFault(e) PROVE Goal
    <2>1. CASE LiveMark(e)
      BY <1>t, <2>1 DEF LiveMark, MarkDispatched, LossInv, LiveKnows, EventTypes, Goal
    <2>2. CASE LiveBump(e) \/ LiveTouch(e)
      BY <1>t, <2>2 DEF LiveBump, LiveTouch, EventTypes, Goal
    <2> QED
      BY <1>0, <1>2, <2>1, <2>2 DEF Live, LiveEnqueue, LiveInline, LiveLetter, LiveFault, tables
  <1>3. ASSUME NEW j \in Jobs, Work(j) PROVE Goal
    BY <1>0, <1>3 DEF Work, Take, Complete, Throw, JobLetter, JobFails, Unstall, tables
  <1>4. CASE Sweep \/ SweepFault
    <2>1. CASE SweepMark
      BY <1>t, <2>1 DEF SweepMark, SweepAt, MarkDispatched, LossInv, SweepKnows, EventTypes, Goal
    <2>2. CASE SweepClose
      BY <1>t, <2>2 DEF SweepClose, SweepAt, LossInv, SweepKnows, EventTypes, Goal
    <2>3. CASE SweepBump
      BY <1>t, <2>3 DEF SweepBump, Counted, EventTypes, Goal
    <2> QED
      BY <1>0, <1>4, <2>1, <2>2, <2>3 DEF Sweep, SweepFind, SweepTurn, SweepEnqueue, SweepInline,
         SweepRetire, SweepCount, SweepLetter, SweepFault, tables
  <1>5. CASE Redrive \/ RedriveFault
    <2>1. CASE RedriveRetire
      <3>1. Letter \in Letters /\ Written(Letter)
        BY <2>1 DEF RedriveRetire, RedriveAt, TypeInv, Held, Letter
      <3>2. Lettered(LetterOf)
        BY <3>1 DEF LossInv, LettersAreKnown, LetterOf
      <3> QED
        BY <1>t, <2>1, <3>2 DEF RedriveRetire, MarkDispatched, EventTypes, Goal
    <2> QED
      BY <1>0, <1>5, <2>1 DEF Redrive, RedriveFind, RedriveEnqueue, RedriveInline, RedriveClose,
         RedriveFault, tables
  <1>6. ASSUME NEW e \in Deliveries, Post(e) \/ Age(e) \/ Cool(e) PROVE Goal
    BY <1>t, <1>6 DEF Post, Age, Cool, EventTypes, Goal
  <1>7. CASE (\E i \in Instances : Toggle(i)) \/ Outage \/ Reconnect \/ Crash \/ Boot
    BY <1>0, <1>7 DEF Toggle, Outage, Reconnect, Crash, Boot, tables
  <1> QED
    BY <1>1, <1>2, <1>3, <1>4, <1>5, <1>6, <1>7 DEF Next, Goal

\* Adding the job of an id: the queue knows it from here on.
LEMMA QueuedIsThere ==
  ASSUME TypeInv, NEW j \in Jobs, Queued(j)
  PROVE  ~JobAt(j, "none")'
  BY QueuedAdds DEF JobAt

LEMMA LiveKept ==
  ASSUME ~SaveFails, TypeInv, LossInv, [Next]_vars
  PROVE  LiveKnows'
  <1> SUFFICES ASSUME NEW d \in Deliveries, live'[d] = "mark" PROVE Covered(d)'
    BY DEF LiveKnows, LiveAt
  <1>t. live \in [Deliveries -> {"off", "enqueue", "inline", "mark", "bump", "touch", "letter"}]
    BY DEF TypeInv, LiveTyped
  <1>1. live[d] = "mark" => Covered(d)'
    BY StepGrows DEF Grows, LossInv, LiveKnows, LiveAt
  <1>2. live' = live => Covered(d)'
    BY <1>1
  <1>3. CASE UNCHANGED vars
    BY <1>2, <1>3 DEF vars, memory
  <1>4. ASSUME NEW e \in Deliveries, Live(e) \/ LiveFault(e) PROVE Covered(d)'
    <2>1. CASE e # d
      <3>1. live'[d] = live[d]
        BY <1>t, <1>4, <2>1 DEF Live, LiveEnqueue, LiveInline, LiveMark, LiveBump, LiveTouch,
           LiveLetter, LiveFault, LiveTo
      <3> QED
        BY <1>1, <3>1
    <2>2. CASE e = d
      <3>1. CASE LiveEnqueue(d)
        <4>1. Queued(d)
          BY <1>t, <3>1 DEF LiveEnqueue, LiveTo
        <4> QED
          BY <4>1, QueuedIsThere DEF Covered, Jobs
      <3>2. CASE LiveInline(d)
        <4>1. Handled(d)
          BY <1>t, <3>2 DEF LiveInline, LiveTo
        <4> QED
          BY <4>1 DEF Handled, Covered
      <3>3. CASE LiveMark(d) \/ LiveBump(d) \/ LiveTouch(d) \/ LiveLetter(d) \/ LiveFault(d)
        BY <1>t, <3>3 DEF LiveMark, LiveBump, LiveTouch, LiveLetter, LiveFault, LiveTo
      <3> QED
        BY <1>4, <2>2, <3>1, <3>2, <3>3 DEF Live
    <2> QED
      BY <2>1, <2>2
  <1>5. ASSUME NEW j \in Jobs, Work(j) PROVE Covered(d)'
    BY <1>2, <1>5 DEF Work, Take, Complete, Throw, JobLetter, JobFails, Unstall, memory
  <1>6. CASE Sweep \/ SweepFault
    BY <1>2, <1>6 DEF Sweep, SweepFind, SweepTurn, SweepEnqueue, SweepInline, SweepMark, SweepRetire,
       SweepCount, SweepLetter, SweepClose, SweepBump, SweepFault
  <1>7. CASE Redrive \/ RedriveFault
    BY <1>2, <1>7 DEF Redrive, RedriveFind, RedriveEnqueue, RedriveInline, RedriveRetire, RedriveClose,
       RedriveFault
  <1>8. ASSUME NEW e \in Deliveries, Post(e) PROVE Covered(d)'
    BY <1>1, <1>t, <1>8 DEF Post, LiveTo
  <1>9. CASE \/ \E e \in Deliveries : Age(e) \/ Cool(e)
             \/ \E i \in Instances : Toggle(i)
             \/ Outage \/ Reconnect \/ Crash \/ Boot
    BY <1>2, <1>9 DEF Age, Cool, Toggle, Outage, Reconnect, Crash, Boot, memory
  <1> QED
    BY <1>3, <1>4, <1>5, <1>6, <1>7, <1>8, <1>9 DEF Next

LEMMA SweepKept ==
  ASSUME ~SaveFails, TypeInv, LossInv, [Next]_vars
  PROVE  SweepKnows'
  <1>g. Grows
    BY StepGrows
  <1>t. sweep \in SweepTypes /\ (sweep.at # "idle" => Row \in Deliveries)
    BY DEF TypeInv, SweepTyped, Row
  <1>c. ASSUME sweep.at \in {"mark", "retire"}, Row' = Row PROVE Covered(Row)'
    <2>1. PICK d \in Deliveries : d = Row
      BY <1>c, <1>t
    <2>2. Covered(d)'
      BY <1>c, <1>g, <2>1 DEF Grows, LossInv, SweepKnows
    <2> QED
      BY <1>c, <2>1, <2>2 DEF Covered, JobAt
  <1>1. CASE sweep' = sweep
    <2>1. Row' = Row /\ sweep'.at = sweep.at
      BY <1>1 DEF Row
    <2>2. CASE sweep.at \in {"mark", "retire"}
      BY <1>c, <2>1, <2>2 DEF SweepKnows, SweepAt
    <2>3. CASE sweep.at = "close"
      <3>1. PICK d \in Deliveries : d = Row
        BY <1>t, <2>3
      <3>2. Lettered(d)'
        BY <1>g, <2>3, <3>1 DEF Grows, LossInv, SweepKnows, SweepAt
      <3> QED
        BY <2>1, <2>3, <3>1, <3>2 DEF SweepKnows, SweepAt, Lettered
    <2> QED
      BY <2>1, <2>2, <2>3 DEF SweepKnows, SweepAt
  <1>2. CASE sweep'.at \notin {"mark", "retire", "close"}
    BY <1>2 DEF SweepKnows, SweepAt
  <1>3. CASE Sweep \/ SweepFault
    <2>1. CASE SweepEnqueue
      <3>1. Row' = Row /\ sweep'.at \in {"mark", "inline"} /\ (sweep'.at = "mark" => Queued(Row))
        BY <1>t, <2>1 DEF SweepEnqueue, SweepTo, Row, SweepTypes
      <3>2. PICK d \in Deliveries : d = Row
        BY <1>t, <2>1 DEF SweepEnqueue, SweepAt
      <3>3. sweep'.at = "mark" => ~JobAt(d, "none")'
        BY <3>1, <3>2, QueuedIsThere DEF Jobs
      <3> QED
        BY <3>1, <3>2, <3>3 DEF SweepKnows, SweepAt, Covered, JobAt
    <2>2. CASE SweepInline
      <3>1. Row' = Row /\ sweep'.at \in {"mark", "count", "bump"} /\ (sweep'.at = "mark" => Handled(Row))
        BY <1>t, <2>2 DEF SweepInline, SweepTo, Row, SweepTypes, AfterFailure
      <3> QED
        BY <3>1 DEF SweepKnows, SweepAt, Covered, Handled
    <2>3. CASE SweepMark
      <3>1. Row' = Row /\ sweep'.at = "retire"
        BY <1>t, <2>3 DEF SweepMark, SweepTo, Row, SweepTypes
      <3>2. Covered(Row)'
        BY <1>c, <2>3, <3>1 DEF SweepMark, SweepAt
      <3> QED
        BY <3>1, <3>2 DEF SweepKnows, SweepAt
    <2>4. CASE SweepCount
      <3>1. Row' = Row /\ sweep'.at \in {"letter", "close"} /\ last' = last
        BY <1>t, <2>4 DEF SweepCount, SweepTo, Row, SweepTypes, ghosts
      <3>2. Row \in Deliveries
        BY <1>t, <2>4 DEF SweepCount, SweepAt
      <3>3. sweep'.at = "close" => LettersOf(Row) # {}
        BY <1>t, <2>4 DEF SweepCount, SweepTo, SweepTypes
      <3>4. LettersOf(Row) # {} => Lettered(Row)
        BY <3>2 DEF LettersOf, LossInv, LettersAreKnown, Written
      <3> QED
        BY <3>1, <3>3, <3>4 DEF SweepKnows, SweepAt, Lettered
    <2>5. CASE SweepLetter
      <3>1. Row' = Row /\ sweep'.at = "close" /\ WriteLetter(Row)
        BY <1>t, <2>5 DEF SweepLetter, SweepTo, Row, SweepTypes
      <3>2. Row \in Deliveries
        BY <1>t, <2>5 DEF SweepLetter, SweepAt
      <3>3. last'[Row] # None
        BY <3>1, <3>2, LetterWritten, Names
      <3> QED
        BY <3>1, <3>3 DEF SweepKnows, SweepAt, Lettered
    <2>6. ASSUME NEW rows, NEW tries, SweepGoes(rows, tries) PROVE SweepKnows'
      BY <1>2, <2>6 DEF SweepGoes, NoSweep
    <2>7. CASE SweepFind
      BY <2>6, <2>7 DEF SweepFind
    <2>8. CASE SweepTurn
      BY <1>2, <1>t, <2>6, <2>8 DEF SweepTurn, SweepSkips, SweepNext, SweepTo, SweepTypes
    <2>9. CASE SweepRetire \/ SweepClose \/ SweepBump \/ SweepFault
      BY <2>6, <2>9 DEF SweepRetire, SweepClose, SweepBump, SweepFault, SweepSkips, SweepNext
    <2> QED
      BY <1>3, <2>1, <2>2, <2>3, <2>4, <2>5, <2>7, <2>8, <2>9 DEF Sweep
  <1>4. CASE UNCHANGED vars
    BY <1>1, <1>4 DEF vars, memory
  <1>5. CASE Crash
    BY <1>2, <1>5 DEF Crash, NoSweep
  <1>6. ASSUME NEW d \in Deliveries, Live(d) \/ LiveFault(d) \/ Post(d) \/ Age(d) \/ Cool(d) PROVE sweep' = sweep
    BY <1>6 DEF Live, LiveEnqueue, LiveInline, LiveMark, LiveBump, LiveTouch, LiveLetter, LiveFault, Post,
       Age, Cool, memory
  <1>7. ASSUME NEW j \in Jobs, Work(j) PROVE sweep' = sweep
    BY <1>7 DEF Work, Take, Complete, Throw, JobLetter, JobFails, Unstall, memory
  <1>8. ASSUME Redrive \/ RedriveFault PROVE sweep' = sweep
    BY <1>8 DEF Redrive, RedriveFind, RedriveEnqueue, RedriveInline, RedriveRetire, RedriveClose, RedriveFault
  <1>9. ASSUME (\E i \in Instances : Toggle(i)) \/ Outage \/ Reconnect \/ Boot PROVE sweep' = sweep
    BY <1>9 DEF Toggle, Outage, Reconnect, Boot, memory
  <1> QED
    BY <1>1, <1>3, <1>4, <1>5, <1>6, <1>7, <1>8, <1>9 DEF Next

LEMMA RedriveKept ==
  ASSUME ~SaveFails, TypeInv, LossInv, [Next]_vars
  PROVE  RedriveKnows'
  <1>g. Grows
    BY StepGrows
  <1>t. redrive \in RedriveTypes /\ letter \in [Letters -> LetterTypes]
    BY DEF TypeInv, RedriveTyped, LettersTyped
  <1>w. redrive.at \in {"inline", "retire", "close"} => Letter \in Letters /\ Written(Letter)
    BY DEF TypeInv, Held, Letter
  <1>k. ASSUME redrive.at \in {"retire", "close"}, redrive'.row = redrive.row PROVE Replayed(Letter)'
    <2>1. PICK l \in Letters : l = Letter /\ Written(l) /\ Replayed(l)
      BY <1>k, <1>w DEF LossInv, RedriveKnows
    <2>2. Replayed(l)'
      BY <1>g, <2>1 DEF Grows
    <2> QED
      BY <1>k, <2>1, <2>2 DEF Replayed, Letter, JobAt
  <1>1. CASE redrive' = redrive
    BY <1>1, <1>k DEF RedriveKnows
  <1>2. CASE redrive'.at \notin {"retire", "close"}
    BY <1>2 DEF RedriveKnows
  <1>3. CASE Redrive \/ RedriveFault
    <2>1. ASSUME NEW l \in Letters, RedriveEnqueue(l) PROVE RedriveKnows'
      <3>1. redrive'.row = l /\ redrive'.at \in {"retire", "inline"} /\ (redrive'.at = "retire" => Queued(l))
        BY <2>1 DEF RedriveEnqueue
      <3>2. redrive'.at = "retire" => ~JobAt(l, "none")'
        BY <3>1, QueuedIsThere DEF Jobs
      <3> QED
        BY <3>1, <3>2 DEF RedriveKnows, Replayed, Letter, JobAt
    <2>2. CASE RedriveInline
      <3>1. CASE Handled(LetterOf) /\ RedriveTo("retire")
        <4>1. redrive'.row = redrive.row /\ letter' = letter
          BY <1>t, <2>2, <3>1 DEF RedriveInline, RedriveTo, RedriveTypes, tables
        <4> QED
          BY <3>1, <4>1 DEF RedriveKnows, Replayed, Handled, LetterOf, Letter
      <3>2. CASE RedriveNext
        BY <1>2, <1>t, <3>2 DEF RedriveNext, NoRedrive, RedriveTypes
      <3> QED
        BY <2>2, <3>1, <3>2 DEF RedriveInline
    <2>3. CASE RedriveRetire
      <3>1. redrive'.row = redrive.row /\ redrive.at = "retire"
        BY <1>t, <2>3 DEF RedriveRetire, RedriveAt, RedriveTo, RedriveTypes
      <3> QED
        BY <1>k, <3>1 DEF RedriveKnows
    <2>4. CASE RedriveClose
      BY <1>2, <1>t, <2>4 DEF RedriveClose, RedriveNext, NoRedrive, RedriveTypes
    <2>5. CASE RedriveFind
      <3>1. redrive'.at = "turn"
        BY <2>5 DEF RedriveFind, NoRedrive
      <3> QED
        BY <1>2, <3>1
    <2>6. CASE RedriveFault
      BY <1>2, <2>6 DEF RedriveFault, NoRedrive
    <2> QED
      BY <1>3, <2>1, <2>2, <2>3, <2>4, <2>5, <2>6 DEF Redrive
  <1>4. CASE UNCHANGED vars
    BY <1>1, <1>4 DEF vars, memory
  <1>5. CASE Crash
    BY <1>2, <1>5 DEF Crash, NoRedrive
  <1>6. ASSUME NEW d \in Deliveries, Live(d) \/ LiveFault(d) \/ Post(d) \/ Age(d) \/ Cool(d) PROVE redrive' = redrive
    BY <1>6 DEF Live, LiveEnqueue, LiveInline, LiveMark, LiveBump, LiveTouch, LiveLetter, LiveFault, Post,
       Age, Cool, memory
  <1>7. ASSUME NEW j \in Jobs, Work(j) PROVE redrive' = redrive
    BY <1>7 DEF Work, Take, Complete, Throw, JobLetter, JobFails, Unstall, memory
  <1>8. ASSUME Sweep \/ SweepFault PROVE redrive' = redrive
    BY <1>8 DEF Sweep, SweepFind, SweepTurn, SweepEnqueue, SweepInline, SweepMark, SweepRetire,
       SweepCount, SweepLetter, SweepClose, SweepBump, SweepFault
  <1>9. ASSUME (\E i \in Instances : Toggle(i)) \/ Outage \/ Reconnect \/ Boot PROVE redrive' = redrive
    BY <1>9 DEF Toggle, Outage, Reconnect, Boot, memory
  <1> QED
    BY <1>1, <1>3, <1>4, <1>5, <1>6, <1>7, <1>8, <1>9 DEF Next

-----------------------------------------------------------------------------
(* The theorem *)

LEMMA InitLoss == Init => LossInv
  <1> SUFFICES ASSUME Init PROVE LossInv
    OBVIOUS
  <1>1. ClosedIsHeld /\ LastIsOpen /\ LiveKnows
    BY DEF Init, ClosedIsHeld, LastIsOpen, LiveKnows, Lettered, LiveAt
  <1>2. LettersAreKnown
    BY Names DEF Init, LettersAreKnown, Written, NoLetter
  <1>3. DoneIsDelivered /\ FailedIsLettered
    BY DEF Init, DoneIsDelivered, FailedIsLettered, JobAt, Jobs, NoJob
  <1>4. SweepKnows /\ RedriveKnows
    BY DEF Init, SweepKnows, RedriveKnows, SweepAt, NoSweep, NoRedrive
  <1>5. StallsBounded
    BY IngressAssumption DEF Init, StallsBounded, Spent, JobAt, NoJob
  <1> QED
    BY <1>1, <1>2, <1>3, <1>4, <1>5 DEF LossInv

LEMMA StepLoss ==
  ASSUME ~SaveFails, MaxCrashes <= MaxStalled, TypeInv, LossInv, [Next]_vars
  PROVE  LossInv'
  <1>1. StallsBounded' /\ DoneIsDelivered' /\ LettersAreKnown'
    BY StallsKept, DoneKept, KnownKept DEF LossInv
  <1>2. FailedIsLettered' /\ LastIsOpen' /\ ClosedIsHeld'
    BY FailedKept, LastKept, ClosedKept
  <1>3. LiveKnows' /\ SweepKnows' /\ RedriveKnows'
    BY LiveKept, SweepKept, RedriveKept
  <1> QED
    BY <1>1, <1>2, <1>3 DEF LossInv

\* What the invariant says of a closed row that no handler took.
LEMMA LossInvImplies ==
  ASSUME TypeInv, LossInv
  PROVE  NoSilentLoss
  <1> SUFFICES ASSUME NEW d \in Deliveries, Recorded(d), d \notin delivered, ~Pending(d), ~InQueue(d), ~Dead(d)
               PROVE  Absorbed(d)
    BY DEF NoSilentLoss, Recoverable
  <1>1. Covered(d) \/ Lettered(d)
    BY DEF LossInv, ClosedIsHeld, TypeInv, EventsTyped, EventTypes, Recorded, Pending
  \* A job of this delivery has ended in failure.
  <1>2. ASSUME NEW j \in Jobs, Of(j) = d, ~JobAt(j, "none") PROVE JobAt(j, "failed")
    <2>1. ~Working(j)
      BY <1>2 DEF InQueue
    <2>2. ~JobAt(j, "completed")
      BY <1>2 DEF LossInv, DoneIsDelivered
    <2> QED
      BY <1>2, <2>1, <2>2 DEF TypeInv, JobsTyped, JobTypes, JobStates, Working, JobAt
  <1>3. d \in Jobs /\ Of(d) = d
    BY DEF Jobs, Of
  <1>4. Covered(d) => JobAt(d, "failed")
    BY <1>2, <1>3 DEF Covered
  <1>5. Lettered(d)
    BY <1>1, <1>4 DEF LossInv, FailedIsLettered
  <1>6. PICK l \in Letters : l = last[d]
    BY <1>5 DEF TypeInv, LettersTyped, Lettered
  <1>7. letter[l].of = d /\ ~JobAt(l, "failed") /\ (letter[l].redriven => Covered(d) \/ ~JobAt(l, "none"))
    BY <1>5, <1>6 DEF LossInv, LastIsOpen
  <1>8. l \in LettersOf(d)
    BY <1>7 DEF LettersOf
  <1>9. letter[l].redriven
    BY <1>7, <1>8 , Names DEF Dead, Open
  <1>10. JobAt(l, "none")
    <2>1. l \in Jobs /\ Of(l) = d
      BY <1>7, IngressAssumption DEF Jobs, Of
    <2> QED
      BY <1>2, <1>7, <2>1
  <1> QED
    BY <1>4, <1>7, <1>8, <1>9, <1>10 DEF Absorbed

\* A recorded delivery that no handler took stays pending, queued or dead-lettered, through
\* failed queries, a broken queue connection, restarts, sweeps and redrives in any order, but
\* for the replay that the failed job absorbs (IngressReconcilerService.sweep).
THEOREM DeliveriesRecoverable ==
  ASSUME ~SaveFails, MaxCrashes <= MaxStalled
  PROVE  Spec => []NoSilentLoss
  <1>1. TypeInv /\ LossInv /\ [Next]_vars => LossInv'
    BY StepLoss
  <1>2. TypeInv /\ LossInv => NoSilentLoss
    BY LossInvImplies
  <1> QED
    BY <1>1, <1>2, InitLoss, AlwaysTyped, PTL DEF Spec
=============================================================================
