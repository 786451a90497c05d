--------------------------- MODULE SchedulerProof ----------------------------
(***************************************************************************)
(* Proofs about Scheduler: runs keep their distance and events their       *)
(* deadline, for every interval, lag and number of handlers.               *)
(***************************************************************************)
EXTENDS Scheduler, TLAPS

\* Neither the loop nor a handler plans a run closer to the last one than the
\* shorter of the two intervals, less the age of the time they act on.
SpacedPlan == due + since >= Shorter - MaxLag

Inv == TypeOK /\ SpacedPlan /\ EventsAreDue

\* nextRunAt is long past, and no event has come, when the process starts.
LEMMA InitInv == Init => Inv
<1> SUFFICES ASSUME Init PROVE Inv
  OBVIOUS
<1> USE SchedulerAssumption DEF Init, None, Shorter, Longer, Oldest
<1>1. TypeOK
  <2>1. handler \in [Handlers -> {None} \cup 0 .. MaxLag]
    OBVIOUS
  <2>2. due \in -MaxLag .. Longer /\ since \in 0 .. Oldest /\ loopAge \in 0 .. MaxLag
    OBVIOUS
  <2>3. QED
    BY <2>1, <2>2 DEF TypeOK
<1>2. SpacedPlan /\ EventsAreDue
  BY DEF SpacedPlan, EventsAreDue
<1>3. QED
  BY <1>1, <1>2 DEF Inv

\* The types are kept by every step.
LEMMA TypeStep == TypeOK /\ [Next]_vars => TypeOK'
<1> SUFFICES ASSUME TypeOK, [Next]_vars PROVE TypeOK'
  OBVIOUS
<1> USE SchedulerAssumption DEF TypeOK, None, Longer, Oldest
<1>1. ASSUME NEW h \in Handlers, EventArrives(h) PROVE TypeOK'
  BY <1>1 DEF EventArrives
<1>2. ASSUME NEW h \in Handlers, ScheduleRunOnce(h) PROVE TypeOK'
  BY <1>2 DEF ScheduleRunOnce, Scheduled
<1>3. CASE AskTheTime
  BY <1>3 DEF AskTheTime
<1>4. CASE Start
  BY <1>4 DEF Start, Planned
<1>5. CASE NotYet
  BY <1>5 DEF NotYet
<1>6. CASE RunEnds \/ RunDies
  BY <1>6 DEF RunEnds, RunDies
<1>7. CASE WakeUp \/ Terminate
  BY <1>7 DEF WakeUp, Terminate
<1>8. CASE Cancel
  BY <1>8 DEF Cancel
<1>9. CASE SecondPasses
  BY <1>9 DEF SecondPasses, Older
<1>10. CASE UNCHANGED vars
  BY <1>10 DEF vars
<1>11. QED
  BY <1>1, <1>2, <1>3, <1>4, <1>5, <1>6, <1>7, <1>8, <1>9, <1>10 DEF Next

\* Only the mutex holders and the clock touch what the distance of the next run
\* and the deadline of the oldest event depend on.
LEMMA PlanStep == Inv /\ [Next]_vars => SpacedPlan' /\ EventsAreDue'
<1> SUFFICES ASSUME Inv, [Next]_vars PROVE SpacedPlan' /\ EventsAreDue'
  OBVIOUS
<1> USE SchedulerAssumption
        DEF Inv, TypeOK, SpacedPlan, EventsAreDue, None, Shorter, Longer, Oldest
<1>1. ASSUME NEW h \in Handlers, ScheduleRunOnce(h)
      PROVE SpacedPlan' /\ EventsAreDue'
  <2>1. handler[h] \in 0 .. MaxLag
    BY <1>1 DEF ScheduleRunOnce
  <2>2. QED
    BY <1>1, <2>1 DEF ScheduleRunOnce, Scheduled
<1>2. CASE Start
  BY <1>2 DEF Start, Planned
<1>3. CASE SecondPasses
  BY <1>3 DEF SecondPasses, Older
<1>4. CASE UNCHANGED <<due, since, pending>>
  BY <1>4
<1>5. ASSUME NEW h \in Handlers, EventArrives(h)
      PROVE UNCHANGED <<due, since, pending>>
  BY <1>5 DEF EventArrives
<1>6. QED
  BY <1>1, <1>2, <1>3, <1>4, <1>5
     DEF Next, AskTheTime, NotYet, RunEnds, RunDies, WakeUp, Terminate, Cancel, vars

\* The inductive invariant of the scheduler: types, the distance of the planned
\* run from the last one, and the deadline of the oldest event.
THEOREM SchedulerInv == Spec => []Inv
<1>1. Inv /\ [Next]_vars => Inv'
  BY TypeStep, PlanStep DEF Inv
<1>2. QED
  BY InitInv, <1>1, PTL DEF Spec

\* The variables of the scheduler keep their types.
THEOREM TypeCorrect == Spec => []TypeOK
BY SchedulerInv, PTL DEF Inv

\* An event no run has started after has a run due MinEventSyncInterval after it.
THEOREM EventsDue == Spec => []EventsAreDue
BY SchedulerInv, PTL DEF Inv

\* Two runs start at least the shorter interval apart, less the lag: the loop
\* starts a run only when the planned time, which keeps that distance, is past.
THEOREM RunsSpaced == Spec => RunsAreSpaced
<1>1. Inv /\ [Next]_vars => [Start => since - loopAge >= Shorter - MaxLag]_vars
  BY SchedulerAssumption
     DEF Inv, TypeOK, SpacedPlan, Start, Shorter, Longer, Oldest
<1>2. QED
  BY SchedulerInv, <1>1, PTL DEF Spec, RunsAreSpaced
=============================================================================
