------------------------------ MODULE Scheduler ------------------------------
(***************************************************************************)
(* When a controller runs (controller/controller.go: ScheduleRunOnce,      *)
(* ShouldRunOnce and Run).                                                 *)
(*                                                                         *)
(* The main loop wakes up once a second and starts a run if nextRunAt has  *)
(* passed; event handlers of the informers bring nextRunAt forward.  Both  *)
(* take the time first and the mutex after, so that the time they act on   *)
(* can be old by then: up to MaxLag seconds.                               *)
(*                                                                         *)
(* Times are relative to the clock, and whole seconds: "due" is nextRunAt  *)
(* minus now, and an age is now minus the time that was taken.  Ages and   *)
(* the past of "due" stop counting where nothing tells them apart.         *)
(***************************************************************************)
EXTENDS Integers

CONSTANTS
  Interval,              \* between runs without events, in seconds
  MinEventSyncInterval,  \* between an event and the run for it
  MaxLag,                \* bound on the time from time.Now() to the mutex
  Handlers               \* the goroutines that call event handlers

ASSUME SchedulerAssumption ==
  /\ Interval \in Nat \ {0}
  /\ MinEventSyncInterval \in Nat \ {0}
  /\ MaxLag \in Nat

VARIABLES
  due,        \* nextRunAt - now
  loop,       \* where Run is
  loopAge,    \* age of the time Run took, in "asks"
  handler,    \* handler[h]: age of the time h took, None if h is not waiting
  tick,       \* the ticker's channel holds a tick
  cancelled,  \* the context is done
  since,      \* age of the time of the last run that started
  pending     \* age of the oldest event no run has started after, or None

vars == <<due, loop, loopAge, handler, tick, cancelled, since, pending>>

None == -1
Shorter == IF Interval < MinEventSyncInterval THEN Interval ELSE MinEventSyncInterval
Longer == IF Interval < MinEventSyncInterval THEN MinEventSyncInterval ELSE Interval
Oldest == Longer + MaxLag    \* ages stop here

\* nextRunAt starts as the zero time, long past.
Init ==
  /\ due = -MaxLag
  /\ loop = "top"
  /\ loopAge = 0
  /\ handler = [h \in Handlers |-> None]
  /\ tick = FALSE
  /\ cancelled = FALSE
  /\ since = Oldest
  /\ pending = None

(***************************************************************************)
(* Event handlers.                                                         *)
(***************************************************************************)
\* Puts the run off at every event.
ScheduledAfterEvent(d, age) == MinEventSyncInterval - age

\* Runs as soon as an event comes.
ScheduledNow(d, age) == IF d >= -age THEN -age ELSE d

\* nextRunAt after an event at a time of that age: only ever earlier.
Scheduled(d, age) ==
  IF d >= MinEventSyncInterval - age THEN MinEventSyncInterval - age ELSE d

EventArrives(h) ==
  /\ loop # "exited"
  /\ handler[h] = None
  /\ handler' = [handler EXCEPT ![h] = 0]
  /\ UNCHANGED <<due, loop, loopAge, tick, cancelled, since, pending>>

ScheduleRunOnce(h) ==
  /\ loop # "exited"
  /\ handler[h] # None
  /\ due' = Scheduled(due, handler[h])
  /\ pending' = IF pending = None \/ pending < handler[h] THEN handler[h] ELSE pending
  /\ handler' = [handler EXCEPT ![h] = None]
  /\ UNCHANGED <<loop, loopAge, tick, cancelled, since>>

(***************************************************************************)
(* The loop.                                                               *)
(***************************************************************************)
AskTheTime ==
  /\ loop = "top"
  /\ loop' = "asks"
  /\ loopAge' = 0
  /\ UNCHANGED <<due, handler, tick, cancelled, since, pending>>

\* Plans the next run when the batching window after the interval ends.
PlannedAfterWindow(age) == Interval + MinEventSyncInterval - age

\* nextRunAt after a run started at a time of that age.
Planned(age) == Interval - age

\* ShouldRunOnce returns true.
Start ==
  /\ loop = "asks"
  /\ due + loopAge <= 0
  /\ due' = Planned(loopAge)
  /\ loop' = "runs"
  /\ since' = loopAge
  /\ pending' = None
  /\ UNCHANGED <<loopAge, handler, tick, cancelled>>

\* ShouldRunOnce returns false.
NotYet ==
  /\ loop = "asks"
  /\ due + loopAge > 0
  /\ loop' = "waits"
  /\ UNCHANGED <<due, loopAge, handler, tick, cancelled, since, pending>>

\* RunOnce succeeds, or fails softly.
RunEnds ==
  /\ loop = "runs"
  /\ loop' = "waits"
  /\ UNCHANGED <<due, loopAge, handler, tick, cancelled, since, pending>>

\* RunOnce fails otherwise: log.Fatalf ends the process.
RunDies ==
  /\ loop = "runs"
  /\ loop' = "exited"
  /\ UNCHANGED <<due, loopAge, handler, tick, cancelled, since, pending>>

WakeUp ==
  /\ loop = "waits"
  /\ tick
  /\ tick' = FALSE
  /\ loop' = "top"
  /\ UNCHANGED <<due, loopAge, handler, cancelled, since, pending>>

Terminate ==
  /\ loop = "waits"
  /\ cancelled
  /\ loop' = "terminated"
  /\ UNCHANGED <<due, loopAge, handler, tick, cancelled, since, pending>>

(***************************************************************************)
(* The surroundings.                                                       *)
(***************************************************************************)
Cancel ==
  /\ ~cancelled
  /\ cancelled' = TRUE
  /\ UNCHANGED <<due, loop, loopAge, handler, tick, since, pending>>

Older(age) == IF age < Oldest THEN age + 1 ELSE age

\* A second passes: nobody sits between time.Now() and the mutex longer than
\* MaxLag.  The ticker drops its tick if the last one is still there.
SecondPasses ==
  /\ \A h \in Handlers : handler[h] # MaxLag \/ loop = "exited"
  /\ loop = "asks" => loopAge < MaxLag
  /\ due' = IF due > -MaxLag THEN due - 1 ELSE due
  /\ handler' = [h \in Handlers |->
       IF handler[h] \in {None, MaxLag} THEN handler[h] ELSE handler[h] + 1]
  /\ loopAge' = IF loop = "asks" THEN loopAge + 1 ELSE loopAge
  /\ tick' = TRUE
  /\ since' = Older(since)
  /\ pending' = IF pending = None THEN None ELSE Older(pending)
  /\ UNCHANGED <<loop, cancelled>>

Next ==
  \/ \E h \in Handlers : EventArrives(h) \/ ScheduleRunOnce(h)
  \/ AskTheTime
  \/ Start
  \/ NotYet
  \/ RunEnds
  \/ RunDies
  \/ WakeUp
  \/ Terminate
  \/ Cancel
  \/ SecondPasses

Spec == Init /\ [][Next]_vars

(***************************************************************************)
(* Goroutines that can run do run, a mutex that is free again and again is *)
(* granted, RunOnce ends, and time passes.                                 *)
(***************************************************************************)
FairSpec ==
  /\ Spec
  /\ \A h \in Handlers : WF_vars(ScheduleRunOnce(h))
  /\ WF_vars(AskTheTime) /\ WF_vars(Start \/ NotYet)
  /\ WF_vars(RunEnds \/ RunDies) /\ WF_vars(WakeUp \/ Terminate)
  /\ WF_vars(SecondPasses)

-------------------------------------------------------------------------------
TypeOK ==
  /\ due \in -MaxLag .. Longer
  /\ loop \in {"top", "asks", "runs", "waits", "exited", "terminated"}
  /\ loopAge \in 0 .. MaxLag
  /\ handler \in [Handlers -> {None} \cup 0 .. MaxLag]
  /\ tick \in BOOLEAN
  /\ cancelled \in BOOLEAN
  /\ since \in 0 .. Oldest
  /\ pending \in {None} \cup 0 .. Oldest

\* However many events come, and whatever handlers race the loop for the mutex:
\* from the start of one run to the start of the next at least the shorter
\* interval passes, less the lag.  A handler that took the time before a run
\* started and gets the mutex after it cannot cause a run right behind it.
RunsAreSpaced == [][Start => since - loopAge >= Shorter - MaxLag]_vars

\* No event is forgotten or put off by later ones: as long as no run started
\* after it, a run is due at most MinEventSyncInterval after the event, even if
\* a run that had begun to start reset nextRunAt meanwhile.
EventsAreDue ==
  pending # None =>
    \/ due <= MinEventSyncInterval - pending
    \/ due = -MaxLag

\* Every event is followed by a run, unless the loop has ended.
EventsAreServed ==
  (pending # None) ~> (pending = None \/ loop \in {"exited", "terminated"})
=============================================================================
