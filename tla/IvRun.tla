-------------------------------- MODULE IvRun --------------------------------
(***************************************************************************)
(* One I-V sweep (ivtrace/sweep.go, manager.go, run.go): the plan that     *)
(* Compile makes of a request, the start, and then step after step: write  *)
(* the setpoint, wait until a tick is a dwell later than the reference and *)
(* record it.  Who owns the output, and how it is switched off, is         *)
(* OutputOwnership's; what becomes of the points is SweepLibrary's.        *)
(*                                                                         *)
(* Time is counted in an arbitrary unit, and only while the run lasts.  A  *)
(* point is recorded as the step whose setpoint the device had in force    *)
(* when it measured it, and as 0 when its output was off.                  *)
(*                                                                         *)
(* The last two variables are not in the code: they tell the samples that  *)
(* a slow start or write let the run take from ticks it was late for.      *)
(***************************************************************************)
EXTENDS Integers, Sequences

CONSTANTS
  Requests,        \* what clients may ask for
  MinSteps, MaxSteps, MinDwell,
  DeviceMax,       \* deviceMaxVoltage, deviceMaxCurrent: a function of the two modes
  DeviceMaxPower,
  TimeoutFactor, TimeoutFloor,  \* sweepTimeoutFactor, sweepTimeoutFloor
  StaleTimeout,
  QueueSize,       \* subscriberBuffer
  Limits,          \* the maxima the device reports, by mode: what SetVoltage goes by
  MaxStart,        \* bound: the time from the subscription to the energized output
  MaxWrite,        \* bound: the time a setpoint write takes
  MaxFaults,       \* bound: losses of the link and of the output
  MaxTime          \* bound: over the time any run can last

Modes == {"voltage", "current"}
Other(m) == IF m = "voltage" THEN "current" ELSE "voltage"

ASSUME TimesAssumption ==
  /\ MaxStart \in Nat /\ MaxWrite \in Nat /\ StaleTimeout \in Nat /\ MaxTime \in Nat
  /\ MinDwell \in Nat \ {0} /\ MinSteps \in Nat \ {0} /\ MaxSteps \in Nat
  /\ TimeoutFactor \in Nat \ {0} /\ TimeoutFloor \in Nat
  /\ QueueSize \in Nat \ {0} /\ MaxFaults \in Nat
  /\ \A r \in Requests : r.steps \in Nat /\ r.dwell \in Nat

VARIABLES
  plan,      \* the compiled request, NoPlan before the start
  pc,        \* the statement: "idle", "start", "write", "wait", "ended"
  step,      \* the step of drive's loop, from 1
  now,       \* the clock
  began,     \* when the write in hand, the wait in hand or the start began
  queue,     \* Hub to run
  haveTS, firstTS, lastTS,  \* the run's reference points
  haveRef, writeTS,         \* the step's
  points,    \* the steps the recorded points were measured under
  cause,     \* context.Cause of the run
  reason,    \* RunStatus.Reason
  link,      \* the connection is up
  inForce,   \* the step whose setpoint the device has
  lit,       \* the device's output is on
  tripped, seenTrip,  \* the device's protection, and as the hub has cached it
  faults,    \* losses left
  lostAt,    \* the points there were when the output was lost, -1 before that
  behind,    \* a start or a write kept the run from its ticks for a dwell or more since
             \* the last one it took, and it has not caught up with them yet
  hurried    \* the steps sampled while it was behind

ref == <<haveTS, firstTS, lastTS, haveRef, writeTS>>
device == <<inForce, lit, tripped, faults, lostAt>>
pace == <<behind, hurried>>
vars == <<plan, pc, step, now, began, queue, ref, points, cause, reason, link, device, seenTrip,
          pace>>

(***************************************************************************)
(* Compile.                                                                *)
(***************************************************************************)
Compiles(r) ==
  /\ r.mode \in Modes
  /\ MinSteps <= r.steps /\ r.steps <= MaxSteps /\ r.dwell >= MinDwell
  /\ 0 <= r.start /\ r.start < r.stop /\ r.stop <= DeviceMax[r.mode]
  /\ 0 < r.compliance /\ r.compliance <= DeviceMax[Other(r.mode)]
  /\ r.stop * r.compliance <= DeviceMaxPower

\* buildSetpoints: both ends are visited.
Setpoint(r, i) == r.start + ((r.stop - r.start) * (i - 1)) \div (r.steps - 1)

SweepTimeout(r) == TimeoutFactor * r.steps * r.dwell + TimeoutFloor

NoPlan == [steps |-> 0, dwell |-> 0]

Init ==
  /\ plan = NoPlan /\ pc = "idle" /\ step = 1 /\ now = 0 /\ began = 0 /\ queue = <<>>
  /\ haveTS = FALSE /\ firstTS = 0 /\ lastTS = 0 /\ haveRef = FALSE /\ writeTS = 0
  /\ points = <<>> /\ cause = "none" /\ reason = "none" /\ link = TRUE
  /\ inForce = 0 /\ lit = FALSE /\ tripped = FALSE /\ seenTrip = FALSE
  /\ faults = MaxFaults /\ lostAt = -1 /\ behind = FALSE /\ hurried = {}

Active == pc \in {"start", "write", "wait"}
Ended(r) == pc' = "ended" /\ reason' = r /\ queue' = <<>>

(***************************************************************************)
(* Start.  The subscription comes first and the ticks of the whole start   *)
(* order wait in it for the run.                                           *)
(***************************************************************************)
Start(r) ==
  /\ pc = "idle" /\ Compiles(r) /\ link
  /\ plan' = r /\ pc' = "start" /\ began' = now
  /\ UNCHANGED <<step, now, queue, ref, points, cause, reason, link, device, seenTrip, pace>>

Reached == link /\ Setpoint(plan, step) <= Limits[plan.mode]
Fails == ~Reached \/ cause # "none"

\* Protections, compliance, the first setpoint and the output, and the run is launched.
Launch ==
  /\ pc = "start" /\ Reached
  /\ inForce' = 1 /\ lit' = ~tripped
  /\ pc' = "write" /\ began' = now
  /\ UNCHANGED <<plan, step, now, queue, ref, points, cause, reason, link, tripped, faults, lostAt,
                 seenTrip, pace>>

StartFails ==
  /\ pc = "start" /\ Fails
  /\ Ended("none")
  /\ UNCHANGED <<plan, step, now, began, ref, points, cause, link, device, seenTrip, pace>>

(***************************************************************************)
(* sampleStep.                                                             *)
(***************************************************************************)
\* The device takes the setpoint some time before writeSweep returns, and a write
\* that fails may have reached it as well.
Lands ==
  /\ pc = "write" /\ Reached /\ inForce # step
  /\ inForce' = step
  /\ UNCHANGED <<plan, pc, step, now, began, queue, ref, points, cause, reason, link, lit, tripped,
                 faults, lostAt, seenTrip, pace>>

Written ==
  /\ pc = "write" /\ link /\ inForce = step
  /\ pc' = "wait" /\ began' = now
  /\ haveRef' = haveTS /\ writeTS' = lastTS
  /\ UNCHANGED <<plan, step, now, queue, haveTS, firstTS, lastTS, points, cause, reason, link,
                 device, seenTrip, pace>>

WriteFails ==
  /\ pc = "write" /\ Fails
  /\ Ended("device_offline")
  /\ UNCHANGED <<plan, step, now, began, ref, points, cause, link, device, seenTrip, pace>>

Heard == pc = "wait" /\ queue # <<>>
Tick == Head(queue)

\* A tick that is not the sample: the reference, when there is none, or too early.
Seen(t) ==
  /\ haveTS' = TRUE /\ lastTS' = t.ts
  /\ firstTS' = IF haveTS THEN firstTS ELSE t.ts
\* Mutant: the timeout is measured from the step's reference.
OverdueStep(t) == haveRef /\ t.ts - writeTS > SweepTimeout(plan)
Overdue(t) == haveTS /\ t.ts - firstTS > SweepTimeout(plan)

\* Mutant: a tick is taken for the sample as soon as the write is done.
SettledAtOnce(t) == t.ts >= writeTS
Settled(t) == t.ts - writeTS >= plan.dwell

TakeOverdue ==
  /\ Heard /\ ~Tick.trip /\ Overdue(Tick)
  /\ Seen(Tick) /\ Ended("timeout")
  /\ UNCHANGED <<plan, step, now, began, haveRef, writeTS, points, cause, link, device, seenTrip, pace>>

TakeEarly ==
  /\ Heard /\ ~Tick.trip /\ ~Overdue(Tick) /\ ~(haveRef /\ Settled(Tick))
  /\ Seen(Tick) /\ haveRef' = TRUE /\ writeTS' = IF haveRef THEN writeTS ELSE Tick.ts
  /\ queue' = Tail(queue) /\ began' = now
  /\ UNCHANGED <<plan, pc, step, now, points, cause, reason, link, device, seenTrip, pace>>

LastStep == step = plan.steps

\* recordPoint, and drive goes on to the next step or is through.
TakeSample ==
  /\ Heard /\ ~Tick.trip /\ ~Overdue(Tick) /\ haveRef /\ Settled(Tick)
  /\ Seen(Tick)
  /\ points' = Append(points, Tick.step)
  /\ IF LastStep
     THEN Ended("complete") /\ UNCHANGED <<step, began>>
     ELSE /\ step' = step + 1 /\ pc' = "write" /\ began' = now /\ queue' = Tail(queue)
          /\ UNCHANGED reason
  /\ hurried' = IF behind THEN hurried \cup {step} ELSE hurried
  /\ UNCHANGED <<plan, now, haveRef, writeTS, cause, link, device, seenTrip, behind>>

(***************************************************************************)
(* nextTick's other cases, and Stop.                                       *)
(***************************************************************************)
TakeTrip ==
  /\ Heard /\ Tick.trip
  /\ Ended("protection_trip")
  /\ UNCHANGED <<plan, step, now, began, ref, points, cause, link, device, seenTrip, pace>>

\* Mutant: the watchdog waits for a first tick to measure from.
StaleOnceHeard == haveTS /\ now - began >= StaleTimeout
Stale == now - began >= StaleTimeout

GoesStale ==
  /\ pc = "wait" /\ Stale
  /\ Ended("telemetry_stale")
  /\ UNCHANGED <<plan, step, now, began, ref, points, cause, link, device, seenTrip, pace>>

Aborts ==
  /\ pc = "wait" /\ cause # "none"
  /\ Ended(IF cause = "stop" THEN "stopped" ELSE "shutdown")
  /\ UNCHANGED <<plan, step, now, began, ref, points, cause, link, device, seenTrip, pace>>

\* Stop finds a run only once it is launched; a shutdown cancels the start as well.
Cancel(c) ==
  /\ Active /\ (c = "stop" => pc # "start")
  /\ cause = "none" /\ cause' = c
  /\ UNCHANGED <<plan, pc, step, now, began, queue, ref, points, reason, link, device, seenTrip, pace>>

(***************************************************************************)
(* The device, the link and time.                                          *)
(***************************************************************************)
Report == [trip |-> seenTrip, ts |-> now + 1, step |-> IF lit THEN inForce ELSE 0]
TripEvent == [trip |-> TRUE, ts |-> now, step |-> 0]
Offer(u) == IF Active /\ Len(queue) < QueueSize THEN Append(queue, u) ELSE queue

Trip ==
  /\ Active /\ ~tripped /\ tripped' = TRUE /\ lit' = FALSE
  /\ IF link THEN seenTrip' = TRUE /\ queue' = Offer(TripEvent) ELSE UNCHANGED <<seenTrip, queue>>
  /\ UNCHANGED <<plan, pc, step, now, began, ref, points, cause, reason, link, inForce, faults,
                 lostAt, pace>>

\* The panel, MQTT or a restart of the device switches the output off.
OutputLost ==
  /\ Active /\ lit /\ faults > 0
  /\ lit' = FALSE /\ faults' = faults - 1 /\ lostAt' = Len(points)
  /\ UNCHANGED <<plan, pc, step, now, began, queue, ref, points, cause, reason, link, inForce,
                 tripped, seenTrip, pace>>

LinkDown ==
  /\ Active /\ link /\ faults > 0 /\ link' = FALSE /\ faults' = faults - 1
  /\ UNCHANGED <<plan, pc, step, now, began, queue, ref, points, cause, reason, inForce, lit,
                 tripped, lostAt, seenTrip, pace>>

\* The dump of the new session shows a protection that tripped meanwhile.
LinkUp ==
  /\ Active /\ ~link /\ link' = TRUE
  /\ seenTrip' = tripped
  /\ queue' = IF tripped /\ ~seenTrip THEN Offer(TripEvent) ELSE queue
  /\ UNCHANGED <<plan, pc, step, now, began, ref, points, cause, reason, device, pace>>

\* Time passes in the start, in a write, and in a wait with nothing to take, and never
\* past a timer.
Room ==
  \/ pc = "start" /\ now - began < MaxStart
  \/ pc = "write" /\ now - began < MaxWrite
  \/ pc = "wait" /\ queue = <<>> /\ cause = "none" /\ ~Stale

Passes(reports) ==
  /\ now < MaxTime /\ Room /\ now' = now + 1
  /\ reports => link
  /\ queue' = IF reports THEN Offer(Report) ELSE queue
  /\ behind' = (pc # "wait" /\ (behind \/ now + 1 - lastTS >= plan.dwell))
  /\ UNCHANGED <<plan, pc, step, began, ref, points, cause, reason, link, device, seenTrip,
                 hurried>>

(***************************************************************************)
(* The specification.                                                      *)
(***************************************************************************)
Write == Launch \/ StartFails \/ Lands \/ Written \/ WriteFails
Take == TakeOverdue \/ TakeEarly \/ TakeSample \/ TakeTrip
Time == \E reports \in BOOLEAN : Passes(reports)

Next ==
  \/ \E r \in Requests : Start(r)
  \/ Write \/ Take \/ GoesStale \/ Aborts
  \/ \E c \in {"stop", "shutdown"} : Cancel(c)
  \/ Trip \/ OutputLost \/ LinkDown \/ LinkUp
  \/ Time

\* The goroutine is scheduled, a write returns, and time passes.  The device owes nothing.
Fairness == WF_vars(Write) /\ WF_vars(Take) /\ WF_vars(GoesStale) /\ WF_vars(Aborts) /\ WF_vars(Time)

Spec == Init /\ [][Next]_vars
FairSpec == Spec /\ Fairness
------------------------------------------------------------------------------
(***************************************************************************)
(* Properties.                                                             *)
(***************************************************************************)
Reports == [trip : BOOLEAN, ts : Nat, step : Nat]

TypeOK ==
  /\ plan \in Requests \cup {NoPlan}
  /\ pc \in {"idle", "start", "write", "wait", "ended"}
  /\ step \in Nat \ {0} /\ now \in Nat /\ began \in 0 .. now
  /\ queue \in Seq(Reports) /\ Len(queue) <= QueueSize
  /\ haveTS \in BOOLEAN /\ haveRef \in BOOLEAN
  /\ firstTS \in Nat /\ lastTS \in Nat /\ writeTS \in Nat
  /\ points \in Seq(Nat)
  /\ cause \in {"none", "stop", "shutdown"}
  /\ reason \in {"none", "complete", "timeout", "protection_trip", "telemetry_stale", "stopped",
                 "shutdown", "device_offline"}
  /\ link \in BOOLEAN /\ lit \in BOOLEAN /\ tripped \in BOOLEAN /\ seenTrip \in BOOLEAN
  /\ inForce \in Nat /\ faults \in 0 .. MaxFaults /\ lostAt \in Int
  /\ behind \in BOOLEAN /\ hurried \subseteq Nat

\* The recorded point of a step was measured under the setpoint of that step: neither
\* under the one before, nor before the output came on, nor after a trip put it out.
\* Only an output that somebody else switched off is measured dark, and only a sample
\* taken while the run was behind its ticks may be another step's (sampleStep).
PointsSettled ==
  \A i \in DOMAIN points :
    points[i] = i \/ (lostAt >= 0 /\ i > lostAt /\ points[i] = 0) \/ i \in hurried

\* A completed sweep has a point of every step, and one that did not complete lacks the
\* points of its last steps (drive).
CompleteIsWhole ==
  pc = "ended" => (reason = "complete" <=> Len(points) = plan.steps /\ plan # NoPlan)

\* A run does not outlast its timeout, counted from its first tick, by more than a start,
\* a write and a stale stream: and if it was late for its ticks, which are judged by
\* their stamps, by the writes too that a full buffer of old ticks lets it make
\* (nextTick, sampleStep).
Backlog == IF hurried = {} THEN 0 ELSE QueueSize * MaxWrite
SweepBounded ==
  Active /\ haveTS =>
    now - firstTS <= SweepTimeout(plan) + MaxStart + MaxWrite + StaleTimeout + Backlog

\* A sweep comes to an end, whatever the device does: it goes silent, it reports and
\* never settles, it trips, the link goes (nextTick, Stop).
SweepEnds == Active ~> pc = "ended"
==============================================================================
