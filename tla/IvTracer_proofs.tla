-------------------------- MODULE IvTracer_proofs --------------------------
(***************************************************************************)
(* Theorems about the I-V tracer: its runs (IvRun) and, in the second      *)
(* half, the library its sweeps end up in (SweepLibrary).                  *)
(*                                                                         *)
(* Runs: for every set of requests, every timeout and every time that a    *)
(* start and a write may take, type correctness, that a completed sweep is *)
(* whole, that every point is measured under its own setpoint unless the   *)
(* run was behind its ticks, that a sweep keeps its timeout and, for every *)
(* curve, that the metrics of its points (IvAnalysis) are true of the      *)
(* component.                                                              *)
(***************************************************************************)
EXTENDS IvAnalysis, SweepLibrary, FiniteSetTheorems, WellFoundedInduction, TLAPS

Items(q) == {q[j] : j \in DOMAIN q}

\* What is left of a queue was in it, and what is offered to it may be added.
LEMMA HeadAndTail ==
  ASSUME NEW q \in Seq(Reports), q # <<>>
  PROVE  /\ Head(q) \in Reports /\ Head(q) \in Items(q)
         /\ Tail(q) \in Seq(Reports) /\ Items(Tail(q)) \subseteq Items(q)
         /\ Len(Tail(q)) = Len(q) - 1
  <1>1. Head(q) = q[1] /\ 1 \in DOMAIN q
    OBVIOUS
  <1>2. Tail(q) \in Seq(Reports) /\ Len(Tail(q)) = Len(q) - 1
    OBVIOUS
  <1>3. \A j \in DOMAIN Tail(q) : j + 1 \in DOMAIN q /\ Tail(q)[j] = q[j + 1]
    BY <1>2
  <1> QED
    BY <1>1, <1>2, <1>3 DEF Items

LEMMA Offered ==
  ASSUME TypeOK, NEW u \in Reports
  PROVE  /\ Offer(u) \in Seq(Reports) /\ Len(Offer(u)) <= QueueSize
         /\ Items(Offer(u)) \subseteq Items(queue) \cup {u}
  <1>1. CASE Active /\ Len(queue) < QueueSize
    <2>1. Offer(u) = Append(queue, u)
      BY <1>1 DEF Offer
    <2>2. queue \in Seq(Reports) /\ QueueSize \in Nat
      BY TimesAssumption DEF TypeOK
    <2>3. Append(queue, u) \in Seq(Reports) /\ Len(Append(queue, u)) = Len(queue) + 1
      BY <2>2
    <2>4. \A j \in DOMAIN Append(queue, u) :
            \/ j \in DOMAIN queue /\ Append(queue, u)[j] = queue[j]
            \/ Append(queue, u)[j] = u
      BY <2>2
    <2> QED
      BY <1>1, <2>1, <2>2, <2>3, <2>4 DEF Items
  <1>2. CASE ~(Active /\ Len(queue) < QueueSize)
    BY <1>2 DEF Offer, TypeOK, Items
  <1> QED
    BY <1>1, <1>2

LEMMA NoItems == Items(<<>>) = {} /\ <<>> \in Seq(Reports) /\ Len(<<>>) = 0
  BY DEF Items

(***************************************************************************)
(* Type correctness.                                                       *)
(***************************************************************************)
LEMMA InitTyped == Init => TypeOK
  <1> SUFFICES ASSUME Init PROVE TypeOK
    OBVIOUS
  <1>1. plan \in Requests \cup {NoPlan} /\ pc = "idle" /\ step \in Nat \ {0}
        /\ began \in 0 .. now /\ now \in Nat
    BY DEF Init
  <1>2. queue \in Seq(Reports) /\ Len(queue) <= QueueSize /\ points \in Seq(Nat)
    BY TimesAssumption DEF Init
  <1>3. faults \in 0 .. MaxFaults /\ lostAt \in Int
    BY TimesAssumption DEF Init
  <1> QED
    BY <1>1, <1>2, <1>3 DEF Init, TypeOK

LEMMA StepTyped == TypeOK /\ [Next]_vars => TypeOK'
  <1> SUFFICES ASSUME TypeOK, [Next]_vars PROVE TypeOK'
    OBVIOUS
  <1> USE TimesAssumption, NoItems DEF pace
  <1>1. ASSUME NEW r \in Requests, Start(r) PROVE TypeOK'
    BY <1>1 DEF TypeOK, Start, ref, device
  <1>2. CASE Launch
    BY <1>2 DEF TypeOK, Launch, ref
  <1>3. CASE StartFails
    BY <1>3 DEF TypeOK, StartFails, Ended, ref, device
  <1>4. CASE Lands
    BY <1>4 DEF TypeOK, Lands, ref
  <1>5. CASE Written
    BY <1>5 DEF TypeOK, Written, device
  <1>6. CASE WriteFails
    BY <1>6 DEF TypeOK, WriteFails, Ended, ref, device
  <1>7. ASSUME Heard
        PROVE  /\ Tick \in Reports /\ Tail(queue) \in Seq(Reports)
               /\ Len(Tail(queue)) <= QueueSize
    BY <1>7, HeadAndTail DEF TypeOK, Heard, Tick
  <1>8. CASE TakeOverdue
    BY <1>7, <1>8 DEF TypeOK, TakeOverdue, Seen, Ended, device, Reports
  <1>9. CASE TakeEarly
    BY <1>7, <1>9 DEF TypeOK, TakeEarly, Seen, device, Reports
  <1>10. CASE TakeSample
    <2>1. Append(points, Tick.step) \in Seq(Nat)
      BY <1>7, <1>10 DEF TypeOK, TakeSample, Reports
    <2>2. /\ lastTS' \in Nat /\ firstTS' \in Nat /\ haveTS' \in BOOLEAN
          /\ behind' \in BOOLEAN /\ hurried' \subseteq Nat
      BY <1>7, <1>10 DEF TypeOK, TakeSample, Seen, Reports
    <2>3. CASE LastStep
      BY <1>7, <1>10, <2>1, <2>2, <2>3 DEF TypeOK, TakeSample, Ended, device
    <2>4. CASE ~LastStep
      <3>1. step' \in Nat \ {0} /\ began' \in 0 .. now' /\ pc' = "write"
        BY <1>10, <2>4 DEF TypeOK, TakeSample
      <3>2. queue' \in Seq(Reports) /\ Len(queue') <= QueueSize
        BY <1>7, <1>10, <2>4 DEF TakeSample
      <3> QED
        BY <1>10, <2>1, <2>2, <2>4, <3>1, <3>2 DEF TypeOK, TakeSample, device
    <2> QED
      BY <2>3, <2>4
  <1>11. CASE TakeTrip
    BY <1>11 DEF TypeOK, TakeTrip, Ended, ref, device
  <1>12. CASE GoesStale
    BY <1>12 DEF TypeOK, GoesStale, Ended, ref, device
  <1>13. CASE Aborts
    BY <1>13 DEF TypeOK, Aborts, Ended, ref, device
  <1>14. ASSUME NEW c \in {"stop", "shutdown"}, Cancel(c) PROVE TypeOK'
    BY <1>14 DEF TypeOK, Cancel, ref, device
  <1>15. TripEvent \in Reports /\ Report \in Reports
    BY DEF TypeOK, TripEvent, Report, Reports
  <1>16. CASE Trip
    <2>1. queue' \in Seq(Reports) /\ Len(queue') <= QueueSize
      BY <1>15, <1>16, Offered DEF TypeOK, Trip
    <2>2. lit' \in BOOLEAN /\ tripped' \in BOOLEAN /\ seenTrip' \in BOOLEAN
      BY <1>16 DEF TypeOK, Trip
    <2> QED
      BY <1>16, <2>1, <2>2 DEF TypeOK, Trip, ref
  <1>17. CASE OutputLost
    <2>1. faults - 1 \in 0 .. MaxFaults /\ Len(points) \in Int
      BY <1>17 DEF TypeOK, OutputLost
    <2>2. lit' \in BOOLEAN /\ faults' \in 0 .. MaxFaults /\ lostAt' \in Int
      BY <1>17, <2>1 DEF OutputLost
    <2> QED
      BY <1>17, <2>2 DEF TypeOK, OutputLost, ref
  <1>18. CASE LinkDown
    <2>1. faults - 1 \in 0 .. MaxFaults
      BY <1>18 DEF TypeOK, LinkDown
    <2>2. link' \in BOOLEAN /\ faults' \in 0 .. MaxFaults
      BY <1>18, <2>1 DEF LinkDown
    <2> QED
      BY <1>18, <2>2 DEF TypeOK, LinkDown, ref
  <1>19. CASE LinkUp
    BY <1>15, <1>19, Offered DEF TypeOK, LinkUp, ref, device
  <1>20. ASSUME NEW b \in BOOLEAN, Passes(b) PROVE TypeOK'
    BY <1>15, <1>20, Offered DEF TypeOK, Passes, ref, device
  <1>21. CASE UNCHANGED vars
    BY <1>21 DEF TypeOK, vars, ref, device
  <1> QED
    BY <1>1, <1>2, <1>3, <1>4, <1>5, <1>6, <1>8, <1>9, <1>10, <1>11, <1>12, <1>13, <1>14, <1>16,
       <1>17, <1>18, <1>19, <1>20, <1>21 DEF Next, Write, Take, Time

\* Every state of a run is typed.
THEOREM TypeCorrect == Spec => []TypeOK
  <1> QED
    BY InitTyped, StepTyped, PTL DEF Spec

(***************************************************************************)
(* The invariant.  While a run lasts its points are those of the steps     *)
(* before this one.  What still waits in the queue when the run waits for  *)
(* a tick is of this instant, or it is too early to be the sample.         *)
(***************************************************************************)
WholeInv ==
  /\ pc # "idle" => plan \in Requests /\ Compiles(plan)
  /\ pc \in {"idle", "start"} => step = 1
  /\ pc # "ended" => Len(points) = step - 1 /\ reason # "complete"
  /\ Active => step <= plan.steps
  /\ pc = "ended" => (reason = "complete" <=> Len(points) = plan.steps) /\ Len(points) <= plan.steps

DeviceInv ==
  /\ tripped /\ link => seenTrip
  /\ lostAt <= Len(points) /\ (lit => lostAt = -1)
  /\ pc \in {"idle", "start"} => lostAt = -1 /\ ~lit
  /\ pc \in {"write", "wait"} /\ ~lit => lostAt >= 0 \/ tripped
  /\ pc = "wait" => inForce = step

StartClock == \* while the run starts
  /\ pc = "idle" => queue = <<>> /\ now = 0
  /\ pc \in {"idle", "start"} => ~haveTS
  /\ ~haveTS => lastTS = 0
  /\ pc = "start" => now - began <= MaxStart /\ \A u \in Items(queue) : u.ts >= began

WriteClock ==
  pc = "write" =>
    /\ now - began <= MaxWrite
    /\ haveTS => began - firstTS <= SweepTimeout(plan) + MaxStart + Backlog
    /\ ~haveTS => \A u \in Items(queue) : u.ts >= began - MaxStart

WaitClock ==
  pc = "wait" =>
    /\ haveRef = haveTS /\ now - began <= StaleTimeout
    /\ now = began \/ \A u \in Items(queue) : u.ts = now
    /\ haveTS => began - firstTS <= SweepTimeout(plan) + MaxStart + MaxWrite + Backlog
    /\ ~haveTS => \A u \in Items(queue) : u.ts >= now - (MaxStart + MaxWrite)

ClockInv == (\A u \in Items(queue) : u.ts <= now) /\ StartClock /\ WriteClock /\ WaitClock

\* How late the run may be for an update that k more writes can overtake.
Lateness(k) == MaxStart + k * MaxWrite

\* Whoever stands at j in the buffer has seen no more writes go by than had room before.
AgeInv ==
  /\ pc = "write" => \A j \in DOMAIN queue : began - queue[j].ts <= Lateness(QueueSize - j)
  /\ pc = "wait" => \A j \in DOMAIN queue : now - queue[j].ts <= Lateness(QueueSize + 1 - j)

\* A run that is not behind is within a dwell of its last tick.
PaceInv ==
  /\ pc \in {"start", "write"} /\ ~behind => now - lastTS < plan.dwell
  /\ pc = "wait" /\ ~haveTS /\ ~behind =>
       now < plan.dwell \/ \A u \in Items(queue) : u.ts = now

\* u is of the step in hand, or of an output that is not the run's any more.
Good(u) == u.step = step \/ (u.step = 0 /\ lostAt >= 0 /\ step > lostAt)

SampleInv ==
  pc = "wait" /\ haveTS /\ ~behind =>
    \A u \in Items(queue) :
      ~u.trip => (Good(u) /\ u.ts = now) \/ u.ts < writeTS + plan.dwell

\* A compiled request has its numbers.
LEMMA PlanFacts ==
  ASSUME TypeOK, WholeInv, pc # "idle"
  PROVE  /\ plan.dwell \in Nat /\ plan.steps \in Nat /\ plan.dwell >= MinDwell
         /\ SweepTimeout(plan) \in Nat
  <1>1. plan \in Requests /\ Compiles(plan)
    BY DEF WholeInv
  <1>2. plan.dwell \in Nat /\ plan.steps \in Nat /\ plan.dwell >= MinDwell
    BY <1>1, TimesAssumption DEF Compiles
  <1>3. TimeoutFactor * plan.steps \in Nat
    BY <1>2, TimesAssumption
  <1>4. TimeoutFactor * plan.steps * plan.dwell \in Nat
    BY <1>2, <1>3
  <1> QED
    BY <1>2, <1>4, TimesAssumption DEF SweepTimeout

(***************************************************************************)
(* A completed sweep is whole.                                             *)
(***************************************************************************)
LEMMA WholeStep == TypeOK /\ WholeInv /\ [Next]_vars => WholeInv'
  <1> SUFFICES ASSUME TypeOK, WholeInv, [Next]_vars PROVE WholeInv'
    OBVIOUS
  <1>1. ASSUME NEW r \in Requests, Start(r) PROVE WholeInv'
    BY <1>1, TimesAssumption DEF TypeOK, WholeInv, Start, Active, Compiles
  <1>2. CASE Launch \/ Lands \/ Written
    BY <1>2 DEF WholeInv, Launch, Lands, Written, Active
  <1>3. ASSUME pc \in {"start", "write", "wait"}, pc' = "ended", UNCHANGED <<plan, points>>,
               reason' # "complete"
        PROVE  WholeInv'
    <2>1. Len(points) # plan.steps /\ Len(points) <= plan.steps
      BY <1>3, PlanFacts DEF TypeOK, WholeInv, Active
    <2> QED
      BY <1>3, <2>1 DEF WholeInv, Active
  <1>4. CASE StartFails \/ WriteFails \/ TakeOverdue \/ TakeTrip \/ GoesStale \/ Aborts
    BY <1>3, <1>4 DEF StartFails, WriteFails, TakeOverdue, TakeTrip, GoesStale, Aborts, Ended, Heard
  <1>5. CASE TakeEarly
    BY <1>5 DEF WholeInv, TakeEarly, Active
  <1>6. CASE TakeSample
    <2>0. pc = "wait" /\ Active /\ plan.steps \in Nat
      BY <1>6, PlanFacts DEF TakeSample, Heard, Active
    <2>1. Len(points') = Len(points) + 1 /\ Len(points) = step - 1 /\ step <= plan.steps
      BY <1>6, <2>0 DEF TakeSample, TypeOK, WholeInv
    <2>2. CASE LastStep
      BY <1>6, <2>0, <2>1, <2>2 DEF WholeInv, TakeSample, Ended, Active, LastStep, TypeOK
    <2>3. CASE ~LastStep
      BY <1>6, <2>0, <2>1, <2>3 DEF WholeInv, TakeSample, Active, LastStep, TypeOK
    <2> QED
      BY <2>2, <2>3
  <1>7. ASSUME UNCHANGED <<plan, pc, step, points, reason>> PROVE WholeInv'
    BY <1>7 DEF WholeInv, Active
  <1>8. ASSUME NEW c \in {"stop", "shutdown"}, Cancel(c) PROVE WholeInv'
    BY <1>7, <1>8 DEF Cancel
  <1>9. CASE Trip \/ OutputLost \/ LinkDown \/ LinkUp \/ UNCHANGED vars
    BY <1>7, <1>9 DEF Trip, OutputLost, LinkDown, LinkUp, vars
  <1>10. ASSUME NEW b \in BOOLEAN, Passes(b) PROVE WholeInv'
    BY <1>7, <1>10 DEF Passes
  <1> QED
    BY <1>1, <1>2, <1>4, <1>5, <1>6, <1>8, <1>9, <1>10 DEF Next, Write, Take, Time

\* A sweep is completed exactly when every step has its point.
THEOREM CompletedWhole == Spec => []CompleteIsWhole
  <1>1. Init => WholeInv
    BY DEF Init, WholeInv, Active
  <1>2. TypeOK /\ WholeInv => CompleteIsWhole
    BY TimesAssumption DEF WholeInv, CompleteIsWhole, Compiles, NoPlan
  <1> QED
    BY <1>1, <1>2, WholeStep, TypeCorrect, PTL DEF Spec

(***************************************************************************)
(* The device: a dark output is known for a trip, or was lost.             *)
(***************************************************************************)
LEMMA DeviceStep == TypeOK /\ WholeInv /\ DeviceInv /\ [Next]_vars => DeviceInv'
  <1> SUFFICES ASSUME TypeOK, WholeInv, DeviceInv, [Next]_vars PROVE DeviceInv'
    OBVIOUS
  <1>1. ASSUME NEW r \in Requests, Start(r) PROVE DeviceInv'
    BY <1>1 DEF DeviceInv, Start, device
  <1>2. CASE Launch
    BY <1>2 DEF DeviceInv, Launch, TypeOK
  <1>3. CASE StartFails \/ WriteFails \/ TakeOverdue \/ TakeTrip \/ GoesStale \/ Aborts
    BY <1>3 DEF DeviceInv, StartFails, WriteFails, TakeOverdue, TakeTrip, GoesStale, Aborts, Ended,
                device
  <1>4. CASE Lands
    BY <1>4 DEF DeviceInv, Lands
  <1>5. CASE Written
    BY <1>5 DEF DeviceInv, Written, device
  <1>6. CASE TakeEarly
    BY <1>6 DEF DeviceInv, TakeEarly, device
  <1>7. CASE TakeSample
    <2>1. Len(points') >= Len(points) /\ pc' \in {"ended", "write"} /\ pc = "wait"
      BY <1>7 DEF TakeSample, TypeOK, Ended, Heard
    <2> QED
      BY <1>7, <2>1 DEF DeviceInv, TakeSample, device, TypeOK
  <1>8. CASE Trip
    BY <1>8 DEF DeviceInv, Trip
  <1>9. CASE OutputLost
    BY <1>9 DEF DeviceInv, OutputLost, TypeOK, Active
  <1>10. CASE LinkDown \/ LinkUp
    BY <1>10 DEF DeviceInv, LinkDown, LinkUp, device
  <1>11. ASSUME NEW c \in {"stop", "shutdown"}, Cancel(c) PROVE DeviceInv'
    BY <1>11 DEF DeviceInv, Cancel, device
  <1>12. ASSUME NEW b \in BOOLEAN, Passes(b) PROVE DeviceInv'
    BY <1>12 DEF DeviceInv, Passes, device
  <1>13. CASE UNCHANGED vars
    BY <1>13 DEF DeviceInv, vars, device
  <1> QED
    BY <1>1, <1>2, <1>3, <1>4, <1>5, <1>6, <1>7, <1>8, <1>9, <1>10, <1>11, <1>12, <1>13
       DEF Next, Write, Take, Time

(***************************************************************************)
(* The clock and the sample.                                               *)
(***************************************************************************)
RunInv == TypeOK /\ WholeInv /\ DeviceInv /\ ClockInv /\ AgeInv /\ PaceInv /\ SampleInv

LEMMA LatenessGrows ==
  ASSUME NEW k \in Nat
  PROVE  /\ Lateness(k) \in Nat /\ Lateness(k) >= MaxStart
         /\ Lateness(k + 1) = Lateness(k) + MaxWrite
  <1>1. k * MaxWrite \in Nat /\ (k + 1) * MaxWrite = k * MaxWrite + MaxWrite
    BY TimesAssumption
  <1> QED
    BY <1>1, TimesAssumption DEF Lateness

\* What is left of the buffer has moved up by one.
LEMMA TailShifts ==
  ASSUME NEW q \in Seq(Reports), q # <<>>
  PROVE  \A j \in DOMAIN Tail(q) :
           j \in Nat \ {0} /\ j + 1 \in DOMAIN q /\ j + 1 <= Len(q) /\ Tail(q)[j] = q[j + 1]
  OBVIOUS

LEMMA OfferAppends ==
  ASSUME TypeOK, NEW u \in Reports
  PROVE  \A j \in DOMAIN Offer(u) :
           \/ j \in DOMAIN queue /\ Offer(u)[j] = queue[j]
           \/ j \in Nat \ {0} /\ j <= QueueSize /\ Offer(u)[j] = u
  <1>1. queue \in Seq(Reports) /\ QueueSize \in Nat
    BY TimesAssumption DEF TypeOK
  <1>2. CASE Active /\ Len(queue) < QueueSize
    BY <1>1, <1>2 DEF Offer
  <1>3. CASE ~(Active /\ Len(queue) < QueueSize)
    BY <1>3 DEF Offer
  <1> QED
    BY <1>2, <1>3

\* A tick that a run which is not behind takes for a sample is of this instant, and of
\* its own step.
LEMMA SampleIsGood ==
  ASSUME RunInv, TakeSample, ~behind
  PROVE  Good(Tick) /\ Tick.ts = now
  <1>1. pc = "wait" /\ haveTS /\ Tick \in Items(queue) /\ ~Tick.trip
        /\ Tick.ts \in Nat /\ writeTS \in Nat
    BY HeadAndTail DEF RunInv, TakeSample, Heard, Tick, TypeOK, ClockInv, WaitClock, Reports
  <1>2. plan.dwell \in Nat
    BY <1>1, PlanFacts DEF RunInv
  <1>3. ~(Tick.ts < writeTS + plan.dwell)
    BY <1>1, <1>2 DEF TakeSample, Settled
  <1> QED
    BY <1>1, <1>3 DEF RunInv, SampleInv

\* What every update is, and what the queue holds after a step that offers one.
LEMMA UpdatesTyped ==
  ASSUME TypeOK
  PROVE  /\ TripEvent \in Reports /\ Report \in Reports
         /\ TripEvent.trip /\ TripEvent.ts = now
         /\ Report.ts = now + 1 /\ Report.trip = seenTrip
         /\ Report.step = IF lit THEN inForce ELSE 0
  BY DEF TypeOK, TripEvent, Report, Reports

LEMMA ItemsTyped ==
  ASSUME TypeOK, NEW u \in Items(queue)
  PROVE  u \in Reports /\ u.ts \in Nat /\ u.step \in Nat /\ u.trip \in BOOLEAN
  <1>1. PICK j \in DOMAIN queue : u = queue[j]
    BY DEF Items
  <1>2. queue[j] \in Reports
    BY DEF TypeOK
  <1> QED
    BY <1>1, <1>2 DEF Reports

LEMMA ClockStep ==
  ASSUME RunInv, [Next]_vars
  PROVE  ClockInv'
  <1> USE ItemsTyped, NoItems, TimesAssumption DEF RunInv
  <1>0. Backlog \in Nat /\ QueueSize * MaxWrite \in Nat
    BY DEF Backlog
  <1>1. ASSUME NEW r \in Requests, Start(r) PROVE ClockInv'
    BY <1>1 DEF Start, ref, TypeOK, ClockInv, StartClock, WriteClock, WaitClock
  <1>2. CASE Launch
    <2>1. \A u \in Items(queue') : u.ts <= now' /\ u.ts >= began' - MaxStart
      BY <1>2 DEF Launch, TypeOK, ClockInv, StartClock
    <2> QED
      BY <1>2, <2>1 DEF Launch, ref, TypeOK, ClockInv, StartClock, WriteClock, WaitClock
  <1>3. CASE StartFails \/ WriteFails \/ TakeOverdue \/ TakeTrip \/ GoesStale \/ Aborts
    BY <1>3 DEF ref, Seen, StartFails, WriteFails, TakeOverdue, TakeTrip, GoesStale, Aborts, Ended,
                ClockInv, StartClock, WriteClock, WaitClock
  <1>4. CASE Lands
    BY <1>4 DEF Lands, ref, pace, Backlog, ClockInv, StartClock, WriteClock, WaitClock
  <1>5. CASE Written
    <2>1. now \in Nat /\ began \in Nat /\ firstTS \in Nat /\ lastTS \in Nat
      BY DEF TypeOK
    <2>2. SweepTimeout(plan) \in Nat
      BY <1>5, PlanFacts DEF Written
    <2>3. /\ now - began <= MaxWrite
          /\ (haveTS => began - firstTS <= SweepTimeout(plan) + MaxStart + Backlog)
          /\ (~haveTS => \A u \in Items(queue) : u.ts >= began - MaxStart)
      BY <1>5 DEF Written, ClockInv, WriteClock
    <2>4. haveTS => now - firstTS <= SweepTimeout(plan) + MaxStart + MaxWrite + Backlog
      BY <1>0, <2>1, <2>2, <2>3
    <2>5. ~haveTS => \A u \in Items(queue) : u.ts >= now - (MaxStart + MaxWrite)
      BY <2>1, <2>3
    <2>6. /\ pc' = "wait" /\ began' = now' /\ now' = now /\ Backlog' = Backlog
          /\ UNCHANGED <<queue, plan, haveTS, firstTS, lastTS>> /\ haveRef' = haveTS'
      BY <1>5 DEF Written, Backlog, pace
    <2>7. (\A u \in Items(queue) : u.ts <= now) /\ now' - began' <= StaleTimeout
      BY <2>1, <2>6 DEF ClockInv
    <2>8. WaitClock'
      BY <2>4, <2>5, <2>6, <2>7 DEF WaitClock
    <2> QED
      BY <2>6, <2>7, <2>8 DEF ClockInv, StartClock, WriteClock
  <1>6. CASE TakeEarly
    <2>1. pc = "wait" /\ Tick \in Items(queue) /\ Items(queue') \subseteq Items(queue)
      BY <1>6, HeadAndTail DEF TakeEarly, Heard, Tick, TypeOK
    <2>2. /\ now \in Nat /\ began \in Nat /\ firstTS \in Nat /\ SweepTimeout(plan) \in Nat
          /\ Tick.ts \in Nat
      BY <2>1, PlanFacts DEF TypeOK
    <2>3. now - firstTS' <= SweepTimeout(plan) + MaxStart + MaxWrite + Backlog
      <3>1. CASE haveTS
        BY <1>0, <1>6, <2>1, <2>2, <3>1 DEF TakeEarly, Overdue, Seen, ClockInv, WaitClock
      <3>2. CASE ~haveTS
        BY <1>0, <1>6, <2>1, <2>2, <3>2 DEF TakeEarly, Seen, ClockInv, WaitClock
      <3> QED
        BY <3>1, <3>2
    <2>4. /\ pc' = "wait" /\ began' = now' /\ now' = now /\ plan' = plan
          /\ haveRef' /\ haveTS' /\ haveRef' \in BOOLEAN /\ haveTS' \in BOOLEAN
          /\ Backlog' = Backlog
      BY <1>6, <2>1 DEF TakeEarly, Seen, Backlog, pace
    <2>5. (\A u \in Items(queue') : u.ts <= now) /\ now' - began' <= StaleTimeout
      BY <2>1, <2>2, <2>4 DEF ClockInv
    <2>6. WaitClock'
      BY <2>3, <2>4, <2>5 DEF WaitClock
    <2> QED
      BY <2>4, <2>5, <2>6 DEF ClockInv, StartClock, WriteClock
  <1>7. CASE TakeSample
    <2>1. /\ pc = "wait" /\ Tick \in Items(queue) /\ Items(queue') \subseteq Items(queue) /\ haveTS
          /\ haveTS \in BOOLEAN
      BY <1>7, HeadAndTail DEF TakeSample, Heard, Tick, TypeOK, Ended, ClockInv, WaitClock
    <2>2. now \in Nat /\ firstTS \in Nat /\ SweepTimeout(plan) \in Nat /\ Tick.ts \in Nat
      BY <2>1, PlanFacts DEF TypeOK
    <2>3. now' = now /\ plan' = plan /\ lastTS' = Tick.ts /\ haveTS' /\ firstTS' = firstTS
      BY <1>7, <2>1 DEF TakeSample, Seen
    <2>4. Tick.ts - firstTS <= SweepTimeout(plan)
      BY <1>7, <2>1, <2>2 DEF TakeSample, Overdue
    <2>5. \A u \in Items(queue') : u.ts <= now'
      BY <2>1, <2>3 DEF ClockInv
    <2>6. CASE pc' = "ended"
      BY <2>3, <2>5, <2>6 DEF ClockInv, StartClock, WriteClock, WaitClock
    <2>7. now - firstTS <= SweepTimeout(plan) + MaxStart + Backlog'
      <3>1. CASE behind
        <4>1. Backlog' = QueueSize * MaxWrite
          BY <1>7, <3>1 DEF TakeSample, Backlog
        <4>2. 1 \in DOMAIN queue /\ Tick = queue[1] /\ QueueSize + 1 - 1 = QueueSize
          BY <1>7 DEF TakeSample, Heard, Tick, TypeOK
        <4>3. now - Tick.ts <= Lateness(QueueSize)
          BY <2>1, <4>2 DEF AgeInv
        <4> QED
          BY <1>0, <2>2, <2>4, <4>1, <4>3 DEF Lateness
      <3>2. CASE ~behind
        <4>1. Tick.ts = now /\ hurried' = hurried
          BY <1>7, <3>2, SampleIsGood DEF TakeSample
        <4> QED
          BY <1>0, <2>2, <2>4, <4>1 DEF Backlog
      <3> QED
        BY <3>1, <3>2 DEF TypeOK
    <2>8. CASE pc' = "write" /\ began' = now
      BY <2>2, <2>3, <2>5, <2>7, <2>8 DEF ClockInv, StartClock, WriteClock, WaitClock
    <2> QED
      BY <1>7, <2>6, <2>8 DEF TakeSample, Ended
  <1>8. ASSUME UNCHANGED <<plan, pc, now, began, ref, pace>>, pc = "idle" => queue' = queue,
               Items(queue') \subseteq Items(queue) \cup {TripEvent}
        PROVE  ClockInv'
    <2>1. now \in Nat /\ began \in 0 .. now /\ TripEvent.ts = now
      BY UpdatesTyped DEF TypeOK
    <2>2. \A u \in Items(queue') : u \in Items(queue) \/ u.ts = now
      BY <1>8, <2>1
    <2>3. \A u \in Items(queue') : u.ts <= now
      BY <2>1, <2>2 DEF ClockInv
    <2>4. StartClock'
      BY <1>8, <2>1, <2>2 DEF ClockInv, StartClock, ref
    <2>5. WriteClock'
      BY <1>8, <2>1, <2>2 DEF ClockInv, WriteClock, ref, pace, Backlog
    <2>6. WaitClock'
      BY <1>8, <2>1, <2>2 DEF ClockInv, WaitClock, ref, pace, Backlog
    <2> QED
      BY <1>8, <2>3, <2>4, <2>5, <2>6 DEF ClockInv
  <1>9. CASE Trip \/ LinkUp
    <2>1. Items(Offer(TripEvent)) \subseteq Items(queue) \cup {TripEvent}
          /\ (pc = "idle" => Offer(TripEvent) = queue)
      BY Offered, UpdatesTyped DEF Offer, Active
    <2> QED
      BY <1>8, <1>9, <2>1 DEF Trip, LinkUp
  <1>10. CASE OutputLost \/ LinkDown \/ UNCHANGED vars
    BY <1>8, <1>10 DEF OutputLost, LinkDown, vars
  <1>11. ASSUME NEW c \in {"stop", "shutdown"}, Cancel(c) PROVE ClockInv'
    BY <1>8, <1>11 DEF Cancel
  <1>12. ASSUME NEW b \in BOOLEAN, Passes(b) PROVE ClockInv'
    <2>1. Items(queue') \subseteq Items(queue) \cup {Report} /\ Report.ts = now'
      BY <1>12, Offered, UpdatesTyped DEF Passes
    <2>2. /\ now \in Nat /\ began \in 0 .. now /\ now' = now + 1
          /\ UNCHANGED <<plan, pc, began, ref>> /\ Backlog' = Backlog
      BY <1>12 DEF Passes, TypeOK, Backlog
    <2>3. \A u \in Items(queue') : u \in Items(queue) \/ u.ts = now'
      BY <2>1
    <2>4. \A u \in Items(queue') : u.ts <= now'
      BY <2>2, <2>3 DEF ClockInv
    <2>5. CASE pc = "start" /\ now - began < MaxStart
      BY <2>2, <2>3, <2>4, <2>5 DEF ClockInv, StartClock, WriteClock, WaitClock, ref
    <2>6. CASE pc = "write" /\ now - began < MaxWrite
      BY <2>2, <2>3, <2>4, <2>6 DEF ClockInv, StartClock, WriteClock, WaitClock, ref
    <2>7. CASE pc = "wait" /\ queue = <<>> /\ ~Stale
      <3>1. \A u \in Items(queue') : u.ts = now'
        BY <2>3, <2>7
      <3> QED
        BY <2>2, <2>4, <2>7, <3>1 DEF ClockInv, StartClock, WriteClock, WaitClock, ref, Stale
    <2> QED
      BY <1>12, <2>5, <2>6, <2>7 DEF Passes, Room
  <1> QED
    BY <1>1, <1>2, <1>3, <1>4, <1>5, <1>6, <1>7, <1>9, <1>10, <1>11, <1>12
       DEF Next, Write, Take, Time

LEMMA AgeStep ==
  ASSUME RunInv, [Next]_vars
  PROVE  AgeInv'
  <1> USE DEF RunInv
  <1>0. /\ queue \in Seq(Reports) /\ now \in Nat /\ began \in 0 .. now
        /\ QueueSize \in Nat \ {0} /\ MaxStart \in Nat /\ MaxWrite \in Nat
    BY TimesAssumption DEF TypeOK
  <1>q. \A j \in DOMAIN queue : /\ queue[j] \in Items(queue) /\ queue[j].ts \in Nat
                               /\ j \in Nat \ {0} /\ j <= QueueSize
    <2>1. queue \in Seq(Reports) /\ Len(queue) <= QueueSize
      BY DEF TypeOK
    <2>2. \A j \in DOMAIN queue : /\ j \in Nat \ {0} /\ j <= QueueSize /\ queue[j] \in Reports
                                 /\ queue[j] \in Items(queue)
      BY <1>0, <2>1 DEF Items
    <2> QED
      BY <2>2 DEF Reports
  <1>1. \A j \in DOMAIN queue :
          /\ QueueSize - j \in Nat /\ QueueSize + 1 - j = QueueSize - j + 1
          /\ Lateness(QueueSize - j) \in Nat /\ Lateness(QueueSize - j) >= MaxStart
          /\ Lateness(QueueSize + 1 - j) = Lateness(QueueSize - j) + MaxWrite
    <2> SUFFICES ASSUME NEW j \in Nat \ {0}, j <= QueueSize
                 PROVE  /\ QueueSize - j \in Nat /\ QueueSize + 1 - j = QueueSize - j + 1
                        /\ Lateness(QueueSize - j) \in Nat /\ Lateness(QueueSize - j) >= MaxStart
                        /\ Lateness(QueueSize + 1 - j) = Lateness(QueueSize - j) + MaxWrite
      BY <1>q
    <2>1. QueueSize - j \in Nat /\ QueueSize + 1 - j = QueueSize - j + 1
      BY <1>0
    <2> QED
      BY <2>1, LatenessGrows
  <1>2. CASE pc' \notin {"write", "wait"}
    BY <1>2 DEF AgeInv
  <1>3. CASE Launch
    <2>1. \A j \in DOMAIN queue : now - queue[j].ts <= MaxStart
      <3>1. now - began <= MaxStart /\ \A j \in DOMAIN queue : queue[j].ts >= began
        BY <1>q, <1>3 DEF Launch, ClockInv, StartClock
      <3> QED
        BY <1>0, <1>q, <3>1
    <2>2. \A j \in DOMAIN queue : now - queue[j].ts <= Lateness(QueueSize - j)
      <3> SUFFICES ASSUME NEW j \in DOMAIN queue
                   PROVE  now - queue[j].ts <= Lateness(QueueSize - j)
        OBVIOUS
      <3>1. /\ now - queue[j].ts <= MaxStart /\ Lateness(QueueSize - j) >= MaxStart
            /\ Lateness(QueueSize - j) \in Nat /\ queue[j].ts \in Nat
        BY <1>q, <1>1, <2>1
      <3> QED
        BY <1>0, <3>1
    <2> QED
      BY <1>3, <2>2 DEF Launch, AgeInv
  <1>4. CASE Lands
    BY <1>4 DEF Lands, AgeInv
  <1>5. CASE Written
    <2>1. now - began <= MaxWrite
      BY <1>5 DEF Written, ClockInv, WriteClock
    <2>2. \A j \in DOMAIN queue : began - queue[j].ts <= Lateness(QueueSize - j)
      BY <1>5 DEF Written, AgeInv
    <2>3. \A j \in DOMAIN queue : now - queue[j].ts <= Lateness(QueueSize + 1 - j)
      <3> SUFFICES ASSUME NEW j \in DOMAIN queue
                   PROVE  now - queue[j].ts <= Lateness(QueueSize + 1 - j)
        OBVIOUS
      <3>1. /\ began - queue[j].ts <= Lateness(QueueSize - j) /\ queue[j].ts \in Nat
            /\ Lateness(QueueSize - j) \in Nat
            /\ Lateness(QueueSize + 1 - j) = Lateness(QueueSize - j) + MaxWrite
        BY <1>q, <1>1, <2>2
      <3> QED
        BY <1>0, <2>1, <3>1
    <2> QED
      BY <1>5, <2>3 DEF Written, AgeInv
  <1>6. ASSUME pc = "wait", queue # <<>>, queue' = Tail(queue), now' = now,
               pc' = "wait" \/ (pc' = "write" /\ began' = now)
        PROVE  AgeInv'
    <2>1. \A j \in DOMAIN queue' : /\ j \in Nat \ {0} /\ j + 1 \in DOMAIN queue
                                  /\ queue'[j] = queue[j + 1]
      BY <1>0, <1>6, TailShifts
    <2>2. ASSUME NEW j \in DOMAIN queue'
          PROVE  /\ now - queue'[j].ts <= Lateness(QueueSize - j)
                 /\ Lateness(QueueSize + 1 - j) >= Lateness(QueueSize - j)
                 /\ queue'[j].ts \in Nat /\ Lateness(QueueSize - j) \in Nat
                 /\ Lateness(QueueSize + 1 - j) \in Nat
      <3>1. j \in Nat \ {0} /\ j + 1 \in DOMAIN queue /\ queue'[j] = queue[j + 1]
        BY <2>1, <2>2
      <3>2. QueueSize - (j + 1) \in Nat /\ QueueSize - j = QueueSize - (j + 1) + 1
            /\ QueueSize + 1 - j = QueueSize - j + 1 /\ QueueSize - j \in Nat
            /\ QueueSize + 1 - (j + 1) = QueueSize - j
        <4>1. j + 1 <= QueueSize
          BY <1>q, <3>1
        <4> QED
          BY <1>0, <3>1, <4>1
      <3>3. now - queue[j + 1].ts <= Lateness(QueueSize - j)
        BY <1>6, <3>1, <3>2 DEF AgeInv
      <3>4. /\ Lateness(QueueSize - j) \in Nat
            /\ Lateness(QueueSize - j + 1) = Lateness(QueueSize - j) + MaxWrite
        BY <3>2, LatenessGrows
      <3>5. queue[j + 1].ts \in Nat
        BY <1>q, <3>1
      <3>6. Lateness(QueueSize + 1 - j) = Lateness(QueueSize - j) + MaxWrite
        BY <3>2, <3>4
      <3> QED
        BY <1>0, <3>1, <3>3, <3>4, <3>5, <3>6
    <2> QED
      BY <1>0, <1>6, <2>2 DEF AgeInv
  <1>7. CASE TakeEarly
    BY <1>6, <1>7 DEF TakeEarly, Heard
  <1>8. CASE TakeSample
    BY <1>2, <1>6, <1>8 DEF TakeSample, Heard, Ended
  <1>9. ASSUME NEW u \in Reports, u.ts >= began, pc = "wait" => u.ts = now, pc' = pc,
               began' = began, now' = now, queue' = queue \/ queue' = Offer(u)
        PROVE  AgeInv'
    <2>1. \A j \in DOMAIN queue' :
            \/ j \in DOMAIN queue /\ queue'[j] = queue[j]
            \/ j \in Nat \ {0} /\ j <= QueueSize /\ queue'[j] = u
      BY <1>9, OfferAppends
    <2>2. ASSUME NEW j \in Nat \ {0}, j <= QueueSize
          PROVE  Lateness(QueueSize - j) >= 0 /\ Lateness(QueueSize + 1 - j) >= 0
                 /\ Lateness(QueueSize - j) \in Nat /\ Lateness(QueueSize + 1 - j) \in Nat
      <3>1. QueueSize - j \in Nat /\ QueueSize + 1 - j \in Nat
        BY <1>0, <2>2
      <3> QED
        BY <3>1, LatenessGrows
    <2>3. u.ts \in Nat
      BY DEF Reports
    <2>4. pc = "write" => \A j \in DOMAIN queue' : began - queue'[j].ts <= Lateness(QueueSize - j)
      BY <1>0, <1>9, <2>1, <2>2, <2>3 DEF AgeInv
    <2>5. pc = "wait" =>
            \A j \in DOMAIN queue' : now - queue'[j].ts <= Lateness(QueueSize + 1 - j)
      BY <1>0, <1>9, <2>1, <2>2, <2>3 DEF AgeInv
    <2> QED
      BY <1>9, <2>4, <2>5 DEF AgeInv
  <1>10. TripEvent \in Reports /\ TripEvent.ts = now /\ Report \in Reports /\ Report.ts = now + 1
    BY UpdatesTyped
  <1>11. CASE Trip \/ LinkUp
    <2>1. pc' = pc /\ began' = began /\ now' = now /\ (queue' = queue \/ queue' = Offer(TripEvent))
      BY <1>11 DEF Trip, LinkUp
    <2> QED
      BY <1>0, <1>9, <1>10, <2>1
  <1>12. CASE OutputLost \/ LinkDown \/ UNCHANGED vars
    BY <1>12 DEF AgeInv, OutputLost, LinkDown, vars
  <1>13. ASSUME NEW c \in {"stop", "shutdown"}, Cancel(c) PROVE AgeInv'
    BY <1>13 DEF AgeInv, Cancel
  <1>14. ASSUME NEW b \in BOOLEAN, Passes(b) PROVE AgeInv'
    <2>1. pc' = pc /\ began' = began /\ now' = now + 1 /\ (queue' = queue \/ queue' = Offer(Report))
      BY <1>14 DEF Passes
    <2>2. CASE pc # "wait"
      <3>1. \A j \in DOMAIN queue' :
              \/ j \in DOMAIN queue /\ queue'[j] = queue[j]
              \/ j \in Nat \ {0} /\ j <= QueueSize /\ queue'[j] = Report
        BY <1>10, <2>1, OfferAppends
      <3>2. \A j \in Nat \ {0} : j <= QueueSize => Lateness(QueueSize - j) \in Nat
        <4>1. \A j \in Nat \ {0} : j <= QueueSize => QueueSize - j \in Nat
          BY <1>0
        <4> QED
          BY <4>1, LatenessGrows
      <3> QED
        BY <1>0, <1>10, <2>1, <2>2, <3>1, <3>2 DEF AgeInv
    <2>3. CASE pc = "wait"
      <3>1. queue = <<>>
        BY <1>14, <2>3 DEF Passes, Room
      <3>2. \A j \in DOMAIN queue' :
              j \in Nat \ {0} /\ j <= QueueSize /\ queue'[j] = Report
        BY <1>10, <2>1, <3>1, OfferAppends
      <3>3. \A j \in Nat \ {0} : j <= QueueSize => Lateness(QueueSize + 1 - j) \in Nat
        <4>1. \A j \in Nat \ {0} : j <= QueueSize => QueueSize + 1 - j \in Nat
          BY <1>0
        <4> QED
          BY <4>1, LatenessGrows
      <3> QED
        BY <1>0, <1>10, <2>1, <2>3, <3>2, <3>3 DEF AgeInv
    <2> QED
      BY <2>2, <2>3
  <1>15. CASE StartFails \/ WriteFails \/ TakeOverdue \/ TakeTrip \/ GoesStale \/ Aborts
    BY <1>2, <1>15 DEF StartFails, WriteFails, TakeOverdue, TakeTrip, GoesStale, Aborts, Ended
  <1>16. ASSUME NEW r \in Requests, Start(r) PROVE AgeInv'
    BY <1>2, <1>16 DEF Start
  <1> QED
    BY <1>3, <1>4, <1>5, <1>7, <1>8, <1>11, <1>12, <1>13, <1>14, <1>15, <1>16
       DEF Next, Write, Take, Time

LEMMA PaceStep ==
  ASSUME RunInv, [Next]_vars
  PROVE  PaceInv'
  <1> USE ItemsTyped, NoItems, TimesAssumption DEF RunInv, pace
  <1>1. ASSUME NEW r \in Requests, Start(r) PROVE PaceInv'
    <2>1. plan'.dwell = r.dwell /\ r.dwell \in Nat /\ r.dwell >= MinDwell
      BY <1>1 DEF Start, Compiles
    <2>2. now' = 0 /\ lastTS' = 0 /\ pc' = "start"
      BY <1>1 DEF Start, ref, ClockInv, StartClock
    <2> QED
      BY <2>1, <2>2 DEF PaceInv
  <1>2. CASE pc' = "ended"
    BY <1>2 DEF PaceInv
  <1>3. CASE Launch \/ Lands
    BY <1>3 DEF PaceInv, Launch, Lands, ref
  <1>4. CASE Written
    BY <1>4 DEF PaceInv, Written, ClockInv, StartClock, TypeOK
  <1>5. CASE TakeEarly
    BY <1>5 DEF PaceInv, TakeEarly, Heard, Seen
  <1>6. CASE TakeSample /\ pc' = "write"
    <2>1. /\ now \in Nat /\ plan.dwell \in Nat /\ plan.dwell >= MinDwell /\ plan' = plan
          /\ now' = now /\ lastTS' = Tick.ts /\ behind' = behind
      BY <1>6, PlanFacts DEF TakeSample, Seen, Heard, TypeOK
    <2>2. ~behind => Tick.ts = now
      BY <1>6, SampleIsGood
    <2> QED
      BY <1>6, <2>1, <2>2 DEF PaceInv
  <1>7. ASSUME UNCHANGED <<plan, pc, now, ref, pace>>,
               Items(queue') \subseteq Items(queue) \cup {TripEvent}
        PROVE  PaceInv'
    <2>1. \A u \in Items(queue') : u \in Items(queue) \/ u.ts = now
      BY <1>7, UpdatesTyped
    <2> QED
      BY <1>7, <2>1 DEF PaceInv, ref
  <1>8. CASE Trip \/ LinkUp
    <2>1. Items(Offer(TripEvent)) \subseteq Items(queue) \cup {TripEvent}
      BY Offered, UpdatesTyped
    <2> QED
      BY <1>7, <1>8, <2>1 DEF Trip, LinkUp
  <1>9. CASE OutputLost \/ LinkDown \/ UNCHANGED vars
    BY <1>7, <1>9 DEF OutputLost, LinkDown, vars
  <1>10. ASSUME NEW c \in {"stop", "shutdown"}, Cancel(c) PROVE PaceInv'
    BY <1>7, <1>10 DEF Cancel
  <1>11. ASSUME NEW b \in BOOLEAN, Passes(b) PROVE PaceInv'
    <2>1. Items(queue') \subseteq Items(queue) \cup {Report} /\ Report.ts = now'
      BY <1>11, Offered, UpdatesTyped DEF Passes
    <2>2. /\ now \in Nat /\ lastTS \in Nat /\ now' = now + 1 /\ UNCHANGED <<plan, pc, ref>>
          /\ behind' = (pc # "wait" /\ (behind \/ now + 1 - lastTS >= plan.dwell))
      BY <1>11 DEF Passes, TypeOK
    <2>3. pc = "wait" => queue = <<>>
      BY <1>11 DEF Passes, Room
    <2>4. pc = "wait" => \A u \in Items(queue') : u.ts = now'
      BY <2>1, <2>3
    <2>5. pc # "idle" => plan.dwell \in Nat
      BY PlanFacts
    <2>6. pc \in {"start", "write"} /\ ~behind' => now' - lastTS' < plan'.dwell
      <3> SUFFICES ASSUME pc \in {"start", "write"}, ~behind'
                   PROVE  now + 1 - lastTS < plan.dwell
        BY <2>2 DEF ref
      <3>1. ~(now + 1 - lastTS >= plan.dwell)
        BY <2>2, Zenon
      <3> QED
        BY <2>2, <2>5, <3>1
    <2> QED
      BY <2>2, <2>4, <2>6 DEF PaceInv, ref
  <1> QED
    BY <1>1, <1>2, <1>3, <1>4, <1>5, <1>6, <1>8, <1>9, <1>10, <1>11
       DEF Next, Write, Take, Time, StartFails, WriteFails, TakeOverdue, TakeTrip, TakeSample,
           GoesStale, Aborts, Ended

LEMMA SampleStep ==
  ASSUME RunInv, [Next]_vars
  PROVE  SampleInv'
  <1> USE ItemsTyped, NoItems, TimesAssumption DEF RunInv, pace
  <1>1. CASE pc' # "wait"
    BY <1>1 DEF SampleInv
  <1>2. CASE Written
    <2>1. now \in Nat /\ lastTS \in Nat /\ plan.dwell \in Nat
      BY <1>2, PlanFacts DEF Written, TypeOK
    <2>2. UNCHANGED <<plan, queue, haveTS, behind>> /\ writeTS' = lastTS
      BY <1>2 DEF Written
    <2>3. \A u \in Items(queue) : u.ts <= now
      BY DEF ClockInv
    <2>4. ~behind => \A u \in Items(queue) : u.ts < lastTS + plan.dwell
      BY <1>2, <2>1, <2>3 DEF Written, PaceInv
    <2> QED
      BY <2>2, <2>4 DEF SampleInv
  <1>3. CASE TakeEarly
    <2>1. /\ pc = "wait" /\ Tick \in Items(queue) /\ Items(queue') \subseteq Items(queue)
          /\ UNCHANGED <<plan, step, now, device, behind>>
      BY <1>3, HeadAndTail DEF TakeEarly, Heard, Tick, TypeOK
    <2>2. CASE haveTS
      BY <1>3, <2>1, <2>2 DEF SampleInv, TakeEarly, ClockInv, WaitClock, Good, device
    <2>3. CASE ~haveTS
      <3>1. /\ now \in Nat /\ plan.dwell \in Nat /\ plan.dwell >= MinDwell /\ Tick.ts \in Nat
            /\ Tick.ts <= now
        BY <2>1, PlanFacts DEF TypeOK, ClockInv
      <3>2. writeTS' = Tick.ts
        BY <1>3, <2>1, <2>3 DEF TakeEarly, ClockInv, WaitClock
      <3>3. \A u \in Items(queue') : u.ts <= now /\ u.ts \in Nat
        BY <2>1 DEF ClockInv
      <3>4. ~behind => now < plan.dwell \/ Tick.ts = now
        BY <2>1, <2>3 DEF PaceInv
      <3>5. ~behind => \A u \in Items(queue') : u.ts < Tick.ts + plan.dwell
        BY <3>1, <3>3, <3>4
      <3> QED
        BY <2>1, <3>2, <3>5 DEF SampleInv
    <2> QED
      BY <2>2, <2>3
  <1>4. ASSUME pc = "wait",
               UNCHANGED <<plan, step, now, ref, lostAt, pace>>,
               Items(queue') \subseteq Items(queue) \cup {TripEvent}
        PROVE  SampleInv'
    <2>1. TripEvent.trip
      BY UpdatesTyped
    <2>2. \A u \in Items(queue') : u \in Items(queue) \/ u.trip
      BY <1>4, <2>1
    <2> QED
      BY <1>4, <2>2 DEF SampleInv, Good, ref
  <1>5. CASE pc = "wait" /\ (Trip \/ LinkUp)
    <2>1. Items(Offer(TripEvent)) \subseteq Items(queue) \cup {TripEvent}
      BY Offered, UpdatesTyped
    <2> QED
      BY <1>4, <1>5, <2>1 DEF Trip, LinkUp, device
  <1>6. CASE pc = "wait" /\ (LinkDown \/ UNCHANGED vars)
    BY <1>4, <1>6 DEF LinkDown, vars, device
  <1>7. ASSUME pc = "wait", NEW c \in {"stop", "shutdown"}, Cancel(c) PROVE SampleInv'
    BY <1>4, <1>7 DEF Cancel, device
  <1>8. CASE pc = "wait" /\ OutputLost
    <2>1. lostAt' = step - 1 /\ step \in Nat \ {0} /\ UNCHANGED <<plan, pc, step, now, ref, queue, behind>>
      BY <1>8 DEF OutputLost, WholeInv, TypeOK
    <2>2. lostAt' >= 0 /\ step > lostAt'
      BY <2>1
    <2>3. \A u \in Items(queue) : Good(u) => Good(u)'
      BY <2>1, <2>2 DEF Good
    <2>4. pc' = "wait" /\ haveTS' /\ ~behind' => pc = "wait" /\ haveTS /\ ~behind
      BY <2>1 DEF ref
    <2> QED
      BY <1>8, <2>1, <2>3, <2>4 DEF SampleInv, ref
  <1>9. ASSUME pc = "wait", NEW b \in BOOLEAN, Passes(b) PROVE SampleInv'
    <2>1. /\ Items(queue') \subseteq Items(queue) \cup (IF b THEN {Report} ELSE {})
          /\ queue = <<>> /\ Report.ts = now' /\ (b => link)
          /\ UNCHANGED <<step, lostAt>>
      BY <1>9, Offered, UpdatesTyped DEF Passes, Room, device
    <2>2. \A u \in Items(queue') : u = Report /\ link
      BY <2>1
    <2>3. ~seenTrip /\ link => lit \/ lostAt >= 0
      BY <1>9 DEF DeviceInv
    <2>4. step > lostAt /\ inForce = step
      BY <1>9 DEF DeviceInv, WholeInv, TypeOK
    <2>5. ~Report.trip /\ link => Good(Report)
      BY <2>3, <2>4, UpdatesTyped DEF Good
    <2>6. \A u \in Items(queue') : ~u.trip => Good(u)' /\ u.ts = now'
      BY <2>1, <2>2, <2>5 DEF Good
    <2> QED
      BY <2>6 DEF SampleInv
  <1>10. ASSUME NEW r \in Requests, Start(r) PROVE pc' # "wait"
    BY <1>10 DEF Start
  <1>11. CASE Launch \/ StartFails \/ Lands \/ WriteFails \/ TakeOverdue \/ TakeSample \/ TakeTrip
              \/ GoesStale \/ Aborts
    BY <1>1, <1>11 DEF Launch, StartFails, Lands, WriteFails, TakeOverdue, TakeSample, TakeTrip,
                       GoesStale, Aborts, Ended
  <1>12. (Trip \/ OutputLost \/ LinkDown \/ LinkUp \/ UNCHANGED vars) => pc' = pc
    BY DEF Trip, OutputLost, LinkDown, LinkUp, vars
  <1>13. ASSUME NEW c, Cancel(c) PROVE pc' = pc
    BY <1>13 DEF Cancel
  <1>14. ASSUME NEW b, Passes(b) PROVE pc' = pc
    BY <1>14 DEF Passes
  <1> QED
    BY <1>1, <1>2, <1>3, <1>5, <1>6, <1>7, <1>8, <1>9, <1>10, <1>11, <1>12, <1>13, <1>14
       DEF Next, Write, Take, Time

LEMMA PointsStep ==
  ASSUME RunInv, PointsSettled, [Next]_vars
  PROVE  PointsSettled'
  <1> USE DEF RunInv
  <1>1. CASE UNCHANGED <<points, lostAt, hurried>>
    BY <1>1 DEF PointsSettled
  <1>2. CASE TakeSample
    <2>1. /\ points' = Append(points, Tick.step) /\ lostAt' = lostAt
          /\ points \in Seq(Nat) /\ step = Len(points) + 1
          /\ hurried' = IF behind THEN hurried \cup {step} ELSE hurried
      BY <1>2 DEF TakeSample, TypeOK, WholeInv, device, Heard
    <2>2. \A i \in DOMAIN points' :
            \/ i \in DOMAIN points /\ points'[i] = points[i]
            \/ i = step /\ points'[i] = Tick.step
      BY <2>1
    <2>3. step \in hurried' \/ Good(Tick)
      BY <1>2, <2>1, SampleIsGood
    <2>4. hurried \subseteq hurried'
      BY <2>1
    <2> QED
      BY <2>1, <2>2, <2>3, <2>4 DEF PointsSettled, Good
  <1>3. CASE OutputLost
    <2>1. lostAt = -1 /\ points' = points /\ hurried' = hurried
      BY <1>3 DEF OutputLost, DeviceInv, pace
    <2>2. \A i \in DOMAIN points : points[i] = i \/ i \in hurried
      BY <2>1 DEF PointsSettled
    <2> QED
      BY <2>1, <2>2 DEF PointsSettled
  <1>4. ASSUME NEW r \in Requests, Start(r) PROVE UNCHANGED <<points, lostAt, hurried>>
    BY <1>4 DEF Start, device, pace
  <1>5. (Write \/ TakeOverdue \/ TakeEarly \/ TakeTrip \/ GoesStale \/ Aborts \/ Trip \/ LinkDown
         \/ LinkUp \/ UNCHANGED vars) => UNCHANGED <<points, lostAt, hurried>>
    BY DEF Write, Launch, StartFails, Lands, Written, WriteFails, TakeOverdue, TakeEarly, TakeTrip,
           GoesStale, Aborts, Trip, LinkDown, LinkUp, vars, device, pace
  <1>6. ASSUME NEW c, Cancel(c) PROVE UNCHANGED <<points, lostAt, hurried>>
    BY <1>6 DEF Cancel, device, pace
  <1>7. ASSUME NEW b, Passes(b) PROVE UNCHANGED <<points, lostAt, hurried>>
    BY <1>7 DEF Passes, device, pace
  <1> QED
    BY <1>1, <1>2, <1>3, <1>4, <1>5, <1>6, <1>7 DEF Next, Take, Time

LEMMA InitHolds == Init => RunInv /\ PointsSettled
  <1> SUFFICES ASSUME Init PROVE RunInv /\ PointsSettled
    OBVIOUS
  <1>1. TypeOK
    BY InitTyped
  <1>2. WholeInv
    BY DEF Init, WholeInv, Active
  <1>3. DeviceInv
    BY DEF Init, DeviceInv
  <1>4. ClockInv /\ AgeInv /\ PaceInv /\ SampleInv
    BY NoItems DEF Init, ClockInv, StartClock, WriteClock, WaitClock, AgeInv, PaceInv, SampleInv
  <1>5. PointsSettled
    BY DEF Init, PointsSettled
  <1> QED
    BY <1>1, <1>2, <1>3, <1>4, <1>5 DEF RunInv

LEMMA RunInvHolds == Spec => [](RunInv /\ PointsSettled)
  <1>1. RunInv /\ PointsSettled /\ [Next]_vars => (RunInv /\ PointsSettled)'
    BY StepTyped, WholeStep, DeviceStep, ClockStep, AgeStep, PaceStep, SampleStep,
       PointsStep DEF RunInv
  <1> QED
    BY InitHolds, <1>1, PTL DEF Spec

\* Every point of a sweep was measured under the setpoint of its own step, or dark after
\* the output was lost, or taken by a run that was behind its ticks.
THEOREM PointsAreOfTheirStep == Spec => []PointsSettled
  <1> QED
    BY RunInvHolds, PTL

\* A run ends within its timeout, a start, a write and a stale stream of its first tick,
\* and the writes of a full buffer if it was late for its ticks.
THEOREM SweepKeepsTime == Spec => []SweepBounded
  <1>1. RunInv => SweepBounded
    <2> SUFFICES ASSUME RunInv, Active, haveTS
                 PROVE  now - firstTS <=
                          SweepTimeout(plan) + MaxStart + MaxWrite + StaleTimeout + Backlog
      BY DEF SweepBounded
    <2>1. /\ now \in Nat /\ began \in Nat /\ firstTS \in Nat /\ SweepTimeout(plan) \in Nat
          /\ MaxStart \in Nat /\ MaxWrite \in Nat /\ StaleTimeout \in Nat
      BY PlanFacts, TimesAssumption DEF RunInv, TypeOK, Active
    <2>2. Backlog \in Nat
      BY TimesAssumption DEF Backlog
    <2>3. CASE pc = "start"
      BY <2>3 DEF RunInv, ClockInv, StartClock
    <2>4. CASE pc = "write"
      BY <2>1, <2>2, <2>4 DEF RunInv, ClockInv, WriteClock
    <2>5. CASE pc = "wait"
      BY <2>1, <2>2, <2>5 DEF RunInv, ClockInv, WaitClock
    <2> QED
      BY <2>3, <2>4, <2>5 DEF Active
  <1> QED
    BY <1>1, RunInvHolds, PTL

(***************************************************************************)
(* Sums.  A family of subsets of a finite set has a smallest member, which *)
(* is the induction that the existence and the linearity of a total need.  *)
(***************************************************************************)
\* A family of subsets of a finite set has a member with no smaller one in it.
LEMMA SmallestSubset ==
  ASSUME NEW K, IsFiniteSet(K), NEW F \in SUBSET (SUBSET K), F # {}
  PROVE  \E s \in F : \A t \in F : t \subseteq s => t = s
  <1>1. IsWellFoundedOn(StrictSubsetOrdering(K), SUBSET K)
    BY FS_StrictSubsetOrderingWellFounded, FS_FiniteSubsetsOfFinite
  <1>2. PICK s \in F : \A t \in F : ~(<<t, s>> \in StrictSubsetOrdering(K))
    BY <1>1, WFMin
  <1> QED
    BY <1>2 DEF StrictSubsetOrdering

\* What a sum adds up, taking the members of a set one by one.
One(s) == CHOOSE k \in s : TRUE
Rest(s) == s \ {One(s)}
SumOf(x, g, s) == IF s = {} THEN 0 ELSE x[One(s)] + g[Rest(s)]
Sums(x, g, K) == \A s \in SUBSET K : g[s] = SumOf(x, g, s)

LEMMA RestIsLess ==
  ASSUME NEW s, s # {}
  PROVE  One(s) \in s /\ Rest(s) \subseteq s /\ Rest(s) # s
  BY DEF One, Rest

LEMMA SumsAgree ==
  ASSUME NEW K, IsFiniteSet(K), NEW x, NEW g, NEW h, Sums(x, g, K), Sums(x, h, K)
  PROVE  g[K] = h[K]
  <1> DEFINE F == {s \in SUBSET K : g[s] # h[s]}
  <1>1. SUFFICES ASSUME F # {} PROVE FALSE
    OBVIOUS
  <1>2. PICK s \in F : \A t \in F : t \subseteq s => t = s
    <2>1. F \in SUBSET (SUBSET K)
      OBVIOUS
    <2> HIDE DEF F
    <2> QED
      BY <1>1, <2>1, IsFiniteSet(K), SmallestSubset
  <1>3. g[s] = SumOf(x, g, s) /\ h[s] = SumOf(x, h, s)
    BY DEF Sums
  <1>4. s # {}
    BY <1>3 DEF SumOf
  <1>5. g[Rest(s)] = h[Rest(s)]
    BY <1>2, <1>4, RestIsLess
  <1> QED
    BY <1>3, <1>4, <1>5 DEF SumOf

LEMMA SumsExist ==
  ASSUME NEW K, IsFiniteSet(K), NEW x
  PROVE  \E g : g = [s \in SUBSET K |-> SumOf(x, g, s)]
  <1> DEFINE Some(s) == CHOOSE g : Sums(x, g, s)
             G(s) == [t \in SUBSET s |-> IF t = s THEN SumOf(x, [u \in SUBSET s |-> Some(u)[u]], s)
                                         ELSE Some(t)[t]]
             F == {s \in SUBSET K : ~\E g : Sums(x, g, s)}
  <1>1. ASSUME NEW s \in SUBSET K, \A t \in SUBSET s : t # s => \E g : Sums(x, g, t)
        PROVE  \A t \in SUBSET s :
                 t # s => Some(t)[t] = SumOf(x, [u \in SUBSET s |-> Some(u)[u]], t)
    <2> SUFFICES ASSUME NEW t \in SUBSET s, t # s
                 PROVE  Some(t)[t] = SumOf(x, [u \in SUBSET s |-> Some(u)[u]], t)
      OBVIOUS
    <2>1. Sums(x, Some(t), t)
      BY <1>1
    <2>2. Some(t)[t] = SumOf(x, Some(t), t)
      BY <2>1 DEF Sums
    <2>3. CASE t = {}
      BY <2>2, <2>3 DEF SumOf
    <2>4. CASE t # {}
      <3>1. Rest(t) \in SUBSET t /\ Rest(t) \in SUBSET s /\ Rest(t) # s
        BY <2>4, RestIsLess
      <3>2. Sums(x, Some(Rest(t)), Rest(t))
        BY <1>1, <3>1
      <3>3. Sums(x, Some(t), Rest(t))
        BY <2>1, <3>1 DEF Sums
      <3>4. IsFiniteSet(Rest(t))
        BY <3>1, FS_Subset
      <3>5. Some(t)[Rest(t)] = Some(Rest(t))[Rest(t)]
        BY ONLY <3>2, <3>3, <3>4, SumsAgree
      <3> QED
        BY <2>2, <2>4, <3>1, <3>5 DEF SumOf
    <2> QED
      BY <2>3, <2>4
  <1>2. ASSUME NEW s \in SUBSET K PROVE \E g : Sums(x, g, s)
    <2>1. SUFFICES ASSUME F # {} PROVE FALSE
      BY <2>1
    <2>2. PICK r \in F : \A t \in F : t \subseteq r => t = r
      <3>1. F \in SUBSET (SUBSET K)
        OBVIOUS
      <3> HIDE DEF F
      <3> QED
        BY <2>1, <3>1, IsFiniteSet(K), SmallestSubset
    <2>3. \A t \in SUBSET r : t # r => \E g : Sums(x, g, t)
      BY <2>2
    <2>4. \A t \in SUBSET r : t # r => Some(t)[t] = SumOf(x, [u \in SUBSET r |-> Some(u)[u]], t)
      BY <1>1, <2>3
    <2>5. \A t \in SUBSET r : t # r => G(r)[t] = Some(t)[t]
      OBVIOUS
    <2>6. \A t \in SUBSET r : SumOf(x, [u \in SUBSET r |-> Some(u)[u]], t) = SumOf(x, G(r), t)
      <3>1. ASSUME NEW t \in SUBSET r, t # {}
            PROVE  [u \in SUBSET r |-> Some(u)[u]][Rest(t)] = G(r)[Rest(t)]
        <4>1. Rest(t) \in SUBSET r /\ Rest(t) # r
          BY <3>1, RestIsLess
        <4> QED
          BY <2>5, <4>1
      <3> DEFINE W == [u \in SUBSET r |-> Some(u)[u]]
                 V == G(r)
      <3>2. \A t \in SUBSET r : t # {} => W[Rest(t)] = V[Rest(t)]
        BY <3>1
      <3>3. \A t \in SUBSET r : SumOf(x, W, t) = SumOf(x, V, t)
        <4> HIDE DEF W, V
        <4> QED
          BY <3>2 DEF SumOf
      <3> QED
        BY <3>3
    <2>7. G(r)[r] = SumOf(x, [u \in SUBSET r |-> Some(u)[u]], r)
      OBVIOUS
    <2>8. Sums(x, G(r), r)
      <3> HIDE DEF G, Some
      <3> QED
        BY <2>4, <2>5, <2>6, <2>7 DEF Sums
    <2> QED
      BY <2>2, <2>8
  <1> DEFINE H == [s \in SUBSET K |-> Some(s)[s]]
  <1>3. \A t \in SUBSET K : Some(t)[t] = SumOf(x, H, t)
    <2> SUFFICES ASSUME NEW t \in SUBSET K PROVE Some(t)[t] = SumOf(x, H, t)
      OBVIOUS
    <2>1. Sums(x, Some(t), t)
      BY <1>2
    <2>2. Some(t)[t] = SumOf(x, Some(t), t)
      BY <2>1 DEF Sums
    <2>3. CASE t = {}
      BY <2>2, <2>3 DEF SumOf
    <2>4. CASE t # {}
      <3>1. Rest(t) \in SUBSET t /\ Rest(t) \in SUBSET K
        BY <2>4, RestIsLess
      <3>2. Sums(x, Some(Rest(t)), Rest(t)) /\ Sums(x, Some(t), Rest(t))
        BY <1>2, <2>1, <3>1 DEF Sums
      <3>3. IsFiniteSet(Rest(t))
        BY <3>1, FS_Subset
      <3>4. Some(t)[Rest(t)] = Some(Rest(t))[Rest(t)]
        BY ONLY <3>2, <3>3, SumsAgree
      <3> QED
        BY <2>2, <2>4, <3>1, <3>4 DEF SumOf
    <2> QED
      BY <2>3, <2>4
  <1>4. H = [s \in SUBSET K |-> SumOf(x, H, s)]
    BY <1>3
  <1> QED
    BY <1>4

\* The sums that Total is made of.
SumsIn(x) == CHOOSE g : g = [s \in SUBSET DOMAIN x |-> SumOf(x, g, s)]

LEMMA TotalIsSum ==
  ASSUME NEW K, IsFiniteSet(K), NEW x, DOMAIN x = K
  PROVE  /\ Total(x) = SumsIn(x)[K]
         /\ \A s \in SUBSET K : SumsIn(x)[s] = IF s = {} THEN 0 ELSE x[One(s)] + SumsIn(x)[Rest(s)]
  <1>1. SumsIn(x) = [s \in SUBSET K |-> SumOf(x, SumsIn(x), s)]
    BY SumsExist DEF SumsIn
  <1>2. \A s \in SUBSET K : SumsIn(x)[s] = SumOf(x, SumsIn(x), s)
    BY <1>1
  <1>3. Total(x) = SumsIn(x)[K]
    BY DEF Total, MapThenSumSet, MapThenFoldSet, SumsIn, SumOf, One, Rest
  <1> QED
    BY <1>2, <1>3 DEF SumOf

LEMMA Combined ==
  ASSUME NEW a \in Int, NEW b \in Int, NEW u \in Int, NEW v \in Int, NEW p \in Int, NEW q \in Int
  PROVE  (a * u + b * v) + (a * p + b * q) = a * (u + p) + b * (v + q)
  OBVIOUS

LEMMA TotalTyped ==
  ASSUME NEW K, IsFiniteSet(K), NEW x \in [K -> Int]
  PROVE  Total(x) \in Int /\ \A s \in SUBSET K : SumsIn(x)[s] \in Int
  <1> DEFINE F == {s \in SUBSET K : SumsIn(x)[s] \notin Int}
  <1>1. F \in SUBSET (SUBSET K)
    OBVIOUS
  <1>2. ASSUME NEW s \in F, \A t \in F : t \subseteq s => t = s PROVE FALSE
    <2>1. CASE s = {}
      BY <2>1, TotalIsSum
    <2>2. CASE s # {}
      <3>1. One(s) \in K /\ Rest(s) \in SUBSET K /\ Rest(s) \subseteq s /\ Rest(s) # s
        BY <2>2, RestIsLess
      <3>2. SumsIn(x)[Rest(s)] \in Int /\ x[One(s)] \in Int
        BY <1>2, <3>1
      <3> QED
        BY <2>2, <3>2, TotalIsSum
    <2> QED
      BY <2>1, <2>2
  <1>3. F = {}
    <2> HIDE DEF F
    <2> QED
      BY <1>1, <1>2, SmallestSubset
  <1> QED
    BY <1>3, TotalIsSum

\* A total is linear in what it adds up.
Combines(z, a, x, b, y, K) == \A k \in K : z[k] = a * x[k] + b * y[k]

LEMMA TotalLinear ==
  ASSUME NEW K, IsFiniteSet(K), NEW x \in [K -> Int], NEW y \in [K -> Int], NEW z \in [K -> Int],
         NEW a \in Int, NEW b \in Int, Combines(z, a, x, b, y, K)
  PROVE  Total(z) = a * Total(x) + b * Total(y)
  <1> DEFINE F == {s \in SUBSET K : SumsIn(z)[s] # a * SumsIn(x)[s] + b * SumsIn(y)[s]}
  <1>1. F \in SUBSET (SUBSET K)
    OBVIOUS
  <1>2. ASSUME NEW s \in F, \A t \in F : t \subseteq s => t = s PROVE FALSE
    <2>1. CASE s = {}
      <3>1. SumsIn(x)[s] = 0 /\ SumsIn(y)[s] = 0 /\ SumsIn(z)[s] = 0
        BY <2>1, TotalIsSum
      <3> QED
        BY <3>1
    <2>2. CASE s # {}
      <3>1. One(s) \in K /\ Rest(s) \in SUBSET K /\ Rest(s) \subseteq s /\ Rest(s) # s
        BY <2>2, RestIsLess
      <3>2. SumsIn(z)[Rest(s)] = a * SumsIn(x)[Rest(s)] + b * SumsIn(y)[Rest(s)]
        BY <1>2, <3>1
      <3>3. /\ SumsIn(x)[s] = x[One(s)] + SumsIn(x)[Rest(s)]
            /\ SumsIn(y)[s] = y[One(s)] + SumsIn(y)[Rest(s)]
            /\ SumsIn(z)[s] = z[One(s)] + SumsIn(z)[Rest(s)]
        BY <2>2, TotalIsSum
      <3>4. /\ x[One(s)] \in Int /\ y[One(s)] \in Int
            /\ SumsIn(x)[Rest(s)] \in Int /\ SumsIn(y)[Rest(s)] \in Int
        BY <3>1, TotalTyped
      <3>5. SumsIn(z)[s] = (a * x[One(s)] + b * y[One(s)])
                           + (a * SumsIn(x)[Rest(s)] + b * SumsIn(y)[Rest(s)])
        BY <3>1, <3>2, <3>3 DEF Combines
      <3>6. SumsIn(z)[s] = a * SumsIn(x)[s] + b * SumsIn(y)[s]
        BY <3>3, <3>4, <3>5, Combined
      <3> QED
        BY <3>6
    <2> QED
      BY <2>1, <2>2
  <1>3. F = {}
    <2> HIDE DEF F
    <2> QED
      BY <1>1, <1>2, SmallestSubset
  <1> QED
    BY <1>3, TotalIsSum

LEMMA TotalOfOnes ==
  ASSUME NEW K, IsFiniteSet(K)
  PROVE  Total([k \in K |-> 1]) = Cardinality(K)
  <1> DEFINE x == [k \in K |-> 1]
             F == {s \in SUBSET K : SumsIn(x)[s] # Cardinality(s)}
  <1>1. F \in SUBSET (SUBSET K) /\ x \in [K -> Int] /\ \A k \in K : x[k] = 1
    OBVIOUS
  <1> HIDE DEF x
  <1>2. ASSUME NEW s \in F, \A t \in F : t \subseteq s => t = s PROVE FALSE
    <2>1. CASE s = {}
      BY <1>1, <2>1, TotalIsSum, FS_EmptySet
    <2>2. CASE s # {}
      <3>1. /\ One(s) \in K /\ One(s) \in s
            /\ Rest(s) \in SUBSET K /\ Rest(s) \subseteq s /\ Rest(s) # s
        BY <2>2, RestIsLess
      <3>2. SumsIn(x)[Rest(s)] = Cardinality(Rest(s))
        BY <1>2, <3>1
      <3>3. SumsIn(x)[s] = 1 + SumsIn(x)[Rest(s)]
        BY <1>1, <2>2, <3>1, TotalIsSum
      <3>4. IsFiniteSet(s)
        BY FS_Subset
      <3>5. Cardinality(Rest(s)) = Cardinality(s) - 1 /\ Cardinality(s) \in Nat
        BY <3>1, <3>4, FS_RemoveElement, FS_CardinalityType DEF Rest
      <3> QED
        BY <3>2, <3>3, <3>5
    <2> QED
      BY <2>1, <2>2
  <1>3. F = {}
    <2> HIDE DEF F
    <2> QED
      BY <1>1, <1>2, SmallestSubset
  <1> QED
    BY <1>1, <1>3, TotalIsSum DEF x

\* The identities that the spreads come down to.
LEMMA Ring ==
  ASSUME NEW n \in Int, NEW q \in Int, NEW t \in Int, NEW s \in Int, NEW b \in Int
  PROVE  /\ n * (s * q + b * t) - t * (s * t + b * n) = s * (n * q - t * t)
         /\ n * (s * q + b * t) - (s * t + b * n) * t = s * (n * q - t * t)
         /\ n * (s * (s * q + b * t) + b * (s * t + b * n)) - (s * t + b * n) * (s * t + b * n)
            = s * (s * (n * q - t * t))
  <1>1. n * (s * q + b * t) = s * (n * q) + n * (b * t)
    OBVIOUS
  <1>2. /\ t * (s * t + b * n) = s * (t * t) + n * (b * t)
        /\ (s * t + b * n) * t = s * (t * t) + n * (b * t)
    OBVIOUS
  <1>3. s * (n * q - t * t) = s * (n * q) - s * (t * t)
    OBVIOUS
  <1>4. n * (s * (s * q + b * t) + b * (s * t + b * n))
        = s * (s * (n * q)) + 2 * (s * (b * (t * n))) + (b * n) * (b * n)
    OBVIOUS
  <1>5. (s * t + b * n) * (s * t + b * n)
        = s * (s * (t * t)) + 2 * (s * (b * (t * n))) + (b * n) * (b * n)
    OBVIOUS
  <1>6. s * (s * (n * q - t * t)) = s * (s * (n * q)) - s * (s * (t * t))
    OBVIOUS
  <1> QED
    BY <1>1, <1>2, <1>3, <1>4, <1>5, <1>6

\* y lies on the line of slope s through x.
Line(y, s, x, b, K) == \A k \in K : y[k] = s * x[k] + b

\* The spreads of two measurements of which one is linear in the other.
LEMMA SpreadLinear ==
  ASSUME NEW K, IsFiniteSet(K), NEW x \in [K -> Int], NEW y \in [K -> Int],
         NEW s \in Int, NEW b \in Int, \A k \in K : y[k] = s * x[k] + b
  PROVE  /\ Spread(x, x) \in Int
         /\ Spread(x, y) = s * Spread(x, x) /\ Spread(y, x) = s * Spread(x, x)
         /\ Spread(y, y) = s * (s * Spread(x, x))
  <1> DEFINE n == Cardinality(K)
             one == [k \in K |-> 1]
             xx == [k \in K |-> x[k] * x[k]]
             xy == [k \in K |-> x[k] * y[k]]
             yx == [k \in K |-> y[k] * x[k]]
             yy == [k \in K |-> y[k] * y[k]]
             t == Total(x)
             q == Total(xx)
  <1>1. one \in [K -> Int] /\ xx \in [K -> Int] /\ xy \in [K -> Int] /\ yx \in [K -> Int]
        /\ yy \in [K -> Int]
    OBVIOUS
  <1>2. n \in Int /\ t \in Int /\ q \in Int
    BY <1>1, TotalTyped, FS_CardinalityType
  <1>3. Total(one) = n
    BY TotalOfOnes
  <1>4. Total(y) = s * t + b * n
    <2>1. Combines(y, s, x, b, one, K)
      BY DEF Combines
    <2> HIDE DEF one, n, t
    <2>2. Total(y) = s * Total(x) + b * Total(one)
      BY <1>1, <2>1, TotalLinear
    <2> QED
      BY <1>3, <2>2 DEF t
  <1>5. Total(xy) = s * q + b * t /\ Total(yx) = s * q + b * t
    <2>1. Combines(xy, s, xx, b, x, K) /\ Combines(yx, s, xx, b, x, K)
      <3> SUFFICES ASSUME NEW k \in K
                   PROVE  xy[k] = s * xx[k] + b * x[k] /\ yx[k] = s * xx[k] + b * x[k]
        BY DEF Combines
      <3>1. x[k] \in Int /\ y[k] = s * x[k] + b
        OBVIOUS
      <3>2. \A i \in Int : /\ i * (s * i + b) = s * (i * i) + b * i
                         /\ (s * i + b) * i = s * (i * i) + b * i
        OBVIOUS
      <3> QED
        BY <3>1, <3>2
    <2> HIDE DEF xy, yx, xx
    <2>2. Total(xy) = s * Total(xx) + b * Total(x) /\ Total(yx) = s * Total(xx) + b * Total(x)
      BY <1>1, <2>1, TotalLinear
    <2> QED
      BY <2>2
  <1>6. Total(yy) = s * (s * q + b * t) + b * (s * t + b * n)
    <2>1. Combines(yy, s, xy, b, y, K)
      <3> SUFFICES ASSUME NEW k \in K PROVE yy[k] = s * xy[k] + b * y[k]
        BY DEF Combines
      <3>1. x[k] \in Int /\ y[k] \in Int /\ y[k] = s * x[k] + b
        OBVIOUS
      <3>2. \A i, j \in Int : (s * i + b) * j = s * (i * j) + b * j
        OBVIOUS
      <3>3. yy[k] = (s * x[k] + b) * y[k]
        BY <3>1
      <3> QED
        BY <3>1, <3>2, <3>3
    <2> HIDE DEF yy, xy
    <2>2. Total(yy) = s * Total(xy) + b * Total(y)
      BY <1>1, <2>1, TotalLinear
    <2> QED
      BY <1>4, <1>5, <2>2
  <1>7. /\ Spread(x, x) = n * q - t * t
        /\ Spread(x, y) = n * Total(xy) - t * Total(y)
        /\ Spread(y, x) = n * Total(yx) - Total(y) * t
        /\ Spread(y, y) = n * Total(yy) - Total(y) * Total(y)
    BY DEF Spread
  <1> HIDE DEF n, t, q, xy, yx, yy, xx, one
  <1>8. Spread(x, y) = s * (n * q - t * t) /\ Spread(y, x) = s * (n * q - t * t)
    BY <1>2, <1>4, <1>5, <1>7, Ring
  <1>9. Spread(y, y) = s * (s * (n * q - t * t))
    BY <1>2, <1>4, <1>6, <1>7, Ring
  <1> QED
    BY <1>2, <1>7, <1>8, <1>9

LEMMA Products ==
  ASSUME NEW s \in Int, NEW w \in Int
  PROVE  /\ (s * w) * 1 = s * w
         /\ (s * w) * s = 1 * (s * (s * w))
         /\ ~((1000 * (s * w)) * (s * w) < (999 * w) * (s * (s * w)))
  <1>1. (s * w) * 1 = s * w /\ (s * w) * s = 1 * (s * (s * w))
    OBVIOUS
  <1>2. (999 * w) * (s * (s * w)) = 999 * ((s * w) * (s * w))
    OBVIOUS
  <1>3. (1000 * (s * w)) * (s * w) = 1000 * ((s * w) * (s * w))
    OBVIOUS
  <1>4. \A z \in Int : z * z \in Int /\ z * z >= 0
    OBVIOUS
  <1>5. (s * w) * (s * w) \in Int /\ (s * w) * (s * w) >= 0
    BY <1>4
  <1> QED
    BY <1>1, <1>2, <1>3, <1>5

\* A fit to measurements on a line finds the line, from either side.
LEMMA FitOfLine ==
  ASSUME NEW K, IsFiniteSet(K), NEW x \in [K -> Int], NEW y \in [K -> Int],
         NEW s \in Nat \ {0}, NEW b \in Int, Line(y, s, x, b, K)
  PROVE  /\ Fit(x, y) # Null => Same(Fit(x, y), <<s, 1>>)
         /\ Fit(y, x) # Null => Same(Fit(y, x), <<1, s>>)
         /\ Fit(x, y)[1] \in Int /\ Fit(x, y)[2] \in Int
         /\ ~Curved(x, y)
  <1> DEFINE w == Spread(x, x)
  <1>1. /\ w \in Int /\ Spread(x, y) = s * w /\ Spread(y, x) = s * w /\ Spread(y, y) = s * (s * w)
    BY SpreadLinear DEF Line
  <1> HIDE DEF w
  <1>2. Fit(x, y) # Null => Fit(x, y) = <<s * w, w>>
    BY <1>1 DEF Fit, OrNull, w
  <1>3. Fit(y, x) # Null => Fit(y, x) = <<s * w, s * (s * w)>>
    BY <1>1 DEF Fit, OrNull
  <1>4. <<s, 1>> # Null /\ <<1, s>> # Null
    BY DEF Null
  <1>5. (s * w) * 1 = s * w /\ (s * w) * s = 1 * (s * (s * w))
    BY <1>1, Products
  <1>6. ASSUME Fit(x, y) # Null PROVE Same(Fit(x, y), <<s, 1>>)
    BY <1>2, <1>4, <1>5, <1>6 DEF Same
  <1>7. ASSUME Fit(y, x) # Null PROVE Same(Fit(y, x), <<1, s>>)
    BY <1>3, <1>4, <1>5, <1>7 DEF Same
  <1>8. ~Curved(x, y)
    BY <1>1, Products DEF Curved, w
  <1>9. Fit(x, y)[1] \in Int /\ Fit(x, y)[2] \in Int
    <2>1. CASE Fit(x, y) # Null
      BY <1>1, <1>2, <2>1
    <2>2. CASE Fit(x, y) = Null
      BY <2>2 DEF Null
    <2> QED
      BY <2>1, <2>2
  <1> QED
    BY <1>6, <1>7, <1>8, <1>9

\* p are measurements of the points of c, up to where the output went dark.
Readings(p, c) ==
  /\ c \in Seq([v : Nat, i : Nat]) /\ p \in Seq([v : Nat, i : Nat])
  /\ Len(c) >= 1 /\ Len(p) <= Len(c)
  /\ \A k \in DOMAIN p : p[k] = c[k] \/ p[k] = Dark
  /\ \A j, k \in DOMAIN p : j < k /\ p[k] # Dark => p[j] = c[j]

LEMMA ElementsIn ==
  ASSUME NEW S, NEW q \in Seq(S)
  PROVE  \A k \in DOMAIN q : q[k] \in S
  OBVIOUS

LEMMA ReadingsTyped ==
  ASSUME NEW p, NEW c, Readings(p, c)
  PROVE  /\ \A k \in DOMAIN p : p[k].v \in Nat /\ p[k].i \in Nat /\ k \in DOMAIN c /\ k \in Nat
         /\ \A k \in DOMAIN c : c[k].v \in Nat /\ c[k].i \in Nat
         /\ IsFiniteSet(DOMAIN p)
         /\ DOMAIN p = 1 .. Len(p) /\ Len(p) \in Nat /\ DOMAIN c = 1 .. Len(c) /\ Len(c) \in Nat
  <1>1. DOMAIN p = 1 .. Len(p) /\ Len(p) \in Nat /\ DOMAIN c = 1 .. Len(c) /\ Len(c) \in Nat
        /\ Len(p) <= Len(c)
    BY DEF Readings
  <1>2. IsFiniteSet(DOMAIN p)
    BY <1>1, FS_Interval
  <1>3. \A k \in DOMAIN p : p[k] \in [v : Nat, i : Nat]
    BY ElementsIn DEF Readings
  <1>4. \A k \in DOMAIN c : c[k] \in [v : Nat, i : Nat]
    BY ElementsIn DEF Readings
  <1> QED
    BY <1>1, <1>2, <1>3, <1>4

\* Any fit to points of an ohmic component finds its law.
LEMMA OhmicFits ==
  ASSUME NEW p, NEW c, Readings(p, c), NEW s \in Nat \ {0}, Ohmic(c, s), NEW K \in SUBSET DOMAIN p
  PROVE  /\ Fit(Volts(p, K), Amps(p, K)) # Null => Same(Fit(Volts(p, K), Amps(p, K)), <<s, 1>>)
         /\ Fit(Amps(p, K), Volts(p, K)) # Null => Same(Fit(Amps(p, K), Volts(p, K)), <<1, s>>)
         /\ Fit(Volts(p, K), Amps(p, K))[1] \in Int /\ Fit(Volts(p, K), Amps(p, K))[2] \in Int
         /\ ~Curved(Volts(p, K), Amps(p, K))
  <1> DEFINE x == Volts(p, K)
             y == Amps(p, K)
  <1>1. \A k \in DOMAIN p : p[k].i = s * p[k].v
    <2> SUFFICES ASSUME NEW k \in DOMAIN p PROVE p[k].i = s * p[k].v
      OBVIOUS
    <2>1. CASE p[k] = c[k]
      BY <2>1, ReadingsTyped DEF Ohmic
    <2>2. CASE p[k] = Dark
      <3>1. p[k].i = 0 /\ p[k].v = 0 /\ s * 0 = 0
        BY <2>2 DEF Dark
      <3> QED
        BY <3>1
    <2> QED
      BY <2>1, <2>2 DEF Readings
  <1>2. x \in [K -> Int] /\ y \in [K -> Int]
    <2>1. \A k \in K : p[k].v \in Int /\ p[k].i \in Int
      BY ReadingsTyped
    <2> QED
      BY <2>1 DEF Volts, Amps
  <1>3. Line(y, s, x, 0, K)
    <2>1. \A k \in K : p[k].i = s * p[k].v /\ p[k].v \in Int /\ p[k].i \in Int
      BY <1>1, ReadingsTyped
    <2>2. \A k \in K : y[k] = p[k].i /\ x[k] = p[k].v
      BY DEF Volts, Amps
    <2> QED
      BY <2>1, <2>2 DEF Line
  <1>4. IsFiniteSet(K)
    BY ReadingsTyped, FS_Subset
  <1> HIDE DEF x, y
  <1>5. 0 \in Int
    OBVIOUS
  <1>6. /\ Fit(x, y) # Null => Same(Fit(x, y), <<s, 1>>)
        /\ Fit(y, x) # Null => Same(Fit(y, x), <<1, s>>)
        /\ Fit(x, y)[1] \in Int /\ Fit(x, y)[2] \in Int
        /\ ~Curved(x, y)
    BY <1>2, <1>3, <1>4, <1>5, FitOfLine
  <1> QED
    BY <1>6 DEF x, y

\* Min and Max of the finite sets of numbers there are here.
LEMMA LeastOf ==
  ASSUME NEW S, \A k \in S : k \in Int, IsFiniteSet(S), S # {}
  PROVE  Min(S) \in S /\ \A m \in S : Min(S) <= m
  <1> DEFINE Below(k) == {j \in S : j < k}
             F == {Below(k) : k \in S}
  <1>1. F \in SUBSET (SUBSET S) /\ F # {}
    OBVIOUS
  <1>2. PICK s \in F : \A t \in F : t \subseteq s => t = s
    <2> HIDE DEF F
    <2> QED
      BY <1>1, SmallestSubset
  <1>3. PICK k \in S : s = Below(k)
    OBVIOUS
  <1>4. \A m \in S : k <= m
    <2> SUFFICES ASSUME NEW m \in S, m < k PROVE FALSE
      OBVIOUS
    <2>1. Below(m) \in F /\ Below(m) \subseteq Below(k)
      OBVIOUS
    <2>2. m \in Below(k) /\ m \notin Below(m)
      OBVIOUS
    <2> QED
      BY <1>2, <1>3, <2>1, <2>2
  <1> QED
    BY <1>4 DEF Min

LEMMA GreatestOf ==
  ASSUME NEW S, \A k \in S : k \in Int, IsFiniteSet(S), S # {}
  PROVE  Max(S) \in S /\ \A m \in S : Max(S) >= m
  <1> DEFINE Above(k) == {j \in S : j > k}
             F == {Above(k) : k \in S}
  <1>1. F \in SUBSET (SUBSET S) /\ F # {}
    OBVIOUS
  <1>2. PICK s \in F : \A t \in F : t \subseteq s => t = s
    <2> HIDE DEF F
    <2> QED
      BY <1>1, SmallestSubset
  <1>3. PICK k \in S : s = Above(k)
    OBVIOUS
  <1>4. \A m \in S : k >= m
    <2> SUFFICES ASSUME NEW m \in S, m > k PROVE FALSE
      OBVIOUS
    <2>1. Above(m) \in F /\ Above(m) \subseteq Above(k)
      OBVIOUS
    <2>2. m \in Above(k) /\ m \notin Above(m)
      OBVIOUS
    <2> QED
      BY <1>2, <1>3, <2>1, <2>2
  <1> QED
    BY <1>4 DEF Max

LEMMA StraddlesIs ==
  ASSUME NEW p, NEW k, NEW target \in Nat, p[k - 1].i \in Nat, p[k].i \in Nat
  PROVE  Straddles(p, k, target) <=>
           \/ p[k - 1].i < p[k].i /\ p[k - 1].i <= target /\ target <= p[k].i
           \/ p[k].i < p[k - 1].i /\ p[k].i <= target /\ target <= p[k - 1].i
  <1> DEFINE a == p[k - 1].i
             b == p[k].i
             S == {a, b}
  <1>1. (\A m \in S : m \in Int) /\ IsFiniteSet(S) /\ S # {}
    <2>1. S = {a} \cup {b}
      OBVIOUS
    <2>2. IsFiniteSet({a} \cup {b})
      BY FS_Singleton, FS_Union
    <2> QED
      BY <2>1, <2>2
  <1>2. S = {a, b} /\ a \in Nat /\ b \in Nat
    OBVIOUS
  <1>3. Straddles(p, k, target) <=> a # b /\ Min(S) <= target /\ target <= Max(S)
    BY DEF Straddles
  <1> HIDE DEF S, a, b
  <1>4. Min(S) \in S /\ \A m \in S : Min(S) <= m
    BY <1>1, LeastOf
  <1>5. Max(S) \in S /\ \A m \in S : Max(S) >= m
    BY <1>1, GreatestOf
  <1>6. Straddles(p, k, target) <=>
          \/ a < b /\ a <= target /\ target <= b
          \/ b < a /\ b <= target /\ target <= a
    BY <1>2, <1>3, <1>4, <1>5
  <1> QED
    BY <1>6 DEF a, b

\* A crossing, without Min and Max.
LEMMA CrossingsAre ==
  ASSUME NEW p, NEW target \in Nat, Len(p) \in Nat, \A j \in 1 .. Len(p) : p[j].i \in Nat,
         NEW j \in 2 .. Len(p)
  PROVE  j \in Crossings(p, target) <=>
           \/ p[j - 1].i < p[j].i /\ p[j - 1].i <= target /\ target <= p[j].i
           \/ p[j].i < p[j - 1].i /\ p[j].i <= target /\ target <= p[j - 1].i
  <1>1. p[j - 1].i \in Nat /\ p[j].i \in Nat
    <2>1. j - 1 \in 1 .. Len(p) /\ j \in 1 .. Len(p)
      OBVIOUS
    <2> QED
      BY <2>1
  <1>2. Straddles(p, j, target) <=>
           \/ p[j - 1].i < p[j].i /\ p[j - 1].i <= target /\ target <= p[j].i
           \/ p[j].i < p[j - 1].i /\ p[j].i <= target /\ target <= p[j - 1].i
    BY <1>1, StraddlesIs
  <1> QED
    BY <1>2 DEF Crossings

\* Before its first crossing a curve that begins below the target stays there.
LEMMA BelowTarget ==
  ASSUME NEW p, NEW target \in Nat, Len(p) \in Nat, \A j \in 1 .. Len(p) : p[j].i \in Nat,
         NEW k \in 2 .. Len(p), \A j \in Crossings(p, target) : k <= j, p[1].i < target
  PROVE  \A j \in 1 .. k - 1 : p[j].i < target
  <1> DEFINE B == {j \in 1 .. k - 1 : p[j].i >= target}
  <1>1. SUFFICES ASSUME B # {} PROVE FALSE
    <2>1. \A j \in 1 .. k - 1 : p[j].i \in Nat
      OBVIOUS
    <2> QED
      BY <1>1, <2>1
  <1>2. k - 1 \in Int /\ \A j \in B : j \in Int
    OBVIOUS
  <1>3. IsFiniteSet(B)
    <2>1. IsFiniteSet(1 .. k - 1)
      BY <1>2, FS_Interval
    <2> QED
      BY <2>1, FS_Subset
  <1>4. PICK m \in B : \A j \in B : m <= j
    <2> HIDE DEF B
    <2> QED
      BY <1>1, <1>2, <1>3, LeastOf
  <1>5. m \in 1 .. k - 1 /\ p[m].i >= target
    OBVIOUS
  <1>6. m # 1
    BY <1>5
  <1>7. m \in 2 .. Len(p) /\ m - 1 \in 1 .. Len(p) /\ m - 1 \in 1 .. k - 1 /\ m \in 1 .. Len(p)
    BY <1>5, <1>6
  <1>8. p[m - 1].i < target /\ p[m - 1].i \in Nat /\ p[m].i \in Nat
    <2>1. m - 1 \notin B
      BY <1>4, <1>7
    <2>2. p[m - 1].i \in Nat /\ p[m].i \in Nat
      BY <1>7
    <2> QED
      BY <1>7, <2>1, <2>2
  <1>9. m \in Crossings(p, target)
    BY <1>5, <1>7, <1>8, CrossingsAre
  <1> QED
    BY <1>5, <1>9

LEMMA FirstCrossing ==
  ASSUME NEW p, NEW target, Len(p) \in Nat, Crossings(p, target) # {}
  PROVE  /\ Min(Crossings(p, target)) \in Crossings(p, target)
         /\ Min(Crossings(p, target)) \in 2 .. Len(p)
         /\ \A j \in Crossings(p, target) : Min(Crossings(p, target)) <= j
  <1>1. Crossings(p, target) \subseteq 2 .. Len(p)
    BY DEF Crossings
  <1>2. IsFiniteSet(2 .. Len(p))
    BY FS_Interval
  <1>3. IsFiniteSet(Crossings(p, target)) /\ \A j \in Crossings(p, target) : j \in Int
    BY <1>1, <1>2, FS_Subset
  <1> QED
    BY <1>1, <1>3, LeastOf

\* The first crossing of the measurements is the first of the whole curve.
LEMMA SameCrossing ==
  ASSUME NEW p, NEW c, Readings(p, c), NEW target \in Nat \ {0}, c[1].i < target,
         NEW k \in 2 .. Len(p), k \in Crossings(p, target),
         \A j \in Crossings(p, target) : k <= j
  PROVE  /\ p[k - 1] = c[k - 1] /\ p[k] = c[k]
         /\ k \in Crossings(c, target) /\ \A j \in Crossings(c, target) : k <= j
  <1>0. /\ DOMAIN p = 1 .. Len(p) /\ Len(p) \in Nat /\ DOMAIN c = 1 .. Len(c) /\ Len(c) \in Nat
        /\ Len(p) <= Len(c)
        /\ \A j \in 1 .. Len(p) : p[j].i \in Nat
        /\ \A j \in 1 .. Len(c) : c[j].i \in Nat
    BY ReadingsTyped DEF Readings
  <1>1. p[1].i < target
    <2>1. 1 \in DOMAIN p
      BY <1>0
    <2>2. p[1] = c[1] \/ p[1] = Dark
      BY <2>1 DEF Readings
    <2> QED
      BY <2>2 DEF Dark
  <1>2. \A j \in 1 .. k - 1 : p[j].i < target
    BY <1>0, <1>1, BelowTarget
  <1>3. k - 1 \in 1 .. k - 1 /\ k - 1 \in 1 .. Len(p) /\ k \in 1 .. Len(p) /\ k \in 2 .. Len(c)
    BY <1>0
  <1>4. p[k - 1].i < target /\ p[k - 1].i \in Nat /\ p[k].i \in Nat
    BY <1>0, <1>2, <1>3
  <1>5. p[k].i >= target
    <2>1. \/ p[k - 1].i < p[k].i /\ p[k - 1].i <= target /\ target <= p[k].i
          \/ p[k].i < p[k - 1].i /\ p[k].i <= target /\ target <= p[k - 1].i
      BY <1>0, CrossingsAre
    <2> QED
      BY <1>4, <2>1
  <1>6. p[k] # Dark
    BY <1>4, <1>5 DEF Dark
  <1>7. \A j \in 1 .. k : p[j] = c[j]
    <2> SUFFICES ASSUME NEW j \in 1 .. k PROVE p[j] = c[j]
      OBVIOUS
    <2>1. j \in DOMAIN p /\ k \in DOMAIN p /\ (j = k \/ j < k)
      BY <1>0
    <2> QED
      BY <1>6, <2>1 DEF Readings
  <1>8. p[k - 1] = c[k - 1] /\ p[k] = c[k]
    BY <1>7
  <1>9. k \in Crossings(c, target)
    BY <1>0, <1>3, <1>4, <1>5, <1>8, CrossingsAre
  <1>10. ASSUME NEW j \in Crossings(c, target), j < k PROVE FALSE
    <2>1. j \in 2 .. Len(c)
      BY DEF Crossings
    <2>2. j \in 2 .. Len(p) /\ j - 1 \in 1 .. k /\ j \in 1 .. k
      BY <1>0, <1>10, <2>1
    <2>3. p[j] = c[j] /\ p[j - 1] = c[j - 1]
      BY <1>7, <2>2
    <2>4. j \in Crossings(p, target)
      BY <1>0, <2>1, <2>2, <2>3, CrossingsAre
    <2> QED
      BY <1>10, <2>2, <2>4
  <1>11. \A j \in Crossings(c, target) : j \in Int
    BY <1>0 DEF Crossings
  <1> QED
    BY <1>8, <1>9, <1>10, <1>11

LEMMA SameVoltage ==
  ASSUME NEW p, NEW c, Readings(p, c), NEW target \in Nat \ {0}, c[1].i < target,
         Crossings(p, target) # {}
  PROVE  VoltageAt(p, target) = VoltageAt(c, target)
  <1> DEFINE k == Min(Crossings(p, target))
             m == Min(Crossings(c, target))
  <1>0. Len(p) \in Nat /\ Len(c) \in Nat
    BY ReadingsTyped
  <1>1. k \in Crossings(p, target) /\ k \in 2 .. Len(p)
        /\ \A j \in Crossings(p, target) : k <= j
    BY <1>0, FirstCrossing
  <1> HIDE DEF k
  <1>2. /\ p[k - 1] = c[k - 1] /\ p[k] = c[k]
        /\ k \in Crossings(c, target) /\ \A j \in Crossings(c, target) : k <= j
    BY <1>1, SameCrossing
  <1>3. m \in Crossings(c, target) /\ m \in 2 .. Len(c) /\ \A j \in Crossings(c, target) : m <= j
    BY <1>0, <1>2, FirstCrossing
  <1> HIDE DEF m
  <1>4. k = m
    BY <1>1, <1>2, <1>3
  <1>5. VoltageAt(p, target) = Between(p[k - 1], p[k], target)
    BY DEF VoltageAt, k
  <1>6. VoltageAt(c, target) = Between(c[m - 1], c[m], target)
    BY <1>2 DEF VoltageAt, m
  <1> QED
    BY <1>2, <1>4, <1>5, <1>6

\* The highest current is that of a point, if it is not 0, and no point's is higher.
LEMMA MaxCurrentIs ==
  ASSUME NEW p, NEW c, Readings(p, c)
  PROVE  /\ MaxCurrent(p) \in Nat
         /\ \A k \in DOMAIN p : p[k].i <= MaxCurrent(p)
         /\ MaxCurrent(p) # 0 => \E k \in DOMAIN p : p[k].i = MaxCurrent(p)
  <1> DEFINE f == Amps(p, DOMAIN p)
             S == {0} \cup Range(f)
  <1>1. DOMAIN f = DOMAIN p /\ \A k \in DOMAIN p : f[k] = p[k].i /\ p[k].i \in Nat
    BY ReadingsTyped DEF Amps
  <1>2. f \in Surjection(DOMAIN p, Range(f))
    <2>1. f = [k \in DOMAIN p |-> f[k]]
      BY DEF Amps
    <2> HIDE DEF f
    <2>2. f \in [DOMAIN p -> Range(f)]
      BY <2>1 DEF Range
    <2>3. \A t \in Range(f) : \E k \in DOMAIN p : f[k] = t
      BY <1>1 DEF Range
    <2> QED
      BY <2>2, <2>3 DEF Surjection
  <1> HIDE DEF f
  <1>3. IsFiniteSet(Range(f))
    BY <1>2, FS_Surjection, ReadingsTyped
  <1>4. IsFiniteSet(S) /\ S # {}
    BY <1>3, FS_Singleton, FS_Union
  <1>5. \A m \in S : m \in Nat /\ m \in Int /\ (m = 0 \/ \E k \in DOMAIN p : m = p[k].i)
    BY <1>1 DEF Range
  <1>6. \A k \in DOMAIN p : p[k].i \in S
    BY <1>1 DEF Range
  <1> HIDE DEF S
  <1>7. Max(S) \in S /\ \A m \in S : Max(S) >= m
    BY <1>4, <1>5, GreatestOf
  <1>8. MaxCurrent(p) = Max(S)
    BY DEF MaxCurrent, S, f
  <1> QED
    BY <1>1, <1>5, <1>6, <1>7, <1>8

\* The hot point comes after the cold one.
LEMMA LampFits ==
  ASSUME NEW p, NEW c, Readings(p, c), Warms(c), Lamp(p).cold # Null
  PROVE  Lamp(p).hot[1] * Lamp(p).cold[2] >= Lamp(p).cold[1] * Lamp(p).hot[2]
  <1> DEFINE colds == {k \in DOMAIN p : p[k].i >= ConductionFloor /\ p[k].v > 0}
             hots == {k \in DOMAIN p : p[k].i = MaxCurrent(p)}
             a == Min(colds)
             h == Min(hots)
  <1>1. Conducts(p) /\ colds # {} /\ Lamp(p).cold = <<p[a].v, p[a].i>>
        /\ Lamp(p).hot = <<p[h].v, p[h].i>>
    BY DEF Lamp
  <1>2. ConductionFloor \in Nat \ {0}
    BY AnalysisAssumption
  <1>3. \A k \in DOMAIN p : k \in Int
    BY ReadingsTyped
  <1>4. a \in colds /\ \A k \in colds : a <= k
    <2>1. IsFiniteSet(colds)
      BY ReadingsTyped, FS_Subset
    <2>2. \A k \in colds : k \in Int
      BY <1>3
    <2> HIDE DEF colds
    <2> QED
      BY <1>1, <2>1, <2>2, LeastOf
  <1>5. h \in hots
    <2>1. IsFiniteSet(hots)
      BY ReadingsTyped, FS_Subset
    <2>2. \A k \in hots : k \in Int
      BY <1>3
    <2>3. hots # {}
      <3>1. MaxCurrent(p) # 0
        BY <1>1, <1>2, MaxCurrentIs DEF Conducts
      <3> QED
        BY <3>1, MaxCurrentIs
    <2> HIDE DEF hots
    <2> QED
      BY <2>1, <2>2, <2>3, LeastOf
  <1> HIDE DEF a, h
  <1>6. /\ a \in DOMAIN p /\ h \in DOMAIN p /\ a \in DOMAIN c /\ h \in DOMAIN c
        /\ a \in Nat /\ h \in Nat
        /\ p[a].v \in Nat /\ p[a].i \in Nat /\ p[h].v \in Nat /\ p[h].i \in Nat
    BY <1>4, <1>5, ReadingsTyped
  <1>7. p[a].i >= ConductionFloor /\ p[h].i >= ConductionFloor
    BY <1>1, <1>4, <1>5 DEF Conducts
  <1>8. p[a] = c[a] /\ p[h] = c[h]
    <2>1. p[a].i # 0 /\ p[h].i # 0
      BY <1>2, <1>6, <1>7
    <2>2. p[a] # Dark /\ p[h] # Dark
      BY <2>1 DEF Dark
    <2> QED
      BY <1>6, <2>2 DEF Readings
  <1>9. h \in colds
    <2>1. p[h].v # 0
      BY <1>2, <1>6, <1>7, <1>8 DEF Warms
    <2> QED
      BY <1>6, <1>7, <2>1
  <1>10. a <= h
    BY <1>4, <1>9
  <1>11. p[h].v * p[a].i >= p[a].v * p[h].i
    <2>1. CASE a = h
      BY <1>6, <2>1
    <2>2. CASE a < h
      BY <1>6, <1>8, <2>2 DEF Warms
    <2>3. a = h \/ a < h
      BY <1>6, <1>10
    <2> QED
      BY <2>1, <2>2, <2>3
  <1> QED
    BY <1>1, <1>11

LEMMA Shifted ==
  ASSUME NEW s \in Int, NEW d \in Int, NEW e \in Int, NEW f \in Int, NEW g \in Int,
         d - e = s * (f - g)
  PROVE  d = s * f + (e - s * g)
  <1>1. s * (f - g) = s * f - s * g
    OBVIOUS
  <1>2. s * f \in Int /\ s * g \in Int
    OBVIOUS
  <1>3. \A a, b \in Int : d - e = a - b => d = a + (e - b)
    OBVIOUS
  <1> QED
    BY <1>1, <1>2, <1>3

\* The points of the region lie on a line, if the diode is exponential there.
LEMMA IdealityFits ==
  ASSUME NEW p, NEW c, Readings(p, c), NEW s \in Nat \ {0}, Exponential(c, s),
         \A k \in DOMAIN c : c[k].i >= ConductionFloor => Log[c[k].i] \in Int,
         IdealitySlope(p) # Null
  PROVE  Same(IdealitySlope(p), <<s, 1>>)
  <1> DEFINE K == InRegion(p)
             x == Volts(p, K)
             y == [k \in K |-> Log[p[k].i]]
  <1>1. K \subseteq DOMAIN p /\ IsFiniteSet(K)
    BY ReadingsTyped, FS_Subset DEF InRegion
  <1>2. \A k \in K : p[k] = c[k] /\ k \in InRegion(c) /\ p[k].v \in Int /\ Log[p[k].i] \in Int
    <2> SUFFICES ASSUME NEW k \in K
                 PROVE  p[k] = c[k] /\ k \in InRegion(c) /\ p[k].v \in Int /\ Log[p[k].i] \in Int
      OBVIOUS
    <2>1. k \in DOMAIN p /\ p[k].i >= ConductionFloor /\ 20 * p[k].i <= 19 * Ceiling
      BY DEF InRegion
    <2>2. k \in DOMAIN c /\ p[k].i \in Nat /\ p[k].v \in Int
      BY <2>1, ReadingsTyped
    <2>3. p[k].i # 0
      BY <2>1, <2>2, AnalysisAssumption
    <2>4. p[k] = c[k]
      BY <2>1, <2>3 DEF Readings, Dark
    <2> QED
      BY <2>1, <2>2, <2>4 DEF InRegion
  <1>3. x \in [K -> Int] /\ y \in [K -> Int] /\ \A k \in K : x[k] = p[k].v /\ y[k] = Log[p[k].i]
    BY <1>2 DEF Volts
  <1>4. \A j, k \in K : y[k] - y[j] = s * (x[k] - x[j])
    BY <1>2, <1>3 DEF Exponential
  <1> HIDE DEF x, y, K
  <1>5. \E b \in Int : Line(y, s, x, b, K)
    <2>1. CASE K = {}
      BY <2>1 DEF Line
    <2>2. CASE K # {}
      <3>1. PICK j \in K : TRUE
        BY <2>2
      <3>2. x[j] \in Int /\ y[j] \in Int /\ y[j] - s * x[j] \in Int
        BY <1>3, <3>1
      <3>3. ASSUME NEW k \in K PROVE y[k] = s * x[k] + (y[j] - s * x[j])
        <4>1. y[k] - y[j] = s * (x[k] - x[j]) /\ x[k] \in Int /\ y[k] \in Int
          BY <1>3, <1>4, <3>1
        <4> DEFINE d == y[k]
                   e == y[j]
                   f == x[k]
                   g == x[j]
        <4>2. d \in Int /\ e \in Int /\ f \in Int /\ g \in Int /\ d - e = s * (f - g)
          BY <3>2, <4>1
        <4> HIDE DEF d, e, f, g
        <4>3. d = s * f + (e - s * g)
          BY <4>2, Shifted
        <4> QED
          BY <4>3 DEF d, e, f, g
      <3> QED
        BY <3>2, <3>3 DEF Line
    <2> QED
      BY <2>1, <2>2
  <1>6. IdealitySlope(p) = Fit(x, y)
    BY DEF IdealitySlope, OrNull, x, y, K
  <1>7. PICK b \in Int : Line(y, s, x, b, K)
    BY <1>5
  <1>8. Fit(x, y) # Null => Same(Fit(x, y), <<s, 1>>)
    BY <1>1, <1>3, <1>7, FitOfLine
  <1> QED
    BY <1>6, <1>8

LEMMA OhmicMetrics ==
  ASSUME NEW p, NEW c, Readings(p, c), NEW s \in Nat \ {0}, Ohmic(c, s),
         NEW top \in TopsByCurrent(p)
  PROVE  /\ ~Resistor(p).approx
         /\ \A known \in {Resistor(p).resistance, Diode(p, top).seriesR, Zener(p).zzt} :
              known # Null => Same(known, <<1, s>>)
  <1> DEFINE breakdown == {k \in DOMAIN p : 2 * p[k].i >= Reference}
             conductance == Fit(Volts(p, DOMAIN p), Amps(p, DOMAIN p))
  <1>1. top \in SUBSET DOMAIN p
    BY DEF TopsByCurrent, kSubset, InRegion
  <1>2. ~Curved(Volts(p, DOMAIN p), Amps(p, DOMAIN p))
        /\ (conductance # Null => Same(conductance, <<s, 1>>))
    BY OhmicFits
  <1>3. ~Resistor(p).approx
    BY <1>2 DEF Resistor
  <1>4. ASSUME Resistor(p).resistance # Null PROVE Same(Resistor(p).resistance, <<1, s>>)
    <2>1. Resistor(p).resistance = <<conductance[2], conductance[1]>> /\ Positive(conductance)
      BY <1>4 DEF Resistor, OrNull
    <2>2. conductance # Null /\ Same(conductance, <<s, 1>>)
      BY <1>2, <2>1 DEF Positive
    <2>3. <<1, s>> # Null
      BY DEF Null
    <2>4. conductance[1] \in Int /\ conductance[2] \in Int
      BY OhmicFits
    <2> QED
      BY <1>4, <2>1, <2>2, <2>3, <2>4 DEF Same
  <1>5. ASSUME Diode(p, top).seriesR # Null PROVE Same(Diode(p, top).seriesR, <<1, s>>)
    <2>1. Diode(p, top).seriesR = Fit(Amps(p, top), Volts(p, top))
      BY <1>5 DEF Diode, SeriesR, OrNull
    <2> QED
      BY <1>1, <1>5, <2>1, OhmicFits
  <1>6. ASSUME Zener(p).zzt # Null PROVE Same(Zener(p).zzt, <<1, s>>)
    <2>1. Zener(p).zzt = Fit(Amps(p, breakdown), Volts(p, breakdown))
      BY <1>6 DEF Zener, OrNull
    <2>2. breakdown \in SUBSET DOMAIN p
      OBVIOUS
    <2> HIDE DEF breakdown
    <2> QED
      BY <1>6, <2>1, <2>2, OhmicFits
  <1> QED
    BY <1>3, <1>4, <1>5, <1>6

\* The beginning of a sequence, and a function that is one.
LEMMA BeginsTyped ==
  ASSUME NEW S, NEW q \in Seq(S), NEW n \in Nat, n >= 1, n <= Len(q)
  PROVE  /\ SubSeq(q, 1, n) \in Seq(S) /\ Len(SubSeq(q, 1, n)) = n
         /\ DOMAIN SubSeq(q, 1, n) = 1 .. n
         /\ \A k \in 1 .. n : k \in DOMAIN q /\ SubSeq(q, 1, n)[k] = q[k]
  OBVIOUS

LEMMA SeqOfFunction ==
  ASSUME NEW S, NEW n \in Nat, NEW f, f = [k \in 1 .. n |-> f[k]], \A k \in 1 .. n : f[k] \in S
  PROVE  f \in Seq(S) /\ Len(f) = n /\ DOMAIN f = 1 .. n
  OBVIOUS

(***************************************************************************)
(* The points are readings of the curve: once one is dark, so are all that *)
(* follow, because nothing lights the output again.                        *)
(***************************************************************************)
DarkSeen == \E i \in DOMAIN points : points[i] = 0

\* u is a sample that tells the truth of the output, and follows what was measured.
Follows(u) == (u.step = 0 => ~lit) /\ (DarkSeen => u.step = 0)

DarkInv ==
  hurried = {} =>
    /\ DarkSeen => ~lit
    /\ \A i, j \in DOMAIN points : i < j /\ points[i] = 0 => points[j] = 0
    /\ pc = "wait" /\ haveTS /\ ~behind =>
         \A u \in Items(queue) : ~u.trip => Follows(u) \/ u.ts < writeTS + plan.dwell

LEMMA DarkKept ==
  ASSUME DarkInv, UNCHANGED <<points, hurried>>, lit' => lit, pc' # "wait" \/ ~haveTS'
  PROVE  DarkInv'
  BY DEF DarkInv, DarkSeen

LEMMA DarkSamples ==
  ASSUME RunInv, DarkInv, TakeSample, hurried' = {}
  PROVE  DarkInv'
  <1>0. ~behind /\ hurried = {}
    BY DEF TakeSample
  <1>1. /\ points' = Append(points, Tick.step) /\ points \in Seq(Nat) /\ Tick.step \in Nat
        /\ lit' = lit /\ pc' # "wait"
    BY HeadAndTail DEF TakeSample, RunInv, TypeOK, Heard, Tick, device, Ended, Reports
  <1>2. Follows(Tick)
    <2>1. pc = "wait" /\ haveTS /\ Tick \in Items(queue) /\ ~Tick.trip
          /\ Tick.ts \in Nat /\ writeTS \in Nat
      BY HeadAndTail DEF RunInv, TakeSample, Heard, Tick, TypeOK, ClockInv, WaitClock, Reports
    <2>2. plan.dwell \in Nat
      BY <2>1, PlanFacts DEF RunInv
    <2>3. ~(Tick.ts < writeTS + plan.dwell)
      BY <2>1, <2>2 DEF TakeSample, Settled
    <2> QED
      BY <1>0, <2>1, <2>3 DEF DarkInv
  <1>3. \A i \in DOMAIN points' :
          \/ i \in DOMAIN points /\ points'[i] = points[i]
          \/ i = Len(points) + 1 /\ points'[i] = Tick.step
    BY <1>1
  <1>4. DarkSeen' => DarkSeen \/ Tick.step = 0
    BY <1>3 DEF DarkSeen
  <1>5. DarkSeen' => ~lit
    BY <1>0, <1>2, <1>4 DEF DarkInv, Follows
  <1>6. ASSUME NEW i \in DOMAIN points', NEW j \in DOMAIN points', i < j, points'[i] = 0
        PROVE  points'[j] = 0
    <2>1. i \in DOMAIN points /\ points'[i] = points[i]
      <3>1. i # Len(points) + 1
        BY <1>1, <1>6
      <3> QED
        BY <1>3, <3>1
    <2>2. DarkSeen
      BY <1>6, <2>1 DEF DarkSeen
    <2>3. CASE j \in DOMAIN points /\ points'[j] = points[j]
      BY <1>0, <1>6, <2>1, <2>3 DEF DarkInv
    <2>4. CASE points'[j] = Tick.step
      BY <1>2, <2>2, <2>4 DEF Follows
    <2> QED
      BY <1>3, <2>3, <2>4
  <1> QED
    BY <1>1, <1>5, <1>6 DEF DarkInv

LEMMA DarkStep ==
  ASSUME RunInv, DarkInv, [Next]_vars
  PROVE  DarkInv'
  <1> USE ItemsTyped, NoItems, TimesAssumption DEF RunInv, pace
  <1>1. ASSUME NEW r \in Requests, Start(r) PROVE DarkInv'
    <2>1. UNCHANGED <<points, hurried>> /\ lit' = lit /\ pc' # "wait"
      BY <1>1 DEF Start, device
    <2> QED
      BY <2>1, DarkKept
  <1>2. CASE Launch
    <2>1. points' = points /\ pc' # "wait" /\ DOMAIN points = {}
      BY <1>2 DEF Launch, WholeInv, TypeOK
    <2> QED
      BY <2>1 DEF DarkInv, DarkSeen
  <1>3. CASE StartFails \/ WriteFails \/ TakeOverdue \/ TakeTrip \/ GoesStale \/ Aborts \/ Lands
    <2>1. UNCHANGED <<points, hurried>> /\ lit' = lit /\ pc' # "wait"
      BY <1>3 DEF StartFails, WriteFails, TakeOverdue, TakeTrip, GoesStale, Aborts, Lands, Ended,
                  device
    <2> QED
      BY <2>1, DarkKept
  <1>4. CASE Written
    <2>1. now \in Nat /\ lastTS \in Nat /\ plan.dwell \in Nat
      BY <1>4, PlanFacts DEF Written, TypeOK
    <2>2. UNCHANGED <<plan, queue, haveTS, points, lit, behind, hurried>> /\ writeTS' = lastTS
      BY <1>4 DEF Written, device
    <2>3. \A u \in Items(queue) : u.ts <= now
      BY DEF ClockInv
    <2>4. ~behind => \A u \in Items(queue) : u.ts < lastTS + plan.dwell
      BY <1>4, <2>1, <2>3 DEF Written, PaceInv
    <2> QED
      BY <2>2, <2>4 DEF DarkInv, DarkSeen
  <1>5. CASE TakeEarly
    <2>1. /\ pc = "wait" /\ Tick \in Items(queue) /\ Items(queue') \subseteq Items(queue)
          /\ UNCHANGED <<plan, now, points, lit, behind, hurried>>
      BY <1>5, HeadAndTail DEF TakeEarly, Heard, Tick, TypeOK, device
    <2>2. CASE haveTS
      <3>1. haveTS' /\ writeTS' = writeTS
        BY <1>5, <2>1, <2>2 DEF TakeEarly, ClockInv, WaitClock, Seen
      <3> QED
        BY <2>1, <2>2, <3>1 DEF DarkInv, DarkSeen, Follows
    <2>3. CASE ~haveTS
      <3>1. /\ now \in Nat /\ plan.dwell \in Nat /\ plan.dwell >= MinDwell /\ Tick.ts \in Nat
            /\ Tick.ts <= now
        BY <2>1, PlanFacts DEF TypeOK, ClockInv
      <3>2. writeTS' = Tick.ts
        BY <1>5, <2>1, <2>3 DEF TakeEarly, ClockInv, WaitClock
      <3>3. \A u \in Items(queue') : u.ts <= now /\ u.ts \in Nat
        BY <2>1 DEF ClockInv
      <3>4. ~behind => now < plan.dwell \/ Tick.ts = now
        BY <2>1, <2>3 DEF PaceInv
      <3>5. ~behind => \A u \in Items(queue') : u.ts < Tick.ts + plan.dwell
        BY <3>1, <3>3, <3>4
      <3> QED
        BY <2>1, <3>2, <3>5 DEF DarkInv, DarkSeen
    <2> QED
      BY <2>2, <2>3
  <1>6. CASE TakeSample
    <2>1. CASE hurried' = {}
      BY <1>6, <2>1, DarkSamples
    <2>2. CASE hurried' # {}
      BY <2>2 DEF DarkInv
    <2> QED
      BY <2>1, <2>2
  <1>7. ASSUME UNCHANGED <<plan, pc, ref, points, pace>>, lit' => lit,
               Items(queue') \subseteq Items(queue) \cup {TripEvent}
        PROVE  DarkInv'
    <2>1. \A u \in Items(queue') : u \in Items(queue) \/ u.trip
      BY <1>7, UpdatesTyped
    <2>2. \A u : Follows(u) => Follows(u)'
      BY <1>7 DEF Follows, DarkSeen
    <2>3. hurried = {} =>
            (DarkSeen => ~lit)'
            /\ (\A i, j \in DOMAIN points : i < j /\ points[i] = 0 => points[j] = 0)'
      BY <1>7 DEF DarkInv, DarkSeen
    <2>4. pc' = pc /\ haveTS' = haveTS /\ writeTS' = writeTS /\ plan' = plan
          /\ behind' = behind /\ hurried' = hurried
      BY <1>7 DEF ref
    <2> QED
      BY <2>1, <2>2, <2>3, <2>4 DEF DarkInv
  <1>8. CASE Trip \/ LinkUp
    <2>1. Items(Offer(TripEvent)) \subseteq Items(queue) \cup {TripEvent}
      BY Offered, UpdatesTyped
    <2> QED
      BY <1>7, <1>8, <2>1 DEF Trip, LinkUp, device
  <1>9. CASE OutputLost \/ LinkDown \/ UNCHANGED vars
    BY <1>7, <1>9 DEF OutputLost, LinkDown, vars, device
  <1>10. ASSUME NEW c \in {"stop", "shutdown"}, Cancel(c) PROVE DarkInv'
    BY <1>7, <1>10 DEF Cancel, device
  <1>11. ASSUME NEW b \in BOOLEAN, Passes(b) PROVE DarkInv'
    <2>1. UNCHANGED <<plan, pc, ref, points, lit, inForce, hurried>>
      BY <1>11 DEF Passes, device
    <2>2. CASE pc # "wait"
      BY <2>1, <2>2, DarkKept
    <2>3. CASE pc = "wait"
      <3>1. queue = <<>> /\ Items(queue') \subseteq Items(queue) \cup {Report}
        BY <1>11, <2>3, Offered, UpdatesTyped DEF Passes, Room
      <3>2. \A u \in Items(queue') : u = Report
        BY <3>1
      <3>3. Report.step = (IF lit THEN step ELSE 0) /\ step # 0
        BY <2>3, UpdatesTyped DEF DeviceInv, TypeOK
      <3>4. hurried = {} => Follows(Report)
        BY <3>3 DEF Follows, DarkInv
      <3>5. \A u : Follows(u) => Follows(u)'
        BY <2>1 DEF Follows, DarkSeen
      <3>6. hurried = {} => \A u \in Items(queue') : Follows(u)'
        BY <3>2, <3>4, <3>5
      <3>7. hurried = {} =>
              (DarkSeen => ~lit)'
              /\ (\A i, j \in DOMAIN points : i < j /\ points[i] = 0 => points[j] = 0)'
        BY <2>1 DEF DarkInv, DarkSeen
      <3> QED
        BY <2>1, <3>6, <3>7 DEF DarkInv
    <2> QED
      BY <2>2, <2>3
  <1> QED
    BY <1>1, <1>2, <1>3, <1>4, <1>5, <1>6, <1>8, <1>9, <1>10, <1>11 DEF Next, Write, Take, Time

LEMMA DarkHolds == Spec => [](RunInv /\ PointsSettled /\ DarkInv)
  <1>1. Init => DarkInv
    BY NoItems DEF Init, DarkInv, DarkSeen
  <1>2. RunInv /\ PointsSettled /\ DarkInv /\ [Next]_vars => DarkInv'
    BY DarkStep
  <1> QED
    BY <1>1, <1>2, RunInvHolds, PTL DEF Spec

\* What a run measured of a curve are readings of it.
LEMMA PointsRead ==
  ASSUME RunInv, PointsSettled, DarkInv, pc = "ended", hurried = {}, NEW c \in Swept
  PROVE  Readings(Measured(c), c)
         /\ \A k \in DOMAIN c : c[k].i >= ConductionFloor => Log[c[k].i] \in Int
  <1> DEFINE p == Measured(c)
  <1>1. /\ plan.steps \in Nat /\ plan.steps >= 1 /\ plan.steps <= MaxSteps
        /\ Len(points) <= plan.steps /\ points \in Seq(Nat)
    <2>1. plan \in Requests /\ Compiles(plan) /\ Len(points) <= plan.steps /\ points \in Seq(Nat)
      BY DEF RunInv, WholeInv, TypeOK
    <2> QED
      BY <2>1, TimesAssumption DEF Compiles
  <1>2. PICK whole \in Curves : c = SubSeq(whole, 1, plan.steps)
    BY DEF Swept
  <1>3. /\ whole \in Seq([v : Nat, i : Nat]) /\ Len(whole) = MaxSteps
        /\ \A k \in DOMAIN whole : whole[k].i >= ConductionFloor => Log[whole[k].i] \in Int
    BY AnalysisAssumption
  <1>4. /\ c \in Seq([v : Nat, i : Nat]) /\ Len(c) = plan.steps /\ DOMAIN c = 1 .. plan.steps
        /\ \A k \in DOMAIN c : k \in DOMAIN whole /\ c[k] = whole[k]
    <2> DEFINE T == [v : Nat, i : Nat]
    <2>1. whole \in Seq(T) /\ Len(whole) = MaxSteps
      BY <1>3
    <2> HIDE DEF T
    <2>2. /\ SubSeq(whole, 1, plan.steps) \in Seq(T)
          /\ Len(SubSeq(whole, 1, plan.steps)) = plan.steps
          /\ DOMAIN SubSeq(whole, 1, plan.steps) = 1 .. plan.steps
          /\ \A k \in 1 .. plan.steps :
               k \in DOMAIN whole /\ SubSeq(whole, 1, plan.steps)[k] = whole[k]
      BY <1>1, <2>1, BeginsTyped
    <2> QED
      BY <1>2, <2>2 DEF T
  <1>5. DOMAIN points = 1 .. Len(points) /\ DOMAIN points \subseteq DOMAIN c /\ Len(points) \in Nat
    BY <1>1, <1>4
  <1>6. \A k \in DOMAIN points : p[k] = IF points[k] = 0 THEN Dark ELSE c[points[k]]
    BY DEF Measured
  <1>7. \A k \in DOMAIN points : p[k] = c[k] \/ (p[k] = Dark /\ points[k] = 0)
    <2> HIDE DEF p
    <2> SUFFICES ASSUME NEW k \in DOMAIN points
                 PROVE  p[k] = c[k] \/ (p[k] = Dark /\ points[k] = 0)
      OBVIOUS
    <2>1. points[k] = k \/ points[k] = 0
      BY DEF PointsSettled
    <2> QED
      BY <1>6, <2>1
  <1>8. \A k \in DOMAIN points : p[k] \in [v : Nat, i : Nat]
    <2>1. \A k \in DOMAIN c : c[k] \in [v : Nat, i : Nat]
      BY <1>4, ElementsIn
    <2>2. Dark \in [v : Nat, i : Nat]
      BY DEF Dark
    <2> QED
      BY <1>5, <1>7, <2>1, <2>2
  <1>9. p \in Seq([v : Nat, i : Nat]) /\ Len(p) = Len(points) /\ DOMAIN p = DOMAIN points
    <2>1. p = [k \in 1 .. Len(points) |-> p[k]]
      BY <1>5 DEF Measured
    <2> HIDE DEF p
    <2> QED
      BY <1>5, <1>8, <2>1, SeqOfFunction
  <1>10. ASSUME NEW j \in DOMAIN p, NEW k \in DOMAIN p, j < k, p[k] # Dark
         PROVE  p[j] = c[j]
    <2>1. points[k] # 0
      BY <1>6, <1>9, <1>10
    <2>2. points[j] # 0
      BY <1>9, <1>10, <2>1 DEF DarkInv
    <2> QED
      BY <1>7, <1>9, <2>2
  <1> QED
    BY <1>1, <1>3, <1>4, <1>7, <1>9, <1>10 DEF Readings

\* Whatever the curve, what a sweep that kept up with its ticks reports of its component is
\* true of it.
THEOREM MetricsAreTrue == Spec => []MetricsOfTheCurve
  <1>1. ASSUME RunInv, PointsSettled, DarkInv PROVE MetricsOfTheCurve
    <2> SUFFICES ASSUME pc = "ended", hurried = {}, NEW c \in Swept
                 PROVE
                   LET p == Measured(c)
                   IN /\ c[1].i < Reference =>
                           \A known \in {Vf(p), Vz(p)} :
                             known # Null => Same(known, VoltageAt(c, Reference))
                      /\ \A top \in TopsByCurrent(p), s \in Slopes :
                           /\ Ohmic(c, s) =>
                                /\ ~Resistor(p).approx
                                /\ \A known \in {Resistor(p).resistance, Diode(p, top).seriesR,
                                                 Zener(p).zzt} :
                                     known # Null => Same(known, <<1, s>>)
                           /\ Exponential(c, s) /\ Diode(p, top).ideality # Null =>
                                Same(Diode(p, top).ideality, <<s, 1>>)
                      /\ Warms(c) /\ Lamp(p).cold # Null =>
                           Lamp(p).hot[1] * Lamp(p).cold[2] >= Lamp(p).cold[1] * Lamp(p).hot[2]
      BY DEF MetricsOfTheCurve
    <2> DEFINE p == Measured(c)
    <2>1. Readings(p, c) /\ \A k \in DOMAIN c : c[k].i >= ConductionFloor => Log[c[k].i] \in Int
      BY <1>1, PointsRead
    <2> HIDE DEF p
    <2>2. Reference \in Nat \ {0} /\ \A s \in Slopes : s \in Nat \ {0}
      BY AnalysisAssumption
    <2>3. ASSUME c[1].i < Reference, NEW known \in {Vf(p), Vz(p)}, known # Null
          PROVE  Same(known, VoltageAt(c, Reference))
      <3>1. known = VoltageAt(p, Reference)
        BY <2>3 DEF Vf, Vz, OrNull
      <3>2. Crossings(p, Reference) # {}
        BY <2>3, <3>1 DEF VoltageAt
      <3>3. known = VoltageAt(c, Reference)
        BY <2>1, <2>2, <2>3, <3>1, <3>2, SameVoltage
      <3> QED
        BY <3>3 DEF Same
    <2>4. ASSUME NEW top \in TopsByCurrent(p), NEW s \in Slopes, Ohmic(c, s)
          PROVE  /\ ~Resistor(p).approx
                 /\ \A known \in {Resistor(p).resistance, Diode(p, top).seriesR, Zener(p).zzt} :
                      known # Null => Same(known, <<1, s>>)
      BY <2>1, <2>2, <2>4, OhmicMetrics
    <2>5. ASSUME NEW top \in TopsByCurrent(p), NEW s \in Slopes, Exponential(c, s),
                 Diode(p, top).ideality # Null
          PROVE  Same(Diode(p, top).ideality, <<s, 1>>)
      <3>1. Diode(p, top).ideality = IdealitySlope(p) /\ IdealitySlope(p) # Null
        BY <2>5 DEF Diode, OrNull
      <3> QED
        BY <2>1, <2>2, <2>5, <3>1, IdealityFits
    <2>6. ASSUME Warms(c), Lamp(p).cold # Null
          PROVE  Lamp(p).hot[1] * Lamp(p).cold[2] >= Lamp(p).cold[1] * Lamp(p).hot[2]
      BY <2>1, <2>6, LampFits
    <2> QED
      BY <2>3, <2>4, <2>5, <2>6 DEF p
  <1> QED
    BY <1>1, DarkHolds, PTL
-----------------------------------------------------------------------------
(***************************************************************************)
(* The library.                                                            *)
(*                                                                         *)
(* On SQLite, where a transaction holds the only connection, its pins      *)
(* never dangle: for any number of components, sweeps and concurrent       *)
(* requests.  What a transaction read still holds when it writes, and a    *)
(* row the tracer is about to save belongs to no component.                *)
(***************************************************************************)
USE IdsAssumption, TypesAssumption, BoundAssumption
  DEF IdsAssumption, TypesAssumption, BoundAssumption

\* An open transaction is the one that holds the connection.
Exclusive == \A h \in Handlers : tx[h] # Idle => conn = h

\* What a transaction read and validated.
AssignHolds(t) ==
  /\ t.sweep \in Sweeps
  /\ Stored(t.sweep)
  /\ t.left = sweeps[t.sweep].component
  /\ t.component # None =>
       /\ sweeps[t.sweep].state = "completed"
       /\ Live(t.component)
       /\ Accepts(components[t.component].kind, sweeps[t.sweep].type)
  /\ t.pin # NoSweep => /\ t.component # None /\ t.pin = t.sweep
                        /\ components[t.component].ref = NoSweep
DeleteHolds(t) ==
  t.sweep \in Sweeps /\ sweeps[t.sweep].state # "new" /\ t.left = sweeps[t.sweep].component
DropHolds(t) == t.component \in Components /\ Live(t.component)
EditHolds(t) ==
  /\ t.component \in Components /\ Live(t.component)
  /\ t.pin # NoSweep => Member(sweeps, t.pin, t.component)
                        /\ Accepts(components[t.component].kind, sweeps[t.pin].type)

Holds(t) ==
  /\ t.op = "assign" => AssignHolds(t)
  /\ t.op = "delete" => DeleteHolds(t)
  /\ t.op = "drop" => DropHolds(t)
  /\ t.op = "edit" => EditHolds(t)
  /\ t.op = "none" => t = Idle

ReadsHold == \A h \in Handlers : Holds(tx[h])

\* A sweep whose run is not over is in no component, and not completed.
RunApart ==
  \A s \in Sweeps : runs[s].at # "none" =>
    /\ sweeps[s].component = None
    /\ sweeps[s].state \in {"running", "failed", "gone"}
    /\ runs[s].at = "read" => runs[s].component = None

LibraryInv ==
  LibraryTypeOK /\ PinNeverDangles /\ MembersBelong /\ Exclusive /\ ReadsHold /\ RunApart

------------------------------------------------------------------------------
(***************************************************************************)
(* The fixup of a pin.                                                     *)
(***************************************************************************)
\* A nonempty set of sweeps has a newest one.
LEMMA NewestExists ==
  ASSUME NEW T \in SUBSET Sweeps, T # {}
  PROVE  \E s \in T : \A t \in T : t <= s
<1> DEFINE Gaps == {MaxSweeps - s : s \in T}
<1>1. Gaps \subseteq Nat /\ Gaps # {}
  <2>1. \A s \in T : MaxSweeps - s \in Nat
    BY DEF Sweeps
  <2> QED BY <2>1
<1>2. PICK g \in Gaps : \A k \in Gaps : ~ (<<k, g>> \in OpToRel(<, Nat))
  <2> HIDE DEF Gaps
  <2>1. QED
    BY <1>1, WFMin, NatLessThanWellFounded, Zenon
<1>3. \A k \in Gaps : ~ (k < g)
  BY <1>1, <1>2 DEF OpToRel
<1>4. PICK s \in T : g = MaxSweeps - s
  BY DEF Gaps
<1>5. \A t \in T : t <= s
  BY <1>3, <1>4 DEF Sweeps
<1>6. QED
  BY <1>4, <1>5

\* Newest picks a member, or none when there is none.
LEMMA NewestIsMember ==
  ASSUME NEW S, NEW c
  PROVE  /\ Members(S, c) # {} => Newest(S, c) \in Members(S, c)
         /\ Members(S, c) = {} => Newest(S, c) = NoSweep
<1>1. Members(S, c) \in SUBSET Sweeps
  BY DEF Members
<1>2. CASE Members(S, c) = {}
  BY <1>2 DEF Newest
<1>3. CASE Members(S, c) # {}
  <2>1. \E s \in Members(S, c) : \A t \in Members(S, c) : t <= s
    BY <1>1, <1>3, NewestExists
  <2>2. QED
    BY <1>3, <2>1 DEF Newest
<1>4. QED
  BY <1>2, <1>3

\* What the fixup of c does to the components: c ends up with a pin that does not
\* dangle, and nothing else changes.
LEMMA RefixPins ==
  ASSUME NEW S \in [Sweeps -> SweepRow], NEW C \in [Components -> ComponentRow],
         NEW c \in Components,
         \A s \in Sweeps : Member(S, s, c) => Accepts(C[c].kind, S[s].type)
  PROVE  /\ Refix(S, C, c) \in [Components -> ComponentRow]
         /\ \A d \in Components : /\ Refix(S, C, c)[d].state = C[d].state
                                  /\ Refix(S, C, c)[d].kind = C[d].kind
                                  /\ d # c => Refix(S, C, c)[d] = C[d]
         /\ Refix(S, C, c)[c].state = "live" /\ Refix(S, C, c)[c].ref # NoSweep =>
              /\ Member(S, Refix(S, C, c)[c].ref, c)
              /\ Accepts(C[c].kind, S[Refix(S, C, c)[c].ref].type)
<1> DEFINE D == Refix(S, C, c)
           n == Newest(S, c)
<1>1. n \in Sweeps \cup {NoSweep} /\ (n # NoSweep => n \in Sweeps /\ Member(S, n, c))
  BY NewestIsMember DEF Members
<1>2. CASE C[c].state # "live" \/ (C[c].ref # NoSweep /\ Member(S, C[c].ref, c))
  <2>1. D = C
    BY <1>2 DEF Refix
  <2>2. C[c].ref # NoSweep => C[c].ref \in Sweeps
    BY DEF ComponentRow
  <2>3. QED
    BY <1>2, <2>1, <2>2
<1>3. CASE ~(C[c].state # "live" \/ (C[c].ref # NoSweep /\ Member(S, C[c].ref, c)))
  <2>1. D = [C EXCEPT ![c].ref = n]
    BY <1>3 DEF Refix
  <2> HIDE DEF n
  <2>2. /\ D \in [Components -> ComponentRow]
        /\ \A d \in Components : /\ D[d].state = C[d].state
                                 /\ D[d].kind = C[d].kind
                                 /\ d # c => D[d] = C[d]
        /\ D[c].ref = n
    BY <1>1, <2>1 DEF ComponentRow
  <2>3. QED
    BY <1>1, <2>2
<1>4. QED
  BY <1>2, <1>3

------------------------------------------------------------------------------
(***************************************************************************)
(* Transactions.                                                           *)
(***************************************************************************)
\* Whoever may use the connection is alone.
LEMMA Alone ==
  ASSUME SingleConn, Exclusive, NEW h \in Handlers, MayUse(h)
  PROVE  \A k \in Handlers : k # h => tx[k] = Idle
  BY DEF Exclusive, MayUse

\* With the connection free nothing is open.
LEMMA NothingOpen ==
  ASSUME SingleConn, Exclusive, ConnFree
  PROVE  \A k \in Handlers : tx[k] = Idle
  BY DEF Exclusive, ConnFree

LEMMA IdleHolds == Holds(Idle)'
  BY DEF Holds, Idle

\* Opening a transaction keeps the invariant when what it recorded holds.
LEMMA OpenKeeps ==
  ASSUME SingleConn, LibraryInv, NEW h \in Handlers, NEW t \in Transaction,
         Holds(t), Open(h, t)
  PROVE  LibraryInv'
<1> USE DEF LibraryInv
<1>1. tx' = [tx EXCEPT ![h] = t] /\ conn' = h /\ UNCHANGED <<sweeps, components, runs, reconciled>>
  BY DEF Open
<1>2. LibraryTypeOK'
  BY <1>1 DEF LibraryTypeOK
<1>3. \A k \in Handlers : k # h => tx'[k] = Idle
  BY <1>1, Alone DEF Open, LibraryTypeOK
<1>4. Exclusive'
  BY <1>1, <1>3 DEF Exclusive
<1>5. Holds(t)'
  BY <1>1 DEF Holds, AssignHolds, DeleteHolds, DropHolds, EditHolds, Stored, Live, Member, Accepts
<1>6. ReadsHold'
  <2> SUFFICES ASSUME NEW k \in Handlers PROVE Holds(tx[k])'
    BY DEF ReadsHold
  <2>1. CASE k = h
    BY <2>1, <1>1, <1>5 DEF LibraryTypeOK
  <2>2. CASE k # h
    BY <2>2, <1>3, IdleHolds DEF Holds, Idle
  <2>3. QED
    BY <2>1, <2>2
<1>7. PinNeverDangles' /\ MembersBelong' /\ RunApart'
  BY <1>1 DEF PinNeverDangles, MembersBelong, RunApart, Live, Member
<1>8. QED
  BY <1>2, <1>4, <1>6, <1>7

\* After the only open transaction is closed, none is open.
LEMMA CloseIdles ==
  ASSUME SingleConn, LibraryTypeOK, Exclusive, NEW h \in Handlers, tx[h] # Idle, Close(h)
  PROVE  /\ tx' \in [Handlers -> Transaction] /\ conn' \in Handlers \cup {None}
         /\ runs' = runs /\ reconciled' = reconciled
         /\ Exclusive' /\ ReadsHold'
<1>1. \A k \in Handlers : k # h => tx[k] = Idle
  BY DEF Exclusive
<1>2. \A k \in Handlers : tx'[k] = Idle
  BY <1>1 DEF Close, LibraryTypeOK
<1>3. Idle \in Transaction
  BY DEF Idle, Transaction
<1>4. ReadsHold'
  BY <1>2, IdleHolds DEF ReadsHold, Holds, Idle
<1>5. tx' \in [Handlers -> Transaction] /\ conn' \in Handlers \cup {None}
  BY <1>3 DEF Close, LibraryTypeOK
<1>6. QED
  BY <1>2, <1>4, <1>5 DEF Close, Exclusive

\* AssignSweepComponent, both ways.
LEMMA CommitAssignKeeps ==
  ASSUME SingleConn, LibraryInv, NEW h \in Handlers, CommitAssign(h)
  PROVE  LibraryInv'
<1> USE DEF LibraryInv
<1> DEFINE t == tx[h]
           S == [sweeps EXCEPT ![t.sweep].component = t.component]
           C == IF t.pin = NoSweep THEN components
                ELSE [components EXCEPT ![t.component].ref = t.pin]
<1>1. t \in Transaction /\ t.op = "assign" /\ AssignHolds(t) /\ Close(h)
  BY DEF CommitAssign, LibraryTypeOK, ReadsHold, Holds
<1>2. t.sweep \in Sweeps /\ Stored(t.sweep) /\ t.left = sweeps[t.sweep].component
  BY <1>1 DEF AssignHolds
<1>3. /\ sweeps' = S
      /\ components' = IF t.left \in {None, t.component} THEN C ELSE Refix(S, C, t.left)
  BY <1>2 DEF CommitAssign
<1>4. /\ tx' \in [Handlers -> Transaction] /\ conn' \in Handlers \cup {None}
      /\ runs' = runs /\ reconciled' = reconciled /\ Exclusive' /\ ReadsHold'
  <2>1. tx[h] # Idle
    BY <1>1 DEF Idle
  <2>2. QED
    BY <1>1, <2>1, CloseIdles
<1>5. /\ S \in [Sweeps -> SweepRow]
      /\ \A s \in Sweeps : /\ S[s].state = sweeps[s].state /\ S[s].type = sweeps[s].type
                           /\ s # t.sweep => S[s] = sweeps[s]
      /\ S[t.sweep].component = t.component
  BY <1>1, <1>2 DEF LibraryTypeOK, SweepRow, Transaction
<1>6. t.pin # NoSweep => t.pin = t.sweep /\ t.component \in Components /\ Live(t.component)
                         /\ components[t.component].ref = NoSweep
  BY <1>1 DEF AssignHolds, Transaction
<1>7. C \in [Components -> ComponentRow]
      /\ \A c \in Components :
           /\ C[c].state = components[c].state /\ C[c].kind = components[c].kind
           /\ \/ C[c] = components[c]
              \/ c = t.component /\ t.pin = t.sweep /\ C[c].ref = t.sweep
  BY <1>1, <1>2, <1>6 DEF LibraryTypeOK, ComponentRow
<1> HIDE DEF t, S, C
\* Membership of every sweep is as it should be, whatever becomes of the pins.
<1>8. \A s \in Sweeps : S[s].component # None =>
        /\ S[s].state = "completed"
        /\ C[S[s].component].state = "live"
        /\ Accepts(C[S[s].component].kind, S[s].type)
        /\ S[s].component \in Components
  <2> SUFFICES ASSUME NEW s \in Sweeps, S[s].component # None
               PROVE  /\ S[s].state = "completed"
                      /\ C[S[s].component].state = "live"
                      /\ Accepts(C[S[s].component].kind, S[s].type)
                      /\ S[s].component \in Components
    OBVIOUS
  <2>1. CASE s = t.sweep
    BY <2>1, <1>1, <1>5, <1>7 DEF AssignHolds, Live, Transaction
  <2>2. CASE s # t.sweep
    BY <2>2, <1>5, <1>7 DEF MembersBelong, Live, LibraryTypeOK, SweepRow
  <2>3. QED
    BY <2>1, <2>2
\* Only the component the sweep leaves can be left with a pin that dangles.
<1>9. \A c \in Components : C[c].state = "live" /\ C[c].ref # NoSweep /\ c # t.left =>
        Member(S, C[c].ref, c) /\ Accepts(C[c].kind, S[C[c].ref].type)
  <2> SUFFICES ASSUME NEW c \in Components, C[c].state = "live", C[c].ref # NoSweep, c # t.left
               PROVE  Member(S, C[c].ref, c) /\ Accepts(C[c].kind, S[C[c].ref].type)
    OBVIOUS
  <2>1. CASE C[c] = components[c]
    <3>1. Member(sweeps, C[c].ref, c) /\ Accepts(C[c].kind, sweeps[C[c].ref].type)
      BY <2>1 DEF PinNeverDangles, Live
    <3>2. C[c].ref \in Sweeps
      BY <2>1 DEF LibraryTypeOK, ComponentRow
    <3>3. C[c].ref # t.sweep
      BY <1>2, <3>1 DEF Member
    <3>4. QED
      BY <1>5, <3>1, <3>2, <3>3 DEF Member
  <2>2. CASE c = t.component /\ t.pin = t.sweep /\ C[c].ref = t.sweep
    <3>1. S[t.sweep].component = c /\ c # None
      BY <2>2, <1>5
    <3>2. QED
      BY <2>2, <1>2, <1>8, <3>1 DEF Member
  <2>3. QED
    BY <1>7, <2>1, <2>2
<1>10. CASE t.left \in {None, t.component}
  <2>1. components' = C
    BY <1>3, <1>10
  <2>2. \A c \in Components : C[c].state = "live" /\ C[c].ref # NoSweep =>
          Member(S, C[c].ref, c) /\ Accepts(C[c].kind, S[C[c].ref].type)
    <3>1. CASE t.left = None
      BY <3>1, <1>9
    <3>2. CASE t.left = t.component
      <4>1. S = sweeps
        BY <3>2, <1>2 DEF S, LibraryTypeOK, SweepRow
      <4> SUFFICES ASSUME NEW c \in Components, C[c].state = "live", C[c].ref # NoSweep,
                          c = t.left
                   PROVE  Member(S, C[c].ref, c) /\ Accepts(C[c].kind, S[C[c].ref].type)
        BY <1>9
      <4>2. CASE C[c] = components[c]
        BY <4>1, <4>2 DEF PinNeverDangles, Live
      <4>3. CASE C[c].ref = t.sweep
        <5>1. S[t.sweep].component = c /\ c # None
          BY <3>2, <1>5
        <5>2. QED
          BY <4>3, <1>2, <1>8, <5>1 DEF Member
      <4>4. QED
        BY <4>2, <4>3, <1>7
    <3>3. QED
      BY <1>10, <3>1, <3>2
  <2>3. LibraryTypeOK' /\ PinNeverDangles' /\ MembersBelong'
    BY <1>3, <1>4, <1>5, <1>7, <1>8, <2>1, <2>2
    DEF LibraryTypeOK, PinNeverDangles, MembersBelong, Live, Member
  <2>4. RunApart'
    BY <1>1, <1>2, <1>3, <1>4, <1>5 DEF RunApart, AssignHolds, Stored
  <2>5. QED
    BY <1>4, <2>3, <2>4
<1>11. CASE t.left \notin {None, t.component}
  <2>1. components' = Refix(S, C, t.left)
    BY <1>3, <1>11
  <2>2. t.left \in Components
    BY <1>1, <1>11 DEF Transaction
  <2>3. \A s \in Sweeps : Member(S, s, t.left) => Accepts(C[t.left].kind, S[s].type)
    BY <1>8, <1>11 DEF Member
  <2>4. /\ components' \in [Components -> ComponentRow]
        /\ \A d \in Components : /\ components'[d].state = C[d].state
                                 /\ components'[d].kind = C[d].kind
                                 /\ d # t.left => components'[d] = C[d]
        /\ components'[t.left].state = "live" /\ components'[t.left].ref # NoSweep =>
             /\ Member(S, components'[t.left].ref, t.left)
             /\ Accepts(C[t.left].kind, S[components'[t.left].ref].type)
    BY <1>5, <1>7, <2>1, <2>2, <2>3, RefixPins
  <2>5. LibraryTypeOK' /\ MembersBelong'
    BY <1>3, <1>4, <1>5, <1>8, <2>4 DEF LibraryTypeOK, MembersBelong, Live
  <2>6. PinNeverDangles'
    BY <1>3, <1>9, <2>2, <2>4 DEF PinNeverDangles, Live
  <2>7. RunApart'
    BY <1>1, <1>2, <1>3, <1>4, <1>5 DEF RunApart, AssignHolds, Stored
  <2>8. QED
    BY <1>4, <2>5, <2>6, <2>7
<1>12. QED
  BY <1>10, <1>11

\* DeleteSweep.
LEMMA CommitDeleteSweepKeeps ==
  ASSUME SingleConn, LibraryInv, NEW h \in Handlers, CommitDeleteSweep(h)
  PROVE  LibraryInv'
<1> USE DEF LibraryInv
<1> DEFINE t == tx[h]
           S == [sweeps EXCEPT ![t.sweep].state = "gone", ![t.sweep].component = None]
<1>1. t \in Transaction /\ t.op = "delete" /\ DeleteHolds(t) /\ Close(h)
  BY DEF CommitDeleteSweep, LibraryTypeOK, ReadsHold, Holds
<1>2. t.sweep \in Sweeps /\ t.left = sweeps[t.sweep].component
  BY <1>1 DEF DeleteHolds
<1>3. /\ sweeps' = S
      /\ components' = IF t.left = None THEN components ELSE Refix(S, components, t.left)
  BY DEF CommitDeleteSweep
<1>4. /\ tx' \in [Handlers -> Transaction] /\ conn' \in Handlers \cup {None}
      /\ runs' = runs /\ reconciled' = reconciled /\ Exclusive' /\ ReadsHold'
  <2>1. tx[h] # Idle
    BY <1>1 DEF Idle
  <2>2. QED
    BY <1>1, <2>1, CloseIdles
<1>5. /\ S \in [Sweeps -> SweepRow]
      /\ \A s \in Sweeps : s # t.sweep => S[s] = sweeps[s]
      /\ S[t.sweep].component = None /\ S[t.sweep].state = "gone"
  BY <1>2 DEF LibraryTypeOK, SweepRow
<1> HIDE DEF t, S
<1>6. \A s \in Sweeps : S[s].component # None =>
        /\ S[s].state = "completed"
        /\ S[s].component \in Components
        /\ components[S[s].component].state = "live"
        /\ Accepts(components[S[s].component].kind, S[s].type)
  BY <1>5 DEF MembersBelong, Live, LibraryTypeOK, SweepRow
<1>7. \A c \in Components :
        components[c].state = "live" /\ components[c].ref # NoSweep /\ c # t.left =>
        /\ Member(S, components[c].ref, c)
        /\ Accepts(components[c].kind, S[components[c].ref].type)
  <2> SUFFICES ASSUME NEW c \in Components, components[c].state = "live",
                      components[c].ref # NoSweep, c # t.left
               PROVE  /\ Member(S, components[c].ref, c)
                      /\ Accepts(components[c].kind, S[components[c].ref].type)
    OBVIOUS
  <2>1. /\ Member(sweeps, components[c].ref, c)
        /\ Accepts(components[c].kind, sweeps[components[c].ref].type)
    BY DEF PinNeverDangles, Live
  <2>2. components[c].ref \in Sweeps /\ components[c].ref # t.sweep
    BY <1>2, <2>1 DEF LibraryTypeOK, ComponentRow, Member
  <2>3. QED
    BY <1>5, <2>1, <2>2 DEF Member
<1>8. RunApart'
  BY <1>3, <1>4, <1>5 DEF RunApart
<1>9. CASE t.left = None
  <2>1. components' = components
    BY <1>3, <1>9
  <2>2. LibraryTypeOK' /\ MembersBelong' /\ PinNeverDangles'
    BY <1>3, <1>4, <1>5, <1>6, <1>7, <1>9, <2>1
    DEF LibraryTypeOK, MembersBelong, PinNeverDangles, Live, Member
  <2>3. QED
    BY <1>4, <1>8, <2>2
<1>10. CASE t.left # None
  <2>1. t.left \in Components
    BY <1>1, <1>10 DEF Transaction
  <2>2. \A s \in Sweeps : Member(S, s, t.left) => Accepts(components[t.left].kind, S[s].type)
    BY <1>6, <1>10 DEF Member
  <2>3. /\ components' \in [Components -> ComponentRow]
        /\ \A d \in Components : /\ components'[d].state = components[d].state
                                 /\ components'[d].kind = components[d].kind
                                 /\ d # t.left => components'[d] = components[d]
        /\ components'[t.left].state = "live" /\ components'[t.left].ref # NoSweep =>
             /\ Member(S, components'[t.left].ref, t.left)
             /\ Accepts(components[t.left].kind, S[components'[t.left].ref].type)
    BY <1>3, <1>5, <1>10, <2>1, <2>2, RefixPins DEF LibraryTypeOK
  <2>4. LibraryTypeOK' /\ MembersBelong'
    BY <1>3, <1>4, <1>5, <1>6, <2>3 DEF LibraryTypeOK, MembersBelong, Live
  <2>5. PinNeverDangles'
    BY <1>3, <1>7, <2>1, <2>3 DEF PinNeverDangles, Live
  <2>6. QED
    BY <1>4, <1>8, <2>4, <2>5
<1>11. QED
  BY <1>9, <1>10

\* DeleteIVComponent.
LEMMA CommitDeleteComponentKeeps ==
  ASSUME SingleConn, LibraryInv, NEW h \in Handlers, CommitDeleteComponent(h)
  PROVE  LibraryInv'
<1> USE DEF LibraryInv
<1>1. /\ tx[h] \in Transaction /\ tx[h].op = "drop" /\ Close(h)
      /\ tx[h].component \in Components
  BY DEF CommitDeleteComponent, LibraryTypeOK, ReadsHold, Holds, DropHolds
<1>2. /\ tx' \in [Handlers -> Transaction] /\ conn' \in Handlers \cup {None}
      /\ runs' = runs /\ reconciled' = reconciled /\ Exclusive' /\ ReadsHold'
  <2>1. tx[h] # Idle
    BY <1>1 DEF Idle
  <2>2. QED
    BY <1>1, <2>1, CloseIdles
<1> DEFINE d == tx[h].component
<1>3. /\ sweeps' \in [Sweeps -> SweepRow]
      /\ \A s \in Sweeps : /\ sweeps'[s].state = sweeps[s].state
                           /\ sweeps'[s].type = sweeps[s].type
                           /\ sweeps[s].component = d => sweeps'[s].component = None
                           /\ sweeps[s].component # d => sweeps'[s] = sweeps[s]
  <2>1. sweeps' = [s \in Sweeps |-> IF sweeps[s].component = d
                                   THEN [sweeps[s] EXCEPT !.component = None] ELSE sweeps[s]]
    BY DEF CommitDeleteComponent
  <2>2. ASSUME NEW s \in Sweeps
        PROVE  /\ sweeps'[s] \in SweepRow
               /\ sweeps'[s].state = sweeps[s].state /\ sweeps'[s].type = sweeps[s].type
               /\ sweeps[s].component = d => sweeps'[s].component = None
               /\ sweeps[s].component # d => sweeps'[s] = sweeps[s]
    <3>1. sweeps[s] \in SweepRow
      BY DEF LibraryTypeOK
    <3> HIDE DEF LibraryInv, d
    <3>2. QED
      BY <2>1, <3>1 DEF SweepRow
  <2> HIDE DEF LibraryInv, d
  <2>3. sweeps' \in [Sweeps -> SweepRow]
    BY <2>1, <2>2
  <2>4. QED
    BY <2>2, <2>3
<1>4. /\ components' \in [Components -> ComponentRow]
      /\ \A c \in Components : c # d => components'[c] = components[c]
      /\ components'[d].state = "gone"
  BY <1>1, ZenonT(60) DEF CommitDeleteComponent, LibraryTypeOK, ComponentRow
<1> HIDE DEF d
<1>5. LibraryTypeOK' /\ MembersBelong'
  BY <1>2, <1>3, <1>4 DEF LibraryTypeOK, MembersBelong, Live, SweepRow
<1>6. PinNeverDangles'
  BY <1>3, <1>4, SMTT(30) DEF PinNeverDangles, Live, Member, LibraryTypeOK, ComponentRow
<1>7. RunApart'
  BY <1>2, <1>3 DEF RunApart
<1>8. QED
  BY <1>2, <1>5, <1>6, <1>7

\* UpdateIVComponent.
LEMMA CommitEditKeeps ==
  ASSUME SingleConn, LibraryInv, NEW h \in Handlers, CommitEdit(h)
  PROVE  LibraryInv'
<1> USE DEF LibraryInv
<1>1. tx[h] \in Transaction /\ tx[h].op = "edit" /\ Close(h) /\ EditHolds(tx[h])
  BY DEF CommitEdit, LibraryTypeOK, ReadsHold, Holds
<1>2. /\ tx' \in [Handlers -> Transaction] /\ conn' \in Handlers \cup {None}
      /\ runs' = runs /\ reconciled' = reconciled /\ Exclusive' /\ ReadsHold'
  <2>1. tx[h] # Idle
    BY <1>1 DEF Idle
  <2>2. QED
    BY <1>1, <2>1, CloseIdles
<1> DEFINE c == tx[h].component
<1>3. c \in Components /\ Live(c) /\ sweeps' = sweeps
  BY <1>1 DEF EditHolds, CommitEdit
<1>4. /\ components' \in [Components -> ComponentRow]
      /\ \A d \in Components : /\ components'[d].state = components[d].state
                               /\ components'[d].kind = components[d].kind
                               /\ d # c => components'[d] = components[d]
      /\ components'[c].ref = tx[h].pin
  BY <1>1, <1>3, ZenonT(60) DEF CommitEdit, LibraryTypeOK, ComponentRow, Transaction, Live
<1>5. LibraryTypeOK' /\ MembersBelong'
  BY <1>2, <1>3, <1>4 DEF LibraryTypeOK, MembersBelong, Live, SweepRow
<1>6. PinNeverDangles'
  BY <1>1, <1>3, <1>4 DEF PinNeverDangles, Live, Member, EditHolds
<1>7. RunApart'
  BY <1>2, <1>3 DEF RunApart
<1>8. QED
  BY <1>2, <1>5, <1>6, <1>7

------------------------------------------------------------------------------
(***************************************************************************)
(* Steps outside a transaction, and the theorems.                          *)
(***************************************************************************)
\* CreateIVComponent: nobody else is in a transaction, and no sweep belongs to a
\* component that was not there.
LEMMA CreateComponentKeeps ==
  ASSUME SingleConn, LibraryInv, NEW h \in Handlers, NEW c \in Components, NEW kind \in Types,
         CreateComponent(h, c, kind)
  PROVE  LibraryInv'
<1> USE DEF LibraryInv
<1>1. UNCHANGED <<sweeps, tx, conn, runs, reconciled>> /\ \A k \in Handlers : tx[k] = Idle
  BY Alone DEF CreateComponent
<1>2. /\ components' \in [Components -> ComponentRow]
      /\ \A d \in Components : d # c => components'[d] = components[d]
      /\ components'[c].ref = NoSweep
      /\ ~Live(c)
  BY DEF CreateComponent, LibraryTypeOK, ComponentRow, Live
<1>3. Exclusive' /\ ReadsHold'
  BY <1>1, IdleHolds DEF Exclusive, ReadsHold, Holds, Idle
<1>4. LibraryTypeOK' /\ MembersBelong' /\ PinNeverDangles' /\ RunApart'
  BY <1>1, <1>2 DEF LibraryTypeOK, MembersBelong, PinNeverDangles, RunApart, Live, Member, SweepRow
<1>5. QED
  BY <1>3, <1>4

\* A step that touches only sweeps that are not completed, and leaves those in no
\* component, disturbs neither pins nor members.
LEMMA LooseSweepsKeep ==
  ASSUME LibraryTypeOK, PinNeverDangles, MembersBelong, components' = components,
         \A s \in Sweeps : IF sweeps[s].state = "completed" THEN sweeps'[s] = sweeps[s]
                           ELSE sweeps'[s].component = None
  PROVE  PinNeverDangles' /\ MembersBelong'
  BY DEF LibraryTypeOK, PinNeverDangles, MembersBelong, Live, Member, SweepRow, ComponentRow

\* CreateIVSweep, UpdateIVSweep and MarkRunningIVSweepsFailed.
LEMMA TracerKeeps ==
  ASSUME SingleConn, LibraryInv, Tracer \/ Reconcile
  PROVE  LibraryInv'
<1> USE DEF LibraryInv
<1>1. \A s \in Sweeps : sweeps[s].state # "completed" => sweeps[s].component = None
  BY DEF MembersBelong
<1>2. tx' = tx /\ conn' = conn /\ components' = components
  BY DEF Tracer, BeginSweep, FinishRead, FinishSave, FinishLost, Reconcile
<1>3. ASSUME ConnFree PROVE Exclusive' /\ ReadsHold'
  BY <1>2, <1>3, NothingOpen, IdleHolds DEF Exclusive, ReadsHold, Holds, Idle
<1>4. ASSUME NEW type \in Types, BeginSweep(type) PROVE LibraryInv'
  <2>1. PICK s \in Sweeps :
          /\ \A t \in Sweeps : sweeps[t].state = "new" <=> t >= s
          /\ sweeps' = [sweeps EXCEPT ![s] = [state |-> "running", component |-> None,
                                              type |-> type]]
          /\ runs' = [runs EXCEPT ![s] = [at |-> "running", component |-> None]]
    BY <1>4 DEF BeginSweep
  <2>2. sweeps[s].state = "new"
    <3>1. s \in Nat
      BY DEF Sweeps
    <3>2. QED
      BY <2>1, <3>1
  <2>3. LibraryTypeOK' /\ RunApart'
    BY <1>2, <1>4, <2>1, <2>2 DEF LibraryTypeOK, RunApart, SweepRow, BeginSweep
  <2>4. PinNeverDangles' /\ MembersBelong'
    BY <1>1, <1>2, <2>1, <2>2, LooseSweepsKeep DEF LibraryTypeOK
  <2>5. QED
    BY <1>3, <1>4, <2>3, <2>4 DEF BeginSweep
<1>5. ASSUME NEW s \in Sweeps, FinishRead(s) \/ FinishLost(s) PROVE LibraryInv'
  <2>1. sweeps' = sweeps
    BY <1>5 DEF FinishRead, FinishLost
  <2>2. PICK r \in {NoRun, [at |-> "read", component |-> None]} :
          runs' = [runs EXCEPT ![s] = r] /\ (r.at = "read" => runs[s].at = "running")
    BY <1>5 DEF FinishRead, FinishLost, RunApart, NoRun
  <2>3. LibraryTypeOK' /\ RunApart'
    BY <1>2, <1>5, <2>1, <2>2 DEF LibraryTypeOK, RunApart, FinishRead, FinishLost, NoRun
  <2>4. Exclusive' /\ ReadsHold' /\ PinNeverDangles' /\ MembersBelong'
    BY <1>2, <2>1 DEF Exclusive, ReadsHold, Holds, AssignHolds, DeleteHolds, DropHolds, EditHolds,
                      Stored, Live, Member, PinNeverDangles, MembersBelong
  <2>5. QED
    BY <2>3, <2>4
<1>6. ASSUME NEW s \in Sweeps, NEW outcome \in {"completed", "failed"}, FinishSave(s, outcome)
      PROVE  LibraryInv'
  <2>1. runs[s].component = None /\ sweeps[s].state # "completed"
    BY <1>6 DEF FinishSave, RunApart
  <2>2. /\ sweeps' \in [Sweeps -> SweepRow]
        /\ \A t \in Sweeps : t # s => sweeps'[t] = sweeps[t]
    <3>1. sweeps' = [sweeps EXCEPT ![s].state = outcome, ![s].component = None]
      BY <1>6, <2>1 DEF FinishSave
    <3>2. outcome \in {"new", "running", "completed", "failed", "gone"}
      OBVIOUS
    <3>3. sweeps \in [Sweeps -> SweepRow]
      BY DEF LibraryTypeOK
    <3>4. QED
      BY ONLY <3>1, <3>2, <3>3, s \in Sweeps DEF SweepRow
  <2>3. /\ runs' \in [Sweeps -> [at : {"none", "running", "read"}, component : Components \cup {None}]]
        /\ \A t \in Sweeps : t # s => runs'[t] = runs[t]
        /\ runs'[s].at = "none"
    BY <1>6 DEF LibraryTypeOK, FinishSave, NoRun
  <2>4. LibraryTypeOK'
    BY <1>2, <1>6, <2>2, <2>3 DEF LibraryTypeOK, FinishSave
  <2>5. RunApart'
    BY <2>2, <2>3 DEF RunApart
  <2>6. PinNeverDangles' /\ MembersBelong'
    BY <1>1, <1>2, <1>6, <2>1, LooseSweepsKeep DEF FinishSave, LibraryTypeOK
  <2>7. QED
    BY <1>3, <1>6, <2>4, <2>5, <2>6 DEF FinishSave
<1>7. CASE Reconcile
  <2> DEFINE Failed == [s \in Sweeps |-> IF sweeps[s].state = "running"
                                         THEN [sweeps[s] EXCEPT !.state = "failed"] ELSE sweeps[s]]
  <2>1. sweeps \in [Sweeps -> SweepRow] /\ Failed \in [Sweeps -> SweepRow]
    BY DEF LibraryTypeOK, SweepRow
  <2>2. \A s \in Sweeps :
          /\ Failed[s].component = sweeps[s].component
          /\ sweeps[s].state # "running" => Failed[s] = sweeps[s]
          /\ sweeps[s].state = "running" => Failed[s].state \in {"running", "failed"}
    BY <2>1 DEF SweepRow
  <2>3. sweeps' = Failed \/ sweeps' = sweeps
    BY <1>7 DEF Reconcile
  <2> HIDE DEF Failed
  <2>4. /\ sweeps' \in [Sweeps -> SweepRow]
        /\ \A s \in Sweeps : /\ sweeps'[s].component = sweeps[s].component
                             /\ sweeps[s].state # "running" => sweeps'[s] = sweeps[s]
                             /\ sweeps[s].state = "running" => sweeps'[s].state \in {"running", "failed"}
    BY <2>1, <2>2, <2>3
  <2>5. LibraryTypeOK' /\ RunApart'
    BY <1>2, <1>7, <2>4 DEF LibraryTypeOK, RunApart, Reconcile
  <2>6. PinNeverDangles' /\ MembersBelong'
    BY <1>1, <1>2, <2>4, LooseSweepsKeep
  <2>7. QED
    BY <1>3, <1>7, <2>5, <2>6 DEF Reconcile
<1>8. QED
  BY <1>4, <1>5, <1>6, <1>7 DEF Tracer

\* What each request reads holds when it opens its transaction.
LEMMA RequestKeeps ==
  ASSUME SingleConn, LibraryInv, NEW h \in Handlers, Request(h)
  PROVE  LibraryInv'
<1> USE DEF LibraryInv
<1>1. ASSUME NEW s \in Sweeps, NEW c \in Components, OpenAssign(h, s, c) PROVE LibraryInv'
  <2> DEFINE t == [op |-> "assign", sweep |-> s, component |-> c, left |-> sweeps[s].component,
                   pin |-> IF components[c].ref = NoSweep THEN s ELSE NoSweep]
  <2>1. t \in Transaction
    BY DEF LibraryTypeOK, SweepRow, Transaction
  <2>2. Holds(t)
    BY <1>1 DEF OpenAssign, Holds, AssignHolds, Stored
  <2>3. QED
    BY <1>1, <2>1, <2>2, OpenKeeps DEF OpenAssign
<1>2. ASSUME NEW s \in Sweeps, OpenUnassign(h, s) \/ OpenDeleteSweep(h, s) PROVE LibraryInv'
  <2>1. PICK op \in {"assign", "delete"} :
          Stored(s) /\ Open(h, [Idle EXCEPT !.op = op, !.sweep = s, !.left = sweeps[s].component])
    BY <1>2 DEF OpenUnassign, OpenDeleteSweep
  <2> DEFINE t == [Idle EXCEPT !.op = op, !.sweep = s, !.left = sweeps[s].component]
  <2>2. t \in Transaction
    BY DEF LibraryTypeOK, SweepRow, Transaction, Idle
  <2>3. Holds(t)
    BY <2>1 DEF Holds, AssignHolds, DeleteHolds, Stored, Idle
  <2>4. QED
    BY <2>1, <2>2, <2>3, OpenKeeps
<1>3. ASSUME NEW c \in Components, OpenDeleteComponent(h, c) PROVE LibraryInv'
  <2> DEFINE t == [Idle EXCEPT !.op = "drop", !.component = c]
  <2>1. t \in Transaction /\ Holds(t)
    BY <1>3 DEF OpenDeleteComponent, Transaction, Idle, Holds, DropHolds
  <2>2. QED
    BY <1>3, <2>1, OpenKeeps DEF OpenDeleteComponent
<1>4. ASSUME NEW c \in Components, OpenEdit(h, c) PROVE LibraryInv'
  <2>1. PICK pin \in Eligible(c) \cup {NoSweep, components[c].ref} :
          Open(h, [Idle EXCEPT !.op = "edit", !.component = c, !.pin = pin])
    BY <1>4 DEF OpenEdit
  <2> DEFINE t == [Idle EXCEPT !.op = "edit", !.component = c, !.pin = pin]
  <2>2. pin \in Sweeps \cup {NoSweep}
    BY DEF Eligible, Members, LibraryTypeOK, ComponentRow
  <2>3. t \in Transaction
    BY <2>2 DEF Transaction, Idle
  <2>4. pin # NoSweep => Member(sweeps, pin, c) /\ Accepts(components[c].kind, sweeps[pin].type)
    BY <1>4 DEF Eligible, Members, PinNeverDangles, OpenEdit
  <2>5. Holds(t)
    BY <1>4, <2>4 DEF Holds, EditHolds, OpenEdit, Idle
  <2>6. QED
    BY <2>1, <2>3, <2>5, OpenKeeps
<1>5. ASSUME NEW c \in Components, NEW kind \in Types, CreateComponent(h, c, kind)
      PROVE  LibraryInv'
  BY <1>5, CreateComponentKeeps
<1>6. QED
  BY <1>1, <1>2, <1>3, <1>4, <1>5 DEF Request

LEMMA InitLibrary == LibraryInit => LibraryInv
<1> SUFFICES ASSUME LibraryInit PROVE LibraryInv
  OBVIOUS
<1>1. \A h \in Handlers : tx[h] = Idle
  BY DEF LibraryInit
<1>2. LibraryTypeOK
  BY DEF LibraryInit, LibraryTypeOK, SweepRow, ComponentRow, Transaction, Idle, NoRun
<1>3. PinNeverDangles /\ MembersBelong /\ RunApart
  BY DEF LibraryInit, PinNeverDangles, MembersBelong, RunApart, Live, NoRun
<1>4. Exclusive /\ ReadsHold
  BY <1>1 DEF Exclusive, ReadsHold, Holds, Idle
<1>5. QED
  BY <1>2, <1>3, <1>4 DEF LibraryInv

LEMMA NextLibrary ==
  ASSUME SingleConn, LibraryInv, [LibraryNext]_libraryVars
  PROVE  LibraryInv'
<1>1. CASE Restart
  <2>1. \A k \in Handlers : tx'[k] = Idle
    BY <1>1 DEF Restart
  <2>2. Exclusive' /\ ReadsHold'
    BY <2>1, IdleHolds DEF Exclusive, ReadsHold, Holds, Idle
  <2>3. QED
    BY <1>1, <2>2 DEF LibraryInv, Restart, LibraryTypeOK, PinNeverDangles, MembersBelong, RunApart, NoRun,
                      Idle, Transaction, Live, Member
<1>2. CASE UNCHANGED libraryVars
  BY <1>2 DEF libraryVars, LibraryInv, LibraryTypeOK, PinNeverDangles, MembersBelong, Exclusive, ReadsHold,
              RunApart, Holds, AssignHolds, DeleteHolds, DropHolds, EditHolds, Stored, Live, Member
<1>3. ASSUME NEW h \in Handlers, Commit(h) PROVE LibraryInv'
  BY <1>3, CommitAssignKeeps, CommitDeleteSweepKeeps, CommitDeleteComponentKeeps, CommitEditKeeps
  DEF Commit
<1>4. QED
  BY <1>1, <1>2, <1>3, RequestKeeps, TracerKeeps DEF LibraryNext

\* On SQLite the library is well typed, whatever is asked of it and in whatever order.
THEOREM LibraryTyped == ASSUME SingleConn PROVE LibrarySpec => []LibraryTypeOK
<1>1. LibraryInv /\ [LibraryNext]_libraryVars => LibraryInv'
  BY NextLibrary
<1>2. LibraryInv => LibraryTypeOK
  BY DEF LibraryInv
<1>3. QED
  BY InitLibrary, <1>1, <1>2, PTL DEF LibrarySpec

\* On SQLite a component's pin names a completed sweep that belongs to it, however
\* assignments, deletions, edits, runs and restarts interleave.
THEOREM PinsHold == ASSUME SingleConn PROVE LibrarySpec => []PinNeverDangles
<1>1. LibraryInv /\ [LibraryNext]_libraryVars => LibraryInv'
  BY NextLibrary
<1>2. LibraryInv => PinNeverDangles
  BY DEF LibraryInv
<1>3. QED
  BY InitLibrary, <1>1, <1>2, PTL DEF LibrarySpec

\* On SQLite a sweep that belongs to a component is completed, the component exists
\* and accepts its kind.
THEOREM MembersHold == ASSUME SingleConn PROVE LibrarySpec => []MembersBelong
<1>1. LibraryInv /\ [LibraryNext]_libraryVars => LibraryInv'
  BY NextLibrary
<1>2. LibraryInv => MembersBelong
  BY DEF LibraryInv
<1>3. QED
  BY InitLibrary, <1>1, <1>2, PTL DEF LibrarySpec
\* On SQLite a reference moves only by an edit, or because the sweep it named is lost,
\* and then to the newest member left.
THEOREM RefStays == ASSUME SingleConn PROVE LibrarySpec => RefMovesOnlyWhenLost
<1> DEFINE Moves ==
      \A c \in Components :
        LET old == components[c].ref
            new == components'[c].ref
        IN /\ Live(c) /\ components'[c].state = "live"
           /\ old # NoSweep /\ new # old
           => \/ \E h \in Handlers : tx[h].op = "edit" /\ tx[h].component = c
              \/ ~Member(sweeps', old, c) /\ new = Newest(sweeps', c)
<1>1. ASSUME LibraryInv, [LibraryNext]_libraryVars PROVE Moves
  <2> SUFFICES ASSUME NEW c \in Components, Live(c), components'[c].state = "live",
                      components[c].ref # NoSweep, components'[c].ref # components[c].ref
               PROVE  \/ \E h \in Handlers : tx[h].op = "edit" /\ tx[h].component = c
                      \/ /\ ~Member(sweeps', components[c].ref, c)
                         /\ components'[c].ref = Newest(sweeps', c)
    BY ZenonT(60)
  <2>1. PICK h \in Handlers : \/ CommitAssign(h) \/ CommitDeleteSweep(h)
                              \/ CommitDeleteComponent(h) \/ CommitEdit(h)
                              \/ \E d \in Components, kind \in Types : CreateComponent(h, d, kind)
    BY <1>1 DEF LibraryNext, libraryVars, Request, OpenAssign, OpenUnassign, OpenDeleteSweep, OpenDeleteComponent,
                OpenEdit, Open, Commit, Tracer, BeginSweep, FinishRead, FinishSave, FinishLost,
                Reconcile, Restart
  <2>2. CASE CommitAssign(h)
    <3> DEFINE t == tx[h]
               C == IF t.pin = NoSweep THEN components
                    ELSE [components EXCEPT ![t.component].ref = t.pin]
    <3>1. t.pin # NoSweep => t.component # c /\ t.component \in Components
      BY <1>1, <2>2 DEF CommitAssign, LibraryInv, LibraryTypeOK, ReadsHold, Holds, AssignHolds, Transaction
    <3>2. C[c] = components[c]
      BY <1>1, <3>1 DEF LibraryInv, LibraryTypeOK
    <3>3. components' = Refix(sweeps', C, t.left)
      BY <2>2, <3>2 DEF CommitAssign
    <3>4. C \in [Components -> ComponentRow]
      BY <1>1, <2>2, <3>1 DEF LibraryInv, LibraryTypeOK, ComponentRow, CommitAssign, Transaction
    <3> HIDE DEF C, t
    <3>5. QED
      BY <3>2, <3>3, <3>4 DEF Refix
  <2>3. CASE CommitDeleteSweep(h)
    <3>1. components' = Refix(sweeps', components, tx[h].left)
      BY <2>3 DEF CommitDeleteSweep
    <3>2. QED
      BY <1>1, <3>1 DEF Refix, LibraryInv, LibraryTypeOK, ComponentRow
  <2>4. CASE CommitDeleteComponent(h)
    BY <1>1, <2>4 DEF CommitDeleteComponent, LibraryInv, LibraryTypeOK, ComponentRow
  <2>5. CASE CommitEdit(h)
    <3>1. tx[h].op = "edit" /\ tx[h].component = c
      BY <1>1, <2>5 DEF CommitEdit, LibraryInv, LibraryTypeOK, ComponentRow
    <3>2. QED
      BY <3>1
  <2>6. CASE \E d \in Components, kind \in Types : CreateComponent(h, d, kind)
    BY <1>1, <2>6 DEF CreateComponent, LibraryInv, LibraryTypeOK, ComponentRow, Live
  <2>7. QED
    BY <2>1, <2>2, <2>3, <2>4, <2>5, <2>6
<1>2. LibraryInv /\ [LibraryNext]_libraryVars => LibraryInv'
  BY NextLibrary
<1>3. LibraryInv /\ [LibraryNext]_libraryVars => [Moves]_libraryVars
  BY <1>1
<1>4. QED
  BY InitLibrary, <1>2, <1>3, PTL DEF LibrarySpec, RefMovesOnlyWhenLost
=============================================================================
