--------------------------- MODULE ChargeRun_proofs ---------------------------
(***************************************************************************)
(* Theorems about ChargeRun, for every plan, timeout, hold and bound: type *)
(* correctness, that the full current waits for the precharge to get       *)
(* there, that a completed charge has tapered for as long as it must, that *)
(* the CC onset is captured on the second tick of its own phase, and that  *)
(* a battery gets no more than the cap and what flows while the run is     *)
(* blind.                                                                  *)
(***************************************************************************)
EXTENDS ChargeRun, TLAPS

Update == TickUpdate \cup {TripEvent}

\* A compiled plan has two phases.
LEMMA PlanShape ==
  ASSUME TypeOK
  PROVE  /\ DOMAIN plan = 1 .. 2 /\ Len(plan) = 2 /\ idx \in 1 .. 2
         /\ Head(plan) = plan[1] /\ Kind \in {"precharge", "main", "float"}
         /\ Kind = "precharge" <=> idx = 1 /\ Head(plan) = "precharge"
         /\ idx = 1 /\ Kind = "main" <=> Head(plan) = "main" /\ idx = 1
  BY PlansAssumption DEF TypeOK, Kind

LEMMA CapBounds ==
  ASSUME NEW n \in Nat, NEW top \in Nat
  PROVE  /\ Cap(n, top) \in 0 .. top
         /\ Cap(n, top) <= n
         /\ n <= top => Cap(n, top) = n
  BY DEF Cap

\* What waits in the subscription is a tick, unless it says that the protection tripped.
LEMMA HeadIsUpdate ==
  ASSUME TypeOK, queue # <<>>
  PROVE  /\ Head(queue) \in Update /\ Tail(queue) \in Seq(Update)
         /\ ~Head(queue).trip => /\ Head(queue).cap \in Nat
                                 /\ Head(queue).dt \in 1 .. Longest + 1
  <1>1. queue \in Seq(Update)
    BY DEF TypeOK, Update
  <1>2. Head(queue) \in Update /\ Tail(queue) \in Seq(Update)
    BY <1>1, queue # <<>>
  <1>3. TripEvent.trip
    BY DEF TripEvent
  <1> QED
    BY <1>2, <1>3 DEF Update, TickUpdate

\* The pieces of a tick keep the type of the run's state.
LEMMA RunStateKept ==
  ASSUME TypeOK, NEW t, t.cap \in Nat, t.dt \in 1 .. Longest + 1, NEW cc \in BOOLEAN
  PROVE  /\ Aged(t) \in RunState
         /\ \A s \in RunState : /\ [s EXCEPT !.last = t.cap] \in RunState
                                /\ Onset(s, t, cc) \in RunState
                                /\ Hold(s, t) \in RunState
                                /\ NewPhase(s) \in RunState
  <1>0. Longest \in Nat /\ TaperHold \in Nat
    BY TimesAssumption
  <1>1. Aged(t) \in RunState
    <2>1. r \in RunState
      BY DEF TypeOK
    <2>2. r.age + t.dt \in Nat /\ r.held + t.dt \in Nat
      BY <1>0, <2>1 DEF RunState
    <2>3. Cap(r.age + t.dt, Longest) \in 0 .. Longest
      BY <1>0, <2>2, CapBounds
    <2>4. Cap(r.held + t.dt, TaperHold) \in 0 .. TaperHold
      BY <1>0, <2>2, CapBounds
    <2> DEFINE base == IF r.haveBase THEN r.base ELSE t.cap
               last == IF r.haveBase THEN r.last ELSE t.cap
               age == IF r.started THEN Cap(r.age + t.dt, Longest) ELSE 0
               held == IF r.holding THEN Cap(r.held + t.dt, TaperHold) ELSE 0
    <2>5. base \in Nat /\ last \in Nat
      BY <2>1 DEF RunState
    <2>6. age \in 0 .. Longest /\ held \in 0 .. TaperHold
      BY <1>0, <2>3, <2>4
    <2> HIDE DEF base, last, age, held
    <2>7. Aged(t) = [r EXCEPT !.haveBase = TRUE, !.base = base, !.last = last,
                              !.started = TRUE, !.age = age, !.held = held]
      BY DEF Aged, base, last, age, held
    <2> QED
      BY <2>1, <2>5, <2>6, <2>7, ZenonT(60) DEF RunState
  <1>2. ASSUME NEW s \in RunState
        PROVE  Onset(s, t, cc) \in RunState
    <2>1. s.high + 1 \in Nat
      BY DEF RunState
    <2>2. Cap(s.high + 1, 2) \in 0 .. 2
      BY <2>1, CapBounds
    <2> DEFINE up == Cap(s.high + 1, 2)
               high == IF Kind # "main" \/ t.current # "high" THEN 0 ELSE up
    <2>3. high \in 0 .. 2
      BY <2>2
    <2> HIDE DEF high
    <2>4. Onset(s, t, cc) = IF s.captured THEN s
                            ELSE [s EXCEPT !.high = high, !.captured = (high = 2 /\ cc)]
      BY DEF Onset, high
    <2>5. (high = 2 /\ cc) \in BOOLEAN
      OBVIOUS
    <2> QED
      BY <2>3, <2>4, <2>5 DEF RunState
  <1>3. ASSUME NEW s \in RunState
        PROVE  /\ [s EXCEPT !.last = t.cap] \in RunState
               /\ Hold(s, t) \in RunState /\ NewPhase(s) \in RunState
    <2>1. [s EXCEPT !.last = t.cap] \in RunState
      BY <1>0 DEF RunState
    <2>0. 0 \in 0 .. TaperHold /\ 0 \in 0 .. Longest
      BY <1>0
    <2>2. Hold(s, t) \in RunState
      <3>1. [s EXCEPT !.holding = TRUE] \in RunState
        BY DEF RunState
      <3>2. [s EXCEPT !.holding = FALSE, !.held = 0] \in RunState
        BY <2>0 DEF RunState
      <3> QED
        BY <3>1, <3>2 DEF Hold
    <2>3. NewPhase(s) \in RunState
      BY <2>0 DEF NewPhase, RunState
    <2> QED
      BY <2>1, <2>2, <2>3
  <1> QED
    BY <1>1, <1>2, <1>3

(***************************************************************************)
(* A tick, taken apart once for all the proofs below.                      *)
(***************************************************************************)
\* What a tick with these readings does to the run: t, the state s it starts from and
\* the state n if no fault is found.
Reading(volts, current) == [cap |-> Head(queue).cap, dt |-> Head(queue).dt, volts |-> volts,
                            current |-> current]
Observed(t, cc) == Hold(Onset([Aged(t) EXCEPT !.last = t.cap], t, cc), t)
Ends(t, cc) ==
  \/ /\ Envelope(Aged(t), t) # "none" /\ EndWith(Envelope(Aged(t), t))
     /\ r' = Aged(t) /\ UNCHANGED idx
  \/ /\ Envelope(Aged(t), t) = "none" /\ PhaseOver(Observed(t, cc), t)
     /\ NextPhase(Observed(t, cc))
  \/ /\ Envelope(Aged(t), t) = "none" /\ ~PhaseOver(Observed(t, cc), t)
     /\ r' = Observed(t, cc) /\ UNCHANGED <<idx, at, reason>>
Notes(t) ==
  /\ reached' = (reached \/ (Kind = "precharge" /\ t.volts # "low"))
  /\ taper' = IF ~Tapers(t) THEN 0 ELSE IF taper = 0 THEN 1
              ELSE Cap(taper + t.dt, TaperHold + 1)
  /\ brisk' = (Kind = "main" /\ t.current = "high" /\ ~r.captured)

LEMMA TickTaken ==
  ASSUME TypeOK, TakesTick
  PROVE  \E volts \in Volts, current \in Current, cc \in BOOLEAN :
           LET t == Reading(volts, current)
           IN /\ t.cap \in Nat /\ t.dt \in 1 .. Longest + 1
              /\ t.volts = volts /\ t.current = current
              /\ Ends(t, cc) /\ Notes(t)
  <1>1. Head(queue).cap \in Nat /\ Head(queue).dt \in 1 .. Longest + 1
    BY HeadIsUpdate DEF TakesTick
  <1>2. PICK volts \in Volts, current \in Current, cc \in BOOLEAN :
          LET t == Reading(volts, current) IN Ends(t, cc) /\ Notes(t)
    BY SMTT(30) DEF TakesTick, Reading, Ends, Observed, Notes
  <1> WITNESS volts \in Volts, current \in Current, cc \in BOOLEAN
  <1> QED
    BY <1>1, <1>2 DEF Reading

LEMMA TickStates ==
  ASSUME TypeOK, NEW t, t.cap \in Nat, t.dt \in 1 .. Longest + 1, NEW cc \in BOOLEAN
  PROVE  Aged(t) \in RunState /\ Observed(t, cc) \in RunState
  <1>1. Aged(t) \in RunState
    BY RunStateKept
  <1>2. [Aged(t) EXCEPT !.last = t.cap] \in RunState
    BY <1>1, RunStateKept
  <1>3. Onset([Aged(t) EXCEPT !.last = t.cap], t, cc) \in RunState
    BY <1>2, RunStateKept
  <1> QED
    BY <1>1, <1>3, RunStateKept DEF Observed

(***************************************************************************)
(* Type correctness.                                                       *)
(***************************************************************************)
LEMMA TypeInit == Init => TypeOK
  <1> SUFFICES ASSUME Init PROVE TypeOK
    OBVIOUS
  <1>1. plan \in Plans /\ idx \in DOMAIN plan
    BY PlansAssumption DEF Init
  <1>2. r \in RunState
    BY TimesAssumption DEF Init, NewRun, RunState
  <1>3. queue \in Seq(TickUpdate \cup {TripEvent})
    BY DEF Init
  <1>4. /\ silent \in 0 .. Stale /\ lag \in 0 .. Longest /\ faults \in 0 .. MaxFaults
        /\ taper \in 0 .. TaperHold + 1
    BY TimesAssumption DEF Init
  <1>5. reason = "none" <=> Running
    BY DEF Init, Running
  <1>6. /\ {counter, given} \subseteq Nat /\ cached \in [cap : Nat, trip : BOOLEAN]
        /\ amps \in {"trickle", "full"}
    BY DEF Init, Full
  <1> QED
    BY <1>1, <1>2, <1>3, <1>4, <1>5, <1>6 DEF Init, TypeOK

\* The run's own part of the type: a step that keeps it and the rest keeps all.
RunTypes ==
  /\ idx \in DOMAIN plan /\ r \in RunState
  /\ at \in {"setVoltage", "setCurrent", "wait", "cut", "ended"}
  /\ reason = "none" <=> Running

LEMMA EndTypes ==
  ASSUME NEW why, EndWith(why), why # "none"
  PROVE  /\ at' = "cut" /\ reason' = why
         /\ ~Running' /\ (reason = "none" <=> Running)'
  BY DEF EndWith, Running

LEMMA TickTypes ==
  ASSUME TypeOK, TakesTick
  PROVE  RunTypes' /\ reached' \in BOOLEAN /\ taper' \in 0 .. TaperHold + 1 /\ brisk' \in BOOLEAN
  <1>1. PICK volts \in Volts, current \in Current, cc \in BOOLEAN :
          LET t == Reading(volts, current)
          IN /\ t.cap \in Nat /\ t.dt \in 1 .. Longest + 1
             /\ t.volts = volts /\ t.current = current
             /\ Ends(t, cc) /\ Notes(t)
    BY TickTaken
  <1> DEFINE t == Reading(volts, current)
             s == Aged(t)
             n == Observed(t, cc)
  <1>2. t.cap \in Nat /\ t.dt \in 1 .. Longest + 1 /\ Ends(t, cc) /\ Notes(t)
    BY <1>1
  <1> HIDE DEF t
  <1>3. s \in RunState /\ n \in RunState
    BY <1>2, TickStates
  <1> HIDE DEF s, n
  <1>4. /\ at = "wait" /\ plan' = plan /\ idx \in DOMAIN plan /\ reason = "none"
    BY DEF TakesTick, TypeOK, Running
  <1>5. RunTypes'
    <2>1. CASE /\ Envelope(s, t) # "none" /\ EndWith(Envelope(s, t))
               /\ r' = s /\ UNCHANGED idx
      BY <1>3, <1>4, <2>1, EndTypes DEF RunTypes
    <2>2. CASE NextPhase(n)
      <3>1. CASE idx = Len(plan)
        <4>1. EndWith("complete") /\ r' = n /\ idx' = idx
          BY <2>2, <3>1 DEF NextPhase
        <4> QED
          BY <1>3, <1>4, <4>1, EndTypes DEF RunTypes
      <3>2. CASE idx # Len(plan)
        <4>1. idx' = idx + 1 /\ at' = "setVoltage" /\ r' = NewPhase(n) /\ reason' = reason
          BY <2>2, <3>2 DEF NextPhase
        <4>2. idx' \in DOMAIN plan
          BY <3>2, <4>1, PlanShape
        <4>3. NewPhase(n) \in RunState
          BY <1>2, <1>3, RunStateKept
        <4> QED
          BY <1>4, <4>1, <4>2, <4>3 DEF RunTypes, Running
      <3> QED
        BY <3>1, <3>2
    <2>3. CASE r' = n /\ UNCHANGED <<idx, at, reason>>
      BY <1>3, <1>4, <2>3 DEF RunTypes, Running
    <2> QED
      BY <1>2, <2>1, <2>2, <2>3 DEF Ends, s, n
  <1>6. taper' \in 0 .. TaperHold + 1
    <2>1. taper + t.dt \in Nat /\ TaperHold + 1 \in Nat /\ TaperHold \in Nat /\ Longest \in Nat
      BY <1>2, TimesAssumption DEF TypeOK
    <2>2. Cap(taper + t.dt, TaperHold + 1) \in 0 .. TaperHold + 1
      BY <2>1, CapBounds
    <2> QED
      BY <1>2, <2>1, <2>2 DEF Notes
  <1>7. reached' \in BOOLEAN /\ brisk' \in BOOLEAN
    BY <1>2 DEF Notes, TypeOK
  <1> QED
    BY <1>5, <1>6, <1>7

\* The device's, the link's and the user's steps.
LEMMA QueueTypes ==
  ASSUME TypeOK
  PROVE  /\ Append(queue, TripEvent) \in Seq(Update)
         /\ \A trip \in BOOLEAN, cap \in Nat, dt \in 1 .. Longest + 1 :
              Append(queue, [trip |-> trip, cap |-> cap, dt |-> dt]) \in Seq(Update)
  <1>1. queue \in Seq(Update)
    BY DEF TypeOK, Update
  <1>2. TripEvent \in Update
    BY DEF Update
  <1>3. \A trip \in BOOLEAN, cap \in Nat, dt \in 1 .. Longest + 1 :
          [trip |-> trip, cap |-> cap, dt |-> dt] \in Update
    BY DEF Update, TickUpdate
  <1> QED
    BY <1>1, <1>2, <1>3

LEMMA DumpTypes ==
  ASSUME TypeOK, Dumped
  PROVE  cached' \in [cap : Nat, trip : BOOLEAN] /\ queue' \in Seq(Update)
  <1>1. queue \in Seq(Update)
    BY DEF TypeOK, Update
  <1> QED
    BY <1>1, QueueTypes DEF Dumped, TypeOK

\* What no step of the run touches.
WorldTypes ==
  /\ silent \in 0 .. Stale /\ lag \in 0 .. Longest /\ cancelled \in BOOLEAN
  /\ queue \in Seq(Update) /\ cached \in [cap : Nat, trip : BOOLEAN]
  /\ conn \in {"up", "silent", "lost"}
  /\ output \in {"on", "off", "tripped"} /\ {counter, given} \subseteq Nat
  /\ faults \in 0 .. MaxFaults

LEMMA PeriodTypes ==
  ASSUME TypeOK, Period
  PROVE  WorldTypes'
  <1>1. PICK flow \in {0, 1} : counter' = counter + flow /\ given' = given + flow
    BY DEF Period
  <1>2. counter' \in Nat /\ given' \in Nat
    BY <1>1, SMTT(30) DEF TypeOK
  <1>3. silent' \in 0 .. Stale
    <2>1. silent \in 0 .. Stale /\ Stale \in Nat
      BY TimesAssumption DEF TypeOK
    <2>2. silent < Stale /\ silent' = silent + 1
      BY DEF Period
    <2> QED
      BY <2>1, <2>2
  <1>4. lag' \in 0 .. Longest
    <2>1. lag + 1 \in Nat /\ Longest \in Nat
      BY TimesAssumption DEF TypeOK
    <2>2. Cap(lag + 1, Longest) \in 0 .. Longest /\ 0 \in 0 .. Longest
      BY <2>1, CapBounds
    <2> QED
      BY <2>2 DEF Period
  <1>5. queue' \in Seq(Update)
    <2>1. lag + 1 \in 1 .. Longest + 1 /\ cached.trip \in BOOLEAN /\ cached.cap \in Nat
      BY TimesAssumption DEF TypeOK
    <2>2. queue \in Seq(Update)
      BY DEF TypeOK, Update
    <2> QED
      BY <2>1, <2>2, QueueTypes, ZenonT(60) DEF Period
  <1>6. cached' \in [cap : Nat, trip : BOOLEAN]
    BY <1>2 DEF Period, TypeOK
  <1> QED
    BY <1>2, <1>3, <1>4, <1>5, <1>6 DEF Period, WorldTypes, TypeOK

LEMMA EnvironmentTypes ==
  ASSUME TypeOK, Environment
  PROVE  WorldTypes' /\ UNCHANGED <<plan, at, locals, observed>> /\ amps' = amps
  <1> USE DEF device, hub
  <1>0. WorldTypes
    BY DEF TypeOK, WorldTypes, Update
  <1>1. CASE Period
    BY <1>1, PeriodTypes DEF Period
  <1>2. CASE Trip
    <2>1. queue' \in Seq(Update) /\ cached' \in [cap : Nat, trip : BOOLEAN]
      BY <1>0, <1>2, QueueTypes DEF Trip, WorldTypes
    <2> QED
      BY <1>0, <1>2, <2>1 DEF Trip, WorldTypes
  <1>3. CASE Refresh
    BY <1>0, <1>3, DumpTypes DEF Refresh, WorldTypes
  <1>4. CASE LinkFails
    BY <1>0, <1>4, TimesAssumption DEF LinkFails, WorldTypes
  <1>5. CASE Resumes
    <2>1. queue' \in Seq(Update) /\ cached' \in [cap : Nat, trip : BOOLEAN]
      BY <1>0, <1>5, DumpTypes DEF Resumes, WorldTypes
    <2> QED
      BY <1>0, <1>5, <2>1 DEF Resumes, WorldTypes
  <1>6. CASE PowerCycle
    BY <1>0, <1>6, TimesAssumption DEF PowerCycle, WorldTypes
  <1>7. CASE Panel
    BY <1>0, <1>7 DEF Panel, WorldTypes
  <1>8. CASE Cancel
    BY <1>0, <1>8 DEF Cancel, WorldTypes
  <1> QED
    BY <1>1, <1>2, <1>3, <1>4, <1>5, <1>6, <1>7, <1>8 DEF Environment

LEMMA RunStepTypes ==
  ASSUME TypeOK, Step
  PROVE  WorldTypes' /\ RunTypes' /\ plan' = plan /\ amps' \in {"trickle", "full"}
         /\ reached' \in BOOLEAN /\ taper' \in 0 .. TaperHold + 1 /\ brisk' \in BOOLEAN
  <1> USE DEF device, hub, observed
  <1>0. WorldTypes /\ RunTypes
    BY DEF TypeOK, WorldTypes, RunTypes, Update
  <1>1. /\ reached \in BOOLEAN /\ taper \in 0 .. TaperHold + 1
        /\ brisk \in BOOLEAN /\ amps \in {"trickle", "full"} /\ Full(Kind) \in {"trickle", "full"}
        /\ 0 \in 0 .. Stale
    BY TimesAssumption DEF TypeOK, Full
  <1>2. CASE SetVoltage
    <2>1. RunTypes'
      BY <1>0, <1>2, EndTypes DEF SetVoltage, RunTypes, Running
    <2> QED
      BY <1>0, <1>1, <1>2, <2>1 DEF SetVoltage, WorldTypes
  <1>3. CASE SetCurrent
    <2>1. RunTypes'
      BY <1>0, <1>3, EndTypes DEF SetCurrent, RunTypes, Running
    <2> QED
      BY <1>0, <1>1, <1>3, <2>1 DEF SetCurrent, WorldTypes
  <1>4. CASE GoesStale
    <2>1. RunTypes'
      BY <1>0, <1>4, EndTypes DEF GoesStale, RunTypes
    <2> QED
      BY <1>0, <1>1, <1>4, <2>1 DEF GoesStale, WorldTypes
  <1>5. CASE TakesTrip
    <2>1. RunTypes'
      BY <1>0, <1>5, EndTypes DEF TakesTrip, RunTypes
    <2>2. queue' \in Seq(Update)
      BY <1>5, HeadIsUpdate DEF TakesTrip
    <2> QED
      BY <1>0, <1>1, <1>5, <2>1, <2>2 DEF TakesTrip, WorldTypes
  <1>6. CASE TakesTick
    <2>1. queue' \in Seq(Update)
      BY <1>6, HeadIsUpdate DEF TakesTick
    <2>2. WorldTypes' /\ plan' = plan /\ amps' = amps
      BY <1>0, <1>1, <1>6, <2>1 DEF TakesTick, WorldTypes
    <2> QED
      BY <1>1, <1>6, <2>2, TickTypes
  <1>7. CASE Aborts
    <2>1. RunTypes'
      BY <1>0, <1>7, EndTypes DEF Aborts, RunTypes
    <2> QED
      BY <1>0, <1>1, <1>7, <2>1 DEF Aborts, WorldTypes
  <1>8. CASE CutOutput
    <2>1. RunTypes'
      BY <1>0, <1>8 DEF CutOutput, RunTypes, Running
    <2> QED
      BY <1>0, <1>1, <1>8, <2>1 DEF CutOutput, WorldTypes
  <1> QED
    BY <1>2, <1>3, <1>4, <1>5, <1>6, <1>7, <1>8 DEF Step, Receive

LEMMA TypeStep == TypeOK /\ [Next]_vars => TypeOK'
  <1> SUFFICES ASSUME TypeOK, [Next]_vars PROVE TypeOK'
    OBVIOUS
  <1>1. CASE Environment
    BY <1>1, EnvironmentTypes DEF TypeOK, WorldTypes, Update, locals, observed, Running
  <1>2. CASE Step
    BY <1>2, RunStepTypes DEF TypeOK, WorldTypes, RunTypes, Update
  <1>3. CASE UNCHANGED vars
    BY <1>3 DEF TypeOK, vars, Running
  <1> QED
    BY <1>1, <1>2, <1>3 DEF Next

\* Every variable of a charge keeps its type, whatever the plan and the times are.
THEOREM ChargeTyped == Spec => []TypeOK
  <1> QED
    BY TypeInit, TypeStep, PTL DEF Spec

(***************************************************************************)
(* The full current waits for the precharge.                               *)
(***************************************************************************)
\* Past the precharge means that a tick was at its threshold.
TrickleInv == TrickleFirst /\ (idx = 2 => Head(plan) = "main" \/ reached)

LEMMA TrickleTick ==
  ASSUME TypeOK, TrickleInv, TakesTick
  PROVE  TrickleInv'
  <1>1. PICK volts \in Volts, current \in Current, cc \in BOOLEAN :
          LET t == Reading(volts, current) IN Ends(t, cc) /\ Notes(t)
    BY TickTaken
  <1> DEFINE t == Reading(volts, current)
  <1>2. Ends(t, cc) /\ Notes(t)
    BY <1>1
  <1> HIDE DEF t
  <1>3. plan' = plan /\ amps' = amps /\ (reached => reached')
    BY <1>2 DEF TakesTick, Notes, device
  <1>4. idx' = 2 => Head(plan) = "main" \/ reached'
    <2>1. CASE idx' = idx
      BY <1>3, <2>1 DEF TrickleInv
    <2>2. CASE idx' # idx
      <3>1. PhaseOver(Observed(t, cc), t)
        BY <1>2, <2>2 DEF Ends
      <3>2. idx # Len(plan) /\ idx = 1
        BY <1>2, <2>2, PlanShape DEF Ends, NextPhase
      <3>3. Kind = "precharge" => t.volts # "low"
        BY <3>1 DEF PhaseOver
      <3>4. Kind = "precharge" \/ Head(plan) = "main"
        BY <3>1, <3>2, PlanShape DEF PhaseOver
      <3> QED
        BY <1>2, <3>3, <3>4 DEF Notes
    <2> QED
      BY <2>1, <2>2
  <1> QED
    BY <1>3, <1>4 DEF TrickleInv, TrickleFirst

LEMMA TrickleStep == TypeOK /\ TrickleInv /\ [Next]_vars => TrickleInv'
  <1> SUFFICES ASSUME TypeOK, TrickleInv, [Next]_vars PROVE TrickleInv'
    OBVIOUS
  <1> USE DEF device, observed, locals
  <1>1. CASE Environment
    BY <1>1, EnvironmentTypes DEF TrickleInv, TrickleFirst
  <1>2. CASE SetCurrent
    <2>1. UNCHANGED <<plan, idx, reached>> /\ (amps' = amps \/ amps' = Full(Kind))
      BY <1>2 DEF SetCurrent
    <2>2. Full(Kind) = "full" => Head(plan) = "main" \/ idx = 2
      BY PlanShape, PlansAssumption DEF Full, TypeOK
    <2> QED
      BY <2>1, <2>2 DEF TrickleInv, TrickleFirst
  <1>3. CASE TakesTick
    BY <1>3, TrickleTick
  <1>4. CASE SetVoltage \/ GoesStale \/ TakesTrip \/ Aborts \/ CutOutput
    BY <1>4 DEF SetVoltage, GoesStale, TakesTrip, Aborts, CutOutput, TrickleInv, TrickleFirst
  <1>5. CASE UNCHANGED vars
    BY <1>5 DEF vars, TrickleInv, TrickleFirst
  <1> QED
    BY <1>1, <1>2, <1>3, <1>4, <1>5 DEF Next, Step, Receive

\* A pack that starts below the precharge threshold never gets the full current before a
\* tick at that threshold, whatever the device, the link and the user do.
THEOREM TrickleHolds == Spec => []TrickleFirst
  <1>1. Init => TrickleInv
    BY PlansAssumption DEF Init, TrickleInv, TrickleFirst, Full
  <1>2. TrickleInv => TrickleFirst
    BY DEF TrickleInv
  <1> QED
    BY <1>1, <1>2, TypeInit, TypeStep, TrickleStep, PTL DEF Spec

(***************************************************************************)
(* A completed charge has tapered.                                         *)
(***************************************************************************)
\* A hold under way is as old as the taper observed; a run that is complete ended so.
TaperInv ==
  /\ Running /\ r.holding => taper >= 1 /\ r.held <= taper - 1
  /\ reason = "complete" => Kind = "main" /\ taper > TaperHold

LEMMA TaperTick ==
  ASSUME TypeOK, TaperInv, TakesTick
  PROVE  TaperInv'
  <1>1. PICK volts \in Volts, current \in Current, cc \in BOOLEAN :
          LET t == Reading(volts, current)
          IN /\ t.cap \in Nat /\ t.dt \in 1 .. Longest + 1
             /\ t.volts = volts /\ t.current = current
             /\ Ends(t, cc) /\ Notes(t)
    BY TickTaken
  <1> DEFINE t == Reading(volts, current)
             s == Aged(t)
             n == Observed(t, cc)
  <1>2. t.cap \in Nat /\ t.dt \in 1 .. Longest + 1 /\ Ends(t, cc) /\ Notes(t)
    BY <1>1
  <1> HIDE DEF t
  <1>3. s \in RunState /\ n \in RunState
    BY <1>2, TickStates
  <1>4. /\ TaperHold \in Nat /\ Longest \in Nat /\ taper \in 0 .. TaperHold + 1
        /\ r.held \in 0 .. TaperHold /\ r \in RunState /\ t.dt \in Nat
    BY <1>2, TimesAssumption, SMTT(30) DEF TypeOK, RunState
  <1>5. at = "wait" /\ plan' = plan /\ Running /\ reason = "none"
    BY DEF TakesTick, TypeOK, Running
  <1>6. n.holding = (Tapers(t)) /\ (Tapers(t) => n.held = s.held)
    <2> DEFINE o == Onset([s EXCEPT !.last = t.cap], t, cc)
    <2>1. [s EXCEPT !.last = t.cap] \in RunState
      BY <1>2, <1>3, RunStateKept
    <2>2. o \in RunState
      BY <1>2, <2>1, RunStateKept
    <2>3. o.held = s.held
      BY <1>3, <2>1 DEF Onset, RunState
    <2> HIDE DEF o
    <2>4. n = Hold(o, t)
      BY DEF Observed, o
    <2>5. Tapers(t) \in BOOLEAN
      BY DEF Tapers
    <2> QED
      BY <2>2, <2>3, <2>4, <2>5 DEF Hold, RunState
  <1>7. s.held = IF r.holding THEN Cap(r.held + t.dt, TaperHold) ELSE 0
    BY <1>4 DEF Aged, RunState
  <1>8. Tapers(t) => taper' >= 1 /\ n.held <= taper' - 1
    <2> SUFFICES ASSUME Tapers(t) PROVE taper' >= 1 /\ s.held <= taper' - 1
      BY <1>6
    <2>1. taper' = IF taper = 0 THEN 1 ELSE Cap(taper + t.dt, TaperHold + 1)
      BY <1>2 DEF Notes
    <2>2. CASE r.holding
      <3>1. taper >= 1 /\ r.held <= taper - 1
        BY <1>5, <2>2 DEF TaperInv
      <3>2. taper' = Cap(taper + t.dt, TaperHold + 1) /\ s.held = Cap(r.held + t.dt, TaperHold)
        BY <1>4, <1>7, <2>1, <2>2, <3>1
      <3> QED
        BY <1>4, <3>1, <3>2, <1>2 DEF Cap
    <2>3. CASE ~r.holding
      <3>1. s.held = 0
        BY <1>7, <2>3
      <3> QED
        BY <1>2, <1>4, <2>1, <3>1 DEF Cap
    <2> QED
      BY <2>2, <2>3
  <1> HIDE DEF s, n
  <1>9. CASE Envelope(s, t) # "none" /\ EndWith(Envelope(s, t))
    <2>1. Envelope(s, t) # "complete"
      BY DEF Envelope
    <2> QED
      BY <1>9, <2>1 DEF EndWith, TaperInv, Running
  <1>10. CASE PhaseOver(n, t) /\ NextPhase(n)
    <2>1. CASE idx = Len(plan)
      <3>1. EndWith("complete") /\ idx' = idx
        BY <1>10, <2>1 DEF NextPhase
      <3>2. Kind = "main"
        BY <1>10, <2>1, PlanShape DEF PhaseOver
      <3>3. n.holding /\ n.held >= TaperHold
        BY <1>10, <3>2 DEF PhaseOver
      <3>4. n.held \in 0 .. TaperHold /\ taper' \in 0 .. TaperHold + 1
        BY <1>3, TickTypes DEF RunState
      <3>5. taper' > TaperHold
        BY <1>4, <1>6, <1>8, <3>3, <3>4
      <3>6. Kind' = "main"
        BY <1>5, <3>1, <3>2 DEF Kind
      <3> QED
        BY <3>1, <3>5, <3>6 DEF EndWith, TaperInv, Running
    <2>2. CASE idx # Len(plan)
      <3>1. r' = NewPhase(n) /\ reason' = reason
        BY <1>10, <2>2 DEF NextPhase
      <3>2. ~r'.holding
        BY <1>3, <3>1 DEF NewPhase, RunState
      <3> QED
        BY <1>5, <3>1, <3>2 DEF TaperInv
    <2> QED
      BY <2>1, <2>2
  <1>11. CASE r' = n /\ reason' = reason
    BY <1>5, <1>6, <1>8, <1>11 DEF TaperInv
  <1> QED
    BY <1>2, <1>9, <1>10, <1>11 DEF Ends, s, n

LEMMA TaperStep == TypeOK /\ TaperInv /\ [Next]_vars => TaperInv'
  <1> SUFFICES ASSUME TypeOK, TaperInv, [Next]_vars PROVE TaperInv'
    OBVIOUS
  <1> USE DEF device, observed, locals
  <1>1. CASE Environment
    BY <1>1, EnvironmentTypes DEF TaperInv, Running, Kind
  <1>2. CASE TakesTick
    BY <1>2, TaperTick
  <1>3. CASE SetVoltage \/ SetCurrent \/ GoesStale \/ TakesTrip \/ Aborts \/ CutOutput
    BY <1>3 DEF SetVoltage, SetCurrent, GoesStale, TakesTrip, Aborts, CutOutput, EndWith,
                TaperInv, Running, Kind
  <1>4. CASE UNCHANGED vars
    BY <1>4 DEF vars, TaperInv, Running, Kind
  <1> QED
    BY <1>1, <1>2, <1>3, <1>4 DEF Next, Step, Receive

\* A run is recorded as completed only after its main phase has shown a taper on every
\* tick for longer than the hold, up to the tick that ended it.
THEOREM TaperHolds == Spec => []CompletedTapered
  <1>1. Init => TaperInv
    BY DEF Init, TaperInv, NewRun
  <1>2. TaperInv => CompletedTapered
    BY DEF TaperInv, CompletedTapered, Verdict
  <1> QED
    BY <1>1, <1>2, TypeInit, TypeStep, TaperStep, PTL DEF Spec

(***************************************************************************)
(* The CC onset is one of the main phase.                                  *)
(***************************************************************************)
\* Unless the onset is captured, a count of ticks at full current is of the main phase
\* and includes the last one.
OnsetInv == Running /\ r.high >= 1 /\ ~r.captured => brisk

LEMMA OnsetTick ==
  ASSUME TypeOK, OnsetInv, TakesTick
  PROVE  OnsetInv' /\ (r'.captured /\ ~r.captured => brisk /\ brisk')
  <1>1. PICK volts \in Volts, current \in Current, cc \in BOOLEAN :
          LET t == Reading(volts, current)
          IN /\ t.cap \in Nat /\ t.dt \in 1 .. Longest + 1
             /\ t.volts = volts /\ t.current = current
             /\ Ends(t, cc) /\ Notes(t)
    BY TickTaken
  <1> DEFINE t == Reading(volts, current)
             s == Aged(t)
             n == Observed(t, cc)
             b == [s EXCEPT !.last = t.cap]
             high == IF Kind # "main" \/ t.current # "high" THEN 0 ELSE Cap(s.high + 1, 2)
  <1>2. t.cap \in Nat /\ t.dt \in 1 .. Longest + 1 /\ Ends(t, cc) /\ Notes(t)
    BY <1>1
  <1> HIDE DEF t
  <1>3. s \in RunState /\ n \in RunState /\ b \in RunState
    BY <1>2, TickStates, RunStateKept
  <1>4. at = "wait" /\ Running /\ r \in RunState
    BY DEF TakesTick, TypeOK, Running
  <1>5. s.high = r.high /\ s.captured = r.captured /\ b.high = s.high /\ b.captured = s.captured
    BY <1>3, <1>4 DEF Aged, RunState
  <1>6. /\ r.captured => n.captured
        /\ ~r.captured => n.high = high /\ n.captured = (high = 2 /\ cc)
    <2>1. Onset(b, t, cc) \in RunState
      BY <1>2, <1>3, RunStateKept
    <2>2. /\ n.captured = Onset(b, t, cc).captured /\ n.high = Onset(b, t, cc).high
      BY <2>1 DEF Observed, Hold, RunState
    <2> QED
      BY <1>3, <1>5, <2>2 DEF Onset, RunState
  <1>7. ~r.captured /\ high >= 1 => Kind = "main" /\ t.current = "high"
    OBVIOUS
  <1>8. ~r.captured /\ high = 2 => r.high >= 1
    BY <1>3, <1>4, <1>5 DEF Cap, RunState
  <1>9. brisk' = (Kind = "main" /\ t.current = "high" /\ ~r.captured)
    BY <1>2 DEF Notes
  <1> HIDE DEF s, n, b, high
  <1>10. CASE r' = s /\ at' = "cut"
    BY <1>5, <1>10 DEF OnsetInv, Running
  <1>11. CASE r'.high = n.high /\ r'.captured = n.captured
    <2>1. CASE r.captured
      <3>1. r'.captured
        BY <1>6, <1>11, <2>1
      <3> QED
        BY <2>1, <3>1 DEF OnsetInv
    <2>2. CASE ~r.captured
      <3>1. r'.high = high /\ r'.captured = (high = 2 /\ cc)
        BY <1>6, <1>11, <2>2
      <3>2. r'.high >= 1 => brisk'
        BY <1>7, <1>9, <2>2, <3>1
      <3>3. r'.captured => high = 2 /\ r'.high = 2
        BY <3>1
      <3>4. r'.captured => brisk
        BY <1>4, <1>8, <2>2, <3>3 DEF OnsetInv
      <3> QED
        BY <3>2, <3>3, <3>4 DEF OnsetInv
    <2> QED
      BY <2>1, <2>2
  <1>12. NewPhase(n).high = n.high /\ NewPhase(n).captured = n.captured
    BY <1>3 DEF NewPhase, RunState
  <1> QED
    BY <1>2, <1>10, <1>11, <1>12 DEF Ends, EndWith, NextPhase, s, n

LEMMA OnsetStep ==
  TypeOK /\ OnsetInv /\ [Next]_vars
    => OnsetInv' /\ (r'.captured /\ ~r.captured => brisk /\ brisk')
  <1> SUFFICES ASSUME TypeOK, OnsetInv, [Next]_vars
               PROVE  OnsetInv' /\ (r'.captured /\ ~r.captured => brisk /\ brisk')
    OBVIOUS
  <1> USE DEF device, observed, locals
  <1>1. CASE Environment
    BY <1>1, EnvironmentTypes DEF OnsetInv, Running
  <1>2. CASE TakesTick
    BY <1>2, OnsetTick
  <1>3. CASE SetVoltage \/ SetCurrent \/ GoesStale \/ TakesTrip \/ Aborts \/ CutOutput
    BY <1>3 DEF SetVoltage, SetCurrent, GoesStale, TakesTrip, Aborts, CutOutput, EndWith,
                OnsetInv, Running
  <1>4. CASE UNCHANGED vars
    BY <1>4 DEF vars, OnsetInv, Running
  <1> QED
    BY <1>1, <1>2, <1>3, <1>4 DEF Next, Step, Receive

\* The CC onset is captured on the second of two ticks of the main phase at full current,
\* whatever the precharge before it has shown.
THEOREM OnsetHolds == Spec => OnsetGenuine
  <1>1. Init => OnsetInv
    BY DEF Init, OnsetInv, NewRun
  <1>2. TypeOK /\ OnsetInv /\ [Next]_vars
        => [r'.captured /\ ~r.captured => brisk /\ brisk']_vars
    BY OnsetStep
  <1> QED
    BY <1>1, <1>2, TypeInit, TypeStep, OnsetStep, PTL DEF Spec, OnsetGenuine

(***************************************************************************)
(* What flows into the battery.                                            *)
(*                                                                         *)
(* The run sees the counter in its ticks only, so what counts is how much  *)
(* of what flowed a reading leaves out: at the last tick taken, at each    *)
(* tick that waits and at the counter the hub has cached.  A reading that  *)
(* does not fall behind the one before it leaves out no more than that one *)
(* did, and a fault lets it leave out one blind interval more.             *)
(***************************************************************************)
\* The setpoints written so far, each write as long as the stale timer lasts.
Writing ==
  CASE idx = 1 /\ at \in {"setVoltage", "setCurrent"} -> 0
    [] idx = 1 /\ at \notin {"setVoltage", "setCurrent"} -> Stale
    [] idx # 1 /\ at \in {"setVoltage", "setCurrent"} -> Stale
    [] idx # 1 /\ at \notin {"setVoltage", "setCurrent"} -> 2 * Stale

\* The stale timers that can run while the ticks behind the i-th are published.
Waits(i) == (QueueSize - i) * Stale

Used == MaxFaults - faults
Spent(n) == n * Blind

\* The readings in the order the run meets them: the last tick, then those that wait.
Seen(i) == IF i = 0 THEN r.last ELSE queue[i].cap

\* The next i updates are ticks, and the counter never falls from one to a later one.
Chain(i) ==
  \A j \in 1 .. i : ~queue[j].trip /\ \A k \in 0 .. j - 1 : Seen(k) <= Seen(j)

\* What flowed and does not show in a reading of the counter.
Unseen(reading) == given - (reading - r.base)

\* The last fault is not held against a reading until the hub's counter has got there again.
Excused(reading) ==
  Spent(IF conn = "up" /\ reading <= cached.cap THEN Used ELSE Used - 1)
Allowed(i) == Waits(i) + Writing + silent + Excused(Seen(i))

CapHeld == r.haveBase => r.last - r.base <= CapCap
Readings ==
  r.haveBase => \A i \in 0 .. Len(queue) : Chain(i) => Unseen(Seen(i)) <= Allowed(i)
CachedCounter ==
  r.haveBase /\ conn = "up" /\ Chain(Len(queue)) /\ Seen(Len(queue)) <= cached.cap
    => Unseen(cached.cap) <= Writing + Spent(Used)
NoTickYet == ~r.haveBase => given <= Writing + silent /\ idx = 1

\* The hub's counter runs behind the device's unless the link is lost.
CounterBehind == conn # "lost" => cached.cap <= counter

\* Without a fault the counter shows all that flowed, from the first tick on.
Faultless ==
  Used = 0 =>
    /\ conn = "up" /\ output # "off" /\ counter = given + 1 /\ cached.cap = counter
    /\ \A i \in 1 .. Len(queue) : queue[i].trip \/ queue[i].cap <= cached.cap
    /\ ~r.haveBase => IF queue = <<>> THEN given = 0 ELSE queue[1].trip \/ queue[1].cap = 1

\* The subscription's place for more than its ticks is for a trip.
QueueFits ==
  Len(queue) <= QueueSize + 1 /\ (Len(queue) = QueueSize + 1 => queue[Len(queue)].trip)

Accounted ==
  /\ CapHeld /\ Readings /\ CachedCounter /\ NoTickYet
  /\ CounterBehind /\ Faultless /\ QueueFits

ChargeInv == OverchargeBounded /\ (Running => Accounted)

\* The figures the argument counts with.
LEMMA Figures ==
  ASSUME TypeOK
  PROVE  /\ {given, counter, cached.cap, r.base, r.last, silent, Len(queue)} \subseteq Nat
         /\ Stale \in Nat \ {0} /\ QueueSize \in Nat \ {0} /\ CapCap \in Nat
         /\ silent <= Stale /\ Used \in 0 .. MaxFaults /\ MaxFaults \in Nat
         /\ Writing \in Nat /\ Writing <= 2 * Stale
  <1>1. {given, counter, cached.cap, r.base, r.last} \subseteq Nat
    BY DEF TypeOK, RunState
  <1>2. Len(queue) \in Nat
    BY DEF TypeOK
  <1>3. /\ Stale \in Nat \ {0} /\ QueueSize \in Nat \ {0} /\ CapCap \in Nat
        /\ MaxFaults \in Nat
    BY TimesAssumption
  <1>4. silent \in 0 .. Stale /\ faults \in 0 .. MaxFaults
    BY DEF TypeOK
  <1>5. Writing \in Nat /\ Writing <= 2 * Stale
    BY <1>3 DEF Writing
  <1> QED
    BY <1>1, <1>2, <1>3, <1>4, <1>5 DEF Used

LEMMA WaitsFacts ==
  /\ Blind \in Nat /\ Stale <= Blind /\ Waits(0) + Stale = Blind
  /\ \A i \in Nat : Waits(i) \in Int /\ Waits(i) = Waits(i + 1) + Stale
  /\ \A i \in 0 .. QueueSize : 0 <= Waits(i) /\ Waits(i) + Stale <= Blind
  <1>1. Stale \in Nat \ {0} /\ QueueSize \in Nat \ {0}
    BY TimesAssumption
  <1>2. QueueSize * Stale \in Nat
    BY <1>1
  <1>3. Blind = QueueSize * Stale + Stale
    BY <1>1 DEF Blind
  <1>4. ASSUME NEW i \in Nat
        PROVE  Waits(i) = QueueSize * Stale - i * Stale /\ i * Stale \in Nat
               /\ (i + 1) * Stale = i * Stale + Stale
    BY <1>1 DEF Waits
  <1>5. ASSUME NEW i \in Nat PROVE Waits(i) \in Int /\ Waits(i) = Waits(i + 1) + Stale
    BY <1>1, <1>2, <1>4
  <1>6. Waits(0) = QueueSize * Stale
    BY <1>1 DEF Waits
  <1>7. ASSUME NEW i \in 0 .. QueueSize
        PROVE  0 <= Waits(i) /\ Waits(i) + Stale <= Blind
    <2>1. QueueSize - i \in Nat
      BY <1>1
    <2>2. \A a, b \in Nat : 0 <= a * b
      OBVIOUS
    <2>3. 0 <= Waits(i)
      BY <1>1, <2>1, <2>2 DEF Waits
    <2> QED
      BY <1>1, <1>2, <1>3, <1>4, <2>3
  <1> QED
    BY <1>1, <1>2, <1>3, <1>5, <1>6, <1>7

LEMMA SpentFacts ==
  /\ \A n \in Int : Spent(n) \in Int /\ Spent(n + 1) = Spent(n) + Blind
  /\ \A n \in 0 .. MaxFaults : 0 <= Spent(n) /\ Spent(n) + Blind <= (MaxFaults + 1) * Blind
  /\ (MaxFaults + 1) * Blind \in Int
  <1>1. Blind \in Nat /\ MaxFaults \in Nat
    BY WaitsFacts, TimesAssumption
  <1> HIDE DEF Blind
  <1>2. ASSUME NEW n \in Int PROVE Spent(n) \in Int /\ Spent(n + 1) = Spent(n) + Blind
    BY <1>1 DEF Spent
  <1>3. ASSUME NEW n \in 0 .. MaxFaults
        PROVE  0 <= Spent(n) /\ Spent(n) + Blind <= (MaxFaults + 1) * Blind
    <2>1. \A a, b \in Nat : 0 <= a * b
      OBVIOUS
    <2>2. n \in Nat /\ MaxFaults - n \in Nat
      BY <1>1
    <2>3. 0 <= n * Blind /\ 0 <= (MaxFaults - n) * Blind
      BY <1>1, <2>1, <2>2
    <2>4. (MaxFaults + 1) * Blind = n * Blind + (MaxFaults - n) * Blind + Blind
      BY <1>1, <2>2
    <2>5. n * Blind \in Nat /\ (MaxFaults - n) * Blind \in Nat
      BY <1>1, <2>2
    <2> QED
      BY <1>1, <2>3, <2>4, <2>5 DEF Spent
  <1>4. (MaxFaults + 1) * Blind \in Int
    BY <1>1
  <1> QED
    BY <1>2, <1>3, <1>4

LEMMA ExcusedFacts ==
  ASSUME TypeOK, NEW x \in Nat
  PROVE  /\ Excused(x) \in Int /\ Spent(Used) \in Int /\ Spent(Used - 1) \in Int
         /\ Spent(Used - 1) = Spent(Used) - Blind
         /\ Excused(x) = Spent(Used) \/ Excused(x) = Spent(Used - 1)
         /\ conn = "up" /\ x <= cached.cap => Excused(x) = Spent(Used)
         /\ ~(conn = "up" /\ x <= cached.cap) => Excused(x) = Spent(Used - 1)
  <1>1. Used \in Int /\ Used - 1 \in Int /\ (Used - 1) + 1 = Used
    BY Figures, SMTT(30)
  <1>2. /\ Spent(Used) \in Int /\ Spent(Used - 1) \in Int /\ Blind \in Nat
        /\ Spent((Used - 1) + 1) = Spent(Used - 1) + Blind
    BY <1>1, SpentFacts, WaitsFacts
  <1>3. Spent(Used - 1) = Spent(Used) - Blind
    BY <1>1, <1>2
  <1> QED
    BY <1>2, <1>3 DEF Excused

LEMMA SeenTypes ==
  ASSUME TypeOK, NEW i \in 0 .. Len(queue), Chain(i)
  PROVE  Seen(i) \in Nat /\ Allowed(i) \in Int
         /\ Allowed(i) = Waits(i) + Writing + silent + Excused(Seen(i))
  <1>1. Seen(i) \in Nat
    <2>1. CASE i = 0
      BY <2>1, Figures DEF Seen
    <2>2. CASE i # 0
      <3>1. i \in 1 .. i /\ i \in 1 .. Len(queue)
        BY <2>2, Figures
      <3>2. ~queue[i].trip
        BY <3>1 DEF Chain
      <3>3. queue[i] \in TickUpdate \cup {TripEvent}
        BY <3>1 DEF TypeOK
      <3> QED
        BY <2>2, <3>2, <3>3 DEF Seen, TickUpdate, TripEvent
    <2> QED
      BY <2>1, <2>2
  <1>2. Excused(Seen(i)) \in Int
    BY <1>1, ExcusedFacts
  <1>3. Waits(i) \in Int
    BY WaitsFacts, Figures
  <1> QED
    BY <1>1, <1>2, <1>3, Figures, SMTT(30) DEF Allowed

\* A chain takes no more ticks than the subscription holds.
LEMMA ChainFits ==
  ASSUME TypeOK, QueueFits, NEW i \in 0 .. Len(queue), Chain(i)
  PROVE  i <= QueueSize
  <1>1. CASE i = Len(queue) /\ Len(queue) = QueueSize + 1
    BY <1>1, Figures, SMTT(30) DEF QueueFits, Chain
  <1> QED
    BY <1>1, Figures, SMTT(30) DEF QueueFits

\* The bound itself, while the run goes on.
LEMMA BoundFollows == TypeOK /\ Accounted => OverchargeBounded
  <1> SUFFICES ASSUME TypeOK, Accounted PROVE OverchargeBounded
    OBVIOUS
  <1> DEFINE top == (MaxFaults + 1) * Blind
  <1>1. /\ Used \in 0 .. MaxFaults /\ top \in Int /\ Spent(Used) \in Int
        /\ 0 <= Spent(Used) /\ Spent(Used) + Blind <= top
    BY SpentFacts, ExcusedFacts, Figures
  <1>2. OverchargeBounded <=> given <= CapCap + 2 * Stale + top
    BY DEF OverchargeBounded
  <1>0. /\ given \in Nat /\ CapCap \in Nat /\ Stale \in Nat /\ Writing \in Nat
        /\ Writing <= 2 * Stale /\ silent \in Nat /\ silent <= Stale /\ r.base \in Nat
    BY Figures
  <1> HIDE DEF top
  <1>3. CASE r.haveBase
    <2>1. Chain(0) /\ 0 \in 0 .. Len(queue) /\ Seen(0) = r.last
      BY Figures DEF Chain, Seen
    <2>2. Unseen(r.last) <= Allowed(0)
      BY <1>3, <2>1 DEF Accounted, Readings
    <2>3. Allowed(0) = Waits(0) + Writing + silent + Excused(r.last)
      BY <2>1, SeenTypes
    <2>4. r.last - r.base <= CapCap
      BY <1>3 DEF Accounted, CapHeld
    <2>5. r.last \in Nat /\ Blind \in Nat /\ Waits(0) \in Int /\ Waits(0) + Stale = Blind
      BY Figures, WaitsFacts
    <2>6. Excused(r.last) \in Int /\ Excused(r.last) <= Spent(Used)
      BY <1>1, <2>5, ExcusedFacts
    <2>7. given - (r.last - r.base) <= Waits(0) + Writing + silent + Excused(r.last)
      BY <2>2, <2>3 DEF Unseen
    <2> QED
      BY <1>0, <1>1, <1>2, <2>4, <2>5, <2>6, <2>7
  <1>4. CASE ~r.haveBase
    <2>1. given <= Writing + silent
      BY <1>4 DEF Accounted, NoTickYet
    <2>2. Blind \in Nat /\ Stale <= Blind
      BY WaitsFacts
    <2> QED
      BY <1>0, <1>1, <1>2, <2>1, <2>2
  <1> QED
    BY <1>3, <1>4

(***************************************************************************)
(* What a step leaves of the readings, and what it does to the bound.      *)
(***************************************************************************)
Grows(u) == u \in Update /\ (queue' = queue \/ queue' = Append(queue, u))

LEMMA Grown ==
  ASSUME TypeOK, NEW u, Grows(u)
  PROVE  /\ Len(queue) \in Nat /\ Len(queue') \in {Len(queue), Len(queue) + 1}
         /\ queue' # queue => /\ queue' = Append(queue, u)
                              /\ Len(queue') = Len(queue) + 1
                              /\ queue'[Len(queue) + 1] = u
         /\ \A i \in 1 .. Len(queue) : queue'[i] = queue[i]
  <1>1. queue \in Seq(Update) /\ u \in Update
    BY DEF TypeOK, Update, Grows
  <1>2. /\ Len(queue) \in Nat
        /\ Len(Append(queue, u)) = Len(queue) + 1
        /\ \A i \in 1 .. Len(queue) : Append(queue, u)[i] = queue[i]
        /\ Append(queue, u)[Len(queue) + 1] = u
    BY <1>1
  <1> QED
    BY <1>2 DEF Grows

LEMMA SeenKept ==
  ASSUME TypeOK, NEW u, Grows(u), UNCHANGED r, NEW i \in 0 .. Len(queue)
  PROVE  Seen(i)' = Seen(i) /\ (Chain(i)' <=> Chain(i))
  <1>1. \A k \in 0 .. Len(queue) : Seen(k)' = Seen(k)
    <2>1. TAKE k \in 0 .. Len(queue)
    <2>2. k # 0 => queue'[k] = queue[k]
      BY Grown
    <2> QED
      BY <2>2 DEF Seen
  <1>2. \A j \in 1 .. i : queue'[j] = queue[j] /\ Seen(j)' = Seen(j)
                           /\ \A k \in 0 .. j - 1 : Seen(k)' = Seen(k)
    BY <1>1, Grown
  <1> QED
    BY <1>1, <1>2 DEF Chain

\* Time that passes covers what flows in it; an excuse once given is not taken back.
Covered(flow) ==
  /\ flow \in {0, 1} /\ given' = given + flow
  /\ Writing + silent + flow <= Writing' + silent'
  /\ \A x \in Nat : Excused(x)' \in Int /\ Excused(x) <= Excused(x)'

LEMMA CoveredSum ==
  ASSUME NEW unseen \in Int, NEW flow \in Int, NEW waits \in Int, NEW then \in Int,
         NEW now \in Int, NEW before \in Int, NEW after \in Int,
         unseen <= waits + then + before, then + flow <= now, before <= after
  PROVE  unseen + flow <= waits + now + after
  OBVIOUS

LEMMA ReadingsKept ==
  ASSUME TypeOK, Readings, NEW u, Grows(u), UNCHANGED r, r.haveBase, NEW flow, Covered(flow),
         Writing' \in Int, silent' \in Int, NEW i \in 0 .. Len(queue), Chain(i)'
  PROVE  Unseen(Seen(i))' <= Allowed(i)'
  <1>1. Chain(i) /\ Seen(i)' = Seen(i)
    BY SeenKept
  <1>2. Seen(i) \in Nat /\ Allowed(i) = Waits(i) + Writing + silent + Excused(Seen(i))
    BY <1>1, SeenTypes
  <1>3. Unseen(Seen(i)) <= Allowed(i)
    BY <1>1 DEF Readings
  <1>4. flow \in {0, 1} /\ given' = given + flow /\ Writing + silent + flow <= Writing' + silent'
    BY DEF Covered
  <1>5. /\ r.base \in Nat /\ given \in Nat /\ Writing \in Int /\ silent \in Int
        /\ i \in Nat
    BY Figures
  <1>6. Waits(i) \in Int
    BY <1>5, WaitsFacts
  <1>7. PICK x \in Nat : x = Seen(i) /\ x = Seen(i)'
    BY <1>1, <1>2
  <1> DEFINE before == Excused(x)
             after == Excused(x)'
  <1>8. before \in Int /\ after \in Int /\ before <= after
    BY ExcusedFacts DEF Covered
  <1>9. given - (x - r.base) <= Waits(i) + Writing + silent + before
    BY <1>2, <1>3, <1>7 DEF Unseen
  <1>10. Unseen(Seen(i))' = given' - (x - r.base)
    BY <1>7 DEF Unseen
  <1>11. Allowed(i)' = Waits(i) + Writing' + silent' + after
    BY <1>7 DEF Allowed, Excused
  <1> HIDE DEF before, after
  <1>12. given' - (x - r.base) <= Waits(i) + Writing' + silent' + after
    <2> DEFINE unseen == given - (x - r.base)
               now == Writing' + silent'
               then == Writing + silent
    <2>1. unseen \in Int /\ now \in Int /\ then \in Int /\ flow \in Int
      BY <1>4, <1>5, SMTT(30)
    <2>2. given' - (x - r.base) = unseen + flow
      BY <1>4, <1>5
    <2>3. then + flow <= now
      BY <1>4
    <2>4. unseen <= Waits(i) + then + before
      <3>1. Waits(i) + Writing + silent + before = Waits(i) + (Writing + silent) + before
        BY <1>5, <1>6, <1>8
      <3> QED
        BY <1>9, <3>1
    <2>5. Waits(i) + Writing' + silent' + after = Waits(i) + now + after
      BY <1>6, <1>8
    <2> HIDE DEF unseen, now, then
    <2>6. unseen + flow <= Waits(i) + now + after
      BY <1>6, <1>8, <2>1, <2>3, <2>4, CoveredSum
    <2> QED
      BY <2>2, <2>5, <2>6
  <1> QED
    BY <1>10, <1>11, <1>12

\* A fault, a link that is up again and a counter that catches up only excuse more.
LEMMA ExcusesStand ==
  ASSUME TypeOK, cached'.cap \in Nat,
         \/ conn' = conn /\ faults' = faults /\ (conn = "up" => cached.cap <= cached'.cap)
         \/ conn' # "up" /\ faults' = faults - 1
         \/ conn # "up" /\ faults' = faults,
         NEW x \in Nat
  PROVE  Excused(x)' \in Int /\ Excused(x) <= Excused(x)'
  <1>1. /\ faults \in Int /\ MaxFaults \in Int /\ cached.cap \in Nat /\ Blind \in Nat
        /\ Used \in Int
    BY Figures, WaitsFacts, TimesAssumption DEF TypeOK
  <1>2. /\ Spent(Used) \in Int /\ Spent(Used - 1) \in Int
        /\ Spent(Used - 1) = Spent(Used) - Blind
        /\ Excused(x) = Spent(Used) \/ Excused(x) = Spent(Used - 1)
        /\ conn = "up" /\ x <= cached.cap => Excused(x) = Spent(Used)
        /\ ~(conn = "up" /\ x <= cached.cap) => Excused(x) = Spent(Used - 1)
    BY ExcusedFacts
  <1>3. Excused(x)' = IF conn' = "up" /\ x <= cached'.cap THEN Spent(Used') ELSE Spent(Used' - 1)
    BY DEF Excused, Used, Spent
  <1>4. CASE faults' = faults
    <2>1. Used' = Used
      BY <1>4 DEF Used
    <2>2. conn = "up" /\ x <= cached.cap => conn' = "up" /\ x <= cached'.cap
      BY <1>1, <1>4
    <2> HIDE DEF Excused
    <2> QED
      BY <1>1, <1>2, <1>3, <2>1, <2>2
  <1>5. CASE conn' # "up" /\ faults' = faults - 1
    <2>1. Used' - 1 = Used
      BY <1>1, <1>5 DEF Used
    <2> QED
      BY <1>1, <1>2, <1>3, <1>5, <2>1
  <1> QED
    BY <1>4, <1>5

\* Nothing joins the readings: the queue stays, or a trip ends their chain.
LEMMA ReadingsStand ==
  ASSUME TypeOK, Readings, NEW u, Grows(u), queue' = queue \/ u.trip, UNCHANGED r,
         NEW flow, Covered(flow), Writing' \in Int, silent' \in Int
  PROVE  Readings'
  <1> SUFFICES ASSUME r'.haveBase, NEW i \in 0 .. Len(queue'), Chain(i)'
               PROVE  Unseen(Seen(i))' <= Allowed(i)'
    BY DEF Readings
  <1>1. i \in 0 .. Len(queue)
    <2>1. CASE i = Len(queue) + 1
      <3>1. queue' # queue /\ i \in 1 .. i /\ queue'[i] = u /\ u.trip
        BY <2>1, Grown
      <3> QED
        BY <3>1 DEF Chain
    <2> QED
      BY <2>1, Grown
  <1> QED
    BY <1>1, ReadingsKept

LEMMA BlindSum ==
  ASSUME NEW unseen \in Int, NEW waits \in Int, NEW writing \in Int, NEW age \in Int,
         NEW stale \in Int, NEW left \in Int, NEW blind \in Int, NEW spent \in Int,
         unseen <= waits + writing + age + left, waits + stale <= blind, age <= stale,
         left + blind = spent
  PROVE  unseen <= writing + spent
  OBVIOUS

\* Once the cached counter is level with the readings it leaves out no more than the last.
LEMMA CounterCatchesUp ==
  ASSUME TypeOK, Readings, CachedCounter, QueueFits, NEW u, Grows(u), queue' = queue \/ u.trip,
         UNCHANGED <<r, given, faults>>, Writing' = Writing, cached'.cap \in Nat,
         conn = "up" => cached.cap <= cached'.cap
  PROVE  CachedCounter'
  <1> DEFINE n == Len(queue)
  <1> SUFFICES ASSUME r.haveBase, Chain(Len(queue))', Seen(Len(queue))' <= cached'.cap
               PROVE  Unseen(cached.cap)' <= Writing' + Spent(Used)'
    BY DEF CachedCounter
  <1>1. queue' = queue
    <2> SUFFICES ASSUME queue' # queue PROVE FALSE
      OBVIOUS
    <2>1. /\ Len(queue') = n + 1 /\ n \in Nat /\ queue'[n + 1] = u /\ u.trip
      BY Grown
    <2>2. Len(queue') \in 1 .. Len(queue')
      BY <2>1
    <2> QED
      BY <2>1, <2>2 DEF Chain
  <1>2. n \in 0 .. n /\ n \in Nat
    BY Grown
  <1>3. Seen(n)' = Seen(n) /\ Chain(n)
    BY <1>1, <1>2, SeenKept DEF Chain, Seen
  <1>4. Seen(n) \in Nat /\ Seen(n) <= cached'.cap
    BY <1>1, <1>2, <1>3, SeenTypes
  <1>5. Unseen(cached.cap)' = given - (cached'.cap - r.base) /\ Spent(Used)' = Spent(Used)
    BY DEF Unseen, Spent, Used
  <1>6. /\ given \in Nat /\ r.base \in Nat /\ cached.cap \in Nat /\ Writing \in Nat
        /\ silent \in Nat /\ silent <= Stale /\ Stale \in Nat
    BY Figures
  <1>7. /\ Spent(Used) \in Int /\ Spent(Used - 1) = Spent(Used) - Blind /\ Blind \in Nat
    BY <1>6, ExcusedFacts, WaitsFacts
  <1> HIDE DEF Blind
  <1>8. CASE conn = "up" /\ Seen(n) <= cached.cap
    <2>1. Unseen(cached.cap) <= Writing + Spent(Used)
      BY <1>3, <1>8 DEF CachedCounter
    <2>2. given - (cached.cap - r.base) <= Writing + Spent(Used)
      BY <2>1 DEF Unseen
    <2> QED
      BY <1>5, <1>6, <1>7, <1>8, <2>2, SMTT(30)
  <1>9. CASE ~(conn = "up" /\ Seen(n) <= cached.cap)
    <2>1. Unseen(Seen(n)) <= Allowed(n)
      BY <1>2, <1>3 DEF Readings
    <2>2. Allowed(n) = Waits(n) + Writing + silent + Excused(Seen(n))
      BY <1>2, <1>3, SeenTypes
    <2>3. Excused(Seen(n)) = Spent(Used) - Blind
      BY <1>4, <1>7, <1>9, ExcusedFacts
    <2>4. Waits(n) \in Int /\ Waits(n) + Stale <= Blind
      BY <1>2, <1>3, ChainFits, WaitsFacts
    <2>5. given - (Seen(n) - r.base) <= Waits(n) + Writing + silent + (Spent(Used) - Blind)
      BY <2>1, <2>2, <2>3 DEF Unseen
    <2> DEFINE unseen == given - (Seen(n) - r.base)
               left == Spent(Used) - Blind
    <2>6. unseen \in Int /\ left \in Int /\ left + Blind = Spent(Used)
      BY <1>4, <1>6, <1>7, SMTT(30)
    <2>7. given - (cached'.cap - r.base) <= unseen
      BY <1>4, <1>6
    <2>8. given - (cached'.cap - r.base) \in Int
      BY <1>6
    <2>9. unseen <= Waits(n) + Writing + silent + left
      BY <2>5
    <2> HIDE DEF unseen, left
    <2>10. unseen <= Writing + Spent(Used)
      BY <1>6, <1>7, <2>4, <2>6, <2>9, BlindSum, SMTT(30)
    <2> QED
      BY <1>5, <1>6, <1>7, <2>6, <2>7, <2>8, <2>10
  <1> QED
    BY <1>8, <1>9

LEMMA TripGrows == ASSUME queue' = queue \/ queue' = Append(queue, TripEvent)
                   PROVE  Grows(TripEvent) /\ TripEvent.trip
  BY DEF Grows, Update, TripEvent

\* The steps of the device, the link and the user but the passing of a period.
WorldStep ==
  /\ Grows(TripEvent) /\ (queue' # queue => Len(queue) <= QueueSize)
  /\ UNCHANGED <<r, idx, at, given, silent>> /\ cached'.cap \in Nat
  /\ \/ /\ faults' = faults /\ (conn = "up" => conn' = "up" /\ cached.cap <= cached'.cap)
     \/ conn' # "up" /\ faults' = faults - 1

LEMMA FaultlessKept ==
  ASSUME TypeOK, Faultless, Grows(TripEvent), UNCHANGED <<r, given, faults, conn, counter>>,
         output # "off" => output' # "off",
         cached'.cap = cached.cap \/ cached'.cap = counter
  PROVE  Faultless'
  <1> SUFFICES ASSUME Used' = 0
               PROVE  /\ conn' = "up" /\ output' # "off" /\ counter' = given' + 1
                      /\ cached'.cap = counter'
                      /\ \A i \in 1 .. Len(queue') : queue'[i].trip \/ queue'[i].cap <= cached'.cap
                      /\ ~r'.haveBase => IF queue' = <<>> THEN given' = 0
                                         ELSE queue'[1].trip \/ queue'[1].cap = 1
    BY DEF Faultless
  <1>1. Used = 0
    BY DEF Used
  <1>2. /\ conn = "up" /\ output # "off" /\ counter = given + 1 /\ cached.cap = counter
        /\ \A i \in 1 .. Len(queue) : queue[i].trip \/ queue[i].cap <= cached.cap
        /\ ~r.haveBase => IF queue = <<>> THEN given = 0 ELSE queue[1].trip \/ queue[1].cap = 1
    BY <1>1 DEF Faultless
  <1>3. TripEvent.trip
    BY DEF TripEvent
  <1>4. \A i \in 1 .. Len(queue') : queue'[i].trip \/ queue'[i].cap <= cached'.cap
    <2> TAKE i \in 1 .. Len(queue')
    <2>1. CASE i \in 1 .. Len(queue)
      BY <1>2, <2>1, Grown
    <2>2. CASE i \notin 1 .. Len(queue)
      <3>1. queue'[i] = TripEvent
        BY <2>2, Grown
      <3> QED
        BY <1>3, <3>1
    <2> QED
      BY <2>1, <2>2
  <1>5. ~r'.haveBase => IF queue' = <<>> THEN given' = 0
                        ELSE queue'[1].trip \/ queue'[1].cap = 1
    <2> SUFFICES ASSUME ~r'.haveBase, queue' # <<>>
                 PROVE  queue'[1].trip \/ queue'[1].cap = 1
      BY <1>2, Grown DEF Grows
    <2>1. CASE queue = <<>>
      <3>1. Len(queue) = 0 /\ queue'[1] = TripEvent
        BY <2>1, Grown
      <3> QED
        BY <1>3, <3>1
    <2>2. CASE queue # <<>>
      <3>1. 1 \in 1 .. Len(queue)
        BY <2>2 DEF TypeOK
      <3> QED
        BY <1>2, <2>2, <3>1, Grown
    <2> QED
      BY <2>1, <2>2
  <1> QED
    BY <1>2, <1>4, <1>5

LEMMA WorldAccounts ==
  ASSUME TypeOK, Accounted, WorldStep, CounterBehind', Faultless'
  PROVE  Accounted'
  <1>0. TripEvent.trip
    BY DEF TripEvent
  <1>1. Writing' = Writing
    BY DEF WorldStep, Writing
  <1>2. given \in Nat /\ silent \in Nat /\ Writing \in Nat /\ Len(queue) \in Nat
    BY Figures
  <1>3. \A x \in Nat : Excused(x)' \in Int /\ Excused(x) <= Excused(x)'
    BY ExcusesStand DEF WorldStep
  <1>4. Covered(0)
    BY <1>1, <1>2, <1>3 DEF Covered, WorldStep
  <1>5. Readings'
    BY <1>0, <1>1, <1>2, <1>4, ReadingsStand DEF Accounted, WorldStep
  <1>6. CapHeld' /\ NoTickYet'
    BY <1>1 DEF Accounted, WorldStep, CapHeld, NoTickYet
  <1>7. CachedCounter'
    <2>1. CASE conn' # "up"
      BY <2>1 DEF CachedCounter
    <2>2. CASE conn' = "up"
      BY <1>0, <1>1, <2>2, CounterCatchesUp DEF Accounted, WorldStep
    <2> QED
      BY <2>1, <2>2
  <1>8. QueueFits'
    <2>1. CASE queue' = queue
      BY <2>1 DEF QueueFits, Accounted
    <2>2. CASE queue' # queue
      <3>1. /\ Len(queue') = Len(queue) + 1 /\ queue'[Len(queue')] = TripEvent
            /\ Len(queue) <= QueueSize /\ QueueSize \in Nat
        BY <2>2, Grown, Figures DEF WorldStep
      <3> QED
        BY <1>0, <1>2, <3>1 DEF QueueFits
    <2> QED
      BY <2>1, <2>2
  <1> QED
    BY <1>5, <1>6, <1>7, <1>8 DEF Accounted

LEMMA TripAccounts == ASSUME TypeOK, Accounted, Trip PROVE Accounted'
  <1> USE DEF locals, device, hub, observed
  <1>1. Grows(TripEvent)
    BY TripGrows DEF Trip
  <1>2. cached'.cap = cached.cap
    BY DEF Trip, TypeOK
  <1>3. WorldStep
    BY <1>1, <1>2, Figures, SMTT(30) DEF Trip, Room, WorldStep
  <1>4. Faultless'
    <2>1. UNCHANGED <<r, given, faults, conn, counter>> /\ output' # "off"
      BY DEF Trip
    <2> QED
      BY <1>1, <1>2, <2>1, FaultlessKept DEF Accounted
  <1>5. CounterBehind'
    BY <1>2 DEF Trip, CounterBehind, Accounted
  <1> QED
    BY <1>3, <1>4, <1>5, WorldAccounts

LEMMA RefreshAccounts == ASSUME TypeOK, Accounted, Refresh PROVE Accounted'
  <1> USE DEF locals, device, hub, observed
  <1>1. Grows(TripEvent)
    BY TripGrows DEF Refresh, Dumped
  <1>2. /\ cached'.cap = counter /\ conn = "up" /\ cached.cap <= counter
        /\ UNCHANGED <<r, idx, at, silent, given, faults, conn, counter, output>>
        /\ Len(queue) <= QueueSize
    BY DEF Refresh, Dumped, Room, CounterBehind, Accounted
  <1>3. WorldStep
    BY <1>1, <1>2, Figures DEF WorldStep
  <1>4. Faultless'
    BY <1>1, <1>2, FaultlessKept DEF Accounted
  <1>5. CounterBehind'
    BY <1>2, Figures DEF CounterBehind
  <1> QED
    BY <1>3, <1>4, <1>5, WorldAccounts

LEMMA ResumesAccounts == ASSUME TypeOK, Accounted, Resumes PROVE Accounted'
  <1> USE DEF locals, device, hub, observed
  <1>1. Grows(TripEvent)
    BY TripGrows DEF Resumes, Dumped
  <1>2. /\ cached'.cap \in Nat /\ conn # "up" /\ conn' = "up" /\ cached'.cap <= counter
        /\ UNCHANGED <<r, idx, at, silent, given, faults, counter, output>>
        /\ Len(queue) <= QueueSize
    BY Figures, SMTT(30) DEF Resumes, Dumped, Room, CounterBehind, Accounted
  <1>3. WorldStep
    BY <1>1, <1>2 DEF WorldStep
  <1>4. Faultless'
    BY <1>2 DEF Accounted, Faultless, Used
  <1>5. CounterBehind'
    BY <1>2 DEF CounterBehind
  <1> QED
    BY <1>3, <1>4, <1>5, WorldAccounts

LEMMA FaultAccounts == ASSUME TypeOK, Accounted, LinkFails \/ PowerCycle PROVE Accounted'
  <1> USE DEF locals, device, hub, observed
  <1>1. Grows(TripEvent) /\ queue' = queue
    BY TripGrows DEF LinkFails, PowerCycle
  <1>2. /\ UNCHANGED <<r, idx, at, silent, given, cached>>
        /\ conn' # "up" /\ faults' = faults - 1 /\ faults > 0
        /\ conn' # "lost" => conn # "lost" /\ counter' = counter
    BY DEF LinkFails, PowerCycle, TypeOK
  <1>3. WorldStep
    BY <1>1, <1>2, Figures DEF WorldStep
  <1>4. Faultless'
    <2>1. Used' = Used + 1 /\ Used \in Nat
      BY <1>2, Figures, TimesAssumption DEF Used, TypeOK
    <2> QED
      BY <2>1 DEF Faultless
  <1>5. CounterBehind'
    BY <1>2 DEF CounterBehind, Accounted
  <1> QED
    BY <1>3, <1>4, <1>5, WorldAccounts

LEMMA UserAccounts == ASSUME TypeOK, Accounted, Panel \/ Cancel PROVE Accounted'
  <1> USE DEF locals, device, hub, observed
  <1>1. Grows(TripEvent) /\ queue' = queue
    BY TripGrows DEF Panel, Cancel
  <1>2. /\ UNCHANGED <<r, idx, at, silent, given, faults, conn, counter, cached>>
        /\ output # "off" => output' # "off"
    BY DEF Panel, Cancel
  <1>3. WorldStep
    BY <1>1, <1>2, Figures, SMTT(30) DEF WorldStep
  <1>4. Faultless'
    BY <1>1, <1>2, FaultlessKept DEF Accounted
  <1>5. CounterBehind'
    BY <1>2 DEF CounterBehind, Accounted
  <1> QED
    BY <1>3, <1>4, <1>5, WorldAccounts

\* A period: what flows is covered by the time that passes, and a tick carries the counter
\* as it was before.
LEMMA PeriodAccounts ==
  ASSUME TypeOK, TypeOK', Accounted, Period
  PROVE  Accounted'
  <1>0. PICK n, u : n = Len(queue) /\ u = [trip |-> cached.trip, cap |-> cached.cap, dt |-> lag + 1]
    OBVIOUS
  <1>1. PICK flow \in {0, 1} : /\ counter' = counter + flow /\ given' = given + flow
                               /\ flow = 1 => output = "on"
    BY DEF Period
  <1>2. /\ UNCHANGED <<r, idx, at, conn, output, faults>> /\ silent' = silent + 1
        /\ n < QueueSize
    BY <1>0 DEF Period, locals
  <1>3. Writing' = Writing
    BY <1>2 DEF Writing
  <1>4. /\ given \in Nat /\ silent \in Nat /\ Writing \in Nat /\ n \in Nat /\ counter \in Nat
        /\ cached.cap \in Nat /\ r.base \in Nat /\ QueueSize \in Nat
    BY <1>0, Figures
  <1>5. CASE conn = "up"
    <2>1. /\ queue' = Append(queue, u)
          /\ cached'.cap = IF output = "on" THEN counter' ELSE cached.cap
      BY <1>0, <1>5 DEF Period, TypeOK
    <2>2. Grows(u)
      <3>1. lag + 1 \in 1 .. Longest + 1 /\ cached.trip \in BOOLEAN
        BY TimesAssumption DEF TypeOK
      <3> QED
        BY <1>0, <1>4, <2>1, <3>1 DEF Grows, Update, TickUpdate
    <2>3. /\ Len(queue') = n + 1 /\ queue'[n + 1] = u
          /\ \A i \in 1 .. n : queue'[i] = queue[i]
      <3>1. queue \in Seq(Update) /\ u \in Update
        BY <2>2 DEF Grows, TypeOK, Update
      <3> QED
        BY <1>0, <2>1, <3>1
    <2>4. cached.cap <= cached'.cap /\ cached'.cap <= counter' /\ cached'.cap \in Nat
      <3>1. cached.cap <= counter
        BY <1>5 DEF Accounted, CounterBehind
      <3> QED
        BY <1>1, <1>4, <2>1, <3>1
    <2>5. \A x \in Nat : Excused(x)' \in Int /\ Excused(x) <= Excused(x)'
      BY <1>2, <2>4, ExcusesStand
    <2>6. Covered(flow)
      BY <1>1, <1>2, <1>3, <1>4, <2>5 DEF Covered
    \* The hub's counter leaves out no more than before: it follows the device's.
    <2>7. ASSUME r.haveBase, Chain(n + 1)'
          PROVE  /\ Unseen(cached.cap) <= Writing + Spent(Used)
                 /\ Seen(n + 1)' = cached.cap
      <3>1. Seen(n + 1)' = cached.cap
        BY <1>0, <1>4, <2>3 DEF Seen
      <3>2. Chain(n)'
        BY <1>4, <2>7 DEF Chain
      <3>3. Chain(n) /\ Seen(n)' = Seen(n)
        BY <1>0, <1>2, <1>4, <2>2, <3>2, SeenKept
      <3>4. Seen(n)' <= Seen(n + 1)'
        <4>1. n + 1 \in 1 .. n + 1 /\ n \in 0 .. (n + 1) - 1
          BY <1>4
        <4> QED
          BY <2>7, <4>1 DEF Chain
      <3> QED
        BY <1>0, <1>5, <2>7, <3>1, <3>3, <3>4 DEF Accounted, CachedCounter
    <2>8. Readings'
      <3> SUFFICES ASSUME r.haveBase, NEW i \in 0 .. n + 1, Chain(i)'
                   PROVE  Unseen(Seen(i))' <= Allowed(i)'
        BY <1>2, <2>3 DEF Readings
      <3>1. CASE i \in 0 .. n
        BY <1>0, <1>2, <1>3, <1>4, <2>2, <2>6, <3>1, ReadingsKept DEF Accounted
      <3>2. CASE i = n + 1
        <4>1. Unseen(cached.cap) <= Writing + Spent(Used) /\ Seen(i)' = cached.cap
          BY <2>7, <3>2
        <4>2. given - (cached.cap - r.base) <= Writing + Spent(Used)
          BY <4>1 DEF Unseen
        <4>3. Unseen(Seen(i))' = given + flow - (cached.cap - r.base)
          <5>1. Unseen(Seen(i))' = given' - (cached.cap - r.base)
            BY <1>2, <4>1 DEF Unseen
          <5>2. given' - (cached.cap - r.base) = given + flow - (cached.cap - r.base)
            BY <1>1, <1>4
          <5> QED
            BY <5>1, <5>2
        <4>4. Excused(cached.cap) = Spent(Used) /\ Spent(Used) \in Int
          BY <1>4, <1>5, ExcusedFacts
        <4>5. Excused(cached.cap) <= Excused(Seen(i))' /\ Excused(Seen(i))' \in Int
          BY <1>4, <2>5, <4>1 DEF Excused
        <4>6. Allowed(i)' = Waits(i) + Writing + silent + 1 + Excused(Seen(i))'
          <5>1. Allowed(i)' = Waits(i) + Writing' + silent' + Excused(Seen(i))'
            BY DEF Allowed
          <5>2. Waits(i) \in Int
            BY <1>4, <3>2, WaitsFacts
          <5> HIDE DEF Waits
          <5> QED
            BY <1>2, <1>3, <1>4, <4>5, <5>1, <5>2
        <4>7. 0 <= Waits(i) /\ Waits(i) \in Int
          BY <1>2, <1>4, <3>2, WaitsFacts
        <4> DEFINE after == Excused(Seen(i))'
        <4> HIDE DEF after
        <4>8. given + flow - (cached.cap - r.base) <= Waits(i) + Writing + silent + 1 + after
          <5>1. after \in Int /\ Spent(Used) <= after
            BY <4>4, <4>5 DEF after
          <5>2. given + flow - (cached.cap - r.base) <= Writing + Spent(Used) + 1
            BY <1>1, <1>4, <4>2, <4>4
          <5>3. Writing + Spent(Used) + 1 <= Waits(i) + Writing + silent + 1 + after
            BY <1>4, <4>4, <4>7, <5>1
          <5>4. given + flow - (cached.cap - r.base) \in Int
            BY <1>1, <1>4
          <5> DEFINE low == given + flow - (cached.cap - r.base)
                     mid == Writing + Spent(Used) + 1
                     high == Waits(i) + Writing + silent + 1 + after
          <5>5. low \in Int /\ mid \in Int /\ high \in Int
            BY <1>4, <4>4, <4>7, <5>1, <5>4
          <5> HIDE DEF low, mid, high
          <5>6. low <= mid /\ mid <= high
            BY <5>2, <5>3 DEF low, mid, high
          <5>7. low <= high
            BY <5>5, <5>6
          <5> QED
            BY <5>7 DEF low, high
        <4> QED
          BY <4>3, <4>6, <4>8 DEF after
      <3> QED
        BY <3>1, <3>2, <1>4
    <2>9. CachedCounter'
      <3> SUFFICES ASSUME r.haveBase, Chain(n + 1)'
                   PROVE  Unseen(cached.cap)' <= Writing' + Spent(Used)'
        BY <1>2, <2>3 DEF CachedCounter
      <3>1. given - (cached.cap - r.base) <= Writing + Spent(Used)
        BY <2>7 DEF Unseen
      <3>2. Unseen(cached.cap)' = given' - (cached'.cap - r.base) /\ Spent(Used)' = Spent(Used)
        BY <1>2 DEF Unseen, Spent, Used
      <3>3. given' - (cached'.cap - r.base) <= given - (cached.cap - r.base)
        <4>1. cached.cap <= counter
          BY <1>5 DEF Accounted, CounterBehind
        <4> QED
          BY <1>1, <1>4, <2>1, <4>1
      <3>4. Spent(Used) \in Int
        BY <1>4, ExcusedFacts
      <3>5. given' \in Int /\ cached'.cap \in Int
        BY <1>1, <1>4, <2>4
      <3> QED
        BY <1>3, <1>4, <3>1, <3>2, <3>3, <3>4, <3>5
    <2>10. Faultless'
      <3> SUFFICES ASSUME Used = 0
                   PROVE  /\ output # "off" /\ counter' = given' + 1 /\ cached'.cap = counter'
                          /\ \A i \in 1 .. n + 1 : queue'[i].trip \/ queue'[i].cap <= cached'.cap
                          /\ ~r.haveBase => queue' # <<>> /\ (queue'[1].trip \/ queue'[1].cap = 1)
        BY <1>2, <1>5, <2>3 DEF Faultless, Used
      <3>1. /\ output # "off" /\ counter = given + 1 /\ cached.cap = counter
            /\ \A i \in 1 .. n : queue[i].trip \/ queue[i].cap <= cached.cap
            /\ ~r.haveBase => IF queue = <<>> THEN given = 0
                              ELSE queue[1].trip \/ queue[1].cap = 1
        BY <1>0 DEF Accounted, Faultless
      <3>2. counter' = given' + 1 /\ cached'.cap = counter'
        BY <1>1, <1>4, <2>1, <3>1
      <3>3. queue' # <<>>
        BY <1>4, <2>3
      <3>4. \A i \in 1 .. n + 1 : queue'[i].trip \/ queue'[i].cap <= cached'.cap
        <4> TAKE i \in 1 .. n + 1
        <4>1. CASE i \in 1 .. n
          <5>1. queue'[i] = queue[i] /\ (queue[i].trip \/ queue[i].cap <= cached.cap)
            BY <2>3, <3>1, <4>1
          <5>2. queue[i].trip \/ queue[i].cap \in Nat
            <6>1. i \in 1 .. Len(queue) /\ queue \in Seq(TickUpdate \cup {TripEvent})
              BY <1>0, <4>1 DEF TypeOK
            <6>2. queue[i] \in TickUpdate \cup {TripEvent}
              BY <6>1
            <6> QED
              BY <6>2 DEF TickUpdate, TripEvent
          <5> QED
            BY <1>4, <2>4, <5>1, <5>2
        <4>2. CASE i = n + 1
          BY <1>0, <2>3, <2>4, <4>2
        <4> QED
          BY <1>4, <4>1, <4>2
      <3>5. ~r.haveBase => queue'[1].trip \/ queue'[1].cap = 1
        <4>1. CASE queue = <<>>
          BY <1>0, <1>4, <2>3, <3>1, <4>1
        <4>2. CASE queue # <<>>
          <5>1. 1 \in 1 .. n
            BY <1>0, <4>2 DEF TypeOK
          <5> QED
            BY <2>3, <3>1, <4>2, <5>1
        <4> QED
          BY <4>1, <4>2
      <3> QED
        BY <3>1, <3>2, <3>3, <3>4, <3>5
    <2>11. CounterBehind' /\ QueueFits'
      BY <1>2, <1>4, <2>3, <2>4 DEF CounterBehind, QueueFits
    <2> QED
      BY <1>1, <1>2, <1>3, <1>4, <2>8, <2>9, <2>10, <2>11
      DEF Accounted, CapHeld, NoTickYet
  <1>6. CASE conn # "up"
    <2>1. queue' = queue /\ cached' = cached
      BY <1>6 DEF Period
    <2>2. Grows(TripEvent)
      BY <2>1, TripGrows
    <2>3. \A x \in Nat : Excused(x)' \in Int /\ Excused(x) <= Excused(x)'
      BY <1>2, <1>4, <1>6, <2>1, ExcusesStand
    <2>4. Covered(flow)
      BY <1>1, <1>2, <1>3, <1>4, <2>3 DEF Covered
    <2>5. Readings'
      BY <1>2, <1>3, <1>4, <2>1, <2>2, <2>4, ReadingsStand DEF Accounted
    <2>6. CounterBehind'
      BY <1>1, <1>2, <1>4, <2>1 DEF Accounted, CounterBehind
    <2>7. CachedCounter' /\ Faultless'
      BY <1>2, <1>6 DEF CachedCounter, Faultless, Accounted, Used
    <2>8. QueueFits' /\ CapHeld'
      BY <1>2, <2>1 DEF QueueFits, CapHeld, Accounted
    <2>9. NoTickYet'
      BY <1>1, <1>2, <1>3, <1>4 DEF NoTickYet, Accounted
    <2> QED
      BY <2>5, <2>6, <2>7, <2>8, <2>9 DEF Accounted
  <1> QED
    BY <1>5, <1>6

\* What a tick that does not end the run tells about the counter.
LEMMA TickRead ==
  ASSUME TypeOK, TakesTick, Running'
  PROVE  /\ Head(queue).cap \in Nat
         /\ r'.haveBase /\ r'.last = Head(queue).cap
         /\ r'.base = IF r.haveBase THEN r.base ELSE Head(queue).cap
         /\ r.haveBase => r.last <= Head(queue).cap
         /\ r'.last - r'.base <= CapCap
         /\ Writing' = Writing
  <1>1. PICK volts \in Volts, current \in Current, cc \in BOOLEAN :
          LET t == Reading(volts, current)
          IN t.cap \in Nat /\ t.dt \in 1 .. Longest + 1 /\ Ends(t, cc)
    BY TickTaken
  <1> DEFINE t == Reading(volts, current)
             s == Aged(t)
             n == Observed(t, cc)
  <1>2. t.cap \in Nat /\ t.dt \in 1 .. Longest + 1 /\ Ends(t, cc) /\ t.cap = Head(queue).cap
    BY <1>1 DEF Reading
  <1> HIDE DEF t
  <1>3. s \in RunState /\ n \in RunState
    BY <1>2, TickStates
  <1>4. /\ s.haveBase
        /\ s.base = IF r.haveBase THEN r.base ELSE t.cap
        /\ s.last = IF r.haveBase THEN r.last ELSE t.cap
    BY DEF Aged, TypeOK, RunState
  <1>5. n.haveBase /\ n.base = s.base /\ n.last = t.cap
    <2> DEFINE m == [s EXCEPT !.last = t.cap]
               o == Onset(m, t, cc)
    <2>1. m \in RunState /\ m.haveBase /\ m.base = s.base /\ m.last = t.cap
      BY <1>2, <1>3, <1>4 DEF RunState
    <2>2. o \in RunState
      BY <1>2, <2>1, RunStateKept
    <2> HIDE DEF s, m
    <2>3. o.haveBase /\ o.base = s.base /\ o.last = t.cap
      BY <2>1 DEF Onset, RunState
    <2>4. n = Hold(o, t)
      BY DEF Observed, s, m
    <2> HIDE DEF o
    <2> QED
      BY <2>2, <2>3, <2>4 DEF Hold, RunState
  <1> HIDE DEF s, n
  <1>6. Envelope(s, t) = "none" /\ at = "wait" /\ at' # "cut"
    BY <1>2 DEF Ends, EndWith, Running, TakesTick, s
  <1>7. ~(t.cap < s.last) /\ ~(t.cap - s.base > CapCap)
    BY <1>6 DEF Envelope
  <1>8. \/ r' = n /\ idx' = idx /\ at' = at
        \/ r' = NewPhase(n) /\ idx' = idx + 1 /\ at' = "setVoltage" /\ idx # Len(plan)
    BY <1>2, <1>6 DEF Ends, NextPhase, EndWith, s, n
  <1>9. r'.haveBase /\ r'.base = s.base /\ r'.last = t.cap
    BY <1>3, <1>5, <1>8 DEF NewPhase, RunState
  <1>10. Writing' = Writing
    BY <1>6, <1>8, PlanShape DEF Writing
  <1>11. s.base \in Nat /\ s.last \in Nat /\ CapCap \in Nat
    BY <1>3, TimesAssumption DEF RunState
  <1>12. r'.last - r'.base <= CapCap
    BY <1>2, <1>7, <1>9, <1>11
  <1>13. r.haveBase => r.last <= t.cap
    BY <1>2, <1>4, <1>7, <1>11
  <1> QED
    BY <1>2, <1>4, <1>9, <1>10, <1>12, <1>13

\* A tick taken is the last reading, and those that wait move up by one.
LEMMA TickAccounts ==
  ASSUME TypeOK, TypeOK', Accounted, TakesTick, Running'
  PROVE  Accounted'
  <1>0. PICK n, cap : n = Len(queue) /\ cap = Head(queue).cap
    OBVIOUS
  <1>1. /\ cap \in Nat /\ r'.haveBase /\ r'.last = cap
        /\ r'.base = IF r.haveBase THEN r.base ELSE cap
        /\ r.haveBase => r.last <= cap
        /\ r'.last - r'.base <= CapCap /\ Writing' = Writing
    BY <1>0, TickRead
  <1>2. /\ UNCHANGED <<cached, conn, output, counter, faults, given>> /\ silent' = 0
        /\ queue' = Tail(queue) /\ queue # <<>> /\ ~queue[1].trip /\ queue[1].cap = cap
    BY <1>0 DEF TakesTick, device, TypeOK
  <1>3. /\ n \in Nat \ {0} /\ Len(queue') = n - 1
        /\ \A i \in 1 .. n - 1 : queue'[i] = queue[i + 1]
    <2>1. queue \in Seq(Update)
      BY DEF TypeOK, Update
    <2> QED
      BY <1>0, <1>2, <2>1
  <1>4. /\ given \in Nat /\ silent \in Nat /\ silent <= Stale /\ Stale \in Nat /\ Writing \in Nat
        /\ r.base \in Nat /\ r.last \in Nat /\ cached.cap \in Nat
        /\ QueueSize \in Nat \ {0} /\ Used \in 0 .. MaxFaults
    BY Figures
  <1>5. \A i \in 1 .. n : queue[i].trip \/ queue[i].cap \in Nat
    <2> TAKE i \in 1 .. n
    <2>1. i \in 1 .. Len(queue) /\ queue \in Seq(TickUpdate \cup {TripEvent})
      BY <1>0 DEF TypeOK
    <2>2. queue[i] \in TickUpdate \cup {TripEvent}
      BY <2>1
    <2> QED
      BY <2>2 DEF TickUpdate, TripEvent
  \* The readings move up.
  <1>6. /\ Seen(0)' = cap
        /\ \A i \in 0 .. n - 1 : Seen(i)' = queue[i + 1].cap
        /\ \A i \in 1 .. n : Seen(i) = queue[i].cap
    <2>1. Seen(0)' = cap
      BY <1>1 DEF Seen
    <2>2. \A i \in 1 .. n : Seen(i) = queue[i].cap
      BY <1>3 DEF Seen
    <2>3. ASSUME NEW i \in 0 .. n - 1 PROVE Seen(i)' = queue[i + 1].cap
      <3>1. CASE i = 0
        BY <1>2, <2>1, <3>1
      <3>2. CASE i # 0
        BY <1>3, <3>2 DEF Seen
      <3> QED
        BY <3>1, <3>2
    <2> QED
      BY <2>1, <2>2, <2>3
  <1>7. ASSUME NEW i \in 0 .. n - 1, Chain(i)'
        PROVE  /\ ~queue[i + 1].trip /\ Seen(i)' \in Nat /\ cap <= Seen(i)'
               /\ i + 1 \in 0 .. QueueSize
    <2>1. ~queue[i + 1].trip
      <3>1. CASE i = 0
        BY <1>2, <3>1
      <3>2. CASE i # 0
        <4>1. i \in 1 .. i /\ queue'[i] = queue[i + 1]
          BY <1>3, <3>2
        <4> QED
          BY <1>7, <4>1 DEF Chain
      <3> QED
        BY <3>1, <3>2
    <2>2. Seen(i)' \in Nat
      BY <1>3, <1>5, <1>6, <2>1
    <2>3. cap <= Seen(i)'
      <3>1. CASE i = 0
        BY <1>1, <1>6, <3>1
      <3>2. CASE i # 0
        <4>1. i \in 1 .. i /\ 0 \in 0 .. i - 1
          BY <1>3, <3>2
        <4> QED
          BY <1>6, <1>7, <4>1 DEF Chain
      <3> QED
        BY <3>1, <3>2
    <2>4. i + 1 <= QueueSize
      BY <1>0, <1>3, <1>4, <2>1 DEF Accounted, QueueFits
    <2> QED
      BY <1>3, <1>4, <2>1, <2>2, <2>3, <2>4
  <1>8. ASSUME NEW x \in Nat
        PROVE  Excused(x)' = Excused(x) /\ Excused(x) \in Int
    BY <1>2, ExcusedFacts DEF Excused, Spent, Used
  <1>9. Spent(Used)' = Spent(Used) /\ Spent(Used) \in Int /\ 0 <= Spent(Used)
    BY <1>2, <1>4, ExcusedFacts, SpentFacts DEF Spent, Used
  <1>10. ASSUME NEW i \in 0 .. n - 1
         PROVE  /\ Allowed(i)' = Waits(i) + Writing + Excused(Seen(i))'
                /\ Waits(i) = Waits(i + 1) + Stale /\ Waits(i) \in Int /\ Waits(i + 1) \in Int
    <2>1. i \in Nat /\ i + 1 \in Nat
      BY <1>3
    <2>2. Waits(i) = Waits(i + 1) + Stale /\ Waits(i) \in Int /\ Waits(i + 1) \in Int
      BY <2>1, WaitsFacts
    <2>3. Allowed(i)' = Waits(i) + Writing + 0 + Excused(Seen(i))'
      BY <1>1, <1>2 DEF Allowed
    <2>4. Waits(i) + Writing + 0 = Waits(i) + Writing
      BY <1>4, <2>2
    <2> QED
      BY <2>2, <2>3, <2>4
  <1>11. Readings' /\ CachedCounter'
    <2>1. CASE r.haveBase
      <3>1. r'.base = r.base /\ r.last <= cap /\ Seen(0) = r.last
        BY <1>1, <2>1 DEF Seen
      <3>2. ASSUME NEW i \in 0 .. n - 1, Chain(i)'
            PROVE  Chain(i + 1) /\ Seen(i + 1) = Seen(i)' /\ i + 1 \in 0 .. n
        <4>1. Seen(i + 1) = Seen(i)' /\ i + 1 \in 0 .. n
          BY <1>3, <1>6
        <4>2. ASSUME NEW j \in 1 .. i + 1, NEW k \in 0 .. j - 1
              PROVE  ~queue[j].trip /\ Seen(k) <= Seen(j)
          <5>1. CASE j = 1
            BY <1>2, <1>3, <1>6, <3>1, <4>2, <5>1
          <5>2. CASE j # 1
            <6>0. /\ j - 1 \in 1 .. i /\ j - 1 \in 0 .. n - 1 /\ j - 1 \in 1 .. n - 1
                  /\ j \in 1 .. n /\ (j - 1) + 1 = j
              BY <1>3, <5>2
            <6>1. /\ j - 1 \in 1 .. i /\ j - 1 \in 0 .. n - 1 /\ j \in 1 .. n
                  /\ queue'[j - 1] = queue[j] /\ Seen(j - 1)' = Seen(j)
              BY <1>3, <1>6, <6>0
            <6>2. ~queue[j].trip /\ \A m \in 0 .. (j - 1) - 1 : Seen(m)' <= Seen(j)
              BY <3>2, <6>1 DEF Chain
            <6>3. CASE k = 0
              <7>1. Seen(0)' <= Seen(j)
                BY <1>3, <6>1, <6>2, <5>2
              <7>2. Seen(j) \in Nat
                BY <1>5, <1>6, <6>1, <6>2
              <7> QED
                BY <1>1, <1>4, <1>6, <3>1, <6>2, <6>3, <7>1, <7>2
            <6>4. CASE k # 0
              <7>1. k - 1 \in 0 .. (j - 1) - 1 /\ k - 1 \in 0 .. n - 1 /\ k \in 1 .. n
                BY <1>3, <3>2, <6>1, <6>4
              <7>2. Seen(k - 1)' = Seen(k)
                BY <1>6, <7>1
              <7> QED
                BY <6>2, <7>1, <7>2
            <6> QED
              BY <6>3, <6>4
          <5> QED
            BY <5>1, <5>2
        <4> QED
          BY <4>1, <4>2 DEF Chain
      <3>3. Readings'
        <4> SUFFICES ASSUME NEW i \in 0 .. n - 1, Chain(i)'
                     PROVE  Unseen(Seen(i))' <= Allowed(i)'
          BY <1>3 DEF Readings
        <4>1. PICK x \in Nat : x = Seen(i)' /\ x = Seen(i + 1)
          BY <1>7, <3>2
        <4>2. Unseen(Seen(i + 1)) <= Allowed(i + 1)
          BY <1>0, <2>1, <3>2 DEF Accounted, Readings
        <4>3. Unseen(Seen(i))' = given - (x - r.base) /\ Unseen(Seen(i + 1)) = given - (x - r.base)
          BY <1>2, <3>1, <4>1 DEF Unseen
        <4>4. Allowed(i + 1) = Waits(i + 1) + Writing + silent + Excused(x)
          BY <4>1 DEF Allowed
        <4>5. Allowed(i)' = Waits(i) + Writing + Excused(x) /\ Excused(x) \in Int
          <5>1. Excused(Seen(i))' = Excused(x)
            BY <1>8, <4>1 DEF Excused
          <5> QED
            BY <1>8, <1>10, <5>1
        <4>6. /\ Waits(i) = Waits(i + 1) + Stale /\ Waits(i) \in Int /\ Waits(i + 1) \in Int
          BY <1>10
        <4>7. Waits(i + 1) + Writing + silent + Excused(x) <= Waits(i) + Writing + Excused(x)
          BY <1>4, <4>5, <4>6
        <4>8. /\ given - (x - r.base) \in Int /\ Allowed(i + 1) \in Int /\ Allowed(i)' \in Int
              /\ Allowed(i + 1) <= Allowed(i)'
          BY <1>4, <4>4, <4>5, <4>6, <4>7
        <4> QED
          BY <4>2, <4>3, <4>8
      <3>4. CachedCounter'
        <4> SUFFICES ASSUME conn = "up", Chain(n - 1)', Seen(n - 1)' <= cached.cap
                     PROVE  Unseen(cached.cap)' <= Writing' + Spent(Used)'
          BY <1>2, <1>3 DEF CachedCounter
        <4>1. n - 1 \in 0 .. n - 1 /\ (n - 1) + 1 = n
          BY <1>3
        <4>2. Chain(n) /\ Seen(n) <= cached.cap
          BY <3>2, <4>1
        <4>3. Unseen(cached.cap) <= Writing + Spent(Used)
          BY <1>0, <2>1, <4>2 DEF Accounted, CachedCounter
        <4>4. Unseen(cached.cap)' = Unseen(cached.cap)
          BY <1>2, <3>1 DEF Unseen
        <4> QED
          BY <1>1, <1>9, <4>3, <4>4
      <3> QED
        BY <3>3, <3>4
    <2>2. CASE ~r.haveBase
      <3>1. r'.base = cap /\ given <= Writing + silent
        BY <1>1, <2>2 DEF Accounted, NoTickYet
      <3>2. Used = 0 => /\ conn = "up" /\ cached.cap = given + 1 /\ cap = 1
                        /\ \A i \in 1 .. n : queue[i].trip \/ queue[i].cap <= cached.cap
        BY <1>0, <1>2, <2>2 DEF Accounted, Faultless
      <3>3. Used # 0 => /\ Used - 1 \in 0 .. MaxFaults /\ 0 <= Spent(Used - 1)
                        /\ Spent(Used - 1) = Spent(Used) - Blind /\ Spent(Used - 1) \in Int
        <4>1. Used # 0 => Used - 1 \in 0 .. MaxFaults
          BY <1>4, TimesAssumption
        <4>2. Spent(Used - 1) = Spent(Used) - Blind /\ Spent(Used - 1) \in Int
          BY <1>4, ExcusedFacts
        <4> QED
          BY <4>1, <4>2, SpentFacts
      <3>4. Readings'
        <4> SUFFICES ASSUME NEW i \in 0 .. n - 1, Chain(i)'
                     PROVE  Unseen(Seen(i))' <= Allowed(i)'
          BY <1>3 DEF Readings
        <4>1. PICK x \in Nat : x = Seen(i)' /\ cap <= x /\ x = queue[i + 1].cap
          BY <1>6, <1>7
        <4>2. Unseen(Seen(i))' = given - (x - cap)
          BY <1>2, <3>1, <4>1 DEF Unseen
        <4>3. Allowed(i)' = Waits(i) + Writing + Excused(x) /\ Excused(x) \in Int
          <5>1. Excused(Seen(i))' = Excused(x)
            BY <1>8, <4>1 DEF Excused
          <5> QED
            BY <1>8, <1>10, <5>1
        <4>4. Stale <= Waits(i) /\ Waits(i) \in Int
          <5>1. 0 <= Waits(i + 1)
            BY <1>7, WaitsFacts
          <5> QED
            BY <1>4, <1>10, <5>1
        <4>5. 0 <= Excused(x)
          <5>1. CASE Used = 0
            <6>1. i + 1 \in 1 .. n /\ ~queue[i + 1].trip
              BY <1>3, <1>7
            <6>2. x <= cached.cap /\ conn = "up"
              BY <3>2, <4>1, <5>1, <6>1
            <6> QED
              BY <1>9, <6>2, ExcusedFacts
          <5>2. CASE Used # 0
            <6>1. Excused(x) = Spent(Used) \/ Excused(x) = Spent(Used - 1)
              BY ExcusedFacts
            <6> QED
              BY <1>9, <3>3, <5>2, <6>1
          <5> QED
            BY <5>1, <5>2
        <4>6. given - (x - cap) <= Waits(i) + Writing + Excused(x)
          <5>1. given - (x - cap) \in Int /\ given - (x - cap) <= given
            BY <1>1, <1>4, <4>1
          <5>2. given <= Writing + Stale
            BY <1>4, <3>1
          <5>3. /\ Writing + Stale <= Waits(i) + Writing + Excused(x)
                /\ Waits(i) + Writing + Excused(x) \in Int
            BY <1>4, <4>3, <4>4, <4>5
          <5> QED
            BY <1>4, <5>1, <5>2, <5>3
        <4> QED
          BY <4>2, <4>3, <4>6
      <3>5. CachedCounter'
        <4> SUFFICES ASSUME Chain(n - 1)', Seen(n - 1)' <= cached.cap
                     PROVE  Unseen(cached.cap)' <= Writing' + Spent(Used)'
          BY <1>2, <1>3 DEF CachedCounter
        <4>1. Unseen(cached.cap)' = given - (cached.cap - cap)
          BY <1>2, <3>1 DEF Unseen
        <4>2. cap <= cached.cap
          <5>1. n - 1 \in 0 .. n - 1
            BY <1>3
          <5>2. cap <= Seen(n - 1)' /\ Seen(n - 1)' \in Nat
            BY <1>7, <5>1
          <5> QED
            BY <1>1, <1>4, <5>2
        <4>3. given - (cached.cap - cap) <= Writing + Spent(Used)
          <5>1. CASE Used = 0
            BY <1>4, <1>9, <3>2, <5>1
          <5>2. CASE Used # 0
            <6>1. Blind \in Nat /\ Stale <= Blind
              BY WaitsFacts
            <6>2. Blind <= Spent(Used)
              BY <1>9, <3>3, <5>2, <6>1
            <6>3. given <= Writing + Spent(Used)
              BY <1>4, <1>9, <3>1, <6>1, <6>2
            <6>4. given - (cached.cap - cap) <= given /\ given - (cached.cap - cap) \in Int
              BY <1>1, <1>4, <4>2
            <6> QED
              BY <1>4, <1>9, <6>3, <6>4
          <5> QED
            BY <5>1, <5>2
        <4> QED
          BY <1>1, <1>9, <4>1, <4>3
      <3> QED
        BY <3>4, <3>5
    <2> QED
      BY <2>1, <2>2
  <1>12. Faultless'
    <2> SUFFICES ASSUME Used = 0
                 PROVE  /\ conn = "up" /\ output # "off" /\ counter = given + 1
                        /\ cached.cap = counter
                        /\ \A i \in 1 .. n - 1 : queue'[i].trip \/ queue'[i].cap <= cached.cap
      BY <1>1, <1>2, <1>3 DEF Faultless, Used
    <2>1. /\ conn = "up" /\ output # "off" /\ counter = given + 1 /\ cached.cap = counter
          /\ \A i \in 1 .. n : queue[i].trip \/ queue[i].cap <= cached.cap
      BY <1>0 DEF Accounted, Faultless
    <2> QED
      BY <1>3, <2>1
  <1>13. CounterBehind' /\ CapHeld' /\ NoTickYet'
    BY <1>1, <1>2 DEF Accounted, CounterBehind, CapHeld, NoTickYet
  <1>14. QueueFits'
    BY <1>0, <1>3, <1>4 DEF Accounted, QueueFits
  <1> QED
    BY <1>11, <1>12, <1>13, <1>14 DEF Accounted

\* A write lasts no longer than the stale timer, and the timer starts over after it.
LEMMA WriteAccounts ==
  ASSUME TypeOK, Accounted, SetVoltage \/ SetCurrent, Running'
  PROVE  Accounted'
  <1> USE DEF hub, device, observed
  <1>1. /\ UNCHANGED <<r, idx, queue, cached, conn, output, counter, faults, given>>
        /\ \/ at = "setVoltage" /\ at' = "setCurrent" /\ silent' = silent
           \/ at = "setCurrent" /\ at' = "wait" /\ silent' = 0
    BY DEF SetVoltage, SetCurrent, EndWith, Running
  <1>2. /\ given \in Nat /\ silent \in Nat /\ silent <= Stale /\ Stale \in Nat
        /\ Writing \in Nat /\ cached.cap \in Nat
    BY Figures
  <1>3. /\ Writing' \in Nat /\ Writing <= Writing'
        /\ Writing + silent <= Writing' + silent' /\ silent' \in Nat
    <2>1. CASE at = "setVoltage" /\ at' = "setCurrent" /\ silent' = silent
      <3>1. Writing' = Writing
        BY <1>1, <2>1 DEF Writing
      <3> QED
        BY <1>2, <2>1, <3>1
    <2>2. CASE at = "setCurrent" /\ at' = "wait" /\ silent' = 0
      <3>1. Writing' = Writing + Stale
        BY <1>1, <1>2, <2>2 DEF Writing
      <3> QED
        BY <1>2, <2>2, <3>1
    <2> QED
      BY <1>1, <2>1, <2>2
  <1>4. Grows(TripEvent)
    BY <1>1, TripGrows
  <1>5. \A x \in Nat : Excused(x)' \in Int /\ Excused(x) <= Excused(x)'
    BY <1>1, <1>2, ExcusesStand
  <1>6. Covered(0)
    <2>1. given' = given + 0 /\ Writing + silent + 0 = Writing + silent
      BY <1>1, <1>2
    <2> QED
      BY <1>3, <1>5, <2>1 DEF Covered
  <1>7. Readings'
    BY <1>1, <1>3, <1>4, <1>6, ReadingsStand DEF Accounted
  <1>8. CachedCounter'
    <2> SUFFICES ASSUME r.haveBase, conn = "up", Chain(Len(queue)), Seen(Len(queue)) <= cached.cap
                 PROVE  Unseen(cached.cap)' <= Writing' + Spent(Used)'
      BY <1>1 DEF CachedCounter, Chain, Seen
    <2>1. Unseen(cached.cap) <= Writing + Spent(Used)
      BY DEF Accounted, CachedCounter
    <2>2. Unseen(cached.cap)' = Unseen(cached.cap) /\ Spent(Used)' = Spent(Used)
      BY <1>1 DEF Unseen, Spent, Used
    <2>3. Unseen(cached.cap) \in Int /\ Spent(Used) \in Int
      <3>1. r.base \in Nat
        BY Figures
      <3> QED
        BY <1>2, <3>1, ExcusedFacts, SMTT(30) DEF Unseen
    <2> QED
      BY <1>2, <1>3, <2>1, <2>2, <2>3
  <1>9. NoTickYet'
    <2> DEFINE then == Writing + silent
               now == Writing' + silent'
    <2>1. then \in Int /\ now \in Int /\ then <= now
      <3>1. \A a, b \in Nat : a + b \in Int
        OBVIOUS
      <3>2. then \in Int /\ now \in Int
        BY <1>2, <1>3, <3>1
      <3> QED
        BY <1>3, <3>2
    <2>2. ~r.haveBase => given <= then /\ idx = 1
      BY DEF Accounted, NoTickYet
    <2> HIDE DEF then, now
    <2>3. ~r.haveBase => given <= now
      BY <1>2, <2>1, <2>2
    <2>4. ~r'.haveBase => given' <= now /\ idx' = 1
      BY <1>1, <2>2, <2>3
    <2> QED
      BY <2>4 DEF NoTickYet, now
  <1>10. CapHeld' /\ CounterBehind' /\ QueueFits'
    BY <1>1 DEF Accounted, CapHeld, CounterBehind, QueueFits
  <1>11. Faultless'
    BY <1>1 DEF Accounted, Faultless, Used
  <1> QED
    BY <1>7, <1>8, <1>9, <1>10, <1>11 DEF Accounted

LEMMA ChargeInit == Init => ChargeInv
  <1> SUFFICES ASSUME Init PROVE ChargeInv
    OBVIOUS
  <1>0. TypeOK
    BY TypeInit
  <1>1. /\ r.haveBase = FALSE /\ queue = <<>> /\ Len(queue) = 0 /\ conn = "up" /\ output = "on"
        /\ counter = 1 /\ cached.cap = 1 /\ given = 0 /\ idx = 1 /\ silent = 0
        /\ at = "setVoltage"
    BY DEF Init, NewRun
  <1>2. Writing = 0
    BY <1>1 DEF Writing
  <1>3. Accounted
    BY <1>1, <1>2, TimesAssumption
    DEF Accounted, CapHeld, Readings, CachedCounter, NoTickYet, CounterBehind, Faultless,
        QueueFits
  <1> QED
    BY <1>0, <1>3, BoundFollows DEF ChargeInv

LEMMA ChargeStep == TypeOK /\ ChargeInv /\ [Next]_vars => ChargeInv'
  <1> SUFFICES ASSUME TypeOK, ChargeInv, [Next]_vars PROVE ChargeInv'
    OBVIOUS
  <1>1. TypeOK'
    BY TypeStep
  <1>2. ASSUME Running, Running', Next PROVE Accounted'
    <2>1. Accounted
      BY <1>2 DEF ChargeInv
    <2>2. CASE Environment
      BY <1>1, <2>1, <2>2, PeriodAccounts, TripAccounts, RefreshAccounts, FaultAccounts,
         ResumesAccounts, UserAccounts DEF Environment
    <2>3. CASE Step
      <3>1. SetVoltage \/ SetCurrent \/ TakesTick
        BY <1>2, <2>3 DEF Step, Receive, GoesStale, TakesTrip, Aborts, CutOutput, EndWith, Running
      <3> QED
        BY <1>1, <1>2, <2>1, <3>1, WriteAccounts, TickAccounts
    <2> QED
      BY <1>2, <2>2, <2>3 DEF Next
  <1>3. ASSUME ~Running', Next PROVE given' = given
    <2>1. Step
      BY <1>3, SMTT(30) DEF Next, Environment, Period, Trip, Refresh, LinkFails, Resumes, PowerCycle,
                  Panel, Cancel, Running
    <2> QED
      BY <2>1 DEF Step, Receive, SetVoltage, SetCurrent, GoesStale, TakesTrip, TakesTick, Aborts,
                  CutOutput, device
  <1>4. Running' /\ Next => Running
    BY DEF Next, Environment, Step, Receive, Period, Trip, Refresh, LinkFails, Resumes,
           PowerCycle, Panel, Cancel, SetVoltage, SetCurrent, GoesStale, TakesTrip, TakesTick,
           Aborts, CutOutput, Running
  <1>5. CASE Next /\ Running'
    <2>1. Accounted'
      BY <1>2, <1>4, <1>5
    <2>2. OverchargeBounded'
      BY <1>1, <2>1, BoundFollows, PTL
    <2> QED
      BY <2>1, <2>2 DEF ChargeInv
  <1>6. CASE Next /\ ~Running'
    <2>1. given' = given
      BY <1>3, <1>6
    <2> QED
      BY <1>6, <2>1 DEF ChargeInv, OverchargeBounded
  <1>7. CASE UNCHANGED vars
    BY <1>7 DEF vars, ChargeInv, OverchargeBounded, Running, Accounted, CapHeld, Readings,
                CachedCounter, NoTickYet, CounterBehind, Faultless, QueueFits, Chain, Seen,
                Unseen, Allowed, Excused, Writing, Used, Spent
  <1> QED
    BY <1>5, <1>6, <1>7

\* A charge gets no more than its capacity cap and what flows while the run writes its
\* setpoints or is blind, however long its subscription, its timer and its list of faults.
THEOREM OverchargeHolds == Spec => []OverchargeBounded
  <1>1. ChargeInv => OverchargeBounded
    BY DEF ChargeInv
  <1> QED
    BY <1>1, TypeInit, TypeStep, ChargeInit, ChargeStep, PTL DEF Spec
===============================================================================
