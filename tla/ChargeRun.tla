------------------------------ MODULE ChargeRun ------------------------------
(***************************************************************************)
(* The supervision of one charge (charger/run.go) over a compiled plan     *)
(* (charger/charge.go): the goroutine writes the setpoints of a phase,     *)
(* then takes telemetry ticks from its subscription, holds every one       *)
(* against the safety envelope and ends the phase by its own rule.  It     *)
(* starts after Manager.Start has written the first setpoints and has      *)
(* switched the output on.                                                 *)
(*                                                                         *)
(* Time is counted in telemetry periods and the device's Ah counter in     *)
(* what flows at most in one.  A voltage is the band it falls in: below    *)
(* the precharge threshold, between, within vEps of the phase's setpoint,  *)
(* above the ceiling; so is a current: below the taper threshold, between, *)
(* at least 0.9 of the charge current.                                     *)
(*                                                                         *)
(* The last group of variables is not in the code; the properties use it.  *)
(***************************************************************************)
EXTENDS Integers, Sequences

CONSTANTS
  Plans,      \* the sequences of phases to run
  Timeout,    \* of the precharge and of the main phase: phase.timeout
  TaperHold,  \* Manager.taperHold
  Stale,      \* Manager.staleTimeout; a write lasts no longer, either
  CapCap,     \* Limits.CapCapMah
  QueueSize,  \* bound: ticks waiting in the run's subscription
  MaxFaults,  \* bound: failures of the link and power cycles of the device
  Longest     \* bound: an age that is over any of these times

ASSUME PlansAssumption ==
  Plans \subseteq {<<"precharge", "main">>, <<"main", "float">>}
ASSUME TimesAssumption ==
  /\ Timeout \in [{"precharge", "main"} -> Nat]
  /\ TaperHold \in Nat /\ Stale \in Nat \ {0} /\ CapCap \in Nat
  /\ QueueSize \in Nat \ {0} /\ MaxFaults \in Nat
  /\ Longest \in Nat
  /\ \A time \in {Timeout["precharge"], Timeout["main"], TaperHold} : Longest > time

VARIABLES
  plan, idx,     \* Plan.phases and the one that runs
  at,            \* the statement: two writes, nextTick, the teardown
  r,             \* the locals of runPhase and the fields of run
  silent,        \* age of the stale timer, or of the write
  cancelled,     \* the context
  reason,        \* why the run ended
  queue,         \* Hub to run: ticks and trip events
  lag,           \* periods since the last tick, as far as it matters
  cached,        \* Hub: counter and protection
  conn,          \* "up"; "silent": up, nothing gets through; "lost"
  output, amps, counter,  \* the device: relay, current setpoint, Ah
  faults,        \* failures left
  given,         \* what flowed since the output went on
  reached,       \* a tick of the precharge was above its threshold
  taper,         \* how long the ticks of this phase have shown a taper by now
  brisk          \* the last tick was one of the main phase at full current

locals == <<idx, r, reason>>
hub == <<queue, lag, cached>>
device == <<output, amps, counter, faults, given>>
observed == <<reached, taper, brisk>>
vars == <<plan, idx, at, r, silent, cancelled, reason, queue, lag, cached, conn, output, amps,
          counter, faults, given, reached, taper, brisk>>

Cap(n, top) == IF n > top THEN top ELSE n

Kind == plan[idx]
Full(kind) == IF kind = "precharge" THEN "trickle" ELSE "full"

NewPhase(s) == [s EXCEPT !.started = FALSE, !.age = 0, !.holding = FALSE, !.held = 0]
NewRun == [started |-> FALSE, age |-> 0, holding |-> FALSE, held |-> 0, haveBase |-> FALSE,
           base |-> 0, last |-> 0, high |-> 0, captured |-> FALSE]

Init ==
  /\ plan \in Plans /\ idx = 1
  /\ at = "setVoltage"
  /\ r = NewRun
  /\ silent = 0
  /\ cancelled = FALSE /\ reason = "none"
  /\ queue = <<>> /\ lag = 0
  /\ counter = 1
  /\ cached = [cap |-> counter, trip |-> FALSE]
  /\ conn = "up"
  /\ output = "on"
  /\ amps = Full(Head(plan))
  /\ faults = MaxFaults
  /\ given = 0
  /\ reached = FALSE /\ taper = 0 /\ brisk = FALSE

(***************************************************************************)
(* The device, the link and the user.                                      *)
(***************************************************************************)
Running == at \notin {"cut", "ended"}

\* A period passes.  A tick carries the counter and the protection the hub has cached;
\* the new counter follows it.  What it measured is settled when it is read.
Period ==
  /\ Running /\ silent < Stale /\ Len(queue) < QueueSize
  /\ \E flow \in {0, 1} :
       /\ flow = 1 => output = "on"
       /\ counter' = counter + flow /\ given' = given + flow
  /\ IF conn = "up"
     THEN /\ queue' = Append(queue, [trip |-> cached.trip, cap |-> cached.cap, dt |-> lag + 1])
          /\ lag' = 0
          /\ cached' = [cached EXCEPT !.cap = IF output = "on" THEN counter' ELSE @]
     ELSE /\ lag' = Cap(lag + 1, Longest)
          /\ UNCHANGED <<queue, cached>>
  /\ silent' = silent + 1
  /\ UNCHANGED <<plan, at, locals, cancelled, conn, output, amps, faults, observed>>

TripEvent == [trip |-> TRUE]
Room == Len(queue) <= QueueSize

\* The supply's protection opens the relay and says so.
Trip ==
  /\ Running /\ output = "on" /\ Room
  /\ output' = "tripped"
  /\ IF conn = "up"
     THEN queue' = Append(queue, TripEvent) /\ cached' = [cached EXCEPT !.trip = TRUE]
     ELSE UNCHANGED <<queue, cached>>
  /\ UNCHANGED <<plan, at, locals, silent, cancelled, lag, conn, amps, counter, faults, given,
                 observed>>

\* A dump, asked for by a write, by maybeRefresh or by the handshake.
Dumped ==
  /\ cached' = [cap |-> counter, trip |-> output = "tripped"]
  /\ queue' = IF output = "tripped" /\ ~cached.trip THEN Append(queue, TripEvent) ELSE queue

Refresh ==
  /\ Running /\ conn = "up" /\ Room
  /\ cached # [cap |-> counter, trip |-> output = "tripped"]
  /\ Dumped
  /\ UNCHANGED <<plan, at, locals, silent, cancelled, lag, conn, device, observed>>

\* A link that is lost is up again only with a dump.
LinkFails ==
  /\ Running /\ faults > 0 /\ conn # "lost"
  /\ faults' = faults - 1
  /\ conn' \in {"silent", "lost"} \ {conn}
  /\ UNCHANGED <<plan, at, locals, silent, cancelled, hub, output, amps, counter, given, observed>>

Resumes ==
  /\ Running /\ conn # "up" /\ Room
  /\ conn' = "up"
  /\ IF conn = "lost" THEN Dumped ELSE UNCHANGED <<queue, cached>>
  /\ UNCHANGED <<plan, at, locals, silent, cancelled, lag, device, observed>>

\* The device forgets its counter and its session.
PowerCycle ==
  /\ Running /\ faults > 0
  /\ faults' = faults - 1
  /\ output' = "off" /\ counter' = 0
  /\ conn' = "lost"
  /\ UNCHANGED <<plan, at, locals, silent, cancelled, hub, amps, given, observed>>

\* The key on the device's panel.
Panel ==
  /\ Running /\ output = "off"
  /\ output' = "on"
  /\ UNCHANGED <<plan, at, locals, silent, cancelled, hub, conn, amps, counter, faults, given,
                 observed>>

\* Manager.Stop, or the end of the process.
Cancel ==
  /\ Running /\ ~cancelled
  /\ cancelled' = TRUE
  /\ UNCHANGED <<plan, at, locals, silent, hub, conn, device, observed>>

(***************************************************************************)
(* The run.                                                                *)
(***************************************************************************)
EndWith(why) == at' = "cut" /\ reason' = why

\* A write that fails, or whose context is cancelled, is a device that is offline.
SetVoltage ==
  /\ at = "setVoltage"
  /\ \/ conn # "lost" /\ ~cancelled /\ at' = "setCurrent" /\ UNCHANGED reason
     \/ EndWith("device_offline")
  /\ UNCHANGED <<plan, idx, r, silent, cancelled, hub, conn, device, observed>>

SetCurrent ==
  /\ at = "setCurrent"
  /\ \/ conn # "lost" /\ ~cancelled /\ at' = "wait" /\ UNCHANGED reason
     \/ EndWith("device_offline")
  /\ amps' = IF at' = "wait" /\ conn = "up" THEN Full(Kind) ELSE amps
  /\ silent' = 0
  /\ UNCHANGED <<plan, idx, r, cancelled, hub, conn, output, counter, faults, given, observed>>

\* nextTick: the timer, the cancelled context and the updates race.
GoesStale ==
  /\ at = "wait" /\ silent >= Stale
  /\ EndWith("telemetry_stale")
  /\ UNCHANGED <<plan, idx, r, silent, cancelled, hub, conn, device, observed>>

\* Mutant: a float phase only watches its ticks.
AbortsButFloat ==
  /\ at = "wait" /\ cancelled /\ Kind # "float"
  /\ \E cause \in {"stopped", "shutdown"} : EndWith(cause)
  /\ UNCHANGED <<plan, idx, r, silent, cancelled, hub, conn, device, observed>>

Aborts ==
  /\ at = "wait" /\ cancelled
  /\ \E cause \in {"stopped", "shutdown"} : EndWith(cause)
  /\ UNCHANGED <<plan, idx, r, silent, cancelled, hub, conn, device, observed>>

TakesTrip ==
  /\ at = "wait" /\ queue # <<>>
  /\ Head(queue).trip
  /\ queue' = Tail(queue)
  /\ EndWith("protection_trip")
  /\ UNCHANGED <<plan, idx, r, silent, cancelled, lag, cached, conn, device, observed>>

\* The baseline and the ages at a tick.
Aged(t) ==
  [r EXCEPT !.haveBase = TRUE,
            !.base = IF r.haveBase THEN @ ELSE t.cap,
            !.last = IF r.haveBase THEN @ ELSE t.cap,
            !.started = TRUE,
            !.age = IF r.started THEN Cap(@ + t.dt, Longest) ELSE 0,
            !.held = IF r.holding THEN Cap(@ + t.dt, TaperHold) ELSE 0]

\* Mutant: the cap, like the timeout, is not held against a float phase.
EnvelopeBlind(s, t) ==
  IF t.cap < s.last THEN "counter_reset"
  ELSE IF t.volts = "over" THEN "voltage_ceiling"
  ELSE IF Kind # "float" /\ t.cap - s.base > CapCap THEN "capacity_cap"
  ELSE IF Kind # "float" /\ s.age > Timeout[Kind] THEN "timeout"
  ELSE "none"

\* The safety envelope: the first fault it finds.
Envelope(s, t) ==
  IF t.cap < s.last THEN "counter_reset"
  ELSE IF t.volts = "over" THEN "voltage_ceiling"
  ELSE IF t.cap - s.base > CapCap THEN "capacity_cap"
  ELSE IF Kind # "float" /\ s.age > Timeout[Kind] THEN "timeout"
  ELSE "none"

\* Mutant: the count of ticks at full current is not reset outside the main phase.
OnsetCarrying(s, t, cc) ==
  LET high == IF t.current # "high" THEN 0 ELSE Cap(s.high + 1, 2)
  IN IF s.captured THEN s
     ELSE [s EXCEPT !.high = high, !.captured = Kind = "main" /\ high = 2 /\ cc]

\* maybeCaptureCCOnset
Onset(s, t, cc) ==
  LET high == IF Kind # "main" \/ t.current # "high" THEN 0 ELSE Cap(s.high + 1, 2)
  IN IF s.captured THEN s ELSE [s EXCEPT !.high = high, !.captured = high = 2 /\ cc]

Tapers(t) == Kind = "main" /\ t.volts = "cv" /\ t.current = "taper"

\* Mutant: a tick that does not taper leaves the hold as it is.
HoldThroughDips(s, t) ==
  IF Tapers(t) \/ s.holding THEN [s EXCEPT !.holding = TRUE] ELSE s

Hold(s, t) ==
  IF Tapers(t) THEN [s EXCEPT !.holding = TRUE] ELSE [s EXCEPT !.holding = FALSE, !.held = 0]

\* The phase's own end; that of a float never comes.
PhaseOver(s, t) ==
  \/ Kind = "precharge" /\ t.volts # "low"
  \/ Kind = "main" /\ s.holding /\ s.held >= TaperHold

\* drive: the next phase, or the end.
NextPhase(s) ==
  IF idx = Len(plan)
  THEN EndWith("complete") /\ r' = s /\ UNCHANGED idx
  ELSE /\ idx' = idx + 1 /\ at' = "setVoltage"
       /\ r' = NewPhase(s)
       /\ UNCHANGED reason

Volts == {"low", "mid", "cv", "over"}
Current == {"taper", "mid", "high"}

\* A tick: the envelope, the CC onset (cc: the mode it shows), the end of the phase.
TakesTick ==
  /\ at = "wait" /\ queue # <<>>
  /\ ~Head(queue).trip
  /\ \E volts \in Volts, current \in Current, cc \in BOOLEAN :
       LET t == [cap |-> Head(queue).cap, dt |-> Head(queue).dt, volts |-> volts,
                 current |-> current]
           s == Aged(t)
           fault == Envelope(s, t)
           n == Hold(Onset([s EXCEPT !.last = t.cap], t, cc), t)
       IN /\ \/ fault # "none" /\ EndWith(fault) /\ r' = s /\ UNCHANGED idx
             \/ fault = "none" /\ PhaseOver(n, t) /\ NextPhase(n)
             \/ fault = "none" /\ ~PhaseOver(n, t) /\ r' = n /\ UNCHANGED <<idx, at, reason>>
          /\ reached' = (reached \/ (Kind = "precharge" /\ volts # "low"))
          /\ taper' = IF ~Tapers(t) THEN 0 ELSE IF taper = 0 THEN 1
                      ELSE Cap(taper + t.dt, TaperHold + 1)
          /\ brisk' = (Kind = "main" /\ current = "high" /\ ~r.captured)
  /\ queue' = Tail(queue)
  /\ silent' = 0
  /\ UNCHANGED <<plan, cancelled, lag, cached, conn, device>>

\* execute: SafeOutputOff, and a report that confirms it, or an alarm.
CutOutput ==
  /\ at = "cut" /\ at' = "ended"
  /\ \/ output' = "off" /\ UNCHANGED reason
     \/ UNCHANGED output /\ reason' = "output_off_failed"
  /\ UNCHANGED <<plan, idx, r, silent, cancelled, hub, conn, amps, counter, faults, given, observed>>

\* classify, of a run that is over.
Verdict ==
  CASE reason = "complete" -> "completed"
    [] reason = "stopped" -> "stopped"
    [] OTHER -> "aborted"

(***************************************************************************)
(* The specification.                                                      *)
(***************************************************************************)
Environment == Period \/ Trip \/ Refresh \/ LinkFails \/ Resumes \/ PowerCycle \/ Panel \/ Cancel
Receive == GoesStale \/ TakesTrip \/ TakesTick
Step == SetVoltage \/ SetCurrent \/ Receive \/ Aborts \/ CutOutput

Next == Environment \/ Step

Spec == Init /\ [][Next]_vars

\* Time passes and the goroutine is scheduled; select does not pass over a context that
\* stays cancelled for ever.
FairSpec ==
  Spec /\ WF_vars(Period) /\ WF_vars(SetVoltage \/ SetCurrent \/ Receive \/ CutOutput)
       /\ WF_vars(Aborts)
------------------------------------------------------------------------------
(***************************************************************************)
(* Properties.                                                             *)
(***************************************************************************)
RunState ==
  [started : BOOLEAN, age : 0 .. Longest, holding : BOOLEAN, held : 0 .. TaperHold,
   haveBase : BOOLEAN, base : Nat, last : Nat, high : 0 .. 2, captured : BOOLEAN]
TickUpdate == [trip : BOOLEAN, cap : Nat, dt : 1 .. Longest + 1]

TypeOK ==
  /\ plan \in Plans /\ idx \in DOMAIN plan
  /\ at \in {"setVoltage", "setCurrent", "wait", "cut", "ended"}
  /\ r \in RunState
  /\ silent \in 0 .. Stale /\ lag \in 0 .. Longest
  /\ cancelled \in BOOLEAN
  /\ reason = "none" <=> Running
  /\ queue \in Seq(TickUpdate \cup {TripEvent})
  /\ cached \in [cap : Nat, trip : BOOLEAN]
  /\ conn \in {"up", "silent", "lost"}
  /\ output \in {"on", "off", "tripped"} /\ amps \in {"trickle", "full"}
  /\ {counter, given} \subseteq Nat
  /\ faults \in 0 .. MaxFaults
  /\ reached \in BOOLEAN /\ taper \in 0 .. TaperHold + 1 /\ brisk \in BOOLEAN

\* No more flows into the battery than the capacity cap, what can flow while the phases'
\* setpoints are written, and what can flow while the run is blind: while it goes through
\* a full subscription, every tick just before the stale timer, and again for each fault,
\* whether it is a gap in the telemetry or a counter that restarts and has caught up by
\* the next tick.
Blind == (QueueSize + 1) * Stale
OverchargeBounded == given <= CapCap + 2 * Stale + (MaxFaults + 1) * Blind

\* A run that is "completed" was given nothing but tapering ticks of the main phase over
\* taperHold, up to the one that ended it.
CompletedTapered == at = "ended" /\ Verdict = "completed" => Kind = "main" /\ taper > TaperHold

\* A deeply discharged pack gets the full current only after a tick at the precharge
\* threshold, and not because the precharge lasted too long.
TrickleFirst == amps = "full" => Head(plan) = "main" \/ reached

\* The CC onset is captured on the second tick in a row of the main phase at full current,
\* never on one that the precharge left in the count.
OnsetGenuine ==
  [][r'.captured /\ ~r.captured => brisk /\ brisk']_vars

\* A charge without a float phase comes to an end by itself, whatever the device and the
\* link do, and one that is stopped in any case.
RunEnds == Running /\ (cancelled \/ "float" \notin {plan[i] : i \in DOMAIN plan}) ~> at = "ended"
==============================================================================
