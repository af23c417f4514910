----------------------------- MODULE SequenceRun -----------------------------
(***************************************************************************)
(* One run of a stored program (sequence/manager.go): Start, the walk over *)
(* the tree of nodes, the waits on the telemetry and how the run ends.     *)
(* Who owns the output, and how it is switched off, is OutputOwnership's.  *)
(*                                                                         *)
(* A point in time is its age, counted in telemetry periods.  The walk is  *)
(* a stack of what runNodes and its callers have in hand: the turn of      *)
(* their list and the index of its next node.  The last group of variables *)
(* is not in the code; the properties use it.                              *)
(***************************************************************************)
EXTENDS SequenceProgram, Functions

CONSTANTS
  Programs,     \* what clients may try to save
  Edits,        \* bound: and of it, what over a row that is there
  None,         \* no row, no program; a repeat that is left out
  DeviceLimit,  \* the maximum the device reports, Snapshot.Limits
  RampGap,      \* rampMinInterval
  QueueSize,    \* subscriberBuffer
  MaxLag,       \* bound: how far behind the stream the run may be
  MaxAh,        \* bound: where the device's Ah counter stays
  Longest,      \* bound: an age that is over any time a program asks for
  MaxFaults     \* bound: failures of the link and resets of the counter

ASSUME BoundsAssumption ==
  /\ DeviceLimit \in Nat /\ RampGap \in Nat /\ QueueSize \in Nat \ {0} /\ MaxLag \in Nat
  /\ MaxAh \in Nat /\ Longest \in Nat /\ MaxFaults \in Nat

\* What the JSON of a body unmarshals to, of the node types there are.
ASSUME BodiesAssumption ==
  \A body \in Programs \cup Edits : Tree(body.nodes) /\ body.repeat \in Int \cup {None}

VARIABLES
  stored,    \* the row of the sequences table
  edit,      \* what an update that has found the row will save
  program,   \* the run's own copy of it
  pc,        \* the statement
  stack,     \* the walk
  s,         \* the locals of runSetHold and runRamp
  queue,     \* Hub to run
  cause,     \* context.Cause of the run
  state,     \* RunStatus.State
  link,      \* the connection is up
  tripped, seenTrip,  \* the device's protection, and as the hub has cached it
  ah,        \* the device's counter
  faults,    \* failures left
  lag,       \* how far behind the run is
  sent,      \* the last setpoints the run has written
  done,      \* the steps that came to their end
  inForce    \* how long the setpoints of the step have been in force

rows == <<stored, edit>>
device == <<tripped, ah, faults>>
history == <<sent, done, inForce>>
vars == <<stored, edit, program, pc, stack, s, queue, cause, state, link, tripped, seenTrip, ah,
          faults, lag, sent, done, inForce>>

Cap(n, top) == IF n > top THEN top ELSE n
Older(n) == Cap(n + 1, Longest)

Writing == {"energize", "volts", "amps", "ramp"}
Active == pc \in Writing \cup {"next", "wait"}

Fresh == [begun |-> FALSE, start |-> 0, ah |-> 0, holding |-> FALSE, held |-> 0,
          wrote |-> FALSE, last |-> 0, mark |-> 0, val |-> 0, final |-> FALSE]

Init ==
  /\ stored = None /\ edit = None /\ program = None
  /\ pc = "idle" /\ stack = <<>> /\ s = Fresh
  /\ queue = <<>> /\ cause = "none" /\ state = "none"
  /\ link = TRUE /\ tripped = FALSE /\ seenTrip = FALSE /\ ah = 0 /\ faults = MaxFaults
  /\ lag = 0 /\ sent = [t \in Targets |-> 0] /\ done = <<>> /\ inForce = 0

(***************************************************************************)
(* The stored program and the start.                                       *)
(***************************************************************************)
\* parseSequence: what the body asks for, and what of it is refused.
Asked(body) == [repeat |-> IF body.repeat = None THEN 1 ELSE body.repeat, nodes |-> body.nodes]

Create(body) ==
  /\ stored = None /\ Valid(Asked(body)) /\ stored' = Asked(body)
  /\ program = None  \* bound, as in OpenUpdate and Delete: of them under a run there is one save
  /\ UNCHANGED <<edit, program, pc, stack, s, queue, cause, state, link, device, seenTrip, lag,
                 history>>

\* UpdateSequence finds the row ...
OpenUpdate(body) ==
  /\ edit = None /\ stored \notin {None, Asked(body)} /\ Valid(Asked(body)) /\ edit' = Asked(body)
  /\ program = None
  /\ UNCHANGED <<stored, program, pc, stack, s, queue, cause, state, link, device, seenTrip, lag,
                 history>>

\* ... and saves all of it, whatever became of the row.
SaveUpdate ==
  /\ edit # None /\ stored' = edit /\ edit' = None
  /\ UNCHANGED <<program, pc, stack, s, queue, cause, state, link, device, seenTrip, lag, history>>

Delete ==
  /\ stored # None /\ stored' = None
  /\ program = None
  /\ UNCHANGED <<edit, program, pc, stack, s, queue, cause, state, link, device, seenTrip, lag,
                 history>>

\* programFromStored
Loaded(row) == [repeat |-> IF row.repeat < 1 THEN 1 ELSE row.repeat, nodes |-> row.nodes]

\* runSequence and Start up to the subscription; Validate once more.
Start ==
  /\ pc = "idle" /\ stored # None /\ Valid(Loaded(stored))
  /\ program' = Loaded(stored)
  /\ pc' = "energize" /\ state' = "running"
  /\ UNCHANGED <<rows, stack, s, queue, cause, link, device, seenTrip, lag, history>>

\* A hub command: refused outright on a cancelled context or out of the device's
\* limits; what a cancellation that comes in between does is a race.
Reached(val) == link /\ val <= DeviceLimit
Fails(val) == ~Reached(val) \/ cause # "none"

Ends(outcome) ==
  /\ pc' = "ended" /\ state' = outcome
  /\ queue' = <<>> /\ s' = Fresh /\ stack' = <<>>

Begin == [turn |-> 1, at |-> 1]

Energize ==
  /\ pc = "energize"
  /\ \/ /\ Reached(0)
        /\ pc' = "next" /\ stack' = <<Begin>>
        /\ UNCHANGED <<s, queue, state>>
     \/ Fails(0) /\ Ends("none")
  /\ UNCHANGED <<rows, program, cause, link, device, seenTrip, lag, history>>

(***************************************************************************)
(* The walk.                                                               *)
(***************************************************************************)
Place(st) == [i \in DOMAIN st |-> st[i].at]
Top == stack[Len(stack)]
Node == program.nodes[Place(stack)]
AtNode == pc = "next" /\ Place(stack) \in DOMAIN program.nodes
Below == SubSeq(stack, 1, Len(stack) - 1)
Onward(st) == [st EXCEPT ![Len(st)] = [turn |-> @.turn, at |-> @.at + 1]]

\* Mutant: a loop runs its children once more.
AgainOncemore == Top.turn <= Repeats(program, Place(stack), Len(stack))
Again == Top.turn < Repeats(program, Place(stack), Len(stack))

EnterLoop ==
  /\ AtNode /\ Node.type = "loop"
  /\ stack' = Append(stack, Begin)
  /\ UNCHANGED <<rows, program, pc, s, queue, cause, state, link, device, seenTrip, lag, history>>

EndOfList ==
  /\ pc = "next" /\ ~AtNode
  /\ IF Again
     THEN /\ stack' = [stack EXCEPT ![Len(stack)] = [turn |-> @.turn + 1, at |-> 1]]
          /\ UNCHANGED <<pc, state, s, queue>>
     ELSE IF Len(stack) > 1
          THEN stack' = Onward(Below) /\ UNCHANGED <<pc, state, s, queue>>
          ELSE Ends("completed")
  /\ UNCHANGED <<rows, program, cause, link, device, seenTrip, lag, history>>

\* Mutant: the locals of a step outlive it.
LocalsCarried == s
Locals == Fresh

EnterStep ==
  /\ AtNode /\ Node.type # "loop"
  /\ IF Node.type = "setHold" /\ (cause # "none" \/ Node.volts > DeviceLimit)
     THEN Ends("failed")
     ELSE /\ pc' = IF Node.type = "setHold" THEN "volts" ELSE "wait"
          /\ s' = Locals
          /\ UNCHANGED <<stack, queue, state>>
  /\ inForce' = 0
  /\ UNCHANGED <<rows, program, cause, link, device, seenTrip, lag, sent, done>>

WriteVolts ==
  /\ pc = "volts"
  /\ \/ /\ Reached(Node.volts)
        /\ sent' = [sent EXCEPT !["voltage"] = Node.volts]
        /\ IF cause # "none" \/ Node.amps > DeviceLimit
           THEN Ends("failed")
           ELSE pc' = "amps" /\ UNCHANGED <<stack, s, queue, state>>
     \/ Fails(Node.volts) /\ Ends("failed") /\ UNCHANGED sent
  /\ UNCHANGED <<rows, program, cause, link, device, seenTrip, lag, done, inForce>>

WriteAmps ==
  /\ pc = "amps"
  /\ \/ /\ Reached(Node.amps)
        /\ sent' = [sent EXCEPT !["current"] = Node.amps]
        /\ pc' = "wait" /\ UNCHANGED <<stack, s, queue, state>>
     \/ Fails(Node.amps) /\ Ends("failed") /\ UNCHANGED sent
  /\ inForce' = 0
  /\ UNCHANGED <<rows, program, cause, link, device, seenTrip, lag, done>>

StepDone ==
  /\ done' = Append(done, stack)
  /\ stack' = Onward(stack) /\ pc' = "next" /\ UNCHANGED s

(***************************************************************************)
(* nextTelemetry and what the steps make of a tick.                        *)
(***************************************************************************)
Cancelled ==
  /\ pc = "wait" /\ cause # "none"
  /\ Ends(IF cause = "stop" THEN "stopped" ELSE "aborted")
  /\ UNCHANGED <<rows, program, cause, link, device, seenTrip, lag, history>>

TakeTrip ==
  /\ pc = "wait" /\ queue # <<>> /\ Head(queue).trip
  /\ Ends("aborted")
  /\ UNCHANGED <<rows, program, cause, link, device, seenTrip, lag, history>>

Tick == Head(queue)
Since(age) == age - Tick.age  \* t.TS.Sub

\* observe: the baseline is the first tick, and a hold starts again after a tick over it.
Observed ==
  LET b == IF s.begun THEN s ELSE [s EXCEPT !.begun = TRUE, !.start = Tick.age, !.ah = Tick.ah]
  IN IF ~Tick.low THEN [b EXCEPT !.holding = FALSE]
     ELSE IF b.holding THEN b ELSE [b EXCEPT !.holding = TRUE, !.held = Tick.age]

Met(n, o) ==
  CASE n.advance = "currentBelow" -> o.holding /\ Since(o.held) >= n.need
    [] n.advance = "elapsedAbove" -> Since(o.start) >= n.need
    [] n.advance = "capacityAbove" -> Tick.ah >= o.ah + n.need

HoldTick ==
  /\ pc = "wait" /\ queue # <<>> /\ ~Tick.trip /\ Node.type = "setHold"
  /\ queue' = Tail(queue)
  /\ IF Met(Node, Observed) THEN StepDone ELSE s' = Observed /\ UNCHANGED <<stack, pc, done>>
  /\ UNCHANGED <<rows, program, cause, state, link, device, seenTrip, lag, sent, inForce>>

Between(n, elapsed) ==
  IF n.to >= n.from
  THEN n.from + ((n.to - n.from) * elapsed) \div n.seconds
  ELSE n.from - ((n.from - n.to) * elapsed) \div n.seconds

\* Mutant: a ramp is over with the last write that has room before its end.
AtEndNearly(elapsed, n) == elapsed + RampGap > n.seconds
AtEnd(elapsed, n) == elapsed = n.seconds
Throttled(final, b) == ~final /\ b.wrote /\ Since(b.last) < RampGap

RampTick ==
  /\ pc = "wait" /\ queue # <<>> /\ ~Tick.trip /\ Node.type = "ramp"
  /\ queue' = Tail(queue)
  /\ LET b == IF s.begun THEN s ELSE [s EXCEPT !.begun = TRUE, !.start = Tick.age]
         elapsed == Cap(Since(b.start), Node.seconds)
         final == AtEnd(elapsed, Node)
     IN IF Throttled(final, b)
        THEN s' = b /\ UNCHANGED <<pc, stack, state>>
        ELSE IF cause # "none" \/ Between(Node, elapsed) > DeviceLimit
             THEN pc' = "ended" /\ state' = "failed" /\ s' = Fresh /\ stack' = <<>>
             ELSE /\ s' = [b EXCEPT !.val = Between(Node, elapsed), !.final = final,
                                    !.mark = Tick.age]
                  /\ pc' = "ramp" /\ UNCHANGED <<stack, state>>
  /\ UNCHANGED <<rows, program, cause, link, device, seenTrip, lag, history>>

WriteRamp ==
  /\ pc = "ramp"
  /\ \/ /\ Reached(s.val)
        /\ sent' = [sent EXCEPT ![Node.target] = s.val]
        /\ IF s.final
           THEN StepDone
           ELSE /\ s' = [s EXCEPT !.wrote = TRUE, !.last = s.mark, !.mark = 0, !.val = 0]
                /\ pc' = "wait" /\ UNCHANGED <<stack, done>>
        /\ UNCHANGED <<state, queue>>
     \/ Fails(s.val) /\ Ends("failed") /\ UNCHANGED <<sent, done>>
  /\ UNCHANGED <<rows, program, cause, link, device, seenTrip, lag, inForce>>

(***************************************************************************)
(* The user, the process, the device and time.                             *)
(***************************************************************************)
Rest == <<rows, program, pc, stack, s, state, lag, history>>

Cancel(c) ==
  /\ Active /\ cause = "none" /\ cause' = c
  /\ UNCHANGED <<Rest, queue, link, device, seenTrip>>

Offer(q, what) == IF Len(q) < QueueSize THEN Append(q, what) ELSE q

Announce(what) == IF Active THEN Offer(queue, what) ELSE queue
TripEvent == [trip |-> TRUE]

Trip ==
  /\ Active /\ ~tripped /\ tripped' = TRUE
  /\ IF link THEN seenTrip' = TRUE /\ queue' = Announce(TripEvent) ELSE UNCHANGED <<seenTrip, queue>>
  /\ UNCHANGED <<Rest, cause, link, ah, faults>>

LinkDown ==
  /\ Active /\ link /\ faults > 0 /\ link' = FALSE /\ faults' = faults - 1
  /\ UNCHANGED <<Rest, queue, cause, tripped, seenTrip, ah>>

\* The dump of the new session shows a protection that tripped meanwhile.
LinkUp ==
  /\ Active /\ ~link /\ link' = TRUE
  /\ seenTrip' = tripped
  /\ queue' = IF tripped /\ ~seenTrip THEN Announce(TripEvent) ELSE queue
  /\ UNCHANGED <<Rest, cause, device>>

\* The device restarts, or somebody resets its metering.
MeterResets ==
  /\ Active /\ ah > 0 /\ faults > 0 /\ ah' = 0 /\ faults' = faults - 1
  /\ UNCHANGED <<Rest, queue, cause, link, tripped, seenTrip>>

\* Mutant: a tick does not carry the protection.
TelemetryBare(low) == [trip |-> FALSE, age |-> 0, low |-> low, ah |-> ah]
Telemetry(low) == [trip |-> seenTrip, age |-> 0, low |-> low, ah |-> ah]
Aged(q) == [i \in DOMAIN q |-> IF "age" \in DOMAIN q[i] THEN [q[i] EXCEPT !.age = Older(@)] ELSE q[i]]
AgedLocals == [s EXCEPT !.start = IF s.begun THEN Older(@) ELSE 0,
                        !.held = IF s.holding THEN Older(@) ELSE 0,
                        !.last = IF s.wrote THEN Older(@) ELSE 0,
                        !.mark = IF pc = "ramp" THEN Older(@) ELSE 0]

\* A period passes: in a write, or in a wait with nothing to take.  The hub drops a
\* tick for which there is no room.
Period(reports) ==
  /\ \/ pc \in Writing /\ lag < MaxLag /\ lag' = lag + 1
     \/ pc = "wait" /\ queue = <<>> /\ cause = "none" /\ lag' = 0
  /\ ah' \in {ah, Cap(ah + 1, MaxAh)}
  /\ LET q == Aged(queue)
     IN IF reports
        THEN /\ link
             /\ \E low \in BOOLEAN :
                  queue' = Offer(q, Telemetry(low))
        ELSE queue' = q
  /\ s' = AgedLocals
  /\ inForce' = Older(inForce)
  /\ UNCHANGED <<rows, program, pc, stack, cause, state, link, tripped, seenTrip, faults, sent,
                 done>>

(***************************************************************************)
(* The specification.                                                      *)
(***************************************************************************)
Walk == EnterLoop \/ EndOfList \/ EnterStep
Write == Energize \/ WriteVolts \/ WriteAmps \/ WriteRamp
Take == TakeTrip \/ HoldTick \/ RampTick
Run == Walk \/ Write \/ Take \/ Cancelled

Next ==
  \/ \E body \in Programs : Create(body)
  \/ \E body \in Edits : OpenUpdate(body)
  \/ SaveUpdate \/ Delete \/ Start
  \/ Run
  \/ \E c \in {"stop", "shutdown"} : Cancel(c)
  \/ Trip \/ LinkDown \/ LinkUp \/ MeterResets
  \/ \E reports \in BOOLEAN : Period(reports)

\* The goroutine is scheduled, a write returns, Go's select does not pass over a
\* cancelled context for ever, and a device that is linked goes on reporting.
Fairness ==
  /\ WF_vars(Walk) /\ WF_vars(Write) /\ WF_vars(Take) /\ WF_vars(Cancelled)
  /\ WF_vars(Period(TRUE))

Spec == Init /\ [][Next]_vars
FairSpec == Spec /\ Fairness
------------------------------------------------------------------------------
(***************************************************************************)
(* Properties.                                                             *)
(***************************************************************************)
\* The walk over the tree with its nested repeats takes the steps the program
\* means, in order and without leaving one out, and a run is completed only when it
\* has taken them all, however the row is edited meanwhile (runNodes, drive).
DrivesProgram ==
  program # None =>
    /\ \A i, j \in DOMAIN done : i < j => Before(done[i], done[j])
    /\ Range(done) \subseteq Steps(program)
    /\ \A x \in Steps(program), y \in Range(done) : Before(x, y) => x \in Range(done)
    /\ state = "completed" => Range(done) = Steps(program)

\* A step that comes to its end leaves behind the setpoints it is for: a hold its
\* voltage and current, a ramp its endpoint, and the other setpoint untouched,
\* whatever ticks were throttled or lost (runSetHold, runRamp).
StepsLeaveTheirMark ==
  [][done' # done =>
       IF Node.type = "setHold"
       THEN sent' = [t \in Targets |-> IF t = "voltage" THEN Node.volts ELSE Node.amps]
       ELSE sent' = [sent EXCEPT ![Node.target] = Node.to]]_vars

\* A hold or a ramp is not cut short by more than the run was behind the stream when
\* it began: the first tick it takes for its baseline may be older than its own
\* setpoints, but no older than that (advanceState, runRamp).
HoldsLongEnough ==
  [][done' # done =>
       LET asked == IF Node.type = "ramp" THEN Node.seconds
                    ELSE IF Node.advance \in Timed THEN Node.need ELSE 0
       IN inForce + MaxLag >= asked]_vars

\* A run that is stopped, or shut down, ends; so does one whose device has tripped,
\* unless the link goes, and with it all news: the trip event may be lost to a
\* full buffer, but the next tick carries the protection (nextTelemetry).
StopOrTripEnds ==
  /\ cause # "none" ~> ~Active
  /\ tripped /\ Active /\ link ~> ~Active \/ ~link
==============================================================================
