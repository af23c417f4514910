# A TLA+ verification of dps150-web

dps150-web drives an FNIRSI DPS-150 bench supply over a serial or ser2net link and runs three
kinds of unattended jobs on it: programmed sequences, battery charges and I-V sweeps. A relay
that stays closed when nobody watches it, or a charge that never ends, is what must not happen;
next to that, a curve, a session or an export that says what was not measured. This directory
models the backend (`src/backend/internal`), checks the models with TLC on small instances, and
proves the central results with TLAPS for every instance.

    tlc -config OwnershipSlot.cfg MCOutputOwnership     # a run; PROJECT.json lists them all
    tlapm OutputOwnership_proofs.tla                    # a proof

`PROJECT.json` maps every definition to the lines it models and lists runs, mutants (a plausible
bug for each property, which TLC must find), hazards, findings and theorems.

## 1. The system

Go processes talk to one device. What follows is the inventory: the state a part keeps, what it
does, whom it meets, what is hard about it and what makes it correct.

| part | state | operations | meets | hard | correct when |
|---|---|---|---|---|---|
| `device.Hub` | connection, connected flag, cached `State`, subscribers, write lock and pacing | Run/session/handshake, SetX, Refresh, Subscribe, Broadcast | every other part | a nil result says only that the link took the bytes; cancelling a write drops the connection; setters write the cache after the lock; full subscribers lose updates | commands return; the cache and the subscribers agree with the device in the end |
| `device.Interlock`, `SafeOutputOff` | owner tag | Acquire, Release, Busy; three timed attempts | the engines, the API gate, automation | two starts at once; late releases | one owner, freed by its owner only |
| `charger.Manager`, `run` | active run; the run's phase, baselines, taper and onset state | Preflight, Start, Stop, execute, boot reconcile and watcher | hub, interlock, storage, journal | partial starts, unconfirmed offs, blind windows, counter resets, races of Stop, timer and tick | output on only when armed; off or alarmed at the end; envelope enforced; "completed" means full |
| `sequence.Manager` | active run, walk over a node tree | Validate, Start, Stop, runSetHold, runRamp, nested repeats | hub, interlock, rows edited meanwhile | no watchdog; ramps throttled by a lossy stream; stop in the middle of the start | it does what the program means; every exit switches the output off |
| `ivtrace.Manager`, `run` | active run, samples, reference tick | Compile, Start, step, sample, analyse | hub, interlock, storage | which tick is of which step; a device that never settles | every point is of its step; the run ends; metrics are of the curve |
| `storage` | GORM database, connection supervisor | charge sessions, batteries, sweeps, components, rules, profiles, sequences, tokens | charger, tracer, API, automation | connects late, goes away; READ COMMITTED on PostgreSQL; whole-row saves | references never dangle; verdicts stand; orphans are closed |
| `automation.Engine` | cached rules, per-rule state | reload, evaluate, trigger | hub, interlock, storage | lossy stream, changes of the link included; gaps, suppression while a run is on, counters that restart, rows edited while they hold | fires only after the time or amount observed, does fire, and is quiet once deleted |
| `api`, `mqtt` | none | the 409 gate, CRUD, commands | hub, managers, storage | check then act; MQTT has no gate | no manual command lands in a run (§6) |
| `notify` | throttle windows with timers, metering baseline | one subscription; settings; journal | hub, storage | timers race messages; counter restarts; lost off events | no burst, no silence, no session above what was delivered |
| `history`, `metrics`, `journal` | recorder's buffer, janitor's cursor | record, roll up, expire, export in pages | hub, storage | a statement fails between roll-up and expiry; rows move between pages | nothing expires uncounted; an export has every row once |
| `device/protocol`, `transport` | parser buffer | Feed, Decode, dialers | hub | garbage, split frames | every valid frame is decoded |
| `device/emulator` | the device | registers, dumps, trips, metering | hub, in tests | | behaves as the protocol says |
| `webui`, `config`, `cmd/server` | none | serve, load, wire | all | shutdown does not wait for the managers | |

Interactions: the engines, the API and MQTT call the hub; the hub broadcasts to the engines,
automation, MQTT, the recorder, the notifier and the WebSocket; the engines share the interlock;
the engines, the API, the recorder and the notifier share the database.

## 2. Modules

| module | models |
|---|---|
| `OutputSlot` | abstract: one slot for the output, claimed whole and given back, and who is the source of power |
| `OutputOwnership` | the interlock, Start, Stop and teardown of the three managers, pre-flight, the boot watchers, the 409 gate, MQTT, and link, hub cache and relay underneath. It implements `OutputSlot` |
| `ChargeRun` | the supervision of one charge from the launched goroutine to the output-off |
| `SequenceProgram`, `SequenceRun` | what a program means and which are valid; its row, and the walk of one run over it |
| `IvRun`, `IvAnalysis` | one sweep, step by step; the metrics computed from its points |
| `DpsDevice`, `DeviceHub` | the device as frames see it; the hub's sessions, writes, cache and subscribers against it |
| `SweepLibrary` | sweeps, components and reference pins; requests as transactions; the tracer's writes; reconciliation |
| `ChargeHistory` | sessions, batteries, profiles, the run's row, the CC-onset goroutine, reconciliation at boot, the health reader |
| `AutoStop` | one rule of the automation engine, its row and its editors, on the hub's stream |
| `TelemetryHistory` | recorder, janitor and export on a database that comes and goes |
| `Notifier` | metering sessions and throttled messages |
| `MC*` | values, scenarios and symmetries for TLC |
| `*_proofs` | the theorems about a module and their proofs (§5) |

**OutputOwnership.** A *call* is a request handler and then the goroutine of the run it
launched; `pc` is its statement, so two calls interleave between any two statements that touch
shared state. `Begin` is Start up to `Acquire`; `Claimed`, `Probe`, `Darken`, `Settle` the slow
start; `Arm` (protections and two setpoints, each a write), `Energize`, `Refresh` and `Publish`
the rest; `RunWrite`, `RunEnds`, `Stop` the run; `Cut`, `Subscribe`, `Confirm`, `Clear`, `Finish`
and `Announce` the teardown; `Unset`, `Abort`, `Leave` the failure paths. `Admit` is the gate and
`Manual` the writes of a request it let through, one or several. `Wire` and `Abandoned`
are `Hub.write`: nil, an error before or after the bytes reached the device, a cancelled write
that drops the connection. `rx` holds reports on their way, `seen` is the cached output state.
A frozen device accepts bytes and does nothing. What a run does while it is published is one
step that may end it at any moment; `ChargeRun`, `SequenceRun` and `IvRun` say what that is.

**ChargeRun.** Written from `charger/run.go`: `SetVoltage` and `SetCurrent` at a phase's entry,
`GoesStale`, `Aborts`, `TakesTrip` and `TakesTick` for `nextTick`'s select, with the whole tick
(`Aged`, `Envelope`, `Onset`, `Hold`, `PhaseOver`, `NextPhase`) in one step, since no other
goroutine sees its inside. Voltages and currents are bands (below the precharge threshold, in
the CV band, over the ceiling; below the taper, at 0.9 of the charge current), the Ah counter
counts what may flow in one period. A tick carries the counter the hub had cached, because the
device sends its counter after its measurement. The device may trip, restart (its counter starts
at zero) and be switched on at its panel; the link may be lost or go silent.

**SequenceProgram, SequenceRun.** A program is a tree of holds, ramps and loops: a function from
places (the code's step paths) to nodes. `Valid` is `Validate`. `Steps` is what the program means,
each hold and ramp once in every turn of every list it is in, and `Before` their order; neither
says how to walk. `SequenceRun` walks with a stack of (turn of the list, index of its next node),
as the nested calls of `runNodes` do (`EnterLoop`, `EndOfList`, `EnterStep`); `WriteVolts`,
`WriteAmps` and `WriteRamp` are the writes, `HoldTick` and `RampTick` a tick handled in
`advanceState` and the ramp. Ages stand for timestamps. Ticks wait in a bounded buffer that drops
what does not fit, so a baseline may be a tick from before the writes, by `MaxLag` at most.
`Create`, `OpenUpdate`, `SaveUpdate`, `Delete` edit the row while the run walks the copy it loaded.

**IvRun, IvAnalysis.** `Compiles` is `Compile` with its refusals; `Lands` and `WriteFails` end the
setpoint write of a step, whose time is bounded by `MaxWrite`; `TakeSample`, `TakeEarly`,
`TakeOverdue`, `TakeTrip`, `GoesStale` and `Aborts` are the select of `nextTick` and what the step
makes of it, with both references (the tick before the write, the moment of the write). A point
is recorded as the step whose setpoint was in force when it was measured, 0 when the output was
off. `IvAnalysis` takes the points of a finished run through a component's curve and computes
slope, series resistance, crossings and resistances as exact rationals, Null for what the code
does not vouch for. A fit is over a set of the points' indices; of the top of the curve there is one
such set for every order in which the sort may leave points of equal current (`TopsByCurrent`).
`MetricsOfTheCurve` compares the metrics with the curve itself. Ticks wait in the run's buffer
while the start order (`MaxStart`, nine paced frames before the output comes on) or a setpoint
write (`MaxWrite`) lasts. `behind` says that this took a dwell or more since the last tick taken,
and that the run has not waited for a new tick since; `hurried` are the steps sampled then.

**DpsDevice, DeviceHub.** The device is two float registers (a setpoint and a protection), a relay
and a protection state; it answers session, dump and write frames and pushes output changes and
trips. `DeviceHub` moves a frame at a time: `Dial`, `ShakeHands`, `Unanswered`, `Loss`, `Detach` of
the session; `Lock`, `Writes`, `Return`, `GivesUp` of a write under `writeMu`; `Store` of a setter
after it; `Take` of a frame read into the cache and broadcast. A client may be cancelled in any
statement. One subscriber stands for all: `room` left, its `view`, and what it has `missed`.

**SweepLibrary, ChargeHistory.** A transaction is what it reads and validates, then what it
writes. `SingleConn` is SQLite's `SetMaxOpenConns(1)`: the second step comes before anybody
else's. Without it (PostgreSQL, READ COMMITTED) requests interleave. A run's finalize reads the
row and saves it whole. `BatteryHealthMap` is four statements, each its own snapshot. `Restart` is
a crash; `Connect` and `Disconnect` the supervisor.

**AutoStop.** `HandleTick` is `evaluate` for one rule, of any of the four kinds; ages stand for
timestamps and saturate where the comparison cannot change any more. The counters of capacity and
energy (`Deliver`) restart with the device (`PowerCycle`), and a baseline stays. A change of the
link (`LinkChanges`) is told in a StatusChange, which a full buffer drops as it does a tick.
`CutFails` is a `SetOutput` that returns an error with the link up or lost, whether or not the
device was reached. The row is read and saved by an update in two steps, and the engine works on
the copy of its last `Reload`.

**TelemetryHistory.** A row is its timestamp, a minute the set of samples it was computed from.
`Measure`, `FlushStored`, `FlushDropped` are the recorder; `StartSweep`, `Aggregate`,
`ExpireSamples`, `ExpireMinutes` the janitor, statement by statement; `StartExport`, `NextPage`,
`ExportEnds` the export, one query a page.

**Notifier.** `Take` handles one update (`HandleStatus`, `HandleOutput`, `HandleTrip`): it opens or
closes a metering session from the counters the hub has cached at that moment, and `Notify` sends,
or counts as pending and starts the timer. `FlushKind` is the timer's function, which takes the
lock on its own.

## 3. Runs

| run | instance | shows |
|---|---|---|
| OwnershipSlot | 2 calls of sequence, sweep or pre-flight, 1 operator, sound link | `SingleOwner`; refinement of `OutputSlot` |
| OwnershipFaults | *faults*: 1 call, charge or sequence, 2 faults among dropped link and frozen device. *boot*: both watchers, a client's pre-flights, 1 operator, MQTT, the output left on or off by a crash | `OrphanAnnounced`, `ArmedBeforeEnergized`, `StopReleases`, `StartResolvesUnopposed`, `CrashOutputCut` |
| ChargeRun | plans precharge-main and main-float; 1 fault; timeouts of 1 and 2 periods, stale after 2 | `OverchargeBounded`, `CompletedTapered`, `OnsetGenuine`, `RunEnds` |
| SequenceRun | 3 programs (nested repeats; an open-ended one with a ramp; a ramp and a clamped hold), 4 refused ones; a buffer of 1, lag 1, 1 fault | `DrivesProgram`, `StepsLeaveTheirMark`, `HoldsLongEnough`, `StopOrTripEnds` |
| IvRun | 4 sweeps, one cut short by the device's own limits, and 5 refused; dwell 2 and 3, a start of at most 3, a write of at most 2, stale after 3, a buffer of 2, 1 fault; 23 rising curves, slopes 1 and 2 | `PointsSettled`, `SweepBounded`, `MetricsOfTheCurve`, `SweepEnds` |
| DeviceHub | 2 clients, 2 commands, 1 fault, values 0..3, a subscriber with room for 1 | `CacheSettles`, `SubscriberAgrees`, `CommandsReturn`, `Reconnects` |
| SweepLibrary | 3 sweeps, 2 components, 2 kinds, 2 requests, one connection | `PinNeverDangles`, `RefMovesOnlyWhenLost` |
| ChargeHistory | 2 sessions, 2 batteries, 2 kinds, 1 request at a time beside the runs; *crashes*, *library*, *health* | `ReconciledRunsAreLive`, `VerdictStands`, `OnsetSurvives`, `NamesItsBattery`, `CyclesAreThroughput` |
| AutoStop | a rule of each of the four kinds and each scope; needs 2 periods, limit 1, amount 0, counters up to 2, which restart, a buffer of 1; *runs*, *edits*, *counters* | `FiresAsAsked`, `ArmedRuleFires`, `GoneIsQuiet` |
| Subscribers | *history*: minutes of 2, raw rows kept 1, minutes 3, buffer and page of 1, 5 instants, 1 fault. *notifier*: 2 kinds, cooldown 2, buffer 2, 4 events, 3 units of charge | `ExportWhole`, `ExpiresCounted`, `MinutesRolledUp`, `NeverOvercounts`, `OnePerWindow`, `SuppressedIsSent` |
| EndedSequence, GateSlips | 1 sequence; 1 sweep and 1 operator; no faults | end in a violation on purpose: section 6 |

A name in italics is a scenario: an instance of its module in which some actors are left out, so
that each question is asked of the actors it is about; all scenarios of a run are checked in one.
`OwnershipSlot` takes `SoundNext`, the part of `OutputOwnership`'s `Next` that can happen without
faults, watchers and MQTT; `OwnershipFaults` has the rest.

**Bounds and why they are enough.**
Ownership is decided pairwise, so two calls show any race of
claim and release; `RxCap` 1 already makes every report late by one, which is what a stale
confirmation takes; `Tries` is the code's 3. Two faults allow a drop or a freeze in the start and
another in the teardown. Three sweeps are the least for which the newest of the members left is a
choice; two sessions let one run be reconciled while another is live. In `AutoStop` a queue of one
stands for an engine that lags: further updates are lost, changes of the link too, as they are at
64. Counters up to 2 exceed an amount of 0 from a baseline of 0 or 1, restart under a baseline of 1 and
exceed it again; a rule on one counter does not look at the other, which stays at 0. A lag
beyond 1 is left to *runs*: a rule on a counter does not look at the time, and one that is edited
meets no gap that *runs* does not have. In `ChargeRun` time does not pass the
point where a timer has fired or the run's queue is full; `MaxFaults` 1 keeps the liveness check
small. The bound of
`OverchargeBounded` grows with the queue, the stale timer and the faults; the proof has it for any.
The programs of `SequenceRun` are the least with a loop in a loop beside a hold, a ramp down to
zero and up, a setpoint above the device's limit, and every reason to refuse; a buffer of one makes a tick
late by one and drops the rest. In `IvRun` a start that is longer than the least dwell and writes
as long as it reach a run that is behind its ticks in the start, in the first step and in a later
one. To keep it small the sweep of four steps is never behind (its start and writes are shorter
than the dwell), and the one of three, which is, meets no fault; the proofs have no such limits.
The curves are every one of four points that rises by two at most, or stays, with the reference current in the
middle of their range. Two clients are what it takes for one setter's late store to meet another's
write, or a dump. The history crosses two minutes with one row expiring under the export.
A cooldown of 2 distinguishes within, at and after the window.
The mutants show that every property of a passing run is within reach of its instance.

**Fairness.** Goroutines are scheduled and timers fire (`WF` on the steps of a call, of a run, of
a client, of recorder and janitor, of the notifier and its timers); a live device reports (2 Hz
measurements, answers to dump requests); the hub reads, dials and times out; the automation ticker
reloads; `Storage.run` retries for ever. `WF` on `Aborts` alone, beside the other cases of
`nextTick`, is Go's select, which picks among ready cases at random and so does not pass over a
cancelled context for ever; for the same reason `Reload` of the automation engine, one case of
such a select, is `SF`. `Serves` of `DeviceHub` is `SF` because a link may stall and recover: a
device that can hear a frame again and again handles it. In `SequenceRun` a linked
device goes on reporting (`WF` on `Period(TRUE)`), so a trip whose own event was dropped is seen in
a later tick; a stop needs no tick. In `IvRun` nothing is owed by the device:
the watchdog and the timeout end the run. Nothing is assumed of clients, of faults ending, or of
how long a run lasts. Ungated MQTT writes need no fairness either.

Deadlock is not checked where the run, or the modelled clock, really comes to an end: `ChargeRun`,
`SequenceRun`, `IvRun`, `Subscribers`.

## 4. Properties

They are stated, with the behaviour they are about, in their modules. By what they protect:

*The output.*

- `SingleOwner`: two races of Start, late releases and stray cuts never let two calls believe they
  own the output. `ImplementsSlot` says the same as a refinement of one abstract slot.
- `ArmedBeforeEnergized`: no start energizes over foreign protections or setpoints, whichever
  write fails, except after a foreign write or over a device that froze.
- `OrphanAnnounced`: a charge or sweep that ended with its output on has said so; the two ways in
  which the code does not notice are named in the property (`debt`) and tracked exactly.
- `CrashOutputCut`: the output a crash left on, once a watcher has heard of it, is cut by one of the
  two watchers, which share the interlock and give way to each other, unless a client's start takes
  the slot (§6 says what is left open then).
- `OverchargeBounded`, `CompletedTapered`, `OnsetGenuine`: across resets, gaps, phase changes.
- `StopOrTripEnds`, `SweepBounded`, `SweepEnds`, `RunEnds`, `StopReleases`: every job ends when it
  is told to, and the charge and the sweep also by themselves.
- `FiresAsAsked`, `ArmedRuleFires`, `GoneIsQuiet`: a rule fires not too early, not never, and no
  more once it is gone. `ArmedRuleFires` names its two exceptions by what caused
  them: the engine was never told that the link is back, or the rule has fired and been shown no
  tick with the output off since. §6 says what becomes of those.

*What is written down.*

- `DrivesProgram`, `StepsLeaveTheirMark`, `HoldsLongEnough`: a sequence takes the steps its program
  means, each to its end, a hold short of its length by no more than the lag.
- `PointsSettled`: a point is of its own step, or dark since somebody else switched the output off,
  or of a step that was sampled while the run was behind its ticks; `hurried` has exactly those.
  `MetricsOfTheCurve`: a metric that is reported is one of the component, for sweeps that begin
  below the reference current and were never sampled behind.
- `PinNeverDangles`, `RefMovesOnlyWhenLost`, `VerdictStands`, `OnsetSurvives`, `NamesItsBattery`,
  `ReconciledRunsAreLive`: stored data stays consistent under edits, deletions and crashes.
- `CyclesAreThroughput`: the health of a battery never counts a cycle whose charge is not in its
  throughput, although the two are read in different statements.
- `ExpiresCounted`, `MinutesRolledUp`, `ExportWhole`: telemetry is rolled up before it expires, and
  an export that was not cut off has every row that was there all along, once and in order.
- `NeverOvercounts`: journaled metering sessions never add up to more than was delivered.

*What others believe.*

- `CacheSettles`: once nothing is under way the cache is the device, but for registers a late
  store has put back, and thresholds written by a call that gave up before its dump. `SubscriberAgrees`: a subscriber errs only about what it lost an update on.
- `CommandsReturn`, `Reconnects`: stalls, cancellations and the answer timer leave no command
  behind the write lock and no dead session in place.
- `OnePerWindow`, `SuppressedIsSent`: messages of a kind are a cooldown apart, none kept for ever.

## 5. Proofs

`OutputOwnership_proofs` proves for any calls, operators, faults and bounds:

- `TypeCorrect`, from `TypeOK` alone;
- `OneOwner` and `PublishedOwns`, from `SlotInv == SingleOwner /\ ActiveOwnsOutput` with `TypeOK`.
  `SingleOwner` says the interlock's tag and the calls' statements agree both ways, which makes
  it inductive; `ActiveOwnsOutput` (a published run holds the slot) rests on it;
- `StartOrder`: `ArmedInv` relates a call's statement to the registers it has written so far; the
  only step that lights the output for a charge or a sweep is `Energize`, at which all are written;
- `SlotImplemented`: with `holder` the call inside and `source` who lit the relay, each step is a
  step of `OutputSlot` or a stutter;
- `OrphansAreAnnounced`: `OrphanInv` names, for an output lit by a charge or a sweep, the call that
  answers for it: it is still to switch the output off, it waits to hear of it with no report
  about that could be mistaken for the confirmation (`NoStaleReport`), or it knows of the failure
  and is to announce it. `debt` marks the cases in which the code does take a stale report for the
  confirmation, and only then nobody answers.

`ChargeRun_proofs` proves for any plans, timeouts, hold and bounds:

- `ChargeTyped`, from `TypeOK` alone. `TickTaken` takes a tick apart once: the state it starts
  from, the state it leaves if there is no fault, and how it ends; the other proofs start there;
- `TrickleHolds`: `TrickleInv` adds that being in the second phase means that a precharge before
  it was left on its threshold; the step that matters is `NextPhase`;
- `TaperHolds`: `TaperInv` relates the code's hold to the taper observed while the run is on, and
  carries the verdict from the last tick through the teardown, where an alarm may replace it;
- `OnsetHolds`: `OnsetInv` says that a count left standing is of the last tick;
- `OverchargeHolds`: `ChargeInv` adds `Accounted` to the bound while the run is on, an account of
  what was given and the code's counter leaves out. A reading leaves out what flowed after it was
  cached; a reading that is not behind the one before it leaves out no more than that one did, and
  one that is behind (the device restarted) costs a fault, which buys one blind interval. So does a
  silence, which the stale timer ends. What is left is the time of the writes and the queue.

`IvTracer_proofs` proves of `IvRun`, for any requests, limits, times and bounds:

- `TypeCorrect`, from `TypeOK` with the plan's shape;
- `CompletedWhole`: a sweep is completed exactly when it has a point of every step;
- `PointsAreOfTheirStep`, that is `PointsSettled`, for any length of the start and the writes. A run
  that is not behind is within a dwell of its last tick when it writes (`PaceInv`), so a tick
  from before the write is too young to be the sample; one measured in the wait is taken at once
  and is of its step (`SampleInv`);
- `SweepKeepsTime`, that is `SweepBounded`: a tick is judged by its stamp, so a run outlasts its
  timeout by what a tick may be late. That is a start, a write and a stale stream; a run that is
  behind may in addition go on from old tick to old tick, a write for each, and `AgeInv` bounds
  the age of a tick by its place in the buffer (`Lateness`), which gives the term `Backlog`. The
  instance of the run does not exceed the bound without that term: it takes writes longer than
  the dwell, one after the other;
- `MetricsAreTrue`, that is `MetricsOfTheCurve`, for any curves of numbers, slopes, floors and reference
  currents. `DarkInv` says that the points are dark from one on or not at all, as no
  step of a run lights the output again; with `PointsSettled` that makes them `Readings` of the curve. The
  rest is about the operators. The first crossing among readings is the curve's (`SameCrossing`); a
  fit to points on a line finds the line (`FitOfLine`), because a total is linear in what it adds up
  (`TotalLinear`). That is an induction over a finite set, which is had from `SmallestSubset`: a family
  of subsets of a finite set has a smallest member, so a claim that fails fails for a smallest set.
  The same lemma gives that the recursive function inside the library's sum exists (`SumsExist`) and that
  a finite set of numbers has its `Min` and its `Max`.

It proves of `SweepLibrary`, under `SingleConn`, `LibraryTyped`, `PinsHold`, `MembersHold` and
`RefStays`. The pin's property is not inductive by itself: an open transaction has validated what
it is about to write, so the invariant adds that what each has read still holds (`ReadsHold`),
that one connection means one open transaction (`Exclusive`), and that a run's row is not in the
library before it is completed (`RunApart`). The assumption cannot be dropped: with `SingleConn`
FALSE TLC finds two requests that leave a pin dangling.

`DeviceHub_proofs` proves for any clients, commands, values, limits, buffer, backlog and faults:

- `TypeCorrect`;
- `CacheKeepsUp`, that is `CacheSettles`. The property speaks of a moment when nothing is on the
  wire; the invariant must say what is on it at any other. `Heard(s, x, b, v)`: who holds `b` for
  `x` and reads the frames `s` holds `v` then. For the output and the protection (`OutputFollows`)
  the frames to the hub take the cache to the device, in every step. For a register a write is
  not told of until its echo, and a threshold's not until the dump, so `Settles` looks at both
  directions: a frame to the device will make it tell, with no write behind, or none writes it and
  the frames to the hub do the rest. `RegistersFollow` says it of the cache (`CacheFollows`, but
  for `late` and for a threshold whose dump is yet to be asked for), of each value a setter is yet to
  store (`StoresFollow`), and of what a command has written so far (`WritesFollow`). `SessionHolds`
  (what the wire carries before the first dump) and `WriterHolds` (the rest of a series is of its
  command, each register once, the dump last) are what the steps need;
- `SubscriberKnows`, that is `SubscriberAgrees`: what is broadcast in a step agrees on every field it
  tells, so the last update delivered is right unless one was lost. Before the first frame there is
  no change to announce, because that frame is a measurement (`NothingYet`).

`ChargeHistory_proofs` proves, for any sessions, batteries, kinds and requests, on one connection
and without:

- `TypeCorrect`, `NoOrphans` and `VerdictsStand`, from `HistoryInv`, which adds to the types and to
  `ReconciledRunsAreLive` that the row of a run not yet saved is running, or failed by a
  reconciliation that came late (`OpenRuns`), that a session which has not begun has an empty row
  and nobody at work on it, and that an assignment is about a session that is over;
- `OnsetsSurvive`: only a finalize that had read the row before the onset was stored loses it;
- `CyclesInThroughput`: until the throughput is read, the cycles counted are no more than the
  sessions the battery has then (`CyclesCounted`), unless one left it in between;
- `NamesHold` under `SingleConn`: as for the library, one open transaction means that what was
  validated still holds when it is written.

`AutoStop_proofs` proves `TypeCorrect` and `RuleFiresAsAsked`. `RuleInv` says that a window
(`WindowObserved`) and a baseline (`BaselineObserved`) reach no further back than what was observed,
that the counters have not moved further from the baseline than what was drawn, restarts included
(`CountersObserved`),
that a rule nobody watches is fresh (`UnwatchedIsFresh`), and that one which has not fired is not
waiting for the output to go off (`ArmedUntilFired`).

`SequenceRun_proofs` proves, for any tree of nodes, limits, buffer, lag and edits of the row:

- `WalkDrivesProgram`, that is `DrivesProgram`. `WalkInv` says where the walk stands: of the steps the
  program means, those that come before the stack are done (`DoneIsBefore`), in order
  (`DoneInOrder`), and the stack is inside loops of the tree, in a turn each of them has
  (`StackFits`). Entering a loop, its next turn and leaving it move the stack over no step; the end of
  a hold or a ramp moves it over that one (`EnterLoopMoves`, `EndOfListMoves`, `StepEnds`). The
  lemmas about the order and the tree before that are of `Steps` and `Before` alone;
- `MarksAreLeft`, that is `StepsLeaveTheirMark`: at the wait of a hold both setpoints are its own, and
  the value of a final write of a ramp is its endpoint (`RampValue`, exact in spite of the division);
- `HoldsAreKept`, that is `HoldsLongEnough`: a tick in the channel is no older than the run is behind,
  so neither is a baseline when it is taken, and from then on it ages with the setpoints
  (`BaselinesAreRecent`).

`Subscribers_proofs` is about two of the hub's subscribers. Of `Notifier` it proves `TypeCorrect` (the
channel within its capacity), `JournalNeverOvercounts` (`MeterInv`: what is journaled and what the open
session would add stay within what was delivered; `NoShortcut` is the lemma that a counter read now
and then, restarts included, never shows more than was counted), `CooldownBetween`, and
`SuppressedIsAwaited`, the safety half of `SuppressedIsSent`: a kind with suppressed messages has its
timer running until the service stops. Of `TelemetryHistory`, for any retention, page and buffer:

- `HistoryTyped`;
- `SamplesCounted`, that is `ExpiresCounted`: the janitor gets to its expiry only after it rolled up
  (`RolledUpFirst`), and as a sample is kept for a minute at least, what it deletes was rolled up
  in this sweep or before; the samples that came after their minute are the property's exception;
- `ExportsWhole`, that is `ExportWhole`: the rows an export has are in order and end at its cursor, and
  of what was there all along it lacks only what lies after (`PagesFollow`), whatever is deleted
  and added between two pages.

`TypeOK` of each module with proofs, `ActiveOwnsOutput`, `MembersBelong`, `TrickleFirst`,
`CompleteIsWhole` and `SuppressedHasTimer` are proved and in no run of their own. Assumptions are
only the named ASSUMEs of the modules, which TLC evaluates in the runs, and those the theorem states
(`SingleConn`). `LengthsAssumption` of `TelemetryHistory` says that rows are kept for a minute
and minutes for longer than rows, `BodiesAssumption` of `SequenceRun` that what clients save is a tree. `CommandsAssumption` of `DeviceHub` says that a command sets float registers
to their values and writes the output at most once, which is all the API composes.

Only model-checked: everything under fairness (`CommandsReturn`, `Reconnects`, `GoneIsQuiet`, the
`...Ends`, `StopReleases`, `StartResolvesUnopposed`, `CrashOutputCut`, `ArmedRuleFires`, `MinutesRolledUp`
and `SuppressedIsSent`), which TLAPS does not reach. Every other property of a passing run is a theorem.

## 6. Findings, and what was noted

Two runs end in a violation of what the repository says of itself; PROJECT.json quotes it.

- `EndedSequence` (README.md:40-43): a sequence whose energizing write is cut short frees the slot
  with the output on.
- `GateSlips` (README.md:42-43): the 409 gate reads the owner once and the handler writes later, so a
  manual command that it let through writes over the registers of a run that started in between.

Noted while modelling. Each is behaviour the models reach and the code accepts; they have no run.

*Jobs.*
- `Stop` or a shutdown during a phase's or step's setpoint write is recorded as a failure of the
  device (charger/run.go:106-111, and the same in the tracer); a sequence stopped during a write,
  before its first hold, ends "failed", where its own test expects "stopped" for a stop.
- A stop in float is `stopped`, where the API contract lists it as `completed`; `Limits.Timeout`,
  shown by the API as the limit of the whole run, is not enforced; a pack disconnected in CV looks
  like a taper and completes the charge; a restart of the device whose counter has climbed past the
  last seen value before the next tick is not noticed.
- The pre-flight takes the cached on-load voltage when it hears no off tick within the settle.
- A watcher that gives way to a start is gone for good (charger/manager.go:343-352), so if that
  start fails before it switches anything, the output a crash left on stays on. Reconciliation
  that meets a database not ready yet is never repeated.
- `Validate` of a sequence uses fallback limits (30 V, 5 A) where the setters use those the device
  reported. The baseline of a hold, or the start of a ramp, may be a tick from before the writes.
- The reference of a step is the last tick the run has taken, however old (ivtrace/run.go:97). The run
  subscribes before its start order, nine frames at least 50 ms apart, while the least dwell is
  200 ms: two ticks from before the output came on, or one from before a slow write took effect,
  make a point of another step, or a dark one, contrary to the comment at ivtrace/run.go:87-92.
  `PointsSettled` names those steps (`hurried`).
- A sweep whose output is switched off goes on recording dark points and
  completes. A sweep whose first point lies above the reference current has no crossing and says
  "breakdown not reached"; if its output is lost later, the dark tail supplies one.
  `analyzeResistor` keeps points the supply clamped.

*Hub, rules, notices.*
- A StatusChange that finds a subscriber's buffer of 64 full is dropped as any update
  (device/hub.go:656-663). If it told the rules' engine of a reconnect, they stay suspended with the
  link up: the engine reads `Snapshot` once. It takes an engine that is held up for about half a
  minute, which the five calls of a trigger, 5 s each, do for two rules at once.
- A rule that fired waits for a tick with the output off also when its cut failed
  (automation/engine.go:424, 480-482): the output stays on and the engine does not try again.
- A setter's store comes after `writeMu` is released and may put back an older value, until the next dump.
  `SetProtections` cancelled before its dump leaves the cached thresholds old. The first dump may announce an
  output change or a trip that is none.
- A fired scope=always rule keeps its hold and fires at once when the output is switched back on;
  an edit keeps `heldSince`. Counters that restart under a baseline make a rule fire late.
- The updates of rules, charge profiles and sequences read the row and save it whole in no
  transaction: a concurrent `LastTriggeredAt` is lost, a deleted row comes back.
- The metering reads the counters when it handles the off event, not when the output went off. A
  throttled message still goes out after its kind was disabled.

*Storage.*
- On PostgreSQL two requests leave a reference pin dangling. `BatteryHealthMap`'s four statements
  are not one snapshot.
- A batch flushed after its minute was rolled up is not in the minute. An export that meets an
  error on a later page ends like a whole one (api/export.go:179-181).

## 7. Not modelled, and the plan

Not modelled: the electrical models of the emulator and the numbers of the presets (real
arithmetic); transports, HTTP and WebSocket framing, MQTT publishing and discovery, the front end,
configuration, delivery to Telegram (I/O and formatting); presets of the device, voltage profiles
and tokens (plain CRUD with no part in the above). The byte-level parser is a function of the bytes
received; the hub's model starts at frames. The log of rule triggers and the journal only append.
A panic inside a run is left out, as is the write pacing (50 ms between frames) but for the time it gives a start.

Next, in this order:

1. An abstract hub (a register file, a link and a lossy feed) that `DeviceHub` implements and the
   run modules take for granted.
2. `Parser`: frames in a byte stream cut anywhere, against a reference over short inputs.
3. The WebSocket's join (snapshot, then stream) and the log of triggers.
