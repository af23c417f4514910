--------------------------- MODULE OutputOwnership ---------------------------
(***************************************************************************)
(* Who may drive the supply's output: the shared device.Interlock, the     *)
(* Start, Stop and teardown of the three run managers (sequence, charger,  *)
(* ivtrace), the charger's pre-flight, the boot-time watchers that cut a   *)
(* stray output, the 409 gate in front of manual control, and the part of  *)
(* the link that decides what these learn about the relay: a command the   *)
(* hub accepted may not reach a frozen device, and the cached output state *)
(* lags behind the device by what is still in flight.                      *)
(*                                                                         *)
(* A call stands for one request handler and, once it launched a run, for  *)
(* the goroutine executing that run; pc names the statement it is at.      *)
(***************************************************************************)
EXTENDS Naturals, Sequences, FiniteSets

CONSTANTS
  Calls,      \* request handlers and the run goroutines they launch
  None,       \* no call
  Watchers,   \* the calls that are boot-time stray-output watchers
  Kinds,      \* what clients ask for: runs of an engine, pre-flights
  Manuals,    \* operators' requests on the gated routes
  Mqtt,       \* MQTT control enabled (DPS_MQTT_CONTROL)
  Faults,     \* which of "drop" and "freeze" the link may suffer
  MaxFaults,  \* bound: faults of the link in a behaviour
  RxCap,      \* bound: reports in flight from the device to the hub
  Tries       \* safeOutputOffTries

Engine == {"sequence", "charge", "iv"}
Free == "free"

ASSUME CallsAssumption == None \notin Calls /\ Watchers \subseteq Calls
ASSUME BoundsAssumption ==
  /\ Kinds \subseteq Engine \cup {"preflight"}
  /\ Mqtt \in BOOLEAN
  /\ Faults \subseteq {"drop", "freeze"}
  /\ MaxFaults \in Nat
  /\ RxCap \in Nat
  /\ Tries \in Nat \ {0}

\* What a call is about. A pre-flight and a stray cut borrow an engine's tag.
Kind == Engine \cup {"preflight", "strayCharge", "strayIv"}
Tag(k) == CASE k \in {"charge", "preflight", "strayCharge"} -> "charge"
            [] k \in {"iv", "strayIv"} -> "iv"
            [] k = "sequence" -> "sequence"

Reg == {"protections", "first", "second"}

StartLoc == {"claimed", "probe", "darken", "settle", "protections", "first", "second",
             "energize", "refresh", "publish"}
RunLoc == {"run", "cut", "subscribe", "confirm", "clear", "release"}
LeaveLoc == {"unset", "abort", "strayCut", "leave"}
\* The statements between a successful Acquire and the matching Release.
HoldLoc == StartLoc \cup RunLoc \cup LeaveLoc
Loc == HoldLoc \cup {"idle", "watch", "report"}

VARIABLES
  owner, active,                   \* Interlock.owner; Manager.active
  pc, kind, cancelled, try,        \* a call: statement, errand, ctx, off attempt
  failed,                          \* ... its output-off failed or went unconfirmed
  heard,                           \* ... what its subscription told it
  link, frozen, rx, asked,         \* session state; reports in flight, a dump owed
  seen, volt,                      \* hub cache: OutputOn; Voltage taken on load
  lit, armed,                      \* device: who switched it on; the call's registers
  faults,                          \* remaining faults
  admitted,                        \* operators' requests past the 409 gate
  spoiled, debt                    \* history: see ArmedBeforeEnergized, OrphanAnnounced

slotVars == <<owner, active>>
callVars == <<pc, kind, cancelled, try, failed, heard>>
wireVars == <<link, frozen, rx, asked>>
cacheVars == <<seen, volt>>
deviceVars == <<lit, armed>>
historyVars == <<spoiled, debt>>
vars == <<slotVars, callVars, wireVars, cacheVars, deviceVars, faults, admitted,
          historyVars>>

Init ==
  /\ owner = Free
  /\ active = [e \in Engine |-> None]
  /\ pc \in {p \in [Calls -> {"watch", "idle"}] : \A c \in Calls : p[c] = "watch" => c \in Watchers}
  /\ kind \in {k \in [Calls -> {"sequence", "strayCharge", "strayIv"}] :
                 \A c, d \in Calls : /\ k[c] = "sequence" <=> c \notin Watchers
                                     /\ k[c] = k[d] => c = d \/ c \notin Watchers}
  /\ cancelled = [c \in Calls |-> FALSE]
  /\ try = [c \in Calls |-> 1]
  /\ failed = [c \in Calls |-> FALSE]
  /\ heard = [c \in Calls |-> "none"]
  /\ link = "down" /\ frozen = FALSE /\ rx = <<>> /\ asked = FALSE
  /\ seen = FALSE /\ volt = FALSE
  /\ lit \in {"none", "crash"}
  /\ armed = {}
  /\ faults \in 0 .. MaxFaults
  /\ admitted = {}
  /\ spoiled = FALSE /\ debt = "none"

(***************************************************************************)
(* Hub commands.  Wire(res, l, a) writes a command and the dump request    *)
(* behind it; the device, if it is alive, ends up lit by l with registers  *)
(* a.  A nil result means only that the link took the bytes.               *)
(***************************************************************************)
Goto(c, l) == pc' = [pc EXCEPT ![c] = l]

Result == {"nil", "err"}

Down == link' = "down" /\ rx' = <<>> /\ asked' = FALSE
Fault(f) == f \in Faults /\ faults > 0 /\ faults' = faults - 1

Executed(l, a) == lit' = l /\ armed' = a

Wire(res, l, a) ==
  /\ \/ /\ res = "nil" /\ link = "up"
        /\ IF frozen THEN UNCHANGED <<deviceVars, asked>>
                     ELSE Executed(l, a) /\ asked' = TRUE
        /\ UNCHANGED <<link, rx, faults>>
     \/ /\ res = "err" /\ link = "up"
        /\ Fault("drop") /\ Down
        /\ UNCHANGED deviceVars \/ (~frozen /\ Executed(l, a))
     \/ /\ res = "err" /\ link # "up"
        /\ UNCHANGED <<link, rx, asked, faults, deviceVars>>
  /\ UNCHANGED <<frozen, cacheVars>>

\* A write whose context is cancelled under it: dropConn, then Close.
Abandoned(l, a) ==
  /\ link = "up"
  /\ Down
  /\ UNCHANGED deviceVars \/ (~frozen /\ Executed(l, a))
  /\ UNCHANGED <<frozen, cacheVars, faults>>

\* writeMu is held from the energizing frame to the dump request behind it.
WriteFree == \A c \in Calls : pc[c] # "refresh"

Quiet == UNCHANGED <<wireVars, cacheVars, deviceVars, faults>>

(***************************************************************************)
(* Start, up to the output.                                                *)
(***************************************************************************)
\* Mutant: each engine only checks that it is not running itself.
AcquirePerEngine(c, k) ==
  /\ owner # Tag(k)
  /\ owner' = Tag(k)
  /\ kind' = [kind EXCEPT ![c] = k]
  /\ spoiled' = FALSE

Acquire(c, k) ==
  /\ owner = Free
  /\ owner' = Tag(k)
  /\ kind' = [kind EXCEPT ![c] = k]
  /\ spoiled' = FALSE

Begin(c, k) ==
  /\ pc[c] = "idle" /\ c \notin Watchers
  /\ Acquire(c, k)
  /\ Goto(c, "claimed")
  /\ cancelled' = [cancelled EXCEPT ![c] = FALSE]
  /\ failed' = [failed EXCEPT ![c] = FALSE]
  /\ heard' = [heard EXCEPT ![c] = "none"]
  /\ armed' = {}
  /\ UNCHANGED <<active, try, wireVars, cacheVars, lit, faults, admitted, debt>>

Claimed(c) ==
  /\ pc[c] = "claimed"
  /\ IF active[Tag(kind[c])] # None
     THEN Goto(c, "leave") /\ UNCHANGED active
     ELSE IF kind[c] = "sequence"
     THEN Goto(c, "energize") /\ active' = [active EXCEPT !["sequence"] = c]
     ELSE Goto(c, "probe") /\ UNCHANGED active
  /\ UNCHANGED <<owner, kind, cancelled, try, failed, heard, admitted, historyVars>>
  /\ Quiet

Probe(c) ==
  /\ pc[c] = "probe"
  /\ Goto(c, IF link # "up" THEN "leave"
             ELSE IF kind[c] = "iv" THEN "protections" ELSE "darken")
  /\ UNCHANGED <<slotVars, kind, cancelled, try, failed, heard, admitted, historyVars>>
  /\ Quiet

\* ensureOutputOff goes by the cached output state.
Darken(c) ==
  /\ pc[c] = "darken"
  /\ \/ ~seen /\ Goto(c, "settle") /\ Quiet
     \/ /\ seen /\ WriteFree
        /\ \E res \in Result :
             Wire(res, "none", armed) /\ Goto(c, IF res = "nil" THEN "settle" ELSE "leave")
  /\ UNCHANGED <<slotVars, kind, cancelled, try, failed, heard, admitted, historyVars>>

DumpDue == asked \/ \E i \in DOMAIN rx : rx[i].what = "dump"

\* Mutant: no way out of the settle but a tick.
SettleOnTickOnly(c) ==
  /\ pc[c] = "settle" /\ heard[c] # "none"
  /\ Goto(c, "leave") \/ (kind[c] = "charge" /\ Goto(c, "protections"))
  /\ UNCHANGED <<slotVars, kind, cancelled, try, failed, heard, admitted, historyVars>>
  /\ Quiet

\* readVbat: the last output-off tick of the settle, or else the cached voltage.
\* The verdict on the voltage is open.
Settle(c) ==
  /\ pc[c] = "settle"
  /\ heard[c] = "none" => link # "up" \/ frozen \/ (seen /\ ~DumpDue)
  /\ heard' = [heard EXCEPT ![c] = IF @ # "none" THEN @ ELSE IF volt THEN "onload" ELSE "open"]
  /\ Goto(c, "leave") \/ (kind[c] = "charge" /\ Goto(c, "protections"))
  /\ UNCHANGED <<slotVars, kind, cancelled, try, failed, admitted, historyVars>>
  /\ Quiet

\* Mutant: the errors of the start order are not checked.
ArmUnchecked(c) ==
  /\ pc[c] \in Reg /\ WriteFree
  /\ \E res \in Result : Wire(res, lit, armed \cup {pc[c]})
  /\ spoiled' = (spoiled \/ frozen)
  /\ Goto(c, CASE pc[c] = "protections" -> "first"
               [] pc[c] = "first" -> "second"
               [] pc[c] = "second" -> "energize")
  /\ UNCHANGED <<slotVars, kind, cancelled, try, failed, heard, admitted, debt>>

\* applyStartOrder: the three writes, each checked.
Arm(c) ==
  /\ pc[c] \in Reg /\ WriteFree
  /\ \E res \in Result :
       /\ Wire(res, lit, armed \cup {pc[c]})
       /\ spoiled' = (spoiled \/ frozen)
       /\ Goto(c, CASE res = "err" -> "abort"
                    [] res = "nil" /\ pc[c] = "protections" -> "first"
                    [] res = "nil" /\ pc[c] = "first" -> "second"
                    [] res = "nil" /\ pc[c] = "second" -> "energize")
  /\ UNCHANGED <<slotVars, kind, cancelled, try, failed, heard, admitted, debt>>

Unwind(c) == IF kind[c] = "sequence" THEN "unset" ELSE "abort"

\* SetOutput(true), first frame. A cancelled context fails it on entry, while it
\* waits for its turn, or in the write.
Energize(c) ==
  /\ pc[c] = "energize" /\ WriteFree
  /\ \/ /\ ~cancelled[c]
        /\ \E res \in Result :
             /\ Wire(res, Tag(kind[c]), armed)
             /\ Goto(c, IF res = "nil" THEN "refresh" ELSE Unwind(c))
     \/ cancelled[c] /\ Goto(c, Unwind(c)) /\ Quiet
     \/ cancelled[c] /\ Abandoned(Tag(kind[c]), armed) /\ Goto(c, Unwind(c))
  /\ debt' = IF lit' = Tag(kind[c]) THEN "none" ELSE debt
  /\ UNCHANGED <<slotVars, kind, cancelled, try, failed, heard, admitted, spoiled>>

\* SetOutput(true), second frame: the dump request, writeGap later.
Refresh(c) ==
  /\ pc[c] = "refresh"
  /\ \/ \E res \in Result :
          /\ Wire(res, lit, armed)
          /\ Goto(c, IF res = "err" THEN Unwind(c)
                     ELSE IF kind[c] = "sequence" THEN "run" ELSE "publish")
     \/ cancelled[c] /\ Goto(c, Unwind(c)) /\ Quiet
     \/ cancelled[c] /\ Abandoned(lit, armed) /\ Goto(c, Unwind(c))
  /\ UNCHANGED <<slotVars, kind, cancelled, try, failed, heard, admitted, historyVars>>

Publish(c) ==
  /\ pc[c] = "publish"
  /\ active' = [active EXCEPT ![kind[c]] = c]
  /\ Goto(c, "run")
  /\ UNCHANGED <<owner, kind, cancelled, try, failed, heard, admitted, historyVars>>
  /\ Quiet

\* Mutant: Stop frees the interlock instead of leaving that to the teardown.
StopReleasing(e) ==
  /\ active[e] # None /\ ~cancelled[active[e]]
  /\ cancelled' = [cancelled EXCEPT ![active[e]] = TRUE]
  /\ owner' = Free
  /\ UNCHANGED <<active, pc, kind, try, failed, heard, admitted, historyVars>>
  /\ Quiet

\* Stop cancels the published run's context and returns.
Stop(e) ==
  /\ active[e] # None /\ ~cancelled[active[e]]
  /\ cancelled' = [cancelled EXCEPT ![active[e]] = TRUE]
  /\ UNCHANGED <<slotVars, pc, kind, try, failed, heard, admitted, historyVars>>
  /\ Quiet

(***************************************************************************)
(* The run and its teardown.                                               *)
(***************************************************************************)
\* A setpoint write, whose error ends the run, or the charger's periodic refresh,
\* whose error is ignored.
RunWrite(c) ==
  /\ pc[c] = "run" /\ WriteFree
  /\ \E res \in Result :
       /\ IF cancelled[c] THEN res = "err" /\ Abandoned(lit, armed) ELSE Wire(res, lit, armed)
       /\ IF res = "err" THEN Goto(c, "cut") \/ (kind[c] = "charge" /\ UNCHANGED pc)
                         ELSE UNCHANGED pc
  /\ UNCHANGED <<slotVars, kind, cancelled, try, failed, heard, admitted, historyVars>>

\* The program finishes, or a trip, a stale link or a limit aborts it.
RunEnds(c) ==
  /\ pc[c] = "run"
  /\ Goto(c, "cut")
  /\ UNCHANGED <<slotVars, kind, cancelled, try, failed, heard, admitted, historyVars>>
  /\ Quiet

\* One attempt of SafeOutputOff; goes to next once it returns, with error err.
OffAttempt(c, next, err) ==
  \E res \in Result :
    /\ Wire(res, "none", armed)
    /\ IF res = "err" /\ try[c] < Tries
       THEN ~err /\ try' = [try EXCEPT ![c] = @ + 1] /\ UNCHANGED pc
       ELSE err = (res = "err") /\ try' = [try EXCEPT ![c] = 1] /\ Goto(c, next)

\* A sequence logs a failed output-off; a charge or a sweep remembers it, and
\* asks the device to confirm one that succeeded.
Cut(c) ==
  /\ pc[c] = "cut" /\ WriteFree
  /\ \E err \in BOOLEAN :
       /\ OffAttempt(c, IF err \/ kind[c] = "sequence" THEN "clear" ELSE "subscribe", err)
       /\ failed' = [failed EXCEPT ![c] = err /\ kind[c] # "sequence"]
       /\ debt' = IF err /\ kind[c] = "sequence" THEN "logged" ELSE debt
  /\ UNCHANGED <<slotVars, kind, cancelled, heard, admitted, spoiled>>

\* confirmOutputOff subscribes and asks for a dump, ignoring the error.
Subscribe(c) ==
  /\ pc[c] = "subscribe" /\ WriteFree
  /\ \E res \in Result : Wire(res, lit, armed)
  /\ heard' = [heard EXCEPT ![c] = "none"]
  /\ debt' = IF seen /\ \A i \in DOMAIN rx : rx[i].what = "meas" \/ rx[i].on
             THEN debt ELSE "unconfirmed"
  /\ Goto(c, "confirm")
  /\ UNCHANGED <<slotVars, kind, cancelled, try, failed, admitted, spoiled>>

\* Mutants: the wait has no timeout; a write that returned nil is trusted.
ConfirmForever(c) ==
  /\ pc[c] = "confirm" /\ heard[c] = "off"
  /\ Goto(c, "clear")
  /\ UNCHANGED <<slotVars, kind, cancelled, try, failed, heard, admitted, historyVars>>
  /\ Quiet

ConfirmTrusting(c) ==
  /\ pc[c] = "confirm"
  /\ Goto(c, "clear")
  /\ UNCHANGED <<slotVars, kind, cancelled, try, failed, heard, admitted, historyVars>>
  /\ Quiet

\* The first off report ends the wait, or else outputOffConfirmTimeout does.
Confirm(c) ==
  /\ pc[c] = "confirm"
  /\ failed' = [failed EXCEPT ![c] = heard[c] # "off"]
  /\ Goto(c, "clear")
  /\ UNCHANGED <<slotVars, kind, cancelled, try, heard, admitted, historyVars>>
  /\ Quiet

Release(c) == owner' = IF owner = Tag(kind[c]) THEN Free ELSE owner

\* finish: the active slot first, then the interlock, then the outcome.
Clear(c) ==
  /\ pc[c] = "clear"
  /\ active' = [e \in Engine |-> IF active[e] = c THEN None ELSE active[e]]
  /\ Goto(c, "release")
  /\ UNCHANGED <<owner, kind, cancelled, try, failed, heard, admitted, historyVars>>
  /\ Quiet

Finish(c) ==
  /\ pc[c] = "release"
  /\ Release(c)
  /\ Goto(c, "report")
  /\ UNCHANGED <<active, kind, cancelled, try, failed, heard, admitted, historyVars>>
  /\ Quiet

\* The journal entry and, for a failed output-off, the alarm.
Announce(c) ==
  /\ pc[c] = "report"
  /\ debt' = IF failed[c] THEN "alarmed" ELSE debt
  /\ Goto(c, "idle")
  /\ UNCHANGED <<slotVars, kind, cancelled, try, failed, heard, admitted, spoiled>>
  /\ Quiet

\* sequence.Start when energizing failed: no output-off.
Unset(c) ==
  /\ pc[c] = "unset"
  /\ active' = [active EXCEPT !["sequence"] = IF @ = c THEN None ELSE @]
  /\ Goto(c, "leave")
  /\ UNCHANGED <<owner, kind, cancelled, try, failed, heard, admitted, historyVars>>
  /\ Quiet

\* charger.Start and ivtrace.Start when applyStartOrder failed: an output-off
\* whose error is dropped and which nothing confirms.
Abort(c) ==
  /\ pc[c] = "abort" /\ WriteFree
  /\ \E err \in BOOLEAN :
       /\ OffAttempt(c, "leave", err)
       /\ debt' = IF err THEN "logged" ELSE "unconfirmed"
  /\ UNCHANGED <<slotVars, kind, cancelled, failed, heard, admitted, spoiled>>

Leave(c) ==
  /\ pc[c] = "leave"
  /\ Release(c)
  /\ Goto(c, "idle")
  /\ UNCHANGED <<active, kind, cancelled, try, failed, heard, admitted, historyVars>>
  /\ Quiet

(***************************************************************************)
(* The stray-output watcher a manager starts when storage held a run that  *)
(* a crash left "running".  The first report it hears decides.             *)
(***************************************************************************)
\* Mutant: the report is taken the wrong way round.
WatchDecideInverted(c) ==
  /\ pc[c] = "watch" /\ heard[c] # "none"
  /\ IF active[Tag(kind[c])] # None \/ heard[c] = "on" \/ owner # Free
     THEN Goto(c, "idle") /\ UNCHANGED <<owner, kind, spoiled>>
     ELSE Acquire(c, kind[c]) /\ Goto(c, "strayCut")
  /\ UNCHANGED <<active, cancelled, try, failed, heard, admitted, debt>>
  /\ Quiet

WatchDecide(c) ==
  /\ pc[c] = "watch" /\ heard[c] # "none"
  /\ IF active[Tag(kind[c])] # None \/ heard[c] = "off" \/ owner # Free
     THEN Goto(c, "idle") /\ UNCHANGED <<owner, kind, spoiled>>
     ELSE Acquire(c, kind[c]) /\ Goto(c, "strayCut")
  /\ UNCHANGED <<active, cancelled, try, failed, heard, admitted, debt>>
  /\ Quiet

WatchGivesUp(c) ==
  /\ pc[c] = "watch" /\ heard[c] = "none"
  /\ Goto(c, "idle")
  /\ UNCHANGED <<slotVars, kind, cancelled, try, failed, heard, admitted, historyVars>>
  /\ Quiet

StrayCut(c) ==
  /\ pc[c] = "strayCut" /\ WriteFree
  /\ \E err \in BOOLEAN : OffAttempt(c, "leave", err)
  /\ UNCHANGED <<slotVars, kind, cancelled, failed, heard, admitted, historyVars>>

(***************************************************************************)
(* Manual control: the gate reads the owner, the handler acts later.  MQTT *)
(* commands pass no gate.                                                  *)
(***************************************************************************)
Admit(m) ==
  /\ owner = Free /\ m \notin admitted
  /\ admitted' = admitted \cup {m}
  /\ UNCHANGED <<slotVars, callVars, historyVars>>
  /\ Quiet

\* Output on, output off, or a register write that overrides the run's own.
ForeignWrite ==
  /\ \E l \in {"manual", "none", lit}, res \in Result : Wire(res, l, {})
  /\ spoiled' = (owner # Free)
  /\ UNCHANGED <<slotVars, callVars, debt>>

\* One write of a request, which may have more to do: a profile has three.
Manual(m) ==
  /\ m \in admitted /\ WriteFree
  /\ ForeignWrite
  /\ \E answered \in SUBSET {m} : admitted' = admitted \ answered

MqttCommand ==
  /\ Mqtt /\ WriteFree
  /\ ForeignWrite
  /\ UNCHANGED admitted

(***************************************************************************)
(* The device and the session.                                             *)
(***************************************************************************)
Send(what) == rx' = Append(rx, [what |-> what, on |-> lit # "none"])

\* Once a session is enabled the device pushes measurements on its own.
Push ==
  /\ link # "down" /\ ~frozen /\ ~asked /\ Len(rx) < RxCap
  /\ Send("meas")
  /\ UNCHANGED <<slotVars, callVars, link, frozen, asked, cacheVars, deviceVars, faults,
                 admitted, historyVars>>

Answer ==
  /\ link # "down" /\ ~frozen /\ asked /\ Len(rx) < RxCap
  /\ Send("dump")
  /\ asked' = FALSE
  /\ UNCHANGED <<slotVars, callVars, link, frozen, cacheVars, deviceVars, faults, admitted,
                 historyVars>>

\* The supply's own protection opens the output and reports the change.
Trip ==
  /\ lit # "none"
  /\ lit' = "none"
  /\ IF link = "down" \/ frozen
     THEN UNCHANGED rx
     ELSE Len(rx) < RxCap /\ rx' = Append(rx, [what |-> "change", on |-> FALSE])
  /\ UNCHANGED <<slotVars, callVars, link, frozen, asked, cacheVars, armed, faults, admitted,
                 historyVars>>

\* What a subscriber makes of a report: a Telemetry for a measurement, carrying
\* the cached output state; a StateSnapshot for a dump.
Hears(c, r, on) ==
  CASE pc[c] \in {"darken", "settle"} /\ r.what = "meas" /\ ~on ->
         IF r.on THEN "onload" ELSE "open"
    [] pc[c] = "watch" /\ heard[c] = "none" /\ r.what # "change" -> IF on THEN "on" ELSE "off"
    [] pc[c] = "confirm" /\ ~on /\ r.what # "change" -> "off"
    [] OTHER -> heard[c]

\* handleFrame: the first dump of a session is what makes the hub connected.
HubRead ==
  /\ rx # <<>>
  /\ LET r == Head(rx)
         on == IF r.what = "meas" THEN seen ELSE r.on
     IN /\ seen' = on
        /\ volt' = IF r.what = "change" THEN volt ELSE r.on
        /\ link' = IF r.what = "dump" THEN "up" ELSE link
        /\ heard' = [c \in Calls |-> Hears(c, r, on)]
  /\ rx' = Tail(rx)
  /\ UNCHANGED <<slotVars, pc, kind, cancelled, try, failed, frozen, asked, deviceVars,
                 faults, admitted, historyVars>>

Session(l) ==
  /\ link' = l
  /\ UNCHANGED <<slotVars, callVars, frozen, cacheVars, deviceVars, admitted, historyVars>>

\* Dial, and the handshake's session-enable frame; then its dump request.
Dial == link = "down" /\ Session("opening") /\ UNCHANGED <<rx, asked, faults>>

Handshake ==
  /\ link = "opening" /\ ~DumpDue /\ WriteFree
  /\ Session("opening") /\ asked' = TRUE /\ UNCHANGED <<rx, faults>>

\* answerTimeout on a session whose device never answered.
NoAnswer == link = "opening" /\ frozen /\ Down /\ Session("down") /\ UNCHANGED faults

LinkDrop == link # "down" /\ Fault("drop") /\ Down /\ Session("down")

Freeze(f) ==
  /\ frozen # f /\ frozen' = f
  /\ IF f THEN Fault("freeze") ELSE UNCHANGED faults
  /\ UNCHANGED <<slotVars, callVars, link, rx, asked, cacheVars, deviceVars, admitted,
                 historyVars>>

(***************************************************************************)
(* The specification.                                                      *)
(***************************************************************************)
\* What a call does by itself once it holds the slot; a run only when stopped.
Advance(c) ==
  \/ Claimed(c) \/ Probe(c) \/ Darken(c) \/ Settle(c) \/ Arm(c)
  \/ Energize(c) \/ Refresh(c) \/ Publish(c)
  \/ Cut(c) \/ Subscribe(c) \/ Confirm(c) \/ Clear(c) \/ Finish(c) \/ Announce(c)
  \/ Unset(c) \/ Abort(c) \/ Leave(c)
  \/ WatchDecide(c) \/ WatchGivesUp(c) \/ StrayCut(c)

CallStep(c) ==
  \/ \E k \in Kinds : Begin(c, k)
  \/ RunWrite(c) \/ RunEnds(c)
  \/ Advance(c)

DeviceStep == Push \/ Answer \/ Trip \/ HubRead
LinkStep == Dial \/ Handshake \/ NoAnswer \/ LinkDrop \/ \E f \in BOOLEAN : Freeze(f)

Next ==
  \/ \E c \in Calls : CallStep(c)
  \/ \E e \in Engine : Stop(e)
  \/ \E m \in Manuals : Admit(m) \/ Manual(m)
  \/ MqttCommand
  \/ DeviceStep
  \/ LinkStep

\* Goroutines are scheduled, timers fire, and a live device keeps reporting.
\* Nothing is assumed of clients, faults, or how long a run goes on unstopped.
Fairness ==
  /\ \A c \in Calls : WF_vars(Advance(c)) /\ WF_vars(RunEnds(c) /\ cancelled[c])
  /\ WF_vars(Push) /\ WF_vars(Answer) /\ WF_vars(HubRead)
  /\ WF_vars(Dial) /\ WF_vars(Handshake) /\ WF_vars(NoAnswer)

Spec == Init /\ [][Next]_vars
FairSpec == Spec /\ Fairness
------------------------------------------------------------------------------
(***************************************************************************)
(* Properties.                                                             *)
(***************************************************************************)
Report == [what : {"meas", "dump", "change"}, on : BOOLEAN]

TypeOK ==
  /\ owner \in Engine \cup {Free}
  /\ active \in [Engine -> Calls \cup {None}]
  /\ pc \in [Calls -> Loc]
  /\ kind \in [Calls -> Kind]
  /\ cancelled \in [Calls -> BOOLEAN]
  /\ try \in [Calls -> 1 .. Tries]
  /\ failed \in [Calls -> BOOLEAN]
  /\ heard \in [Calls -> {"none", "open", "onload", "on", "off"}]
  /\ link \in {"down", "opening", "up"}
  /\ frozen \in BOOLEAN
  /\ rx \in Seq(Report)
  /\ asked \in BOOLEAN
  /\ seen \in BOOLEAN /\ volt \in BOOLEAN
  /\ lit \in Engine \cup {"none", "crash", "manual"}
  /\ armed \subseteq Reg
  /\ faults \in 0 .. MaxFaults
  /\ admitted \subseteq Manuals
  /\ spoiled \in BOOLEAN
  /\ debt \in {"none", "unconfirmed", "logged", "alarmed"}

Holds(c) == pc[c] \in HoldLoc

\* At most one call is between its Acquire and its Release, and the interlock
\* names its engine exactly then (device.Interlock).
SingleOwner ==
  /\ \A c, d \in Calls : Holds(c) /\ Holds(d) => c = d
  /\ \A c \in Calls : Holds(c) => owner = Tag(kind[c])
  /\ owner # Free => \E c \in Calls : Holds(c)

\* A published run holds the slot under its own engine's tag until finish clears
\* it: no manager's active pointer outlives its hold on the interlock, and only a
\* sequence is published before the output is on.
ActiveOwnsOutput ==
  \A e \in Engine : active[e] # None =>
    /\ \/ pc[active[e]] \in RunLoc \ {"release"}
       \/ pc[active[e]] \in {"energize", "refresh", "unset"} /\ e = "sequence"
    /\ kind[active[e]] = e
    /\ owner = e

\* A charge or a sweep switches the output on only over protections and setpoints
\* it wrote itself, unless somebody else's write or a frozen device got in between.
ArmedBeforeEnergized ==
  [][lit' \in {"charge", "iv"} /\ lit' # lit => armed = Reg \/ spoiled]_vars

\* A charge or a sweep that is over has left the output off, or has an alarm out or
\* on its way, or is one of two exceptions: its start failed, and dropped the result
\* of the output-off, or it took for a confirmation a cached or an in-flight report
\* older than the output coming on.
OrphanAnnounced ==
  owner = Free /\ lit \in {"charge", "iv"} =>
    debt # "none" \/ \E c \in Calls : pc[c] = "report" /\ failed[c]

\* Stop is always answered: the run it cancels gives the slot back.
StopReleases == \A c \in Calls \ Watchers : cancelled[c] /\ Holds(c) ~> ~Holds(c)

\* A start or a pre-flight comes to an end: it runs or lets go.
StartResolves ==
  \A c \in Calls \ Watchers : pc[c] \in StartLoc \cup LeaveLoc ~> pc[c] \in {"run", "idle"}

\* Once a boot-time watcher has heard that the output is on, a crash's leftover is
\* cut, unless a client's start takes the slot: the watcher gives way to it, for
\* good, even if the start then fails before it switches anything.
CrashOutputCut ==
  (\E w \in Watchers : pc[w] = "watch" /\ heard[w] = "on")
    ~> lit # "crash" \/ \E c \in Calls \ Watchers : Holds(c)

\* The three managers over one interlock implement the single output slot.
SlotHolder == IF \E c \in Calls : Holds(c) THEN CHOOSE c \in Calls : Holds(c) ELSE None
Slot == INSTANCE OutputSlot WITH
          holder <- SlotHolder,
          source <- IF lit \in Engine THEN "run" ELSE lit
ImplementsSlot == Slot!Spec
------------------------------------------------------------------------------
(***************************************************************************)
(* What the repository's documents say of the program, and the code does   *)
(* not do.                                                                 *)
(***************************************************************************)
\* README: every exit path of a sequence run switches the output off again.
EndedSequenceLeavesDark == owner = Free => lit # "sequence"

\* README: a 409 guard blocks manual control while a program owns the device.  Without
\* MQTT, nobody else switches the output on, or writes over the registers the run set,
\* while a run is under way.
ManualControlBlocked ==
  [][\/ lit' = "manual" /\ lit # "manual"
     \/ armed' = {} /\ armed # {}
     => \A e \in Engine : active[e] = None]_vars

==============================================================================
