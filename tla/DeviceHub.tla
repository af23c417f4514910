------------------------------ MODULE DeviceHub ------------------------------
(***************************************************************************)
(* The hub (device/hub.go, apply.go): it dials, shakes hands and reads,    *)
(* keeps the cache, serializes the writes of the commands and fans updates *)
(* out to the subscribers that never stall it.                             *)
(*                                                                         *)
(* The lock writeMu is modelled, since a write blocks under it; mu is held *)
(* for a step at a time.  Timeouts are events that may come; the fairness  *)
(* says which of them must.  There is one subscriber.  An update is the    *)
(* part of a view it carries, such as [link |-> TRUE] for a StatusChange,  *)
(* and of the subscriber's channel only the room left counts: view is what *)
(* the subscriber knows once it has taken all that is in it.               *)
(***************************************************************************)
EXTENDS DpsDevice

CONSTANTS
  Clients,      \* the goroutines that give commands
  Hub, NoOne,   \* the hub's own, and nobody, as holders of writeMu
  NoState,      \* a nil state
  Commands,     \* by client, [set: a function of some of the float registers, out: the
                \* output write, if any]
  MaxVolts,     \* Limits: what the device reports as its maximum
  Fallback,     \* FallbackMaxVoltage
  Buffer,       \* subscriberBuffer
  MaxCommands,  \* bound: commands given
  MaxFaults,    \* bound: faults of the link, the device and the callers
  Backlog       \* bound: frames the hub has not read yet when the device adds to them

ASSUME HubAssumption ==
  /\ Hub \notin Clients /\ NoOne \notin Clients /\ Hub # NoOne
  /\ Buffer \in Nat \ {0} /\ MaxCommands \in Nat /\ MaxFaults \in Nat /\ Backlog \in Nat
  /\ MaxVolts \in Nat /\ Fallback \in Nat

Caches == [reg : [Floats -> Values \cup {0}], on : BOOLEAN, prot : Trips \cup {"ok"}]
Settings == UNION {[regs -> Values] : regs \in SUBSET Floats}

ASSUME CommandsAssumption ==
  /\ NoState \notin Caches
  /\ \A c \in Clients : Commands[c] \subseteq [set : Settings, out : {{}, {TRUE}, {FALSE}}]

VARIABLES
  dev,        \* the device
  open,       \* the session's transport has not been closed, at either end
  stalled,    \* the peer has stopped draining its end
  toDev, toHost,  \* the frames on the wire
  pc,         \* Run and session: "down", "shake", "read"
  conn,       \* h.conn is the session's connection (else nil)
  connected,  \* h.connected
  dumped,     \* firstDump is closed
  cache,      \* h.state
  writer,     \* who holds writeMu
  onWire,     \* the holder's connection is that of the session
  left,       \* the frames the holder has to write yet
  client,     \* each client's command: "idle", "call" until write returns, "store"
  passed,     \* ghost: registers of its command written anew, or lost, before it stores
  late,       \* ghost: registers whose cached value a command left behind the device's
  issued, faults,
  room,       \* free places of the subscriber's channel
  view,       \* what the updates it was sent show it
  missed      \* ghost: what an update it lost would have shown it

wire == <<open, stalled, toDev, toHost>>
hub == <<pc, conn, connected, dumped, cache>>
lock == <<writer, onWire, left>>
calls == <<client, passed, late, issued>>
sub == <<room, view, missed>>
vars == <<dev, wire, hub, lock, calls, faults, sub>>

Handshake == <<SessionFrame, GetAllFrame>>

\* The series of frames of a command: its registers in their order, the output, the dump.
Frames(cmd) ==
  LET Of(r) == IF r \in DOMAIN cmd.set THEN <<WriteFrame(r, cmd.set[r])>> ELSE <<>>
      Output == IF cmd.out = {} THEN <<>> ELSE <<OutputFrame(TRUE \in cmd.out)>>
  IN  Of("volts") \o (Of("ovp") \o (Output \o <<GetAllFrame>>))

Idle == [pc |-> "idle", cmd |-> [set |-> <<>>, out |-> {}]]

Init ==
  /\ dev = Powered /\ open = FALSE /\ stalled = FALSE /\ toDev = <<>> /\ toHost = <<>>
  /\ pc = "down" /\ conn = FALSE /\ connected = FALSE /\ dumped = FALSE /\ cache = NoState
  /\ writer = NoOne /\ onWire = FALSE /\ left = <<>>
  /\ client = [c \in Clients |-> Idle] /\ passed = [c \in Clients |-> {}] /\ late = {}
  /\ issued = 0 /\ faults = MaxFaults
  /\ room = Buffer /\ view = [link |-> FALSE, on |-> FALSE, prot |-> "ok"] /\ missed = {}

(***************************************************************************)
(* broadcastLocked: a full buffer loses the update.                        *)
(***************************************************************************)
Least(m, n) == IF m < n THEN m ELSE n
Telling(x, updates) == {i \in DOMAIN updates : x \in DOMAIN updates[i]}
Sent(x, updates) == {i \in Telling(x, updates) : i <= room}
Last(told) == CHOOSE i \in told : \A j \in told : j <= i
Broadcast(updates) ==
  /\ view' = [x \in DOMAIN view |-> IF Sent(x, updates) = {}
                                   THEN view[x]
                                   ELSE updates[Last(Sent(x, updates))][x]]
  /\ missed' = {x \in DOMAIN view : IF Telling(x, updates) = {}
                                    THEN x \in missed
                                    ELSE \E i \in Telling(x, updates) : i > room}
  /\ room' = room - Least(room, Len(updates))

Take ==
  /\ room < Buffer /\ room' = room + 1
  /\ UNCHANGED <<dev, wire, hub, lock, calls, faults, view, missed>>

(***************************************************************************)
(* Run, session and handshake.                                             *)
(***************************************************************************)
Dial ==
  /\ pc = "down"
  /\ pc' = "shake" /\ open' = TRUE /\ conn' = TRUE /\ dumped' = FALSE
  /\ dev' = [dev EXCEPT !.session = FALSE]
  /\ stalled' = FALSE /\ toDev' = <<>> /\ toHost' = <<>>
  /\ UNCHANGED <<connected, cache, lock, calls, faults, sub>>

DialFails ==
  /\ pc = "down" /\ faults > 0 /\ faults' = faults - 1
  /\ UNCHANGED <<dev, wire, hub, lock, calls, sub>>

ShakeHands ==
  /\ pc = "shake" /\ writer = NoOne
  /\ writer' = Hub /\ onWire' = TRUE /\ left' = Handshake
  /\ UNCHANGED <<dev, wire, hub, calls, faults, sub>>

Unlock == writer' = NoOne /\ onWire' = FALSE /\ left' = <<>>

\* Mutant: a session whose connection was dropped goes without a word.
LossOfReads == IF connected /\ conn THEN << [link |-> FALSE] >> ELSE <<>>
Loss == IF connected THEN << [link |-> FALSE] >> ELSE <<>>

\* The deferred end of a session: the transport closed, the hub detached, and the loss
\* announced if there was a connection to lose.
Detach ==
  /\ open' = FALSE /\ UNCHANGED <<stalled, toDev, toHost>>
  /\ pc' = "down" /\ conn' = FALSE /\ connected' = FALSE /\ UNCHANGED <<dumped, cache>>
  /\ Broadcast(Loss)
  /\ passed' = [c \in Clients |-> IF client[c].pc = "store" THEN DOMAIN client[c].cmd.set ELSE {}]
  /\ UNCHANGED <<client, issued>>

ReadFails ==
  /\ pc = "read" /\ ~open
  /\ Detach
  /\ onWire' = FALSE
  /\ UNCHANGED <<dev, writer, left, late, faults>>

\* The watchdog of a fresh session: the device answers no more, or it is only slow.
Silent ==
  \/ stalled
  \/ toDev = <<>> /\ \A i \in DOMAIN toHost : toHost[i].reg # "all"

Unanswered ==
  /\ open' = FALSE /\ UNCHANGED <<stalled, toDev, toHost>>
  /\ UNCHANGED <<dev, hub, lock, calls, sub>>

AnswerTimeout == pc = "read" /\ open /\ ~dumped /\ Silent /\ Unanswered /\ UNCHANGED faults

AnswerLate ==
  /\ pc \in {"shake", "read"} /\ open /\ ~dumped /\ faults > 0 /\ faults' = faults - 1
  /\ Unanswered

\* Decode knows the echo of a setpoint and none of a threshold.
Echoed == {"volts"}

(***************************************************************************)
(* A command: the checks, writeMu and the connection as it is then, the    *)
(* series of frames, and for a setter the store, after writeMu.            *)
(***************************************************************************)
\* Limits of the snapshot: the device's own maxima, once it has reported them.
Limit == IF cache = NoState THEN Fallback ELSE MaxVolts
Setpoint(v) == v <= Limit
Threshold(v) == v > 0
Valid(cmd) == \A r \in DOMAIN cmd.set : IF r = "volts" THEN Setpoint(cmd.set[r]) ELSE Threshold(cmd.set[r])

Call(c, cmd) ==
  /\ client[c].pc = "idle" /\ issued < MaxCommands /\ Valid(cmd)
  /\ client' = [client EXCEPT ![c] = [pc |-> "call", cmd |-> cmd]] /\ issued' = issued + 1
  /\ UNCHANGED <<dev, wire, hub, lock, passed, late, faults, sub>>

Returns(c) == client' = [client EXCEPT ![c] = Idle] /\ passed' = [passed EXCEPT ![c] = {}]

\* write: a device that has not answered counts as offline.
Lock(c) ==
  /\ client[c].pc = "call" /\ writer = NoOne
  /\ IF conn /\ connected
     THEN /\ writer' = c /\ onWire' = TRUE /\ left' = Frames(client[c].cmd)
          /\ UNCHANGED <<client, passed>>
     ELSE Returns(c) /\ UNCHANGED lock
  /\ UNCHANGED <<dev, wire, hub, late, issued, faults, sub>>

(***************************************************************************)
(* writeConn, a frame at a time under writeMu.                             *)
(***************************************************************************)
Sends ==
  /\ writer # NoOne /\ onWire /\ open /\ ~stalled
  /\ toDev' = Append(toDev, Head(left)) /\ UNCHANGED <<open, stalled, toHost>>
  /\ late' = IF Head(left) = GetAllFrame THEN {} ELSE late \ ({Head(left).reg} \cap Echoed)
  /\ UNCHANGED <<dev, conn, connected, dumped, cache, issued, faults, sub>>

Overtaken(c) == client[c].pc = "store" /\ Head(left).reg \in DOMAIN client[c].cmd.set
Overtakes ==
  passed' = [c \in Clients |-> IF Overtaken(c) THEN passed[c] \cup {Head(left).reg} ELSE passed[c]]

Writes ==
  /\ Sends /\ Overtakes /\ Len(left) > 1
  /\ left' = Tail(left) /\ UNCHANGED <<writer, onWire, pc, client>>

Shaken ==
  /\ Sends /\ Len(left) = 1 /\ writer = Hub
  /\ Unlock /\ pc' = "read" /\ UNCHANGED <<client, passed>>

\* The last frame of a series is the GetAll.
Return(c) ==
  /\ Sends /\ Len(left) = 1 /\ writer = c
  /\ Unlock
  /\ IF client[c].cmd.set = <<>>
     THEN Returns(c)
     ELSE client' = [client EXCEPT ![c].pc = "store"] /\ UNCHANGED passed
  /\ UNCHANGED pc

\* Mutant: the hub is detached from a connection it does not close.
OpenAsWas(drops) == open
OpenAfter(drops) == open /\ ~drops

\* The holder gives up, the error is returned, and the session is over if it is the hub's.
GivesUp(drops) ==
  /\ Unlock
  /\ IF writer = Hub
     THEN Detach
     ELSE /\ Returns(writer) /\ UNCHANGED issued
          /\ conn' = (conn /\ ~drops) /\ open' = OpenAfter(drops)
          /\ UNCHANGED <<stalled, toDev, toHost, pc, connected, dumped, cache, sub>>
  /\ UNCHANGED dev

WriteFails ==
  /\ writer # NoOne /\ ~(onWire /\ open)
  /\ GivesUp(FALSE) /\ UNCHANGED <<late, faults>>

\* Mutant: only the handshake's writes are bounded.
HandshakeStalls ==
  /\ writer = Hub /\ onWire /\ open /\ stalled
  /\ GivesUp(TRUE) /\ UNCHANGED <<late, faults>>

\* The write timeout, dropConn and Close.
WriteStalls ==
  /\ writer # NoOne /\ onWire /\ open /\ stalled
  /\ GivesUp(TRUE) /\ UNCHANGED <<late, faults>>

\* The caller's context: noticed in pace, it leaves the connection alone, and in a write
\* it drops it.  What was written has been echoed, and no dump was asked for.
Pending == {left[i].reg : i \in DOMAIN left}
Cancel(inWrite) ==
  /\ writer \in Clients /\ faults > 0 /\ faults' = faults - 1
  /\ GivesUp(inWrite /\ onWire)
  /\ late' = late \cup (DOMAIN client[writer].cmd.set \ (Pending \cup Echoed))

Store(c) ==
  /\ client[c].pc = "store"
  /\ LET set == client[c].cmd.set
         stored == [r \in Floats |-> IF r \in DOMAIN set THEN set[r] ELSE cache.reg[r]]
     IN  /\ cache' = [cache EXCEPT !.reg = stored]
         /\ late' = (late \ DOMAIN set) \cup passed[c]
  /\ Returns(c)
  /\ UNCHANGED <<dev, wire, pc, conn, connected, dumped, lock, issued, faults, sub>>

(***************************************************************************)
(* handleFrame and applyLocked.                                            *)
(***************************************************************************)
Blank == [reg |-> [r \in Floats |-> 0], on |-> FALSE, prot |-> "ok"]
State == IF cache = NoState THEN Blank ELSE cache

Telemetry == [on |-> State.on, prot |-> State.prot]
OutputChange(on) == IF cache # NoState /\ State.on # on THEN << [on |-> on] >> ELSE <<>>
TripEvent(p) ==
  IF cache # NoState /\ State.prot # p /\ p # "ok" THEN << [prot |-> p] >> ELSE <<>>

Applies(f) ==
  /\ CASE f.reg = "measurement" -> cache' = State /\ Broadcast(<<Telemetry>>)
       [] f.reg = "output" -> cache' = [State EXCEPT !.on = f.val = 1] /\ Broadcast(OutputChange(f.val = 1))
       [] f.reg = "protection" -> cache' = [State EXCEPT !.prot = f.val] /\ Broadcast(TripEvent(f.val))
       [] f.reg = "volts" -> cache' = [State EXCEPT !.reg["volts"] = f.val] /\ UNCHANGED sub
       [] OTHER -> UNCHANGED <<cache, sub>>
  /\ UNCHANGED <<connected, dumped>>

\* Mutant: the output and the protection are left to the frames pushed on a change.
ReplacesRegisters(d) == cache' = [State EXCEPT !.reg = d.reg]
Replaces(d) == cache' = d

\* A full dump proves the device is there: only it makes the hub connected.
AppliesDump(d) ==
  /\ Replaces(d)
  /\ connected' = TRUE /\ dumped' = TRUE
  /\ Broadcast((IF connected THEN <<>> ELSE << [link |-> TRUE] >>)
                 \o OutputChange(d.on) \o TripEvent(d.prot)
                 \o << [link |-> TRUE, on |-> d.on, prot |-> d.prot] >>)

Read ==
  /\ pc = "read" /\ toHost # <<>>
  /\ toHost' = Tail(toHost) /\ UNCHANGED <<open, stalled, toDev>>
  /\ LET f == Head(toHost) IN IF f.reg = "all" THEN AppliesDump(f.dump) ELSE Applies(f)
  /\ UNCHANGED <<dev, pc, conn, lock, calls, faults>>

(***************************************************************************)
(* The device and the link.                                                *)
(***************************************************************************)
Pushes(r) ==
  /\ Len(toHost) <= Backlog
  /\ dev' = r.dev
  /\ toHost' = IF open THEN toHost \o r.out ELSE toHost

\* Frames may still arrive after the hub has closed its end.
Serves ==
  /\ toDev # <<>> /\ ~stalled
  /\ Pushes(Handle(dev, Head(toDev))) /\ toDev' = Tail(toDev)
  /\ UNCHANGED <<open, stalled, hub, lock, calls, faults, sub>>

Reports ==
  /\ dev.session /\ open /\ toHost = <<>>
  /\ Pushes(Does(dev, <<Measured>>))
  /\ UNCHANGED <<open, stalled, toDev, hub, lock, calls, faults, sub>>

Overheats ==
  /\ dev.prot = "ok" /\ faults > 0 /\ faults' = faults - 1
  /\ Pushes(Condition(dev, "otp"))
  /\ UNCHANGED <<open, stalled, toDev, hub, lock, calls, sub>>

\* A frame of the handshake that comes too soon is never answered.
Ignores ==
  /\ toDev # <<>> /\ ~dumped /\ faults > 0 /\ faults' = faults - 1
  /\ toDev' = Tail(toDev)
  /\ UNCHANGED <<dev, open, stalled, toHost, hub, lock, calls, sub>>

Stall ==
  /\ open /\ ~stalled /\ faults > 0 /\ faults' = faults - 1
  /\ stalled' = TRUE
  /\ UNCHANGED <<dev, open, toDev, toHost, hub, lock, calls, sub>>

Cut ==
  /\ open /\ faults > 0 /\ faults' = faults - 1
  /\ open' = FALSE
  /\ UNCHANGED <<dev, stalled, toDev, toHost, hub, lock, calls, sub>>

(***************************************************************************)
(* The specification.                                                      *)
(***************************************************************************)
Session == Dial \/ ShakeHands \/ ReadFails \/ AnswerTimeout
Write == Writes \/ Shaken \/ (\E c \in Clients : Return(c)) \/ WriteFails \/ WriteStalls
Command(c) == Lock(c) \/ Store(c)
Faulty == \/ DialFails \/ AnswerLate \/ Overheats \/ Ignores \/ Stall \/ Cut
          \/ \E inWrite \in BOOLEAN : Cancel(inWrite)

Next ==
  \/ Session \/ Write \/ Read \/ Serves \/ Reports \/ Take
  \/ \E c \in Clients : Command(c) \/ \E cmd \in Commands[c] : Call(c, cmd)
  \/ Faulty

\* Every goroutine is scheduled, the timers fire, and a device that hears a frame and is
\* not stalled handles it.  It need not report, and nobody need give a command.
Fairness ==
  /\ WF_vars(Session) /\ WF_vars(Write) /\ WF_vars(Read) /\ SF_vars(Serves)
  /\ \A c \in Clients : WF_vars(Command(c))

Spec == Init /\ [][Next]_vars
FairSpec == Spec /\ Fairness
------------------------------------------------------------------------------
(***************************************************************************)
(* Properties.                                                             *)
(***************************************************************************)
\* When nothing is under way the cache holds what the device does, but for the registers
\* a late store has put back (applyDumpLocked, the setters).
Quiet ==
  /\ pc = "read" /\ connected /\ open /\ ~stalled /\ toDev = <<>> /\ toHost = <<>>
  /\ \A c \in Clients : client[c].pc = "idle"
CacheSettles ==
  Quiet => /\ cache.on = dev.on /\ cache.prot = dev.prot
           /\ \A r \in Floats \ late : cache.reg[r] = dev.reg[r]

\* A subscriber that has taken its updates sees the link, the output and a trip as the hub
\* does, unless an update that would have told it was lost and none like it came since
\* (broadcastLocked, applyLocked, session).
SubscriberAgrees ==
  /\ view.link = connected \/ "link" \in missed
  /\ view.on = State.on \/ "on" \in missed
  /\ State.prot = "ok" \/ view.prot = State.prot \/ "prot" \in missed

\* A command returns, whatever becomes of the link: no writer waits forever under writeMu
\* (writeConn).
CommandsReturn == \A c \in Clients : client[c].pc # "idle" ~> client[c].pc = "idle"

\* Faults over, the hub gets its device back, and commands reach it (Run, session).
Reconnects == []<>(connected /\ conn)
==============================================================================
