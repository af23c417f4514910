------------------------------ MODULE Notifier ------------------------------
(***************************************************************************)
(* Notifications and metering sessions (package notify).  One goroutine    *)
(* takes the hub's updates from a lossy subscription; it journals what the *)
(* output delivered between on and off, computed from the device's running *)
(* counter as the hub has it cached when the update is handled, and it     *)
(* announces updates, through a throttle whose timers run on their own.    *)
(*                                                                         *)
(* Charge is counted in units (capacity and energy are treated alike),     *)
(* time in steps of the cooldown.  What becomes of a message in the send   *)
(* queue is left out.                                                      *)
(***************************************************************************)
EXTENDS Naturals, Sequences, FiniteSets

CONSTANTS
  Kinds,     \* of notification, of those the user may enable
  Cooldown,  \* Service.cooldown
  Buffer,    \* bound: updates in the subscriber's buffer (64 in the hub)
  MaxCharge, \* bound: charge the device delivers
  MaxEvents  \* bound: switches, losses, power cycles, outages, edits

ASSUME BoundsAssumption ==
  /\ Kinds \subseteq {"deviceLink", "output", "meteringSession", "protectionTrip"}
  /\ Cooldown \in Nat \ {0} /\ Buffer \in Nat \ {0}
  /\ MaxCharge \in Nat /\ MaxEvents \in Nat

VARIABLES
  dev,       \* the device: output and counter
  link,      \* Hub.connected
  cache,     \* Hub.state: output and counter as last reported
  queue,     \* updates published and not taken yet
  events,    \* so far
  db,        \* the database answers
  stored,    \* the kinds enabled in it
  known,     \* Service.lastSettings
  session,   \* Service.session: the counter at its start
  wasDown,   \* Service.sawDisconnect
  throttle,  \* throttleState.kinds
  stopped,   \* throttleState.stopped: Run has returned
  delivered, \* not in the code: charge that left the device
  journaled  \* not in the code: sum of the journaled sessions

device == <<dev, link, cache>>
settings == <<db, stored>>
service == <<known, session, wasDown, throttle, stopped>>
totals == <<delivered, journaled>>
vars == <<dev, link, cache, queue, events, db, stored, known, session, wasDown, throttle,
          stopped, delivered, journaled>>

None == MaxCharge + 1   \* no session
NoTimer == Cooldown + 1

\* since is the age of lastSent; timer is what is left of flush.
Quiet == [since |-> Cooldown, pending |-> 0, timer |-> NoTimer]

Init ==
  /\ dev = [on |-> FALSE, count |-> 0] /\ cache = dev
  /\ link = TRUE
  /\ queue = <<>> /\ events = 0
  /\ db \in BOOLEAN /\ stored \in {{}, Kinds} /\ known = Kinds
  /\ session = None /\ wasDown = FALSE
  /\ throttle = [k \in Kinds |-> Quiet] /\ stopped = FALSE
  /\ delivered = 0 /\ journaled = 0

(***************************************************************************)
(* The device and the hub.                                                 *)
(***************************************************************************)
Event == events < MaxEvents /\ events' = events + 1

\* broadcastLocked, one update after the other: a full buffer loses them.
Published(updates) ==
  LET room == Buffer - Len(queue)
  IN queue \o SubSeq(updates, 1, IF Len(updates) < room THEN Len(updates) ELSE room)

Status(up) == [kind |-> "status", up |-> up]
Output(on) == [kind |-> "output", up |-> on]
Trip == [kind |-> "trip", up |-> FALSE]

Deliver ==
  /\ dev.on /\ delivered < MaxCharge
  /\ dev' = [dev EXCEPT !.count = @ + 1]
  /\ delivered' = delivered + 1
  /\ UNCHANGED <<link, cache, queue, events, settings, service, journaled>>

Switch ==
  /\ Event
  /\ dev' = [dev EXCEPT !.on = ~@]
  /\ UNCHANGED <<link, cache, queue, settings, service, totals>>

\* Metering is enabled anew: the counter restarts.  A serial bridge may keep the link up.
PowerCycle ==
  /\ Event
  /\ dev' = [on |-> FALSE, count |-> 0]
  /\ UNCHANGED <<link, cache, queue, settings, service, totals>>

Counted ==
  /\ link
  /\ cache' = [cache EXCEPT !.count = dev.count]
  /\ UNCHANGED <<dev, link, queue, events, settings, service, totals>>

Switched ==
  /\ link /\ cache.on # dev.on
  /\ cache' = [cache EXCEPT !.on = dev.on]
  /\ queue' = Published(<<Output(dev.on)>>)
  /\ UNCHANGED <<dev, link, events, settings, service, totals>>

\* The protection also switches the output off; the hub hears of the trip first.
Tripped ==
  /\ Event /\ link /\ dev.on
  /\ dev' = [dev EXCEPT !.on = FALSE]
  /\ queue' = Published(<<Trip>>)
  /\ UNCHANGED <<link, cache, settings, service, totals>>

LinkLost ==
  /\ Event /\ link
  /\ link' = FALSE
  /\ queue' = Published(<<Status(FALSE)>>)
  /\ UNCHANGED <<dev, cache, settings, service, totals>>

\* The first dump of a session.
Reconnected ==
  /\ ~link
  /\ link' = TRUE /\ cache' = dev
  /\ queue' = Published(<<Status(TRUE)>> \o IF cache.on # dev.on THEN <<Output(dev.on)>> ELSE <<>>)
  /\ UNCHANGED <<dev, events, settings, service, totals>>

(***************************************************************************)
(* The settings.                                                           *)
(***************************************************************************)
DatabaseTurns ==
  /\ Event
  /\ db' = ~db
  /\ UNCHANGED <<device, queue, stored, service, totals>>

\* putNotificationSettings merges the fields of the request into what it reads.
PutSettings ==
  /\ db /\ Event
  /\ \E k \in Kinds : stored' = IF k \in stored THEN stored \ {k} ELSE stored \cup {k}
  /\ UNCHANGED <<device, queue, db, service, totals>>

\* currentSettings: the last ones loaded, while the database does not answer.
CurrentSettings == IF db THEN stored ELSE known

(***************************************************************************)
(* The throttle.                                                           *)
(***************************************************************************)
Sent(k) == [k EXCEPT !.since = 0, !.pending = 0]

\* Mutant: what is pending does not keep a message from going out on its own.
NotifyPastPending(k) ==
  IF k.since >= Cooldown THEN [k EXCEPT !.since = 0]
  ELSE [k EXCEPT !.pending = IF @ = 0 THEN 1 ELSE 2,
                 !.timer = IF @ = NoTimer THEN Cooldown - k.since ELSE @]

\* throttleNotify: at once, or with the others when the window closes.  One pending
\* message is told from several.
Throttled(k) ==
  IF k.pending = 0 /\ k.since >= Cooldown THEN Sent(k)
  ELSE [k EXCEPT !.pending = IF @ = 0 THEN 1 ELSE 2,
                 !.timer = IF @ = NoTimer THEN Cooldown - k.since ELSE @]

\* Mutant: what was pending is not cleared with the message that tells of it.
FlushedUncleared(k) ==
  [(IF k.pending = 0 THEN k ELSE [k EXCEPT !.since = 0]) EXCEPT !.timer = NoTimer]

\* flushKind
Flushed(k) == [(IF k.pending = 0 THEN k ELSE Sent(k)) EXCEPT !.timer = NoTimer]

FlushKind ==
  /\ ~stopped
  /\ \E k \in Kinds : /\ throttle[k].timer = 0
                      /\ throttle' = [throttle EXCEPT ![k] = Flushed(@)]
  /\ UNCHANGED <<device, queue, events, settings, known, session, wasDown, stopped, totals>>

\* A timer that is due may fire late.
Pass ==
  /\ throttle' = [k \in Kinds |->
       [throttle[k] EXCEPT !.since = IF @ < Cooldown THEN @ + 1 ELSE @,
                           !.timer = IF @ \in {0, NoTimer} THEN @ ELSE @ - 1]]
  /\ UNCHANGED <<device, queue, events, settings, known, session, wasDown, stopped, totals>>

\* notify, for what a handler announces: by the settings, then the throttle.
Notify(kinds) ==
  /\ known' = IF kinds = {} THEN known ELSE CurrentSettings
  /\ throttle' = [k \in Kinds |-> IF k \in kinds \cap CurrentSettings /\ ~stopped
                                  THEN Throttled(throttle[k]) ELSE throttle[k]]

(***************************************************************************)
(* Run: one update at a time.  The counter is the one cached by now.       *)
(***************************************************************************)
Take(kind) == ~stopped /\ queue # <<>> /\ Head(queue).kind = kind /\ queue' = Tail(queue)

\* startSession leaves an open session alone.
Opened == IF session = None THEN cache.count ELSE session

\* handleStatus: a session is aborted, or resumed if the output is on.
HandleStatus ==
  /\ Take("status")
  /\ IF Head(queue).up
     THEN /\ session' = IF cache.on THEN Opened ELSE session
          /\ wasDown' = wasDown
          /\ Notify(IF wasDown THEN {"deviceLink"} ELSE {})
     ELSE /\ session' = None
          /\ wasDown' = TRUE
          /\ Notify({"deviceLink"})
  /\ UNCHANGED <<device, events, settings, stopped, totals>>

\* Mutant: the counter is taken to start at zero with the session.
MeteredRaw == cache.count

\* finishSession: the difference, or since the counter restarted.
Metered == IF cache.count < session THEN cache.count ELSE cache.count - session

\* handleOutput
HandleOutput ==
  /\ Take("output")
  /\ IF Head(queue).up
     THEN /\ session' = Opened
          /\ UNCHANGED journaled
          /\ Notify({"output"})
     ELSE /\ session' = None
          /\ journaled' = journaled + (IF session = None THEN 0 ELSE Metered)
          /\ Notify(IF session = None THEN {"output"} ELSE {"meteringSession", "output"})
  /\ UNCHANGED <<device, events, settings, wasDown, stopped, delivered>>

HandleTrip ==
  /\ Take("trip")
  /\ Notify({"protectionTrip"})
  /\ UNCHANGED <<device, events, settings, session, wasDown, stopped, totals>>

\* stopThrottle
Stop ==
  /\ ~stopped /\ Event
  /\ stopped' = TRUE
  /\ throttle' = [k \in Kinds |-> [throttle[k] EXCEPT !.timer = NoTimer]]
  /\ UNCHANGED <<device, queue, settings, known, session, wasDown, totals>>

(***************************************************************************)
(* The specification.                                                      *)
(***************************************************************************)
Hub == Deliver \/ Switch \/ PowerCycle \/ Counted \/ Switched \/ Tripped \/ LinkLost \/ Reconnected

Next ==
  \/ Hub \/ DatabaseTurns \/ PutSettings
  \/ HandleStatus \/ HandleOutput \/ HandleTrip \/ FlushKind \/ Stop
  \/ Pass

Spec == Init /\ [][Next]_vars

\* Time passes, timers fire.
FairSpec == Spec /\ WF_vars(Pass) /\ WF_vars(FlushKind)
------------------------------------------------------------------------------
(***************************************************************************)
(* Properties.                                                             *)
(***************************************************************************)
\* The journaled sessions never add up to more than the device delivered: whatever
\* updates are lost or handled late, however stale the cached counter, wherever it restarts.
NeverOvercounts == journaled <= delivered

\* Two messages of a kind leave at least a cooldown apart, also when a timer fires late.
OnePerWindow ==
  [][\A k \in Kinds :
       throttle'[k].since = 0 /\ (throttle[k].since # 0 \/ throttle[k].pending > throttle'[k].pending)
         => throttle[k].since >= Cooldown]_vars

\* What was suppressed is sent in the end, unless the service stops: a kind is never
\* silenced for good.
SuppressedIsSent == \A k \in Kinds : ~<>[](throttle[k].pending > 0 /\ ~stopped)
=============================================================================
