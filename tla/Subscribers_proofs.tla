-------------------------- MODULE Subscribers_proofs --------------------------
(***************************************************************************)
(* The two lossy subscribers of the hub that keep books: the notifier and, *)
(* in the second half, the telemetry history.                              *)
(*                                                                         *)
(* What the notifier promises whatever the hub loses and however late it   *)
(* is, for any cooldown, buffer, charge and kinds: the journal never       *)
(* counts more than the device delivered, a cooldown lies between two      *)
(* messages of a kind, and what is suppressed has a timer to tell of it.   *)
(*                                                                         *)
(* The journal.  A session is metered from the counter cached when it is   *)
(* opened to the one cached when it is closed; both lag behind the device. *)
(* What is left between the cache and the device is charge not metered     *)
(* yet, and metering obeys a triangle inequality, also across restarts of  *)
(* the counter: refreshing the cache moves charge from the one leg to the  *)
(* other and never adds any.                                               *)
(***************************************************************************)
EXTENDS Notifier, TelemetryHistory, FiniteSetTheorems, SequenceTheorems, TLAPS

USE BoundsAssumption DEF BoundsAssumption

Reading == [on : BOOLEAN, count : 0 .. MaxCharge]
Updates == [kind : {"status", "output", "trip"}, up : BOOLEAN]
Throttle == [since : 0 .. Cooldown, pending : 0 .. 2, timer : 0 .. NoTimer]

TypeOK ==
  /\ dev \in Reading /\ cache \in Reading /\ link \in BOOLEAN
  /\ queue \in Seq(Updates) /\ Len(queue) <= Buffer
  /\ events \in Nat
  /\ db \in BOOLEAN
  /\ stored \subseteq Kinds /\ known \subseteq Kinds
  /\ session \in 0 .. MaxCharge \cup {None}
  /\ wasDown \in BOOLEAN
  /\ throttle \in [Kinds -> Throttle]
  /\ stopped \in BOOLEAN
  /\ delivered \in 0 .. MaxCharge
  /\ journaled \in Nat

\* What is metered from one reading of the counter to a later one.
MeteredBetween(from, to) == IF to < from THEN to ELSE to - from

\* The charge of the open session, as of the cache.
OpenCharge == IF session = None THEN 0 ELSE MeteredBetween(session, cache.count)

\* Journaled, open and not yet cached: each unit of it was delivered.
MeteredWithinDelivered ==
  /\ dev.count <= delivered
  /\ journaled + OpenCharge + MeteredBetween(cache.count, dev.count) <= delivered

\* A timer of a kind ends no earlier than the cooldown since the last message, and not in
\* vain.
Timed(t) ==
  t.timer # NoTimer => /\ t.pending > 0
                       /\ t.timer <= Cooldown
                       /\ t.timer + t.since >= Cooldown

Awaited(t) == t.pending > 0 => t.timer # NoTimer

\* What is suppressed has its timer until the service stops.
SuppressedHasTimer == ~stopped => \A k \in Kinds : Awaited(throttle[k])

MeterInv ==
  /\ TypeOK /\ MeteredWithinDelivered
  /\ \A k \in Kinds : Timed(throttle[k])
  /\ SuppressedHasTimer

------------------------------------------------------------------------------
(***************************************************************************)
(* Metering.                                                               *)
(***************************************************************************)
\* No detour counts less, whatever the counter does on the way.
LEMMA NoShortcut ==
  ASSUME NEW a \in Nat, NEW b \in Nat, NEW c \in Nat
  PROVE  /\ MeteredBetween(a, b) \in Nat
         /\ MeteredBetween(a, c) <= MeteredBetween(a, b) + MeteredBetween(b, c)
  BY DEF MeteredBetween

\* What the actions do to the readings.
Reads ==
  /\ cache'.count = dev.count /\ dev'.count = dev.count
  /\ UNCHANGED <<session, delivered, journaled>>

LEMMA ReadStep ==
  ASSUME TypeOK, MeteredWithinDelivered, Reads
  PROVE  MeteredWithinDelivered'
<1>1. /\ dev.count \in Nat /\ cache.count \in Nat /\ journaled \in Nat /\ delivered \in Nat
      /\ session # None => session \in Nat
  BY DEF TypeOK, Reading
<1>2. MeteredBetween(dev.count, dev.count) = 0 /\ MeteredBetween(cache.count, dev.count) \in Nat
  BY <1>1 DEF MeteredBetween
<1>3. (OpenCharge)' = IF session = None THEN 0 ELSE MeteredBetween(session, dev.count)
  BY DEF OpenCharge, Reads
<1>4. CASE session = None
  BY <1>1, <1>2, <1>3, <1>4 DEF MeteredWithinDelivered, OpenCharge, Reads
<1>5. CASE session # None
  <2>1. /\ MeteredBetween(session, cache.count) \in Nat /\ MeteredBetween(session, dev.count) \in Nat
        /\ MeteredBetween(session, dev.count)
             <= MeteredBetween(session, cache.count) + MeteredBetween(cache.count, dev.count)
    BY <1>1, <1>5, NoShortcut
  <2>2. journaled + MeteredBetween(session, cache.count) + MeteredBetween(cache.count, dev.count) <= delivered
    BY <1>5 DEF MeteredWithinDelivered, OpenCharge
  <2>3. journaled + MeteredBetween(session, dev.count) + 0 <= delivered
    BY <1>1, <1>2, <2>1, <2>2
  <2>4. QED
    BY <1>2, <1>3, <1>5, <2>3 DEF MeteredWithinDelivered, Reads
<1>6. QED
  BY <1>4, <1>5

\* The device delivers, or is power-cycled.
LEMMA CountStep ==
  ASSUME TypeOK, MeteredWithinDelivered,
         UNCHANGED <<cache, session, journaled>>,
         \/ dev'.count = dev.count + 1 /\ delivered' = delivered + 1
         \/ dev'.count = 0 /\ delivered' = delivered
  PROVE  MeteredWithinDelivered'
<1>1. /\ dev.count \in Nat /\ cache.count \in Nat /\ journaled \in Nat /\ delivered \in Nat
      /\ session # None => session \in Nat
  BY DEF TypeOK, Reading
<1>2. (OpenCharge)' = OpenCharge /\ OpenCharge \in Nat
  BY <1>1, NoShortcut DEF OpenCharge
<1>3. MeteredBetween(cache.count, dev.count) \in Nat
  BY <1>1, NoShortcut
<1>4. CASE dev'.count = dev.count + 1 /\ delivered' = delivered + 1
  <2>1. /\ MeteredBetween(cache.count, dev.count + 1) \in Nat
        /\ MeteredBetween(cache.count, dev.count + 1) <= MeteredBetween(cache.count, dev.count) + 1
    BY <1>1 DEF MeteredBetween
  <2>2. QED
    BY <1>1, <1>2, <1>3, <1>4, <2>1 DEF MeteredWithinDelivered
<1>5. CASE dev'.count = 0 /\ delivered' = delivered
  <2>1. MeteredBetween(cache.count, 0) = 0
    BY <1>1 DEF MeteredBetween
  <2>2. QED
    BY <1>1, <1>2, <1>3, <1>5, <2>1 DEF MeteredWithinDelivered
<1>6. QED
  BY <1>4, <1>5

\* A session is opened, stays as it is, is dropped, or is closed and journaled.
Opens == session' = Opened /\ journaled' = journaled
Drops == session' \in {session, None} /\ journaled' = journaled
Closes == session' = None /\ journaled' = journaled + (IF session = None THEN 0 ELSE Metered)

LEMMA SessionStep ==
  ASSUME TypeOK, MeteredWithinDelivered, UNCHANGED <<dev, cache, delivered>>,
         Opens \/ Drops \/ Closes
  PROVE  /\ MeteredWithinDelivered'
         /\ session' \in 0 .. MaxCharge \cup {None} /\ journaled' \in Nat
<1>1. /\ dev.count \in Nat /\ cache.count \in 0 .. MaxCharge /\ cache.count \in Nat
      /\ journaled \in Nat /\ delivered \in Nat /\ None \notin 0 .. MaxCharge
      /\ session # None => session \in Nat
  BY DEF TypeOK, Reading, None
<1>2. /\ OpenCharge \in Nat /\ MeteredBetween(cache.count, dev.count) \in Nat
      /\ MeteredBetween(cache.count, cache.count) = 0
  BY <1>1, NoShortcut DEF OpenCharge, MeteredBetween
<1>3. /\ dev.count <= delivered
      /\ journaled + OpenCharge + MeteredBetween(cache.count, dev.count) <= delivered
  BY DEF MeteredWithinDelivered
<1>4. (session # None => Metered = OpenCharge) /\ (session = None => OpenCharge = 0)
  BY DEF Metered, OpenCharge, MeteredBetween
<1>5. CASE Opens
  <2>1. session' \in 0 .. MaxCharge /\ session' # None
    BY <1>1, <1>5 DEF Opens, Opened, TypeOK
  <2>2. (OpenCharge)' = MeteredBetween(session', cache.count)
    BY <2>1 DEF OpenCharge
  <2>3. (OpenCharge)' = OpenCharge
    <3>1. CASE session = None
      BY <1>2, <1>4, <1>5, <2>2, <3>1 DEF Opens, Opened
    <3>2. CASE session # None
      BY <1>5, <2>2, <3>2 DEF Opens, Opened, OpenCharge
    <3>3. QED
      BY <3>1, <3>2
  <2>4. QED
    BY <1>1, <1>3, <1>5, <2>1, <2>3 DEF MeteredWithinDelivered, Opens
<1>6. CASE Drops
  <2>1. (OpenCharge)' \in {0, OpenCharge}
    BY <1>6 DEF Drops, OpenCharge
  <2>2. session' \in 0 .. MaxCharge \cup {None} /\ journaled' = journaled
    BY <1>6 DEF Drops, TypeOK
  <2>3. journaled + (OpenCharge)' + MeteredBetween(cache.count, dev.count) <= delivered
    BY <1>1, <1>2, <1>3, <2>1
  <2>4. QED
    BY <1>1, <1>3, <2>2, <2>3 DEF MeteredWithinDelivered
<1>7. CASE Closes
  <2>1. (OpenCharge)' = 0 /\ journaled' = journaled + OpenCharge
    BY <1>4, <1>7 DEF Closes, OpenCharge
  <2>2. QED
    BY <1>1, <1>2, <1>3, <1>7, <2>1 DEF MeteredWithinDelivered, Closes
<1>8. QED
  BY <1>5, <1>6, <1>7

------------------------------------------------------------------------------
(***************************************************************************)
(* The throttle of one kind.                                               *)
(***************************************************************************)
Passed(t) == [t EXCEPT !.since = IF @ < Cooldown THEN @ + 1 ELSE @,
                       !.timer = IF @ \in {0, NoTimer} THEN @ ELSE @ - 1]

\* A message is sent, at a cooldown from the one before.
Spaced(t, u) ==
  u.since = 0 /\ (t.since # 0 \/ t.pending > u.pending) => t.since >= Cooldown

LEMMA ThrottledDoes ==
  ASSUME NEW t \in Throttle, Timed(t)
  PROVE  /\ Throttled(t) \in Throttle
         /\ Timed(Throttled(t)) /\ (Awaited(t) => Awaited(Throttled(t)))
         /\ Spaced(t, Throttled(t))
<1>1. t.since \in 0 .. Cooldown /\ t.pending \in 0 .. 2 /\ t.timer \in 0 .. Cooldown + 1
  BY DEF Throttle, NoTimer
<1>2. CASE t.pending = 0 /\ t.since >= Cooldown
  <2>1. Throttled(t) = [t EXCEPT !.since = 0, !.pending = 0]
    BY <1>2 DEF Throttled, Sent
  <2>2. Throttled(t) \in Throttle /\ Throttled(t).since = 0 /\ Throttled(t).pending = 0
        /\ Throttled(t).timer = t.timer
    <3>1. 0 \in 0 .. Cooldown /\ 0 \in 0 .. 2
      OBVIOUS
    <3>2. QED
      BY <2>1, <3>1 DEF Throttle
  <2>3. QED
    BY <1>1, <1>2, <2>2 DEF Timed, Awaited, Spaced
<1>3. CASE ~(t.pending = 0 /\ t.since >= Cooldown)
  <2> DEFINE p == IF t.pending = 0 THEN 1 ELSE 2
             m == IF t.timer = NoTimer THEN Cooldown - t.since ELSE t.timer
  <2>1. Throttled(t) = [t EXCEPT !.pending = p, !.timer = m]
    BY <1>3 DEF Throttled
  <2>2. p \in 0 .. 2 /\ p > 0 /\ t.pending <= p /\ m \in 0 .. NoTimer
    BY <1>1 DEF NoTimer
  <2>3. m <= Cooldown /\ m + t.since >= Cooldown
    BY <1>1 DEF Timed, NoTimer
  <2> HIDE DEF p, m
  <2>4. Throttled(t) \in Throttle /\ Throttled(t).since = t.since /\ Throttled(t).pending = p
        /\ Throttled(t).timer = m
    BY <2>1, <2>2 DEF Throttle
  <2>5. QED
    BY <1>1, <2>2, <2>3, <2>4 DEF Timed, Awaited, Spaced, NoTimer
<1>4. QED
  BY <1>2, <1>3

LEMMA FlushedDoes ==
  ASSUME NEW t \in Throttle, Timed(t), t.timer = 0
  PROVE  /\ Flushed(t) \in Throttle
         /\ Timed(Flushed(t)) /\ Awaited(Flushed(t))
         /\ Spaced(t, Flushed(t))
<1>1. t.since \in 0 .. Cooldown /\ t.pending \in 0 .. 2 /\ NoTimer \in Nat /\ NoTimer # 0
  BY DEF Throttle, NoTimer
<1>2. t.pending > 0 /\ t.since >= Cooldown
  BY <1>1 DEF Timed
<1>3. Flushed(t) = [[t EXCEPT !.since = 0, !.pending = 0] EXCEPT !.timer = NoTimer]
  <2>1. t.pending # 0
    BY <1>1, <1>2
  <2>2. QED
    BY <2>1 DEF Flushed, Sent
<1>4. Flushed(t) \in Throttle /\ Flushed(t).since = 0 /\ Flushed(t).pending = 0
      /\ Flushed(t).timer = NoTimer
  <2>1. 0 \in 0 .. Cooldown /\ 0 \in 0 .. 2 /\ NoTimer \in 0 .. NoTimer
    BY <1>1
  <2>2. QED
    BY <1>3, <2>1 DEF Throttle
<1>5. QED
  BY <1>2, <1>4 DEF Timed, Awaited, Spaced

LEMMA PassedDoes ==
  ASSUME NEW t \in Throttle, Timed(t)
  PROVE  /\ Passed(t) \in Throttle
         /\ Timed(Passed(t)) /\ (Awaited(t) => Awaited(Passed(t)))
         /\ Spaced(t, Passed(t))
<1>1. t.since \in 0 .. Cooldown /\ t.pending \in 0 .. 2 /\ t.timer \in 0 .. Cooldown + 1
  BY DEF Throttle, NoTimer
<1> DEFINE n == IF t.since < Cooldown THEN t.since + 1 ELSE t.since
           m == IF t.timer \in {0, NoTimer} THEN t.timer ELSE t.timer - 1
<1>2. Passed(t) = [t EXCEPT !.since = n, !.timer = m]
  BY DEF Passed
<1>3. n \in 0 .. Cooldown /\ n # 0 /\ m \in 0 .. NoTimer /\ (m = NoTimer <=> t.timer = NoTimer)
  BY <1>1 DEF NoTimer
<1>4. t.timer # NoTimer => m <= Cooldown /\ m + n >= Cooldown
  BY <1>1 DEF Timed, NoTimer
<1> HIDE DEF n, m
<1>5. Passed(t) \in Throttle /\ Passed(t).since = n /\ Passed(t).pending = t.pending
      /\ Passed(t).timer = m
  BY <1>1, <1>2, <1>3 DEF Throttle
<1>6. QED
  BY <1>3, <1>4, <1>5 DEF Timed, Awaited, Spaced

LEMMA TimerStopped ==
  ASSUME NEW t \in Throttle
  PROVE  /\ [t EXCEPT !.timer = NoTimer] \in Throttle
         /\ Timed([t EXCEPT !.timer = NoTimer])
         /\ Spaced(t, [t EXCEPT !.timer = NoTimer])
<1> DEFINE u == [t EXCEPT !.timer = NoTimer]
<1>1. NoTimer \in 0 .. NoTimer /\ t.pending \in Nat /\ t.since \in Nat
  BY DEF NoTimer, Throttle
<1>2. u \in Throttle /\ u.since = t.since /\ u.pending = t.pending /\ u.timer = NoTimer
  BY <1>1 DEF Throttle
<1> HIDE DEF u
<1>3. Timed(u) /\ Spaced(t, u)
  BY <1>1, <1>2 DEF Timed, Spaced
<1>4. QED
  BY <1>2, <1>3 DEF u

------------------------------------------------------------------------------
(***************************************************************************)
(* Types.                                                                  *)
(***************************************************************************)
\* What is published fits in the buffer.
LEMMA PublishedFits ==
  ASSUME TypeOK, NEW updates \in Seq(Updates)
  PROVE  Published(updates) \in Seq(Updates) /\ Len(Published(updates)) <= Buffer
<1> DEFINE room == Buffer - Len(queue)
           n == IF Len(updates) < room THEN Len(updates) ELSE room
<1>1. queue \in Seq(Updates) /\ Len(queue) \in Nat /\ room \in Nat /\ Len(updates) \in Nat
  BY DEF TypeOK
<1>2. n \in Nat /\ n <= Len(updates) /\ n <= room
  BY <1>1
<1>3. Published(updates) = queue \o SubSeq(updates, 1, n)
  BY DEF Published
<1> HIDE DEF n
<1>4. \A i \in 1 .. n : updates[i] \in Updates
  BY <1>1, <1>2
<1>5. SubSeq(updates, 1, n) \in Seq(Updates) /\ Len(SubSeq(updates, 1, n)) = n
  BY <1>2, <1>4, SubSeqProperties
<1>6. QED
  BY <1>1, <1>2, <1>3, <1>5

LEMMA TakenFits ==
  ASSUME TypeOK, NEW kind, Take(kind)
  PROVE  queue' \in Seq(Updates) /\ Len(queue') <= Buffer
<1>1. queue \in Seq(Updates) /\ queue # <<>> /\ queue' = Tail(queue) /\ Len(queue) <= Buffer
  BY DEF TypeOK, Take
<1>2. Tail(queue) \in Seq(Updates) /\ Len(Tail(queue)) = Len(queue) - 1
  BY <1>1, HeadTailProperties
<1>3. QED
  BY <1>1, <1>2

LEMMA OneOrTwo ==
  ASSUME NEW S, NEW x \in S, NEW y \in S
  PROVE  <<x>> \in Seq(S) /\ <<x>> \o <<y>> \in Seq(S) /\ <<x>> \o <<>> \in Seq(S)
<1>1. <<x>> \in Seq(S) /\ <<y>> \in Seq(S) /\ <<>> \in Seq(S)
  OBVIOUS
<1>2. QED
  BY <1>1

\* The device and the hub.
LEMMA HubTypes ==
  ASSUME TypeOK, MeteredWithinDelivered, Hub
  PROVE  /\ dev' \in Reading /\ cache' \in Reading /\ link' \in BOOLEAN
         /\ queue' \in Seq(Updates) /\ Len(queue') <= Buffer
         /\ events' \in Nat /\ delivered' \in 0 .. MaxCharge
         /\ UNCHANGED <<settings, service, journaled>>
<1>1. /\ dev \in Reading /\ cache \in Reading /\ link \in BOOLEAN
      /\ queue \in Seq(Updates) /\ Len(queue) <= Buffer /\ events \in Nat
      /\ delivered \in 0 .. MaxCharge
  BY DEF TypeOK
<1>2. UNCHANGED <<settings, service, journaled>>
  BY DEF Hub, Deliver, Switch, PowerCycle, Counted, Switched, Tripped, LinkLost, Reconnected,
         totals
<1>3. events' \in Nat
  BY <1>1 DEF Hub, Deliver, Switch, PowerCycle, Counted, Switched, Tripped, LinkLost, Reconnected,
              Event
<1>4. link' \in BOOLEAN
  BY <1>1 DEF Hub, Deliver, Switch, PowerCycle, Counted, Switched, Tripped, LinkLost, Reconnected
<1>5. cache' \in Reading
  <2>1. [cache EXCEPT !.count = dev.count] \in Reading /\ [cache EXCEPT !.on = dev.on] \in Reading
    BY <1>1 DEF Reading
  <2>2. QED
    BY <1>1, <2>1
    DEF Hub, Deliver, Switch, PowerCycle, Counted, Switched, Tripped, LinkLost, Reconnected
<1>6. queue' \in Seq(Updates) /\ Len(queue') <= Buffer
  <2>1. /\ Output(dev.on) \in Updates /\ Trip \in Updates
        /\ Status(FALSE) \in Updates /\ Status(TRUE) \in Updates
    BY <1>1 DEF Output, Trip, Status, Updates, Reading
  <2>2. /\ <<Output(dev.on)>> \in Seq(Updates) /\ <<Trip>> \in Seq(Updates)
        /\ <<Status(FALSE)>> \in Seq(Updates) /\ <<Status(TRUE)>> \in Seq(Updates)
    BY <2>1, OneOrTwo
  <2> DEFINE back == <<Status(TRUE)>> \o IF cache.on # dev.on THEN <<Output(dev.on)>> ELSE <<>>
  <2>3. back \in Seq(Updates)
    BY <2>1, OneOrTwo
  <2>4. \/ queue' = queue \/ queue' = Published(<<Output(dev.on)>>)
        \/ queue' = Published(<<Trip>>) \/ queue' = Published(<<Status(FALSE)>>)
        \/ queue' = Published(back)
    BY DEF Hub, Deliver, Switch, PowerCycle, Counted, Switched, Tripped, LinkLost, Reconnected
  <2> HIDE DEF back
  <2>5. QED
    BY <1>1, <2>2, <2>3, <2>4, PublishedFits
<1>7. delivered' \in 0 .. MaxCharge
  BY <1>1 DEF Hub, Deliver, Switch, PowerCycle, Counted, Switched, Tripped, LinkLost, Reconnected,
              totals
<1>8. dev' \in Reading
  <2>1. 0 \in 0 .. MaxCharge
    OBVIOUS
  <2>2. [on |-> FALSE, count |-> 0] \in Reading
    BY <2>1 DEF Reading
  <2>3. [dev EXCEPT !.on = ~dev.on] \in Reading /\ [dev EXCEPT !.on = FALSE] \in Reading
    BY <1>1 DEF Reading
  <2>4. ASSUME Deliver PROVE dev' \in Reading
    <3>1. dev.count + 1 \in 0 .. MaxCharge
      BY <1>1, <2>4 DEF Deliver, MeteredWithinDelivered, Reading
    <3>2. QED
      BY <1>1, <2>4, <3>1 DEF Deliver, Reading
  <2>5. QED
    BY <1>1, <2>2, <2>3, <2>4
    DEF Hub, Switch, PowerCycle, Counted, Switched, Tripped, LinkLost, Reconnected
<1>9. QED
  BY <1>2, <1>3, <1>4, <1>5, <1>6, <1>7, <1>8

------------------------------------------------------------------------------
(***************************************************************************)
(* The throttle.                                                           *)
(***************************************************************************)
ThrottleInv ==
  /\ throttle \in [Kinds -> Throttle]
  /\ \A k \in Kinds : Timed(throttle[k])
  /\ SuppressedHasTimer

\* What a step may do to a kind.
ThrottleMove(k) ==
  \/ throttle'[k] = throttle[k] /\ (stopped => stopped')
  \/ throttle'[k] = Throttled(throttle[k]) /\ (stopped => stopped')
  \/ throttle'[k] = Passed(throttle[k]) /\ (stopped => stopped')
  \/ throttle[k].timer = 0 /\ throttle'[k] = Flushed(throttle[k])
  \/ throttle'[k] = [throttle[k] EXCEPT !.timer = NoTimer] /\ stopped'

LEMMA ThrottleKept ==
  ASSUME ThrottleInv,
         throttle' = [k \in Kinds |-> throttle'[k]],
         \A k \in Kinds : ThrottleMove(k)
  PROVE  /\ ThrottleInv'
         /\ \A k \in Kinds : Spaced(throttle[k], throttle'[k])
<1>1. ASSUME NEW k \in Kinds
      PROVE  /\ throttle'[k] \in Throttle /\ Timed(throttle'[k])
             /\ Spaced(throttle[k], throttle'[k])
             /\ stopped \/ Awaited(throttle[k]) => stopped' \/ Awaited(throttle'[k])
  <2> DEFINE t == throttle[k]
  <2>1. t \in Throttle /\ Timed(t) /\ t.pending \in Nat
    BY DEF ThrottleInv, Throttle
  <2>2. Spaced(t, t)
    BY <2>1 DEF Spaced
  <2>3. CASE throttle'[k] = t /\ (stopped => stopped')
    BY <2>1, <2>2, <2>3
  <2>4. CASE throttle'[k] = Throttled(t) /\ (stopped => stopped')
    BY <2>1, <2>4, ThrottledDoes
  <2>5. CASE throttle'[k] = Passed(t) /\ (stopped => stopped')
    BY <2>1, <2>5, PassedDoes
  <2>6. CASE t.timer = 0 /\ throttle'[k] = Flushed(t)
    BY <2>1, <2>6, FlushedDoes
  <2>7. CASE throttle'[k] = [t EXCEPT !.timer = NoTimer] /\ stopped'
    BY <2>1, <2>7, TimerStopped
  <2>8. QED
    BY <2>3, <2>4, <2>5, <2>6, <2>7 DEF ThrottleMove
<1>2. throttle' \in [Kinds -> Throttle]
  BY <1>1
<1>3. SuppressedHasTimer'
  BY <1>1 DEF ThrottleInv, SuppressedHasTimer
<1>4. QED
  BY <1>1, <1>2, <1>3 DEF ThrottleInv

LEMMA ThrottleStep ==
  ASSUME ThrottleInv, [Next]_vars
  PROVE  /\ ThrottleInv'
         /\ \A k \in Kinds : Spaced(throttle[k], throttle'[k])
<1> SUFFICES /\ throttle' = [k \in Kinds |-> throttle'[k]]
             /\ \A k \in Kinds : ThrottleMove(k)
  BY ThrottleKept
<1>1. throttle = [k \in Kinds |-> throttle[k]]
  BY DEF ThrottleInv
<1>2. CASE UNCHANGED <<throttle, stopped>>
  BY <1>1, <1>2 DEF ThrottleMove
<1>3. ASSUME NEW kinds, Notify(kinds), UNCHANGED stopped
      PROVE  throttle' = [k \in Kinds |-> throttle'[k]] /\ \A k \in Kinds : ThrottleMove(k)
  BY <1>3 DEF Notify, ThrottleMove
<1>4. CASE FlushKind
  <2>1. PICK j \in Kinds : throttle[j].timer = 0
                           /\ throttle' = [throttle EXCEPT ![j] = Flushed(throttle[j])]
    BY <1>4 DEF FlushKind
  <2>2. stopped' = stopped
    BY <1>4 DEF FlushKind
  <2>3. throttle' = [k \in Kinds |-> IF k = j THEN Flushed(throttle[j]) ELSE throttle[k]]
    BY <1>1, <2>1
  <2>4. QED
    BY <2>1, <2>2, <2>3 DEF ThrottleMove
<1>5. CASE Pass
  BY <1>5 DEF Pass, Passed, ThrottleMove
<1>6. CASE Stop
  BY <1>6 DEF Stop, ThrottleMove
<1>7. CASE HandleStatus \/ HandleOutput \/ HandleTrip
  <2>1. /\ stopped' = stopped
        /\ \E kinds \in SUBSET {"deviceLink", "output", "meteringSession", "protectionTrip"} :
              Notify(kinds)
    <3>1. stopped' = stopped
      BY <1>7 DEF HandleStatus, HandleOutput, HandleTrip
    <3>2. Notify({}) \/ Notify({"deviceLink"}) \/ Notify({"output"})
          \/ Notify({"meteringSession", "output"}) \/ Notify({"protectionTrip"})
      BY <1>7 DEF HandleStatus, HandleOutput, HandleTrip
    <3>3. QED
      BY <3>1, <3>2
  <2>2. QED
    BY <1>3, <2>1
<1>8. CASE Hub \/ DatabaseTurns \/ PutSettings \/ UNCHANGED vars
  <2>1. UNCHANGED <<throttle, stopped>>
    BY <1>8 DEF Hub, Deliver, Switch, PowerCycle, Counted, Switched, Tripped, LinkLost, Reconnected,
                DatabaseTurns, PutSettings, service, vars
  <2>2. QED
    BY <1>2, <2>1
<1>9. QED
  BY <1>4, <1>5, <1>6, <1>7, <1>8 DEF Next

------------------------------------------------------------------------------
(***************************************************************************)
(* The steps.                                                              *)
(***************************************************************************)
\* The charge, in each step of the device and the hub ...
LEMMA HubMeters ==
  ASSUME TypeOK, MeteredWithinDelivered, Hub
  PROVE  MeteredWithinDelivered'
<1>1. CASE Deliver \/ PowerCycle
  <2>1. UNCHANGED <<cache, session, journaled>>
    BY <1>1 DEF Deliver, PowerCycle, service, totals
  <2>2. \/ dev'.count = dev.count + 1 /\ delivered' = delivered + 1
        \/ dev'.count = 0 /\ delivered' = delivered
    BY <1>1 DEF Deliver, PowerCycle, totals, TypeOK, Reading
  <2>3. QED
    BY <2>1, <2>2, CountStep
<1>2. CASE Counted \/ Reconnected
  <2>1. Reads
    BY <1>2 DEF Counted, Reconnected, Reads, service, totals, TypeOK, Reading
  <2>2. QED
    BY <2>1, ReadStep
<1>3. CASE Switch \/ Switched \/ Tripped \/ LinkLost
  <2>1. /\ dev'.count = dev.count /\ cache'.count = cache.count
        /\ UNCHANGED <<session, delivered, journaled>>
    BY <1>3 DEF Switch, Switched, Tripped, LinkLost, service, totals, TypeOK, Reading
  <2>2. QED
    BY <2>1 DEF MeteredWithinDelivered, OpenCharge
<1>4. QED
  BY <1>1, <1>2, <1>3 DEF Hub

\* ... and of the service.
LEMMA ServiceMeters ==
  ASSUME TypeOK, MeteredWithinDelivered, HandleStatus \/ HandleOutput \/ HandleTrip
  PROVE  /\ MeteredWithinDelivered'
         /\ session' \in 0 .. MaxCharge \cup {None} /\ journaled' \in Nat
<1>1. UNCHANGED <<dev, cache, delivered>>
  BY DEF HandleStatus, HandleOutput, HandleTrip, device, totals
<1>2. CASE HandleStatus
  BY <1>1, <1>2, SessionStep DEF HandleStatus, Opens, Drops, totals
<1>3. CASE HandleOutput
  BY <1>1, <1>3, SessionStep DEF HandleOutput, Opens, Closes
<1>4. CASE HandleTrip
  BY <1>1, <1>4, SessionStep DEF HandleTrip, Drops, totals
<1>5. QED
  BY <1>2, <1>3, <1>4

\* What the notifier knows of the settings.
LEMMA KnownSettings ==
  ASSUME TypeOK, NEW kinds, Notify(kinds)
  PROVE  known' \subseteq Kinds
  BY DEF TypeOK, Notify, CurrentSettings

LEMMA MeterStep == MeterInv /\ [Next]_vars => MeterInv'
<1> SUFFICES ASSUME MeterInv, [Next]_vars PROVE MeterInv'
  OBVIOUS
<1>1. TypeOK /\ MeteredWithinDelivered /\ ThrottleInv
  BY DEF MeterInv, ThrottleInv, TypeOK
<1>2. ThrottleInv'
  BY <1>1, ThrottleStep
<1>3. CASE Hub
  <2>1. /\ dev' \in Reading /\ cache' \in Reading /\ link' \in BOOLEAN
        /\ queue' \in Seq(Updates) /\ Len(queue') <= Buffer
        /\ events' \in Nat /\ delivered' \in 0 .. MaxCharge
        /\ UNCHANGED <<settings, service, journaled>>
    BY <1>1, <1>3, HubTypes
  <2>2. TypeOK'
    BY <1>1, <2>1 DEF TypeOK, settings, service
  <2>3. QED
    BY <1>1, <1>2, <1>3, <2>2, HubMeters DEF MeterInv, ThrottleInv
<1>4. CASE HandleStatus \/ HandleOutput \/ HandleTrip
  <2>1. PICK kind : Take(kind)
    BY <1>4 DEF HandleStatus, HandleOutput, HandleTrip
  <2>2. queue' \in Seq(Updates) /\ Len(queue') <= Buffer
    BY <1>1, <2>1, TakenFits
  <2>3. known' \subseteq Kinds
    <3>1. PICK kinds : Notify(kinds)
      BY <1>4 DEF HandleStatus, HandleOutput, HandleTrip
    <3>2. QED
      BY <1>1, <3>1, KnownSettings
  <2>4. wasDown' \in BOOLEAN
    BY <1>1, <1>4 DEF HandleStatus, HandleOutput, HandleTrip, TypeOK
  <2>5. UNCHANGED <<device, events, settings, stopped, delivered>>
    BY <1>4 DEF HandleStatus, HandleOutput, HandleTrip, totals
  <2>6. /\ MeteredWithinDelivered'
        /\ session' \in 0 .. MaxCharge \cup {None} /\ journaled' \in Nat
    BY <1>1, <1>4, ServiceMeters
  <2>7. TypeOK'
    BY <1>1, <1>2, <2>2, <2>3, <2>4, <2>5, <2>6 DEF TypeOK, ThrottleInv, device, settings
  <2>8. QED
    BY <1>2, <2>6, <2>7 DEF MeterInv, ThrottleInv
<1>5. CASE DatabaseTurns \/ PutSettings \/ FlushKind \/ Stop \/ Pass \/ UNCHANGED vars
  <2>1. UNCHANGED <<device, queue, known, session, wasDown, totals>>
    BY <1>5 DEF DatabaseTurns, PutSettings, FlushKind, Stop, Pass, vars, device, service,
                totals
  <2>2. /\ events' \in Nat /\ db' \in BOOLEAN /\ stored' \subseteq Kinds /\ stopped' \in BOOLEAN
    <3>1. events' \in {events, events + 1}
      BY <1>5 DEF DatabaseTurns, PutSettings, FlushKind, Stop, Pass, Event, vars
    <3>2. stored' \subseteq Kinds
      BY <1>1, <1>5 DEF DatabaseTurns, PutSettings, FlushKind, Stop, Pass, TypeOK, vars, settings
    <3>3. db' = ~db \/ db' = db
      BY <1>5 DEF DatabaseTurns, PutSettings, FlushKind, Stop, Pass, vars, settings
    <3>4. stopped' = stopped \/ stopped' = TRUE
      BY <1>5 DEF DatabaseTurns, PutSettings, FlushKind, Stop, Pass, vars, service
    <3>5. db' \in BOOLEAN /\ stopped' \in BOOLEAN
      BY <1>1, <3>3, <3>4 DEF TypeOK
    <3>6. events' \in Nat
      BY <1>1, <3>1 DEF TypeOK
    <3>7. QED
      BY <3>2, <3>5, <3>6
  <2>3. TypeOK'
    BY <1>1, <1>2, <2>1, <2>2 DEF TypeOK, ThrottleInv, device, totals
  <2>4. MeteredWithinDelivered'
    BY <1>1, <2>1 DEF MeteredWithinDelivered, OpenCharge, device, totals
  <2>5. QED
    BY <1>2, <2>3, <2>4 DEF MeterInv, ThrottleInv
<1>6. QED
  BY <1>3, <1>4, <1>5 DEF Next

LEMMA MeterInit == Init => MeterInv
<1> SUFFICES ASSUME Init PROVE MeterInv
  OBVIOUS
<1>1. 0 \in 0 .. MaxCharge /\ 0 \in 0 .. 2 /\ Cooldown \in 0 .. Cooldown /\ NoTimer \in 0 .. NoTimer
  BY DEF NoTimer
<1>2. dev \in Reading /\ cache \in Reading /\ dev.count = 0 /\ cache.count = 0
  BY <1>1 DEF Init, Reading
<1>3. Quiet \in Throttle /\ Timed(Quiet) /\ Awaited(Quiet)
  BY <1>1 DEF Quiet, Throttle, Timed, Awaited
<1>4. TypeOK
  <2>1. queue \in Seq(Updates) /\ Len(queue) <= Buffer /\ link \in BOOLEAN /\ events \in Nat
    BY DEF Init
  <2>2. db \in BOOLEAN /\ stored \subseteq Kinds /\ known \subseteq Kinds
    BY DEF Init
  <2>3. /\ session \in 0 .. MaxCharge \cup {None} /\ wasDown \in BOOLEAN /\ stopped \in BOOLEAN
        /\ delivered \in 0 .. MaxCharge /\ journaled \in Nat
    BY <1>1 DEF Init
  <2>4. throttle \in [Kinds -> Throttle]
    BY <1>3 DEF Init
  <2>5. QED
    BY <1>2, <2>1, <2>2, <2>3, <2>4 DEF TypeOK
<1>5. MeteredWithinDelivered
  BY <1>2 DEF Init, MeteredWithinDelivered, OpenCharge, MeteredBetween
<1>6. QED
  BY <1>3, <1>4, <1>5 DEF Init, MeterInv, SuppressedHasTimer

------------------------------------------------------------------------------
(***************************************************************************)
(* Theorems.                                                               *)
(***************************************************************************)
\* The types of the device, the hub's updates, the settings, the session and the
\* throttle; the subscriber's buffer never holds more than its size.
THEOREM TypeCorrect == Spec => []TypeOK
<1>1. MeterInv => TypeOK
  BY DEF MeterInv
<1>2. QED
  BY <1>1, MeterInit, MeterStep, PTL DEF Spec

\* The sessions in the journal add up to no more than the device delivered, whatever
\* updates the subscription loses, however stale the counter in the cache, and wherever a
\* power cycle restarts it.
THEOREM JournalNeverOvercounts == Spec => []NeverOvercounts
<1>1. MeterInv => NeverOvercounts
  <2> SUFFICES ASSUME MeterInv PROVE NeverOvercounts
    OBVIOUS
  <2>1. /\ dev.count \in Nat /\ cache.count \in Nat /\ journaled \in Nat /\ delivered \in Nat
        /\ session # None => session \in Nat
    BY DEF MeterInv, TypeOK, Reading
  <2>2. OpenCharge \in Nat /\ MeteredBetween(cache.count, dev.count) \in Nat
    BY <2>1, NoShortcut DEF OpenCharge
  <2>3. QED
    BY <2>1, <2>2 DEF MeterInv, MeteredWithinDelivered, NeverOvercounts
<1>2. QED
  BY <1>1, MeterInit, MeterStep, PTL DEF Spec

\* Two messages of a kind are at least a cooldown apart, whether they go out at once or
\* when a timer fires, and however late that is: the timer of a window never ends before
\* the window does.
THEOREM CooldownBetween == Spec => OnePerWindow
<1> DEFINE Apart(k) ==
      throttle'[k].since = 0 /\ (throttle[k].since # 0 \/ throttle[k].pending > throttle'[k].pending)
        => throttle[k].since >= Cooldown
<1>1. MeterInv /\ [Next]_vars => [\A k \in Kinds : Apart(k)]_vars
  <2> SUFFICES ASSUME MeterInv, [Next]_vars, NEW k \in Kinds PROVE Apart(k)
    OBVIOUS
  <2>1. Spaced(throttle[k], throttle'[k])
    BY ThrottleStep DEF MeterInv, TypeOK, ThrottleInv
  <2>2. QED
    BY <2>1 DEF Spaced
<1>2. QED
  BY <1>1, MeterInit, MeterStep, PTL DEF Spec, OnePerWindow

\* What the throttle suppressed has a timer that will tell of it, until the service
\* stops: no kind is left pending with nothing to flush it.
THEOREM SuppressedIsAwaited == Spec => []SuppressedHasTimer
<1>1. MeterInv => SuppressedHasTimer
  BY DEF MeterInv
<1>2. QED
  BY <1>1, MeterInit, MeterStep, PTL DEF Spec
-----------------------------------------------------------------------------
(***************************************************************************)
(* The telemetry history.  The theorems are about any retention that keeps *)
(* a sample for a minute and a rolled-up minute for as long as its samples,*)
(* and any page size.                                                      *)
(*                                                                         *)
(* Samples are rolled up before they expire because the rows of samples_1m *)
(* never have a gap that an in-time sample could be in: what lies at or    *)
(* before the newest row has been counted, the aggregation resumes right   *)
(* after that row, and the recorder's samples that are in time lie after   *)
(* it.  A download is whole because every page starts where the one before *)
(* ended: what was there at the start and stayed is either written or at   *)
(* or after the cursor.                                                    *)
(***************************************************************************)
Sweeps == [at : {"waiting", "aggregate", "expireSamples", "expireMinutes"}, from : Nat, now : Nat]
Exports == [at : {"none", "more", "done", "cut"}, table : {"raw", "1m"}, cursor : Nat, to : Nat,
            wrote : Seq(Nat), had : SUBSET Nat]

ClockTyped == now \in Nat /\ faults \in Nat

TablesTyped ==
  /\ samples \subseteq 0 .. now /\ late \subseteq 0 .. now
  /\ minutes \in [DOMAIN minutes -> SUBSET Nat]
  /\ \A m \in DOMAIN minutes : m \in 0 .. now /\ Minute(m) = m

BufferTyped == buf \in Seq(0 .. now)
SweepTyped == sweep \in Sweeps /\ sweep.now <= now
ExportTyped == export \in Exports /\ export.to <= now

DataTyped == ClockTyped /\ TablesTyped /\ BufferTyped /\ SweepTyped /\ ExportTyped

HistoryTypeOK == DataTyped /\ up \in BOOLEAN

\* Its minute has a row, and the row counts it.
RolledUp(t) == Minute(t) \in DOMAIN minutes /\ t \in minutes[Minute(t)]

InTime == samples \ late

\* Every row of samples_1m is of a minute that is over; every sample in time at or before one
\* has been counted; and what the janitor relies on in each of its statements.
RolledUpFirst ==
  /\ \A m \in DOMAIN minutes : m < Minute(now)
  /\ \A t \in InTime, m \in DOMAIN minutes : Minute(t) <= m => RolledUp(t)
  /\ sweep.at = "aggregate" =>
       /\ sweep.from = Minute(sweep.from) /\ sweep.from < UpTo
       /\ \A m \in DOMAIN minutes : m < sweep.from
       /\ \A t \in InTime : t < sweep.from => RolledUp(t)
  /\ sweep.at = "expireSamples" => \A t \in InTime : t < UpTo => RolledUp(t)
  /\ sweep.at = "expireMinutes" => \A t \in InTime : t + RawKept >= sweep.now

Increasing(s) == \A i, j \in DOMAIN s : i < j => s[i] < s[j]

Written(e) == {e.wrote[i] : i \in DOMAIN e.wrote}

\* Of the rows that were there all along a download has written those before its cursor,
\* in order, and in the end all.
PagesFollow ==
  export.at # "none" =>
    /\ export.had \subseteq Rows(export.table)
    /\ \A t \in export.had : t <= export.to
    /\ Increasing(export.wrote)
    /\ export.at = "more" => /\ \A t \in Written(export) : t < export.cursor
                             /\ \A t \in export.had : t < export.cursor => t \in Written(export)
    /\ export.at = "done" => export.had \subseteq Written(export)

HistoryInv == HistoryTypeOK /\ RolledUpFirst /\ PagesFollow

-----------------------------------------------------------------------------
(* Minutes. *)
LEMMA DivFloor ==
  ASSUME NEW t \in Nat, NEW l \in Nat \ {0}
  PROVE  /\ t \div l \in Nat
         /\ (t \div l) * l <= t /\ t < (t \div l) * l + l
<1>1. t \div l \in Nat /\ (t % l) \in 0 .. l - 1 /\ t = l * (t \div l) + (t % l)
  OBVIOUS
<1>2. PICK q \in Nat : q = t \div l
  BY <1>1
<1>3. l * q = q * l
  OBVIOUS
<1> QED BY <1>1, <1>2, <1>3

LEMMA MulMono ==
  ASSUME NEW a \in Nat, NEW b \in Nat, NEW l \in Nat, a < b
  PROVE  a * l + l <= b * l
<1>1. PICK c \in Nat : b = a + 1 + c
  <2>1. b - a - 1 \in Nat /\ b = a + 1 + (b - a - 1)
    OBVIOUS
  <2> QED BY <2>1
<1>2. b * l = a * l + l + c * l
  BY <1>1
<1>3. c * l \in Nat /\ a * l \in Nat
  OBVIOUS
<1> QED BY <1>2, <1>3

LEMMA MinuteOf ==
  ASSUME NEW t \in Nat, MinuteLen \in Nat \ {0}
  PROVE  /\ Minute(t) \in Nat
         /\ Minute(t) <= t /\ t < Minute(t) + MinuteLen
<1>1. (t \div MinuteLen) * MinuteLen \in Nat
  <2>1. PICK q \in Nat : q = t \div MinuteLen
    BY DivFloor
  <2>2. q * MinuteLen \in Nat
    OBVIOUS
  <2> QED BY <2>1, <2>2
<1> QED BY <1>1, DivFloor DEF Minute

LEMMA MinuteOrder ==
  ASSUME NEW t \in Nat, NEW u \in Nat, MinuteLen \in Nat \ {0}
  PROVE  /\ Minute(t) < Minute(u) => Minute(t) + MinuteLen <= Minute(u)
         /\ t <= u => Minute(t) <= Minute(u)
         /\ t < Minute(u) => Minute(t) < Minute(u)
<1> DEFINE a == t \div MinuteLen
           b == u \div MinuteLen
<1>1. a \in Nat /\ b \in Nat
  BY DivFloor
<1>2. Minute(t) = a * MinuteLen /\ Minute(u) = b * MinuteLen
  BY DEF Minute
<1> HIDE DEF a, b
<1>3. a < b => a * MinuteLen + MinuteLen <= b * MinuteLen
  BY <1>1, MulMono
<1>4. b < a => b * MinuteLen + MinuteLen <= a * MinuteLen
  BY <1>1, MulMono
<1>5. a * MinuteLen \in Nat /\ b * MinuteLen \in Nat
  BY <1>1
<1>6. a = b => a * MinuteLen = b * MinuteLen
  OBVIOUS
<1>7. Minute(t) <= t /\ u < Minute(u) + MinuteLen
  BY MinuteOf
<1>8. a < b \/ a = b \/ b < a
  BY <1>1
<1> QED BY <1>2, <1>3, <1>4, <1>5, <1>6, <1>7, <1>8

LEMMA MinuteOfMinute ==
  ASSUME NEW t \in Nat, MinuteLen \in Nat \ {0}
  PROVE  Minute(Minute(t)) = Minute(t)
<1> DEFINE m == Minute(t)
<1>1. m \in Nat /\ m <= t
  BY MinuteOf
<1>2. Minute(m) \in Nat /\ Minute(m) <= m /\ m < Minute(m) + MinuteLen
  BY <1>1, MinuteOf
<1>3. Minute(m) < m => Minute(m) + MinuteLen <= m
  BY <1>1, MinuteOrder
<1> QED BY <1>1, <1>2, <1>3
-----------------------------------------------------------------------------
(* Pages. *)
LEMMA Ranked ==
  ASSUME NEW S \in SUBSET Nat, IsFiniteSet(S)
  PROVE  LET Rank(t) == Cardinality({u \in S : u <= t})
         IN /\ Cardinality(S) \in Nat
            /\ \A t \in S : Rank(t) \in 1 .. Cardinality(S)
            /\ \A t, v \in S : t < v => Rank(t) < Rank(v)
            /\ \A k \in 1 .. Cardinality(S) : \E t \in S : Rank(t) = k
<1> DEFINE Below(t) == {u \in S : u <= t}
           Rank(t) == Cardinality(Below(t))
<1>0. Cardinality(S) \in Nat
  BY FS_CardinalityType
<1>1. \A t \in S : IsFiniteSet(Below(t)) /\ Rank(t) \in Nat /\ Rank(t) <= Cardinality(S)
  <2> TAKE t \in S
  <2>1. Below(t) \in SUBSET S
    OBVIOUS
  <2>2. IsFiniteSet(Below(t)) /\ Cardinality(Below(t)) <= Cardinality(S)
    BY <2>1, FS_Subset
  <2> QED BY <2>2, FS_CardinalityType
<1>2. \A t \in S : Rank(t) # 0
  <2> TAKE t \in S
  <2>1. t \in Below(t)
    OBVIOUS
  <2>2. Below(t) # {}
    BY <2>1
  <2> QED BY <1>1, <2>2, FS_EmptySet
<1>3. ASSUME NEW t \in S, NEW v \in S, t < v
      PROVE  Rank(t) < Rank(v)
  <2>1. \A u \in S : u <= t => u <= v
    BY <1>3
  <2>2. Below(t) \in SUBSET Below(v)
    BY <2>1
  <2>3. v \in Below(v) /\ v \notin Below(t)
    BY <1>3
  <2>4. Rank(t) <= Rank(v) /\ (Rank(v) = Rank(t) => Below(v) = Below(t))
    BY <1>1, <2>2, FS_Subset
  <2>5. Below(v) # Below(t)
    BY <2>3
  <2> HIDE DEF Below
  <2> QED BY <1>1, <2>4, <2>5
<1> DEFINE f == [t \in S |-> Rank(t)]
           n == Cardinality(S)
<1>4. f \in Injection(S, 1 .. n)
  <2>1. f \in [S -> 1 .. n]
    BY <1>0, <1>1, <1>2
  <2>2. \A t, v \in S : f[t] = f[v] => t = v
    <3> TAKE t, v \in S
    <3>1. t < v \/ t = v \/ v < t
      OBVIOUS
    <3> QED BY <1>1, <1>3, <3>1
  <2> QED BY <2>1, <2>2 DEF Injection, IsInjective
<1>5. IsFiniteSet(1 .. n) /\ Cardinality(1 .. n) = n
  BY <1>0, FS_Interval
<1>6. f \in Surjection(S, 1 .. n)
  BY <1>4, <1>5, FS_Injection
<1>7. \A k \in 1 .. n : \E t \in S : Rank(t) = k
  BY <1>6 DEF Surjection
<1> QED BY <1>0, <1>1, <1>2, <1>3, <1>7

LEMMA SeqOfMore ==
  ASSUME NEW S, NEW T, S \subseteq T, NEW s \in Seq(S)
  PROVE  s \in Seq(T) /\ \A i \in DOMAIN s : s[i] \in S
<1>1. Len(s) \in Nat /\ DOMAIN s = 1 .. Len(s) /\ \A i \in 1 .. Len(s) : s[i] \in S
  OBVIOUS
<1>2. s \in [1 .. Len(s) -> T]
  BY <1>1
<1> QED BY <1>1, <1>2

LEMMA PageRows ==
  ASSUME NEW table, NEW from \in Nat, NEW to \in Nat, Rows(table) \subseteq Nat,
         PageSize \in Nat \ {0}
  PROVE  LET page == Page(table, from, to)
             rows == Between(table, from, to)
         IN /\ page \in Seq(rows) /\ page \in Seq(Nat) /\ rows \subseteq Nat
            /\ Increasing(page)
            /\ Len(page) <= PageSize
            /\ Len(page) < PageSize => \A t \in rows : \E k \in DOMAIN page : page[k] = t
            /\ Len(page) = PageSize =>
                 \A t \in rows : t <= page[Len(page)] => \E k \in DOMAIN page : page[k] = t
<1> DEFINE page == Page(table, from, to)
           rows == Between(table, from, to)
           Rank(t) == Cardinality({u \in rows : u <= t})
           n == Cardinality(rows)
           size == IF n < PageSize THEN n ELSE PageSize
<1>1. rows \in SUBSET Nat /\ \A t \in rows : t <= to
  BY DEF Between
<1>2. IsFiniteSet(rows)
  BY <1>1, FS_BoundedSetOfNaturals
<1>3. /\ n \in Nat
      /\ \A t \in rows : Rank(t) \in 1 .. n
      /\ \A t, v \in rows : t < v => Rank(t) < Rank(v)
      /\ \A k \in 1 .. n : \E t \in rows : Rank(t) = k
  <2>1. n = Cardinality(rows) /\ \A t \in rows : Rank(t) = Cardinality({u \in rows : u <= t})
    OBVIOUS
  <2> HIDE DEF rows, n
  <2>2. /\ Cardinality(rows) \in Nat
        /\ \A t \in rows : Cardinality({u \in rows : u <= t}) \in 1 .. Cardinality(rows)
        /\ \A t, v \in rows : t < v =>
             Cardinality({u \in rows : u <= t}) < Cardinality({u \in rows : u <= v})
        /\ \A k \in 1 .. Cardinality(rows) : \E t \in rows : Cardinality({u \in rows : u <= t}) = k
    BY <1>1, <1>2, Ranked
  <2> HIDE DEF Rank
  <2>3. /\ \A t \in rows : Rank(t) \in 1 .. n
        /\ \A t, v \in rows : t < v => Rank(t) < Rank(v)
    BY <2>1, <2>2
  <2>4. \A k \in 1 .. n : \E t \in rows : Rank(t) = k
    BY <2>1, <2>2
  <2> QED BY <2>1, <2>2, <2>3, <2>4
<1>4. page = [k \in 1 .. size |-> CHOOSE t \in rows : Rank(t) = k]
  BY DEF Page
<1> HIDE DEF page, rows, Rank, n
<1>5. size \in Nat /\ size <= n /\ size <= PageSize
  BY <1>3
<1>6. \A k \in 1 .. size : page[k] \in rows /\ Rank(page[k]) = k
  <2> TAKE k \in 1 .. size
  <2>1. \E t \in rows : Rank(t) = k
    BY <1>3, <1>5
  <2>2. page[k] = CHOOSE t \in rows : Rank(t) = k
    BY <1>4
  <2> QED BY <2>1, <2>2
<1>7. page \in Seq(rows) /\ Len(page) = size /\ DOMAIN page = 1 .. size
  <2>1. page \in [1 .. size -> rows]
    BY <1>4, <1>6
  <2> QED BY <1>5, <2>1
<1>8. Increasing(page)
  <2> SUFFICES ASSUME NEW i \in 1 .. size, NEW j \in 1 .. size, i < j
               PROVE  page[i] < page[j]
    BY <1>7 DEF Increasing
  <2>1. page[j] < page[i] => Rank(page[j]) < Rank(page[i])
    BY <1>3, <1>6
  <2>2. page[i] \in Nat /\ page[j] \in Nat
    BY <1>1, <1>6
  <2> QED BY <1>6, <2>1, <2>2
<1>9. ASSUME NEW t \in rows, Rank(t) <= size
      PROVE  \E k \in DOMAIN page : page[k] = t
  <2>1. Rank(t) \in 1 .. size
    BY <1>3, <1>5, <1>9
  <2>2. page[Rank(t)] \in rows /\ Rank(page[Rank(t)]) = Rank(t)
    BY <1>6, <2>1
  <2>3. page[Rank(t)] = t
    <3> DEFINE v == page[Rank(t)]
    <3>0. v \in Nat /\ t \in Nat
      BY <1>1, <2>2
    <3> HIDE DEF v
    <3>1. v < t \/ v = t \/ t < v
      BY <3>0
    <3>2. v \in rows /\ Rank(v) = Rank(t)
      BY <2>2 DEF v
    <3>3. v = t
      BY <1>3, <3>1, <3>2, <2>1
    <3> QED BY <3>3 DEF v
  <2> QED BY <1>7, <2>1, <2>3
<1>10. ASSUME Len(page) < PageSize
       PROVE  \A t \in rows : \E k \in DOMAIN page : page[k] = t
  <2>1. size = n
    BY <1>3, <1>7, <1>10
  <2> QED BY <1>3, <1>9, <2>1
<1>11. ASSUME Len(page) = PageSize, NEW t \in rows, t <= page[Len(page)]
       PROVE  \E k \in DOMAIN page : page[k] = t
  <2>1. PageSize \in 1 .. size /\ size = PageSize
    BY <1>7, <1>11
  <2>2. page[size] \in rows /\ Rank(page[size]) = size
    BY <1>6, <2>1
  <2>3. t = page[size] \/ t < page[size]
    <3>1. t \in Nat /\ page[size] \in Nat /\ t <= page[size]
      BY <1>1, <1>7, <1>11, <2>2
    <3> HIDE DEF size
    <3> QED BY <3>1
  <2>4. Rank(t) <= size
    BY <1>3, <1>5, <2>2, <2>3
  <2> QED BY <1>9, <2>4
<1>12. page \in Seq(Nat)
  BY <1>1, <1>7, SeqOfMore
<1> QED BY <1>1, <1>5, <1>7, <1>8, <1>10, <1>11, <1>12 DEF page, rows

LEMMA IncreasingConcat ==
  ASSUME NEW s \in Seq(Nat), NEW u \in Seq(Nat), Increasing(s), Increasing(u),
         \A i \in DOMAIN s, j \in DOMAIN u : s[i] < u[j]
  PROVE  /\ s \o u \in Seq(Nat) /\ Increasing(s \o u)
         /\ {(s \o u)[k] : k \in DOMAIN (s \o u)} = {s[k] : k \in DOMAIN s} \cup {u[k] : k \in DOMAIN u}
<1> DEFINE w == s \o u
<1>1. /\ w \in Seq(Nat) /\ Len(w) = Len(s) + Len(u)
      /\ \A k \in 1 .. Len(w) : w[k] = IF k <= Len(s) THEN s[k] ELSE u[k - Len(s)]
  OBVIOUS
<1>2. /\ Len(s) \in Nat /\ DOMAIN s = 1 .. Len(s)
      /\ Len(u) \in Nat /\ DOMAIN u = 1 .. Len(u)
      /\ DOMAIN w = 1 .. Len(w)
  BY <1>1
<1> HIDE DEF w
<1>3. \A k \in 1 .. Len(w) :
        (k \in DOMAIN s /\ w[k] = s[k]) \/ (k - Len(s) \in DOMAIN u /\ w[k] = u[k - Len(s)])
  BY <1>1, <1>2
<1>4. \A k \in DOMAIN s : k \in DOMAIN w /\ w[k] = s[k]
  BY <1>1, <1>2
<1>5. \A k \in DOMAIN u : k + Len(s) \in DOMAIN w /\ w[k + Len(s)] = u[k]
  <2> TAKE k \in DOMAIN u
  <2>1. k + Len(s) \in 1 .. Len(w) /\ ~(k + Len(s) <= Len(s)) /\ (k + Len(s)) - Len(s) = k
    BY <1>1, <1>2
  <2> QED BY <1>1, <1>2, <2>1
<1>6. Increasing(w)
  <2> SUFFICES ASSUME NEW i \in 1 .. Len(w), NEW j \in 1 .. Len(w), i < j
               PROVE  w[i] < w[j]
    BY <1>2 DEF Increasing
  <2>1. CASE j <= Len(s)
    <3>1. j \in DOMAIN s /\ i \in DOMAIN s /\ w[i] = s[i] /\ w[j] = s[j]
      BY <1>1, <1>2, <2>1
    <3> QED BY <3>1 DEF Increasing
  <2>2. CASE Len(s) < j /\ i <= Len(s)
    <3>1. j - Len(s) \in DOMAIN u /\ i \in DOMAIN s /\ w[i] = s[i] /\ w[j] = u[j - Len(s)]
      BY <1>1, <1>2, <2>2
    <3> QED BY <3>1
  <2>3. CASE Len(s) < i
    <3>1. ~(i <= Len(s)) /\ ~(j <= Len(s))
      BY <1>1, <1>2, <2>3
    <3>2. w[i] = u[i - Len(s)] /\ w[j] = u[j - Len(s)]
      BY <1>1, <3>1
    <3>3. j - Len(s) \in DOMAIN u /\ i - Len(s) \in DOMAIN u /\ i - Len(s) < j - Len(s)
      BY <1>1, <1>2, <2>3
    <3> QED BY <3>2, <3>3 DEF Increasing
  <2> QED BY <1>1, <1>2, <2>1, <2>2, <2>3
<1>7. \A x : (\E k \in DOMAIN w : w[k] = x) <=> (\E k \in DOMAIN s : s[k] = x) \/ (\E k \in DOMAIN u : u[k] = x)
  BY <1>2, <1>3, <1>4, <1>5
<1>8. {w[k] : k \in DOMAIN w} = {s[k] : k \in DOMAIN s} \cup {u[k] : k \in DOMAIN u}
  BY <1>7
<1> QED BY <1>1, <1>6, <1>8 DEF w

LEMMA Extremes ==
  ASSUME NEW S \in SUBSET Nat, NEW n \in Nat, \A t \in S : t <= n, S # {}
  PROVE  /\ Latest(S) \in S /\ \A t \in S : t <= Latest(S)
         /\ Earliest(S) \in S /\ \A t \in S : Earliest(S) <= t
<1> DEFINE Rank(t) == Cardinality({u \in S : u <= t})
<1>1. IsFiniteSet(S)
  BY FS_BoundedSetOfNaturals
<1>2. Cardinality(S) \in Nat /\ Cardinality(S) # 0
  BY <1>1, FS_CardinalityType, FS_EmptySet
<1>3. /\ \A t \in S : Rank(t) \in 1 .. Cardinality(S)
      /\ \A t, v \in S : t < v => Rank(t) < Rank(v)
      /\ \A k \in 1 .. Cardinality(S) : \E t \in S : Rank(t) = k
  BY <1>1, Ranked
<1> HIDE DEF Rank
<1>4. PICK t \in S : Rank(t) = Cardinality(S)
  BY <1>2, <1>3
<1>5. \A u \in S : u <= t
  <2> SUFFICES ASSUME NEW u \in S, t < u PROVE FALSE
    OBVIOUS
  <2> QED BY <1>2, <1>3, <1>4
<1>6. PICK v \in S : Rank(v) = 1
  BY <1>2, <1>3
<1>7. \A u \in S : v <= u
  <2> SUFFICES ASSUME NEW u \in S, u < v PROVE FALSE
    OBVIOUS
  <2> QED BY <1>2, <1>3, <1>6
<1> QED BY <1>5, <1>7 DEF Latest, Earliest

LEMMA ResumeAt ==
  ASSUME DataTyped, DOMAIN minutes # {} \/ samples # {}
  PROVE  /\ Resume \in Nat /\ Resume = Minute(Resume)
         /\ \A m \in DOMAIN minutes : m < Resume
         /\ DOMAIN minutes = {} => \A t \in samples : Resume <= t
         /\ DOMAIN minutes # {} => \A t \in Nat : t < Resume =>
              \E m \in DOMAIN minutes : Minute(t) <= m
<1>1. MinuteLen \in Nat \ {0}
  BY LengthsAssumption DEF LengthsAssumption
<1>2. CASE DOMAIN minutes # {}
  <2> DEFINE m == Latest(DOMAIN minutes)
  <2>1. m \in DOMAIN minutes /\ \A u \in DOMAIN minutes : u <= m
    <3>1. now \in Nat /\ DOMAIN minutes \in SUBSET Nat /\ \A u \in DOMAIN minutes : u <= now
      BY DEF DataTyped, ClockTyped, TablesTyped
    <3> QED BY <1>2, <3>1, Extremes
  <2>2. m \in Nat /\ Minute(m) = m /\ DOMAIN minutes \subseteq Nat
    BY <2>1 DEF DataTyped, ClockTyped, TablesTyped
  <2>3. Resume = m + MinuteLen
    BY <1>2 DEF Resume
  <2> HIDE DEF m
  <2>4. Minute(m + MinuteLen) = m + MinuteLen
    <3>1. m + MinuteLen \in Nat
      BY <1>1, <2>2
    <3>2. /\ Minute(m + MinuteLen) \in Nat
          /\ Minute(m + MinuteLen) <= m + MinuteLen
          /\ m + MinuteLen < Minute(m + MinuteLen) + MinuteLen
      BY <1>1, <3>1, MinuteOf
    <3>3. m < Minute(m + MinuteLen)
      BY <1>1, <2>2, <3>2
    <3>4. Minute(m) < Minute(m + MinuteLen)
      BY <1>1, <2>2, <3>1, <3>3, MinuteOrder
    <3>5. m + MinuteLen <= Minute(m + MinuteLen)
      BY <1>1, <2>2, <3>1, <3>4, MinuteOrder
    <3> QED BY <1>1, <2>2, <3>1, <3>2, <3>5
  <2>5. ASSUME NEW t \in Nat, t < m + MinuteLen
        PROVE  Minute(t) <= m
    <3>1. t < Minute(m + MinuteLen) /\ m + MinuteLen \in Nat
      BY <1>1, <2>2, <2>4, <2>5
    <3>2. Minute(t) < Minute(m + MinuteLen)
      BY <1>1, <3>1, MinuteOrder
    <3>3. Minute(t) + MinuteLen <= m + MinuteLen
      BY <1>1, <2>4, <3>1, <3>2, MinuteOrder
    <3> QED BY <1>1, <2>2, <3>3, MinuteOf
  <2> QED BY <1>1, <1>2, <2>1, <2>2, <2>3, <2>4, <2>5
<1>3. CASE DOMAIN minutes = {}
  <2> DEFINE t == Earliest(samples)
  <2>1. t \in samples /\ \A u \in samples : t <= u
    <3>1. now \in Nat /\ samples \in SUBSET Nat /\ \A u \in samples : u <= now
      BY DEF DataTyped, ClockTyped, TablesTyped
    <3> QED BY <1>3, <3>1, Extremes
  <2>2. t \in Nat /\ samples \subseteq Nat
    BY <2>1 DEF DataTyped, ClockTyped, TablesTyped
  <2>3. Resume = Minute(t)
    BY <1>3 DEF Resume
  <2> HIDE DEF t
  <2>4. Minute(t) \in Nat /\ Minute(t) <= t
    BY <1>1, <2>2, MinuteOf
  <2> QED BY <1>1, <1>3, <2>1, <2>2, <2>3, <2>4, MinuteOfMinute
<1> QED BY <1>2, <1>3
-----------------------------------------------------------------------------
(* Types. *)
LEMMA LengthsTyped ==
  /\ MinuteLen \in Nat \ {0} /\ PageSize \in Nat \ {0} /\ MaxBuffered \in Nat \ {0}
  /\ RawKept \in Nat /\ MinutesKept \in Nat
  /\ RawKept + 1 >= MinuteLen /\ MinutesKept >= RawKept + MinuteLen
BY LengthsAssumption DEF LengthsAssumption

LEMMA RowsTyped ==
  ASSUME DataTyped
  PROVE  \A table : Rows(table) \subseteq 0 .. now
BY DEF DataTyped, ClockTyped, TablesTyped, Rows

\* What a page adds to a download.
LEMMA WriteTyped ==
  ASSUME NEW e \in Exports, NEW page \in Seq(Nat), PageSize \in Nat \ {0}
  PROVE  /\ Write(e, page) \in Exports
         /\ Write(e, page).to = e.to /\ Write(e, page).had = e.had
         /\ Write(e, page).table = e.table
         /\ Write(e, page).wrote = e.wrote \o page
         /\ Write(e, page).at = IF Len(page) < PageSize THEN "done" ELSE "more"
         /\ ~(Len(page) < PageSize) => Write(e, page).cursor = page[Len(page)] + 1
<1>1. Len(page) \in Nat /\ e.wrote \o page \in Seq(Nat)
  BY DEF Exports
<1>2. ~(Len(page) < PageSize) => page[Len(page)] + 1 \in Nat
  BY <1>1
<1>3. ~(Len(page) < PageSize) => Cursor(page) = page[Len(page)] + 1
  BY <1>1 DEF Cursor, Last
<1> DEFINE at == IF Len(page) < PageSize THEN "done" ELSE "more"
           cursor == IF Len(page) < PageSize THEN 0 ELSE Cursor(page)
           wrote == e.wrote \o page
<1>4. Write(e, page) = [e EXCEPT !.wrote = wrote, !.at = at, !.cursor = cursor]
  BY DEF Write
<1>5. at \in {"more", "done"} /\ cursor \in Nat /\ wrote \in Seq(Nat)
  BY <1>1, <1>2, <1>3
<1>6. ~(Len(page) < PageSize) => cursor = page[Len(page)] + 1
  BY <1>3
<1>7. at = IF Len(page) < PageSize THEN "done" ELSE "more"
  OBVIOUS
<1>8. wrote = e.wrote \o page
  OBVIOUS
<1> HIDE DEF at, cursor, wrote
<1>9. Write(e, page) =
        [at |-> at, table |-> e.table, cursor |-> cursor, to |-> e.to, wrote |-> wrote, had |-> e.had]
  BY <1>4 DEF Exports
<1> HIDE <1>4
<1> QED BY <1>5, <1>6, <1>7, <1>8, <1>9 DEF Exports

LEMMA TypeInit ==
  ASSUME HistoryInit
  PROVE  DataTyped
BY DEF DataTyped, ClockTyped, TablesTyped, BufferTyped, SweepTyped, ExportTyped, HistoryInit, Sweeps,
       Exports, Waiting, NoExport

\* What a step may change.
LEMMA Frames ==
  ASSUME [HistoryNext]_historyVars
  PROVE  /\ (Elapse /\ UNCHANGED <<faults, samples, minutes, buf, sweep, export, late>>)
            \/ UNCHANGED now
         /\ UNCHANGED faults \/ faults' = faults + 1
         /\ \/ UNCHANGED <<samples, minutes, late>>
            \/ FlushStored \/ Aggregate \/ ExpireSamples \/ ExpireMinutes
         /\ UNCHANGED buf \/ buf' = <<>> \/ Measure
         /\ \/ UNCHANGED sweep \/ sweep' = Waiting
            \/ StartSweep \/ Aggregate \/ ExpireSamples
         /\ \/ UNCHANGED export \/ export' = NoExport
            \/ ExpireSamples \/ ExpireMinutes
            \/ StartExport \/ NextPage \/ ExportCut
<1>1. CASE Elapse \/ Connect \/ GoDown \/ Restart \/ SweepFails
  BY <1>1, Zenon DEF Elapse, Connect, GoDown, Restart, SweepFails
<1>2. CASE Recorder
  BY <1>2, Zenon DEF Recorder, Measure, FlushStored, FlushDropped
<1>3. CASE Janitor
  BY <1>3, Zenon DEF Janitor, StartSweep, Aggregate, ExpireSamples,
                     ExpireMinutes, SweepUnavailable
<1>4. CASE Export
  BY <1>4, Zenon DEF Export, StartExport, NextPage, ExportCut,
                     ExportEnds
<1>5. CASE UNCHANGED historyVars
  BY <1>5, Zenon DEF historyVars
<1> QED BY <1>1, <1>2, <1>3, <1>4, <1>5 DEF HistoryNext

LEMMA ClockStep ==
  ASSUME ClockTyped, [HistoryNext]_historyVars
  PROVE  ClockTyped' /\ now <= now'
<1>1. UNCHANGED now \/ now' = now + 1
  BY Frames DEF Elapse
<1> QED BY <1>1, Frames DEF ClockTyped

LEMMA TablesStep ==
  ASSUME DataTyped, [HistoryNext]_historyVars
  PROVE  TablesTyped'
<1>0. now \in Nat /\ now' \in Nat /\ now <= now' /\ TablesTyped
  BY ClockStep DEF DataTyped, ClockTyped
<1>1. 0 .. now \subseteq 0 .. now'
  BY <1>0
<1>2. CASE UNCHANGED <<samples, minutes, late>>
  BY <1>0, <1>1, <1>2 DEF TablesTyped
<1>3. CASE FlushStored
  <2>1. Range(buf) \subseteq 0 .. now
    <3>1. buf \in Seq(0 .. now)
      BY DEF DataTyped, BufferTyped
    <3>2. \A i \in DOMAIN buf : buf[i] \in 0 .. now
      BY <3>1, SeqOfMore
    <3> QED BY <3>2 DEF Range
  <2> QED BY <1>0, <1>3, <2>1 DEF TablesTyped, FlushStored
<1>4. CASE Aggregate
  <2> DEFINE counted == {t \in samples : sweep.from <= t /\ t < UpTo}
  <2>1. minutes' = [m \in DOMAIN minutes \cup {Minute(t) : t \in counted} |->
                      IF m \in DOMAIN minutes THEN minutes[m] ELSE {t \in counted : Minute(t) = m}]
    BY <1>4 DEF Aggregate
  <2>2. counted \subseteq Nat /\ counted \subseteq 0 .. now
    BY <1>0 DEF TablesTyped
  <2> HIDE DEF counted
  <2>3. \A t \in counted : Minute(t) \in 0 .. now /\ Minute(Minute(t)) = Minute(t)
    <3> TAKE t \in counted
    <3>1. t \in Nat /\ t <= now
      BY <1>0, <2>2
    <3>2. Minute(t) \in Nat /\ Minute(t) <= t
      BY <3>1, LengthsTyped, MinuteOf
    <3>3. Minute(Minute(t)) = Minute(t)
      BY <3>1, LengthsTyped, MinuteOfMinute
    <3> QED BY <1>0, <3>1, <3>2, <3>3
  <2>4. minutes' \in [DOMAIN minutes' -> SUBSET Nat]
    BY <1>0, <2>1, <2>2 DEF TablesTyped
  <2>5. \A m \in DOMAIN minutes' : m \in 0 .. now /\ Minute(m) = m
    BY <1>0, <2>1, <2>3 DEF TablesTyped
  <2> QED BY <1>0, <1>4, <2>4, <2>5 DEF TablesTyped, Aggregate
<1>5. CASE ExpireSamples
  BY <1>0, <1>5 DEF TablesTyped, ExpireSamples
<1>6. CASE ExpireMinutes
  <2>1. \A m \in DOMAIN minutes' : m \in DOMAIN minutes /\ minutes'[m] = minutes[m]
    BY <1>6 DEF ExpireMinutes
  <2>2. minutes' \in [DOMAIN minutes' -> SUBSET Nat]
    BY <1>0, <1>6 DEF TablesTyped, ExpireMinutes
  <2>3. \A m \in DOMAIN minutes' : m \in 0 .. now /\ Minute(m) = m
    BY <1>0, <2>1 DEF TablesTyped
  <2> QED BY <1>0, <1>6, <2>2, <2>3 DEF TablesTyped, ExpireMinutes
<1> QED BY <1>2, <1>3, <1>4, <1>5, <1>6, Frames

LEMMA BufferStep ==
  ASSUME DataTyped, [HistoryNext]_historyVars
  PROVE  BufferTyped'
<1>0. now \in Nat /\ now' \in Nat /\ now <= now' /\ buf \in Seq(0 .. now)
  BY ClockStep DEF DataTyped, ClockTyped, BufferTyped
<1>1. 0 .. now \subseteq 0 .. now'
  BY <1>0
<1>2. \A q \in Seq(0 .. now) : q \in Seq(0 .. now')
  BY <1>1, SeqOfMore
<1>3. CASE Measure
  <2>1. \A q \in Seq(0 .. now) : Append(q, now) \in Seq(0 .. now) /\ (Len(q) >= MaxBuffered => Tail(q) \in Seq(0 .. now))
    BY <1>0, LengthsTyped
  <2>2. buf' = buf \/ buf' = Append(buf, now) \/ (Len(buf) >= MaxBuffered /\ buf' = Append(Tail(buf), now))
    BY <1>3 DEF Measure, Buffered
  <2> QED BY <1>0, <1>2, <2>1, <2>2 DEF BufferTyped
<1>4. CASE UNCHANGED buf
  BY <1>0, <1>2, <1>4 DEF BufferTyped
<1>5. CASE buf' = <<>>
  BY <1>5 DEF BufferTyped
<1> QED BY <1>3, <1>4, <1>5, Frames

LEMMA SweepStep ==
  ASSUME DataTyped, [HistoryNext]_historyVars
  PROVE  SweepTyped'
<1>0. now \in Nat /\ now' \in Nat /\ now <= now' /\ sweep \in Sweeps /\ sweep.now <= now
  BY ClockStep DEF DataTyped, ClockTyped, SweepTyped
<1>1. CASE UNCHANGED sweep
  BY <1>0, <1>1 DEF SweepTyped, Sweeps
<1>2. CASE sweep' = Waiting
  BY <1>0, <1>2 DEF SweepTyped, Sweeps, Waiting
<1>3. CASE StartSweep
  <2>1. sweep' \in Sweeps /\ sweep'.now = now
    BY <1>0, <1>3, ResumeAt DEF StartSweep, Sweeps
  <2> QED BY <1>0, <2>1 DEF SweepTyped
<1>4. CASE Aggregate \/ ExpireSamples
  BY <1>0, <1>4 DEF SweepTyped, Sweeps, Aggregate, ExpireSamples
<1> QED BY <1>1, <1>2, <1>3, <1>4, Frames

LEMMA ExportStep ==
  ASSUME DataTyped, [HistoryNext]_historyVars
  PROVE  ExportTyped'
<1>0. /\ now \in Nat /\ now' \in Nat /\ now <= now' /\ export \in Exports /\ export.to <= now
      /\ \A table : Rows(table) \subseteq Nat
  BY ClockStep, RowsTyped DEF DataTyped, ClockTyped, ExportTyped
<1>1. CASE UNCHANGED export
  BY <1>0, <1>1 DEF ExportTyped, Exports
<1>2. CASE export' = NoExport
  BY <1>0, <1>2 DEF ExportTyped, Exports, NoExport
<1>3. CASE ExpireSamples \/ ExpireMinutes
  <2>1. PICK gone, table : export' = Without(gone, table)
    BY <1>3 DEF ExpireSamples, ExpireMinutes
  <2>2. export' \in Exports /\ export'.to = export.to
    BY <1>0, <2>1 DEF Without, Exports
  <2> QED BY <1>0, <2>2 DEF ExportTyped, Exports
<1>4. CASE StartExport
  <2>1. PICK table \in {"raw", "1m"}, from \in {0, Minute(now)} :
          export' = Write([NoExport EXCEPT !.table = table, !.to = now,
                                     !.had = {t \in Rows(table) : from <= t}],
                                  Page(table, from, now))
    BY <1>4 DEF StartExport
  <2> DEFINE e == [NoExport EXCEPT !.table = table, !.to = now,
                                           !.had = {t \in Rows(table) : from <= t}]
  <2>2. Minute(now) \in Nat
    BY <1>0, LengthsTyped, MinuteOf
  <2>3. Page(table, from, now) \in Seq(Nat)
    BY <1>0, <2>2, LengthsTyped, PageRows
  <2>4. e \in Exports /\ e.to = now
    <3>1. {t \in Rows(table) : from <= t} \in SUBSET Nat
      BY <1>0
    <3> DEFINE had == {t \in Rows(table) : from <= t}
    <3>2. had \in SUBSET Nat /\ e = [NoExport EXCEPT !.table = table, !.to = now, !.had = had]
      BY <3>1
    <3> HIDE DEF e, had
    <3>3. e = [at |-> "none", table |-> table, cursor |-> 0, to |-> now, wrote |-> <<>>, had |-> had]
      BY <3>2 DEF NoExport
    <3>4. table \in {"raw", "1m"} /\ now \in Nat /\ had \in SUBSET Nat
      BY <1>0, <2>1, <3>2
    <3>5. e.to = now
      BY <3>3
    <3>6. e \in Exports
      BY <3>3, <3>4 DEF Exports
    <3> QED BY <3>5, <3>6
  <2>5. export' \in Exports /\ export'.to = now
    <3> HIDE DEF e
    <3>1. export' = Write(e, Page(table, from, now))
      BY <2>1 DEF e
    <3> QED BY <1>0, <2>3, <2>4, <3>1, LengthsTyped, WriteTyped
  <2> QED BY <1>0, <2>5 DEF ExportTyped
<1>5. CASE NextPage
  <2>1. export.cursor \in Nat /\ export.to \in Nat
    BY <1>0 DEF Exports
  <2>2. Page(export.table, export.cursor, export.to) \in Seq(Nat)
    BY <1>0, <2>1, LengthsTyped, PageRows
  <2>3. export' \in Exports /\ export'.to = export.to
    BY <1>0, <1>5, <2>2, LengthsTyped, WriteTyped DEF NextPage
  <2> QED BY <1>0, <2>1, <2>3 DEF ExportTyped
<1>6. CASE ExportCut
  BY <1>0, <1>6 DEF ExportTyped, Exports, ExportCut
<1> QED BY <1>1, <1>2, <1>3, <1>4, <1>5, <1>6, Frames

LEMMA UpStep ==
  ASSUME up \in BOOLEAN, [HistoryNext]_historyVars
  PROVE  up' \in BOOLEAN
<1>1. CASE Elapse \/ Connect \/ GoDown \/ Restart \/ SweepFails
  BY <1>1, Zenon DEF Elapse, Connect, GoDown, Restart, SweepFails
<1>2. CASE Recorder
  BY <1>2, Zenon DEF Recorder, Measure, FlushStored, FlushDropped
<1>3. CASE Janitor
  BY <1>3, Zenon DEF Janitor, StartSweep, Aggregate, ExpireSamples,
                     ExpireMinutes, SweepUnavailable
<1>4. CASE Export
  BY <1>4, Zenon DEF Export, StartExport, NextPage, ExportCut,
                     ExportEnds
<1>5. CASE UNCHANGED historyVars
  BY <1>5, Zenon DEF historyVars
<1> QED BY <1>1, <1>2, <1>3, <1>4, <1>5 DEF HistoryNext

LEMMA TypeStep ==
  ASSUME HistoryTypeOK, [HistoryNext]_historyVars
  PROVE  HistoryTypeOK'
<1>1. DataTyped'
  BY ClockStep, TablesStep, BufferStep, SweepStep, ExportStep DEF DataTyped, HistoryTypeOK
<1> QED BY <1>1, UpStep DEF HistoryTypeOK


-----------------------------------------------------------------------------
(* Samples are rolled up first. *)
\* A sample that the recorder stores in time is of the minute the clock is in.
LEMMA StoredInTime ==
  ASSUME HistoryTypeOK, FlushStored, NEW t \in InTime'
  PROVE  t \in InTime \/ Minute(now) <= Minute(t)
<1>1. PICK batch : /\ batch = Range(buf)
                  /\ samples' = samples \cup batch
                  /\ late' = late \cup {u \in batch \ samples : Minute(u) < Minute(now)}
  BY DEF FlushStored
<1>2. t \in samples' /\ t \notin late'
  BY DEF InTime
<1>3. now \in Nat /\ t \in Nat
  <2>1. TablesTyped'
    BY TablesStep DEF HistoryTypeOK, HistoryNext, Recorder
  <2>2. UNCHANGED now /\ now \in Nat
    BY DEF FlushStored, HistoryTypeOK, DataTyped, ClockTyped
  <2> QED BY <1>2, <2>1, <2>2 DEF TablesTyped
<1>4. Minute(now) \in Nat /\ Minute(t) \in Nat
  BY <1>3, LengthsTyped, MinuteOf
<1>5. t \in samples \/ ~(Minute(t) < Minute(now))
  BY <1>1, <1>2
<1> QED BY <1>1, <1>2, <1>4, <1>5 DEF InTime

LEMMA RolledUpStep ==
  ASSUME HistoryTypeOK, RolledUpFirst, [HistoryNext]_historyVars
  PROVE  RolledUpFirst'
<1>0. /\ MinuteLen \in Nat \ {0} /\ RawKept \in Nat /\ MinutesKept \in Nat
      /\ now \in Nat /\ now' \in Nat /\ now <= now'
      /\ samples \subseteq Nat /\ DOMAIN minutes \subseteq Nat /\ InTime \subseteq Nat
      /\ sweep.now \in Nat /\ sweep.from \in Nat /\ sweep.now <= now
  BY ClockStep, LengthsTyped
     DEF HistoryTypeOK, DataTyped, ClockTyped, TablesTyped, SweepTyped, Sweeps, InTime
<1>1. /\ Minute(now) \in Nat /\ Minute(now') \in Nat
      /\ Minute(now) <= Minute(now')
      /\ UpTo \in Nat /\ UpTo <= Minute(now)
  BY <1>0, MinuteOf, MinuteOrder DEF UpTo
<1>2. /\ \A m \in DOMAIN minutes : m < Minute(now)
      /\ \A t \in InTime, m \in DOMAIN minutes : Minute(t) <= m => RolledUp(t)
  BY DEF RolledUpFirst
<1>3. ASSUME UNCHANGED <<samples, minutes, late>>
      PROVE  /\ \A m \in DOMAIN minutes' : m < Minute(now)'
             /\ \A t \in InTime', m \in DOMAIN minutes' : Minute(t) <= m => RolledUp(t)'
             /\ InTime' = InTime /\ \A t : RolledUp(t)' <=> RolledUp(t)
  <2>1. Minute(now)' = Minute(now')
    BY DEF Minute
  <2>2. InTime' = InTime /\ \A t : RolledUp(t)' <=> RolledUp(t)
    BY <1>3 DEF InTime, RolledUp, Minute
  <2> QED BY <1>0, <1>1, <1>2, <1>3, <2>1, <2>2
<1>4. CASE UNCHANGED <<samples, minutes, late>> /\ UNCHANGED sweep
  <2>1. UpTo' = UpTo
    BY <1>4 DEF UpTo, Minute
  <2>2. /\ sweep'.at = "aggregate" =>
             /\ sweep'.from = Minute(sweep.from)' /\ sweep'.from < UpTo'
             /\ \A m \in DOMAIN minutes' : m < sweep'.from
             /\ \A t \in InTime' : t < sweep'.from => RolledUp(t)'
        /\ sweep'.at = "expireSamples" => \A t \in InTime' : t < UpTo' => RolledUp(t)'
        /\ sweep'.at = "expireMinutes" => \A t \in InTime' : t + RawKept >= sweep'.now
    BY <1>3, <1>4, <2>1 DEF RolledUpFirst, Minute
  <2> QED BY <1>3, <1>4, <2>2 DEF RolledUpFirst
<1>5. CASE UNCHANGED <<samples, minutes, late>> /\ sweep' = Waiting
  BY <1>3, <1>5 DEF RolledUpFirst, Waiting
<1>6. CASE StartSweep
  <2>1. UNCHANGED <<now, samples, minutes, late>>
    BY <1>6 DEF StartSweep
  <2> DEFINE window == (DOMAIN minutes # {} \/ samples # {}) /\ Resume < Minute(now)
  <2>2. sweep' = [at |-> IF window THEN "aggregate" ELSE "expireSamples",
                  from |-> IF window THEN Resume ELSE 0, now |-> now]
    BY <1>6 DEF StartSweep
  <2>3. UpTo' = Minute(now)
    BY <2>2 DEF UpTo, Minute
  <2>4. DOMAIN minutes # {} \/ samples # {} =>
          /\ Resume \in Nat /\ Resume = Minute(Resume)
          /\ \A m \in DOMAIN minutes : m < Resume
          /\ \A t \in InTime : t < Resume => RolledUp(t)
    <3> SUFFICES ASSUME DOMAIN minutes # {} \/ samples # {}
                 PROVE  /\ Resume \in Nat /\ Resume = Minute(Resume)
                        /\ \A m \in DOMAIN minutes : m < Resume
                        /\ \A t \in InTime : t < Resume => RolledUp(t)
      OBVIOUS
    <3>1. /\ Resume \in Nat /\ Resume = Minute(Resume)
          /\ \A m \in DOMAIN minutes : m < Resume
          /\ DOMAIN minutes = {} => \A t \in samples : Resume <= t
          /\ DOMAIN minutes # {} => \A t \in Nat : t < Resume =>
               \E m \in DOMAIN minutes : Minute(t) <= m
      BY ResumeAt DEF HistoryTypeOK
    <3>2. ASSUME NEW t \in InTime, t < Resume
          PROVE  RolledUp(t)
      <4>1. t \in Nat /\ t \in samples
        BY <1>0 DEF InTime
      <4>2. DOMAIN minutes # {}
        <5> SUFFICES ASSUME DOMAIN minutes = {} PROVE FALSE
          OBVIOUS
        <5>1. Resume \in Nat /\ Resume <= t
          BY <3>1, <4>1
        <5> QED BY <3>2, <4>1, <5>1
      <4> QED BY <1>2, <3>1, <3>2, <4>1, <4>2
    <3> QED BY <3>1, <3>2
  <2>5. CASE window
    <3>1. sweep'.at = "aggregate" /\ sweep'.from = Resume
      BY <2>2, <2>5
    <3>2. Minute(sweep.from)' = Minute(Resume)
      BY <3>1 DEF Minute
    <3> QED BY <1>3, <2>1, <2>3, <2>4, <2>5, <3>1, <3>2 DEF RolledUpFirst
  <2>6. CASE ~window
    <3>1. sweep'.at = "expireSamples"
      BY <2>2, <2>6
    <3>2. ASSUME NEW t \in InTime, t < Minute(now)
          PROVE  RolledUp(t)
      <4>1. t \in Nat /\ samples # {}
        BY <1>0 DEF InTime
      <4>2. Resume \in Nat /\ ~(Resume < Minute(now))
        BY <2>4, <2>6, <4>1
      <4> QED BY <1>1, <2>4, <3>2, <4>1, <4>2
    <3> QED BY <1>3, <2>1, <2>3, <3>1, <3>2 DEF RolledUpFirst
  <2> QED BY <2>5, <2>6
<1>7. CASE FlushStored
  <2>1. UNCHANGED <<now, minutes, sweep>>
    BY <1>7 DEF FlushStored
  <2>2. /\ UpTo' = UpTo /\ Minute(now)' = Minute(now)
        /\ Minute(sweep.from)' = Minute(sweep.from)
        /\ \A t : RolledUp(t)' <=> RolledUp(t)
    BY <2>1 DEF UpTo, Minute, RolledUp
  <2>3. ASSUME NEW t \in InTime', t \notin InTime
        PROVE  /\ t \in Nat /\ Minute(t) \in Nat
               /\ Minute(t) <= t /\ Minute(now) <= Minute(t)
               /\ t + RawKept >= sweep.now
    <3>1. t \in Nat
      BY <1>7, TablesStep, <1>0, <2>1 DEF HistoryTypeOK, TablesTyped, InTime
    <3>2. Minute(t) \in Nat /\ Minute(t) <= t /\ now < Minute(now) + MinuteLen
      BY <1>0, <3>1, MinuteOf
    <3>3. Minute(now) <= Minute(t)
      BY <1>7, <2>3, StoredInTime
    <3>4. RawKept + 1 >= MinuteLen
      BY LengthsTyped
    <3>5. t + RawKept >= now
      BY <1>0, <1>1, <3>1, <3>2, <3>3, <3>4
    <3> QED BY <1>0, <3>1, <3>2, <3>3, <3>5
  <2>4. \A t \in InTime', m \in DOMAIN minutes : Minute(t) <= m => RolledUp(t)
    <3> TAKE t \in InTime', m \in DOMAIN minutes
    <3>1. CASE t \in InTime
      BY <1>2, <3>1
    <3>2. CASE t \notin InTime
      BY <1>0, <1>1, <1>2, <2>3, <3>2
    <3> QED BY <3>1, <3>2
  <2>5. sweep.at = "aggregate" => \A t \in InTime' : t < sweep.from => RolledUp(t)
    <3> SUFFICES ASSUME sweep.at = "aggregate", NEW t \in InTime', t < sweep.from
                 PROVE  RolledUp(t)
      OBVIOUS
    <3>1. sweep.from < UpTo /\ (t \in InTime => RolledUp(t))
      BY DEF RolledUpFirst
    <3> QED BY <1>0, <1>1, <2>3, <3>1
  <2>6. sweep.at = "expireSamples" => \A t \in InTime' : t < UpTo => RolledUp(t)
    <3> SUFFICES ASSUME sweep.at = "expireSamples", NEW t \in InTime', t < UpTo
                 PROVE  RolledUp(t)
      OBVIOUS
    <3>1. t \in InTime => RolledUp(t)
      BY DEF RolledUpFirst
    <3> QED BY <1>0, <1>1, <2>3, <3>1
  <2>7. sweep.at = "expireMinutes" => \A t \in InTime' : t + RawKept >= sweep.now
    BY <2>3 DEF RolledUpFirst
  <2>8. sweep.at = "aggregate" =>
             /\ sweep.from = Minute(sweep.from) /\ sweep.from < UpTo
             /\ \A m \in DOMAIN minutes : m < sweep.from
    BY DEF RolledUpFirst
  <2> QED BY <1>2, <2>1, <2>2, <2>4, <2>5, <2>6, <2>7, <2>8 DEF RolledUpFirst
<1>8. CASE Aggregate
  <2> DEFINE counted == {t \in samples : sweep.from <= t /\ t < UpTo}
  <2>1. /\ minutes' = [m \in DOMAIN minutes \cup {Minute(t) : t \in counted} |->
                      IF m \in DOMAIN minutes THEN minutes[m] ELSE {t \in counted : Minute(t) = m}]
        /\ UNCHANGED <<now, samples, late>>
        /\ sweep.at = "aggregate"
        /\ sweep' = [sweep EXCEPT !.at = "expireSamples"]
    BY <1>8 DEF Aggregate
  <2>2. counted \subseteq samples /\ counted \subseteq Nat
        /\ \A t \in samples : t \in counted <=> sweep.from <= t /\ t < UpTo
    BY <1>0
  <2> HIDE DEF counted
  <2>3. /\ sweep.from = Minute(sweep.from) /\ sweep.from < UpTo
        /\ \A m \in DOMAIN minutes : m < sweep.from
        /\ \A t \in InTime : t < sweep.from => RolledUp(t)
    BY <2>1 DEF RolledUpFirst
  <2>4. /\ InTime' = InTime /\ Minute(now)' = Minute(now)
        /\ UpTo' = UpTo
        /\ sweep'.at = "expireSamples"
    <3>1. sweep'.at = "expireSamples" /\ sweep'.now = sweep.now
      BY <2>1 DEF HistoryTypeOK, DataTyped, SweepTyped, Sweeps
    <3> QED BY <2>1, <3>1 DEF InTime, UpTo, Minute
  <2>5. \A t \in counted : /\ Minute(t) \in Nat /\ sweep.from <= Minute(t)
                            /\ Minute(t) < UpTo
                            /\ Minute(t) \notin DOMAIN minutes
    <3> TAKE t \in counted
    <3>1. t \in Nat /\ sweep.from <= t /\ t < UpTo
      BY <2>2
    <3>2. Minute(t) \in Nat /\ Minute(t) <= t
      BY <1>0, <3>1, MinuteOf
    <3>3. sweep.from <= Minute(t)
      BY <1>0, <2>3, <3>1, MinuteOrder
    <3> QED BY <1>0, <1>1, <2>3, <3>1, <3>2, <3>3
  <2>6. \A m \in DOMAIN minutes' : m < UpTo
    <3>1. \A m \in DOMAIN minutes : m < UpTo
      BY <1>0, <1>1, <2>3
    <3> QED BY <2>1, <2>5, <3>1
  <2>7. ASSUME NEW t \in InTime, t < UpTo
        PROVE  RolledUp(t)'
    <3>0. Minute(t)' = Minute(t)
      BY DEF Minute
    <3>1. CASE t < sweep.from
      <4>1. Minute(t) \in DOMAIN minutes /\ t \in minutes[Minute(t)]
        BY <2>3, <3>1 DEF RolledUp
      <4> QED BY <2>1, <3>0, <4>1 DEF RolledUp
    <3>2. CASE sweep.from <= t
      <4>1. t \in counted
        BY <2>2, <2>7, <3>2 DEF InTime
      <4>2. Minute(t) \in DOMAIN minutes' /\ t \in minutes'[Minute(t)]
        BY <2>1, <2>5, <4>1
      <4> QED BY <3>0, <4>2 DEF RolledUp
    <3> QED BY <1>0, <3>1, <3>2
  <2>8. ASSUME NEW t \in InTime, NEW m \in DOMAIN minutes', Minute(t) <= m
        PROVE  RolledUp(t)'
    <3>1. t \in Nat /\ m < UpTo /\ m \in Nat
      BY <1>0, <2>1, <2>5, <2>6
    <3>2. Minute(t) \in Nat /\ Minute(t) < UpTo
      BY <1>0, <1>1, <2>8, <3>1, MinuteOf
    <3>3. t < UpTo
      <4>1. \A u \in Nat : Minute(t) < Minute(u) => Minute(t) + MinuteLen <= Minute(u)
        BY <1>0, <3>1, MinuteOrder
      <4>2. Minute(t) + MinuteLen <= UpTo
        BY <1>0, <3>2, <4>1 DEF UpTo
      <4> QED BY <1>0, <1>1, <3>1, <3>2, <4>2, MinuteOf
    <3> QED BY <2>7, <3>3
  <2>9. \A m \in DOMAIN minutes' : m < Minute(now)
    <3>1. \A m \in DOMAIN minutes' : m \in Nat
      BY <1>0, <2>1, <2>5
    <3> QED BY <1>1, <2>6, <3>1
  <2>10. /\ \A m \in DOMAIN minutes' : m < Minute(now)'
         /\ \A t \in InTime', m \in DOMAIN minutes' : Minute(t)' <= m => RolledUp(t)'
         /\ \A t \in InTime' : t < UpTo' => RolledUp(t)'
    BY <2>4, <2>7, <2>8, <2>9 DEF Minute
  <2> QED BY <2>4, <2>10 DEF RolledUpFirst
<1>9. CASE ExpireSamples
  <2>1. /\ samples' = {t \in samples : t + RawKept >= sweep.now}
        /\ UNCHANGED <<now, minutes, late>>
        /\ sweep' = [sweep EXCEPT !.at = "expireMinutes"]
    BY <1>9 DEF ExpireSamples
  <2>2. sweep'.at = "expireMinutes" /\ sweep'.now = sweep.now
    BY <2>1 DEF HistoryTypeOK, DataTyped, SweepTyped, Sweeps
  <2>3. /\ InTime' \subseteq InTime /\ Minute(now)' = Minute(now)
        /\ \A t \in InTime' : t + RawKept >= sweep.now
        /\ \A t : RolledUp(t)' <=> RolledUp(t)
    BY <2>1 DEF InTime, RolledUp, Minute
  <2>4. /\ \A m \in DOMAIN minutes' : m < Minute(now)'
        /\ \A t \in InTime', m \in DOMAIN minutes' : Minute(t)' <= m => RolledUp(t)'
    BY <1>2, <2>1, <2>3 DEF Minute
  <2> QED BY <2>2, <2>3, <2>4 DEF RolledUpFirst
<1>10. CASE ExpireMinutes
  <2>1. /\ minutes' = [m \in {m \in DOMAIN minutes : m + MinutesKept >= sweep.now} |-> minutes[m]]
        /\ UNCHANGED <<now, samples, late>>
        /\ sweep.at = "expireMinutes" /\ sweep' = Waiting
    BY <1>10 DEF ExpireMinutes
  <2>2. \A m \in DOMAIN minutes' : m \in DOMAIN minutes
    BY <2>1
  <2>3. ASSUME NEW t \in InTime, RolledUp(t)
        PROVE  RolledUp(t)'
    <3>1. Minute(t) \in DOMAIN minutes /\ t \in minutes[Minute(t)]
      BY <2>3 DEF RolledUp
    <3>2. t \in Nat /\ t + RawKept >= sweep.now
      BY <1>0, <2>1 DEF RolledUpFirst
    <3>3. Minute(t) \in Nat /\ t < Minute(t) + MinuteLen
      BY <1>0, <3>2, MinuteOf
    <3>4. MinutesKept >= RawKept + MinuteLen
      BY LengthsTyped
    <3>5. Minute(t) + MinutesKept >= sweep.now
      BY <1>0, <3>2, <3>3, <3>4
    <3>6. Minute(t) \in DOMAIN minutes' /\ t \in minutes'[Minute(t)]
      BY <2>1, <3>1, <3>5
    <3> QED BY <3>6 DEF RolledUp, Minute
  <2>4. InTime' = InTime /\ Minute(now)' = Minute(now)
    BY <2>1 DEF InTime, Minute
  <2>5. \A t \in InTime', m \in DOMAIN minutes' : Minute(t)' <= m => RolledUp(t)'
    BY <1>2, <2>2, <2>3, <2>4 DEF Minute
  <2> QED BY <1>2, <2>1, <2>2, <2>4, <2>5 DEF RolledUpFirst, Waiting
<1>11. UNCHANGED sweep \/ sweep' = Waiting \/ StartSweep \/ Aggregate
         \/ ExpireSamples
  BY Frames
<1> QED BY <1>4, <1>5, <1>6, <1>7, <1>8, <1>9, <1>10, <1>11, Frames
-----------------------------------------------------------------------------
(* Downloads. *)
\* One more page of a download.
LEMMA PageWritten ==
  ASSUME NEW e \in Exports, NEW from \in Nat,
         Rows(e.table) \subseteq Nat, e.had \subseteq Rows(e.table),
         \A t \in e.had : t <= e.to, Increasing(e.wrote),
         \A t \in Written(e) : t < from, \A t \in e.had : t < from => t \in Written(e),
         NEW w, w = Write(e, Page(e.table, from, e.to))
  PROVE  /\ w.table = e.table /\ w.had = e.had /\ w.to = e.to
         /\ Increasing(w.wrote)
         /\ w.at = "more" => /\ \A t \in Written(w) : t < w.cursor
                            /\ \A t \in w.had : t < w.cursor => t \in Written(w)
         /\ w.at = "done" => w.had \subseteq Written(w)
<1> DEFINE page == Page(e.table, from, e.to)
           rows == Between(e.table, from, e.to)
<1>1. PageSize \in Nat \ {0} /\ e.to \in Nat /\ e.wrote \in Seq(Nat) /\ e.had \subseteq Nat
  BY LengthsTyped DEF Exports
<1>2. /\ page \in Seq(rows) /\ page \in Seq(Nat) /\ rows \subseteq Nat
      /\ Increasing(page)
      /\ Len(page) <= PageSize
      /\ Len(page) < PageSize => \A t \in rows : \E k \in DOMAIN page : page[k] = t
      /\ Len(page) = PageSize =>
            \A t \in rows : t <= page[Len(page)] => \E k \in DOMAIN page : page[k] = t
  <2>1. from \in Nat /\ e.to \in Nat /\ Rows(e.table) \subseteq Nat /\ PageSize \in Nat \ {0}
    BY <1>1
  <2> QED BY ONLY <2>1, PageRows
<1>3. /\ \A t \in rows : from <= t
      /\ \A t \in e.had : from <= t => t \in rows
  BY DEF Between
<1> HIDE DEF rows, page
<1>4. /\ w.table = e.table /\ w.had = e.had /\ w.to = e.to
      /\ w.wrote = e.wrote \o page
      /\ w.at = IF Len(page) < PageSize THEN "done" ELSE "more"
      /\ ~(Len(page) < PageSize) => w.cursor = page[Len(page)] + 1
  <2>1. w = Write(e, page)
    BY DEF page
  <2>2. /\ Write(e, page).to = e.to /\ Write(e, page).had = e.had
        /\ Write(e, page).table = e.table
        /\ Write(e, page).wrote = e.wrote \o page
        /\ Write(e, page).at = IF Len(page) < PageSize THEN "done" ELSE "more"
        /\ ~(Len(page) < PageSize) => Write(e, page).cursor = page[Len(page)] + 1
    BY <1>1, <1>2, WriteTyped
  <2> QED BY <2>1, <2>2
<1>5. \A k \in DOMAIN page : page[k] \in rows /\ page[k] \in Nat
  BY <1>2, SeqOfMore
<1>6. \A i \in DOMAIN e.wrote, k \in DOMAIN page : e.wrote[i] < page[k]
  <2> TAKE i \in DOMAIN e.wrote, k \in DOMAIN page
  <2>1. e.wrote[i] \in Written(e) /\ e.wrote[i] \in Nat
    BY <1>1, SeqOfMore DEF Written
  <2> QED BY <1>3, <1>5, <2>1
<1>7. /\ Increasing(w.wrote)
      /\ Written(w) = Written(e) \cup {page[k] : k \in DOMAIN page}
  <2>1. /\ Increasing(e.wrote \o page)
        /\ {(e.wrote \o page)[k] : k \in DOMAIN (e.wrote \o page)}
             = {e.wrote[k] : k \in DOMAIN e.wrote} \cup {page[k] : k \in DOMAIN page}
    BY <1>1, <1>2, <1>6, IncreasingConcat
  <2>2. w.wrote = e.wrote \o page
    BY <1>4
  <2>3. Written(w) = {(e.wrote \o page)[k] : k \in DOMAIN (e.wrote \o page)}
    BY <2>2 DEF Written
  <2>4. Written(e) = {e.wrote[k] : k \in DOMAIN e.wrote}
    BY DEF Written
  <2> QED BY <2>1, <2>2, <2>3, <2>4
<1>8. \A t \in Written(e) : t \in Nat
  BY <1>1, SeqOfMore DEF Written
<1>9. CASE Len(page) < PageSize
  <2>1. \A t \in e.had : t \in Written(w)
    <3> TAKE t \in e.had
    <3>1. t < from \/ from <= t
      BY <1>1
    <3> QED BY <1>2, <1>3, <1>7, <1>9, <3>1
  <2> QED BY <1>4, <1>7, <1>9, <2>1
<1>10. CASE ~(Len(page) < PageSize)
  <2>1. /\ Len(page) = PageSize /\ Len(page) \in DOMAIN page /\ w.at = "more"
        /\ w.cursor = page[Len(page)] + 1
    BY <1>1, <1>2, <1>4, <1>10
  <2> DEFINE last == page[Len(page)]
  <2>2. last \in Nat /\ from <= last
    BY <1>3, <1>5, <2>1
  <2>3. \A k \in DOMAIN page : page[k] <= last
    <3> TAKE k \in DOMAIN page
    <3>1. k = Len(page) \/ k < Len(page)
      BY <1>2
    <3> QED BY <1>2, <1>5, <2>1, <2>2, <3>1 DEF Increasing
  <2> HIDE DEF last
  <2>4. w.cursor = last + 1
    BY <2>1 DEF last
  <2>5. \A t \in Written(w) : t < w.cursor
    BY <1>5, <1>7, <1>8, <2>2, <2>3, <2>4
  <2>6. \A t \in w.had : t < w.cursor => t \in Written(w)
    <3> SUFFICES ASSUME NEW t \in e.had, t < w.cursor PROVE t \in Written(w)
      BY <1>4
    <3>1. CASE t < from
      BY <1>7, <3>1
    <3>2. CASE from <= t
      <4>1. t \in rows /\ t <= last
        BY <1>1, <1>3, <2>2, <2>4, <3>2
      <4>2. \E k \in DOMAIN page : page[k] = t
        BY <1>2, <2>1, <4>1 DEF last
      <4> QED BY <1>7, <4>2
    <3> QED BY <1>1, <3>1, <3>2
  <2> QED BY <1>4, <1>7, <2>1, <2>5, <2>6
<1> QED BY <1>9, <1>10

LEMMA Followed ==
  ASSUME export'.at # "none" =>
           /\ export'.had \subseteq IF export'.table = "raw" THEN samples' ELSE DOMAIN minutes'
           /\ \A t \in export'.had : t <= export'.to
           /\ Increasing(export'.wrote)
           /\ export'.at = "more" => /\ \A t \in Written(export') : t < export'.cursor
                                     /\ \A t \in export'.had : t < export'.cursor => t \in Written(export')
           /\ export'.at = "done" => export'.had \subseteq Written(export')
  PROVE  PagesFollow'
BY DEF PagesFollow, Increasing, Written, Rows

\* Rows expire under a download.
LEMMA RowsGone ==
  ASSUME PagesFollow, export \in Exports, NEW gone, NEW table, export' = Without(gone, table),
         table = "raw" => samples' = samples \ gone /\ UNCHANGED minutes,
         table # "raw" => table = "1m" /\ DOMAIN minutes' = DOMAIN minutes \ gone /\ UNCHANGED samples
  PROVE  PagesFollow'
<1>1. /\ export'.at = export.at /\ export'.table = export.table /\ export'.to = export.to
      /\ export'.wrote = export.wrote /\ export'.cursor = export.cursor
      /\ export'.had = IF export.table = table THEN export.had \ gone ELSE export.had
  BY DEF Exports, Without
<1>2. export.table \in {"raw", "1m"}
  BY DEF Exports
<1>3. export.at # "none" =>
        export'.had \subseteq IF export.table = "raw" THEN samples' ELSE DOMAIN minutes'
  BY <1>1, <1>2 DEF PagesFollow, Rows
<1>4. Written(export') = Written(export)
  BY <1>1 DEF Written
<1>5. export.at # "none" =>
        /\ \A t \in export'.had : t <= export.to
        /\ Increasing(export.wrote)
        /\ export.at = "more" => /\ \A t \in Written(export) : t < export.cursor
                                 /\ \A t \in export'.had : t < export.cursor => t \in Written(export)
        /\ export.at = "done" => export'.had \subseteq Written(export)
  BY <1>1 DEF PagesFollow
<1> QED BY <1>1, <1>3, <1>4, <1>5, Followed

LEMMA PagesStep ==
  ASSUME HistoryTypeOK, PagesFollow, [HistoryNext]_historyVars
  PROVE  PagesFollow'
<1>0. /\ now \in Nat /\ export \in Exports /\ export.table \in {"raw", "1m"}
      /\ \A table : Rows(table) \subseteq 0 .. now /\ Rows(table) \subseteq Nat
  BY RowsTyped DEF HistoryTypeOK, DataTyped, ClockTyped, ExportTyped, Exports
<1>1. CASE export' = NoExport
  BY <1>1 DEF PagesFollow, NoExport
<1>2. CASE ExpireSamples \/ ExpireMinutes
  <2>1. CASE ExpireSamples
    <3>1. /\ export' = Without(samples \ samples', "raw")
          /\ samples' = samples \ (samples \ samples')
          /\ minutes' = minutes
      BY <2>1 DEF ExpireSamples
    <3> QED BY <1>0, <3>1, RowsGone
  <2>2. CASE ExpireMinutes
    <3>1. /\ export' = Without(DOMAIN minutes \ DOMAIN minutes', "1m")
          /\ DOMAIN minutes' = DOMAIN minutes \ (DOMAIN minutes \ DOMAIN minutes')
          /\ samples' = samples
      BY <2>2 DEF ExpireMinutes
    <3> QED BY <1>0, <3>1, RowsGone
  <2> QED BY <1>2, <2>1, <2>2
<1>3. CASE /\ ~(ExpireSamples \/ ExpireMinutes)
           /\ UNCHANGED export \/ ExportCut
  <2>1. samples \subseteq samples' /\ DOMAIN minutes \subseteq DOMAIN minutes'
    <3>1. CASE UNCHANGED <<samples, minutes, late>>
      BY <3>1
    <3>2. CASE FlushStored
      BY <3>2 DEF FlushStored
    <3>3. CASE Aggregate
      BY <3>3 DEF Aggregate
    <3> QED BY <1>3, <3>1, <3>2, <3>3, Frames
  <2>2. /\ export'.table = export.table /\ export'.to = export.to
        /\ export'.wrote = export.wrote /\ export'.cursor = export.cursor
        /\ export'.had = export.had
        /\ export'.at = export.at \/ (export.at = "more" /\ export'.at = "cut")
    BY <1>0, <1>3 DEF ExportCut, Exports
  <2>3. export.at # "none" =>
          /\ export.had \subseteq IF export.table = "raw" THEN samples' ELSE DOMAIN minutes'
          /\ \A t \in export.had : t <= export.to
          /\ Increasing(export.wrote)
          /\ export.at = "more" => /\ \A t \in Written(export) : t < export.cursor
                                   /\ \A t \in export.had : t < export.cursor => t \in Written(export)
          /\ export.at = "done" => export.had \subseteq Written(export)
    BY <2>1 DEF PagesFollow, Rows
  <2>4. Written(export') = Written(export)
    BY <2>2 DEF Written
  <2> QED BY <2>2, <2>3, <2>4, Followed
<1>4. CASE StartExport
  <2>1. PICK table \in {"raw", "1m"}, from \in {0, Minute(now)} :
          export' = Write([NoExport EXCEPT !.table = table, !.to = now,
                                     !.had = {t \in Rows(table) : from <= t}],
                                  Page(table, from, now))
    BY <1>4 DEF StartExport
  <2> DEFINE e == [NoExport EXCEPT !.table = table, !.to = now,
                                           !.had = {t \in Rows(table) : from <= t}]
             had == {t \in Rows(table) : from <= t}
  <2>2. from \in Nat
    BY <1>0, <2>1, LengthsTyped, MinuteOf
  <2>3. e = [at |-> "none", table |-> table, cursor |-> 0, to |-> now, wrote |-> <<>>, had |-> had]
    <3>1. e = [NoExport EXCEPT !.table = table, !.to = now, !.had = had]
      OBVIOUS
    <3> HIDE DEF e, had
    <3> QED BY <3>1 DEF NoExport
  <2>4. export' = Write(e, Page(e.table, from, e.to))
    <3>1. export' = Write(e, Page(table, from, now))
      BY <2>1
    <3> HIDE DEF e
    <3> QED BY <2>3, <3>1
  <2>5. had \subseteq Nat /\ had \subseteq Rows(table) /\ \A t \in had : t <= now /\ from <= t
    BY <1>0
  <2>6. UNCHANGED <<samples, minutes>>
    BY <1>4 DEF StartExport
  <2> HIDE DEF e, had
  <2>7. e \in Exports
    <3>1. table \in {"raw", "1m"} /\ now \in Nat /\ had \in SUBSET Nat
      BY <1>0, <2>1, <2>5
    <3> QED BY <2>3, <3>1 DEF Exports
  <2>8. Written(e) = {} /\ Increasing(e.wrote)
    BY <2>3 DEF Written, Increasing
  <2>9. /\ e.had \subseteq Rows(e.table) /\ Rows(e.table) \subseteq Nat
        /\ \A t \in e.had : t <= e.to
        /\ \A t \in Written(e) : t < from
        /\ \A t \in e.had : t < from => t \in Written(e)
    <3>1. e.had = had /\ e.to = now /\ e.table = table
      BY <2>3
    <3>2. \A t \in had : ~(t < from)
      BY <2>2, <2>5
    <3> QED BY <1>0, <2>5, <2>8, <3>1, <3>2
  <2>10. /\ export'.table = e.table /\ export'.had = e.had /\ export'.to = e.to
         /\ Increasing(export'.wrote)
         /\ export'.at = "more" => /\ \A t \in Written(export') : t < export'.cursor
                                   /\ \A t \in export'.had : t < export'.cursor => t \in Written(export')
         /\ export'.at = "done" => export'.had \subseteq Written(export')
    BY <2>2, <2>4, <2>7, <2>8, <2>9, PageWritten
  <2>11. export'.had \subseteq IF export'.table = "raw" THEN samples' ELSE DOMAIN minutes'
    BY <2>6, <2>9, <2>10 DEF Rows
  <2> QED BY <2>9, <2>10, <2>11, Followed
<1>5. CASE NextPage
  <2>1. /\ export.at = "more" /\ UNCHANGED <<samples, minutes>>
        /\ export' = Write(export, Page(export.table, export.cursor, export.to))
    BY <1>5 DEF NextPage
  <2>2. /\ export.cursor \in Nat /\ Rows(export.table) \subseteq Nat
        /\ export.had \subseteq Rows(export.table)
        /\ \A t \in export.had : t <= export.to
        /\ Increasing(export.wrote)
        /\ \A t \in Written(export) : t < export.cursor
        /\ \A t \in export.had : t < export.cursor => t \in Written(export)
    BY <1>0, <2>1 DEF PagesFollow, Exports
  <2>3. /\ export'.table = export.table /\ export'.had = export.had /\ export'.to = export.to
        /\ Increasing(export'.wrote)
        /\ export'.at = "more" => /\ \A t \in Written(export') : t < export'.cursor
                                  /\ \A t \in export'.had : t < export'.cursor => t \in Written(export')
        /\ export'.at = "done" => export'.had \subseteq Written(export')
    <3>1. export \in Exports
      BY <1>0
    <3>2. export' = Write(export, Page(export.table, export.cursor, export.to))
      BY <2>1
    <3> HIDE <2>1, <1>0
    <3> QED BY <2>2, <3>1, <3>2, PageWritten
  <2>4. export'.had \subseteq IF export'.table = "raw" THEN samples' ELSE DOMAIN minutes'
    BY <2>1, <2>2, <2>3 DEF Rows
  <2> QED BY <2>2, <2>3, <2>4, Followed
<1>6. \/ UNCHANGED export \/ export' = NoExport
      \/ ExpireSamples \/ ExpireMinutes
      \/ StartExport \/ NextPage \/ ExportCut
  BY Frames
<1> QED BY <1>1, <1>2, <1>3, <1>4, <1>5, <1>6
-----------------------------------------------------------------------------
LEMMA HistoryInductive ==
  /\ HistoryInit => HistoryInv
  /\ HistoryInv /\ [HistoryNext]_historyVars => HistoryInv'
<1>1. HistoryInit => HistoryInv
  <2> SUFFICES ASSUME HistoryInit PROVE HistoryInv
    OBVIOUS
  <2>1. HistoryTypeOK
    BY TypeInit DEF HistoryTypeOK, HistoryInit
  <2>2. RolledUpFirst /\ PagesFollow
    BY DEF RolledUpFirst, PagesFollow, InTime, HistoryInit, Waiting, NoExport
  <2> QED BY <2>1, <2>2 DEF HistoryInv
<1>2. HistoryInv /\ [HistoryNext]_historyVars => HistoryInv'
  BY TypeStep, RolledUpStep, PagesStep DEF HistoryInv
<1> QED BY <1>1, <1>2

\* The tables, the janitor's locals and a download have their types, and no row is from
\* the future.
THEOREM HistoryTyped ==
  HistorySpec => []HistoryTypeOK
<1>1. HistoryInv => HistoryTypeOK
  BY DEF HistoryInv
<1> QED BY <1>1, HistoryInductive, PTL DEF HistorySpec

\* A sample that the recorder stored in its minute has been counted by a row of samples_1m
\* when it expires, whichever statements failed (history/jobs.go, sweep).
THEOREM SamplesCounted ==
  HistorySpec => ExpiresCounted
<1>1. ASSUME HistoryInv, [HistoryNext]_historyVars, NEW t \in samples \ samples'
      PROVE  t \in late \/ (Minute(t) \in DOMAIN minutes /\ t \in minutes[Minute(t)])
  <2>1. ExpireSamples
    BY <1>1, Frames DEF FlushStored, Aggregate, ExpireMinutes
  <2>2. sweep.at = "expireSamples" /\ ~(t + RawKept >= sweep.now)
    BY <1>1, <2>1 DEF ExpireSamples
  <2>3. t \in Nat /\ sweep.now \in Nat
    BY <1>1 DEF HistoryInv, HistoryTypeOK, DataTyped, ClockTyped, TablesTyped, SweepTyped, Sweeps
  <2>4. /\ MinuteLen \in Nat \ {0} /\ RawKept \in Nat /\ RawKept + 1 >= MinuteLen
    BY LengthsTyped
  <2>5. /\ UpTo \in Nat /\ sweep.now < UpTo + MinuteLen
    BY <2>3, <2>4, MinuteOf DEF UpTo
  <2>6. t < UpTo
    BY <2>2, <2>3, <2>4, <2>5
  <2> QED BY <1>1, <2>2, <2>6 DEF HistoryInv, RolledUpFirst, InTime, RolledUp
<1>2. ASSUME HistoryInv, [HistoryNext]_historyVars
      PROVE  [\A t \in samples \ samples' : t \in late \/
                (Minute(t) \in DOMAIN minutes /\ t \in minutes[Minute(t)])]_historyVars
  BY <1>1, <1>2
<1> QED BY <1>2, HistoryInductive, PTL DEF HistorySpec, ExpiresCounted

\* A download that was not cut off is whole, in order and without repetition, whatever the
\* recorder and the janitor did between its pages (api/export.go, streamCSVPages).
THEOREM ExportsWhole ==
  HistorySpec => []ExportWhole
<1>1. HistoryInv => ExportWhole
  BY DEF HistoryInv, PagesFollow, Increasing, Written, ExportWhole, Range
<1> QED BY <1>1, HistoryInductive, PTL DEF HistorySpec
=============================================================================
