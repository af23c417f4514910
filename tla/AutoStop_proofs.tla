--------------------------- MODULE AutoStop_proofs ---------------------------
(***************************************************************************)
(* A rule fires as asked, for any duration, limit, amount, buffer and      *)
(* number of edits: what the engine computes from the ages of its state    *)
(* and from the counters of the device never runs ahead of what was        *)
(* observed, as long as the state is one it began afresh.                  *)
(***************************************************************************)
EXTENDS AutoStop, TLAPS

USE TimesAssumption DEF TimesAssumption

Row == [state : {"none", "on", "off", "gone"}, type : Conditions, scope : Scopes]
Counts == [Counters -> Nat]
RuleState == [awaitingOff : BOOLEAN, haveBaseline : BOOLEAN, elapsed : 0 .. Limit + 1,
              base : Counts, holding : BOOLEAN, held : 0 .. Need, gap : BOOLEAN]
Ticks == [kind : {"tick"}, on : BOOLEAN, low : BOOLEAN, count : Counts, dt : Nat]
Statuses == [kind : {"status"}, up : BOOLEAN]

TypeOK ==
  /\ stored \in Row /\ edit \in Row /\ cached \in Row
  /\ requests \in Nat
  /\ st \in RuleState
  /\ linkUp \in BOOLEAN /\ link \in BOOLEAN /\ firing \in BOOLEAN
  /\ output \in BOOLEAN /\ low \in BOOLEAN /\ busy \in BOOLEAN
  /\ count \in Counts /\ told \in Counts /\ drawn \in Counts
  /\ queue \in Seq(Ticks \cup Statuses)
  /\ lag \in Nat /\ posted \in BOOLEAN
  /\ good \in BOOLEAN /\ spent \in BOOLEAN
  /\ seen \in 0 .. Need /\ onTime \in 0 .. Limit + 1
  /\ past \in SUBSET {"run", "fired", "edited"}

\* What is not evaluated has no progress: with the link down, or while it is off, the
\* state of the rule is fresh.
UnwatchedIsFresh == ~linkUp \/ ~Enabled(cached) => st = Fresh

\* A rule that has not fired since its state was fresh does not wait for an off tick.
ArmedUntilFired == ~firing /\ past = {} => ~st.awaitingOff

\* The window of a rule on the current is not older than what was observed of it, and
\* is in a gap unless the last tick counted.
WindowObserved ==
  past = {} /\ cached.type = "currentBelow" /\ st.holding =>
    st.held <= seen /\ (good \/ st.gap)

\* The baseline of a rule of a session is within this on-period.
BaselineObserved ==
  past = {} /\ cached.scope = "session" /\ st.haveBaseline => st.elapsed <= onTime

\* The counters have not moved further from the baseline than what was drawn, as far as
\* that is counted; one that restarted has moved less.
CountersObserved ==
  past = {} /\ st.haveBaseline =>
    \A k \in Counters : drawn[k] > Amount \/ told[k] <= st.base[k] + drawn[k]

RuleInv ==
  /\ TypeOK /\ UnwatchedIsFresh /\ ArmedUntilFired /\ WindowObserved /\ BaselineObserved
  /\ CountersObserved /\ FiresAsAsked

------------------------------------------------------------------------------
(***************************************************************************)
(* Types.                                                                  *)
(***************************************************************************)
LEMMA CapBounds ==
  ASSUME NEW n \in Nat, NEW top \in Nat
  PROVE  Cap(n, top) \in 0 .. top /\ Cap(n, top) \in Nat
  BY DEF Cap

\* Capped ages keep their order as time goes by.
LEMMA CapKeepsOrder ==
  ASSUME NEW m \in Nat, NEW n \in Nat, NEW dt \in Nat, NEW top \in Nat, m <= n
  PROVE  Cap(m + dt, top) <= Cap(n + dt, top)
  BY DEF Cap

\* The first of the queue and the rest of it.
LEMMA QueueTypes ==
  ASSUME TypeOK, queue # <<>>
  PROVE  /\ Tail(queue) \in Seq(Ticks \cup Statuses)
         /\ Head(queue).kind = "tick" => Head(queue) \in Ticks
         /\ Head(queue).kind = "status" => Head(queue) \in Statuses
<1>1. Head(queue) \in Ticks \cup Statuses /\ Tail(queue) \in Seq(Ticks \cup Statuses)
  BY DEF TypeOK
<1>2. QED
  BY <1>1 DEF Ticks, Statuses

LEMMA FreshType == Fresh \in RuleState /\ Zero \in Counts
  BY DEF Fresh, RuleState, Zero, Counts

\* The ages at a tick.
LEMMA AgedType ==
  ASSUME TypeOK, NEW dt \in Nat
  PROVE  /\ Aged(dt) \in RuleState
         /\ Aged(dt).awaitingOff = st.awaitingOff
         /\ Aged(dt).haveBaseline = st.haveBaseline
         /\ Aged(dt).holding = st.holding
         /\ Aged(dt).gap = st.gap
         /\ Aged(dt).base = st.base
         /\ Aged(dt).elapsed = IF st.haveBaseline THEN Cap(st.elapsed + dt, Limit + 1) ELSE 0
         /\ Aged(dt).held = IF st.holding /\ ~st.gap THEN Cap(st.held + dt, Need) ELSE st.held
         /\ st = Fresh => Aged(dt) = Fresh
<1>1. st \in RuleState
  BY DEF TypeOK
<1>2. st.elapsed + dt \in Nat /\ st.held + dt \in Nat
  BY <1>1 DEF RuleState
<1> DEFINE e == IF st.haveBaseline THEN Cap(st.elapsed + dt, Limit + 1) ELSE 0
           w == IF st.holding /\ ~st.gap THEN Cap(st.held + dt, Need) ELSE st.held
<1>3. e \in 0 .. Limit + 1 /\ w \in 0 .. Need
  <2>1. Limit + 1 \in Nat /\ Need \in Nat
    OBVIOUS
  <2>2. Cap(st.elapsed + dt, Limit + 1) \in 0 .. Limit + 1 /\ Cap(st.held + dt, Need) \in 0 .. Need
    BY <1>2, <2>1, CapBounds
  <2>3. QED
    BY <1>1, <2>1, <2>2 DEF RuleState
<1>4. st = Fresh => e = 0 /\ w = 0
  BY DEF Fresh
<1>5. Aged(dt) = [st EXCEPT !.elapsed = e, !.held = w]
  BY DEF Aged
<1> HIDE DEF e, w
<1>6. /\ Aged(dt) \in RuleState
      /\ Aged(dt).awaitingOff = st.awaitingOff
      /\ Aged(dt).haveBaseline = st.haveBaseline
      /\ Aged(dt).holding = st.holding
      /\ Aged(dt).gap = st.gap
      /\ Aged(dt).base = st.base
      /\ Aged(dt).elapsed = e
      /\ Aged(dt).held = w
  BY <1>1, <1>3, <1>5 DEF RuleState
<1>7. st = Fresh => Aged(dt) = Fresh
  <2> SUFFICES ASSUME st = Fresh PROVE [st EXCEPT !.elapsed = 0, !.held = 0] = st
    BY <1>4, <1>5
  <2>1. st.elapsed = 0 /\ st.held = 0
    BY DEF Fresh
  <2>2. QED
    BY <1>1, <2>1 DEF RuleState
<1>8. QED
  BY <1>6, <1>7 DEF e, w

\* What a tick with the output off, and one with it on, makes of the state.
LEMMA OffTickDoes ==
  ASSUME NEW s \in RuleState
  PROVE  /\ OffTick(s) \in RuleState
         /\ ~OffTick(s).awaitingOff
         /\ cached.scope = "session" => OffTick(s) = Fresh
         /\ cached.scope # "session" => /\ OffTick(s).holding = s.holding
                                        /\ OffTick(s).held = s.held
                                        /\ OffTick(s).base = s.base
                                        /\ OffTick(s).haveBaseline = s.haveBaseline
                                        /\ OffTick(s).gap = s.holding
<1>1. CASE cached.scope = "session"
  BY <1>1, FreshType DEF OffTick, Fresh
<1>2. CASE cached.scope # "session"
  <2>1. OffTick(s) = [s EXCEPT !.awaitingOff = FALSE, !.gap = s.holding]
    BY <1>2 DEF OffTick
  <2>2. QED
    BY <1>2, <2>1 DEF RuleState
<1>3. QED
  BY <1>1, <1>2

LEMMA BasedDoes ==
  ASSUME NEW s \in RuleState, NEW tick \in Ticks
  PROVE  /\ Based(s, tick) \in RuleState
         /\ Based(s, tick).haveBaseline
         /\ Based(s, tick).base = IF s.haveBaseline THEN s.base ELSE tick.count
         /\ Based(s, tick).awaitingOff = s.awaitingOff
         /\ Based(s, tick).elapsed = s.elapsed
         /\ Based(s, tick).holding = s.holding /\ Based(s, tick).held = s.held
<1>1. CASE s.haveBaseline
  BY <1>1 DEF Based
<1>2. CASE ~s.haveBaseline
  <2>1. Based(s, tick) = [s EXCEPT !.haveBaseline = TRUE, !.base = tick.count]
    BY <1>2 DEF Based
  <2>2. tick.count \in Counts
    BY DEF Ticks
  <2>3. QED
    BY <1>2, <2>1, <2>2 DEF RuleState
<1>3. QED
  BY <1>1, <1>2

LEMMA OnTickDoes ==
  ASSUME NEW s \in RuleState, NEW tick \in Ticks
  PROVE  /\ OnTick(s, tick) \in RuleState
         /\ s.awaitingOff => OnTick(s, tick) = s
         /\ ~s.awaitingOff =>
              /\ OnTick(s, tick).haveBaseline
              /\ OnTick(s, tick).base = Based(s, tick).base
              /\ ~OnTick(s, tick).awaitingOff
              /\ OnTick(s, tick).elapsed = s.elapsed
              /\ ~OnTick(s, tick).gap
              /\ OnTick(s, tick).holding => /\ Holds(Based(s, tick), tick)
                                            /\ OnTick(s, tick).held = IF s.holding THEN s.held ELSE 0
<1> DEFINE base == Based(s, tick)
<1>1. /\ base \in RuleState /\ base.elapsed = s.elapsed /\ base.held = s.held
      /\ base.haveBaseline /\ base.awaitingOff = s.awaitingOff
  BY BasedDoes
<1>2. CASE s.awaitingOff
  BY <1>2 DEF OnTick
<1>3. CASE ~s.awaitingOff /\ ~Holds(base, tick)
  <2>1. OnTick(s, tick) = [base EXCEPT !.holding = FALSE, !.gap = FALSE]
    BY <1>3 DEF OnTick
  <2> HIDE DEF base
  <2>2. /\ OnTick(s, tick) \in RuleState
        /\ OnTick(s, tick).haveBaseline /\ ~OnTick(s, tick).awaitingOff
        /\ OnTick(s, tick).base = base.base
        /\ OnTick(s, tick).elapsed = s.elapsed /\ ~OnTick(s, tick).gap
        /\ ~OnTick(s, tick).holding
    BY <1>1, <1>3, <2>1 DEF RuleState
  <2>3. QED
    BY <1>3, <2>2 DEF base
<1>4. CASE ~s.awaitingOff /\ Holds(base, tick)
  <2> DEFINE w == IF s.holding THEN s.held ELSE 0
  <2>1. OnTick(s, tick) = [base EXCEPT !.holding = TRUE, !.held = w, !.gap = FALSE]
    BY <1>1, <1>4 DEF OnTick
  <2>2. w \in 0 .. Need
    BY DEF RuleState
  <2>3. Holds(Based(s, tick), tick)
    BY <1>4
  <2> HIDE DEF base, w
  <2>4. /\ OnTick(s, tick) \in RuleState
        /\ OnTick(s, tick).haveBaseline /\ ~OnTick(s, tick).awaitingOff
        /\ OnTick(s, tick).base = base.base
        /\ OnTick(s, tick).elapsed = s.elapsed /\ ~OnTick(s, tick).gap
        /\ OnTick(s, tick).held = w
    BY <1>1, <1>4, <2>1, <2>2 DEF RuleState
  <2>5. QED
    BY <1>4, <2>3, <2>4 DEF w, base
<1>5. QED
  BY <1>2, <1>3, <1>4

\* What is drawn from a tick to the next covers what the counters moved, and one that
\* stayed below the cap was counted in full.
LEMMA DrawnCovers ==
  ASSUME TypeOK, NEW tick \in Ticks, NEW k \in Counters
  PROVE  /\ Cap(drawn[k] + Drawn(tick, k), Amount + 1) \in Nat
         /\ drawn[k] > Amount => Cap(drawn[k] + Drawn(tick, k), Amount + 1) > Amount
         /\ \/ Cap(drawn[k] + Drawn(tick, k), Amount + 1) > Amount
            \/ tick.count[k] + drawn[k] <= told[k] + Cap(drawn[k] + Drawn(tick, k), Amount + 1)
<1>1. /\ drawn[k] \in Nat /\ told[k] \in Nat /\ tick.count[k] \in Nat /\ Amount \in Nat
  BY DEF TypeOK, Ticks, Counts
<1>2. Drawn(tick, k) \in Nat /\ tick.count[k] <= told[k] + Drawn(tick, k)
  BY <1>1 DEF Drawn
<1>3. QED
  BY <1>1, <1>2 DEF Cap

------------------------------------------------------------------------------
(***************************************************************************)
(* The steps of the engine.                                                *)
(***************************************************************************)
\* A tick, taken apart: nothing is evaluated unless the link is up, no run owns the
\* output and the rule is on.
Evaluated == linkUp /\ ~busy /\ Enabled(cached)

LEMMA HandleTickStep ==
  ASSUME RuleInv, HandleTick
  PROVE  RuleInv'
<1> USE DEF RuleInv
<1> DEFINE tick == Head(queue)
           s == Aged(tick.dt)
<1>1. tick \in Ticks /\ tick.dt \in Nat /\ tick.on \in BOOLEAN /\ tick.low \in BOOLEAN
      /\ Tail(queue) \in Seq(Ticks \cup Statuses)
  <2>1. tick \in Ticks /\ Tail(queue) \in Seq(Ticks \cup Statuses)
    BY QueueTypes DEF HandleTick
  <2>2. QED
    BY <2>1 DEF Ticks
<1>2. /\ st' = IF ~Evaluated THEN s
               ELSE IF ~tick.on THEN OffTick(s)
               ELSE [OnTick(s, tick) EXCEPT !.awaitingOff = @ \/ Fires(s, tick)]
      /\ firing' = (Evaluated /\ Fires(s, tick))
      /\ good' = (Evaluated /\ tick.on /\ tick.low)
      /\ seen' = IF (tick.on /\ ~tick.low) \/ (~tick.on /\ cached.scope = "session") THEN 0
                 ELSE IF good THEN Cap(seen + tick.dt, Need) ELSE seen
      /\ onTime' = IF ~tick.on THEN 0 ELSE Cap(onTime + tick.dt, Limit + 1)
      /\ drawn' = IF st = Fresh \/ (~tick.on /\ cached.scope = "session") THEN Zero
                  ELSE [k \in Counters |-> Cap(drawn[k] + Drawn(tick, k), Amount + 1)]
      /\ told' = tick.count
      /\ past' = IF st' = Fresh THEN {} ELSE IF busy THEN past \cup {"run"} ELSE past
      /\ ~firing /\ queue' = Tail(queue)
      /\ spent' = (spent /\ ~(Evaluated /\ ~tick.on))
      /\ UNCHANGED <<stored, edit, requests, cached, linkUp, link, output, low, count, busy, lag,
                     posted>>
  BY DEF HandleTick, Evaluated, api, device
<1>3. /\ s \in RuleState
      /\ s.awaitingOff = st.awaitingOff /\ s.haveBaseline = st.haveBaseline
      /\ s.holding = st.holding /\ s.gap = st.gap /\ s.base = st.base
      /\ s.elapsed = IF st.haveBaseline THEN Cap(st.elapsed + tick.dt, Limit + 1) ELSE 0
      /\ s.held = IF st.holding /\ ~st.gap THEN Cap(st.held + tick.dt, Need) ELSE st.held
      /\ st = Fresh => s = Fresh
  BY <1>1, AgedType
<1>4. /\ st.elapsed \in Nat /\ st.held \in Nat /\ seen \in 0 .. Need /\ onTime \in 0 .. Limit + 1
      /\ Need \in Nat /\ Limit + 1 \in Nat /\ st.held <= Need
      /\ seen \in Nat /\ onTime \in Nat
  BY DEF TypeOK, RuleState
<1>5. /\ Cap(seen + tick.dt, Need) \in 0 .. Need
      /\ Cap(onTime + tick.dt, Limit + 1) \in 0 .. Limit + 1
  <2>1. seen + tick.dt \in Nat /\ onTime + tick.dt \in Nat
    BY <1>1, <1>4, SMTT(30)
  <2>2. Cap(seen + tick.dt, Need) \in 0 .. Need
    BY <1>4, <2>1, CapBounds
  <2>3. Cap(onTime + tick.dt, Limit + 1) \in 0 .. Limit + 1
    BY <1>4, <2>1, CapBounds
  <2>4. QED
    BY <2>2, <2>3
<1> HIDE DEF s, tick
\* The state that comes of it.
<1>6. /\ st' \in RuleState
      /\ Evaluated /\ tick.on =>
           /\ s.awaitingOff => st' = s /\ ~firing'
           /\ ~s.awaitingOff => /\ st'.haveBaseline /\ st'.awaitingOff = firing'
                                /\ st'.elapsed = s.elapsed /\ ~st'.gap
                                /\ st'.base = Based(s, tick).base
                                /\ st'.holding => /\ Holds(Based(s, tick), tick)
                                                  /\ st'.held = IF s.holding THEN s.held ELSE 0
  <2>1. CASE ~Evaluated
    BY <1>2, <1>3, <2>1
  <2>2. CASE Evaluated /\ ~tick.on
    BY <1>2, <1>3, <2>2, OffTickDoes
  <2>3. CASE Evaluated /\ tick.on
    <3> DEFINE o == OnTick(s, tick)
               f == Fires(s, tick)
    <3>1. /\ o \in RuleState
          /\ s.awaitingOff => o = s
          /\ ~s.awaitingOff =>
               /\ o.haveBaseline /\ ~o.awaitingOff /\ o.elapsed = s.elapsed /\ ~o.gap
               /\ o.base = Based(s, tick).base
               /\ o.holding => /\ Holds(Based(s, tick), tick)
                               /\ o.held = IF s.holding THEN s.held ELSE 0
      BY <1>1, <1>3, OnTickDoes
    <3>2. f \in BOOLEAN /\ (s.awaitingOff => ~f) /\ firing' = f
      BY <1>2, <2>3 DEF Fires
    <3>3. st' = [o EXCEPT !.awaitingOff = o.awaitingOff \/ f]
      BY <1>2, <2>3
    <3> DEFINE a == o.awaitingOff \/ f
    <3>4. a \in BOOLEAN /\ (s.awaitingOff => a = o.awaitingOff) /\ (~s.awaitingOff => a = f)
      <4>1. o.awaitingOff \in BOOLEAN /\ (s.awaitingOff => o.awaitingOff)
        BY <3>1 DEF RuleState
      <4>2. QED
        BY <3>1, <3>2, <4>1
    <3>5. st' = [o EXCEPT !.awaitingOff = a]
      BY <3>3
    <3> HIDE DEF o, f, a
    <3>6. st' \in RuleState
      BY <3>1, <3>4, <3>5 DEF RuleState
    <3>7. ASSUME s.awaitingOff PROVE st' = s /\ ~firing'
      BY <3>1, <3>2, <3>4, <3>5, <3>7 DEF RuleState
    <3>8. ASSUME ~s.awaitingOff
          PROVE  /\ st'.haveBaseline /\ st'.awaitingOff = firing'
                 /\ st'.elapsed = s.elapsed /\ ~st'.gap
                 /\ st'.base = Based(s, tick).base
                 /\ st'.holding => /\ Holds(Based(s, tick), tick)
                                   /\ st'.held = IF s.holding THEN s.held ELSE 0
      <4>1. /\ st'.haveBaseline = o.haveBaseline /\ st'.awaitingOff = a
            /\ st'.elapsed = o.elapsed /\ st'.gap = o.gap
            /\ st'.holding = o.holding /\ st'.held = o.held /\ st'.base = o.base
        BY <3>1, <3>5 DEF RuleState
      <4>2. QED
        BY <3>1, <3>2, <3>4, <3>8, <4>1
    <3>9. QED
      BY <2>3, <3>6, <3>7, <3>8
  <2>4. QED
    BY <2>1, <2>2, <2>3
<1>7. TypeOK'
  <2>1. good' \in BOOLEAN /\ firing' \in BOOLEAN
    BY <1>2
  <2>2. seen' \in 0 .. Need /\ onTime' \in 0 .. Limit + 1
    BY <1>2, <1>4, <1>5
  <2>3. past' \in SUBSET {"run", "fired", "edited"}
    BY <1>2 DEF TypeOK
  <2>4. told' \in Counts /\ drawn' \in Counts
    BY <1>1, <1>2, DrawnCovers, FreshType DEF Ticks, Counts
  <2>5. QED
    BY <1>1, <1>2, <1>6, <2>1, <2>2, <2>3, <2>4 DEF TypeOK
<1>8. UnwatchedIsFresh'
  BY <1>2, <1>3 DEF UnwatchedIsFresh, Enabled, Evaluated
\* With nothing in the past after the tick, there was nothing before it or the state is
\* fresh now.
<1>9. past' = {} => st' = Fresh \/ (past = {} /\ ~busy /\ ~st.awaitingOff)
  BY <1>2 DEF ArmedUntilFired
<1>10. Fresh.holding = FALSE /\ Fresh.haveBaseline = FALSE /\ Fresh.awaitingOff = FALSE
  BY DEF Fresh
<1>11. \A k \in Counters : /\ drawn[k] \in Nat /\ told[k] \in Nat /\ st.base[k] \in Nat
                           /\ tick.count[k] \in Nat /\ Amount \in Nat
  BY <1>1 DEF TypeOK, RuleState, Ticks, Counts
<1>12. CASE st' = Fresh
  <2>1. ~firing'
    BY <1>2, <1>3, <1>6, <1>10, <1>12 DEF Fires
  <2>2. QED
    BY <1>7, <1>8, <1>10, <1>12, <2>1
    DEF ArmedUntilFired, WindowObserved, BaselineObserved, CountersObserved, FiresAsAsked
<1>13. CASE past' # {}
  BY <1>7, <1>8, <1>13 DEF ArmedUntilFired, WindowObserved, BaselineObserved, CountersObserved, FiresAsAsked
<1>14. CASE past' = {} /\ st' # Fresh
  <2>1. past = {} /\ ~busy /\ ~st.awaitingOff /\ ~s.awaitingOff
    BY <1>3, <1>9, <1>14
  \* A tick that is not evaluated leaves a fresh state fresh.
  <2>2. Evaluated
    BY <1>2, <1>3, <1>14, <2>1 DEF UnwatchedIsFresh, Evaluated
  <2>3. CASE ~tick.on
    <3>1. /\ cached.scope # "session" /\ ~st'.awaitingOff /\ st'.holding = s.holding
          /\ st'.held = s.held /\ st'.gap = s.holding /\ ~firing'
      BY <1>2, <1>3, <1>14, <2>2, <2>3, OffTickDoes DEF Fires
    <3>2. WindowObserved'
      <4> SUFFICES ASSUME cached.type = "currentBelow", st.holding
                   PROVE  st'.held <= seen' /\ st'.gap
        BY <1>2, <1>3, <3>1 DEF WindowObserved
      <4>1. st.held <= seen /\ (good \/ st.gap)
        BY <2>1 DEF WindowObserved
      <4>2. seen' = IF good THEN Cap(seen + tick.dt, Need) ELSE seen
        BY <1>2, <2>3, <3>1
      <4>3. s.held = IF ~st.gap THEN Cap(st.held + tick.dt, Need) ELSE st.held
        BY <1>3
      <4>4. st.held <= Cap(st.held + tick.dt, Need) /\ seen <= Cap(seen + tick.dt, Need)
            /\ Cap(st.held + tick.dt, Need) <= Cap(seen + tick.dt, Need)
        BY <1>1, <1>4, <4>1 DEF Cap
      <4>5. s.held <= seen'
        BY <1>4, <1>5, <4>1, <4>2, <4>3, <4>4
      <4>6. QED
        BY <1>3, <3>1, <4>5
    <3>3. CountersObserved'
      <4> SUFFICES ASSUME st.haveBaseline, NEW k \in Counters
                   PROVE  drawn'[k] > Amount \/ told'[k] <= st.base[k] + drawn'[k]
        BY <1>2, <1>3, <2>3, <3>1, OffTickDoes DEF CountersObserved
      <4>1. drawn'[k] = Cap(drawn[k] + Drawn(tick, k), Amount + 1) /\ told'[k] = tick.count[k]
        BY <1>2, <1>10, <3>1
      <4>2. drawn[k] > Amount \/ told[k] <= st.base[k] + drawn[k]
        BY <2>1 DEF CountersObserved
      <4>3. QED
        BY <1>1, <1>11, <4>1, <4>2, DrawnCovers
    <3>4. QED
      BY <1>2, <1>7, <1>8, <3>1, <3>2, <3>3 DEF ArmedUntilFired, BaselineObserved, FiresAsAsked
  <2>4. CASE tick.on
    <3>1. /\ st'.haveBaseline /\ st'.awaitingOff = firing'
          /\ st'.elapsed = s.elapsed /\ ~st'.gap
          /\ st'.holding => /\ Holds(Based(s, tick), tick)
                            /\ st'.held = IF s.holding THEN s.held ELSE 0
      BY <1>6, <2>1, <2>2, <2>4
    \* The window, as it was aged, is within what was observed.
    <3>2. cached.type = "currentBelow" /\ s.holding /\ tick.low => s.held <= seen'
      <4> SUFFICES ASSUME cached.type = "currentBelow", st.holding, tick.low
                   PROVE  s.held <= seen'
        BY <1>3
      <4>1. st.held <= seen /\ (good \/ st.gap)
        BY <2>1 DEF WindowObserved
      <4>2. seen' = IF good THEN Cap(seen + tick.dt, Need) ELSE seen
        BY <1>2, <2>4
      <4>3. s.held = IF ~st.gap THEN Cap(st.held + tick.dt, Need) ELSE st.held
        BY <1>3
      <4>4. st.held <= Cap(st.held + tick.dt, Need) /\ seen <= Cap(seen + tick.dt, Need)
            /\ Cap(st.held + tick.dt, Need) <= Cap(seen + tick.dt, Need)
        BY <1>1, <1>4, <4>1 DEF Cap
      <4>5. QED
        BY <1>4, <1>5, <4>1, <4>2, <4>3, <4>4
    <3>3. cached.type = "currentBelow" =>
            (Holds(Based(s, tick), tick) => tick.low)
      BY DEF Holds, Counters
    <3>4. WindowObserved'
      <4> SUFFICES ASSUME cached.type = "currentBelow", st'.holding
                   PROVE  st'.held <= seen' /\ good'
        BY <1>2 DEF WindowObserved
      <4>1. tick.low /\ good'
        BY <1>2, <2>2, <2>4, <3>1, <3>3
      <4>2. seen' \in Nat
        BY <1>7 DEF TypeOK
      <4>3. CASE s.holding
        BY <3>1, <3>2, <4>1, <4>3
      <4>4. CASE ~s.holding
        BY <3>1, <4>1, <4>2, <4>4
      <4>5. QED
        BY <4>3, <4>4
    \* So is the age of the session.
    <3>5. cached.scope = "session" => s.elapsed <= onTime'
      <4> SUFFICES ASSUME cached.scope = "session" PROVE s.elapsed <= onTime'
        OBVIOUS
      <4>1. onTime' = Cap(onTime + tick.dt, Limit + 1)
        BY <1>2, <2>4
      <4>2. CASE st.haveBaseline
        <5>1. st.elapsed <= onTime
          BY <2>1, <4>2 DEF BaselineObserved
        <5>2. QED
          <6>1. Cap(st.elapsed + tick.dt, Limit + 1) <= Cap(onTime + tick.dt, Limit + 1)
            BY <1>1, <1>4, <5>1, CapKeepsOrder
          <6>2. QED
            BY <1>3, <4>1, <4>2, <6>1
      <4>3. CASE ~st.haveBaseline
        BY <1>3, <1>5, <4>1, <4>3
      <4>4. QED
        BY <4>2, <4>3
    <3>6. BaselineObserved'
      BY <1>2, <3>1, <3>5 DEF BaselineObserved
    \* And what the counters moved.
    <3>7. CountersObserved'
      <4> SUFFICES ASSUME NEW k \in Counters
                   PROVE  drawn'[k] > Amount \/ told'[k] <= st'.base[k] + drawn'[k]
        BY DEF CountersObserved
      <4>1. /\ told'[k] = tick.count[k] /\ st'.base = Based(s, tick).base
            /\ tick.count[k] \in Nat /\ drawn'[k] \in Nat /\ Amount \in Nat
        BY <1>1, <1>2, <1>6, <1>7, <2>1, <2>2, <2>4 DEF TypeOK, Ticks, Counts
      <4>2. CASE st.haveBaseline
        <5>1. drawn'[k] = Cap(drawn[k] + Drawn(tick, k), Amount + 1)
          BY <1>2, <1>10, <2>4, <4>2
        <5>2. drawn[k] > Amount \/ told[k] <= st.base[k] + drawn[k]
          BY <2>1, <4>2 DEF CountersObserved
        <5>3. st'.base = st.base
          <6>1. s.haveBaseline /\ s.base = st.base
            BY <1>3, <4>2
          <6>2. Based(s, tick).base = s.base
            BY <6>1 DEF Based
          <6>3. QED
            BY <4>1, <6>1, <6>2
        <5>4. QED
          BY <1>1, <1>11, <4>1, <5>1, <5>2, <5>3, DrawnCovers
      <4>3. CASE ~st.haveBaseline
        <5>1. st'.base = tick.count
          BY <1>1, <1>3, <4>1, <4>3, BasedDoes
        <5>2. QED
          BY <4>1, <5>1
      <4>4. QED
        BY <4>2, <4>3
    <3>8. FiresAsAsked'
      <4> SUFFICES ASSUME firing'
                   PROVE  /\ cached.type = "currentBelow" => seen' >= Need
                          /\ cached.type = "elapsedAbove" /\ cached.scope = "session" => onTime' > Limit
                          /\ cached.type \in Counters => drawn'[cached.type] > Amount
        BY <1>2 DEF FiresAsAsked
      <4>1. /\ Holds(Based(s, tick), tick)
            /\ cached.type = "currentBelow" => s.holding /\ s.held >= Need
        BY <1>2 DEF Fires
      <4>2. CASE cached.type = "currentBelow"
        <5>1. s.held >= Need /\ s.held <= seen'
          BY <3>2, <3>3, <4>1, <4>2
        <5>2. s.held \in Nat /\ seen' \in Nat
          BY <1>3, <1>7 DEF TypeOK, RuleState
        <5>3. QED
          BY <1>4, <4>2, <5>1, <5>2 DEF Counters
      <4>3. CASE cached.type = "elapsedAbove"
        <5>1. Based(s, tick).elapsed > Limit
          BY <4>1, <4>3 DEF Holds, Counters
        <5>2. Based(s, tick).elapsed = s.elapsed /\ s.elapsed \in Nat
          BY <1>1, <1>3, BasedDoes DEF RuleState
        <5>3. onTime' \in Nat
          BY <1>7 DEF TypeOK
        <5>4. QED
          BY <3>5, <4>3, <5>1, <5>2, <5>3 DEF Counters
      <4>4. CASE cached.type \in Counters
        <5> DEFINE k == cached.type
        <5>1. tick.count[k] > Based(s, tick).base[k] + Amount
          BY <4>1, <4>4 DEF Holds, Counters
        <5>2. /\ told'[k] = tick.count[k] /\ st'.base = Based(s, tick).base
              /\ tick.count[k] \in Nat /\ drawn'[k] \in Nat /\ Amount \in Nat
              /\ st'.base[k] \in Nat
          BY <1>1, <1>2, <1>6, <1>7, <2>1, <2>2, <2>4, <4>4 DEF TypeOK, Ticks, Counts, RuleState
        <5>3. drawn'[k] > Amount \/ told'[k] <= st'.base[k] + drawn'[k]
          BY <1>2, <1>14, <3>1, <3>7, <4>4 DEF CountersObserved
        <5>4. drawn'[k] > Amount
          BY <5>1, <5>2, <5>3
        <5>5. QED
          BY <4>4, <5>4 DEF Counters
      <4>5. QED
        BY <4>2, <4>3, <4>4 DEF Counters
    <3>9. ArmedUntilFired'
      BY <3>1 DEF ArmedUntilFired
    <3>10. QED
      BY <1>7, <1>8, <3>4, <3>6, <3>7, <3>8, <3>9
  <2>5. QED
    BY <1>1, <2>3, <2>4
<1>15. QED
  BY <1>12, <1>13, <1>14

\* Nothing observed is well typed.
LEMMA NothingObserved ==
  /\ FALSE \in BOOLEAN /\ 0 \in 0 .. Need /\ 0 \in 0 .. Limit + 1
  /\ {} \in SUBSET {"run", "fired", "edited"} /\ Zero \in Counts
<1>1. 0 \in 0 .. Need /\ 0 \in 0 .. Limit + 1
  OBVIOUS
<1>2. QED
  BY <1>1, FreshType

\* Around the engine: as long as its state and what was observed stay, so does all but
\* the types.
LEMMA AroundTheEngine ==
  ASSUME RuleInv, TypeOK', UNCHANGED <<engine, observed>>
  PROVE  RuleInv'
<1>1. UNCHANGED <<cached, st, linkUp, firing, good, seen, onTime, told, drawn, past>>
  BY DEF engine, observed
<1>2. UnwatchedIsFresh' /\ ArmedUntilFired'
  BY <1>1 DEF RuleInv, UnwatchedIsFresh, ArmedUntilFired, Enabled
<1>3. WindowObserved' /\ BaselineObserved' /\ CountersObserved'
  BY <1>1 DEF RuleInv, WindowObserved, BaselineObserved, CountersObserved
<1>4. FiresAsAsked'
  BY <1>1 DEF RuleInv, FiresAsAsked
<1>5. QED
  BY <1>2, <1>3, <1>4 DEF RuleInv

\* The load, the user, runs and the API.
LEMMA SettingStep ==
  ASSUME RuleInv,
         \/ LoadChanges \/ Switch \/ RunStartsOrEnds
         \/ PowerCycle \/ \E k \in Counters : Deliver(k)
         \/ \E r \in Rows : CreateRule(r) \/ OpenEdit(r)
         \/ SaveEdit \/ DeleteRule
  PROVE  RuleInv'
<1>1. TypeOK
  BY DEF RuleInv
<1>2. ASSUME LoadChanges \/ Switch \/ RunStartsOrEnds \/ PowerCycle
             \/ \E k \in Counters : Deliver(k)
      PROVE  TypeOK' /\ UNCHANGED <<engine, observed>>
  <2>1. UNCHANGED <<api, engine, link, stream, observed>>
        /\ low' \in BOOLEAN /\ output' \in BOOLEAN /\ busy' \in BOOLEAN /\ count' \in Counts
    <3>1. ASSUME NEW k \in Counters, Deliver(k) PROVE count' \in Counts
      BY <1>1, <3>1 DEF Deliver, TypeOK, Counts
    <3>2. QED
      BY <1>1, <1>2, <3>1, FreshType
      DEF LoadChanges, Switch, RunStartsOrEnds, PowerCycle, Deliver, TypeOK
  <2>2. QED
    BY <1>1, <2>1 DEF TypeOK, api, engine, stream, observed
<1>3. ASSUME (\E r \in Rows : CreateRule(r) \/ OpenEdit(r)) \/ SaveEdit \/ DeleteRule
      PROVE  TypeOK' /\ UNCHANGED <<engine, observed>>
  <2>1. Rows \subseteq Row /\ NoRow \in Row
    BY DEF Rows, Row, NoRow, Conditions, Scopes
  <2>2. [stored EXCEPT !.state = "gone"] \in Row
    BY <1>1 DEF TypeOK, Row
  <2>3. UNCHANGED <<engine, device, stream, observed>>
        /\ stored' \in Row /\ edit' \in Row /\ requests' \in Nat
    BY <1>1, <1>3, <2>1, <2>2, SMTT(30) DEF CreateRule, OpenEdit, SaveEdit, DeleteRule, Request, TypeOK
  <2>4. QED
    BY <1>1, <2>3 DEF TypeOK, engine, device, stream, observed
<1>4. QED
  BY <1>2, <1>3, AroundTheEngine

\* The hub.
LEMMA LinkTold ==
  ASSUME TypeOK, NEW up \in BOOLEAN, Link(up)
  PROVE  /\ link' \in BOOLEAN /\ posted' \in BOOLEAN
         /\ queue' \in Seq(Ticks \cup Statuses) /\ lag' \in Nat
<1> DEFINE item == [kind |-> "status", up |-> up]
<1>1. /\ item \in Statuses /\ queue \in Seq(Ticks \cup Statuses) /\ lag \in Nat
      /\ posted \in BOOLEAN
  BY DEF Statuses, TypeOK
<1>2. Append(queue, item) \in Seq(Ticks \cup Statuses)
  BY <1>1
<1>3. QED
  BY <1>1, <1>2 DEF Link, stream

LEMMA PublishStep ==
  ASSUME RuleInv, Tick \/ Silence \/ LinkChanges
  PROVE  RuleInv'
<1>1. TypeOK
  BY DEF RuleInv
<1>2. ASSUME Tick \/ Silence PROVE TypeOK' /\ UNCHANGED <<engine, observed>>
  <2> DEFINE item == [kind |-> "tick", on |-> output, low |-> low, count |-> count, dt |-> lag + 1]
  <2>1. item \in Ticks /\ lag + 1 \in Nat /\ Need + Limit \in Nat
    BY <1>1 DEF TypeOK, Ticks
  <2>2. Append(queue, item) \in Seq(Ticks \cup Statuses)
    BY <1>1, <2>1 DEF TypeOK
  <2>3. Cap(lag + 1, Need + Limit) \in Nat
    BY <2>1, CapBounds
  <2>4. UNCHANGED <<api, engine, device, posted, observed>>
        /\ queue' \in Seq(Ticks \cup Statuses) /\ lag' \in Nat
    <3>1. queue \in Seq(Ticks \cup Statuses)
      BY <1>1 DEF TypeOK
    <3>2. QED
      BY <1>2, <2>2, <2>3, <3>1 DEF Tick, Silence, Grows
  <2>5. QED
    BY <1>1, <2>4 DEF TypeOK, api, engine, device, observed
<1>3. ASSUME LinkChanges PROVE TypeOK' /\ UNCHANGED <<engine, observed>>
  <2>1. UNCHANGED <<api, engine, output, low, count, busy, observed>>
        /\ queue' \in Seq(Ticks \cup Statuses) /\ lag' \in Nat
        /\ link' \in BOOLEAN /\ posted' \in BOOLEAN
    BY <1>1, <1>3, LinkTold DEF LinkChanges, TypeOK
  <2>2. QED
    BY <1>1, <2>1 DEF TypeOK, api, engine, observed
<1>4. QED
  BY <1>2, <1>3, AroundTheEngine

\* The rules are loaded again: a rule that is off is fresh, one that is on keeps its
\* state, and has a past unless that was fresh.
LEMMA ReloadStep ==
  ASSUME RuleInv, Reload
  PROVE  RuleInv'
<1> USE DEF RuleInv
<1>1. /\ ~firing /\ ~firing' /\ cached' = stored /\ cached' \in Row
      /\ linkUp' = linkUp /\ onTime' = onTime
  BY DEF Reload, TypeOK
<1>2. TypeOK'
  <2>1. UNCHANGED <<api, linkUp, firing, device, stream, onTime, told>> /\ cached' \in Row
    BY <1>1 DEF Reload
  <2>2. /\ st' \in RuleState /\ good' \in BOOLEAN /\ seen' \in 0 .. Need /\ drawn' \in Counts
        /\ spent' \in BOOLEAN /\ past' \in SUBSET {"run", "fired", "edited"}
    <3>1. CASE Enabled(stored)
      BY <3>1 DEF Reload, TypeOK
    <3>2. CASE ~Enabled(stored)
      <4>1. st' = Fresh /\ good' = FALSE /\ seen' = 0 /\ drawn' = Zero /\ spent' = FALSE
            /\ past' = {}
        BY <3>2 DEF Reload, Forget
      <4>2. QED
        BY <4>1, FreshType, NothingObserved
    <3>3. QED
      BY <3>1, <3>2
  <2>3. QED
    BY <2>1, <2>2 DEF TypeOK, api, device, stream
<1>3. Fresh.holding = FALSE /\ Fresh.haveBaseline = FALSE /\ Fresh.awaitingOff = FALSE
  BY DEF Fresh
<1>4. st' = Fresh \/ past' # {}
  BY DEF Reload
<1>5. UnwatchedIsFresh'
  BY <1>1 DEF Reload, UnwatchedIsFresh, Enabled
<1>6. QED
  BY <1>1, <1>2, <1>3, <1>4, <1>5
  DEF ArmedUntilFired, WindowObserved, BaselineObserved, CountersObserved, FiresAsAsked

\* The link came up or went down: the rules begin afresh.
LEMMA HandleStatusStep ==
  ASSUME RuleInv, HandleStatus
  PROVE  RuleInv'
<1> USE DEF RuleInv
<1>1. st' = Fresh /\ ~firing'
  BY DEF HandleStatus
<1>2. TypeOK'
  <2>1. /\ UNCHANGED <<api, cached, firing, device, lag, posted, told>>
        /\ st' = Fresh /\ good' = FALSE /\ seen' = 0 /\ onTime' = 0 /\ past' = {}
        /\ drawn' = Zero /\ spent' = FALSE
    BY DEF HandleStatus, Forget
  <2>2. Head(queue) \in Statuses /\ Tail(queue) \in Seq(Ticks \cup Statuses)
    BY QueueTypes DEF HandleStatus
  <2>3. linkUp' \in BOOLEAN /\ queue' \in Seq(Ticks \cup Statuses)
    BY <2>2 DEF HandleStatus, Statuses
  <2>4. QED
    <3>1. /\ st' \in RuleState /\ good' \in BOOLEAN /\ seen' \in 0 .. Need
          /\ onTime' \in 0 .. Limit + 1 /\ past' \in SUBSET {"run", "fired", "edited"}
          /\ drawn' \in Counts /\ spent' \in BOOLEAN
      BY <2>1, FreshType, NothingObserved
    <3>2. QED
      BY <2>1, <2>3, <3>1 DEF TypeOK, api, device
<1>3. Fresh.holding = FALSE /\ Fresh.haveBaseline = FALSE /\ Fresh.awaitingOff = FALSE
  BY DEF Fresh
<1>4. QED
  BY <1>1, <1>2, <1>3
  DEF UnwatchedIsFresh, ArmedUntilFired, WindowObserved, BaselineObserved, CountersObserved, FiresAsAsked

\* The rule has fired: whether or not the output could be switched off, it has a past.
LEMMA FiredStep ==
  ASSUME RuleInv, CutOutput \/ CutFails
  PROVE  RuleInv'
<1> USE DEF RuleInv
<1>1. /\ UNCHANGED <<api, cached, st, linkUp, low, count, busy, onTime, told, drawn>> /\ ~firing'
      /\ seen' = 0 /\ good' = FALSE /\ spent' = TRUE /\ past' = past \cup {"fired"}
  BY DEF CutOutput, CutFails, UseUp
<1>2. TypeOK'
  <2>1. /\ queue' \in Seq(Ticks \cup Statuses) /\ lag' \in Nat
        /\ link' \in BOOLEAN /\ posted' \in BOOLEAN /\ output' \in BOOLEAN
    <3>1. CASE Link(FALSE) /\ CutFails
      BY <3>1, LinkTold DEF CutFails, TypeOK
    <3>2. CASE UNCHANGED <<link, stream>> /\ (CutOutput \/ CutFails)
      BY <3>2 DEF CutOutput, CutFails, TypeOK, stream
    <3>3. QED
      BY <3>1, <3>2 DEF CutOutput, CutFails, stream
  <2>4. QED
    <3>1. /\ good' \in BOOLEAN /\ spent' \in BOOLEAN /\ firing' \in BOOLEAN /\ seen' \in 0 .. Need
          /\ past' \in SUBSET {"run", "fired", "edited"}
      <4>1. firing' = FALSE /\ past \in SUBSET {"run", "fired", "edited"}
        BY DEF TypeOK, CutOutput, CutFails
      <4>2. QED
        BY <1>1, <4>1, NothingObserved
    <3>2. QED
      BY <1>1, <2>1, <3>1 DEF TypeOK, api
<1>3. QED
  BY <1>1, <1>2
  DEF UnwatchedIsFresh, ArmedUntilFired, WindowObserved, BaselineObserved, CountersObserved, FiresAsAsked, Enabled

(***************************************************************************)
(* The specification.                                                      *)
(***************************************************************************)
LEMMA RuleInit == Init => RuleInv
<1> SUFFICES ASSUME Init PROVE RuleInv
  OBVIOUS
<1>1. Rows \subseteq Row /\ NoRow \in Row
  BY DEF Rows, Row, NoRow, Conditions, Scopes
<1>2. stored \in Row /\ cached \in Row /\ edit \in Row /\ queue \in Seq(Ticks \cup Statuses)
  BY <1>1 DEF Init
<1>3. TypeOK
  <2>1. /\ st \in RuleState /\ good \in BOOLEAN /\ seen \in 0 .. Need
        /\ onTime \in 0 .. Limit + 1 /\ past \in SUBSET {"run", "fired", "edited"}
        /\ requests \in Nat /\ lag \in Nat /\ posted \in BOOLEAN /\ spent \in BOOLEAN
        /\ count \in Counts /\ told \in Counts /\ drawn \in Counts
    BY FreshType, NothingObserved DEF Init
  <2>2. QED
    BY <1>2, <2>1 DEF Init, TypeOK
<1>4. QED
  BY <1>3
  DEF Init, Fresh, RuleInv, UnwatchedIsFresh, ArmedUntilFired, WindowObserved, BaselineObserved,
      CountersObserved, FiresAsAsked

LEMMA RuleStep == RuleInv /\ [Next]_vars => RuleInv'
<1> SUFFICES ASSUME RuleInv, [Next]_vars PROVE RuleInv'
  OBVIOUS
<1>1. CASE Next
  BY <1>1, SettingStep, PublishStep, ReloadStep, HandleStatusStep, HandleTickStep, FiredStep
  DEF Next, Engine
<1>2. CASE UNCHANGED vars
  <2>1. UNCHANGED <<engine, observed>> /\ TypeOK'
    BY <1>2 DEF RuleInv, TypeOK, vars, engine, observed
  <2>2. QED
    BY <2>1, AroundTheEngine
<1>3. QED
  BY <1>1, <1>2

\* The types of the rule, of the engine's state of it, of the hub's updates and of what
\* was observed.
THEOREM TypeCorrect == Spec => []TypeOK
<1>1. RuleInv => TypeOK
  BY DEF RuleInv
<1>2. QED
  BY <1>1, RuleInit, RuleStep, PTL DEF Spec

\* A rule switches the output off only when its condition was observed long enough with
\* the output on, in this period of it for scope=session, whatever ticks were dropped,
\* reloads and changes of the link came in between: its windows and baselines are never
\* older than what was observed since its state was fresh.
THEOREM RuleFiresAsAsked == Spec => []FiresAsAsked
<1>1. RuleInv => FiresAsAsked
  BY DEF RuleInv
<1>2. QED
  BY <1>1, RuleInit, RuleStep, PTL DEF Spec
=============================================================================
