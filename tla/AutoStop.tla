------------------------------ MODULE AutoStop ------------------------------
(***************************************************************************)
(* The auto-stop rules and their engine (storage/automation.go,            *)
(* api/automation.go, automation/engine.go).  It is one goroutine that     *)
(* takes the hub's updates from its buffered channel, one by one, and      *)
(* switches the output off when a rule's condition has held long enough.   *)
(* Rules do not see each other, so there is one, of any of the four kinds, *)
(* which the API creates, edits and deletes.  Time is counted in telemetry *)
(* periods, and only as far as the rule can tell: what the code computes   *)
(* from timestamps is an age that stops growing where it makes no          *)
(* difference any more.                                                    *)
(*                                                                         *)
(* The last group of variables is not in the code: it records what was     *)
(* observed, against which the properties measure the rule.                *)
(***************************************************************************)
EXTENDS Naturals, Sequences

CONSTANTS
  Need,        \* currentBelow.forSeconds, in telemetry periods
  Limit,       \* elapsedAbove.seconds
  Amount,      \* capacityAbove.ah and energyAbove.wh
  QueueSize,   \* bound: updates in the subscriber's buffer (64 in the hub)
  MaxRequests, \* bound: edits and deletions of the rule
  MaxCount     \* bound: what the device's counters show

ASSUME TimesAssumption ==
  /\ Need \in Nat \ {0} /\ Limit \in Nat /\ QueueSize \in Nat \ {0}
  /\ Amount \in Nat /\ MaxRequests \in Nat /\ MaxCount \in Nat

VARIABLES
  stored,    \* its row: "none" so far, "on", "off" or "gone"; its condition and scope
  edit,      \* what a PUT that has found the row will save
  requests,  \* the bounded ones, so far
  cached,    \* the row in Engine.rules
  st,        \* its ruleState
  linkUp,    \* Engine.linkUp
  firing,    \* the engine is in trigger
  link,      \* Hub: connected
  output,    \* the device's output
  low,       \* the current is below the threshold
  count,     \* its counters of capacity and of energy
  busy,      \* Interlock.Busy(): a run owns the output
  queue,     \* updates published and not taken yet
  lag,       \* periods since the last tick that found room there
  posted,    \* what the last change of the link that found room there said
  good,      \* the last tick was evaluated and the condition held
  seen,      \* time observed with the condition true and the output on
  onTime,    \* age of the output-on period
  told,      \* the counters at the last tick
  drawn,     \* what the ticks showed to be drawn, in this period for scope=session
  spent,     \* it has fired, and evaluated no tick with the output off since
  past       \* of "run", "fired" and "edited", what happened since the state was fresh

api == <<stored, edit, requests>>
engine == <<cached, st, linkUp, firing>>
device == <<link, output, low, count, busy>>
stream == <<queue, lag, posted>>
observed == <<good, seen, onTime, told, drawn, spent, past>>
vars == <<stored, edit, requests, cached, st, linkUp, firing, link, output, low, count, busy,
          queue, lag, posted, good, seen, onTime, told, drawn, spent, past>>

Counters == {"capacityAbove", "energyAbove"}
Conditions == {"currentBelow", "elapsedAbove"} \cup Counters
Scopes == {"session", "always"}
Rows == [state : {"on", "off"}, type : Conditions, scope : Scopes]
NoRow == [state |-> "none", type |-> "currentBelow", scope |-> "session"]

Cap(n, top) == IF n > top THEN top ELSE n

Zero == [k \in Counters |-> 0]

\* held and elapsed are the ages of heldSince and sessionStart; gap is offSince, base are
\* baseCapacity and baseEnergy.
Fresh == [awaitingOff |-> FALSE, haveBaseline |-> FALSE, elapsed |-> 0, base |-> Zero,
          holding |-> FALSE, held |-> 0, gap |-> FALSE]

Init ==
  /\ stored \in Rows \cup {NoRow} /\ cached = stored
  /\ edit = NoRow /\ requests = 0
  /\ st = Fresh
  /\ linkUp = TRUE /\ link = TRUE
  /\ firing = FALSE
  /\ output \in BOOLEAN /\ low \in BOOLEAN
  /\ count = Zero /\ busy = FALSE
  /\ queue = <<>> /\ lag = 0 /\ posted = TRUE
  /\ good = FALSE /\ seen = 0 /\ onTime = 0 /\ told = Zero /\ drawn = Zero
  /\ spent = FALSE /\ past = {}

(***************************************************************************)
(* Around the engine: the device, its load, the user and runs.             *)
(***************************************************************************)
LoadChanges ==
  /\ low' = ~low
  /\ UNCHANGED <<api, engine, link, output, count, busy, stream, observed>>

\* The device counts what it delivers.
Deliver(k) ==
  /\ output /\ count[k] < MaxCount
  /\ count' = [count EXCEPT ![k] = @ + 1]
  /\ UNCHANGED <<api, engine, link, output, low, busy, stream, observed>>

\* Its counters restart with it, its link being down.
PowerCycle ==
  /\ ~link
  /\ output' = FALSE /\ count' = Zero
  /\ UNCHANGED <<api, engine, link, low, busy, stream, observed>>

\* A command, or the panel of the device.
Switch ==
  /\ output' = ~output
  /\ UNCHANGED <<api, engine, link, low, count, busy, stream, observed>>

RunStartsOrEnds ==
  /\ busy' = ~busy
  /\ UNCHANGED <<api, engine, link, output, low, count, stream, observed>>

(***************************************************************************)
(* The API.  A rule that is created again is another rule, and nothing is  *)
(* known of it in the engine.                                              *)
(***************************************************************************)
Request == requests < MaxRequests /\ requests' = requests + 1

\* createAutomationRule, of a body that parseAutomationRule and Validate accept.
CreateRule(r) ==
  /\ stored.state = "none"
  /\ stored' = r
  /\ UNCHANGED <<edit, requests, engine, device, stream, observed>>

\* updateAutomationRule: UpdateAutomationRule finds the row ...
OpenEdit(r) ==
  /\ Request /\ edit = NoRow /\ stored.state \in {"on", "off"}
  /\ edit' = r
  /\ UNCHANGED <<stored, engine, device, stream, observed>>

\* ... and saves all of it, in no transaction: a row deleted in between is back.
SaveEdit ==
  /\ edit # NoRow
  /\ stored' = edit
  /\ edit' = NoRow
  /\ UNCHANGED <<requests, engine, device, stream, observed>>

\* deleteAutomationRule
DeleteRule ==
  /\ Request /\ stored.state \in {"on", "off"}
  /\ stored' = [stored EXCEPT !.state = "gone"]
  /\ UNCHANGED <<edit, engine, device, stream, observed>>

(***************************************************************************)
(* The hub.  A subscriber whose buffer is full misses the update, whatever *)
(* it is (Hub.broadcastLocked).                                            *)
(***************************************************************************)
Room == Len(queue) < QueueSize

Grows == lag' = Cap(lag + 1, Need + Limit)

Tick ==
  /\ link
  /\ IF Room
     THEN /\ queue' = Append(queue, [kind |-> "tick", on |-> output, low |-> low,
                                    count |-> count, dt |-> lag + 1])
          /\ lag' = 0
     ELSE Grows /\ UNCHANGED queue
  /\ UNCHANGED <<api, engine, device, posted, observed>>

\* Nor is there a tick while the link is down.
Silence ==
  /\ ~link
  /\ Grows
  /\ UNCHANGED <<api, engine, device, queue, posted, observed>>

\* The link comes or goes, and the subscriber is told of it if there is room.
Link(up) ==
  /\ link' = up
  /\ IF Room
     THEN queue' = Append(queue, [kind |-> "status", up |-> up]) /\ lag' = 0 /\ posted' = up
     ELSE UNCHANGED stream

LinkChanges ==
  /\ Link(~link)
  /\ UNCHANGED <<api, engine, output, low, count, busy, observed>>

(***************************************************************************)
(* The engine.                                                             *)
(***************************************************************************)
\* Forget what was observed with the progress it was for.
Forget == good' = FALSE /\ seen' = 0 /\ drawn' = Zero /\ spent' = FALSE /\ past' = {}

Enabled(row) == row.state = "on"

\* Mutant: what the cache held of a rule that is not in the list stays.
ReloadMerging ==
  /\ ~firing /\ cached # stored
  /\ cached' = IF stored.state = "gone" THEN [stored EXCEPT !.state = cached.state] ELSE stored
  /\ st' = IF Enabled(stored) THEN st ELSE Fresh
  /\ UNCHANGED <<api, linkUp, firing, device, stream, observed>>

\* reload: a rule that is gone or disabled loses its state; one that was edited keeps
\* it.  It may fail.
Reload ==
  /\ ~firing /\ cached # stored
  /\ cached' = stored
  /\ IF Enabled(stored)
     THEN /\ past' = IF st # Fresh THEN past \cup {"edited"} ELSE past
         /\ UNCHANGED <<st, good, seen, drawn, spent>>
     ELSE st' = Fresh /\ Forget
  /\ UNCHANGED <<api, linkUp, firing, device, stream, onTime, told>>

\* handleStatus
HandleStatus ==
  /\ ~firing /\ queue # <<>> /\ Head(queue).kind = "status"
  /\ linkUp' = Head(queue).up
  /\ st' = Fresh
  /\ queue' = Tail(queue)
  /\ Forget
  /\ onTime' = 0
  /\ UNCHANGED <<api, cached, firing, device, lag, posted, told>>

\* conditionHolds
Holds(s, tick) ==
  \/ cached.type = "currentBelow" /\ tick.low
  \/ cached.type = "elapsedAbove" /\ s.elapsed > Limit
  \/ cached.type \in Counters /\ tick.count[cached.type] > s.base[cached.type] + Amount

\* The ages at a tick.  That of the window stops during a gap.
Aged(dt) ==
  [st EXCEPT !.elapsed = IF st.haveBaseline THEN Cap(@ + dt, Limit + 1) ELSE 0,
             !.held = IF st.holding /\ ~st.gap THEN Cap(@ + dt, Need) ELSE @]

\* The baseline of a rule is the first tick that is evaluated with the output on.
Based(s, tick) ==
  IF s.haveBaseline THEN s ELSE [s EXCEPT !.haveBaseline = TRUE, !.base = tick.count]

\* evaluate, while the output is on.
OnTick(s, tick) ==
  LET base == Based(s, tick)
  IN IF s.awaitingOff THEN s
     ELSE IF ~Holds(base, tick) THEN [base EXCEPT !.holding = FALSE, !.gap = FALSE]
     ELSE [base EXCEPT !.holding = TRUE, !.held = IF s.holding THEN @ ELSE 0, !.gap = FALSE]

\* Mutant: a session's progress survives the output being off.
OffTickKeeping(s) == [s EXCEPT !.awaitingOff = FALSE, !.gap = s.holding]

\* Mutant: a rule that keeps its progress keeps waiting, too.
OffTickLatched(s) == IF cached.scope = "session" THEN Fresh ELSE [s EXCEPT !.gap = s.holding]

\* evaluate, while it is off.
OffTick(s) ==
  IF cached.scope = "session" THEN Fresh ELSE [s EXCEPT !.awaitingOff = FALSE, !.gap = s.holding]

\* currentBelow alone has a duration; the others fire when they are crossed.
Fires(s, tick) ==
  /\ tick.on /\ ~s.awaitingOff
  /\ Holds(Based(s, tick), tick)
  /\ cached.type = "currentBelow" => s.holding /\ s.held >= Need

\* What a tick shows to be drawn since the one before: a counter that went back has
\* restarted.
Drawn(tick, k) == IF tick.count[k] >= told[k] THEN tick.count[k] - told[k] ELSE tick.count[k]

\* handleTelemetry and evaluate.
HandleTick ==
  /\ ~firing /\ queue # <<>> /\ Head(queue).kind = "tick"
  /\ LET tick == Head(queue)
         s == Aged(tick.dt)
         evaluated == linkUp /\ ~busy /\ Enabled(cached)
     IN /\ st' = IF ~evaluated THEN s
                 ELSE IF ~tick.on THEN OffTick(s)
                 ELSE [OnTick(s, tick) EXCEPT !.awaitingOff = @ \/ Fires(s, tick)]
        /\ firing' = (evaluated /\ Fires(s, tick))
        /\ good' = (evaluated /\ tick.on /\ tick.low)
        /\ seen' = IF (tick.on /\ ~tick.low) \/ (~tick.on /\ cached.scope = "session") THEN 0
                   ELSE IF good THEN Cap(seen + tick.dt, Need) ELSE seen
        /\ onTime' = IF ~tick.on THEN 0 ELSE Cap(onTime + tick.dt, Limit + 1)
        /\ drawn' = IF st = Fresh \/ (~tick.on /\ cached.scope = "session") THEN Zero
                    ELSE [k \in Counters |-> Cap(drawn[k] + Drawn(tick, k), Amount + 1)]
        /\ told' = tick.count
        /\ spent' = (spent /\ ~(evaluated /\ ~tick.on))
        /\ past' = IF st' = Fresh THEN {} ELSE IF busy THEN past \cup {"run"} ELSE past
  /\ queue' = Tail(queue)
  /\ UNCHANGED <<api, cached, linkUp, device, lag, posted>>

\* Measured again from here.
UseUp ==
  /\ seen' = 0 /\ good' = FALSE /\ spent' = TRUE /\ past' = past \cup {"fired"}
  /\ UNCHANGED <<onTime, told, drawn>>

\* trigger: SetOutput(false) goes through whoever owns the output by then ...
CutOutput ==
  /\ firing /\ link
  /\ output' = FALSE
  /\ firing' = FALSE
  /\ UseUp
  /\ UNCHANGED <<api, cached, st, linkUp, link, low, count, busy, stream>>

\* ... or fails, with the link or without it, whether the device was reached or not; the
\* rule waits for an off tick all the same.
CutFails ==
  /\ firing
  /\ \/ ~link /\ UNCHANGED <<link, output, stream>>
     \/ link /\ output' \in {output, FALSE} /\ (Link(FALSE) \/ UNCHANGED <<link, stream>>)
  /\ firing' = FALSE
  /\ UseUp
  /\ UNCHANGED <<api, cached, st, linkUp, low, count, busy>>

(***************************************************************************)
(* The specification.                                                      *)
(***************************************************************************)
Engine == Reload \/ HandleStatus \/ HandleTick \/ CutOutput \/ CutFails

Next ==
  \/ LoadChanges \/ Switch \/ RunStartsOrEnds
  \/ PowerCycle \/ \E k \in Counters : Deliver(k)
  \/ \E r \in Rows : CreateRule(r) \/ OpenEdit(r)
  \/ SaveEdit \/ DeleteRule
  \/ Tick \/ Silence \/ LinkChanges
  \/ Engine

Spec == Init /\ [][Next]_vars

\* Ticks come at 2 Hz while the link is up and the goroutine takes them from its
\* channel.  Its select is between them and the ticker that reloads the rules, and
\* picks at random: the ticker is not passed over for ever.
Fairness ==
  /\ WF_vars(Tick) /\ SF_vars(Reload)
  /\ WF_vars(HandleStatus \/ HandleTick \/ CutOutput \/ CutFails)
FairSpec == Spec /\ Fairness
------------------------------------------------------------------------------
(***************************************************************************)
(* Properties.                                                             *)
(***************************************************************************)
\* When a rule fires, its condition was observed long enough with the output on, in
\* this period of it for scope=session, and what it is to count was drawn: unless a run
\* owned the device in between, the rule has fired before and its state was kept, or it
\* was edited while it held.  The time between two ticks with the condition true counts
\* as observed, also when the updates lost between them were of a link that went and came.
FiresAsAsked ==
  firing /\ past = {} =>
    /\ cached.type = "currentBelow" => seen >= Need
    /\ cached.type = "elapsedAbove" /\ cached.scope = "session" => onTime > Limit
    /\ cached.type \in Counters => drawn[cached.type] > Amount

\* What a rule asks for is there, on an output that is on, and so is the link.
Met(type) ==
  /\ type = "currentBelow" => low
  /\ type \in Counters /\ st.haveBaseline => count[type] > st.base[type] + Amount
Held == Enabled(stored) /\ link /\ ~busy /\ output /\ Met(stored.type)

\* A rule whose condition stays, on an output that stays on, does not wait for ever, it
\* fires: unless its engine was never told that the link is back, because the update met a
\* full buffer, or the rule has fired before and no tick has shown it the output off since,
\* because its cut failed, or the ticks were lost or came in a run (handleStatus, evaluate).
ArmedRuleFires == ~<>[](Held /\ posted /\ ~spent)

\* A rule that was disabled or deleted, for good, fires no more once the engine has
\* reloaded, even if an edit that raced the deletion put it back and off.
GoneIsQuiet == <>[]~Enabled(stored) => <>[]~firing
=============================================================================
