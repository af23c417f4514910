----------------------- MODULE OutputOwnership_proofs -----------------------
(***************************************************************************)
(* Theorems about OutputOwnership, for any number of calls and operators,  *)
(* any faults and any bounds.                                              *)
(***************************************************************************)
EXTENDS OutputOwnership, SequenceTheorems, TLAPS

USE CallsAssumption, BoundsAssumption DEF CallsAssumption, BoundsAssumption

\* The part of the type invariant that commands and the link can disturb.
WorldTypeOK ==
  /\ link \in {"down", "opening", "up"}
  /\ frozen \in BOOLEAN
  /\ rx \in Seq(Report)
  /\ asked \in BOOLEAN
  /\ seen \in BOOLEAN /\ volt \in BOOLEAN
  /\ lit \in Engine \cup {"none", "crash", "manual"}
  /\ armed \subseteq Reg
  /\ faults \in 0 .. MaxFaults

\* Wire, a hub command, leaves link, caches and device within their types.
LEMMA WireTypes ==
  ASSUME TypeOK,
         NEW res \in Result,
         NEW l \in Engine \cup {"none", "crash", "manual"},
         NEW a \in SUBSET Reg,
         Wire(res, l, a)
  PROVE  WorldTypeOK'
<1>1. CASE res = "nil" /\ link = "up"
  BY <1>1 DEF TypeOK, WorldTypeOK, Wire, Executed, deviceVars, cacheVars
<1>2. CASE res = "err" /\ link = "up"
  <2>1. Fault("drop") /\ Down
    BY <1>2 DEF Wire
  <2>2. faults' \in 0 .. MaxFaults
    BY <2>1 DEF Fault, TypeOK
  <2>3. rx' \in Seq(Report)
    BY <2>1, EmptySeq DEF Down
  <2>4. QED
    BY <1>2, <2>1, <2>2, <2>3 DEF TypeOK, WorldTypeOK, Wire, Executed, Down, deviceVars, cacheVars
<1>3. CASE res = "err" /\ link # "up"
  BY <1>3 DEF TypeOK, WorldTypeOK, Wire, deviceVars, cacheVars
<1>4. QED
  BY <1>1, <1>2, <1>3 DEF Wire

\* So does Abandoned, a command cut short by its context.
LEMMA AbandonedTypes ==
  ASSUME TypeOK,
         NEW l \in Engine \cup {"none", "crash", "manual"},
         NEW a \in SUBSET Reg,
         Abandoned(l, a)
  PROVE  WorldTypeOK'
  BY EmptySeq DEF TypeOK, WorldTypeOK, Abandoned, Executed, Down, deviceVars, cacheVars

\* And a step that touches none of it.
LEMMA QuietTypes ==
  ASSUME TypeOK, Quiet
  PROVE  WorldTypeOK'
  BY DEF TypeOK, WorldTypeOK, Quiet, wireVars, deviceVars, cacheVars

\* Every engine tag is an engine.
LEMMA TagInEngine ==
  ASSUME NEW k \in Kind
  PROVE  Tag(k) \in Engine
  BY DEF Kind, Tag, Engine

\* The initial states are of the declared types.
LEMMA TypeInit == Init => TypeOK
<1> SUFFICES ASSUME Init PROVE TypeOK
  OBVIOUS
<1>1. pc \in [Calls -> Loc] /\ kind \in [Calls -> Kind]
  BY DEF Init, Loc, Kind, Engine
<1>2. try \in [Calls -> 1 .. Tries] /\ faults \in 0 .. MaxFaults
  BY DEF Init
<1>3. rx \in Seq(Report)
  BY EmptySeq DEF Init
<1>4. QED
  BY <1>1, <1>2, <1>3 DEF Init, TypeOK

CallWorldTypeOK == WorldTypeOK /\ try \in [Calls -> 1 .. Tries] /\ pc \in [Calls -> Loc]

\* An attempt of SafeOutputOff keeps them too, and its counter within the limit.
LEMMA OffTypes ==
  ASSUME TypeOK, NEW c \in Calls, NEW next \in Loc, NEW err \in BOOLEAN,
         OffAttempt(c, next, err)
  PROVE  CallWorldTypeOK'
<1>1. PICK res \in Result : Wire(res, "none", armed)
                          /\ IF res = "err" /\ try[c] < Tries
                             THEN ~err /\ try' = [try EXCEPT ![c] = @ + 1] /\ UNCHANGED pc
                             ELSE err = (res = "err") /\ try' = [try EXCEPT ![c] = 1]
                                  /\ Goto(c, next)
  BY DEF OffAttempt
<1>2. WorldTypeOK'
  BY <1>1, WireTypes DEF TypeOK
<1>3. try \in [Calls -> 1 .. Tries] /\ pc \in [Calls -> Loc] /\ Tries \in Nat \ {0}
  BY BoundsAssumption DEF TypeOK
<1>4. try' \in [Calls -> 1 .. Tries] /\ pc' \in [Calls -> Loc]
  <2>1. CASE res = "err" /\ try[c] < Tries
    <3>1. try[c] + 1 \in 1 .. Tries
      BY <1>3, <2>1
    <3>2. QED
      BY <1>1, <1>3, <2>1, <3>1
  <2>2. CASE ~(res = "err" /\ try[c] < Tries)
    <3>1. 1 \in 1 .. Tries
      BY <1>3
    <3>2. QED
      BY <1>1, <1>3, <2>2, <3>1 DEF Goto
  <2>3. QED
    BY <2>1, <2>2
<1>5. QED
  BY <1>2, <1>4 DEF CallWorldTypeOK

\* Every step keeps the types.
LEMMA TypeStep == TypeOK /\ [Next]_vars => TypeOK'
<1> SUFFICES ASSUME TypeOK, [Next]_vars PROVE TypeOK'
  OBVIOUS
<1> USE DEF slotVars, callVars, historyVars, Goto, Loc, HoldLoc, StartLoc, RunLoc,
            LeaveLoc, Reg, Result, Free
<1>1. ASSUME NEW c \in Calls, CallStep(c) PROVE TypeOK'
  <2>1. CASE \E k \in Kinds : Begin(c, k)
    <3>1. PICK k \in Kinds : Begin(c, k)
      BY <2>1
    <3>2. k \in Kind
      BY DEF Kind
    <3>3. WorldTypeOK'
      BY <3>1 DEF Begin, TypeOK, WorldTypeOK, wireVars, cacheVars
    <3>4. QED
      BY <3>1, <3>2, <3>3, TagInEngine DEF Begin, Acquire, TypeOK, WorldTypeOK
  <2>2. CASE RunWrite(c)
    <3>1. WorldTypeOK'
      BY <2>2, WireTypes, AbandonedTypes DEF RunWrite, TypeOK
    <3>2. QED
      BY <2>2, <3>1, ZenonT(60) DEF RunWrite, TypeOK, WorldTypeOK
  <2>3. CASE RunEnds(c)
    <3>1. WorldTypeOK'
      BY <2>3, QuietTypes DEF RunEnds
    <3>2. QED
      BY <2>3, <3>1 DEF RunEnds, TypeOK, WorldTypeOK
  <2>4. CASE Claimed(c)
    <3>1. WorldTypeOK'
      BY <2>4, QuietTypes DEF Claimed
    <3>2. active' \in [Engine -> Calls \cup {None}]
      <4>1. CASE active' = active
        BY <4>1 DEF TypeOK
      <4>2. CASE active' = [active EXCEPT !["sequence"] = c]
        BY <4>2 DEF TypeOK
      <4>3. QED
        BY <2>4, <4>1, <4>2 DEF Claimed
    <3>3. QED
      BY <2>4, <3>1, <3>2, ZenonT(60) DEF Claimed, TypeOK, WorldTypeOK
  <2>5. CASE Probe(c)
    <3>1. WorldTypeOK'
      BY <2>5, QuietTypes DEF Probe
    <3>2. QED
      BY <2>5, <3>1 DEF Probe, TypeOK, WorldTypeOK
  <2>6. CASE Darken(c)
    <3>1. WorldTypeOK'
      BY <2>6, WireTypes, QuietTypes DEF Darken, TypeOK
    <3>2. QED
      BY <2>6, <3>1, ZenonT(60) DEF Darken, TypeOK, WorldTypeOK
  <2>7. CASE Settle(c)
    <3>1. WorldTypeOK'
      BY <2>7, QuietTypes DEF Settle
    <3>2. QED
      BY <2>7, <3>1, ZenonT(60) DEF Settle, TypeOK, WorldTypeOK
  <2>8. CASE Arm(c)
    <3>1. WorldTypeOK'
      BY <2>8, WireTypes, QuietTypes, ZenonT(60) DEF Arm, TypeOK
    <3>2. QED
      BY <2>8, <3>1 DEF Arm, TypeOK, WorldTypeOK
  <2>9. CASE Energize(c)
    <3>1. WorldTypeOK'
      BY <2>9, TagInEngine, WireTypes, AbandonedTypes, QuietTypes DEF Energize, TypeOK
    <3>2. QED
      BY <2>9, TagInEngine, <3>1, ZenonT(60) DEF Energize, TypeOK, WorldTypeOK, Unwind
  <2>10. CASE Refresh(c)
    <3>1. WorldTypeOK'
      BY <2>10, WireTypes, AbandonedTypes, QuietTypes DEF Refresh, TypeOK
    <3>2. QED
      BY <2>10, <3>1, ZenonT(60) DEF Refresh, TypeOK, WorldTypeOK, Unwind
  <2>11. CASE Publish(c)
    <3>1. WorldTypeOK'
      BY <2>11, QuietTypes DEF Publish
    <3>2. QED
      BY <2>11, <3>1 DEF Publish, TypeOK, WorldTypeOK
  <2>12. CASE Cut(c)
    <3>1. PICK err \in BOOLEAN :
            /\ OffAttempt(c, IF err \/ kind[c] = "sequence" THEN "clear" ELSE "subscribe", err)
            /\ failed' = [failed EXCEPT ![c] = err /\ kind[c] # "sequence"]
      BY <2>12 DEF Cut
    <3>2. CallWorldTypeOK'
      BY <3>1, OffTypes
    <3>3. failed' \in [Calls -> BOOLEAN]
      BY <3>1 DEF TypeOK
    <3>4. QED
      BY <2>12, <3>2, <3>3 DEF Cut, TypeOK, CallWorldTypeOK, WorldTypeOK
  <2>13. CASE Subscribe(c)
    <3>1. WorldTypeOK'
      BY <2>13, WireTypes, QuietTypes DEF Subscribe, TypeOK
    <3>2. QED
      BY <2>13, <3>1 DEF Subscribe, TypeOK, WorldTypeOK
  <2>14. CASE Confirm(c)
    <3>1. WorldTypeOK'
      BY <2>14, QuietTypes DEF Confirm
    <3>2. QED
      BY <2>14, <3>1 DEF Confirm, TypeOK, WorldTypeOK
  <2>15. CASE Clear(c)
    <3>1. WorldTypeOK'
      BY <2>15, QuietTypes DEF Clear
    <3>2. QED
      BY <2>15, <3>1 DEF Clear, TypeOK, WorldTypeOK
  <2>16. CASE Finish(c)
    <3>1. WorldTypeOK'
      BY <2>16, QuietTypes DEF Finish
    <3>2. QED
      BY <2>16, <3>1 DEF Finish, TypeOK, WorldTypeOK, Release
  <2>17. CASE Announce(c)
    <3>1. WorldTypeOK'
      BY <2>17, QuietTypes DEF Announce
    <3>2. QED
      BY <2>17, <3>1 DEF Announce, TypeOK, WorldTypeOK
  <2>18. CASE Unset(c)
    <3>1. WorldTypeOK'
      BY <2>18, QuietTypes DEF Unset
    <3>2. QED
      BY <2>18, <3>1 DEF Unset, TypeOK, WorldTypeOK
  <2>19. CASE Abort(c)
    <3>1. CallWorldTypeOK'
      BY <2>19, OffTypes DEF Abort
    <3>2. QED
      BY <2>19, <3>1 DEF Abort, TypeOK, CallWorldTypeOK, WorldTypeOK
  <2>20. CASE Leave(c)
    <3>1. WorldTypeOK'
      BY <2>20, QuietTypes DEF Leave
    <3>2. QED
      BY <2>20, <3>1 DEF Leave, TypeOK, WorldTypeOK, Release
  <2>21. CASE WatchDecide(c)
    <3>1. WorldTypeOK'
      BY <2>21, QuietTypes DEF WatchDecide
    <3>2. Tag(kind[c]) \in Engine
      BY TagInEngine DEF TypeOK
    <3>3. kind' \in [Calls -> Kind] /\ owner' \in Engine \cup {Free}
      BY <2>21, <3>2 DEF WatchDecide, Acquire, TypeOK
    <3>4. QED
      BY <2>21, <3>1, <3>3, ZenonT(60) DEF WatchDecide, TypeOK, WorldTypeOK, Acquire
  <2>22. CASE WatchGivesUp(c)
    <3>1. WorldTypeOK'
      BY <2>22, QuietTypes DEF WatchGivesUp
    <3>2. QED
      BY <2>22, <3>1 DEF WatchGivesUp, TypeOK, WorldTypeOK
  <2>23. CASE StrayCut(c)
    <3>1. CallWorldTypeOK'
      BY <2>23, OffTypes DEF StrayCut
    <3>2. QED
      BY <2>23, <3>1 DEF StrayCut, TypeOK, CallWorldTypeOK, WorldTypeOK
  <2>24. QED
    BY <1>1, <2>1, <2>2, <2>3, <2>4, <2>5, <2>6, <2>7, <2>8, <2>9, <2>10, <2>11, <2>12, <2>13, <2>14, <2>15, <2>16, <2>17, <2>18, <2>19, <2>20, <2>21, <2>22, <2>23 DEF CallStep, Advance
<1>2. ASSUME NEW e \in Engine, Stop(e) PROVE TypeOK'
  BY <1>2, QuietTypes DEF Stop, TypeOK, WorldTypeOK
<1>3. ASSUME NEW m \in Manuals, Admit(m) PROVE TypeOK'
  BY <1>3, QuietTypes DEF Admit, TypeOK, WorldTypeOK
<1>4. ASSUME ForeignWrite PROVE WorldTypeOK' /\ spoiled' \in BOOLEAN
  <2>1. PICK l \in {"manual", "none", lit}, res \in Result : Wire(res, l, {})
    BY <1>4 DEF ForeignWrite
  <2>2. l \in Engine \cup {"none", "crash", "manual"}
    BY DEF TypeOK
  <2>3. QED
    BY <1>4, <2>1, <2>2, WireTypes DEF ForeignWrite
<1>5. ASSUME NEW m \in Manuals, Manual(m) PROVE TypeOK'
  BY <1>4, <1>5 DEF Manual, ForeignWrite, TypeOK, WorldTypeOK
<1>6. CASE MqttCommand
  BY <1>4, <1>6 DEF MqttCommand, ForeignWrite, TypeOK, WorldTypeOK
<1>7. CASE DeviceStep
  <2>1. CASE Push
    BY <2>1, AppendProperties DEF Push, Send, Report, TypeOK, wireVars, cacheVars, deviceVars
  <2>2. CASE Answer
    BY <2>2, AppendProperties, ZenonT(60) DEF Answer, Send, Report, TypeOK, cacheVars, deviceVars
  <2>3. CASE Trip
    <3>1. [what |-> "change", on |-> FALSE] \in Report
      BY DEF Report
    <3>2. rx' \in Seq(Report)
      <4>1. CASE rx' = rx
        BY <4>1 DEF TypeOK
      <4>2. CASE rx' = Append(rx, [what |-> "change", on |-> FALSE])
        BY <4>2, <3>1, AppendProperties DEF TypeOK
      <4>3. QED
        BY <2>3, <4>1, <4>2 DEF Trip
    <3>3. QED
      BY <2>3, <3>2 DEF Trip, TypeOK, cacheVars
  <2>4. CASE HubRead
    <3>1. Head(rx) \in Report /\ Tail(rx) \in Seq(Report)
      BY <2>4, HeadTailProperties DEF HubRead, TypeOK
    <3>2. heard' \in [Calls -> {"none", "open", "onload", "on", "off"}]
      BY <2>4, <3>1 DEF HubRead, Hears, Report, TypeOK
    <3>3. QED
      BY <2>4, <3>1, <3>2 DEF HubRead, Report, TypeOK, deviceVars
  <2>5. QED
    BY <1>7, <2>1, <2>2, <2>3, <2>4 DEF DeviceStep
<1>8. CASE LinkStep
  <2>1. CASE Dial
    BY <2>1 DEF Dial, Session, TypeOK, cacheVars, deviceVars
  <2>2. CASE Handshake
    BY <2>2 DEF Handshake, Session, TypeOK, cacheVars, deviceVars
  <2>3. CASE NoAnswer
    BY <2>3, EmptySeq, ZenonT(60) DEF NoAnswer, Session, Down, TypeOK, cacheVars, deviceVars
  <2>4. CASE LinkDrop
    <3>1. faults' \in 0 .. MaxFaults
      BY <2>4 DEF LinkDrop, Fault, TypeOK
    <3>2. rx' \in Seq(Report)
      BY <2>4, EmptySeq DEF LinkDrop, Down
    <3>3. QED
      BY <2>4, <3>1, <3>2, ZenonT(60) DEF LinkDrop, Session, Down, TypeOK, cacheVars, deviceVars
  <2>5. CASE \E f \in BOOLEAN : Freeze(f)
    BY <2>5 DEF Freeze, Fault, TypeOK, cacheVars, deviceVars
  <2>6. QED
    BY <1>8, <2>1, <2>2, <2>3, <2>4, <2>5 DEF LinkStep
<1>9. CASE UNCHANGED vars
  BY <1>9 DEF vars, wireVars, cacheVars, deviceVars, TypeOK
<1>10. QED
  BY <1>1, <1>2, <1>3, <1>5, <1>6, <1>7, <1>8, <1>9 DEF Next

\* Every variable keeps its type, whatever the bounds.
THEOREM TypeCorrect == Spec => []TypeOK
<1>1. Init => TypeOK
  BY TypeInit
<1>2. TypeOK /\ [Next]_vars => TypeOK'
  BY TypeStep
<1>3. QED
  BY <1>1, <1>2, PTL DEF Spec

(***************************************************************************)
(* Ownership of the output.  The two invariants hold each other up: that a *)
(* call may take a free slot rests on every call inside owning it, that    *)
(* the published run is inside rests on nobody else having released it.    *)
(***************************************************************************)
SlotInv == SingleOwner /\ ActiveOwnsOutput

\* Where a published run of engine e may be.
Published(e) == (RunLoc \ {"release"}) \cup IF e = "sequence" THEN {"energize", "refresh", "unset"} ELSE {}

LEMMA SlotInit == Init => SlotInv
  BY DEF Init, SlotInv, SingleOwner, ActiveOwnsOutput, Holds, HoldLoc, StartLoc, RunLoc,
         LeaveLoc, Reg

\* A call that moves on inside keeps ownership, if a published run stays where one may be.
LEMMA MoveKeeps ==
  ASSUME TypeOK, SlotInv,
         NEW c \in Calls, Holds(c),
         NEW l \in HoldLoc, Goto(c, l),
         \A e \in Engine : active[e] = c => l \in Published(e),
         UNCHANGED <<owner, active, kind>>
  PROVE  SlotInv'
<1>1. SingleOwner'
  BY DEF TypeOK, SlotInv, SingleOwner, Holds, Goto
<1>2. ActiveOwnsOutput'
  <2> SUFFICES ASSUME NEW e \in Engine, active[e] # None
               PROVE /\ \/ pc'[active[e]] \in RunLoc \ {"release"}
                        \/ /\ pc'[active[e]] \in {"energize", "refresh", "unset"}
                           /\ e = "sequence"
                     /\ kind[active[e]] = e
                     /\ owner = e
    BY DEF ActiveOwnsOutput
  <2>1. CASE active[e] = c
    BY <2>1 DEF TypeOK, SlotInv, ActiveOwnsOutput, Published, Goto
  <2>2. CASE active[e] # c
    BY <2>2 DEF TypeOK, SlotInv, ActiveOwnsOutput, Goto
  <2>3. QED
    BY <2>1, <2>2
<1>3. QED
  BY <1>1, <1>2 DEF SlotInv

\* A step that moves no call and touches no slot keeps it.
LEMMA StillKeeps ==
  ASSUME SlotInv, UNCHANGED <<owner, active, kind, pc>>
  PROVE  SlotInv'
  BY DEF SlotInv, SingleOwner, ActiveOwnsOutput, Holds

\* A free slot is nobody's, and nothing is published.
LEMMA FreeIsEmpty ==
  ASSUME TypeOK, SlotInv, owner = Free
  PROVE  /\ \A c \in Calls : ~Holds(c)
         /\ \A e \in Engine : active[e] = None
<1>1. ASSUME NEW c \in Calls, Holds(c) PROVE FALSE
  BY <1>1, TagInEngine DEF TypeOK, SlotInv, SingleOwner, Engine, Free
<1>2. ASSUME NEW e \in Engine, active[e] # None PROVE FALSE
  BY <1>2 DEF SlotInv, ActiveOwnsOutput, Engine, Free
<1>3. QED
  BY <1>1, <1>2

\* Acquire lets a call in only through a free slot.
LEMMA AcquireKeeps ==
  ASSUME TypeOK, SlotInv,
         NEW c \in Calls, NEW k \in Kind, Acquire(c, k),
         NEW l \in HoldLoc, Goto(c, l),
         UNCHANGED active
  PROVE  SlotInv'
<1>1. /\ \A d \in Calls : ~Holds(d)
      /\ \A e \in Engine : active[e] = None
  BY FreeIsEmpty DEF Acquire
<1>2. SingleOwner'
  BY <1>1 DEF Acquire, TypeOK, SingleOwner, Holds, Goto
<1>3. ActiveOwnsOutput'
  BY <1>1 DEF ActiveOwnsOutput
<1>4. QED
  BY <1>2, <1>3 DEF SlotInv

\* Release lets go of the slot a call holds, once it is not published.
LEMMA ReleaseKeeps ==
  ASSUME TypeOK, SlotInv,
         NEW c \in Calls, Holds(c), \A e \in Engine : active[e] # c,
         Release(c),
         NEW l \in Loc \ HoldLoc, Goto(c, l),
         UNCHANGED <<active, kind>>
  PROVE  SlotInv'
<1>1. owner' = Free
  BY DEF Release, SlotInv, SingleOwner
<1>2. \A d \in Calls : pc'[d] \notin HoldLoc
  BY DEF TypeOK, SlotInv, SingleOwner, Holds, Goto
<1>3. \A e \in Engine : active[e] = None
  <2> SUFFICES ASSUME NEW e \in Engine, active[e] # None PROVE FALSE
    OBVIOUS
  <2>1. active[e] \in Calls /\ Holds(active[e])
    BY DEF TypeOK, SlotInv, ActiveOwnsOutput, Holds, HoldLoc, StartLoc, RunLoc, LeaveLoc, Reg
  <2>2. QED
    BY <2>1 DEF SlotInv, SingleOwner
<1>4. QED
  BY <1>1, <1>2, <1>3 DEF SlotInv, SingleOwner, ActiveOwnsOutput, Holds

\* A call that was outside and goes idle was never in the way.
LEMMA IdleKeeps ==
  ASSUME TypeOK, SlotInv,
         NEW c \in Calls, ~Holds(c), Goto(c, "idle"),
         UNCHANGED <<owner, active, kind>>
  PROVE  SlotInv'
<1>1. SingleOwner'
  BY DEF TypeOK, SlotInv, SingleOwner, Holds, Goto, HoldLoc, StartLoc, RunLoc, LeaveLoc, Reg
<1>2. \A e \in Engine : active[e] # c
  BY DEF SlotInv, ActiveOwnsOutput, Holds, HoldLoc, StartLoc, RunLoc, LeaveLoc, Reg
<1>3. ActiveOwnsOutput'
  BY <1>2 DEF TypeOK, SlotInv, ActiveOwnsOutput, Goto
<1>4. QED
  BY <1>1, <1>3 DEF SlotInv

\* Every step of a call keeps ownership.
LEMMA SlotCallStep ==
  ASSUME TypeOK, SlotInv, NEW c \in Calls, CallStep(c)
  PROVE  SlotInv'
<1> USE DEF slotVars, callVars, Holds, HoldLoc, StartLoc, RunLoc, LeaveLoc, Reg
<1>1. CASE \E k \in Kinds : Begin(c, k)
  <2>1. PICK k \in Kinds : Begin(c, k)
    BY <1>1
  <2>2. QED
    BY <2>1, AcquireKeeps DEF Begin, Kind
<1>2. CASE RunWrite(c)
  <2>1. CASE UNCHANGED pc
    BY <1>2, <2>1, StillKeeps DEF RunWrite
  <2>2. CASE Goto(c, "cut")
    BY <1>2, <2>2, MoveKeeps DEF RunWrite, Published
  <2>3. QED
    BY <1>2, <2>1, <2>2 DEF RunWrite
<1>3. CASE RunEnds(c)
  BY <1>3, MoveKeeps DEF RunEnds, Published
<1>4. CASE Claimed(c)
  <2>1. \A e \in Engine : active[e] # c
    BY <1>4, ZenonT(60) DEF Claimed, TypeOK, SlotInv, ActiveOwnsOutput
  <2>2. CASE UNCHANGED active /\ (Goto(c, "leave") \/ Goto(c, "probe"))
    <3>1. PICK l \in {"leave", "probe"} : Goto(c, l)
      BY <2>2
    <3>2. QED
      BY <1>4, <2>1, <2>2, <3>1, MoveKeeps DEF Claimed
  <2>3. CASE kind[c] = "sequence" /\ Goto(c, "energize") /\ active' = [active EXCEPT !["sequence"] = c]
    <3>1. owner = "sequence" /\ UNCHANGED <<owner, kind>>
      BY <1>4, <2>3 DEF Claimed, SlotInv, SingleOwner, Tag
    <3>2. SingleOwner'
      BY <1>4, <2>3, <3>1 DEF Claimed, Goto, TypeOK, SlotInv, SingleOwner
    <3>3. \A e \in Engine : active'[e] # None => e = "sequence" /\ active'[e] = c
      BY <2>3, <3>1 DEF SlotInv, ActiveOwnsOutput, TypeOK, Engine
    <3>4. ActiveOwnsOutput'
      BY <2>3, <3>1, <3>3 DEF ActiveOwnsOutput, Goto, TypeOK
    <3>5. QED
      BY <3>2, <3>4 DEF SlotInv
  <2>4. QED
    BY <1>4, <2>2, <2>3 DEF Claimed
<1>5. CASE Probe(c)
  <2>1. \A e \in Engine : active[e] # c
    BY <1>5, ZenonT(60) DEF Probe, TypeOK, SlotInv, ActiveOwnsOutput
  <2>2. PICK l \in {"leave", "protections", "darken"} : Goto(c, l)
    BY <1>5 DEF Probe
  <2>3. QED
    BY <1>5, <2>1, <2>2, MoveKeeps DEF Probe
<1>6. CASE Darken(c)
  <2>1. \A e \in Engine : active[e] # c
    BY <1>6, ZenonT(60) DEF Darken, TypeOK, SlotInv, ActiveOwnsOutput
  <2>2. PICK l \in {"settle", "leave"} : Goto(c, l)
    BY <1>6 DEF Darken
  <2>3. QED
    BY <1>6, <2>1, <2>2, MoveKeeps DEF Darken
<1>7. CASE Settle(c)
  <2>1. \A e \in Engine : active[e] # c
    BY <1>7, ZenonT(60) DEF Settle, TypeOK, SlotInv, ActiveOwnsOutput
  <2>2. PICK l \in {"leave", "protections"} : Goto(c, l)
    BY <1>7 DEF Settle
  <2>3. QED
    BY <1>7, <2>1, <2>2, MoveKeeps DEF Settle
<1>8. CASE Arm(c)
  <2>1. \A e \in Engine : active[e] # c
    BY <1>8, ZenonT(60) DEF Arm, TypeOK, SlotInv, ActiveOwnsOutput
  <2>2. PICK l \in {"abort", "first", "second", "energize"} : Goto(c, l)
    <3>1. PICK res \in Result : Goto(c, CASE res = "err" -> "abort"
                    [] res = "nil" /\ pc[c] = "protections" -> "first"
                    [] res = "nil" /\ pc[c] = "first" -> "second"
                    [] res = "nil" /\ pc[c] = "second" -> "energize")
      BY <1>8 DEF Arm
    <3>2. CASE res = "err"
      BY <3>1, <3>2
    <3>3. CASE res = "nil"
      BY <1>8, <3>1, <3>3 DEF Arm
    <3>4. QED
      BY <3>2, <3>3 DEF Result
  <2>3. QED
    BY <1>8, <2>1, <2>2, MoveKeeps DEF Arm
<1>9. CASE Energize(c)
  <2>1. \A e \in Engine : active[e] = c => e = "sequence" /\ kind[c] = "sequence"
    BY <1>9, ZenonT(60) DEF Energize, TypeOK, SlotInv, ActiveOwnsOutput
  <2>2. CASE Goto(c, Unwind(c))
    <3>1. \A e \in Engine : active[e] = c => Unwind(c) \in Published(e)
      BY <2>1 DEF Unwind, Published
    <3>2. QED
      BY <1>9, <2>2, <3>1, MoveKeeps DEF Energize, Unwind
  <2>3. CASE Goto(c, "refresh")
    BY <1>9, <2>1, <2>3, MoveKeeps DEF Energize, Published
  <2>4. QED
    BY <1>9, <2>2, <2>3 DEF Energize, Result
<1>10. CASE Refresh(c)
  <2>1. \A e \in Engine : active[e] = c => e = "sequence" /\ kind[c] = "sequence"
    BY <1>10 DEF Refresh, TypeOK, SlotInv, ActiveOwnsOutput
  <2>2. CASE Goto(c, Unwind(c))
    <3>1. \A e \in Engine : active[e] = c => Unwind(c) \in Published(e)
      BY <2>1 DEF Unwind, Published
    <3>2. QED
      BY <1>10, <2>2, <3>1, MoveKeeps DEF Refresh, Unwind
  <2>3. CASE Goto(c, IF kind[c] = "sequence" THEN "run" ELSE "publish")
    BY <1>10, <2>1, <2>3, MoveKeeps DEF Refresh, Published
  <2>4. QED
    BY <1>10, <2>2, <2>3 DEF Refresh, Result
<1>11. CASE Publish(c)
  <2>1. owner = Tag(kind[c]) /\ UNCHANGED <<owner, kind>>
    BY <1>11 DEF Publish, SlotInv, SingleOwner
  <2>2. SingleOwner'
    BY <1>11, <2>1 DEF Publish, Goto, TypeOK, SlotInv, SingleOwner
  <2>3. \A e \in Engine : active[e] = None
    <3> SUFFICES ASSUME NEW e \in Engine, active[e] # None PROVE FALSE
      OBVIOUS
    <3>1. active[e] \in Calls /\ Holds(active[e]) /\ active[e] # c
      BY <1>11 DEF Publish, TypeOK, SlotInv, ActiveOwnsOutput
    <3>2. QED
      BY <1>11, <3>1 DEF Publish, SlotInv, SingleOwner
  <2>4. \A e \in Engine : active'[e] # None => kind[c] = e /\ active'[e] = c
    BY <1>11, <2>3 DEF Publish, TypeOK
  <2>5. \A e \in Engine : Tag(e) = e
    BY DEF Tag, Engine
  <2>6. ActiveOwnsOutput'
    BY <1>11, <2>1, <2>4, <2>5 DEF Publish, ActiveOwnsOutput, Goto, TypeOK
  <2>7. QED
    BY <2>2, <2>6 DEF SlotInv
<1>12. CASE Cut(c)
  <2>1. CASE UNCHANGED pc
    BY <1>12, <2>1, StillKeeps DEF Cut
  <2>2. CASE Goto(c, "clear")
    BY <1>12, <2>2, MoveKeeps DEF Cut, Published
  <2>3. CASE Goto(c, "subscribe")
    BY <1>12, <2>3, MoveKeeps DEF Cut, Published
  <2>4. QED
    BY <1>12, <2>1, <2>2, <2>3 DEF Cut, OffAttempt
<1>13. CASE Subscribe(c)
  BY <1>13, MoveKeeps DEF Subscribe, Published
<1>14. CASE Confirm(c)
  BY <1>14, MoveKeeps DEF Confirm, Published
<1>15. CASE Clear(c)
  <2>1. UNCHANGED <<owner, kind>>
    BY <1>15 DEF Clear
  <2>2. SingleOwner'
    BY <1>15, <2>1 DEF Clear, Goto, TypeOK, SlotInv, SingleOwner
  <2>3. \A e \in Engine : active'[e] # None => active'[e] = active[e] /\ active[e] # c
    BY <1>15, CallsAssumption DEF Clear, TypeOK, SlotInv, ActiveOwnsOutput
  <2>4. ActiveOwnsOutput'
    BY <1>15, <2>1, <2>3 DEF Clear, Goto, TypeOK, SlotInv, ActiveOwnsOutput
  <2>5. QED
    BY <2>2, <2>4 DEF SlotInv
<1>16. CASE Finish(c)
  <2>1. \A e \in Engine : active[e] # c
    BY <1>16, ZenonT(60) DEF Finish, TypeOK, SlotInv, ActiveOwnsOutput
  <2>2. PICK l \in {"report", "idle"} : Goto(c, l)
    BY <1>16 DEF Finish
  <2>3. QED
    BY <1>16, <2>1, <2>2, ReleaseKeeps DEF Finish, Loc
<1>17. CASE Announce(c)
  BY <1>17, IdleKeeps DEF Announce
<1>18. CASE Unset(c)
  <2>1. UNCHANGED <<owner, kind>>
    BY <1>18 DEF Unset
  <2>2. SingleOwner'
    BY <1>18, <2>1 DEF Unset, Goto, TypeOK, SlotInv, SingleOwner
  <2>3. \A e \in Engine : active'[e] # None => active'[e] = active[e] /\ active[e] # c
    <3>1. \A e \in Engine : active[e] = c => e = "sequence"
      BY <1>18 DEF Unset, SlotInv, ActiveOwnsOutput
    <3>2. QED
      BY <1>18, <3>1 DEF Unset, TypeOK, Engine
  <2>4. ActiveOwnsOutput'
    BY <1>18, <2>1, <2>3 DEF Unset, Goto, TypeOK, SlotInv, ActiveOwnsOutput
  <2>5. QED
    BY <2>2, <2>4 DEF SlotInv
<1>19. CASE Abort(c)
  <2>1. CASE UNCHANGED pc
    BY <1>19, <2>1, StillKeeps DEF Abort
  <2>2. CASE Goto(c, "leave")
    <3>1. \A e \in Engine : active[e] # c
      BY <1>19 DEF Abort, SlotInv, ActiveOwnsOutput
    <3>2. QED
      BY <1>19, <2>2, <3>1, MoveKeeps DEF Abort
  <2>3. QED
    BY <1>19, <2>1, <2>2 DEF Abort, OffAttempt
<1>20. CASE Leave(c)
  <2>1. \A e \in Engine : active[e] # c
    BY <1>20, ZenonT(60) DEF Leave, TypeOK, SlotInv, ActiveOwnsOutput
  <2>2. PICK l \in {"report", "idle"} : Goto(c, l)
    BY <1>20 DEF Leave
  <2>3. QED
    BY <1>20, <2>1, <2>2, ReleaseKeeps DEF Leave, Loc
<1>21. CASE WatchDecide(c)
  <2>1. CASE Goto(c, "idle") /\ UNCHANGED <<owner, kind>>
    BY <1>21, <2>1, IdleKeeps DEF WatchDecide
  <2>2. CASE Acquire(c, kind[c]) /\ Goto(c, "strayCut")
    BY <1>21, <2>2, AcquireKeeps DEF WatchDecide, TypeOK
  <2>3. QED
    BY <1>21, <2>1, <2>2 DEF WatchDecide
<1>22. CASE WatchGivesUp(c)
  BY <1>22, IdleKeeps DEF WatchGivesUp
<1>23. CASE StrayCut(c)
  <2>1. CASE UNCHANGED pc
    BY <1>23, <2>1, StillKeeps DEF StrayCut
  <2>2. CASE Goto(c, "leave")
    <3>1. \A e \in Engine : active[e] # c
      BY <1>23 DEF StrayCut, SlotInv, ActiveOwnsOutput
    <3>2. QED
      BY <1>23, <2>2, <3>1, MoveKeeps DEF StrayCut
  <2>3. QED
    BY <1>23, <2>1, <2>2 DEF StrayCut, OffAttempt
<1>24. QED
  BY <1>1, <1>2, <1>3, <1>4, <1>5, <1>6, <1>7, <1>8, <1>9, <1>10, <1>11, <1>12, <1>13, <1>14, <1>15, <1>16, <1>17, <1>18, <1>19, <1>20, <1>21, <1>22, <1>23 DEF CallStep, Advance

\* Every step does.
LEMMA SlotStep == TypeOK /\ SlotInv /\ [Next]_vars => SlotInv'
<1> SUFFICES ASSUME TypeOK, SlotInv, [Next]_vars PROVE SlotInv'
  OBVIOUS
<1>1. CASE \E c \in Calls : CallStep(c)
  BY <1>1, SlotCallStep
<1>2. CASE UNCHANGED <<slotVars, pc, kind>>
  BY <1>2, StillKeeps DEF slotVars
<1>3. CASE ~\E c \in Calls : CallStep(c)
  <2>1. UNCHANGED <<slotVars, pc, kind>>
    BY <1>3 DEF Next, Stop, Admit, Manual, ForeignWrite, MqttCommand, DeviceStep, Push, Answer,
                Trip, HubRead, LinkStep, Dial, Handshake, NoAnswer, LinkDrop, Freeze, Session,
                vars, callVars
  <2>2. QED
    BY <1>2, <2>1
<1>4. QED
  BY <1>1, <1>3

\* At no time do two calls hold the output, and the interlock names the holder's engine.
THEOREM OneOwner == Spec => []SingleOwner
<1>1. Init => TypeOK /\ SlotInv
  BY TypeInit, SlotInit
<1>2. TypeOK /\ SlotInv /\ [Next]_vars => TypeOK' /\ SlotInv'
  BY TypeStep, SlotStep
<1>3. SlotInv => SingleOwner
  BY DEF SlotInv
<1>4. QED
  BY <1>1, <1>2, <1>3, PTL DEF Spec

\* A manager's published run holds the output under that manager's tag.
THEOREM PublishedOwns == Spec => []ActiveOwnsOutput
<1>1. Init => TypeOK /\ SlotInv
  BY TypeInit, SlotInit
<1>2. TypeOK /\ SlotInv /\ [Next]_vars => TypeOK' /\ SlotInv'
  BY TypeStep, SlotStep
<1>3. SlotInv => ActiveOwnsOutput
  BY DEF SlotInv
<1>4. QED
  BY <1>1, <1>2, <1>3, PTL DEF Spec

(***************************************************************************)
(* The managers implement the single output slot.                          *)
(***************************************************************************)
\* A command leaves the device as it was, or as the command says.
LEMMA WireDevice ==
  ASSUME NEW res, NEW l, NEW a, Wire(res, l, a) \/ Abandoned(l, a)
  PROVE  (lit' = lit /\ armed' = armed) \/ (lit' = l /\ armed' = a)
  BY DEF Wire, Abandoned, Executed, deviceVars

\* The call inside is the abstract holder; with nobody inside there is none.
LEMMA HolderIs ==
  SingleOwner => /\ \A c \in Calls : Holds(c) => SlotHolder = c
                 /\ (\A c \in Calls : ~Holds(c)) => SlotHolder = None
<1> SUFFICES ASSUME SingleOwner
             PROVE  /\ \A c \in Calls : Holds(c) => SlotHolder = c
                    /\ (\A c \in Calls : ~Holds(c)) => SlotHolder = None
  OBVIOUS
<1>1. ASSUME NEW c \in Calls, Holds(c) PROVE SlotHolder = c
  <2>1. \A d \in Calls : Holds(d) => d = c
    BY <1>1 DEF SingleOwner
  <2>2. QED
    BY <1>1, <2>1 DEF SlotHolder
<1>2. (\A c \in Calls : ~Holds(c)) => SlotHolder = None
  BY DEF SlotHolder
<1>3. QED
  BY <1>1, <1>2

LEMMA HolderIsNext ==
  SingleOwner' => /\ \A c \in Calls : Holds(c)' => SlotHolder' = c
                  /\ (\A c \in Calls : ~Holds(c)') => SlotHolder' = None
<1> SUFFICES ASSUME SingleOwner'
             PROVE  /\ \A c \in Calls : Holds(c)' => SlotHolder' = c
                    /\ (\A c \in Calls : ~Holds(c)') => SlotHolder' = None
  OBVIOUS
<1>1. ASSUME NEW c \in Calls, Holds(c)' PROVE SlotHolder' = c
  <2>1. \A d \in Calls : Holds(d)' => d = c
    BY <1>1 DEF SingleOwner
  <2>2. QED
    BY <1>1, <2>1 DEF SlotHolder
<1>2. (\A c \in Calls : ~Holds(c)') => SlotHolder' = None
  BY DEF SlotHolder
<1>3. QED
  BY <1>1, <1>2

\* A step that lets nobody in or out, and may energize only from inside.
LEMMA SimInside ==
  ASSUME SingleOwner, SingleOwner',
         \A d \in Calls : Holds(d)' <=> Holds(d),
         lit' \in {lit, "none", "manual"} \/ (lit' \in Engine /\ \E c \in Calls : Holds(c))
  PROVE  [Slot!Next]_Slot!vars
<1>1. SlotHolder' = SlotHolder
  <2>1. CASE \E c \in Calls : Holds(c)
    <3>1. PICK c \in Calls : Holds(c)
      BY <2>1
    <3>2. SlotHolder = c
      BY <3>1, HolderIs
    <3>3. SlotHolder' = c
      BY <3>1, HolderIsNext
    <3>4. QED
      BY <3>2, <3>3
  <2>2. CASE \A c \in Calls : ~Holds(c)
    <3>1. SlotHolder = None
      BY <2>2, HolderIs
    <3>2. SlotHolder' = None
      BY <2>2, HolderIsNext
    <3>3. QED
      BY <3>1, <3>2
  <2>3. QED
    BY <2>1, <2>2
<1>2. CASE lit' = lit
  BY <1>1, <1>2 DEF Slot!vars
<1>3. CASE lit' = "none"
  BY <1>1, <1>3 DEF Slot!Next, Slot!GoDark, Engine
<1>4. CASE lit' = "manual"
  BY <1>1, <1>4 DEF Slot!Next, Slot!Foreign, Engine
<1>5. CASE lit' \in Engine /\ \E c \in Calls : Holds(c)
  <2>1. PICK c \in Calls : Holds(c)
    BY <1>5
  <2>2. SlotHolder = c
    BY <2>1, HolderIs
  <2>3. Slot!Energize(c)
    BY <1>1, <1>5, <2>2 DEF Slot!Energize
  <2>4. QED
    BY <2>3 DEF Slot!Next
<1>6. QED
  BY <1>2, <1>3, <1>4, <1>5

\* A call moving within its side of the interlock lets nobody in or out.
LEMMA SameSide ==
  ASSUME TypeOK, NEW c \in Calls, NEW l \in Loc, Goto(c, l), l \in HoldLoc <=> Holds(c)
  PROVE  \A d \in Calls : Holds(d)' <=> Holds(d)
  BY DEF TypeOK, Goto, Holds

\* Taking the slot.
LEMMA SimClaim ==
  ASSUME TypeOK, SlotInv, SingleOwner',
         NEW c \in Calls, NEW l \in HoldLoc, Goto(c, l), owner = Free, UNCHANGED lit
  PROVE  [Slot!Next]_Slot!vars
<1>1. SlotHolder = None
  BY FreeIsEmpty, HolderIs DEF SlotInv
<1>2. SlotHolder' = c
  BY HolderIsNext DEF TypeOK, Goto, Holds
<1>3. Slot!Claim(c)
  BY <1>1, <1>2 DEF Slot!Claim
<1>4. QED
  BY <1>3 DEF Slot!Next

\* Giving it back.
LEMMA SimGiveBack ==
  ASSUME TypeOK, SlotInv, SingleOwner',
         NEW c \in Calls, Holds(c), NEW l \in Loc \ HoldLoc, Goto(c, l), UNCHANGED lit
  PROVE  [Slot!Next]_Slot!vars
<1>1. SlotHolder = c
  BY HolderIs DEF SlotInv
<1>2. \A d \in Calls : ~Holds(d)'
  BY DEF TypeOK, SlotInv, SingleOwner, Goto, Holds
<1>3. SlotHolder' = None
  BY <1>2, HolderIsNext
<1>4. Slot!GiveBack(c)
  BY <1>1, <1>3 DEF Slot!GiveBack
<1>5. QED
  BY <1>4 DEF Slot!Next

\* Every step of a call is a step of the slot, or none.
LEMMA SimCallStep ==
  ASSUME TypeOK, SlotInv, SlotInv', NEW c \in Calls, CallStep(c)
  PROVE  [Slot!Next]_Slot!vars
<1> USE DEF HoldLoc, StartLoc, RunLoc, LeaveLoc, Reg, Loc
<1>0. SingleOwner /\ SingleOwner'
  BY DEF SlotInv
<1>1. CASE RunEnds(c)
  <2>1. \A d \in Calls : Holds(d)' <=> Holds(d)
    <3>1. PICK l \in {"cut"} : Goto(c, l)
      BY <1>1 DEF RunEnds
    <3>2. QED
      BY <1>1, <3>1, SameSide DEF RunEnds, Holds
  <2>2. lit' = lit
    BY <1>1 DEF RunEnds, Quiet, deviceVars
  <2>3. QED
    BY <1>0, <2>1, <2>2, SimInside
<1>2. CASE Claimed(c)
  <2>1. \A d \in Calls : Holds(d)' <=> Holds(d)
    <3>1. PICK l \in {"leave", "energize", "probe"} : Goto(c, l)
      BY <1>2 DEF Claimed
    <3>2. QED
      BY <1>2, <3>1, SameSide DEF Claimed, Holds
  <2>2. lit' = lit
    BY <1>2 DEF Claimed, Quiet, deviceVars
  <2>3. QED
    BY <1>0, <2>1, <2>2, SimInside
<1>3. CASE Probe(c)
  <2>1. \A d \in Calls : Holds(d)' <=> Holds(d)
    <3>1. PICK l \in {"leave", "protections", "darken"} : Goto(c, l)
      BY <1>3 DEF Probe
    <3>2. QED
      BY <1>3, <3>1, SameSide DEF Probe, Holds
  <2>2. lit' = lit
    BY <1>3 DEF Probe, Quiet, deviceVars
  <2>3. QED
    BY <1>0, <2>1, <2>2, SimInside
<1>4. CASE Settle(c)
  <2>1. \A d \in Calls : Holds(d)' <=> Holds(d)
    <3>1. PICK l \in {"leave", "protections"} : Goto(c, l)
      BY <1>4 DEF Settle
    <3>2. QED
      BY <1>4, <3>1, SameSide DEF Settle, Holds
  <2>2. lit' = lit
    BY <1>4 DEF Settle, Quiet, deviceVars
  <2>3. QED
    BY <1>0, <2>1, <2>2, SimInside
<1>5. CASE Publish(c)
  <2>1. \A d \in Calls : Holds(d)' <=> Holds(d)
    <3>1. PICK l \in {"run"} : Goto(c, l)
      BY <1>5 DEF Publish
    <3>2. QED
      BY <1>5, <3>1, SameSide DEF Publish, Holds
  <2>2. lit' = lit
    BY <1>5 DEF Publish, Quiet, deviceVars
  <2>3. QED
    BY <1>0, <2>1, <2>2, SimInside
<1>6. CASE Confirm(c)
  <2>1. \A d \in Calls : Holds(d)' <=> Holds(d)
    <3>1. PICK l \in {"clear"} : Goto(c, l)
      BY <1>6 DEF Confirm
    <3>2. QED
      BY <1>6, <3>1, SameSide DEF Confirm, Holds
  <2>2. lit' = lit
    BY <1>6 DEF Confirm, Quiet, deviceVars
  <2>3. QED
    BY <1>0, <2>1, <2>2, SimInside
<1>7. CASE Clear(c)
  <2>1. \A d \in Calls : Holds(d)' <=> Holds(d)
    <3>1. PICK l \in {"release"} : Goto(c, l)
      BY <1>7 DEF Clear
    <3>2. QED
      BY <1>7, <3>1, SameSide DEF Clear, Holds
  <2>2. lit' = lit
    BY <1>7 DEF Clear, Quiet, deviceVars
  <2>3. QED
    BY <1>0, <2>1, <2>2, SimInside
<1>8. CASE Announce(c)
  <2>1. \A d \in Calls : Holds(d)' <=> Holds(d)
    <3>1. PICK l \in {"idle"} : Goto(c, l)
      BY <1>8 DEF Announce
    <3>2. QED
      BY <1>8, <3>1, SameSide DEF Announce, Holds
  <2>2. lit' = lit
    BY <1>8 DEF Announce, Quiet, deviceVars
  <2>3. QED
    BY <1>0, <2>1, <2>2, SimInside
<1>9. CASE Unset(c)
  <2>1. \A d \in Calls : Holds(d)' <=> Holds(d)
    <3>1. PICK l \in {"leave"} : Goto(c, l)
      BY <1>9 DEF Unset
    <3>2. QED
      BY <1>9, <3>1, SameSide DEF Unset, Holds
  <2>2. lit' = lit
    BY <1>9 DEF Unset, Quiet, deviceVars
  <2>3. QED
    BY <1>0, <2>1, <2>2, SimInside
<1>10. CASE WatchGivesUp(c)
  <2>1. \A d \in Calls : Holds(d)' <=> Holds(d)
    <3>1. PICK l \in {"idle"} : Goto(c, l)
      BY <1>10 DEF WatchGivesUp
    <3>2. QED
      BY <1>10, <3>1, SameSide DEF WatchGivesUp, Holds
  <2>2. lit' = lit
    BY <1>10 DEF WatchGivesUp, Quiet, deviceVars
  <2>3. QED
    BY <1>0, <2>1, <2>2, SimInside
<1>11. CASE RunWrite(c)
  <2>1. \A d \in Calls : Holds(d)' <=> Holds(d)
    <3>1. CASE UNCHANGED pc
      BY <3>1 DEF Holds
    <3>2. CASE \E l \in {"cut"} : Goto(c, l)
      BY <1>11, <3>2, SameSide DEF RunWrite, Holds
    <3>3. QED
      BY <1>11, <3>1, <3>2 DEF RunWrite
  <2>2. lit' \in {lit, "none"}
    BY <1>11, WireDevice DEF RunWrite, Quiet, deviceVars
  <2>3. QED
    BY <1>0, <2>1, <2>2, SimInside
<1>12. CASE Darken(c)
  <2>1. \A d \in Calls : Holds(d)' <=> Holds(d)
    <3>1. PICK l \in {"settle", "leave"} : Goto(c, l)
      BY <1>12 DEF Darken
    <3>2. QED
      BY <1>12, <3>1, SameSide DEF Darken, Holds
  <2>2. lit' \in {lit, "none"}
    BY <1>12, WireDevice DEF Darken, Quiet, deviceVars
  <2>3. QED
    BY <1>0, <2>1, <2>2, SimInside
<1>13. CASE Arm(c)
  <2>1. \A d \in Calls : Holds(d)' <=> Holds(d)
    <3>1. PICK l \in {"abort", "first", "second", "energize"} : Goto(c, l)
      BY <1>13 DEF Arm, Result
    <3>2. QED
      BY <1>13, <3>1, SameSide DEF Arm, Holds
  <2>2. lit' \in {lit, "none"}
    BY <1>13, WireDevice DEF Arm, Quiet, deviceVars
  <2>3. QED
    BY <1>0, <2>1, <2>2, SimInside
<1>14. CASE Refresh(c)
  <2>1. \A d \in Calls : Holds(d)' <=> Holds(d)
    <3>1. PICK l \in {"unset", "abort", "run", "publish"} : Goto(c, l)
      BY <1>14 DEF Refresh, Unwind
    <3>2. QED
      BY <1>14, <3>1, SameSide DEF Refresh, Holds
  <2>2. lit' \in {lit, "none"}
    BY <1>14, WireDevice DEF Refresh, Quiet, deviceVars
  <2>3. QED
    BY <1>0, <2>1, <2>2, SimInside
<1>15. CASE Cut(c)
  <2>1. \A d \in Calls : Holds(d)' <=> Holds(d)
    <3>1. CASE UNCHANGED pc
      BY <3>1 DEF Holds
    <3>2. CASE \E l \in {"clear", "subscribe"} : Goto(c, l)
      BY <1>15, <3>2, SameSide DEF Cut, Holds
    <3>3. QED
      BY <1>15, <3>1, <3>2 DEF Cut, OffAttempt
  <2>2. lit' \in {lit, "none"}
    BY <1>15, WireDevice DEF Cut, OffAttempt, Quiet, deviceVars
  <2>3. QED
    BY <1>0, <2>1, <2>2, SimInside
<1>16. CASE Subscribe(c)
  <2>1. \A d \in Calls : Holds(d)' <=> Holds(d)
    <3>1. PICK l \in {"confirm"} : Goto(c, l)
      BY <1>16 DEF Subscribe
    <3>2. QED
      BY <1>16, <3>1, SameSide DEF Subscribe, Holds
  <2>2. lit' \in {lit, "none"}
    BY <1>16, WireDevice DEF Subscribe, Quiet, deviceVars
  <2>3. QED
    BY <1>0, <2>1, <2>2, SimInside
<1>17. CASE Abort(c)
  <2>1. \A d \in Calls : Holds(d)' <=> Holds(d)
    <3>1. CASE UNCHANGED pc
      BY <3>1 DEF Holds
    <3>2. CASE \E l \in {"leave"} : Goto(c, l)
      BY <1>17, <3>2, SameSide DEF Abort, Holds
    <3>3. QED
      BY <1>17, <3>1, <3>2 DEF Abort, OffAttempt
  <2>2. lit' \in {lit, "none"}
    BY <1>17, WireDevice DEF Abort, OffAttempt, Quiet, deviceVars
  <2>3. QED
    BY <1>0, <2>1, <2>2, SimInside
<1>18. CASE StrayCut(c)
  <2>1. \A d \in Calls : Holds(d)' <=> Holds(d)
    <3>1. CASE UNCHANGED pc
      BY <3>1 DEF Holds
    <3>2. CASE \E l \in {"leave"} : Goto(c, l)
      BY <1>18, <3>2, SameSide DEF StrayCut, Holds
    <3>3. QED
      BY <1>18, <3>1, <3>2 DEF StrayCut, OffAttempt
  <2>2. lit' \in {lit, "none"}
    BY <1>18, WireDevice DEF StrayCut, OffAttempt, Quiet, deviceVars
  <2>3. QED
    BY <1>0, <2>1, <2>2, SimInside
<1>19. CASE Energize(c)
  <2>1. \A d \in Calls : Holds(d)' <=> Holds(d)
    <3>1. PICK l \in {"refresh", "unset", "abort"} : Goto(c, l)
      BY <1>19 DEF Energize, Unwind
    <3>2. QED
      BY <1>19, <3>1, SameSide DEF Energize, Holds
  <2>2. lit' = lit \/ (lit' \in Engine /\ Holds(c))
    <3>1. Tag(kind[c]) \in Engine
      BY <1>0, TagInEngine DEF TypeOK
    <3>2. lit' = lit \/ lit' = Tag(kind[c])
      BY <1>19, WireDevice DEF Energize, Quiet, deviceVars
    <3>3. Holds(c)
      BY <1>19 DEF Energize, Holds, HoldLoc, StartLoc
    <3>4. QED
      BY <3>1, <3>2, <3>3
  <2>3. QED
    BY <1>0, <2>1, <2>2, SimInside
<1>20. CASE \E k \in Kinds : Begin(c, k)
  <2>1. Goto(c, "claimed") /\ owner = Free /\ UNCHANGED lit
    BY <1>20 DEF Begin, Acquire
  <2>2. QED
    BY <1>0, <2>1, SimClaim
<1>21. CASE WatchDecide(c)
  <2>1. UNCHANGED lit
    BY <1>21 DEF WatchDecide, Quiet, deviceVars
  <2>2. CASE Goto(c, "idle")
    <3>1. \A d \in Calls : Holds(d)' <=> Holds(d)
      BY <1>21, <2>2, SameSide DEF WatchDecide, Holds
    <3>2. QED
      BY <1>0, <2>1, <3>1, SimInside
  <2>3. CASE Goto(c, "strayCut") /\ owner = Free
    BY <1>0, <2>1, <2>3, SimClaim
  <2>4. QED
    BY <1>21, <2>2, <2>3 DEF WatchDecide, Acquire
<1>22. CASE Finish(c) \/ Leave(c)
  <2>1. UNCHANGED lit /\ Holds(c) /\ \E l \in Loc \ HoldLoc : Goto(c, l)
    BY <1>22 DEF Finish, Leave, Quiet, deviceVars, Holds
  <2>2. QED
    BY <1>0, <2>1, SimGiveBack
<1>23. QED
  BY <1>1, <1>2, <1>3, <1>4, <1>5, <1>6, <1>7, <1>8, <1>9, <1>10, <1>11, <1>12, <1>13, <1>14, <1>15, <1>16, <1>17, <1>18, <1>19, <1>20, <1>21, <1>22 DEF CallStep, Advance

\* Three managers, one interlock: every behaviour is one of a single output slot.
THEOREM SlotImplemented == Spec => ImplementsSlot
<1>1. Init => TypeOK /\ SlotInv
  BY TypeInit, SlotInit
<1>2. TypeOK /\ SlotInv /\ [Next]_vars => TypeOK' /\ SlotInv'
  BY TypeStep, SlotStep
<1>3. Init => Slot!Init
  <2> SUFFICES ASSUME Init PROVE Slot!Init
    OBVIOUS
  <2>1. \A c \in Calls : ~Holds(c)
    BY DEF Init, Holds, HoldLoc, StartLoc, RunLoc, LeaveLoc, Reg
  <2>2. SlotHolder = None
    BY <2>1 DEF SlotHolder
  <2>3. QED
    BY <2>2 DEF Init, Slot!Init, Engine
<1>4. TypeOK /\ SlotInv /\ SlotInv' /\ [Next]_vars => [Slot!Next]_Slot!vars
  <2> SUFFICES ASSUME TypeOK, SlotInv, SlotInv', [Next]_vars PROVE [Slot!Next]_Slot!vars
    OBVIOUS
  <2>1. CASE \E c \in Calls : CallStep(c)
    BY <2>1, SimCallStep
  <2>2. CASE ~\E c \in Calls : CallStep(c)
    <3>1. UNCHANGED pc
      BY <2>2 DEF Next, Stop, Admit, Manual, ForeignWrite, MqttCommand, DeviceStep, Push, Answer,
                  Trip, HubRead, LinkStep, Dial, Handshake, NoAnswer, LinkDrop, Freeze, Session,
                  vars, callVars
    <3>2. ForeignWrite => lit' \in {lit, "none", "manual"}
      BY WireDevice DEF ForeignWrite
    <3>3. lit' \in {lit, "none", "manual"}
      BY <2>2, <3>2 DEF Next, Stop, Admit, Manual, MqttCommand, DeviceStep, Push, Answer,
                  Trip, HubRead, LinkStep, Dial, Handshake, NoAnswer, LinkDrop, Freeze, Session,
                  vars, deviceVars, Quiet
    <3>4. \A d \in Calls : Holds(d)' <=> Holds(d)
      BY <3>1 DEF Holds
    <3>5. QED
      BY <3>3, <3>4, SimInside DEF SlotInv
  <2>3. QED
    BY <2>1, <2>2
<1>5. QED
  BY <1>1, <1>2, <1>3, <1>4, PTL DEF Spec, ImplementsSlot, Slot!Spec

(***************************************************************************)
(* The start order of a charge and of a sweep.                             *)
(***************************************************************************)
\* How far the registers must be when a start has got this far.
ArmedSoFar(c) ==
  /\ pc[c] = "first" => "protections" \in armed
  /\ pc[c] = "second" => {"protections", "first"} \subseteq armed
  /\ pc[c] = "energize" => armed = Reg

ArmedInv == \A c \in Calls : kind[c] = "sequence" \/ spoiled \/ ArmedSoFar(c)

Arming == {"first", "second", "energize"}

\* A step that leaves the registers alone keeps it, unless it takes a call into the
\* start order.
LEMMA ArmedFrame ==
  ASSUME TypeOK, ArmedInv, UNCHANGED <<kind, armed, spoiled>>,
         \/ UNCHANGED pc
         \/ \E c \in Calls, l \in Loc : Goto(c, l) /\ (l \in Arming => kind[c] = "sequence")
  PROVE  ArmedInv'
<1>1. CASE UNCHANGED pc
  BY <1>1 DEF ArmedInv, ArmedSoFar
<1>2. ASSUME NEW c \in Calls, NEW l \in Loc, Goto(c, l), l \in Arming => kind[c] = "sequence"
      PROVE  ArmedInv'
  BY <1>2 DEF TypeOK, Goto, ArmedInv, ArmedSoFar, Arming
<1>3. QED
  BY <1>1, <1>2

\* With the slot just taken, or in nobody's hands, no start is under way.
LEMMA NobodyArming ==
  ASSUME TypeOK, SlotInv, owner = Free, NEW c \in Calls
  PROVE  pc[c] \notin Arming
  BY FreeIsEmpty DEF Holds, HoldLoc, StartLoc, Reg, Arming

\* Every step of a call keeps it.
LEMMA ArmedCallStep ==
  ASSUME TypeOK, SlotInv, ArmedInv, NEW c \in Calls, CallStep(c)
  PROVE  ArmedInv'
<1> USE DEF Loc, HoldLoc, StartLoc, RunLoc, LeaveLoc, historyVars
<1>1. CASE \E k \in Kinds : Begin(c, k)
  <2>1. owner = Free /\ Goto(c, "claimed") /\ \A d \in Calls : d # c => kind'[d] = kind[d]
    BY <1>1 DEF Begin, Acquire, TypeOK
  <2>2. \A d \in Calls : pc'[d] \notin Arming
    BY <2>1, NobodyArming DEF Goto, TypeOK, Arming
  <2>3. QED
    BY <2>2 DEF ArmedInv, ArmedSoFar, Arming
<1>2. CASE WatchDecide(c)
  <2>1. CASE Goto(c, "idle") /\ UNCHANGED <<kind, armed, spoiled>>
    BY <2>1, ArmedFrame DEF Arming
  <2>2. CASE owner = Free /\ Goto(c, "strayCut")
    <3>1. \A d \in Calls : pc'[d] \notin Arming
      BY <2>2, NobodyArming DEF Goto, TypeOK, Arming
    <3>2. QED
      BY <3>1 DEF ArmedInv, ArmedSoFar, Arming
  <2>3. QED
    BY <1>2, <2>1, <2>2 DEF WatchDecide, Acquire, Quiet, deviceVars
<1>3. CASE Arm(c)
  <2>1. PICK res \in Result :
          /\ Wire(res, lit, armed \cup {pc[c]})
          /\ Goto(c, CASE res = "err" -> "abort"
                       [] res = "nil" /\ pc[c] = "protections" -> "first"
                       [] res = "nil" /\ pc[c] = "first" -> "second"
                       [] res = "nil" /\ pc[c] = "second" -> "energize")
    BY <1>3 DEF Arm
  <2>2. UNCHANGED kind /\ spoiled' = (spoiled \/ frozen) /\ pc[c] \in Reg /\ armed \subseteq armed'
    BY <1>3, <2>1, WireDevice DEF Arm
  <2>3. \A d \in Calls : d # c => pc'[d] = pc[d] /\ pc[d] \notin Arming
    <3>1. Holds(c) /\ \A d \in Calls : pc[d] \in Arming => Holds(d)
      BY <2>2 DEF Holds, Reg, Arming
    <3>2. \A d \in Calls : d # c => ~Holds(d)
      BY <3>1 DEF SlotInv, SingleOwner
    <3>3. QED
      BY <2>1, <3>1, <3>2 DEF Goto, TypeOK
  <2>4. kind[c] = "sequence" \/ spoiled' \/ ArmedSoFar(c)'
    <3>1. CASE res = "err"
      BY <2>1, <3>1 DEF Goto, TypeOK, ArmedSoFar
    <3>2. CASE res = "nil" /\ frozen
      BY <2>2, <3>2
    <3>3. CASE res = "nil" /\ ~frozen
      <4>1. armed' = armed \cup {pc[c]}
        BY <2>1, <3>3 DEF Wire, Executed
      <4>2. kind[c] = "sequence" \/ spoiled \/ ArmedSoFar(c)
        BY DEF ArmedInv
      <4>3. CASE spoiled
        BY <2>2, <4>3
      <4>4. CASE ArmedSoFar(c)
        BY <2>1, <2>2, <3>3, <4>1, <4>4 DEF Goto, TypeOK, ArmedSoFar, Reg
      <4>5. QED
        BY <4>2, <4>3, <4>4
    <3>4. QED
      BY <3>1, <3>2, <3>3 DEF Result
  <2>5. QED
    BY <2>2, <2>3, <2>4 DEF ArmedInv, ArmedSoFar, Arming
<1>4. CASE Energize(c)
  <2>1. Goto(c, "refresh") \/ Goto(c, "unset") \/ Goto(c, "abort")
    BY <1>4 DEF Energize, Unwind
  <2>2. UNCHANGED <<kind, armed, spoiled>>
    BY <1>4, WireDevice DEF Energize, Quiet, deviceVars
  <2>3. QED
    BY <2>1, <2>2, ArmedFrame DEF Arming
<1>5. CASE Refresh(c)
  <2>1. \E l \in {"run", "publish", "unset", "abort"} : Goto(c, l)
    BY <1>5 DEF Refresh, Unwind
  <2>2. UNCHANGED <<kind, armed, spoiled>>
    BY <1>5, WireDevice DEF Refresh, Quiet, deviceVars
  <2>3. QED
    BY <2>1, <2>2, ArmedFrame DEF Arming
<1>6. CASE RunWrite(c) \/ Darken(c) \/ Subscribe(c)
  <2>1. UNCHANGED pc \/ \E l \in {"cut", "settle", "leave", "confirm"} : Goto(c, l)
    BY <1>6 DEF RunWrite, Darken, Subscribe
  <2>2. UNCHANGED <<kind, armed, spoiled>>
    BY <1>6, WireDevice DEF RunWrite, Darken, Subscribe, Quiet, deviceVars
  <2>3. QED
    BY <2>1, <2>2, ArmedFrame DEF Arming
<1>7. CASE Cut(c) \/ Abort(c) \/ StrayCut(c)
  <2>1. UNCHANGED pc \/ \E l \in {"clear", "subscribe", "leave"} : Goto(c, l)
    BY <1>7 DEF Cut, Abort, StrayCut, OffAttempt
  <2>2. UNCHANGED <<kind, armed, spoiled>>
    BY <1>7, WireDevice DEF Cut, Abort, StrayCut, OffAttempt
  <2>3. QED
    BY <2>1, <2>2, ArmedFrame DEF Arming
<1>8. CASE Claimed(c) \/ Probe(c) \/ Settle(c)
  <2>1. \E l \in {"leave", "probe", "protections", "darken", "energize"} :
          Goto(c, l) /\ (l = "energize" => kind[c] = "sequence")
    BY <1>8 DEF Claimed, Probe, Settle
  <2>2. UNCHANGED <<kind, armed, spoiled>>
    BY <1>8 DEF Claimed, Probe, Settle, Quiet, deviceVars
  <2>3. QED
    BY <2>1, <2>2, ArmedFrame DEF Arming, Reg
<1>9. CASE \/ RunEnds(c) \/ Publish(c) \/ Confirm(c) \/ Clear(c) \/ Finish(c) \/ Announce(c)
           \/ Unset(c) \/ Leave(c) \/ WatchGivesUp(c)
  <2>1. \E l \in {"cut", "run", "clear", "release", "report", "idle", "leave"} : Goto(c, l)
    BY <1>9 DEF RunEnds, Publish, Confirm, Clear, Finish, Announce, Unset, Leave, WatchGivesUp
  <2>2. UNCHANGED <<kind, armed, spoiled>>
    BY <1>9 DEF RunEnds, Publish, Confirm, Clear, Finish, Announce, Unset, Leave, WatchGivesUp,
                Quiet, deviceVars
  <2>3. QED
    BY <2>1, <2>2, ArmedFrame DEF Arming
<1>10. QED
  BY <1>1, <1>2, <1>3, <1>4, <1>5, <1>6, <1>7, <1>8, <1>9 DEF CallStep, Advance

\* An operator's write that overrides a register spoils any start under way.
LEMMA ArmedForeign ==
  ASSUME TypeOK, SlotInv, ArmedInv, ForeignWrite
  PROVE  ArmedInv'
<1>1. CASE owner = Free
  <2>1. \A d \in Calls : pc'[d] \notin Arming
    BY <1>1, NobodyArming DEF ForeignWrite, callVars
  <2>2. QED
    BY <2>1 DEF ArmedInv, ArmedSoFar, Arming
<1>2. CASE owner # Free
  BY <1>2 DEF ForeignWrite, ArmedInv
<1>3. QED
  BY <1>1, <1>2

\* Every step keeps it.
LEMMA ArmedStep == TypeOK /\ SlotInv /\ ArmedInv /\ [Next]_vars => ArmedInv'
<1> SUFFICES ASSUME TypeOK, SlotInv, ArmedInv, [Next]_vars PROVE ArmedInv'
  OBVIOUS
<1>1. CASE \E c \in Calls : CallStep(c)
  BY <1>1, ArmedCallStep
<1>2. CASE ForeignWrite
  BY <1>2, ArmedForeign
<1>3. CASE ~(\E c \in Calls : CallStep(c)) /\ ~ForeignWrite
  <2>1. UNCHANGED <<pc, kind, armed, spoiled>>
    BY <1>3 DEF Next, Stop, Admit, Manual, MqttCommand, DeviceStep, Push, Answer, Trip, HubRead,
                LinkStep, Dial, Handshake, NoAnswer, LinkDrop, Freeze, Session, vars, callVars,
                deviceVars, historyVars, Quiet
  <2>2. QED
    BY <2>1, ArmedFrame
<1>4. QED
  BY <1>1, <1>2, <1>3

\* Only SetOutput(true) switches the output on for an engine.
LEMMA OnlyEnergizeLights ==
  ASSUME [Next]_vars
  PROVE  lit' \in {lit, "none", "manual"} \/ \E c \in Calls : Energize(c)
<1>1. ASSUME NEW c \in Calls, CallStep(c), ~Energize(c) PROVE lit' \in {lit, "none"}
  <2>1. CASE \/ RunWrite(c) \/ Darken(c) \/ Subscribe(c) \/ Arm(c) \/ Refresh(c)
    BY <2>1, WireDevice DEF RunWrite, Darken, Subscribe, Arm, Refresh, Quiet, deviceVars
  <2>2. CASE Cut(c) \/ Abort(c) \/ StrayCut(c)
    BY <2>2, WireDevice DEF Cut, Abort, StrayCut, OffAttempt
  <2>3. CASE \/ Claimed(c) \/ Probe(c) \/ Settle(c) \/ RunEnds(c) \/ Publish(c) \/ Confirm(c)
             \/ Clear(c) \/ Finish(c) \/ Announce(c) \/ Unset(c) \/ Leave(c) \/ WatchGivesUp(c)
             \/ WatchDecide(c) \/ \E k \in Kinds : Begin(c, k)
    BY <2>3 DEF Claimed, Probe, Settle, RunEnds, Publish, Confirm, Clear, Finish, Announce, Unset,
                Leave, WatchGivesUp, WatchDecide, Begin, Quiet, deviceVars
  <2>4. QED
    BY <1>1, <2>1, <2>2, <2>3 DEF CallStep, Advance
<1>2. ForeignWrite => lit' \in {lit, "none", "manual"}
  BY WireDevice DEF ForeignWrite
<1>3. CASE ~\E c \in Calls : CallStep(c)
  BY <1>2, <1>3 DEF Next, Stop, Admit, Manual, MqttCommand, DeviceStep, Push, Answer, Trip,
              HubRead, LinkStep, Dial, Handshake, NoAnswer, LinkDrop, Freeze, Session, vars,
              deviceVars, Quiet
<1>4. QED
  BY <1>1, <1>3

\* The output never comes on for a charge or a sweep over registers it did not write,
\* save those an operator's straggler or a frozen device spoiled.
THEOREM StartOrder == Spec => ArmedBeforeEnergized
<1>1. Init => TypeOK /\ SlotInv /\ ArmedInv
  <2>1. Init => ArmedInv
    BY DEF Init, ArmedInv, ArmedSoFar
  <2>2. QED
    BY <2>1, TypeInit, SlotInit
<1>2. TypeOK /\ SlotInv /\ ArmedInv /\ [Next]_vars => TypeOK' /\ SlotInv' /\ ArmedInv'
  BY TypeStep, SlotStep, ArmedStep
<1>3. TypeOK /\ ArmedInv /\ [Next]_vars
        => [lit' \in {"charge", "iv"} /\ lit' # lit => armed = Reg \/ spoiled]_vars
  <2> SUFFICES ASSUME TypeOK, ArmedInv, [Next]_vars, lit' \in {"charge", "iv"}, lit' # lit
               PROVE  armed = Reg \/ spoiled
    OBVIOUS
  <2>1. PICK c \in Calls : Energize(c)
    BY OnlyEnergizeLights
  <2>2. lit' = Tag(kind[c])
    BY <2>1, WireDevice DEF Energize, Quiet, deviceVars
  <2>3. kind[c] # "sequence"
    BY <2>2 DEF Tag
  <2>4. QED
    BY <2>1, <2>3 DEF ArmedInv, ArmedSoFar, Energize
<1>4. QED
  BY <1>1, <1>2, <1>3, PTL DEF Spec, ArmedBeforeEnergized

------------------------------------------------------------------------------
(***************************************************************************)
(* What a charge or a sweep leaves behind.  As long as the output is lit   *)
(* for one of them and nothing was said of it, somebody answers for it:    *)
(* the run that has the slot, which will switch the output off, hear of it *)
(* or find that it failed, or one that has let go with an alarm to raise.  *)
(***************************************************************************)
\* No report in flight, and no cached one, can be taken for a confirmation.
NoStaleReport == seen /\ \A i \in DOMAIN rx : rx[i].what = "meas" \/ rx[i].on

Answers(c) ==
  \/ pc[c] = "report" /\ failed[c]
  \/ /\ kind[c] # "sequence"
     /\ \/ pc[c] \in {"refresh", "publish", "run", "cut", "subscribe", "abort"}
        \/ pc[c] = "confirm" /\ heard[c] # "off" /\ NoStaleReport
        \/ pc[c] \in {"clear", "release"} /\ failed[c]

LitByRun == lit \in {"charge", "iv"}

OrphanInv == LitByRun /\ debt = "none" => \E c \in Calls : Answers(c)

\* A step is no concern of it if the output goes off or to an operator, if something was
\* said of it, or if whoever answers goes on answering.
LEMMA OrphanFrame ==
  ASSUME OrphanInv,
         lit' \in {lit, "none", "manual"},
         \/ debt' # "none"
         \/ debt' = debt /\ (LitByRun' => \A c \in Calls : Answers(c) => Answers(c)')
  PROVE  OrphanInv'
  BY DEF OrphanInv, LitByRun

\* What a command does to the reports in flight.
LEMMA WireReports ==
  ASSUME NEW res, NEW l, NEW a, Wire(res, l, a) \/ Abandoned(l, a), NoStaleReport
  PROVE  NoStaleReport'
<1>1. rx' = rx \/ rx' = <<>>
  BY DEF Wire, Abandoned, Down
<1>2. seen' = seen
  BY DEF Wire, Abandoned, cacheVars
<1>3. QED
  BY <1>1, <1>2 DEF NoStaleReport

\* Nobody who does not move stops answering, as long as nothing is heard that is older
\* than the output coming on.
LEMMA OthersAnswer ==
  ASSUME TypeOK, NEW c \in Calls,
         \A d \in Calls : d # c => pc'[d] = pc[d] /\ kind'[d] = kind[d] /\ failed'[d] = failed[d]
                                   /\ (pc[d] = "confirm" => heard'[d] = heard[d]),
         NoStaleReport => NoStaleReport'
  PROVE  \A d \in Calls : d # c /\ Answers(d) => Answers(d)'
  BY DEF Answers

LEMMA OrphanCallStep ==
  ASSUME TypeOK, OrphanInv, NEW c \in Calls, CallStep(c)
  PROVE  OrphanInv'
<1> USE DEF historyVars
\* What it does to the link, to the others and to what is known of the output.
<1>1. \/ Quiet
      \/ \E k \in Kinds : Begin(c, k)
      \/ \E res \in Result, l \in Engine \cup {"none", lit}, a \in SUBSET Reg :
           Wire(res, l, a) \/ Abandoned(l, a)
  <2>1. Tag(kind[c]) \in Engine /\ armed \in SUBSET Reg
    BY TagInEngine DEF TypeOK
  <2>2. pc[c] \in Reg => armed \cup {pc[c]} \in SUBSET Reg
    BY <2>1
  <2>3. CASE \/ RunWrite(c) \/ Darken(c) \/ Subscribe(c) \/ Refresh(c)
    <3>1. lit \in Engine \cup {"none", lit} /\ "none" \in Engine \cup {"none", lit}
      OBVIOUS
    <3>2. \/ Quiet
          \/ \E res \in Result : Wire(res, lit, armed) \/ Wire(res, "none", armed)
          \/ \E res \in Result : Abandoned(lit, armed)
      <4>1. CASE RunWrite(c)
        BY <4>1 DEF RunWrite
      <4>2. CASE Darken(c)
        BY <4>2 DEF Darken
      <4>3. CASE Subscribe(c)
        BY <4>3 DEF Subscribe
      <4>4. CASE Refresh(c)
        BY <4>4 DEF Refresh, Result
      <4>5. QED
        BY <2>3, <4>1, <4>2, <4>3, <4>4
    <3>3. QED
      BY <2>1, <3>1, <3>2
  <2>4. CASE Arm(c)
    BY <2>2, <2>4 DEF Arm
  <2>5. CASE Cut(c) \/ Abort(c) \/ StrayCut(c)
    BY <2>1, <2>5 DEF Cut, Abort, StrayCut, OffAttempt
  <2>6. CASE Energize(c)
    BY <2>1, <2>6 DEF Energize, Result
  <2>7. CASE \/ Claimed(c) \/ Probe(c) \/ Settle(c) \/ RunEnds(c) \/ Publish(c) \/ Confirm(c)
             \/ Clear(c) \/ Finish(c) \/ Announce(c) \/ Unset(c) \/ Leave(c) \/ WatchGivesUp(c)
             \/ WatchDecide(c)
    BY <2>7 DEF Claimed, Probe, Settle, RunEnds, Publish, Confirm, Clear, Finish, Announce, Unset,
                Leave, WatchGivesUp, WatchDecide
  <2>8. QED
    BY <2>3, <2>4, <2>5, <2>6, <2>7 DEF CallStep, Advance
<1>2. NoStaleReport => NoStaleReport'
  <2>1. CASE Quiet
    BY <2>1 DEF Quiet, wireVars, cacheVars, NoStaleReport
  <2>2. CASE \E k \in Kinds : Begin(c, k)
    BY <2>2 DEF Begin, wireVars, cacheVars, NoStaleReport
  <2>3. QED
    BY <1>1, <2>1, <2>2, WireReports
<1>3. \A d \in Calls : d # c => pc'[d] = pc[d] /\ kind'[d] = kind[d] /\ failed'[d] = failed[d]
                                /\ (pc[d] = "confirm" => heard'[d] = heard[d])
  <2>1. CASE \/ RunWrite(c) \/ Darken(c) \/ Arm(c) \/ Energize(c) \/ Refresh(c)
             \/ Claimed(c) \/ Probe(c) \/ RunEnds(c) \/ Publish(c)
             \/ Clear(c) \/ Finish(c) \/ Announce(c) \/ Unset(c) \/ Leave(c) \/ WatchGivesUp(c)
    <3>1. UNCHANGED <<kind, failed, heard>>
      BY <2>1 DEF RunWrite, Darken, Arm, Energize, Refresh, Claimed, Probe, RunEnds, Publish,
                  Clear, Finish, Announce, Unset, Leave, WatchGivesUp
    <3>2. UNCHANGED pc \/ \E l \in Loc : Goto(c, l)
      BY <2>1 DEF RunWrite, Darken, Arm, Energize, Refresh, Claimed, Probe, RunEnds, Publish,
                  Clear, Finish, Announce, Unset, Leave, WatchGivesUp, Unwind, Result, Reg,
                  Loc, HoldLoc, StartLoc, RunLoc, LeaveLoc
    <3>3. QED
      BY <3>1, <3>2 DEF Goto, TypeOK
  <2>2. CASE Settle(c) \/ Subscribe(c) \/ Confirm(c)
    BY <2>2 DEF Settle, Subscribe, Confirm, Goto, TypeOK
  <2>3. CASE Cut(c) \/ Abort(c) \/ StrayCut(c)
    BY <2>3 DEF Cut, Abort, StrayCut, OffAttempt, Goto, TypeOK
  <2>4. CASE WatchDecide(c) \/ \E k \in Kinds : Begin(c, k)
    BY <2>4 DEF WatchDecide, Begin, Acquire, Goto, TypeOK
  <2>5. QED
    BY <2>1, <2>2, <2>3, <2>4 DEF CallStep, Advance
<1>4. \A d \in Calls : d # c /\ Answers(d) => Answers(d)'
  BY <1>2, <1>3, OthersAnswer
\* Itself it goes on answering, or says what became of the output, or has put it out.
<1>5. CASE Energize(c)
  <2>1. lit' = lit \/ lit' = Tag(kind[c])
    BY <1>5, WireDevice DEF Energize, Quiet, deviceVars
  <2>2. kind'[c] = kind[c] /\ pc[c] = "energize"
        /\ pc'[c] \in {"refresh", IF kind[c] = "sequence" THEN "unset" ELSE "abort"}
    BY <1>5 DEF Energize, Unwind, Goto, TypeOK
  <2>3. CASE lit' = Tag(kind[c])
    <3>1. LitByRun' => kind[c] # "sequence"
      BY <2>3 DEF LitByRun, Tag
    <3>2. QED
      BY <2>2, <3>1 DEF OrphanInv, Answers
  <2>4. CASE lit' = lit /\ lit' # Tag(kind[c])
    <3>1. debt' = debt
      BY <1>5, <2>4 DEF Energize
    <3>2. ~Answers(c)
      BY <2>2 DEF Answers
    <3>3. QED
      BY <1>4, <2>4, <3>1, <3>2, OrphanFrame
  <2>5. QED
    BY <2>1, <2>3, <2>4
<1>6. lit' \in {lit, "none"} \/ Energize(c)
  <2>1. CASE \/ RunWrite(c) \/ Darken(c) \/ Subscribe(c) \/ Arm(c) \/ Refresh(c)
    BY <2>1, WireDevice DEF RunWrite, Darken, Subscribe, Arm, Refresh, Quiet, deviceVars
  <2>2. CASE Cut(c) \/ Abort(c) \/ StrayCut(c)
    BY <2>2, WireDevice DEF Cut, Abort, StrayCut, OffAttempt
  <2>3. CASE \/ Claimed(c) \/ Probe(c) \/ Settle(c) \/ RunEnds(c) \/ Publish(c) \/ Confirm(c)
             \/ Clear(c) \/ Finish(c) \/ Announce(c) \/ Unset(c) \/ Leave(c) \/ WatchGivesUp(c)
             \/ WatchDecide(c) \/ \E k \in Kinds : Begin(c, k)
    BY <2>3 DEF Claimed, Probe, Settle, RunEnds, Publish, Confirm, Clear, Finish, Announce, Unset,
                Leave, WatchGivesUp, WatchDecide, Begin, Quiet, deviceVars
  <2>4. QED
    BY <2>1, <2>2, <2>3 DEF CallStep, Advance
<1>7. ASSUME ~Energize(c), debt' = debt, Answers(c) => Answers(c)' \/ ~LitByRun'
      PROVE  OrphanInv'
  BY <1>4, <1>6, <1>7, OrphanFrame
<1>8. ASSUME ~Energize(c), debt' # "none"
      PROVE  OrphanInv'
  BY <1>8 DEF OrphanInv
<1>9. CASE \/ Claimed(c) \/ Probe(c) \/ Darken(c) \/ Settle(c) \/ Arm(c) \/ Unset(c) \/ Leave(c)
           \/ WatchDecide(c) \/ WatchGivesUp(c) \/ StrayCut(c) \/ \E k \in Kinds : Begin(c, k)
  <2>1. debt' = debt
    BY <1>9 DEF Claimed, Probe, Darken, Settle, Arm, Unset, Leave, WatchDecide, WatchGivesUp,
                StrayCut, Begin
  <2>2. pc[c] \in {"claimed", "probe", "darken", "settle", "unset", "leave", "watch", "strayCut",
                   "idle"} \cup Reg
    BY <1>9 DEF Claimed, Probe, Darken, Settle, Arm, Unset, Leave, WatchDecide, WatchGivesUp,
                StrayCut, Begin
  <2>3. ~Answers(c) /\ ~Energize(c)
    BY <2>2 DEF Answers, Energize, Reg
  <2>4. QED
    BY <1>7, <2>1, <2>3
<1>10. CASE Refresh(c) \/ Publish(c) \/ RunWrite(c) \/ RunEnds(c)
  <2>1. debt' = debt /\ kind'[c] = kind[c] /\ pc[c] \in {"refresh", "publish", "run"}
    BY <1>10 DEF Refresh, Publish, RunWrite, RunEnds
  <2>2. kind[c] # "sequence" => pc'[c] \in {"publish", "run", "cut", "abort"}
    BY <1>10 DEF Refresh, Publish, RunWrite, RunEnds, Unwind, Goto, TypeOK
  <2>3. QED
    BY <1>7, <2>1, <2>2 DEF Answers, Energize
<1>11. CASE Cut(c)
  <2>1. PICK err \in BOOLEAN :
          /\ OffAttempt(c, IF err \/ kind[c] = "sequence" THEN "clear" ELSE "subscribe", err)
          /\ failed' = [failed EXCEPT ![c] = err /\ kind[c] # "sequence"]
          /\ debt' = IF err /\ kind[c] = "sequence" THEN "logged" ELSE debt
    BY <1>11 DEF Cut
  <2>2. kind'[c] = kind[c] /\ pc[c] = "cut"
    BY <1>11 DEF Cut
  <2>3. kind[c] # "sequence" =>
          \/ pc'[c] \in {"cut", "subscribe"}
          \/ err /\ pc'[c] = "clear"
    BY <2>1, <2>2 DEF OffAttempt, Goto, TypeOK
  <2>4. kind[c] # "sequence" => failed'[c] = err
    BY <2>1 DEF TypeOK
  <2>5. debt' = debt \/ debt' # "none"
    BY <2>1
  <2>6. QED
    BY <1>7, <1>8, <2>2, <2>3, <2>4, <2>5 DEF Answers, Energize
<1>12. CASE Subscribe(c)
  <2>1. pc[c] = "subscribe" /\ kind'[c] = kind[c] /\ pc'[c] = "confirm" /\ heard'[c] = "none"
    BY <1>12 DEF Subscribe, Goto, TypeOK
  <2>2. debt' # "none" \/ (debt' = debt /\ NoStaleReport)
    BY <1>12 DEF Subscribe, NoStaleReport
  <2>3. QED
    BY <1>2, <1>7, <1>8, <2>1, <2>2 DEF Answers, Energize
<1>13. CASE Confirm(c)
  <2>1. pc[c] = "confirm" /\ kind'[c] = kind[c] /\ pc'[c] = "clear" /\ debt' = debt
        /\ failed'[c] = (heard[c] # "off")
    BY <1>13 DEF Confirm, Goto, TypeOK
  <2>2. QED
    BY <1>7, <2>1 DEF Answers, Energize
<1>14. CASE Clear(c) \/ Finish(c)
  <2>1. pc[c] \in {"clear", "release"} /\ kind'[c] = kind[c] /\ debt' = debt
        /\ failed'[c] = failed[c] /\ pc'[c] \in {"release", "report"}
    BY <1>14 DEF Clear, Finish, Goto, TypeOK
  <2>2. QED
    BY <1>7, <2>1 DEF Answers, Energize
<1>15. CASE Announce(c)
  <2>1. pc[c] = "report" /\ (debt' = "alarmed" \/ (debt' = debt /\ ~failed[c]))
    BY <1>15 DEF Announce
  <2>2. QED
    BY <1>7, <1>8, <2>1 DEF Answers, Energize
<1>16. CASE Abort(c)
  <2>1. debt' # "none" /\ pc[c] = "abort"
    BY <1>16 DEF Abort
  <2>2. QED
    BY <1>8, <2>1 DEF Energize
<1>17. QED
  BY <1>5, <1>9, <1>10, <1>11, <1>12, <1>13, <1>14, <1>15, <1>16 DEF CallStep, Advance

\* The hub reads a report: nobody hears of an output that is off while it is lit and no
\* report is stale.
LEMMA OrphanHubRead ==
  ASSUME TypeOK, OrphanInv, HubRead
  PROVE  OrphanInv'
<1>1. UNCHANGED <<pc, kind, failed, lit, debt>>
  BY DEF HubRead, deviceVars, historyVars
<1> DEFINE r == Head(rx)
           on == IF r.what = "meas" THEN seen ELSE r.on
<1>2. seen' = on /\ heard' = [c \in Calls |-> Hears(c, r, on)] /\ rx' = Tail(rx)
  BY DEF HubRead
<1>3. rx \in Seq(Report) /\ rx # <<>>
  BY DEF TypeOK, HubRead
<1>4. r = rx[1] /\ 1 \in DOMAIN rx /\ \A i \in DOMAIN Tail(rx) : i + 1 \in DOMAIN rx
                                                                 /\ Tail(rx)[i] = rx[i + 1]
  BY <1>3
<1>5. NoStaleReport => on /\ NoStaleReport'
  <2> SUFFICES ASSUME NoStaleReport PROVE on /\ NoStaleReport'
    OBVIOUS
  <2>1. on
    BY <1>4 DEF NoStaleReport
  <2>2. QED
    BY <1>2, <1>4, <2>1 DEF NoStaleReport
<1> HIDE DEF r, on
<1>6. ASSUME NEW c \in Calls, Answers(c) PROVE Answers(c)'
  <2>1. CASE pc[c] = "confirm"
    <3>1. heard[c] # "off" /\ on /\ NoStaleReport' /\ kind[c] # "sequence"
      BY <1>5, <1>6, <2>1 DEF Answers
    <3>2. heard'[c] = heard[c]
      BY <1>2, <2>1, <3>1 DEF Hears
    <3>3. QED
      BY <1>1, <2>1, <3>1, <3>2 DEF Answers
  <2>2. CASE pc[c] # "confirm"
    BY <1>1, <1>6, <2>2 DEF Answers
  <2>3. QED
    BY <2>1, <2>2
<1>7. QED
  BY <1>1, <1>6, OrphanFrame

\* The rest of the device, the link and the operators.
LEMMA OrphanRest ==
  ASSUME TypeOK, OrphanInv, [Next]_vars, ~HubRead, ~\E c \in Calls : CallStep(c)
  PROVE  OrphanInv'
<1>1. UNCHANGED <<pc, kind, failed, heard, debt>>
  BY DEF Next, Stop, Admit, Manual, ForeignWrite, MqttCommand, DeviceStep, Push, Answer, Trip,
         LinkStep, Dial, Handshake, NoAnswer, LinkDrop, Freeze, Session, vars, callVars, historyVars
<1>2. lit' \in {lit, "none", "manual"}
  <2>1. ForeignWrite => lit' \in {lit, "none", "manual"}
    BY WireDevice DEF ForeignWrite
  <2>2. QED
    BY <2>1 DEF Next, Stop, Admit, Manual, MqttCommand, DeviceStep, Push, Answer, Trip,
           LinkStep, Dial, Handshake, NoAnswer, LinkDrop, Freeze, Session, vars, deviceVars, Quiet
\* What is sent while the output is lit says so.
<1>3. LitByRun' /\ NoStaleReport => NoStaleReport'
  <2>1. CASE ForeignWrite
    BY <2>1, WireReports DEF ForeignWrite
  <2>2. CASE ~ForeignWrite
    <3>1. seen' = seen
      BY <2>2 DEF Next, Stop, Admit, Manual, MqttCommand, DeviceStep, Push, Answer, Trip,
             LinkStep, Dial, Handshake, NoAnswer, LinkDrop, Freeze, Session, vars, cacheVars, Quiet
    <3>2. \/ rx' = rx \/ rx' = <<>>
          \/ Send("meas")
          \/ Send("dump") /\ UNCHANGED lit
          \/ lit' = "none"
      BY <2>2 DEF Next, Stop, Admit, Manual, MqttCommand, DeviceStep, Push, Answer, Trip, Down,
             LinkStep, Dial, Handshake, NoAnswer, LinkDrop, Freeze, Session, vars, wireVars,
             deviceVars, Quiet
    <3>3. ASSUME NEW item, rx' = Append(rx, item), item.what = "meas" \/ item.on, NoStaleReport
          PROVE  NoStaleReport'
      <4>1. rx \in Seq(Report)
        BY DEF TypeOK
      <4>2. DOMAIN rx' = 1 .. Len(rx) + 1 /\ DOMAIN rx = 1 .. Len(rx)
            /\ \A i \in 1 .. Len(rx) : rx'[i] = rx[i]
            /\ rx'[Len(rx) + 1] = item
        BY <3>3, <4>1
      <4>3. QED
        BY <3>1, <3>3, <4>1, <4>2 DEF NoStaleReport
    <3>4. CASE Send("meas")
      BY <3>3, <3>4 DEF Send
    <3>5. CASE Send("dump") /\ UNCHANGED lit
      <4> SUFFICES ASSUME LitByRun', NoStaleReport PROVE NoStaleReport'
        OBVIOUS
      <4>1. (lit # "none") = TRUE
        BY <3>5 DEF LitByRun
      <4>2. rx' = Append(rx, [what |-> "dump", on |-> TRUE])
        BY <3>5, <4>1 DEF Send
      <4>3. QED
        BY <3>3, <4>2
    <3>6. QED
      BY <3>1, <3>2, <3>4, <3>5 DEF NoStaleReport, LitByRun
  <2>3. QED
    BY <2>1, <2>2
<1>4. QED
  BY <1>1, <1>2, <1>3, OrphanFrame DEF Answers

LEMMA OrphanStep == TypeOK /\ OrphanInv /\ [Next]_vars => OrphanInv'
  BY OrphanCallStep, OrphanHubRead, OrphanRest

\* No charge and no sweep leaves the output on behind its back: once the slot is free it
\* is off, or an alarm is out or on its way, or the result of the output-off was dropped or
\* taken from a report older than the output coming on.
THEOREM OrphansAreAnnounced == Spec => []OrphanAnnounced
<1>1. Init => TypeOK /\ SlotInv /\ OrphanInv
  <2>1. Init => OrphanInv
    BY DEF Init, OrphanInv, LitByRun
  <2>2. QED
    BY <2>1, TypeInit, SlotInit
<1>2. TypeOK /\ SlotInv /\ OrphanInv /\ [Next]_vars => TypeOK' /\ SlotInv' /\ OrphanInv'
  BY TypeStep, SlotStep, OrphanStep
<1>3. TypeOK /\ SlotInv /\ OrphanInv => OrphanAnnounced
  <2> SUFFICES ASSUME TypeOK, SlotInv, OrphanInv, owner = Free, LitByRun, debt = "none"
               PROVE  \E c \in Calls : pc[c] = "report" /\ failed[c]
    BY DEF OrphanAnnounced, LitByRun
  <2>1. PICK c \in Calls : Answers(c)
    BY DEF OrphanInv
  <2>2. ~Holds(c)
    BY FreeIsEmpty
  <2>3. QED
    BY <2>1, <2>2 DEF Answers, Holds, HoldLoc, StartLoc, RunLoc, LeaveLoc
<1>4. QED
  BY <1>1, <1>2, <1>3, PTL DEF Spec
=============================================================================
