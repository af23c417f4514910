------------------------ MODULE ChargeHistory_proofs ------------------------
(***************************************************************************)
(* The history of charges, for any number of sessions, batteries, kinds    *)
(* and concurrent requests: verdicts and captured onsets stand, what is    *)
(* "running" has a run, and the cycles of a battery's health are in its    *)
(* throughput, on any database; a session names a battery of its own kind  *)
(* on SQLite, where a transaction holds the only connection.               *)
(***************************************************************************)
EXTENDS ChargeHistory, FiniteSetTheorems, TLAPS

USE IdsAssumption, BoundAssumption DEF IdsAssumption, BoundAssumption

States == {"new", "running"} \cup Outcomes
KindOrNone == Kinds \cup {None}
BatteryOrNone == Batteries \cup {None}

SessionRow == [state : States, battery : BatteryOrNone, onset : BOOLEAN, kind : KindOrNone,
               began : Starts]
BatteryRow == [state : {"new", "live", "gone"}, kind : KindOrNone]
Request == [op : {"none", "edit", "update", "assign", "delete"},
            session : Sessions \cup {NoSession}, battery : BatteryOrNone, kind : KindOrNone]
Pending == [at : {"none", "loaded", "validated"}, kind : KindOrNone, battery : BatteryOrNone]
RunOf == [at : {"none", "running", "read", "lost"}, battery : BatteryOrNone, onset : BOOLEAN,
          captured : BOOLEAN]
Reader == [at : {"none", "found", "rated", "capacity", "throughput", "answered"},
           battery : BatteryOrNone, rated : BOOLEAN, cycles : Nat, worn : Nat, steps : Nat,
           left : BOOLEAN]

TypeOK ==
  /\ sessions \in [Sessions -> SessionRow]
  /\ batteries \in [Batteries -> BatteryRow]
  /\ profile \in KindOrNone
  /\ ready \in BOOLEAN
  /\ tx \in [Handlers -> Request]
  /\ conn \in Handlers \cup {None}
  /\ start \in Pending
  /\ runs \in [Sessions -> RunOf]
  /\ recorders \in SUBSET Sessions
  /\ boot \in {"pending", "closed", "skipped"}
  /\ health \in Reader

\* A session that has not begun has an empty row and nothing at work on it.
FreshRows ==
  \A s \in Sessions : sessions[s].state = "new" =>
    sessions[s] = NoRow /\ runs[s] = NoRun /\ s \notin recorders

\* The row of a run that has not been saved is "running", or was failed by a
\* reconciliation that came late.
OpenRuns ==
  \A s \in Sessions :
    runs[s].at \in {"running", "read"} => sessions[s].state \in {"running", "failed"}

\* A request to assign is about a session that is over.
AssignsFinished ==
  \A h \in Handlers : tx[h].op = "assign" =>
    tx[h].session \in Sessions /\ sessions[tx[h].session].state \in Outcomes

\* A request that is about a battery has one, and so has whoever reads its health.
NamesRows ==
  /\ \A h \in Handlers : tx[h].op \in {"update", "delete"} => tx[h].battery \in Batteries
  /\ health.at # "none" => health.battery \in Batteries

HistoryInv ==
  TypeOK /\ FreshRows /\ OpenRuns /\ AssignsFinished /\ NamesRows /\ ReconciledRunsAreLive

\* The sessions whose full cycles the health of b counts.
Eligible(b) == {s \in Of(b) : CapacityEligible(s)}

\* Until the throughput is read, the cycles counted are still those of the battery,
\* unless one left.
CyclesCounted ==
  /\ health.at = "capacity" /\ ~health.left =>
       health.cycles <= Cardinality(Eligible(health.battery))
  /\ health.at \in {"throughput", "answered"} => health.cycles <= health.worn \/ health.left

\* A battery that has existed, of this kind.
OfKind(b, k) == b \in Batteries /\ batteries[b].state # "new" /\ batteries[b].kind = k

\* An open transaction is the one that holds the connection.
InTransaction(t) == t.op \in {"update", "assign", "delete"}
Exclusive == \A h \in Handlers : InTransaction(tx[h]) => conn = h

\* What it read of its battery.
Holds(t) ==
  /\ t.op = "assign" /\ t.battery # None =>
       Live(t.battery) /\ OfKind(t.battery, sessions[t.session].kind)
  /\ t.op = "update" => Live(t.battery) /\ OfKind(t.battery, t.kind)
  /\ t.op = "delete" => Live(t.battery)
ReadsHold == \A h \in Handlers : Holds(tx[h])

\* Wherever a session, a finalize that has read, or a start keeps the id of a battery,
\* the battery is of its kind, though it may be gone.
KindsAgree ==
  /\ \A s \in Sessions : sessions[s].battery # None => OfKind(sessions[s].battery, sessions[s].kind)
  /\ \A s \in Sessions : runs[s].at = "read" /\ runs[s].battery # None =>
       OfKind(runs[s].battery, sessions[s].kind)
  /\ start.at = "validated" /\ start.battery # None => OfKind(start.battery, start.kind)

LibraryInv == HistoryInv /\ Exclusive /\ ReadsHold /\ KindsAgree
------------------------------------------------------------------------------
(***************************************************************************)
(* Types.                                                                  *)
(***************************************************************************)
\* A set of sessions is finite, and what it counts is a number.
LEMMA SessionsCount ==
  ASSUME NEW S \in SUBSET Sessions
  PROVE  IsFiniteSet(S) /\ Cardinality(S) \in Nat
<1>1. IsFiniteSet(Sessions)
  BY FS_Interval DEF Sessions
<1>2. QED
  BY <1>1, FS_Subset, FS_CardinalityType

\* Recording the onset keeps the type of the row.
LEMMA OnsetType ==
  ASSUME NEW r \in SessionRow
  PROVE  [r EXCEPT !.onset = TRUE] \in SessionRow
  BY DEF SessionRow

\* The ghost of the reader keeps its type.
LEMMA WatchedType ==
  ASSUME TypeOK, Watched
  PROVE  /\ health' \in Reader
         /\ health'.left \in BOOLEAN
         /\ health' = [health EXCEPT !.left = health'.left]
         /\ health.left => health'.left
<1> DEFINE leaves == \E s \in Of(health.battery) :
                       /\ health.at # "none"
                       /\ CapacityEligible(s) /\ sessions'[s].battery # health.battery
<1>1. health' = [health EXCEPT !.left = health.left \/ leaves]
  BY DEF Watched
<1> HIDE DEF leaves
<1>2. health.left \in BOOLEAN /\ health \in Reader
  BY DEF TypeOK, Reader
<1>3. (health.left \/ leaves) \in BOOLEAN
  OBVIOUS
<1> DEFINE v == health.left \/ leaves
<1>4. v \in BOOLEAN /\ (health.left => v)
  BY <1>2, <1>3
<1>5. health' = [health EXCEPT !.left = v]
  BY <1>1
<1> HIDE DEF v
<1>6. QED
  BY <1>2, <1>4, <1>5 DEF Reader

\* The initial states have the types.
LEMMA TypeInit == Init => TypeOK
<1> SUFFICES ASSUME Init PROVE TypeOK
  OBVIOUS
<1>1. NoRow \in SessionRow /\ NoRun \in RunOf
  BY DEF NoRow, NoRun, SessionRow, RunOf, States, Starts, KindOrNone, BatteryOrNone
<1>2. Idle \in Request /\ NoStart \in Pending /\ NoHealth \in Reader
  BY DEF Idle, NoStart, NoHealth, Request, Pending, Reader, KindOrNone, BatteryOrNone, NoSession
<1>3. batteries \in [Batteries -> BatteryRow] /\ profile \in KindOrNone
  BY DEF Init, BatteryRow, KindOrNone
<1>4. QED
  BY <1>1, <1>2, <1>3 DEF Init, TypeOK

\* Every step keeps the types.
LEMMA TypeStep ==
  ASSUME TypeOK, NamesRows, AssignsFinished, [Next]_vars
  PROVE  TypeOK'
<1> USE DEF TypeOK, rows, engine
<1>1. ASSUME NEW k \in Kinds, CreateProfile(k)
      PROVE  TypeOK'
  BY <1>1 DEF CreateProfile, KindOrNone
<1>2. ASSUME NEW h \in Handlers, NEW k \in Kinds, OpenEdit(h, k)
      PROVE  TypeOK'
  BY <1>2 DEF OpenEdit, Idle, Request, KindOrNone, BatteryOrNone, NoSession
<1>3. ASSUME DeleteProfile
      PROVE  TypeOK'
  BY <1>3 DEF DeleteProfile, KindOrNone
<1>4. ASSUME NEW b \in Batteries, NEW k \in Kinds, CreateBattery(b, k)
      PROVE  TypeOK'
  BY <1>4 DEF CreateBattery, BatteryRow, KindOrNone
<1>5. ASSUME NEW h \in Handlers, NEW s \in Sessions, NEW b \in Batteries \cup {None},
             OpenAssign(h, s, b)
      PROVE  TypeOK'
  BY <1>5 DEF OpenAssign, Open, Idle, Request, BatteryOrNone, KindOrNone
<1>6. ASSUME NEW h \in Handlers, NEW b \in Batteries, OpenUpdate(h, b)
      PROVE  TypeOK'
  BY <1>6 DEF OpenUpdate, Open, Idle, Request, BatteryOrNone, BatteryRow, Live
<1>7. ASSUME NEW h \in Handlers, NEW b \in Batteries, OpenDelete(h, b)
      PROVE  TypeOK'
  BY <1>7 DEF OpenDelete, Open, Idle, Request, BatteryOrNone, KindOrNone
<1>8. ASSUME NEW h \in Handlers, SaveEdit(h)
      PROVE  TypeOK'
  BY <1>8 DEF SaveEdit, Idle, Request, KindOrNone, BatteryOrNone, NoSession
<1>9. ASSUME NEW h \in Handlers, CommitUpdate(h)
      PROVE  TypeOK'
  BY <1>9 DEF CommitUpdate, Close, Idle, Request, KindOrNone, BatteryOrNone, NoSession,
     BatteryRow
<1>10. ASSUME NEW h \in Handlers, CommitAssign(h)
      PROVE  TypeOK'
  <2>1. tx' \in [Handlers -> Request] /\ conn' \in Handlers \cup {None}
    BY <1>10 DEF CommitAssign, Close, Idle, Request, KindOrNone, BatteryOrNone, NoSession
  <2>2. tx[h].session \in Sessions /\ tx[h].battery \in BatteryOrNone
    BY <1>10 DEF CommitAssign, AssignsFinished, Request
  <2>3. sessions' \in [Sessions -> SessionRow]
    BY <1>10, <2>2 DEF CommitAssign, SessionRow
  <2>4. health' \in Reader
    BY <1>10, WatchedType DEF CommitAssign
  <2>5. QED
    BY <1>10, <2>1, <2>3, <2>4 DEF CommitAssign, Close
<1>11. ASSUME NEW h \in Handlers, CommitDelete(h)
      PROVE  TypeOK'
  <2>1. tx' \in [Handlers -> Request] /\ conn' \in Handlers \cup {None}
    BY <1>11 DEF CommitDelete, Close, Idle, Request, KindOrNone, BatteryOrNone, NoSession
  <2>2. sessions' \in [Sessions -> SessionRow]
    BY <1>11 DEF CommitDelete, SessionRow, BatteryOrNone
  <2>3. batteries' \in [Batteries -> BatteryRow]
    BY <1>11, ZenonT(60) DEF CommitDelete, BatteryRow
  <2>4. health' \in Reader
    BY <1>11, WatchedType DEF CommitDelete
  <2>5. QED
    BY <1>11, <2>1, <2>2, <2>3, <2>4 DEF CommitDelete, Close
<1>12. ASSUME LoadProfile
      PROVE  TypeOK'
  BY <1>12 DEF LoadProfile, NoStart, Pending, KindOrNone, BatteryOrNone
<1>13. ASSUME NEW b \in Batteries \cup {None}, Preselect(b)
      PROVE  TypeOK'
  BY <1>13 DEF Preselect, Pending, BatteryOrNone
<1>14. ASSUME NEW b \in Batteries, GetBattery(b)
      PROVE  TypeOK'
  BY <1>14 DEF GetBattery, Reads, NoHealth, Reader, BatteryOrNone
<1>15. ASSUME ReadRatings
      PROVE  TypeOK'
  BY <1>15 DEF ReadRatings, Reads, Live, Reader
<1>16. ASSUME ReadCapacity
      PROVE  TypeOK'
  <2>1. Cardinality({s \in Of(health.battery) : CapacityEligible(s)}) \in Nat
    BY SessionsCount DEF Of
  <2>2. QED
    BY <1>16, <2>1 DEF ReadCapacity, Reads, Reader
<1>17. ASSUME ReadThroughput
      PROVE  TypeOK'
  <2>1. Cardinality({s \in Of(health.battery) : sessions[s].state = "completed"}) \in Nat
    BY SessionsCount DEF Of
  <2>2. QED
    BY <1>17, <2>1 DEF ReadThroughput, Reads, Reader
<1>18. ASSUME ReadRint
      PROVE  TypeOK'
  <2>1. Cardinality({s \in Of(health.battery) : RintEligible(s)}) \in Nat
    BY SessionsCount DEF Of
  <2>2. QED
    BY <1>18, <2>1 DEF ReadRint, Reads, Reader
<1>19. ASSUME Answered
      PROVE  TypeOK'
  BY <1>19 DEF Answered, NoHealth, Reader, BatteryOrNone
<1>20. ASSUME StartWithoutRow
      PROVE  TypeOK'
  BY <1>20 DEF StartWithoutRow, NoStart, Pending, KindOrNone, BatteryOrNone
<1>21. ASSUME BeginSession
      PROVE  TypeOK'
  <2>1. PICK s \in Sessions, began \in Starts :
          /\ sessions' = [sessions EXCEPT ![s] = [NoRow EXCEPT !.state = "running",
                            !.battery = start.battery, !.kind = start.kind, !.began = began]]
          /\ runs' = [runs EXCEPT ![s].at = "running"]
    BY <1>21 DEF BeginSession
  <2>2. start.battery \in BatteryOrNone /\ start.kind \in KindOrNone
    BY DEF Pending
  <2>3. sessions' \in [Sessions -> SessionRow]
    BY <2>1, <2>2 DEF SessionRow, NoRow, States
  <2>4. runs' \in [Sessions -> RunOf]
    BY <2>1 DEF RunOf
  <2>5. start' \in Pending
    BY <1>21 DEF BeginSession, NoStart, Pending, KindOrNone, BatteryOrNone
  <2>6. QED
    BY <1>21, <2>3, <2>4, <2>5 DEF BeginSession
<1>22. ASSUME NEW s \in Sessions, CaptureOnset(s)
      PROVE  TypeOK'
  BY <1>22, ZenonT(60) DEF CaptureOnset, RunOf
<1>23. ASSUME NEW s \in Sessions, RecordOnset(s)
      PROVE  TypeOK'
  <2>1. sessions' \in [Sessions -> SessionRow]
    <3>1. [sessions[s] EXCEPT !.onset = TRUE] \in SessionRow
      BY OnsetType
    <3>2. QED
      BY <1>23, <3>1 DEF RecordOnset
  <2>2. QED
    BY <1>23, <2>1 DEF RecordOnset
<1>24. ASSUME NEW s \in Sessions, OnsetLost(s)
      PROVE  TypeOK'
  BY <1>24 DEF OnsetLost
<1>25. ASSUME NEW s \in Sessions, FinishRead(s)
      PROVE  TypeOK'
  <2>1. sessions[s] \in SessionRow /\ runs[s] \in RunOf
    OBVIOUS
  <2>2. [runs[s] EXCEPT !.at = "read", !.battery = sessions[s].battery,
                        !.onset = sessions[s].onset] \in RunOf
    BY <2>1 DEF SessionRow, RunOf
  <2>3. QED
    BY <1>25, <2>2 DEF FinishRead
<1>26. ASSUME NEW s \in Sessions, FinishLost(s)
      PROVE  TypeOK'
  BY <1>26 DEF FinishLost, NoRun, RunOf, BatteryOrNone
<1>27. ASSUME NEW s \in Sessions, NEW outcome \in Outcomes, FinishSave(s, outcome)
      PROVE  TypeOK'
  <2>1. sessions[s] \in SessionRow /\ runs[s] \in RunOf
    OBVIOUS
  <2>2. [sessions[s] EXCEPT !.state = outcome, !.battery = runs[s].battery,
                            !.onset = runs[s].onset] \in SessionRow
    BY <2>1 DEF SessionRow, RunOf, States
  <2>3. runs' \in [Sessions -> RunOf]
    BY <1>27 DEF FinishSave, NoRun, RunOf, BatteryOrNone
  <2>4. QED
    BY <1>27, <2>2, <2>3 DEF FinishSave
<1>28. ASSUME Reconcile
      PROVE  TypeOK'
  BY <1>28, SMTT(30) DEF Reconcile, SessionRow, States, Outcomes
<1>29. ASSUME ReconcileUnavailable
      PROVE  TypeOK'
  BY <1>29 DEF ReconcileUnavailable
<1>30. ASSUME Connect
      PROVE  TypeOK'
  BY <1>30 DEF Connect
<1>31. ASSUME Disconnect
      PROVE  TypeOK'
  BY <1>31 DEF Disconnect, Idle, NoHealth, Request, Reader, KindOrNone, BatteryOrNone, NoSession
<1>32. ASSUME Restart
      PROVE  TypeOK'
  BY <1>32 DEF Restart, Idle, NoHealth, NoStart, NoRun, Request, Reader, KindOrNone,
     BatteryOrNone, NoSession, RunOf, Pending
<1>33. CASE UNCHANGED vars
  BY <1>33 DEF vars
<1>34. QED
  BY <1>1, <1>2, <1>3, <1>4, <1>5, <1>6, <1>7, <1>8, <1>9, <1>10, <1>11, <1>12,
     <1>13, <1>14, <1>15, <1>16, <1>17, <1>18, <1>19, <1>20, <1>21, <1>22, <1>23, <1>24,
     <1>25, <1>26, <1>27, <1>28, <1>29, <1>30, <1>31, <1>32, <1>33
  DEF Next, Api, Health, Charger

------------------------------------------------------------------------------
(***************************************************************************)
(* What a step does to the rows of the sessions and to the runs.           *)
(***************************************************************************)
\* The steps that may be at the rows or the runs.
AtRows ==
  \/ \E h \in Handlers : CommitAssign(h) \/ CommitDelete(h)
  \/ BeginSession
  \/ \E s \in Sessions : CaptureOnset(s) \/ RecordOnset(s) \/ OnsetLost(s)
  \/ \E s \in Sessions : FinishRead(s) \/ FinishLost(s)
  \/ \E s \in Sessions, outcome \in Outcomes : FinishSave(s, outcome)
  \/ Reconcile \/ ReconcileUnavailable \/ Restart

\* All others leave them alone.
LEMMA QuietStep ==
  ASSUME [Next]_vars, ~AtRows
  PROVE  UNCHANGED <<sessions, runs, recorders, boot>>
<1> USE DEF rows, engine
<1>1. CASE Api
  BY <1>1 DEF AtRows, Api, CreateProfile, OpenEdit, DeleteProfile, CreateBattery, OpenAssign,
     OpenUpdate, OpenDelete, SaveEdit, CommitUpdate, LoadProfile, Preselect, Open, Close
<1>2. CASE Health
  BY <1>2 DEF Health, GetBattery, ReadRatings, ReadCapacity, ReadThroughput, ReadRint, Answered,
     Reads
<1>3. CASE StartWithoutRow \/ Connect \/ Disconnect \/ UNCHANGED vars
  BY <1>3 DEF StartWithoutRow, Connect, Disconnect, vars
<1>4. QED
  BY <1>1, <1>2, <1>3, SMTT(30) DEF AtRows, Next, Charger

\* What may become of a row: it begins, changes hands, has its onset recorded, is
\* finalized, is failed by reconciliation, or stays as it is.
Begins(s) ==
  /\ start.at = "validated" /\ sessions[s].state = "new"
  /\ \E began \in Starts :
       sessions'[s] = [NoRow EXCEPT !.state = "running", !.battery = start.battery,
                                    !.kind = start.kind, !.began = began]
  /\ runs'[s].at = "running"
ChangesHands(s) ==
  /\ \E b \in BatteryOrNone :
       /\ sessions'[s] = [sessions[s] EXCEPT !.battery = b]
       /\ b # None => \E h \in Handlers : tx[h].op = "assign" /\ tx[h].session = s
                                         /\ tx[h].battery = b
  /\ sessions[s].state # "new"
  /\ Watched
OnsetRecorded(s) ==
  s \in recorders /\ sessions'[s] = [sessions[s] EXCEPT !.onset = TRUE]
Finalized(s) ==
  /\ runs[s].at = "read"
  /\ \E outcome \in Outcomes :
       sessions'[s] = [sessions[s] EXCEPT !.state = outcome, !.battery = runs[s].battery,
                                          !.onset = runs[s].onset]
Reconciled(s) ==
  sessions[s].state = "running" /\ sessions'[s] = [sessions[s] EXCEPT !.state = "failed"]

RowStep(s) ==
  \/ sessions'[s] = sessions[s]
  \/ Begins(s) \/ ChangesHands(s) \/ OnsetRecorded(s) \/ Finalized(s) \/ Reconciled(s)

\* Nothing else becomes of it.
LEMMA RowsStep ==
  ASSUME HistoryInv, [Next]_vars, NEW s \in Sessions
  PROVE  RowStep(s)
<1> USE DEF RowStep, HistoryInv, TypeOK
<1>1. ASSUME NEW h \in Handlers, CommitAssign(h)
      PROVE  RowStep(s)
  <2>1. tx[h].session \in Sessions /\ sessions[tx[h].session].state \in Outcomes
    BY <1>1 DEF CommitAssign, AssignsFinished
  <2>2. tx[h].battery \in BatteryOrNone
    BY DEF Request
  <2>3. CASE s = tx[h].session
    BY <1>1, <2>1, <2>2, <2>3 DEF CommitAssign, ChangesHands, Outcomes
  <2>4. CASE s # tx[h].session
    BY <1>1, <2>1, <2>4 DEF CommitAssign
  <2>5. QED
    BY <2>3, <2>4
<1>2. ASSUME NEW h \in Handlers, CommitDelete(h)
      PROVE  RowStep(s)
  <2>1. tx[h].battery \in Batteries
    BY <1>2 DEF CommitDelete, NamesRows
  <2>2. CASE sessions[s].battery = tx[h].battery
    <3>1. sessions'[s] = [sessions[s] EXCEPT !.battery = None] /\ Watched
      BY <1>2, <2>2 DEF CommitDelete
    <3>2. sessions[s].state # "new"
      BY <2>1, <2>2 DEF FreshRows, NoRow
    <3>3. QED
      BY <3>1, <3>2 DEF ChangesHands, BatteryOrNone
  <2>3. CASE sessions[s].battery # tx[h].battery
    BY <1>2, <2>3 DEF CommitDelete
  <2>4. QED
    BY <2>2, <2>3
<1>3. CASE BeginSession
  <2>1. PICK t \in Sessions, began \in Starts :
          /\ \A u \in Sessions : sessions[u].state = "new" <=> u >= t
          /\ sessions' = [sessions EXCEPT ![t] = [NoRow EXCEPT !.state = "running",
                            !.battery = start.battery, !.kind = start.kind, !.began = began]]
          /\ runs' = [runs EXCEPT ![t].at = "running"]
    BY <1>3 DEF BeginSession
  <2>2. CASE s = t
    <3>1. sessions[s].state = "new"
      BY <2>1, <2>2 DEF Sessions
    <3>2. runs'[s].at = "running"
      BY <2>1, <2>2 DEF RunOf
    <3>3. QED
      BY <1>3, <2>1, <2>2, <3>1, <3>2 DEF Begins, BeginSession
  <2>3. CASE s # t
    BY <2>1, <2>3
  <2>4. QED
    BY <2>2, <2>3
<1>4. ASSUME NEW t \in Sessions, RecordOnset(t)
      PROVE  RowStep(s)
  BY <1>4 DEF RecordOnset, OnsetRecorded
<1>5. ASSUME NEW t \in Sessions, NEW outcome \in Outcomes, FinishSave(t, outcome)
      PROVE  RowStep(s)
  BY <1>5 DEF FinishSave, Finalized
<1>6. CASE Reconcile
  BY <1>6 DEF Reconcile, Reconciled
<1>7. ASSUME NEW t \in Sessions,
             CaptureOnset(t) \/ OnsetLost(t) \/ FinishRead(t) \/ FinishLost(t)
      PROVE  RowStep(s)
  BY <1>7 DEF CaptureOnset, OnsetLost, FinishRead, FinishLost, rows
<1>8. CASE ReconcileUnavailable \/ Restart
  BY <1>8 DEF ReconcileUnavailable, Restart, rows
<1>9. CASE ~AtRows
  BY <1>9, QuietStep
<1>10. QED
  BY <1>1, <1>2, <1>3, <1>4, <1>5, <1>6, <1>7, <1>8, <1>9 DEF AtRows

------------------------------------------------------------------------------
(***************************************************************************)
(* The invariant of the rows.                                              *)
(***************************************************************************)
\* Every step keeps what it says of runs, recorders and reconciliation.
LEMMA RunsStep ==
  ASSUME HistoryInv, [Next]_vars
  PROVE  FreshRows' /\ OpenRuns' /\ ReconciledRunsAreLive'
<1> USE DEF HistoryInv, TypeOK
<1> DEFINE Good(s) ==
      /\ sessions'[s].state = "new" =>
           sessions'[s] = NoRow /\ runs'[s] = NoRun /\ s \notin recorders'
      /\ runs'[s].at \in {"running", "read"} => sessions'[s].state \in {"running", "failed"}
      /\ boot' = "closed" => ~(sessions'[s].state = "running" /\ runs'[s].at = "none")
<1> SUFFICES ASSUME NEW s \in Sessions PROVE Good(s)
  BY DEF FreshRows, OpenRuns, ReconciledRunsAreLive, Orphan
<1>0. /\ sessions[s].state = "new" => sessions[s] = NoRow /\ runs[s] = NoRun /\ s \notin recorders
      /\ runs[s].at \in {"running", "read"} => sessions[s].state \in {"running", "failed"}
      /\ boot = "closed" => ~(sessions[s].state = "running" /\ runs[s].at = "none")
  BY DEF FreshRows, OpenRuns, ReconciledRunsAreLive, Orphan
<1>1. ASSUME NEW h \in Handlers, CommitAssign(h) \/ CommitDelete(h)
      PROVE  Good(s)
  <2>1. UNCHANGED <<runs, recorders, boot>>
    BY <1>1 DEF CommitAssign, CommitDelete, Close, engine
  <2>2. sessions'[s].state = sessions[s].state
    BY <1>1 DEF CommitAssign, CommitDelete, SessionRow
  <2>3. sessions[s].state = "new" => sessions'[s] = sessions[s]
    <3>1. ASSUME CommitAssign(h) PROVE sessions[s].state = "new" => sessions'[s] = sessions[s]
      BY <3>1 DEF CommitAssign, AssignsFinished, Outcomes
    <3>2. ASSUME CommitDelete(h) PROVE sessions[s].state = "new" => sessions'[s] = sessions[s]
      BY <3>2, <1>0 DEF CommitDelete, NamesRows, NoRow
    <3>3. QED
      BY <1>1, <3>1, <3>2
  <2>4. QED
    BY <1>0, <2>1, <2>2, <2>3
<1>2. CASE BeginSession
  <2>1. PICK t \in Sessions, began \in Starts :
          /\ sessions' = [sessions EXCEPT ![t] = [NoRow EXCEPT !.state = "running",
                            !.battery = start.battery, !.kind = start.kind, !.began = began]]
          /\ runs' = [runs EXCEPT ![t].at = "running"]
    BY <1>2 DEF BeginSession
  <2>2. UNCHANGED <<recorders, boot>>
    BY <1>2 DEF BeginSession
  <2>3. CASE s = t
    <3>1. sessions'[s].state = "running" /\ runs'[s].at = "running"
      BY <2>1, <2>3 DEF NoRow, RunOf
    <3>2. QED
      BY <3>1
  <2>4. CASE s # t
    BY <1>0, <2>1, <2>2, <2>4
  <2>5. QED
    BY <2>3, <2>4
<1>3. ASSUME NEW t \in Sessions, CaptureOnset(t)
      PROVE  Good(s)
  BY <1>0, <1>3 DEF CaptureOnset, rows, RunOf, NoRun
<1>4. ASSUME NEW t \in Sessions, RecordOnset(t)
      PROVE  Good(s)
  <2>1. sessions'[s].state = sessions[s].state /\ (s # t => sessions'[s] = sessions[s])
    BY <1>4 DEF RecordOnset, SessionRow
  <2>2. recorders' = recorders \ {t} /\ t \in recorders /\ UNCHANGED <<runs, boot>>
    BY <1>4 DEF RecordOnset
  <2>3. QED
    BY <1>0, <2>1, <2>2
<1>5. ASSUME NEW t \in Sessions, OnsetLost(t)
      PROVE  Good(s)
  BY <1>0, <1>5 DEF OnsetLost, rows
<1>6. ASSUME NEW t \in Sessions, FinishRead(t) \/ FinishLost(t)
      PROVE  Good(s)
  <2>1. UNCHANGED <<sessions, recorders, boot>>
    BY <1>6 DEF FinishRead, FinishLost, rows
  <2>2. runs[t].at \in {"running", "read"} /\ (s # t => runs'[s] = runs[s])
    BY <1>6 DEF FinishRead, FinishLost
  <2>3. s = t => runs'[s].at \in {"read", "lost"}
    BY <1>6 DEF FinishRead, FinishLost, RunOf, NoRun
  <2>4. QED
    BY <1>0, <2>1, <2>2, <2>3 DEF NoRun
<1>7. ASSUME NEW t \in Sessions, NEW outcome \in Outcomes, FinishSave(t, outcome)
      PROVE  Good(s)
  <2>1. UNCHANGED <<recorders, boot>> /\ (s # t => runs'[s] = runs[s] /\ sessions'[s] = sessions[s])
    BY <1>7 DEF FinishSave
  <2>2. s = t => sessions'[s].state = outcome /\ runs'[s] = NoRun
    BY <1>7 DEF FinishSave, SessionRow
  <2>3. outcome # "new" /\ outcome # "running" /\ NoRun.at = "none"
    BY DEF Outcomes, NoRun
  <2>4. QED
    BY <1>0, <2>1, <2>2, <2>3
<1>8. CASE Reconcile
  <2>1. UNCHANGED <<runs, recorders>>
    BY <1>8 DEF Reconcile
  <2>2. sessions'[s] = IF sessions[s].state = "running"
                       THEN [sessions[s] EXCEPT !.state = "failed"] ELSE sessions[s]
    BY <1>8 DEF Reconcile
  <2>3. IF sessions[s].state = "running" THEN sessions'[s].state = "failed"
                                         ELSE sessions'[s] = sessions[s]
    BY <2>2 DEF SessionRow
  <2>4. QED
    BY <1>0, <2>1, <2>3
<1>9. CASE ReconcileUnavailable
  BY <1>0, <1>9 DEF ReconcileUnavailable, rows
<1>10. CASE Restart
  BY <1>0, <1>10 DEF Restart, rows, NoRun
<1>11. CASE ~AtRows
  BY <1>0, <1>11, QuietStep
<1>12. QED
  BY <1>1, <1>2, <1>3, <1>4, <1>5, <1>6, <1>7, <1>8, <1>9, <1>10, <1>11 DEF AtRows

\* Every step keeps what it says of requests.
LEMMA RequestsStep ==
  ASSUME HistoryInv, [Next]_vars
  PROVE  AssignsFinished' /\ NamesRows'
<1> USE DEF HistoryInv, TypeOK
\* A verdict may be replaced by another one only.
<1>1. \A s \in Sessions : sessions[s].state \in Outcomes => sessions'[s].state \in Outcomes
  <2> SUFFICES ASSUME NEW s \in Sessions, sessions[s].state \in Outcomes
               PROVE  sessions'[s].state \in Outcomes
    OBVIOUS
  <2>1. sessions[s] \in SessionRow /\ sessions[s].state \notin {"new", "running"}
    BY DEF Outcomes
  <2>2. RowStep(s)
    BY RowsStep
  <2>3. CASE sessions'[s] = sessions[s]
    BY <2>3
  <2>4. CASE ChangesHands(s) \/ OnsetRecorded(s)
    BY <2>1, <2>4 DEF ChangesHands, OnsetRecorded, SessionRow
  <2>5. CASE Finalized(s)
    BY <2>1, <2>5 DEF Finalized, SessionRow
  <2>6. QED
    BY <2>1, <2>2, <2>3, <2>4, <2>5 DEF RowStep, Begins, Reconciled
<1>2. ASSUME NEW h \in Handlers, NEW s \in Sessions, NEW b \in Batteries \cup {None},
             OpenAssign(h, s, b)
      PROVE  AssignsFinished' /\ NamesRows'
  <2>1. sessions[s].state \in Outcomes
    BY <1>2 DEF OpenAssign, SessionRow, States, Outcomes
  <2>2. tx'[h].op = "assign" /\ tx'[h].session = s
    BY <1>2 DEF OpenAssign, Open, Idle
  <2>3. \A g \in Handlers \ {h} : tx'[g] = tx[g]
    BY <1>2 DEF OpenAssign, Open
  <2>4. health' = health
    BY <1>2 DEF OpenAssign, Open
  <2>5. AssignsFinished'
    BY <1>1, <2>1, <2>2, <2>3 DEF AssignsFinished
  <2>6. NamesRows'
    BY <2>2, <2>3, <2>4 DEF NamesRows
  <2>7. QED
    BY <2>5, <2>6
<1>3. ASSUME NEW h \in Handlers, NEW b \in Batteries, OpenUpdate(h, b) \/ OpenDelete(h, b)
      PROVE  AssignsFinished' /\ NamesRows'
  <2> DEFINE t == IF OpenUpdate(h, b)
                  THEN [Idle EXCEPT !.op = "update", !.battery = b, !.kind = batteries[b].kind]
                  ELSE [Idle EXCEPT !.op = "delete", !.battery = b]
  <2>0. Open(h, t) /\ t.op \in {"update", "delete"} /\ t.battery = b
    BY <1>3 DEF OpenUpdate, OpenDelete, Idle
  <2> HIDE DEF t
  <2>1. tx'[h].op \in {"update", "delete"} /\ tx'[h].battery = b
    BY <2>0 DEF Open
  <2>2. \A g \in Handlers \ {h} : tx'[g] = tx[g]
    BY <2>0 DEF Open
  <2>3. health' = health
    BY <2>0 DEF Open
  <2>4. AssignsFinished'
    BY <1>1, <2>1, <2>2 DEF AssignsFinished
  <2>5. NamesRows'
    BY <2>1, <2>2, <2>3 DEF NamesRows
  <2>6. QED
    BY <2>4, <2>5
\* A request ends, or goes on, or is one to edit a profile.
<1>4. ASSUME \A h \in Handlers : tx'[h] = tx[h] \/ tx'[h].op \in {"none", "edit"},
             \/ health'.at = "none"
             \/ health'.at # "none" /\ health.at # "none" /\ health'.battery = health.battery
      PROVE  AssignsFinished' /\ NamesRows'
  <2>1. \A h \in Handlers : tx'[h].op \in {"assign", "update", "delete"} => tx'[h] = tx[h]
    BY <1>4
  <2>2. QED
    BY <1>1, <1>4, <2>1 DEF AssignsFinished, NamesRows
<1>5. ASSUME NEW h \in Handlers, CommitAssign(h) \/ CommitDelete(h)
      PROVE  AssignsFinished' /\ NamesRows'
  <2>1. \A g \in Handlers : tx'[g] = tx[g] \/ tx'[g].op = "none"
    BY <1>5 DEF CommitAssign, CommitDelete, Close, Idle
  <2>2. health' = [health EXCEPT !.left = health'.left]
    BY <1>5, WatchedType DEF CommitAssign, CommitDelete
  <2>3. health'.at = health.at /\ health'.battery = health.battery
    BY <2>2 DEF Reader
  <2>4. QED
    BY <1>4, <2>1, <2>3
<1>6. ASSUME NEW h \in Handlers, SaveEdit(h) \/ CommitUpdate(h) \/ \E k \in Kinds : OpenEdit(h, k)
      PROVE  AssignsFinished' /\ NamesRows'
  <2>1. \A g \in Handlers : tx'[g] = tx[g] \/ tx'[g].op \in {"none", "edit"}
    <3>1. CASE SaveEdit(h) \/ CommitUpdate(h)
      BY <3>1 DEF SaveEdit, CommitUpdate, Close, Idle
    <3>2. ASSUME NEW k \in Kinds, OpenEdit(h, k)
          PROVE  \A g \in Handlers : tx'[g] = tx[g] \/ tx'[g].op = "edit"
      BY <3>2 DEF OpenEdit, Idle
    <3>3. QED
      BY <1>6, <3>1, <3>2
  <2>2. health' = health
    BY <1>6 DEF SaveEdit, CommitUpdate, OpenEdit, Close
  <2>3. QED
    BY <1>4, <2>1, <2>2
<1>7. ASSUME NEW b \in Batteries, GetBattery(b)
      PROVE  AssignsFinished' /\ NamesRows'
  <2>1. tx' = tx
    BY <1>7 DEF GetBattery, Reads
  <2>2. health'.battery = b
    BY <1>7 DEF GetBattery, Reads, NoHealth
  <2>3. QED
    BY <1>1, <2>1, <2>2 DEF AssignsFinished, NamesRows
<1>8. CASE ReadRatings \/ ReadCapacity \/ ReadThroughput \/ ReadRint
  <2>1. tx' = tx
    BY <1>8 DEF ReadRatings, ReadCapacity, ReadThroughput, ReadRint, Reads
  <2>2. health.at # "none" /\ health'.battery = health.battery
    BY <1>8 DEF ReadRatings, ReadCapacity, ReadThroughput, ReadRint, Reads, Reader
  <2>3. QED
    BY <1>4, <2>1, <2>2
<1>9. CASE Disconnect \/ Restart \/ Answered
  BY <1>4, <1>9 DEF Disconnect, Restart, Answered, Idle, NoHealth
<1>10. CASE UNCHANGED <<tx, health>>
  BY <1>4, <1>10
<1>11. CASE Charger \/ Connect \/ DeleteProfile \/ LoadProfile \/ UNCHANGED vars
  BY <1>10, <1>11 DEF Charger, StartWithoutRow, BeginSession, CaptureOnset, RecordOnset,
     OnsetLost,
     FinishRead, FinishLost, FinishSave, Reconcile, ReconcileUnavailable, Connect, DeleteProfile,
     LoadProfile, vars
<1>12. ASSUME \/ \E k \in Kinds : CreateProfile(k)
              \/ \E b \in Batteries, k \in Kinds : CreateBattery(b, k)
              \/ \E b \in Batteries \cup {None} : Preselect(b)
       PROVE  AssignsFinished' /\ NamesRows'
  BY <1>10, <1>12 DEF CreateProfile, CreateBattery, Preselect
<1>13. QED
  BY <1>2, <1>3, <1>5, <1>6, <1>7, <1>8, <1>9, <1>11, <1>12 DEF Next, Api, Health

\* The invariant holds at first.
LEMMA HistoryInit == Init => HistoryInv
<1> SUFFICES ASSUME Init PROVE HistoryInv
  OBVIOUS
<1>1. FreshRows /\ OpenRuns
  BY DEF Init, FreshRows, OpenRuns, NoRow, NoRun
<1>2. AssignsFinished /\ NamesRows
  BY DEF Init, AssignsFinished, NamesRows, Idle, NoHealth
<1>3. QED
  BY <1>1, <1>2, TypeInit DEF Init, HistoryInv, ReconciledRunsAreLive

LEMMA HistoryStep == HistoryInv /\ [Next]_vars => HistoryInv'
  BY TypeStep, RunsStep, RequestsStep DEF HistoryInv

\* Every variable keeps its type.
THEOREM TypeCorrect == Spec => []TypeOK
<1>1. HistoryInv => TypeOK
  BY DEF HistoryInv
<1>2. QED
  BY <1>1, HistoryInit, HistoryStep, PTL DEF Spec

\* Once reconciliation ran, a session that is "running" has a run in this process, or
\* one whose finalize was lost: whatever the order of boot, connection, crashes and runs.
THEOREM NoOrphans == Spec => []ReconciledRunsAreLive
<1>1. HistoryInv => ReconciledRunsAreLive
  BY DEF HistoryInv
<1>2. QED
  BY <1>1, HistoryInit, HistoryStep, PTL DEF Spec

\* A session keeps its verdict, but for a "failed" that the run still at it replaces.
THEOREM VerdictsStand == Spec => VerdictStands
<1> DEFINE Stands(s) ==
      sessions[s].state \in Outcomes /\ sessions'[s].state # sessions[s].state
      => sessions[s].state = "failed" /\ runs[s].at = "read"
<1>1. HistoryInv /\ [Next]_vars => [\A s \in Sessions : Stands(s)]_vars
  <2> SUFFICES ASSUME HistoryInv, [Next]_vars, NEW s \in Sessions,
                      sessions[s].state \in Outcomes, sessions'[s].state # sessions[s].state
               PROVE  sessions[s].state = "failed" /\ runs[s].at = "read"
    OBVIOUS
  <2>1. sessions[s] \in SessionRow /\ sessions[s].state \notin {"new", "running"}
    BY DEF HistoryInv, TypeOK, Outcomes
  <2>2. RowStep(s)
    BY RowsStep
  <2>3. ~ChangesHands(s) /\ ~OnsetRecorded(s)
    BY <2>1 DEF ChangesHands, OnsetRecorded, SessionRow
  <2>4. runs[s].at = "read"
    BY <2>1, <2>2, <2>3 DEF RowStep, Begins, Reconciled, Finalized
  <2>5. QED
    BY <2>1, <2>4 DEF HistoryInv, OpenRuns
<1>2. QED
  BY <1>1, HistoryInit, HistoryStep, PTL DEF Spec, VerdictStands

\* A captured onset is lost only by a finalize that had read the row before.
THEOREM OnsetsSurvive == Spec => OnsetSurvives
<1> DEFINE Survives(s) ==
      sessions[s].onset /\ ~sessions'[s].onset => runs[s].at = "read" /\ ~runs[s].onset
<1>1. HistoryInv /\ [Next]_vars => [\A s \in Sessions : Survives(s)]_vars
  <2> SUFFICES ASSUME HistoryInv, [Next]_vars, NEW s \in Sessions,
                      sessions[s].onset, ~sessions'[s].onset
               PROVE  runs[s].at = "read" /\ ~runs[s].onset
    OBVIOUS
  <2>1. sessions[s] \in SessionRow /\ runs[s] \in RunOf
    BY DEF HistoryInv, TypeOK
  <2>2. sessions[s].state # "new"
    BY DEF HistoryInv, FreshRows, NoRow
  <2>3. RowStep(s)
    BY RowsStep
  <2>4. ~ChangesHands(s) /\ ~OnsetRecorded(s) /\ ~Reconciled(s)
    BY <2>1, ZenonT(60) DEF ChangesHands, OnsetRecorded, Reconciled, SessionRow
  <2>5. Finalized(s)
    BY <2>2, <2>3, <2>4 DEF RowStep, Begins
  <2>6. runs[s].at = "read" /\ sessions'[s].onset = runs[s].onset
    BY <2>1, <2>5 DEF Finalized, SessionRow
  <2>7. QED
    BY <2>6
<1>2. QED
  BY <1>1, HistoryInit, HistoryStep, PTL DEF Spec, OnsetSurvives

------------------------------------------------------------------------------
(***************************************************************************)
(* The health of a battery.                                                *)
(***************************************************************************)
\* As long as none leaves, the sessions that count stay.
LEMMA EligibleStay ==
  ASSUME HistoryInv, [Next]_vars, health.at = "capacity", health'.battery = health.battery,
         ~health'.left
  PROVE  Eligible(health.battery) \subseteq Eligible(health.battery)'
<1> USE DEF HistoryInv, TypeOK
<1> SUFFICES ASSUME NEW s \in Sessions, sessions[s].battery = health.battery,
                    CapacityEligible(s)
             PROVE  sessions'[s].battery = health.battery /\ CapacityEligible(s)'
  BY DEF Eligible, Of
<1>1. sessions[s] \in SessionRow /\ sessions[s].state = "completed"
  BY DEF CapacityEligible
<1>2. RowStep(s)
  BY RowsStep
<1>3. CASE sessions'[s] = sessions[s]
  BY <1>3 DEF CapacityEligible
<1>4. CASE ChangesHands(s)
  <2>1. \/ health'.left
        \/ \A t \in Of(health.battery) :
             CapacityEligible(t) => sessions'[t].battery = health.battery
    BY <1>4 DEF ChangesHands, Watched, Reader
  <2>2. sessions'[s].battery = health.battery
    BY <2>1 DEF Of
  <2>3. sessions'[s].state = sessions[s].state /\ sessions'[s].began = sessions[s].began
    BY <1>1, <1>4 DEF ChangesHands, SessionRow
  <2>4. QED
    BY <2>2, <2>3 DEF CapacityEligible
<1>5. CASE OnsetRecorded(s)
  BY <1>1, <1>5 DEF OnsetRecorded, SessionRow, CapacityEligible
<1>6. CASE Finalized(s)
  BY <1>1, <1>6 DEF Finalized, OpenRuns
<1>7. QED
  BY <1>1, <1>2, <1>3, <1>4, <1>5, <1>6 DEF RowStep, Begins, Reconciled

\* What may become of the reader.
LEMMA ReaderStep ==
  ASSUME HistoryInv, [Next]_vars
  PROVE  \/ health'.at \in {"none", "found", "rated"}
         \/ ReadCapacity \/ ReadThroughput \/ ReadRint
         \/ /\ health' = [health EXCEPT !.left = health'.left]
            /\ health.left => health'.left
<1> USE DEF HistoryInv
<1>1. ASSUME NEW h \in Handlers, CommitAssign(h) \/ CommitDelete(h)
      PROVE  /\ health' = [health EXCEPT !.left = health'.left]
             /\ health.left => health'.left
  BY <1>1, WatchedType DEF CommitAssign, CommitDelete
<1>2. ASSUME NEW b \in Batteries, GetBattery(b)
      PROVE  health'.at = "found"
  BY <1>2 DEF GetBattery, Reads, NoHealth
<1>3. CASE ReadRatings
  <2>1. health'.at = "rated"
    BY <1>3 DEF ReadRatings, Reads, TypeOK, Reader
  <2>2. QED
    BY <2>1
<1>4. CASE Answered \/ Disconnect \/ Restart
  BY <1>4 DEF Answered, Disconnect, Restart, NoHealth
<1>5. CASE UNCHANGED health
  BY <1>5, SMTT(30) DEF TypeOK, Reader
<1>6. CASE Charger \/ Connect \/ DeleteProfile \/ LoadProfile \/ UNCHANGED vars
  BY <1>5, <1>6, ZenonT(60) DEF Charger, StartWithoutRow, BeginSession, CaptureOnset,
     RecordOnset, OnsetLost,
     FinishRead, FinishLost, FinishSave, Reconcile, ReconcileUnavailable, Connect, DeleteProfile,
     LoadProfile, vars
<1>7. ASSUME \/ \E k \in Kinds : CreateProfile(k)
             \/ \E b \in Batteries, k \in Kinds : CreateBattery(b, k)
             \/ \E b \in Batteries \cup {None} : Preselect(b)
             \/ \E h \in Handlers, k \in Kinds : OpenEdit(h, k)
             \/ \E h \in Handlers : SaveEdit(h) \/ CommitUpdate(h)
             \/ \E h \in Handlers, b \in Batteries : OpenUpdate(h, b) \/ OpenDelete(h, b)
             \/ \E h \in Handlers, s \in Sessions, b \in Batteries \cup {None} : OpenAssign(h, s, b)
      PROVE  UNCHANGED health
  BY <1>7 DEF CreateProfile, CreateBattery, Preselect, OpenEdit, SaveEdit, CommitUpdate,
     OpenUpdate, OpenDelete, OpenAssign, Open
<1>8. QED
  BY <1>1, <1>2, <1>3, <1>4, <1>5, <1>6, <1>7 DEF Next, Api, Health

\* A cycle that was counted and has not left the battery is a completed session of it.
LEMMA CyclesStep ==
  ASSUME HistoryInv, CyclesCounted, [Next]_vars
  PROVE  CyclesCounted'
<1> USE DEF HistoryInv, TypeOK
<1>1. CASE health'.at \in {"none", "found", "rated"}
  BY <1>1 DEF CyclesCounted
<1>2. CASE ReadCapacity
  <2>1. health'.at = "capacity" /\ health'.battery = health.battery
        /\ health'.cycles = Cardinality(Eligible(health.battery))
    BY <1>2 DEF ReadCapacity, Reads, Reader, Eligible
  <2>2. UNCHANGED sessions
    BY <1>2 DEF ReadCapacity, Reads, rows
  <2>3. Eligible(health.battery)' = Eligible(health.battery)
    BY <2>1, <2>2 DEF Eligible, Of, CapacityEligible
  <2>4. health'.cycles \in Nat
    BY <2>1, SessionsCount DEF Eligible, Of
  <2>5. QED
    BY <2>1, <2>3, <2>4 DEF CyclesCounted
<1>3. CASE ReadThroughput
  <2> DEFINE worn == {s \in Of(health.battery) : sessions[s].state = "completed"}
  <2>1. /\ health.at = "capacity" /\ health'.at = "throughput"
        /\ health'.left = health.left /\ health'.cycles = health.cycles
        /\ health'.worn = Cardinality(worn)
    BY <1>3 DEF ReadThroughput, Reads, Reader
  <2>2. Eligible(health.battery) \subseteq worn /\ worn \subseteq Sessions
    BY DEF Eligible, CapacityEligible, Of
  <2> HIDE DEF worn
  <2>3. Eligible(health.battery) \subseteq Sessions
    BY <2>2
  <2>4. Cardinality(Eligible(health.battery)) <= Cardinality(worn)
    BY <2>2, SessionsCount, FS_Subset
  <2>5. /\ Cardinality(Eligible(health.battery)) \in Nat /\ Cardinality(worn) \in Nat
        /\ health.cycles \in Nat
    BY <2>2, <2>3, SessionsCount DEF Reader
  <2>6. QED
    BY <2>1, <2>4, <2>5 DEF CyclesCounted
<1>4. CASE ReadRint
  <2>1. /\ health.at = "throughput" /\ health'.at = "answered"
        /\ health'.left = health.left /\ health'.cycles = health.cycles
        /\ health'.worn = health.worn
    BY <1>4 DEF ReadRint, Reads, Reader
  <2>2. QED
    BY <2>1 DEF CyclesCounted
<1>5. CASE /\ health' = [health EXCEPT !.left = health'.left]
           /\ health.left => health'.left
  <2>1. /\ health'.at = health.at /\ health'.battery = health.battery
        /\ health'.cycles = health.cycles /\ health'.worn = health.worn
    BY <1>5 DEF Reader
  <2>2. CASE health.at = "capacity" /\ ~health'.left
    <3> DEFINE E == Eligible(health.battery)
               F == Eligible(health.battery)'
    <3>1. E \subseteq F
      BY <2>1, <2>2, EligibleStay
    <3>2. F \subseteq Sessions
      BY DEF Eligible, Of
    <3>3. health'.cycles <= Cardinality(F) => CyclesCounted'
      BY <2>1, <2>2 DEF CyclesCounted
    <3>4. health.cycles <= Cardinality(E)
      BY <1>5, <2>2 DEF CyclesCounted
    <3> HIDE DEF E, F
    <3>5. Cardinality(E) <= Cardinality(F)
      BY <3>1, <3>2, SessionsCount, FS_Subset
    <3>6. Cardinality(E) \in Nat /\ Cardinality(F) \in Nat /\ health.cycles \in Nat
      BY <3>1, <3>2, SessionsCount DEF Reader
    <3>7. health'.cycles <= Cardinality(F)
      BY <2>1, <3>4, <3>5, <3>6
    <3>8. QED
      BY <3>3, <3>7
  <2>3. CASE health.at # "capacity" \/ health'.left
    BY <1>5, <2>1, <2>3 DEF CyclesCounted
  <2>4. QED
    BY <2>2, <2>3
<1>6. QED
  BY <1>1, <1>2, <1>3, <1>4, <1>5, ReaderStep

\* Every full cycle a battery's health counts is in its throughput, unless a session
\* left the battery between the statements.
THEOREM CyclesInThroughput == Spec => []CyclesAreThroughput
<1>1. Init => HistoryInv /\ CyclesCounted
  BY HistoryInit DEF Init, CyclesCounted, NoHealth
<1>2. HistoryInv /\ CyclesCounted /\ [Next]_vars => (HistoryInv /\ CyclesCounted)'
  BY HistoryStep, CyclesStep
<1>3. CyclesCounted => CyclesAreThroughput
  BY DEF CyclesCounted, CyclesAreThroughput
<1>4. QED
  BY <1>1, <1>2, <1>3, PTL DEF Spec

------------------------------------------------------------------------------
(***************************************************************************)
(* The batteries, on a single connection.                                  *)
(***************************************************************************)
\* What a step does to the batteries.
LEMMA BatteriesStep ==
  ASSUME LibraryInv, [Next]_vars
  PROVE  \/ UNCHANGED batteries
         \/ \E b \in Batteries, k \in Kinds : CreateBattery(b, k)
         \/ \E h \in Handlers : CommitUpdate(h) \/ CommitDelete(h)
<1> USE DEF rows, engine
<1>1. CASE Api
  BY <1>1 DEF Api, CreateProfile, OpenEdit, DeleteProfile, OpenAssign, OpenUpdate, OpenDelete,
     SaveEdit, CommitAssign, LoadProfile, Preselect, Open
<1>2. CASE Health
  BY <1>2, ZenonT(60) DEF Health, GetBattery, ReadRatings, ReadCapacity, ReadThroughput,
     ReadRint, Answered,
     Reads
<1>3. CASE Charger
  BY <1>3 DEF Charger, StartWithoutRow, BeginSession, CaptureOnset, RecordOnset, OnsetLost,
     FinishRead, FinishLost, FinishSave, Reconcile, ReconcileUnavailable
<1>4. CASE Connect \/ Disconnect \/ Restart \/ UNCHANGED vars
  BY <1>4 DEF Connect, Disconnect, Restart, vars
<1>5. QED
  BY <1>1, <1>2, <1>3, <1>4, SMTT(30) DEF Next

\* A battery keeps its kind, and is there until it is deleted.
LEMMA KindStays ==
  ASSUME LibraryInv, [Next]_vars, NEW b \in Batteries
  PROVE  /\ \A k : OfKind(b, k) => OfKind(b, k)'
         /\ Live(b) => Live(b)' \/ \E h \in Handlers : CommitDelete(h) /\ tx[h].battery = b
<1> USE DEF LibraryInv, HistoryInv, TypeOK, OfKind, Live
<1>1. CASE UNCHANGED batteries
  BY <1>1
<1>2. ASSUME NEW c \in Batteries, NEW k \in Kinds, CreateBattery(c, k)
      PROVE  /\ \A j : OfKind(b, j) => OfKind(b, j)'
             /\ Live(b) => Live(b)'
  BY <1>2 DEF CreateBattery
<1>3. ASSUME NEW h \in Handlers, CommitUpdate(h)
      PROVE  /\ \A j : OfKind(b, j) => OfKind(b, j)'
             /\ Live(b) => Live(b)'
  <2>1. Live(tx[h].battery) /\ OfKind(tx[h].battery, tx[h].kind)
    BY <1>3 DEF CommitUpdate, ReadsHold, Holds
  <2>2. batteries' = [batteries EXCEPT ![tx[h].battery] = [state |-> "live", kind |-> tx[h].kind]]
    BY <1>3 DEF CommitUpdate
  <2>3. QED
    BY <2>1, <2>2
<1>4. ASSUME NEW h \in Handlers, CommitDelete(h)
      PROVE  /\ \A j : OfKind(b, j) => OfKind(b, j)'
             /\ Live(b) => Live(b)' \/ (CommitDelete(h) /\ tx[h].battery = b)
  <2>1. batteries' = [batteries EXCEPT ![tx[h].battery].state = "gone"]
    BY <1>4 DEF CommitDelete
  <2>2. /\ b # tx[h].battery => batteries'[b] = batteries[b]
        /\ b = tx[h].battery => batteries'[b] = [batteries[b] EXCEPT !.state = "gone"]
    BY <2>1
  <2>3. batteries[b] \in BatteryRow
    OBVIOUS
  <2>4. CASE b = tx[h].battery
    BY <1>4, <2>2, <2>3, <2>4 DEF BatteryRow
  <2>5. CASE b # tx[h].battery
    BY <2>2, <2>5, SMTT(30)
  <2>6. QED
    BY <2>4, <2>5
<1>5. QED
  BY <1>1, <1>2, <1>3, <1>4, BatteriesStep

\* A session that has begun keeps its kind.
LEMMA SessionKindStays ==
  ASSUME HistoryInv, [Next]_vars, NEW s \in Sessions, sessions[s].state # "new"
  PROVE  sessions'[s].kind = sessions[s].kind
<1>1. RowStep(s)
  BY RowsStep
<1>2. sessions[s] \in SessionRow
  BY DEF HistoryInv, TypeOK
<1>3. QED
  BY <1>1, <1>2 DEF RowStep, Begins, ChangesHands, OnsetRecorded, Finalized, Reconciled,
     SessionRow

\* While nothing is deleted, what a transaction read holds on.
LEMMA HoldsOn ==
  ASSUME LibraryInv, [Next]_vars, NEW h \in Handlers, NEW t, t = tx[h],
         \A g \in Handlers : ~CommitDelete(g)
  PROVE  Holds(t)'
<1> USE DEF LibraryInv
<1>1. \A b \in Batteries : /\ \A k : OfKind(b, k) => OfKind(b, k)'
                           /\ Live(b) => Live(b)'
  BY KindStays
<1>2. t \in Request /\ Holds(t)
  BY DEF HistoryInv, TypeOK, ReadsHold
<1>3. t.battery # None => t.battery \in Batteries
  BY <1>2 DEF Request, BatteryOrNone
<1>4. t.op = "assign" => sessions'[t.session].kind = sessions[t.session].kind
  BY SessionKindStays DEF HistoryInv, AssignsFinished, Outcomes
<1>5. t.op = "assign" /\ t.battery # None =>
        (Live(t.battery) /\ OfKind(t.battery, sessions[t.session].kind))'
  BY <1>1, <1>2, <1>3, <1>4 DEF Holds, OfKind
<1>6. t.op \in {"update", "delete"} => t.battery \in Batteries
  BY DEF HistoryInv, NamesRows
<1>7. t.op = "update" => (Live(t.battery) /\ OfKind(t.battery, t.kind))'
  BY <1>1, <1>2, <1>6 DEF Holds
<1>8. t.op = "delete" => Live(t.battery)'
  BY <1>1, <1>2, <1>6 DEF Holds
<1>9. QED
  BY <1>5, <1>7, <1>8 DEF Holds

\* How a request goes on: it opens, commits, is one about a profile, or is let be.
LEMMA RequestGoesOn ==
  ASSUME SingleConn, LibraryInv, [Next]_vars
  PROVE  \/ \E h \in Handlers, t \in Request : Open(h, t) /\ Holds(t)
         \/ \E h \in Handlers : InTransaction(tx[h]) /\ Close(h)
         \/ /\ \A h \in Handlers : tx'[h] = tx[h] \/ tx'[h].op \in {"none", "edit"}
            /\ conn' = conn
            /\ \A h \in Handlers : ~CommitDelete(h)
         \/ \A h \in Handlers : tx'[h] = Idle
<1> USE DEF LibraryInv, HistoryInv, TypeOK
<1>1. ASSUME NEW h \in Handlers, NEW s \in Sessions, NEW b \in Batteries \cup {None},
             OpenAssign(h, s, b)
      PROVE  \E t \in Request : Open(h, t) /\ Holds(t)
  <2> DEFINE t == [Idle EXCEPT !.op = "assign", !.session = s, !.battery = b]
  <2>1. t \in Request
    BY DEF Idle, Request, BatteryOrNone, KindOrNone
  <2>2. t.op = "assign" /\ t.battery = b /\ t.session = s
    BY DEF Idle
  <2>3. Open(h, t)
    BY <1>1 DEF OpenAssign
  <2> HIDE DEF t
  <2>4. Holds(t)
    BY <1>1, <2>2 DEF OpenAssign, Holds, OfKind, Live
  <2>5. QED
    BY <2>1, <2>3, <2>4
<1>2. ASSUME NEW h \in Handlers, NEW b \in Batteries, OpenUpdate(h, b)
      PROVE  \E t \in Request : Open(h, t) /\ Holds(t)
  <2> DEFINE t == [Idle EXCEPT !.op = "update", !.battery = b, !.kind = batteries[b].kind]
  <2>1. t \in Request
    BY DEF Idle, Request, BatteryOrNone, BatteryRow, NoSession
  <2>2. t.op = "update" /\ t.battery = b /\ t.kind = batteries[b].kind
    BY DEF Idle
  <2>3. Open(h, t)
    BY <1>2 DEF OpenUpdate
  <2> HIDE DEF t
  <2>4. Holds(t)
    BY <1>2, <2>2 DEF OpenUpdate, Holds, OfKind, Live
  <2>5. QED
    BY <2>1, <2>3, <2>4
<1>3. ASSUME NEW h \in Handlers, NEW b \in Batteries, OpenDelete(h, b)
      PROVE  \E t \in Request : Open(h, t) /\ Holds(t)
  <2> DEFINE t == [Idle EXCEPT !.op = "delete", !.battery = b]
  <2>1. t \in Request
    BY DEF Idle, Request, BatteryOrNone, KindOrNone, NoSession
  <2>2. t.op = "delete" /\ t.battery = b
    BY DEF Idle
  <2>3. Open(h, t)
    BY <1>3 DEF OpenDelete
  <2> HIDE DEF t
  <2>4. Holds(t)
    BY <1>3, <2>2 DEF OpenDelete, Holds
  <2>5. QED
    BY <2>1, <2>3, <2>4
<1>4. ASSUME NEW h \in Handlers, CommitUpdate(h) \/ CommitAssign(h) \/ CommitDelete(h)
      PROVE  InTransaction(tx[h]) /\ Close(h)
  BY <1>4 DEF CommitUpdate, CommitAssign, CommitDelete, InTransaction
<1>5. ASSUME Disconnect \/ Restart
      PROVE  \A h \in Handlers : tx'[h] = Idle
  BY <1>5 DEF Disconnect, Restart
<1> DEFINE Rest == /\ \A h \in Handlers : tx'[h] = tx[h] \/ tx'[h].op \in {"none", "edit"}
                   /\ conn' = conn
<1>6. ASSUME NEW h \in Handlers, SaveEdit(h) \/ \E k \in Kinds : OpenEdit(h, k)
      PROVE  Rest
  <2>1. CASE SaveEdit(h)
    BY <2>1 DEF SaveEdit, Idle
  <2>2. ASSUME NEW k \in Kinds, OpenEdit(h, k)
        PROVE  Rest
    BY <2>2 DEF OpenEdit, Idle
  <2>3. QED
    BY <1>6, <2>1, <2>2
<1> HIDE DEF Rest, TypeOK, HistoryInv, LibraryInv
<1>7. ASSUME Health \/ Charger \/ Connect \/ UNCHANGED vars
      PROVE  Rest
  <2>1. UNCHANGED <<tx, conn>>
    BY <1>7 DEF Health, GetBattery, ReadRatings, ReadCapacity, ReadThroughput, ReadRint,
       Answered, Reads, Charger, StartWithoutRow, BeginSession, CaptureOnset, RecordOnset,
       OnsetLost, FinishRead, FinishLost, FinishSave, Reconcile, ReconcileUnavailable, Connect, vars
  <2>2. QED
    BY <2>1 DEF Rest
<1>8. ASSUME \/ \E k \in Kinds : CreateProfile(k)
             \/ \E b \in Batteries, k \in Kinds : CreateBattery(b, k)
             \/ \E b \in Batteries \cup {None} : Preselect(b)
             \/ DeleteProfile \/ LoadProfile
      PROVE  Rest
  <2>1. UNCHANGED <<tx, conn>>
    BY <1>8 DEF CreateProfile, CreateBattery, Preselect, DeleteProfile, LoadProfile
  <2>2. QED
    BY <2>1 DEF Rest
<1>9. \/ Rest
      \/ \E h \in Handlers, t \in Request : Open(h, t) /\ Holds(t)
      \/ \E h \in Handlers : InTransaction(tx[h]) /\ Close(h)
      \/ \A h \in Handlers : tx'[h] = Idle
  <2>1. CASE Api
    BY <1>1, <1>2, <1>3, <1>4, <1>6, <1>8, <2>1 DEF Api
  <2>2. QED
    BY <1>5, <1>7, <2>1 DEF Next
<1>10. (\E h \in Handlers : CommitDelete(h)) => \E h \in Handlers : InTransaction(tx[h]) /\ Close(h)
  BY <1>4
<1>11. QED
  BY <1>9, <1>10 DEF Rest

\* On one connection, whoever has it is alone, and what it read holds until it writes.
LEMMA RequestsHold ==
  ASSUME SingleConn, LibraryInv, [Next]_vars
  PROVE  Exclusive' /\ ReadsHold'
<1> USE DEF LibraryInv
<1>0. /\ \A t : t.op \in {"none", "edit"} => Holds(t)' /\ ~InTransaction(t)
      /\ Idle.op = "none"
  BY DEF Holds, InTransaction, Idle
<1>1. ASSUME NEW h \in Handlers, NEW t \in Request, Open(h, t), Holds(t)
      PROVE  Exclusive' /\ ReadsHold'
  <2>1. /\ tx' = [tx EXCEPT ![h] = t] /\ conn = None /\ conn' = h
        /\ UNCHANGED <<sessions, batteries>>
    BY <1>1 DEF Open, Usable, rows
  <2>2. \A g \in Handlers : ~InTransaction(tx[g])
    BY <2>1 DEF Exclusive
  <2>3. tx'[h] = t /\ \A g \in Handlers \ {h} : tx'[g] = tx[g]
    BY <2>1 DEF HistoryInv, TypeOK
  <2>4. Holds(t)'
    BY <1>1, <2>1 DEF Holds, Live, OfKind
  <2>5. \A g \in Handlers \ {h} : Holds(tx[g]) /\ ~InTransaction(tx[g])
    BY <2>2 DEF ReadsHold
  <2>6. ReadsHold'
    BY <2>3, <2>4, <2>5 DEF ReadsHold, Holds, InTransaction
  <2>7. QED
    BY <2>1, <2>3, <2>5, <2>6 DEF Exclusive, InTransaction
<1>2. ASSUME NEW h \in Handlers, InTransaction(tx[h]), Close(h)
      PROVE  Exclusive' /\ ReadsHold'
  <2>1. conn = h /\ tx'[h] = Idle /\ \A g \in Handlers \ {h} : tx'[g] = tx[g]
    BY <1>2 DEF Exclusive, Close, HistoryInv, TypeOK
  <2>2. \A g \in Handlers : ~InTransaction(tx'[g])
    BY <1>0, <2>1 DEF Exclusive, InTransaction
  <2>3. QED
    BY <2>2 DEF Exclusive, ReadsHold, Holds, InTransaction
<1>3. ASSUME \A h \in Handlers : tx'[h] = tx[h] \/ tx'[h].op \in {"none", "edit"},
             conn' = conn,
             \A h \in Handlers : ~CommitDelete(h)
      PROVE  Exclusive' /\ ReadsHold'
  <2>1. Exclusive'
    BY <1>3 DEF Exclusive, InTransaction
  <2>2. ASSUME NEW h \in Handlers PROVE Holds(tx[h])'
    <3>1. CASE tx'[h] = tx[h]
      BY <1>3, <3>1, HoldsOn DEF Holds
    <3>2. CASE tx'[h].op \in {"none", "edit"}
      BY <3>2 DEF Holds
    <3>3. QED
      BY <1>3, <3>1, <3>2
  <2>3. QED
    BY <2>1, <2>2 DEF ReadsHold
<1>4. ASSUME \A h \in Handlers : tx'[h] = Idle
      PROVE  Exclusive' /\ ReadsHold'
  BY <1>0, <1>4 DEF Exclusive, ReadsHold, Holds, InTransaction
<1>5. QED
  BY <1>1, <1>2, <1>3, <1>4, RequestGoesOn

\* Wherever the id of a battery is kept, the battery is of the right kind.
LEMMA KindsStep ==
  ASSUME SingleConn, LibraryInv, [Next]_vars
  PROVE  KindsAgree'
<1> USE DEF LibraryInv
<1> DEFINE Later(b, k) == b \in Batteries /\ batteries'[b].state # "new" /\ batteries'[b].kind = k
<1>0. \A b, k : OfKind(b, k) => Later(b, k)
  BY KindStays DEF OfKind
<1> HIDE DEF Later
<1>t. runs \in [Sessions -> RunOf] /\ start \in Pending
  BY DEF HistoryInv, TypeOK
\* The rows.
<1>1. ASSUME NEW s \in Sessions, sessions'[s].battery # None
      PROVE  Later(sessions'[s].battery, sessions'[s].kind)
  <2>1. RowStep(s) /\ sessions[s] \in SessionRow
    BY RowsStep DEF HistoryInv, TypeOK
  <2>2. sessions[s].battery # None => OfKind(sessions[s].battery, sessions[s].kind)
    BY DEF KindsAgree
  <2> DEFINE b == sessions'[s].battery
             k == sessions'[s].kind
  <2>3. OfKind(b, k)
    <3>1. CASE sessions'[s] = sessions[s]
      BY <1>1, <2>2, <3>1
    <3>2. CASE Begins(s)
      BY <1>1, <3>2 DEF Begins, NoRow, KindsAgree
    <3>3. CASE ChangesHands(s)
      <4>1. sessions'[s].kind = sessions[s].kind
        BY <2>1, <3>3 DEF ChangesHands, SessionRow
      <4>2. PICK c \in BatteryOrNone :
              /\ sessions'[s] = [sessions[s] EXCEPT !.battery = c]
              /\ c # None => \E h \in Handlers : tx[h].op = "assign" /\ tx[h].session = s
                                                /\ tx[h].battery = c
        BY <3>3 DEF ChangesHands
      <4>3. sessions'[s].battery = c
        BY <2>1, <4>2 DEF SessionRow
      <4>4. QED
        BY <1>1, <4>1, <4>2, <4>3 DEF ReadsHold, Holds
    <3>4. CASE OnsetRecorded(s) \/ Reconciled(s)
      BY <1>1, <2>1, <2>2, <3>4 DEF OnsetRecorded, Reconciled, SessionRow
    <3>5. CASE Finalized(s)
      BY <1>1, <2>1, <3>5 DEF Finalized, KindsAgree, SessionRow
    <3>6. QED
      BY <2>1, <3>1, <3>2, <3>3, <3>4, <3>5 DEF RowStep
  <2>4. QED
    BY <1>0, <2>3
\* A finalize reads the row as it is, and the session keeps its kind.
<1>2. ASSUME NEW s \in Sessions, runs'[s].at = "read", runs'[s].battery # None
      PROVE  Later(runs'[s].battery, sessions'[s].kind)
  <2>1. \/ runs'[s] = runs[s]
        \/ runs'[s].at = "read" /\ runs[s].at = "running" /\ runs'[s].battery = sessions[s].battery
    <3>1. ASSUME NEW t \in Sessions, CaptureOnset(t)
          PROVE  runs'[s] = runs[s]
      BY <1>t, <1>2, <3>1 DEF CaptureOnset, RunOf
    <3>2. ASSUME NEW t \in Sessions, FinishRead(t)
          PROVE  \/ runs'[s] = runs[s]
                 \/ runs[s].at = "running" /\ runs'[s].battery = sessions[s].battery
      <4>1. CASE s = t
        <5> DEFINE r == [runs[s] EXCEPT !.at = "read", !.battery = sessions[s].battery,
                                        !.onset = sessions[s].onset]
        <5>1. runs[s].at = "running" /\ runs' = [runs EXCEPT ![s] = r]
          BY <3>2, <4>1 DEF FinishRead
        <5>2. r.battery = sessions[s].battery
          BY <1>t DEF RunOf
        <5> HIDE DEF r
        <5>3. runs'[s] = r
          BY <1>t, <5>1
        <5>4. QED
          BY <5>1, <5>2, <5>3
      <4>2. CASE s # t
        BY <1>t, <3>2, <4>2 DEF FinishRead
      <4>3. QED
        BY <4>1, <4>2
    <3>3. ASSUME BeginSession
          PROVE  runs'[s] = runs[s]
      <4>1. PICK t \in Sessions : runs' = [runs EXCEPT ![t].at = "running"]
        BY <3>3 DEF BeginSession
      <4>2. QED
        BY <1>t, <1>2, <4>1 DEF RunOf
    <3>4. ASSUME NEW t \in Sessions,
                 FinishLost(t) \/ \E outcome \in Outcomes : FinishSave(t, outcome)
          PROVE  runs'[s] = runs[s]
      <4>1. s = t => runs'[s].at \in {"lost", "none"}
        <5>1. CASE FinishLost(t)
          BY <1>t, <5>1 DEF FinishLost, NoRun
        <5>2. ASSUME NEW outcome \in Outcomes, FinishSave(t, outcome)
              PROVE  s = t => runs'[s].at = "none"
          BY <1>t, <5>2 DEF FinishSave, NoRun
        <5>3. QED
          BY <3>4, <5>1, <5>2
      <4>2. s # t => runs'[s] = runs[s]
        BY <1>t, <3>4 DEF FinishLost, FinishSave
      <4>3. QED
        BY <1>2, <4>1, <4>2
    <3>5. CASE Restart
      BY <1>2, <3>5 DEF Restart, NoRun
    <3>6. ASSUME \/ \E h \in Handlers : CommitAssign(h) \/ CommitDelete(h)
                 \/ \E t \in Sessions : RecordOnset(t) \/ OnsetLost(t)
                 \/ Reconcile \/ ReconcileUnavailable
          PROVE  runs' = runs
      BY <3>6 DEF CommitAssign, CommitDelete, Close, engine, RecordOnset, OnsetLost, Reconcile,
         ReconcileUnavailable
    <3>7. CASE ~AtRows
      BY <3>7, QuietStep
    <3>8. QED
      BY <1>2, <3>1, <3>2, <3>3, <3>4, <3>5, <3>6, <3>7 DEF AtRows
  <2>2. runs[s].at \in {"running", "read"}
    BY <1>2, <2>1
  <2>3. sessions[s].state # "new"
    BY <2>2 DEF HistoryInv, OpenRuns
  <2>4. sessions'[s].kind = sessions[s].kind
    BY <2>3, SessionKindStays
  <2> DEFINE b == runs'[s].battery
             k == sessions'[s].kind
  <2>5. OfKind(b, k)
    BY <1>2, <2>1, <2>4 DEF KindsAgree
  <2>6. QED
    BY <1>0, <2>5
\* A start looks at the battery when it takes it.
<1>3. ASSUME start'.at = "validated", start'.battery # None
      PROVE  Later(start'.battery, start'.kind)
  <2>1. start' = start \/ \E b \in Batteries \cup {None} : Preselect(b)
    <3>1. CASE Api
      <4>1. ASSUME LoadProfile PROVE FALSE
        BY <1>3, <4>1 DEF LoadProfile, NoStart
      <4>2. QED
        BY <3>1, <4>1 DEF Api, CreateProfile, OpenEdit, DeleteProfile, CreateBattery,
           OpenAssign,
           OpenUpdate, OpenDelete, SaveEdit, CommitUpdate, CommitAssign, CommitDelete, Open, Close,
           engine
    <3>2. CASE Health
      BY <3>2, ZenonT(60) DEF Health, GetBattery, ReadRatings, ReadCapacity, ReadThroughput,
         ReadRint, Answered,
         Reads, engine
    <3>3. CASE Charger
      <4>1. ASSUME StartWithoutRow \/ BeginSession PROVE FALSE
        <5>1. start' = NoStart
          BY <4>1 DEF StartWithoutRow, BeginSession
        <5>2. QED
          BY <1>3, <5>1 DEF NoStart
      <4>2. QED
        BY <3>3, <4>1 DEF Charger, CaptureOnset, RecordOnset, OnsetLost, FinishRead, FinishLost,
           FinishSave, Reconcile, ReconcileUnavailable
    <3>4. CASE Connect \/ Disconnect \/ Restart \/ UNCHANGED vars
      BY <1>3, <3>4 DEF Connect, Disconnect, Restart, vars, engine, NoStart
    <3>5. QED
      BY <3>1, <3>2, <3>3, <3>4, SMTT(30) DEF Next
  <2> DEFINE b == start'.battery
             k == start'.kind
  <2>2. OfKind(b, k)
    <3>1. CASE start' = start
      BY <1>3, <3>1 DEF KindsAgree
    <3>2. ASSUME NEW c \in Batteries \cup {None}, Preselect(c)
          PROVE  OfKind(b, k)
      <4>1. b = c /\ k = start.kind
        BY <3>2 DEF Preselect, HistoryInv, TypeOK, Pending
      <4>2. QED
        BY <1>3, <3>2, <4>1 DEF Preselect, OfKind, Live
    <3>3. QED
      BY <2>1, <3>1, <3>2
  <2>3. QED
    BY <1>0, <2>2
<1>4. QED
  BY <1>1, <1>2, <1>3 DEF KindsAgree, OfKind, Later

LEMMA LibraryStep == SingleConn /\ LibraryInv /\ [Next]_vars => LibraryInv'
  BY HistoryStep, RequestsHold, KindsStep DEF LibraryInv

\* On one connection a session names a battery of its own kind; one that is gone comes of
\* a start that had validated it, or of a finalize that had read the row before.
THEOREM NamesHold == ASSUME SingleConn PROVE Spec => NamesItsBattery
<1> DEFINE Named(s) ==
      /\ ~Dangles(s) /\ Dangles(s)' => \/ start.at = "validated" /\ sessions[s].state = "new"
                                       \/ runs[s].at = "read"
      /\ \A b \in Batteries :
           (sessions[s].battery = b /\ Live(b) => sessions[s].kind = batteries[b].kind)'
<1>1. Init => LibraryInv
  BY HistoryInit DEF Init, LibraryInv, Exclusive, InTransaction, ReadsHold, Holds, KindsAgree,
     Idle, NoRow, NoRun, NoStart
<1>2. LibraryInv /\ [Next]_vars => [\A s \in Sessions : Named(s)]_vars
  <2> SUFFICES ASSUME LibraryInv, [Next]_vars, NEW s \in Sessions
               PROVE  Named(s)
    OBVIOUS
  <2>1. KindsAgree'
    BY KindsStep
  <2>2. \A b \in Batteries :
          (sessions[s].battery = b /\ Live(b) => sessions[s].kind = batteries[b].kind)'
    BY <2>1 DEF KindsAgree, OfKind
  <2>3. ASSUME ~Dangles(s), Dangles(s)', runs[s].at # "read",
               ~(start.at = "validated" /\ sessions[s].state = "new")
        PROVE  FALSE
    <3>1. RowStep(s) /\ sessions[s] \in SessionRow
      BY RowsStep DEF LibraryInv, HistoryInv, TypeOK
    <3>2. ~Begins(s) /\ ~Finalized(s)
      BY <2>3 DEF Begins, Finalized
    <3>3. sessions'[s].battery # None /\ ~(batteries'[sessions'[s].battery].state = "live")
      BY <2>3 DEF Dangles, Live
    <3> DEFINE b == sessions'[s].battery
    \* The battery the row names is there before the step.
    <3>4. b \in Batteries /\ Live(b)
      <4>1. CASE sessions'[s] = sessions[s] \/ OnsetRecorded(s) \/ Reconciled(s)
        <5>1. b = sessions[s].battery
          BY <3>1, <4>1 DEF OnsetRecorded, Reconciled, SessionRow
        <5>2. QED
          BY <2>3, <3>1, <3>3, <5>1 DEF Dangles, SessionRow, BatteryOrNone
      <4>2. CASE ChangesHands(s)
        <5>1. PICK c \in BatteryOrNone :
                /\ sessions'[s] = [sessions[s] EXCEPT !.battery = c]
                /\ c # None => \E h \in Handlers : tx[h].op = "assign" /\ tx[h].session = s
                                                  /\ tx[h].battery = c
          BY <4>2 DEF ChangesHands
        <5>2. b = c
          BY <3>1, <5>1 DEF SessionRow
        <5>3. QED
          BY <3>3, <5>1, <5>2 DEF LibraryInv, ReadsHold, Holds, OfKind
      <4>3. QED
        BY <3>1, <3>2, <4>1, <4>2 DEF RowStep
    <3>5. PICK h \in Handlers : CommitDelete(h) /\ tx[h].battery = b
      BY <3>3, <3>4, KindStays DEF Live
    <3>6. sessions'[s] = IF sessions[s].battery = tx[h].battery
                         THEN [sessions[s] EXCEPT !.battery = None] ELSE sessions[s]
      BY <3>5 DEF CommitDelete
    <3>7. sessions'[s].battery = None \/ sessions'[s].battery # tx[h].battery
      BY <3>1, <3>6 DEF SessionRow
    <3>8. QED
      BY <3>3, <3>5, <3>7
  <2>4. QED
    BY <2>2, <2>3
<1>3. QED
  BY <1>1, <1>2, LibraryStep, PTL DEF Spec, NamesItsBattery
=============================================================================
