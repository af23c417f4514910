---------------------------- MODULE ChargeHistory ----------------------------
(***************************************************************************)
(* The history of charges (storage/charge.go, storage/battery.go) and      *)
(* everyone who writes it: the run, which inserts its session row and      *)
(* finalizes it by reading the row and saving it whole; the detached       *)
(* goroutine that records the CC onset; the API, which assigns sessions to *)
(* batteries and edits profiles; the reconciliation at boot, which closes  *)
(* the rows a crash left "running"; and a reader, the health of a battery, *)
(* which is put together from several statements.  The database comes up   *)
(* in the background and may go away at any time.                          *)
(*                                                                         *)
(* A transaction is two steps, what it reads and what it writes; on SQLite *)
(* (SingleConn) it holds the only connection in between.                   *)
(***************************************************************************)
EXTENDS Naturals, FiniteSets

CONSTANTS
  Batteries,    \* ids of library batteries; an id is not used again
  Kinds,        \* chemistry and cells
  None,         \* battery_id 0, and nobody
  MaxSessions,  \* bound: sessions ever recorded
  Handlers,     \* concurrent API requests
  SingleConn    \* DriverSQLite: SetMaxOpenConns(1)

ASSUME IdsAssumption == None \notin Batteries \cup Kinds \cup Handlers
ASSUME BoundAssumption == MaxSessions \in Nat /\ SingleConn \in BOOLEAN

\* autoIncrement; rows are never deleted.
Sessions == 1 .. MaxSessions
NoSession == 0

\* The open-circuit voltage a charge began at, per cell: at or below the "near-empty"
\* threshold of the chemistry, at or above its precharge threshold, or both.
Starts == {"empty", "partial", "both"}

VARIABLES
  sessions,   \* table charge_sessions
  batteries,  \* table batteries
  profile,    \* a row of table charge_profiles: its kind, or None
  ready,      \* Storage.DB() succeeds: connected and migrated
  tx,         \* the transaction of each request
  conn,       \* who holds the only connection, on SQLite
  start,      \* the charge being started: its kind and the battery it is for
  runs,       \* of each session: its run, and what its finalize has read
  recorders,  \* sessions with a recordCCOnset goroutine in flight
  boot,       \* reconcileOnBoot: still to come, done, or given up
  health      \* a request for the health of a battery, and what it has read

rows == <<sessions, batteries, profile>>
engine == <<start, runs, recorders, boot>>
vars == <<sessions, batteries, profile, ready, tx, conn, start, runs, recorders, boot, health>>

Idle == [op |-> "none", session |-> NoSession, battery |-> None, kind |-> None]
NoRow == [state |-> "new", battery |-> None, onset |-> FALSE, kind |-> None, began |-> "empty"]
NoStart == [at |-> "none", kind |-> None, battery |-> None]
\* left is a ghost: a session that counted has left the battery since the request began.
NoHealth == [at |-> "none", battery |-> None, rated |-> FALSE, cycles |-> 0, worn |-> 0,
             steps |-> 0, left |-> FALSE]
NoRun == [at |-> "none", battery |-> None, onset |-> FALSE, captured |-> FALSE]

Init ==
  /\ sessions = [s \in Sessions |-> NoRow]
  /\ batteries = [b \in Batteries |-> [state |-> "new", kind |-> None]]
  /\ profile = None
  /\ ready = FALSE
  /\ tx = [h \in Handlers |-> Idle]
  /\ conn = None
  /\ start = NoStart
  /\ runs = [s \in Sessions |-> NoRun]
  /\ recorders = {}
  /\ boot = "pending"
  /\ health = NoHealth

Live(b) == batteries[b].state = "live"

(***************************************************************************)
(* The connection: Storage.run connects and migrates in the background,    *)
(* watches, and starts over when the connection dies, which rolls back     *)
(* what is open.                                                           *)
(***************************************************************************)
Usable == ready /\ (SingleConn => conn = None)

Connect ==
  /\ ~ready
  /\ ready' = TRUE
  /\ UNCHANGED <<rows, tx, conn, engine, health>>

Disconnect ==
  /\ ready
  /\ ready' = FALSE
  /\ tx' = [h \in Handlers |-> Idle]
  /\ conn' = None
  /\ health' = NoHealth
  /\ UNCHANGED <<rows, engine>>

Open(h, t) ==
  /\ tx[h] = Idle /\ Usable
  /\ tx' = [tx EXCEPT ![h] = t]
  /\ conn' = IF SingleConn THEN h ELSE conn
  /\ UNCHANGED <<rows, ready, engine, health>>
Close(h) ==
  /\ tx' = [tx EXCEPT ![h] = Idle]
  /\ conn' = IF SingleConn THEN None ELSE conn
  /\ UNCHANGED <<ready, engine>>

(***************************************************************************)
(* The API: profiles, the library of batteries, and what belongs to them.  *)
(***************************************************************************)
\* createChargeProfile, of a kind that compiles.
CreateProfile(k) ==
  /\ Usable /\ profile = None
  /\ profile' = k
  /\ UNCHANGED <<sessions, batteries, ready, tx, conn, engine, health>>

\* updateChargeProfile finds the row ...
OpenEdit(h, k) ==
  /\ tx[h] = Idle /\ Usable /\ profile # None
  /\ tx' = [tx EXCEPT ![h] = [Idle EXCEPT !.op = "edit", !.kind = k]]
  /\ UNCHANGED <<rows, ready, conn, engine, health>>

\* ... and saves all of it, in no transaction: one deleted in between is back.
SaveEdit(h) ==
  /\ tx[h].op = "edit" /\ Usable
  /\ profile' = tx[h].kind
  /\ tx' = [tx EXCEPT ![h] = Idle]
  /\ UNCHANGED <<sessions, batteries, ready, conn, engine, health>>

\* deleteChargeProfile; the sessions hold copies of what they need of it.
DeleteProfile ==
  /\ Usable /\ profile # None
  /\ profile' = None
  /\ UNCHANGED <<sessions, batteries, ready, tx, conn, engine, health>>

CreateBattery(b, k) ==
  /\ Usable /\ batteries[b].state = "new"
  /\ batteries' = [batteries EXCEPT ![b] = [state |-> "live", kind |-> k]]
  /\ UNCHANGED <<sessions, profile, ready, tx, conn, engine, health>>

\* UpdateBattery: name, rating, part number and notes; the kind is immutable.
OpenUpdate(h, b) ==
  /\ Live(b)
  /\ Open(h, [Idle EXCEPT !.op = "update", !.battery = b, !.kind = batteries[b].kind])

\* Save writes the row whole, and inserts it if it is gone.
CommitUpdate(h) ==
  /\ tx[h].op = "update"
  /\ batteries' = [batteries EXCEPT ![tx[h].battery] = [state |-> "live", kind |-> tx[h].kind]]
  /\ UNCHANGED <<sessions, profile, health>>
  /\ Close(h)

\* Mutant: the state is not looked at.
CapacityEligibleAnyState(s) == sessions[s].state # "new" /\ sessions[s].began # "partial"

\* CapacityEligible and eligibleSessionPredicate, its SQL twin: a completed charge from
\* empty.  (A completed charge is taken to have delivered something.)
CapacityEligible(s) == sessions[s].state = "completed" /\ sessions[s].began # "partial"

\* RintEligible and rintEligiblePredicate: the CC onset was captured and no precharge
\* ran; the charge need not be completed, nor over.
RintEligible(s) == sessions[s].onset /\ sessions[s].began # "empty"

Of(b) == {s \in Sessions : sessions[s].battery = b}

\* The ghost of the reader below: sessions are about to change hands.
Watched ==
  health' = [health EXCEPT !.left = @ \/ \E s \in Of(health.battery) :
               /\ health.at # "none"
               /\ CapacityEligible(s) /\ sessions'[s].battery # health.battery]

\* AssignSessionBattery: a session that is over, to a battery of its own kind; None
\* unassigns.
OpenAssign(h, s, b) ==
  /\ sessions[s].state \notin {"new", "running"}
  /\ b # None => Live(b) /\ batteries[b].kind = sessions[s].kind
  /\ Open(h, [Idle EXCEPT !.op = "assign", !.session = s, !.battery = b])

CommitAssign(h) ==
  /\ tx[h].op = "assign"
  /\ sessions' = [sessions EXCEPT ![tx[h].session].battery = tx[h].battery]
  /\ Watched
  /\ UNCHANGED <<batteries, profile>>
  /\ Close(h)

\* DeleteBattery: the sessions stay, unassigned.
OpenDelete(h, b) ==
  /\ Live(b)
  /\ Open(h, [Idle EXCEPT !.op = "delete", !.battery = b])

\* Mutant: only the sessions of runs that completed are unassigned.
CommitDeleteSome(h) ==
  /\ tx[h].op = "delete"
  /\ sessions' = [s \in Sessions |->
       IF sessions[s].battery = tx[h].battery /\ sessions[s].state = "completed"
       THEN [sessions[s] EXCEPT !.battery = None] ELSE sessions[s]]
  /\ batteries' = [batteries EXCEPT ![tx[h].battery].state = "gone"]
  /\ Watched
  /\ UNCHANGED profile
  /\ Close(h)

CommitDelete(h) ==
  /\ tx[h].op = "delete"
  /\ sessions' = [s \in Sessions |-> IF sessions[s].battery = tx[h].battery
                                     THEN [sessions[s] EXCEPT !.battery = None] ELSE sessions[s]]
  /\ batteries' = [batteries EXCEPT ![tx[h].battery].state = "gone"]
  /\ Watched
  /\ UNCHANGED profile
  /\ Close(h)

(***************************************************************************)
(* getBattery: the battery and then BatteryHealthMap, a statement at a     *)
(* time, with nothing to hold the tables still between them.               *)
(***************************************************************************)
Reads(from, to) ==
  /\ health.at = from /\ Usable
  /\ health' = [to EXCEPT !.left = health.left]
  /\ UNCHANGED <<rows, ready, tx, conn, engine>>

GetBattery(b) ==
  /\ Live(b)
  /\ Reads("none", [NoHealth EXCEPT !.at = "found", !.battery = b])

\* A battery without a rating row gets a default health, whatever is read later.
ReadRatings ==
  Reads("found", [health EXCEPT !.at = "rated", !.rated = Live(health.battery)])

ReadCapacity ==
  Reads("rated", [health EXCEPT !.at = "capacity",
    !.cycles = Cardinality({s \in Of(health.battery) : CapacityEligible(s)})])

ReadThroughput ==
  Reads("capacity", [health EXCEPT !.at = "throughput",
    !.worn = Cardinality({s \in Of(health.battery) : sessions[s].state = "completed"})])

\* The last statement; deriveBatteryHealth puts the answer together.
ReadRint ==
  Reads("throughput", [health EXCEPT !.at = "answered",
    !.steps = Cardinality({s \in Of(health.battery) : RintEligible(s)})])

Answered ==
  /\ health.at = "answered"
  /\ health' = NoHealth
  /\ UNCHANGED <<rows, ready, tx, conn, engine>>

(***************************************************************************)
(* A run.  It needs the database only to be started; a row it cannot       *)
(* insert is not kept, one it cannot finalize stays "running".             *)
(***************************************************************************)
SlotFree == \A s \in Sessions : runs[s].at # "running"

\* startCharge reads the profile; from here on the request is a copy of it ...
LoadProfile ==
  /\ Usable /\ start = NoStart /\ profile # None
  /\ start' = [NoStart EXCEPT !.at = "loaded", !.kind = profile]
  /\ UNCHANGED <<rows, ready, tx, conn, runs, recorders, boot, health>>

\* ... looks the preselected battery up, if there is one, and the slow Manager.Start
\* begins.
Preselect(b) ==
  /\ start.at = "loaded"
  /\ b # None => Usable /\ Live(b) /\ batteries[b].kind = start.kind
  /\ start' = [start EXCEPT !.at = "validated", !.battery = b]
  /\ UNCHANGED <<rows, ready, tx, conn, runs, recorders, boot, health>>

\* The start was refused, or went on with no row to write to.
StartWithoutRow ==
  /\ start.at # "none"
  /\ start' = NoStart
  /\ UNCHANGED <<rows, ready, tx, conn, runs, recorders, boot, health>>

\* Manager.beginSession, after the output went on.
BeginSession ==
  /\ start.at = "validated" /\ SlotFree /\ Usable
  /\ \E s \in Sessions, began \in Starts :
       /\ \A t \in Sessions : sessions[t].state = "new" <=> t >= s
       /\ sessions' = [sessions EXCEPT ![s] = [NoRow EXCEPT !.state = "running",
                         !.battery = start.battery, !.kind = start.kind, !.began = began]]
       /\ runs' = [runs EXCEPT ![s].at = "running"]
  /\ start' = NoStart
  /\ UNCHANGED <<batteries, profile, ready, tx, conn, recorders, boot, health>>

\* maybeCaptureCCOnset latches and leaves the write to a goroutine.
CaptureOnset(s) ==
  /\ runs[s].at = "running" /\ ~runs[s].captured
  /\ runs' = [runs EXCEPT ![s].captured = TRUE]
  /\ recorders' = recorders \cup {s}
  /\ UNCHANGED <<rows, ready, tx, conn, start, boot, health>>

\* RecordChargeCCOnset, WHERE cc_onset_voltage IS NULL.
RecordOnset(s) ==
  /\ s \in recorders /\ Usable
  /\ sessions' = [sessions EXCEPT ![s].onset = TRUE]
  /\ recorders' = recorders \ {s}
  /\ UNCHANGED <<batteries, profile, ready, tx, conn, start, runs, boot, health>>

\* The write failed or its 5 s are over.
OnsetLost(s) ==
  /\ s \in recorders
  /\ recorders' = recorders \ {s}
  /\ UNCHANGED <<rows, ready, tx, conn, start, runs, boot, health>>

\* The run is over and has given up its slot: UpdateChargeSession reads the row ...
FinishRead(s) ==
  /\ runs[s].at = "running" /\ Usable
  /\ runs' = [runs EXCEPT ![s].at = "read", ![s].battery = sessions[s].battery,
                          ![s].onset = sessions[s].onset]
  /\ UNCHANGED <<rows, ready, tx, conn, start, recorders, boot, health>>

\* Mutant: the onset is not among the columns that are kept.
FinishSaveDropping(s, outcome) ==
  /\ runs[s].at = "read" /\ Usable
  /\ sessions' = [sessions EXCEPT ![s] = [@ EXCEPT !.state = outcome,
                      !.battery = runs[s].battery, !.onset = FALSE]]
  /\ runs' = [runs EXCEPT ![s] = NoRun]
  /\ UNCHANGED <<batteries, profile, ready, tx, conn, start, recorders, boot, health>>

\* ... and saves all of it, with the terminal state.
FinishSave(s, outcome) ==
  /\ runs[s].at = "read" /\ Usable
  /\ sessions' = [sessions EXCEPT ![s] = [@ EXCEPT !.state = outcome,
                      !.battery = runs[s].battery, !.onset = runs[s].onset]]
  /\ runs' = [runs EXCEPT ![s] = NoRun]
  /\ UNCHANGED <<batteries, profile, ready, tx, conn, start, recorders, boot, health>>

\* The database is away, or 5 s are over: a warning is logged, the row stays.
FinishLost(s) ==
  /\ runs[s].at \in {"running", "read"}
  /\ runs' = [runs EXCEPT ![s] = [NoRun EXCEPT !.at = "lost"]]
  /\ UNCHANGED <<rows, ready, tx, conn, start, recorders, boot, health>>

(***************************************************************************)
(* Boot and restart.                                                       *)
(***************************************************************************)
\* Mutant: reconciliation fails every session of before.
ReconcileAll ==
  /\ boot = "pending" /\ Usable
  /\ boot' = "closed"
  /\ sessions' = [s \in Sessions |-> IF sessions[s].state # "new"
                                     THEN [sessions[s] EXCEPT !.state = "failed"] ELSE sessions[s]]
  /\ UNCHANGED <<batteries, profile, ready, tx, conn, start, runs, recorders, health>>

\* Mutant: only the latest session is reconciled.
ReconcileLatest ==
  /\ boot = "pending" /\ Usable
  /\ boot' = "closed"
  /\ sessions' = [s \in Sessions |->
       IF sessions[s].state = "running" /\ \A t \in Sessions : t > s => sessions[t].state = "new"
       THEN [sessions[s] EXCEPT !.state = "failed"] ELSE sessions[s]]
  /\ UNCHANGED <<batteries, profile, ready, tx, conn, start, runs, recorders, health>>

\* MarkRunningChargeSessionsFailed, the one time Manager.Run calls it.
Reconcile ==
  /\ boot = "pending" /\ Usable
  /\ boot' = "closed"
  /\ sessions' = [s \in Sessions |-> IF sessions[s].state = "running"
                                     THEN [sessions[s] EXCEPT !.state = "failed"] ELSE sessions[s]]
  /\ UNCHANGED <<batteries, profile, ready, tx, conn, start, runs, recorders, health>>

\* ErrUnavailable: reconcileOnBoot returns and is not called again.
ReconcileUnavailable ==
  /\ boot = "pending" /\ ~ready
  /\ boot' = "skipped"
  /\ UNCHANGED <<rows, ready, tx, conn, start, runs, recorders, health>>

\* A crash, or an exit that waits for nobody.
Restart ==
  /\ ready' = FALSE
  /\ tx' = [h \in Handlers |-> Idle]
  /\ conn' = None
  /\ start' = NoStart
  /\ runs' = [s \in Sessions |-> NoRun]
  /\ recorders' = {}
  /\ boot' = "pending"
  /\ health' = NoHealth
  /\ UNCHANGED rows

(***************************************************************************)
(* The specification.                                                      *)
(***************************************************************************)
\* A "stopped" run differs from an "aborted" one in its name only.
Outcomes == {"completed", "aborted", "failed"}

Api ==
  \/ \E k \in Kinds : CreateProfile(k)
  \/ \E h \in Handlers, k \in Kinds : OpenEdit(h, k)
  \/ DeleteProfile
  \/ \E b \in Batteries, k \in Kinds : CreateBattery(b, k)
  \/ \E h \in Handlers, s \in Sessions, b \in Batteries \cup {None} : OpenAssign(h, s, b)
  \/ \E h \in Handlers, b \in Batteries : OpenUpdate(h, b) \/ OpenDelete(h, b)
  \/ \E h \in Handlers : SaveEdit(h) \/ CommitUpdate(h) \/ CommitAssign(h) \/ CommitDelete(h)
  \/ LoadProfile \/ \E b \in Batteries \cup {None} : Preselect(b)

Health ==
  \/ \E b \in Batteries : GetBattery(b)
  \/ ReadRatings \/ ReadCapacity \/ ReadThroughput \/ ReadRint \/ Answered

Charger ==
  \/ StartWithoutRow \/ BeginSession
  \/ \E s \in Sessions : CaptureOnset(s) \/ RecordOnset(s) \/ OnsetLost(s)
  \/ \E s \in Sessions : FinishRead(s) \/ FinishLost(s)
  \/ \E s \in Sessions, outcome \in Outcomes : FinishSave(s, outcome)
  \/ Reconcile \/ ReconcileUnavailable

Next == Api \/ Health \/ Charger \/ Connect \/ Disconnect \/ Restart

Spec == Init /\ [][Next]_vars
------------------------------------------------------------------------------
(***************************************************************************)
(* Properties.                                                             *)
(***************************************************************************)
Orphan(s) == sessions[s].state = "running" /\ runs[s].at = "none"
Dangles(s) == sessions[s].battery # None /\ ~Live(sessions[s].battery)

\* Once reconciliation ran, a session that is "running" has a run in this process,
\* or one whose finalize this process lost (MarkRunningChargeSessionsFailed).
ReconciledRunsAreLive == boot = "closed" => \A s \in Sessions : ~Orphan(s)

\* A session that a run finalized, or that reconciliation failed, keeps its verdict:
\* only the run that is still at it may replace a "failed" (reconcile races a start).
VerdictStands ==
  [][\A s \in Sessions :
       sessions[s].state \in Outcomes /\ sessions'[s].state # sessions[s].state
       => sessions[s].state = "failed" /\ runs[s].at = "read"]_vars

\* The captured CC onset is lost only by a finalize that read the row before it was
\* recorded (UpdateChargeSession's list of columns it keeps).
OnsetSurvives ==
  [][\A s \in Sessions :
       sessions[s].onset /\ ~sessions'[s].onset => runs[s].at = "read" /\ ~runs[s].onset]_vars

\* A session names a battery of its own chemistry and cells, however it came to it: by
\* a start from a profile that was edited since, by an assignment, or by a finalize that
\* saves an older row.  Or it names one that is gone, and that comes of a run only: one
\* started for it while it was there, or a finalize that read the row before the
\* deletion.  Assigning and deleting, on one connection, never do it.
NamesItsBattery ==
  [][\A s \in Sessions :
       /\ ~Dangles(s) /\ Dangles(s)' => \/ start.at = "validated" /\ sessions[s].state = "new"
                                        \/ runs[s].at = "read"
       /\ \A b \in Batteries :
            (sessions[s].battery = b /\ Live(b) => sessions[s].kind = batteries[b].kind)']_vars

\* Every full cycle a battery's health counts is also in its throughput, unless a
\* session left the battery between the two statements (BatteryHealthMap).
CyclesAreThroughput ==
  health.at = "answered" => health.cycles <= health.worn \/ health.left
=============================================================================
