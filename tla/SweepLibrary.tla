---------------------------- MODULE SweepLibrary ----------------------------
(***************************************************************************)
(* The library of characterized components (storage/iv.go): sweeps written *)
(* by the tracer, components that group them, and the reference sweep each *)
(* component pins.  Nothing in the database enforces the references; every *)
(* mutation is a transaction that reads, validates and then writes,        *)
(* together with the shared fixup of the pin.                              *)
(*                                                                         *)
(* A transaction is two steps, what it reads and what it writes.  On       *)
(* SQLite (SingleConn) it holds the only connection in between; PostgreSQL *)
(* runs it READ COMMITTED, beside others.                                  *)
(***************************************************************************)
EXTENDS Naturals, FiniteSets

CONSTANTS
  Components,  \* ids of library components
  None,        \* component_id 0, and nobody
  Types,       \* what a sweep measured and a component is; "generic" is one
  MaxSweeps,   \* bound: sweeps ever recorded
  Handlers,    \* concurrent API requests
  SingleConn   \* DriverSQLite: SetMaxOpenConns(1)

ASSUME IdsAssumption == None \notin Components \cup Handlers
ASSUME TypesAssumption == "generic" \in Types
ASSUME BoundAssumption == MaxSweeps \in Nat /\ SingleConn \in BOOLEAN

\* Ids follow started_at: one run at a time records sweeps.
Sweeps == 1 .. MaxSweeps
\* No sweep: ref_sweep_id 0.
NoSweep == 0

VARIABLES
  sweeps,      \* table iv_sweeps
  components,  \* table iv_components
  tx,          \* the transaction of each request
  conn,        \* who holds the only connection, on SQLite
  runs,        \* of each sweep: its run, and how far its FinishSweep is
  reconciled   \* reconcileOnBoot is over

libraryVars == <<sweeps, components, tx, conn, runs, reconciled>>

Idle == [op |-> "none", sweep |-> NoSweep, component |-> None, left |-> None, pin |-> NoSweep]
NoRun == [at |-> "none", component |-> None]

LibraryInit ==
  /\ sweeps = [s \in Sweeps |-> [state |-> "new", component |-> None, type |-> "generic"]]
  /\ components = [c \in Components |-> [state |-> "new", kind |-> "generic", ref |-> NoSweep]]
  /\ tx = [h \in Handlers |-> Idle]
  /\ conn = None
  /\ runs = [s \in Sweeps |-> NoRun]
  /\ reconciled = FALSE

(***************************************************************************)
(* The tables.                                                             *)
(***************************************************************************)
Accepts(kind, type) == kind = "generic" \/ kind = type

Live(c) == components[c].state = "live"
\* The row is there.  Ids are never used again.
Stored(s) == sweeps[s].state \notin {"new", "gone"}

Member(S, s, c) == S[s].state = "completed" /\ S[s].component = c
Members(S, c) == {s \in Sweeps : Member(S, s, c)}

Newest(S, c) ==
  IF Members(S, c) = {} THEN NoSweep
  ELSE CHOOSE s \in Members(S, c) : \A t \in Members(S, c) : t <= s

\* Mutant: a reference that is still a member is replaced, too.
RefixAlways(S, C, c) == IF C[c].state # "live" THEN C ELSE [C EXCEPT ![c].ref = Newest(S, c)]

\* refixComponentRef
Refix(S, C, c) ==
  IF C[c].state # "live" \/ (C[c].ref # NoSweep /\ Member(S, C[c].ref, c))
  THEN C
  ELSE [C EXCEPT ![c].ref = Newest(S, c)]

(***************************************************************************)
(* Transactions: opening one reads and validates; a failed check rolls it  *)
(* back and changes nothing.                                               *)
(***************************************************************************)
MayUse(h) == SingleConn => conn \in {None, h}
Open(h, t) ==
  /\ tx[h] = Idle /\ MayUse(h)
  /\ tx' = [tx EXCEPT ![h] = t]
  /\ conn' = IF SingleConn THEN h ELSE conn
  /\ UNCHANGED <<sweeps, components, runs, reconciled>>
Close(h) ==
  /\ tx' = [tx EXCEPT ![h] = Idle]
  /\ conn' = IF SingleConn THEN None ELSE conn
  /\ UNCHANGED <<runs, reconciled>>

\* AssignSweepComponent. The first sweep of a component becomes its reference.
OpenAssign(h, s, c) ==
  /\ sweeps[s].state = "completed" /\ Live(c)
  /\ Accepts(components[c].kind, sweeps[s].type)
  /\ Open(h, [op |-> "assign", sweep |-> s, component |-> c, left |-> sweeps[s].component,
              pin |-> IF components[c].ref = NoSweep THEN s ELSE NoSweep])

OpenUnassign(h, s) ==
  /\ Stored(s)
  /\ Open(h, [Idle EXCEPT !.op = "assign", !.sweep = s, !.left = sweeps[s].component])

\* A sweep that is gone by now makes the final read fail: the writes roll back.
CommitAssign(h) ==
  LET t == tx[h]
      S == [sweeps EXCEPT ![t.sweep].component = t.component]
      C == IF t.pin = NoSweep THEN components ELSE [components EXCEPT ![t.component].ref = t.pin]
  IN /\ t.op = "assign"
     /\ IF ~Stored(t.sweep)
        THEN UNCHANGED <<sweeps, components>>
        ELSE /\ sweeps' = S
             /\ components' = IF t.left \in {None, t.component} THEN C ELSE Refix(S, C, t.left)
     /\ Close(h)

\* DeleteSweep: only a finalized sweep.
OpenDeleteSweep(h, s) ==
  /\ Stored(s) /\ sweeps[s].state # "running"
  /\ Open(h, [Idle EXCEPT !.op = "delete", !.sweep = s, !.left = sweeps[s].component])

\* Mutant: deleting a sweep skips the fixup.
CommitDeleteSweepOnly(h) ==
  /\ tx[h].op = "delete"
  /\ sweeps' = [sweeps EXCEPT ![tx[h].sweep].state = "gone", ![tx[h].sweep].component = None]
  /\ UNCHANGED components
  /\ Close(h)

CommitDeleteSweep(h) ==
  LET t == tx[h]
      S == [sweeps EXCEPT ![t.sweep].state = "gone", ![t.sweep].component = None]
  IN /\ t.op = "delete"
     /\ sweeps' = S
     /\ components' = IF t.left = None THEN components ELSE Refix(S, components, t.left)
     /\ Close(h)

\* DeleteIVComponent: the sweeps stay, unassigned.
OpenDeleteComponent(h, c) ==
  /\ Live(c)
  /\ Open(h, [Idle EXCEPT !.op = "drop", !.component = c])

CommitDeleteComponent(h) ==
  /\ tx[h].op = "drop"
  /\ sweeps' = [s \in Sweeps |-> IF sweeps[s].component = tx[h].component
                                 THEN [sweeps[s] EXCEPT !.component = None] ELSE sweeps[s]]
  /\ components' = [components EXCEPT ![tx[h].component].state = "gone"]
  /\ Close(h)

\* validateRefPin
Eligible(c) == {s \in Members(sweeps, c) : Accepts(components[c].kind, sweeps[s].type)}

\* UpdateIVComponent: an edit of the name, or a reference to set or to clear.
OpenEdit(h, c) ==
  /\ Live(c)
  /\ \E pin \in Eligible(c) \cup {NoSweep, components[c].ref} :
       Open(h, [Idle EXCEPT !.op = "edit", !.component = c, !.pin = pin])

\* The whole row is saved as it was read; a row that is gone is inserted again.
CommitEdit(h) ==
  /\ tx[h].op = "edit"
  /\ components' = [components EXCEPT ![tx[h].component].state = "live",
                                      ![tx[h].component].ref = tx[h].pin]
  /\ UNCHANGED sweeps
  /\ Close(h)

CreateComponent(h, c, kind) ==
  /\ components[c].state = "new" /\ tx[h] = Idle /\ MayUse(h)
  /\ components' = [components EXCEPT ![c] = [state |-> "live", kind |-> kind, ref |-> NoSweep]]
  /\ UNCHANGED <<sweeps, tx, conn, runs, reconciled>>

(***************************************************************************)
(* The tracer's own writes, outside any transaction, and the restart that  *)
(* leaves a row "running" behind.                                          *)
(***************************************************************************)
ConnFree == SingleConn => conn = None

\* CreateIVSweep.  The run before has given up the slot, maybe not more.
BeginSweep(type) ==
  /\ \A s \in Sweeps : runs[s].at # "running"
  /\ ConnFree
  /\ \E s \in Sweeps :
       /\ \A t \in Sweeps : sweeps[t].state = "new" <=> t >= s
       /\ sweeps' = [sweeps EXCEPT ![s] = [state |-> "running", component |-> None,
                                           type |-> type]]
       /\ runs' = [runs EXCEPT ![s] = [at |-> "running", component |-> None]]
  /\ UNCHANGED <<components, tx, conn, reconciled>>

\* A run that ended gives up its slot, and UpdateIVSweep reads the row for the
\* columns it keeps ...
FinishRead(s) ==
  /\ runs[s].at = "running" /\ ConnFree
  /\ runs' = [runs EXCEPT ![s] = IF Stored(s) THEN [at |-> "read", component |-> sweeps[s].component]
                                 ELSE NoRun]
  /\ UNCHANGED <<sweeps, components, tx, conn, reconciled>>

\* ... and saves all of it.  Stopped and aborted sweeps are "failed" here.
FinishSave(s, outcome) ==
  /\ runs[s].at = "read" /\ ConnFree
  /\ sweeps' = [sweeps EXCEPT ![s].state = outcome, ![s].component = runs[s].component]
  /\ runs' = [runs EXCEPT ![s] = NoRun]
  /\ UNCHANGED <<components, tx, conn, reconciled>>

\* The database is away: the run is over and its row stays as it is.
FinishLost(s) ==
  /\ runs[s].at # "none"
  /\ runs' = [runs EXCEPT ![s] = NoRun]
  /\ UNCHANGED <<sweeps, components, tx, conn, reconciled>>

\* MarkRunningIVSweepsFailed, once after a start of the process, if the database
\* is there.
Reconcile ==
  /\ ~reconciled /\ ConnFree
  /\ reconciled' = TRUE
  /\ \/ sweeps' = [s \in Sweeps |-> IF sweeps[s].state = "running"
                                    THEN [sweeps[s] EXCEPT !.state = "failed"] ELSE sweeps[s]]
     \/ UNCHANGED sweeps
  /\ UNCHANGED <<components, tx, conn, runs>>

\* A crash rolls back what is open.
Restart ==
  /\ tx' = [h \in Handlers |-> Idle]
  /\ conn' = None
  /\ runs' = [s \in Sweeps |-> NoRun]
  /\ reconciled' = FALSE
  /\ UNCHANGED <<sweeps, components>>

(***************************************************************************)
(* The specification.                                                      *)
(***************************************************************************)
Request(h) ==
  \/ \E s \in Sweeps, c \in Components : OpenAssign(h, s, c)
  \/ \E s \in Sweeps : OpenUnassign(h, s) \/ OpenDeleteSweep(h, s)
  \/ \E c \in Components : OpenDeleteComponent(h, c) \/ OpenEdit(h, c)
  \/ \E c \in Components, kind \in Types : CreateComponent(h, c, kind)

Commit(h) ==
  CommitAssign(h) \/ CommitDeleteSweep(h) \/ CommitDeleteComponent(h) \/ CommitEdit(h)

Tracer ==
  \/ \E type \in Types : BeginSweep(type)
  \/ \E s \in Sweeps : FinishRead(s) \/ FinishLost(s)
  \/ \E s \in Sweeps, outcome \in {"completed", "failed"} : FinishSave(s, outcome)

LibraryNext == (\E h \in Handlers : Request(h) \/ Commit(h)) \/ Tracer \/ Reconcile \/ Restart

LibrarySpec == LibraryInit /\ [][LibraryNext]_libraryVars
------------------------------------------------------------------------------
(***************************************************************************)
(* Properties.                                                             *)
(***************************************************************************)
SweepRow == [state : {"new", "running", "completed", "failed", "gone"},
             component : Components \cup {None}, type : Types]
ComponentRow == [state : {"new", "live", "gone"}, kind : Types, ref : Sweeps \cup {NoSweep}]
Transaction == [op : {"none", "assign", "delete", "drop", "edit"}, sweep : Sweeps \cup {NoSweep},
                component : Components \cup {None}, left : Components \cup {None},
                pin : Sweeps \cup {NoSweep}]

LibraryTypeOK ==
  /\ sweeps \in [Sweeps -> SweepRow]
  /\ components \in [Components -> ComponentRow]
  /\ tx \in [Handlers -> Transaction]
  /\ conn \in Handlers \cup {None}
  /\ runs \in [Sweeps -> [at : {"none", "running", "read"}, component : Components \cup {None}]]
  /\ reconciled \in BOOLEAN

\* The pin of a component never dangles: it names a completed sweep that belongs to
\* the component and is of its kind (validateRefPin, refixComponentRef).
PinNeverDangles ==
  \A c \in Components : Live(c) /\ components[c].ref # NoSweep =>
    /\ Member(sweeps, components[c].ref, c)
    /\ Accepts(components[c].kind, sweeps[components[c].ref].type)

\* A sweep that belongs to a component is completed, of a kind the component
\* accepts, and the component exists.
MembersBelong ==
  \A s \in Sweeps : sweeps[s].component # None =>
    /\ sweeps[s].state = "completed"
    /\ Live(sweeps[s].component)
    /\ Accepts(components[sweeps[s].component].kind, sweeps[s].type)

\* Unless a user edits it, a reference that is still a completed member stays, and
\* one that is lost gives way to the newest completed member left.
RefMovesOnlyWhenLost ==
  [][\A c \in Components :
       LET old == components[c].ref
           new == components'[c].ref
       IN /\ Live(c) /\ components'[c].state = "live"
          /\ old # NoSweep /\ new # old
          => \/ \E h \in Handlers : tx[h].op = "edit" /\ tx[h].component = c
             \/ ~Member(sweeps', old, c) /\ new = Newest(sweeps', c)]_libraryVars
=============================================================================
