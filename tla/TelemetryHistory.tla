-------------------------- MODULE TelemetryHistory --------------------------
(***************************************************************************)
(* The telemetry history: the recorder (history/recorder.go), which        *)
(* buffers the hub's measurements and writes them in batches, the janitor  *)
(* (history/jobs.go), which rolls whole minutes up and expires old rows,   *)
(* and the export (api/export.go), which pages through the rows while the  *)
(* two are at work.  All three share a database that comes and goes.       *)
(*                                                                         *)
(* A row is its timestamp.  Time is counted in measurements; a minute is   *)
(* named by the timestamp it starts at.  A row of samples_1m is the set of *)
(* samples it was computed from.                                           *)
(***************************************************************************)
EXTENDS Naturals, Sequences, FiniteSets, SequencesExt

CONSTANTS
  MinuteLen,    \* minuteMs
  RawKept,      \* rawRetention
  MinutesKept,  \* minuteRetention
  MaxBuffered,  \* maxBuffered
  FlushWithin,  \* a measurement is flushed before it is this old
  PageSize,     \* exportPageSize
  MaxTime,      \* bound: the clock
  MaxFaults     \* bound: outages, failed statements and restarts

ASSUME LengthsAssumption ==
  /\ MinuteLen \in Nat \ {0} /\ FlushWithin \in Nat \ {0}
  /\ MaxBuffered \in Nat \ {0} /\ PageSize \in Nat \ {0}
  /\ RawKept \in Nat /\ RawKept + 1 >= MinuteLen
  /\ MinutesKept \in Nat /\ MinutesKept >= RawKept + MinuteLen
  /\ MaxTime \in Nat /\ MaxFaults \in Nat

VARIABLES
  now,
  faults,   \* so far
  up,       \* Storage.DB() answers
  samples,  \* table samples
  minutes,  \* table samples_1m: minute |-> the samples it counts
  buf,      \* Recorder.Run: buf
  sweep,    \* the janitor: where it is, and aggregate's and retain's locals
  export,   \* a download: where it is, its cursor and bound, what it wrote, and (not in the
            \* code) the rows that were there at its start and still are
  late      \* not in the code: samples stored after their minute was over

historyVars == <<now, faults, up, samples, minutes, buf, sweep, export, late>>

Minute(t) == (t \div MinuteLen) * MinuteLen
Earliest(S) == CHOOSE t \in S : \A u \in S : t <= u
Latest(S) == CHOOSE t \in S : \A u \in S : u <= t

\* Until storage is up and its backoff over, at startup; then until its period is.
Waiting == [at |-> "waiting", from |-> 0, now |-> 0]
NoExport == [at |-> "none", table |-> "raw", cursor |-> 0, to |-> 0, wrote |-> <<>>, had |-> {}]

HistoryInit ==
  /\ now = 0 /\ faults = 0
  /\ up = FALSE
  /\ samples = {} /\ minutes = <<>>
  /\ buf = <<>>
  /\ sweep = Waiting
  /\ export = NoExport
  /\ late = {}

(***************************************************************************)
(* The clock and the database.                                             *)
(***************************************************************************)
\* The recorder's ticker flushes in time.
Elapse ==
  /\ now < MaxTime
  /\ \A i \in DOMAIN buf : now - buf[i] < FlushWithin
  /\ now' = now + 1
  /\ UNCHANGED <<faults, up, samples, minutes, buf, sweep, export, late>>

\* Storage connects in the background, at startup and after an outage.
Connect ==
  /\ ~up
  /\ up' = TRUE
  /\ UNCHANGED <<now, faults, samples, minutes, buf, sweep, export, late>>

GoDown ==
  /\ up /\ faults < MaxFaults
  /\ up' = FALSE /\ faults' = faults + 1
  /\ UNCHANGED <<now, samples, minutes, buf, sweep, export, late>>

\* What was not flushed is gone; storage connects anew.
Restart ==
  /\ faults < MaxFaults
  /\ faults' = faults + 1
  /\ up' = FALSE
  /\ buf' = <<>>
  /\ sweep' = Waiting
  /\ export' = NoExport
  /\ UNCHANGED <<now, samples, minutes, late>>

(***************************************************************************)
(* The recorder.                                                           *)
(***************************************************************************)
Buffered ==
  CASE buf # <<>> /\ Last(buf) = now -> buf
    [] Len(buf) >= MaxBuffered        -> Append(Tail(buf), now)
    [] OTHER                       -> Append(buf, now)

\* A measurement reaches the recorder.  Others do not: the subscription is lossy.
Measure ==
  /\ buf' = Buffered
  /\ UNCHANGED <<now, faults, up, samples, minutes, sweep, export, late>>

\* insert: ON CONFLICT DO NOTHING leaves a row with the same timestamp.
FlushStored ==
  /\ buf # <<>> /\ up
  /\ samples' = samples \cup Range(buf)
  /\ late' = late \cup {t \in Range(buf) \ samples : Minute(t) < Minute(now)}
  /\ buf' = <<>>
  /\ UNCHANGED <<now, faults, up, minutes, sweep, export>>

\* The batch is dropped, whatever the error.
FlushDropped ==
  /\ buf # <<>>
  /\ \/ ~up /\ UNCHANGED faults
     \/ up /\ faults < MaxFaults /\ faults' = faults + 1
  /\ buf' = <<>>
  /\ UNCHANGED <<now, up, samples, minutes, sweep, export, late>>

(***************************************************************************)
(* The janitor.                                                            *)
(***************************************************************************)
\* Mutant: with no minute rolled up yet it starts at the minute that is filling.
ResumeAtNow == IF DOMAIN minutes # {} THEN Latest(DOMAIN minutes) + MinuteLen ELSE Minute(now)

\* After the last rolled-up minute, or from the oldest sample.
Resume ==
  IF DOMAIN minutes # {} THEN Latest(DOMAIN minutes) + MinuteLen ELSE Minute(Earliest(samples))

\* sweep reads the clock, aggregate finds its window; with none, retain is next.
StartSweep ==
  /\ sweep = Waiting /\ up
  /\ LET window == (DOMAIN minutes # {} \/ samples # {}) /\ Resume < Minute(now)
     IN sweep' = [at |-> IF window THEN "aggregate" ELSE "expireSamples",
                  from |-> IF window THEN Resume ELSE 0, now |-> now]
  /\ UNCHANGED <<now, faults, up, samples, minutes, buf, export, late>>

\* The minute the clock is in is still filling.
UpTo == Minute(sweep.now)

\* aggregateSQL, one statement: ON CONFLICT keeps the rows there are.
Aggregate ==
  /\ sweep.at = "aggregate"
  /\ LET counted == {t \in samples : sweep.from <= t /\ t < UpTo}
     IN minutes' = [m \in DOMAIN minutes \cup {Minute(t) : t \in counted} |->
                      IF m \in DOMAIN minutes THEN minutes[m] ELSE {t \in counted : Minute(t) = m}]
  /\ sweep' = [sweep EXCEPT !.at = "expireSamples"]
  /\ UNCHANGED <<now, faults, up, samples, buf, export, late>>

\* The property of a download is about rows that stay.
Without(gone, table) == IF export.table = table THEN [export EXCEPT !.had = @ \ gone] ELSE export

\* retain, its first statement ...
ExpireSamples ==
  /\ sweep.at = "expireSamples" /\ up
  /\ samples' = {t \in samples : t + RawKept >= sweep.now}
  /\ export' = Without(samples \ samples', "raw")
  /\ sweep' = [sweep EXCEPT !.at = "expireMinutes"]
  /\ UNCHANGED <<now, faults, up, minutes, buf, late>>

\* ... and its second.
ExpireMinutes ==
  /\ sweep.at = "expireMinutes"
  /\ minutes' = [m \in {m \in DOMAIN minutes : m + MinutesKept >= sweep.now} |-> minutes[m]]
  /\ export' = Without(DOMAIN minutes \ DOMAIN minutes', "1m")
  /\ sweep' = Waiting
  /\ UNCHANGED <<now, faults, up, samples, buf, late>>

\* Mutant: retention is applied although the aggregation failed.
SweepFailsRetaining ==
  /\ sweep.at \in {"aggregate", "expireMinutes"} /\ faults < MaxFaults
  /\ faults' = faults + 1
  /\ sweep' = IF sweep.at = "aggregate" THEN [sweep EXCEPT !.at = "expireSamples"] ELSE Waiting
  /\ UNCHANGED <<now, up, samples, minutes, buf, export, late>>

\* A statement fails: the rest of the sweep is skipped.
SweepFails ==
  /\ sweep.at \in {"aggregate", "expireSamples", "expireMinutes"} /\ faults < MaxFaults
  /\ faults' = faults + 1
  /\ sweep' = Waiting
  /\ UNCHANGED <<now, up, samples, minutes, buf, export, late>>

\* retain finds the storage unavailable: the sweep is over and, at startup, retried.
SweepUnavailable ==
  /\ sweep.at = "expireSamples" /\ ~up
  /\ sweep' = Waiting
  /\ UNCHANGED <<now, faults, up, samples, minutes, buf, export, late>>

(***************************************************************************)
(* The export.                                                             *)
(***************************************************************************)
Rows(table) == IF table = "raw" THEN samples ELSE DOMAIN minutes

Between(table, from, to) == {t \in Rows(table) : from <= t /\ t <= to}

\* Reader.Raw, Reader.Minutes, with their ORDER BY and LIMIT: row k has k rows up to it.
Page(table, from, to) ==
  LET rows == Between(table, from, to)
      size == IF Cardinality(rows) < PageSize THEN Cardinality(rows) ELSE PageSize
  IN [k \in 1 .. size |-> CHOOSE t \in rows : Cardinality({u \in rows : u <= t}) = k]

\* Mutant: the last row of a page is read again.
CursorAgain(page) == Last(page)

\* cursorOf
Cursor(page) == Last(page) + 1

\* streamCSVPages: the page is written; a short one is the last.
Write(e, page) ==
  [e EXCEPT !.wrote = @ \o page,
            !.at = IF Len(page) < PageSize THEN "done" ELSE "more",
            !.cursor = IF Len(page) < PageSize THEN 0 ELSE Cursor(page)]

\* getHistoryCSV: validateRange, then the first page.  Bound: the range ends now.
StartExport ==
  /\ export = NoExport /\ up
  /\ \E table \in {"raw", "1m"}, from \in {0, Minute(now)} :
       /\ from < now
       /\ export' = Write([NoExport EXCEPT !.table = table, !.to = now,
                             !.had = {t \in Rows(table) : from <= t}],
                          Page(table, from, now))
  /\ UNCHANGED <<now, faults, up, samples, minutes, buf, sweep, late>>

NextPage ==
  /\ export.at = "more" /\ up
  /\ export' = Write(export, Page(export.table, export.cursor, export.to))
  /\ UNCHANGED <<now, faults, up, samples, minutes, buf, sweep, late>>

\* An error on a later page ends the download as if it were whole.
ExportCut ==
  /\ export.at = "more" /\ ~up
  /\ export' = [export EXCEPT !.at = "cut"]
  /\ UNCHANGED <<now, faults, up, samples, minutes, buf, sweep, late>>

\* The download is over, and its request with it.
ExportEnds ==
  /\ export.at \in {"done", "cut"}
  /\ export' = NoExport
  /\ UNCHANGED <<now, faults, up, samples, minutes, buf, sweep, late>>

(***************************************************************************)
(* The specification.                                                      *)
(***************************************************************************)
Recorder == Measure \/ FlushStored \/ FlushDropped
Janitor == StartSweep \/ Aggregate \/ ExpireSamples \/ ExpireMinutes \/ SweepUnavailable
Export == StartExport \/ NextPage \/ ExportCut \/ ExportEnds

HistoryNext == Elapse \/ Connect \/ GoDown \/ Restart \/ SweepFails \/ Recorder \/ Janitor \/ Export

HistorySpec == HistoryInit /\ [][HistoryNext]_historyVars

\* The recorder's ticker, the janitor's, and the reconnecting of storage.
HistoryFairSpec ==
  /\ HistorySpec
  /\ WF_historyVars(FlushStored \/ FlushDropped)
  /\ WF_historyVars(Janitor)
  /\ WF_historyVars(Connect)
------------------------------------------------------------------------------
(***************************************************************************)
(* Properties.                                                             *)
(***************************************************************************)
\* A sample stored in its minute does not expire before its minute was rolled up, whatever
\* statement of the sweep fails (jobs.go, sweep: so that samples are rolled up first).
ExpiresCounted ==
  [][\A t \in samples \ samples' :
       t \in late \/ (Minute(t) \in DOMAIN minutes /\ t \in minutes[Minute(t)])]_historyVars

Due(t) == t \in samples \ late /\ Minute(t) < Minute(now) /\ Minute(t) \notin DOMAIN minutes

\* A minute that is over and has a sample in time is rolled up in the end, even if the
\* storage was away when the janitor started.
MinutesRolledUp == ~<>[](\E t \in samples : Due(t))

\* A download that was not cut off has every row that was there all along, once and in
\* order, whatever the recorder and the janitor did between its pages.
ExportWhole ==
  export.at = "done" =>
    /\ export.had \subseteq Range(export.wrote)
    /\ \A i, j \in DOMAIN export.wrote : i < j => export.wrote[i] < export.wrote[j]
=============================================================================
