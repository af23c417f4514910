---------------------------- MODULE MCSubscribers ----------------------------
(***************************************************************************)
(* The two subscribers of the hub that keep books, for TLC: the notifier   *)
(* and the telemetry history.  They share nothing but the hub and, each at *)
(* its own moments, the database, so each is checked with the other at     *)
(* rest.                                                                   *)
(***************************************************************************)
EXTENDS Notifier, TelemetryHistory

VARIABLE part

\* The notifier at rest has one initial state, with the database away.
SubscribersInit ==
  /\ part \in {"notifier", "history"}
  /\ Init /\ (part = "notifier" \/ (~db /\ stored = {}))
  /\ HistoryInit

Notifies == part = "notifier" /\ Next /\ UNCHANGED <<historyVars, part>>
Records == part = "history" /\ HistoryNext /\ UNCHANGED <<vars, part>>

\* As in FairSpec and HistoryFairSpec, each for its own part.
SubscribersSpec ==
  /\ SubscribersInit
  /\ [][Notifies \/ Records]_<<vars, historyVars, part>>
  /\ WF_vars(part = "notifier" /\ Pass)
  /\ WF_vars(part = "notifier" /\ FlushKind)
  /\ WF_historyVars(part = "history" /\ (FlushStored \/ FlushDropped))
  /\ WF_historyVars(part = "history" /\ Janitor)
  /\ WF_historyVars(part = "history" /\ Connect)
==============================================================================
