--------------------------- MODULE MCChargeHistory ---------------------------
(***************************************************************************)
(* ChargeHistory for TLC, in three scenarios that keep to a part of it:    *)
(* two charges of one kind and everything that may befall the process and  *)
(* its database; one charge and everything that may befall profiles and    *)
(* batteries; one charge, one battery and the reader of its health, with   *)
(* a database that stays up.                                               *)
(***************************************************************************)
EXTENDS ChargeHistory, TLC

VARIABLE scenario

Interchangeable == Permutations(Batteries) \cup Permutations(Kinds)

OneCharge == \A s \in Sessions \ {1} : sessions[s].state = "new"
OneBattery == Cardinality({b \in Batteries : batteries[b].state # "new"}) <= 1
OneKind ==
  /\ Cardinality(({profile, start.kind} \cup {batteries[b].kind : b \in Batteries}) \ {None}) <= 1
  /\ \A h \in Handlers : tx[h].op \notin {"edit", "update"}
Unasked == health.at = "none" /\ \A s \in Sessions : sessions[s].began = "empty"
Steady == boot # "skipped" /\ \A s \in Sessions : runs[s].at # "lost"

Within ==
  \/ scenario = "crashes" /\ OneBattery /\ OneKind /\ Unasked
  \/ scenario = "library" /\ OneCharge /\ Unasked
  \/ scenario = "health" /\ OneCharge /\ OneBattery /\ OneKind /\ Steady

ScenarioInit == Init /\ scenario \in {"crashes", "library", "health"}
ScenarioNext ==
  /\ Next
  /\ scenario' = scenario
  /\ Within'
  /\ scenario = "health" => (ready => ready')

ScenarioSpec == ScenarioInit /\ [][ScenarioNext]_<<vars, scenario>>
=============================================================================
