----------------------------- MODULE MCAutoStop -----------------------------
(***************************************************************************)
(* AutoStop for TLC, in three scenarios: a rule on the current or the time *)
(* that is there and stays, in the midst of runs and changes of the link;  *)
(* one on a counter, without runs; and one that is created, edited and     *)
(* deleted, with the link up, a low current and no run.  What the rule of  *)
(* a scenario does not look at stays: the load, a counter.  In the last    *)
(* two at most one period passes without a tick that finds room.  An edit  *)
(* changes either what the rule is or whether it is enabled.               *)
(***************************************************************************)
EXTENDS AutoStop

CONSTANT Scenarios

VARIABLE scenario

Stays == stored.state = "on" /\ requests = 0
Unchanging(types) ==
  /\ "currentBelow" \in types \/ low
  /\ \A k \in Counters \ types : count[k] = 0

OneChange ==
  edit # NoRow /\ stored.state # "gone" =>
    edit.state = "off" <=> edit.type = stored.type /\ edit.scope = stored.scope

Within ==
  \/ scenario = "runs" /\ Stays /\ stored.type \notin Counters /\ Unchanging({stored.type})
  \/ /\ scenario = "counters" /\ Stays /\ stored.type \in Counters
     /\ Unchanging({stored.type}) /\ ~busy /\ lag <= 1
  \/ /\ scenario = "edits" /\ OneChange /\ {stored.type, edit.type} \cap Counters = {}
     /\ Unchanging({}) /\ link /\ linkUp /\ ~busy /\ lag <= 1

ScenarioInit ==
  /\ Init
  /\ scenario \in Scenarios
  /\ scenario = "edits" => stored = NoRow
  /\ Within
ScenarioNext == Next /\ scenario' = scenario /\ Within'
ScenarioSpec == ScenarioInit /\ [][ScenarioNext]_<<vars, scenario>> /\ Fairness
=============================================================================
