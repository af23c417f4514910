-------------------------- MODULE MCOwnershipFaults --------------------------
(***************************************************************************)
(* Two scenarios of OutputOwnership in one instance.  "faults": a charge   *)
(* or a sequence, with nobody else about, over a link that may fail.       *)
(* "boot": the watchers of a boot after a crash against pre-flights, an    *)
(* operator and MQTT, over a link that does not fail.                      *)
(***************************************************************************)
EXTENDS OutputOwnership

VARIABLE scenario

Watching == {c \in Calls : pc[c] = "watch"}

ScenarioInit ==
  /\ Init
  /\ kind = CHOOSE k \in [Calls -> {"sequence", "strayCharge", "strayIv"}] :
              /\ \A c \in Calls : k[c] = "sequence" <=> c \notin Watchers
              /\ \A c, d \in Watchers : k[c] = k[d] => c = d
  /\ \/ scenario = "faults" /\ Watching = {} /\ faults = MaxFaults
     \/ scenario = "boot" /\ Watching = Watchers /\ faults = 0

Boot ==
  /\ scenario = "boot"
  /\ \/ \E w \in Watchers : Advance(w)
     \/ \E c \in Calls \ Watchers : Begin(c, "preflight") \/ Advance(c)
     \/ \E m \in Manuals : Admit(m) \/ Manual(m)
     \/ MqttCommand
     \/ DeviceStep
     \/ Dial \/ Handshake \/ NoAnswer

Faulty ==
  /\ scenario = "faults"
  /\ \/ \E c \in Calls \ Watchers :
          \/ \E k \in Kinds \ {"preflight"} : Begin(c, k)
          \/ RunWrite(c) \/ RunEnds(c) \/ Advance(c)
     \/ \E e \in Engine : Stop(e)
     \/ DeviceStep
     \/ LinkStep

ScenarioSpec ==
  /\ ScenarioInit
  /\ [][(Boot \/ Faulty) /\ UNCHANGED scenario]_<<vars, scenario>>
  /\ Fairness

\* StartResolves where nobody else commands the device: the settle of a pre-flight is
\* modelled as the wait for what the output-off brings, not as a timer, and commands
\* without end would keep it waiting.
StartResolvesUnopposed == scenario = "faults" => StartResolves
==============================================================================
