-------------------------- MODULE MCOutputOwnership --------------------------
(***************************************************************************)
(* Instances of OutputOwnership for TLC; the .cfg files choose the calls   *)
(* and what clients ask for.  "Sound" is Next without what takes a fault   *)
(* of the link, a watcher or MQTT to happen: MCOwnershipFaults has those.  *)
(***************************************************************************)
EXTENDS OutputOwnership, TLC

SoundCall(c) ==
  \/ \E k \in Kinds : Begin(c, k)
  \/ RunWrite(c) \/ RunEnds(c)
  \/ Claimed(c) \/ Probe(c) \/ Darken(c) \/ Settle(c) \/ Arm(c)
  \/ Energize(c) \/ Refresh(c) \/ Publish(c)
  \/ Cut(c) \/ Subscribe(c) \/ Confirm(c) \/ Clear(c) \/ Finish(c) \/ Announce(c)
  \/ Unset(c) \/ Leave(c)

SoundNext ==
  \/ \E c \in Calls : SoundCall(c)
  \/ \E e \in Engine : Stop(e)
  \/ \E m \in Manuals : Admit(m) \/ Manual(m)
  \/ DeviceStep
  \/ Dial \/ Handshake

SoundSpec == Init /\ [][SoundNext]_vars

\* Requests of one kind are interchangeable: used where no liveness is checked.
Interchangeable == Permutations(Calls \ Watchers) \cup Permutations(Manuals)
==============================================================================
