------------------------------ MODULE OutputSlot ------------------------------
(***************************************************************************)
(* What the run engines promise about the supply's output, in the          *)
(* abstract: there is one slot, a call takes it whole and gives it back,   *)
(* and a run is the source of power on the output only if the call that    *)
(* commanded it held the slot when it did.  OutputOwnership, which spells  *)
(* out the interlock, the three managers and the link to the device,       *)
(* implements this specification.                                          *)
(***************************************************************************)

CONSTANTS Calls, None

VARIABLES
  holder,  \* the call that owns the output, or None
  source   \* what last switched the output on: "none" when it is off

vars == <<holder, source>>

Source == {"none", "crash", "manual", "run"}

Init ==
  /\ holder = None
  /\ source \in {"none", "crash"}

Claim(c) ==
  /\ holder = None
  /\ holder' = c
  /\ UNCHANGED source

GiveBack(c) ==
  /\ holder = c
  /\ holder' = None
  /\ UNCHANGED source

Energize(c) ==
  /\ holder = c
  /\ source' = "run"
  /\ UNCHANGED holder

\* An operator's command, which the slot does not stop once it was admitted.
Foreign ==
  /\ source' = "manual"
  /\ UNCHANGED holder

\* Any actor, or the supply's own protection, may take power away.
GoDark ==
  /\ source' = "none"
  /\ UNCHANGED holder

Next ==
  \/ \E c \in Calls : Claim(c) \/ GiveBack(c) \/ Energize(c)
  \/ Foreign
  \/ GoDark

Spec == Init /\ [][Next]_vars
==============================================================================
