----------------------------- MODULE MCChargeRun -----------------------------
(* ChargeRun for TLC: the plans of lithium packs and of lead-acid ones. *)
EXTENDS ChargeRun

Compiled == {<<"precharge", "main">>, <<"main", "float">>}
Periods == [kind \in {"precharge", "main"} |-> IF kind = "precharge" THEN 1 ELSE 2]
=============================================================================
