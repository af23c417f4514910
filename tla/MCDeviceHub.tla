----------------------------- MODULE MCDeviceHub -----------------------------
(* DeviceHub for TLC: set voltages above and below the threshold, of two clients    *)
(* that may race for the register, the threshold, and the output.                   *)
EXTENDS DeviceHub, TLC

At == [volts |-> 1, ovp |-> 2]
CONSTANTS a, b
Sets(v) == [set |-> v, out |-> {}]
Switches(on) == [set |-> <<>>, out |-> {on}]
Given == (a :> {Sets([volts |-> 2]), Sets([ovp |-> 3])})
           @@ (b :> {Sets([volts |-> 3]), Switches(TRUE)})
==============================================================================
