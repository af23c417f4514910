---------------------------- MODULE MCSequenceRun ----------------------------
(* SequenceRun for TLC: one program of nested loops, one that holds on a current  *)
(* and ramps both ways, and some that Validate must refuse.                       *)
EXTENDS SequenceRun, TLC

Hold(v, a, c, n) == [type |-> "setHold", volts |-> v, amps |-> a, advance |-> c, need |-> n]
Ramp(t, f, e, n) == [type |-> "ramp", target |-> t, from |-> f, to |-> e, seconds |-> n]
Loop(k) == [type |-> "loop", repeat |-> k]
Program(k, n) == [repeat |-> k, nodes |-> n]

Cycling ==
  Program(2, <<1>> :> Hold(2, 1, "elapsedAbove", 1) @@ <<2>> :> Loop(1)
             @@ <<2, 1>> :> Loop(2) @@ <<2, 1, 1>> :> Hold(1, 2, "capacityAbove", 1))
Soaking ==
  Program(None, <<1>> :> Hold(3, 1, "currentBelow", 2) @@ <<2>> :> Ramp("voltage", 3, 0, 3))
Sweeping ==
  Program(1, <<1>> :> Ramp("current", 0, 3, 3) @@ <<2>> :> Hold(4, 3, "elapsedAbove", 2))
Refused ==
  {Program(0, <<1>> :> Hold(1, 1, "elapsedAbove", 1)), Program(1, <<1>> :> Loop(1)),
   Program(1, <<1>> :> Loop(1) @@ <<1, 1>> :> Loop(1) @@ <<1, 1, 1>> :> Loop(1)
              @@ <<1, 1, 1, 1>> :> Hold(1, 1, "elapsedAbove", 1)),
   Program(1, <<1>> :> Ramp("voltage", 0, 9, 1))}
Edited == {Cycling}
Candidates == {Cycling, Soaking, Sweeping} \cup Refused
==============================================================================
