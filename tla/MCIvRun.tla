------------------------------- MODULE MCIvRun -------------------------------
(***************************************************************************)
(* IvRun for TLC: sweeps of either variable that go through, one the       *)
(* device's own limits cut short, and requests Compile must refuse.  The   *)
(* curves are all that rise by two at most, or stay, from step to step,    *)
(* and begin with no current.  The start may take longer than the least    *)
(* dwell and a write as long, which may leave a run behind its ticks; in   *)
(* the longest sweep they take less.                                       *)
(***************************************************************************)
EXTENDS IvAnalysis

Sweep(m, a, b, n, d, c) ==
  [mode |-> m, start |-> a, stop |-> b, steps |-> n, dwell |-> d, compliance |-> c]

Maxima == [voltage |-> 6, current |-> 4]
Reported == [voltage |-> 5, current |-> 3]

Asked == {Sweep("voltage", 0, 3, 4, 2, 4), Sweep("voltage", 0, 2, 3, 2, 4),
          Sweep("current", 1, 3, 2, 3, 2), Sweep("voltage", 2, 6, 2, 3, 1)}
Refused == {Sweep("voltage", 0, 4, 1, 3, 2), Sweep("voltage", 0, 7, 2, 3, 1),
            Sweep("current", 1, 3, 2, 1, 2), Sweep("current", 1, 3, 2, 3, 6),
            Sweep("current", 2, 2, 2, 3, 1)}
AllRequests == Asked \cup Refused

\* The long sweep is never behind; the one of three steps, which often is, is left alone.
Brisk == Active => now - began < MinDwell
Sound == faults = MaxFaults /\ ~tripped /\ cause = "none"
Within == /\ plan.steps = 4 /\ pc \in {"start", "write"} => Brisk
          /\ plan.steps = 3 => Sound
ScenarioSpec == Init /\ [][Next /\ Within']_vars /\ Fairness

Rising == {c \in [1 .. 4 -> 0 .. 4] : c[1] = 0 /\ \A k \in 1 .. 3 : c[k + 1] - c[k] \in 0 .. 2}
Measurable == {[k \in 1 .. 4 |-> [v |-> k - 1, i |-> c[k]]] : c \in Rising}
Scale == <<0, 2, 3, 4>>
Tried == 1 .. 2
==============================================================================
