--------------------------- MODULE SequenceProgram ---------------------------
(***************************************************************************)
(* The programs of the sequence runner (sequence/program.go): a tree of    *)
(* nodes and how often to run it.  A node sets and holds, ramps one        *)
(* setpoint, or repeats its children.  Setpoints are numbers of some unit, *)
(* times are numbers of telemetry periods.                                 *)
(*                                                                         *)
(* The tree is a function from places to nodes.  A place is what the code  *)
(* calls a step path, the index of the node in its list and of every loop  *)
(* around it in its own, outermost first.  Indices start at 1.             *)
(***************************************************************************)
EXTENDS Integers, Sequences, FiniteSets

CONSTANTS
  MaxLevel,         \* FallbackMaxVoltage and FallbackMaxCurrent
  MaxNestingDepth, MaxNodeCount

Targets == {"voltage", "current"}
Timed == {"currentBelow", "elapsedAbove"}
Conditions == Timed \cup {"capacityAbove"}  \* energyAbove is the same on the Wh counter

Nodes ==
  [type : {"setHold"}, volts : Int, amps : Int, advance : STRING, need : Int]
  \cup [type : {"ramp"}, target : STRING, from : Int, to : Int, seconds : Int]
  \cup [type : {"loop"}, repeat : Int]

\* The place of the loop i levels down on the way to a, or a itself.
Outer(a, i) == [j \in 1 .. i |-> a[j]]

\* The children of a node are a list, and only a loop has any.
Tree(nodes) ==
  /\ \A a \in DOMAIN nodes : a \in Seq(Nat \ {0}) /\ a # <<>> /\ nodes[a] \in Nodes
  /\ \A a \in DOMAIN nodes : \A i \in 1 .. Len(a) - 1 :
       Outer(a, i) \in DOMAIN nodes /\ nodes[Outer(a, i)].type = "loop"
  /\ \A a \in DOMAIN nodes : \A n \in 1 .. a[Len(a)] : [a EXCEPT ![Len(a)] = n] \in DOMAIN nodes

ValidNode(nodes, a) ==
  LET n == nodes[a]
  IN \/ /\ n.type = "setHold"
        /\ n.volts \in 0 .. MaxLevel /\ n.amps \in 0 .. MaxLevel
        /\ n.advance \in Conditions /\ n.need > 0
     \/ /\ n.type = "ramp"
        /\ n.target \in Targets /\ n.from \in 0 .. MaxLevel /\ n.to \in 0 .. MaxLevel
        /\ n.seconds > 0
     \/ /\ n.type = "loop"
        /\ n.repeat >= 1 /\ Append(a, 1) \in DOMAIN nodes

Bounded(nodes) ==
  Cardinality(DOMAIN nodes) <= MaxNodeCount /\ \A a \in DOMAIN nodes : Len(a) <= MaxNestingDepth

Valid(p) ==
  /\ <<1>> \in DOMAIN p.nodes /\ p.repeat >= 1
  /\ Bounded(p.nodes) /\ \A a \in DOMAIN p.nodes : ValidNode(p.nodes, a)

\* How often the list that holds the node at Outer(a, i) is run.
Repeats(p, a, i) == IF i = 1 THEN p.repeat ELSE p.nodes[Outer(a, i - 1)].repeat

(***************************************************************************)
(* What a program means.  A step is a setHold or a ramp in one turn of     *)
(* every list it is in: for every level the turn and the index, the        *)
(* smaller the earlier and the outer level first.                          *)
(***************************************************************************)
Turns(p, a) == UNION {1 .. Repeats(p, a, i) : i \in DOMAIN a}

StepsAt(p, a) ==
  {[i \in DOMAIN a |-> [turn |-> t[i], at |-> a[i]]] :
     t \in {t \in [DOMAIN a -> Turns(p, a)] : \A i \in DOMAIN a : t[i] <= Repeats(p, a, i)}}

Steps(p) == UNION {StepsAt(p, a) : a \in {a \in DOMAIN p.nodes : p.nodes[a].type # "loop"}}

Earlier(f, g) == f.turn < g.turn \/ (f.turn = g.turn /\ f.at < g.at)

Before(x, y) ==
  \E k \in DOMAIN x \cap DOMAIN y : Earlier(x[k], y[k]) /\ \A i \in 1 .. k - 1 : x[i] = y[i]
==============================================================================
