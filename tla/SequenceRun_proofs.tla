-------------------------- MODULE SequenceRun_proofs --------------------------
(***************************************************************************)
(* Theorems about SequenceRun, for every tree of nodes that Validate lets  *)
(* pass, any limits and any timing.                                        *)
(*                                                                         *)
(* Where the walk stands says what has been done: of the steps a program   *)
(* means, those that come before the stack.  Entering a loop, beginning    *)
(* its next turn and leaving it move the stack over no step, and the end   *)
(* of a step moves it over that one.                                       *)
(***************************************************************************)
EXTENDS SequenceRun, SequenceTheorems, TLAPS

Frames == [turn : Nat \ {0}, at : Nat \ {0}]

\* x goes through what z is at, or is there.
Through(x, z) == Len(z) <= Len(x) /\ \A i \in 1 .. Len(z) : x[i] = z[i]

\* A walk inside the loop at z, and how often that loop is run; z is empty at the top.
Inside(p, z) ==
  /\ \A i \in 1 .. Len(z) :
       Outer(Place(z), i) \in DOMAIN p.nodes /\ p.nodes[Outer(Place(z), i)].type = "loop"
  /\ \A i \in 1 .. Len(z) : z[i].turn <= Repeats(p, Place(z), i)
Bound(p, z) == IF z = <<>> THEN p.repeat ELSE p.nodes[Place(z)].repeat

Good(p) == Tree(p.nodes) /\ Valid(p) /\ p.repeat \in Int

------------------------------------------------------------------------------
(***************************************************************************)
(* The order of the steps.                                                 *)
(***************************************************************************)
LEMMA SameSeq ==
  ASSUME NEW S, NEW u \in Seq(S), NEW v \in Seq(S), Len(u) = Len(v),
         \A i \in 1 .. Len(u) : u[i] = v[i]
  PROVE  u = v
  OBVIOUS

LEMMA Appended ==
  ASSUME NEW z \in Seq(Frames), NEW f \in Frames
  PROVE  /\ Append(z, f) \in Seq(Frames) /\ Append(z, f) # <<>>
         /\ Len(Append(z, f)) = Len(z) + 1
         /\ DOMAIN Append(z, f) = 1 .. Len(z) + 1
         /\ Append(z, f)[Len(z) + 1] = f
         /\ \A i \in 1 .. Len(z) : Append(z, f)[i] = z[i]
  OBVIOUS

\* A nonempty walk is what is around its last list and its place in it.
LEMMA Split ==
  ASSUME NEW y \in Seq(Frames), y # <<>>
  PROVE  /\ Len(y) \in Nat \ {0} /\ y[Len(y)] \in Frames
         /\ SubSeq(y, 1, Len(y) - 1) \in Seq(Frames)
         /\ Len(SubSeq(y, 1, Len(y) - 1)) = Len(y) - 1
         /\ y = Append(SubSeq(y, 1, Len(y) - 1), y[Len(y)])
<1>1. Len(y) \in Nat \ {0} /\ y[Len(y)] \in Frames
  OBVIOUS
<1>2. /\ SubSeq(y, 1, Len(y) - 1) \in Seq(Frames)
      /\ Len(SubSeq(y, 1, Len(y) - 1)) = Len(y) - 1
      /\ \A i \in 1 .. Len(y) - 1 : SubSeq(y, 1, Len(y) - 1)[i] = y[i]
  <2> DEFINE n == Len(y) - 1
  <2>1. n \in Int /\ n >= 0 /\ \A i \in 1 .. n : y[i] \in Frames
    BY <1>1
  <2> HIDE DEF n
  <2>2. /\ SubSeq(y, 1, n) \in Seq(Frames)
        /\ Len(SubSeq(y, 1, n)) = IF 1 <= n THEN n - 1 + 1 ELSE 0
        /\ \A i \in 1 .. n - 1 + 1 : SubSeq(y, 1, n)[i] = y[1 + i - 1]
    BY <2>1, SubSeqProperties
  <2>3. /\ SubSeq(y, 1, n) \in Seq(Frames) /\ Len(SubSeq(y, 1, n)) = n
        /\ \A i \in 1 .. n : SubSeq(y, 1, n)[i] = y[i]
    BY <2>1, <2>2
  <2> QED BY <2>3 DEF n
<1> DEFINE z == SubSeq(y, 1, Len(y) - 1)
<1> HIDE DEF z
<1>3. z \in Seq(Frames) /\ Len(z) = Len(y) - 1 /\ \A i \in 1 .. Len(z) : z[i] = y[i]
  BY <1>1, <1>2 DEF z
<1>4. /\ Append(z, y[Len(y)]) \in Seq(Frames) /\ Len(Append(z, y[Len(y)])) = Len(y)
      /\ \A i \in 1 .. Len(y) : Append(z, y[Len(y)])[i] = y[i]
  <2>1. \A i \in 1 .. Len(y) : i = Len(z) + 1 \/ i \in 1 .. Len(z)
    BY <1>1, <1>3
  <2>2. Len(z) + 1 = Len(y)
    BY <1>1, <1>3
  <2> QED BY <1>1, <1>3, <2>1, <2>2, Appended
<1>5. y = Append(z, y[Len(y)])
  BY <1>4
<1> QED BY <1>1, <1>2, <1>5 DEF z

LEMMA BeforeAppended ==
  ASSUME NEW x \in Seq(Frames), NEW z \in Seq(Frames), NEW f \in Frames
  PROVE  Before(x, Append(z, f))
           <=> \/ Before(x, z)
               \/ Through(x, z) /\ Len(x) > Len(z) /\ Earlier(x[Len(z) + 1], f)
<1> DEFINE y == Append(z, f)
           n == Len(z) + 1
<1>0. Len(z) \in Nat /\ Len(x) \in Nat /\ DOMAIN z = 1 .. Len(z) /\ DOMAIN x = 1 .. Len(x)
  OBVIOUS
<1>1. DOMAIN y = 1 .. n /\ y[n] = f /\ \A i \in 1 .. Len(z) : y[i] = z[i]
  BY Appended
<1> HIDE DEF y
<1>2. ASSUME NEW k \in DOMAIN x \cap DOMAIN y, Earlier(x[k], y[k]),
             \A i \in 1 .. k - 1 : x[i] = y[i]
      PROVE  \/ Before(x, z)
             \/ Through(x, z) /\ Len(x) > Len(z) /\ Earlier(x[n], f)
  <2>1. CASE k = n
    <3>1. Len(x) > Len(z) /\ Earlier(x[n], f)
      BY <1>0, <1>1, <1>2, <2>1
    <3>2. \A i \in 1 .. Len(z) : x[i] = z[i]
      BY <1>0, <1>1, <1>2, <2>1
    <3> QED BY <1>0, <3>1, <3>2 DEF Through
  <2>2. CASE k # n
    <3>1. k \in 1 .. Len(z) /\ k \in DOMAIN x \cap DOMAIN z
      BY <1>0, <1>1, <2>2
    <3>2. \A i \in 1 .. k - 1 : x[i] = z[i]
      BY <1>0, <1>1, <1>2, <3>1
    <3>3. Earlier(x[k], z[k])
      BY <1>1, <1>2, <3>1
    <3> QED BY <3>1, <3>2, <3>3 DEF Before
  <2> QED BY <2>1, <2>2
<1>3. ASSUME NEW k \in DOMAIN x \cap DOMAIN z, Earlier(x[k], z[k]),
             \A i \in 1 .. k - 1 : x[i] = z[i]
      PROVE  Before(x, y)
  <2>1. k \in 1 .. Len(z) /\ k \in DOMAIN x \cap DOMAIN y
    BY <1>0, <1>1
  <2>2. \A i \in 1 .. k - 1 : x[i] = y[i]
    BY <1>0, <1>1, <1>3, <2>1
  <2>3. Earlier(x[k], y[k])
    BY <1>1, <1>3, <2>1
  <2> QED BY <2>1, <2>2, <2>3 DEF Before
<1>4. ASSUME Through(x, z), Len(x) > Len(z), Earlier(x[n], f)
      PROVE  Before(x, y)
  <2>1. n \in DOMAIN x \cap DOMAIN y /\ Earlier(x[n], y[n])
    BY <1>0, <1>1, <1>4
  <2>2. \A i \in 1 .. n - 1 : x[i] = y[i]
    BY <1>0, <1>1, <1>4 DEF Through
  <2> QED BY <2>1, <2>2 DEF Before
<1>5. Before(x, y) => \/ Before(x, z)
                      \/ Through(x, z) /\ Len(x) > Len(z) /\ Earlier(x[n], f)
  BY <1>2 DEF Before
<1>6. Before(x, z) => Before(x, y)
  BY <1>3 DEF Before
<1> QED BY <1>4, <1>5, <1>6 DEF y

\* One step on, what is before is what was, and what is at this place or within.
LEMMA BeforeOnward ==
  ASSUME NEW x \in Seq(Frames), NEW y \in Seq(Frames), y # <<>>
  PROVE  /\ Onward(y) \in Seq(Frames) /\ Onward(y) # <<>>
         /\ Onward(y) = Append(SubSeq(y, 1, Len(y) - 1),
                               [turn |-> y[Len(y)].turn, at |-> y[Len(y)].at + 1])
         /\ Before(x, Onward(y)) <=> Before(x, y) \/ Through(x, y)
<1> DEFINE z == SubSeq(y, 1, Len(y) - 1)
           f == y[Len(y)]
           g == [turn |-> f.turn, at |-> f.at + 1]
<1>1. z \in Seq(Frames) /\ f \in Frames /\ y = Append(z, f) /\ Len(z) + 1 = Len(y) /\ Len(z) \in Nat
  BY Split
<1> HIDE DEF z, f
<1>2. g \in Frames
  BY <1>1 DEF Frames
<1> HIDE DEF g
<1>3. Onward(y) = Append(z, g)
  <2>1. Onward(y) = [y EXCEPT ![Len(y)] = g]
    BY DEF Onward, g, f
  <2>2. [y EXCEPT ![Len(y)] = g] \in Seq(Frames) /\ Len([y EXCEPT ![Len(y)] = g]) = Len(y)
    BY <1>2
  <2>3. \A i \in 1 .. Len(y) : [y EXCEPT ![Len(y)] = g][i] = Append(z, g)[i]
    <3>1. \A i \in 1 .. Len(z) : y[i] = z[i] /\ Append(z, g)[i] = z[i]
      BY <1>1, <1>2, Appended
    <3>2. Append(z, g)[Len(y)] = g
      BY <1>1, <1>2, Appended
    <3>3. \A i \in 1 .. Len(y) : i = Len(y) \/ (i # Len(y) /\ i \in 1 .. Len(z))
      BY <1>1
    <3> QED BY <3>1, <3>2, <3>3
  <2>4. Append(z, g) \in Seq(Frames) /\ Len(Append(z, g)) = Len(y)
    BY <1>1, <1>2, Appended
  <2>5. [y EXCEPT ![Len(y)] = g] = Append(z, g)
    <3> DEFINE u == [y EXCEPT ![Len(y)] = g]
               v == Append(z, g)
    <3>1. /\ u \in Seq(Frames) /\ v \in Seq(Frames) /\ Len(u) = Len(v)
          /\ \A i \in 1 .. Len(u) : u[i] = v[i]
      BY <2>2, <2>3, <2>4
    <3> HIDE DEF u, v
    <3>2. u = v
      BY <3>1, SameSeq
    <3> QED BY <3>2 DEF u, v
  <2> QED BY <2>1, <2>5
<1>4. /\ Before(x, y) <=> \/ Before(x, z)
                          \/ Through(x, z) /\ Len(x) > Len(z) /\ Earlier(x[Len(z) + 1], f)
      /\ Before(x, Append(z, g)) <=>
           \/ Before(x, z)
           \/ Through(x, z) /\ Len(x) > Len(z) /\ Earlier(x[Len(z) + 1], g)
  BY <1>1, <1>2, BeforeAppended
<1>5. ASSUME Through(x, z), Len(x) > Len(z)
      PROVE  Earlier(x[Len(z) + 1], g) <=> Earlier(x[Len(z) + 1], f) \/ x[Len(z) + 1] = f
  <2>1. x[Len(z) + 1] \in Frames
    BY <1>1, <1>5
  <2> QED BY <1>1, <2>1 DEF Frames, Earlier, g
<1>6. Through(x, y) <=> Through(x, z) /\ Len(x) > Len(z) /\ x[Len(z) + 1] = f
  <2>1. \A i \in 1 .. Len(z) : y[i] = z[i]
    BY <1>1, Appended
  <2>2. y[Len(z) + 1] = f /\ \A i \in 1 .. Len(y) : i = Len(z) + 1 \/ i \in 1 .. Len(z)
    BY <1>1, Appended
  <2> QED BY <1>1, <2>1, <2>2 DEF Through
<1>7. Append(z, g) \in Seq(Frames) /\ Append(z, g) # <<>>
  BY <1>1, <1>2, Appended
<1> QED BY <1>3, <1>4, <1>5, <1>6, <1>7 DEF z, f, g

------------------------------------------------------------------------------
(***************************************************************************)
(* The tree.                                                               *)
(***************************************************************************)
LEMMA NodeKinds ==
  ASSUME NEW p, Good(p), NEW a \in DOMAIN p.nodes
  PROVE  LET n == p.nodes[a]
         IN /\ a \in Seq(Nat \ {0}) /\ a # <<>>
            /\ n.type \in {"setHold", "ramp", "loop"}
            /\ n.type = "setHold" => n.volts \in Int /\ n.amps \in Int /\ n.need \in Int
            /\ n.type = "ramp" => /\ n.target \in Targets /\ n.from \in Int /\ n.to \in Int
                                  /\ n.seconds \in Int /\ n.seconds > 0
            /\ n.type = "loop" => n.repeat \in Int /\ n.repeat >= 1
<1> DEFINE n == p.nodes[a]
<1>1. a \in Seq(Nat \ {0}) /\ a # <<>> /\ n \in Nodes
  BY DEF Good, Tree
<1>2. ValidNode(p.nodes, a)
  BY DEF Good, Valid
<1> HIDE DEF n
<1>3. \/ n \in [type : {"setHold"}, volts : Int, amps : Int, advance : STRING, need : Int]
      \/ n \in [type : {"ramp"}, target : STRING, from : Int, to : Int, seconds : Int]
      \/ n \in [type : {"loop"}, repeat : Int]
  BY <1>1 DEF Nodes
<1>4. \/ n.type = "setHold"
      \/ n.type = "ramp" /\ n.target \in Targets /\ n.seconds > 0
      \/ n.type = "loop" /\ n.repeat >= 1
  BY <1>2 DEF ValidNode, n
<1>5. CASE n.type = "setHold"
  <2>1. n \in [type : {"setHold"}, volts : Int, amps : Int, advance : STRING, need : Int]
    BY <1>3, <1>5
  <2> QED BY <1>1, <1>5, <2>1 DEF n
<1>6. CASE n.type = "ramp" /\ n.target \in Targets /\ n.seconds > 0
  <2>1. n \in [type : {"ramp"}, target : STRING, from : Int, to : Int, seconds : Int]
    BY <1>3, <1>6
  <2> QED BY <1>1, <1>6, <2>1 DEF n
<1>7. CASE n.type = "loop" /\ n.repeat >= 1
  <2>1. n \in [type : {"loop"}, repeat : Int]
    BY <1>3, <1>7
  <2> QED BY <1>1, <1>7, <2>1 DEF n
<1> QED BY <1>4, <1>5, <1>6, <1>7

LEMMA PlaceOf ==
  ASSUME NEW z \in Seq(Frames)
  PROVE  /\ Place(z) \in Seq(Nat \ {0}) /\ Len(Place(z)) = Len(z)
         /\ DOMAIN Place(z) = 1 .. Len(z)
         /\ \A i \in 1 .. Len(z) : Place(z)[i] = z[i].at /\ z[i] \in Frames
         /\ Outer(Place(z), Len(z)) = Place(z)
<1>1. Len(z) \in Nat /\ DOMAIN z = 1 .. Len(z) /\ \A i \in 1 .. Len(z) : z[i] \in Frames
  OBVIOUS
<1>2. \A i \in 1 .. Len(z) : z[i].at \in Nat \ {0}
  BY <1>1 DEF Frames
<1>3. Place(z) = [i \in 1 .. Len(z) |-> z[i].at]
  BY <1>1 DEF Place
<1>4. Place(z) \in Seq(Nat \ {0})
  BY <1>1, <1>2, <1>3
<1>5. Outer(Place(z), Len(z)) = Place(z)
  BY <1>3 DEF Outer
<1> QED BY <1>1, <1>3, <1>4, <1>5

\* What is around a place is what it has in common with every other place there.
LEMMA OuterSame ==
  ASSUME NEW a, NEW b, NEW i, \A j \in 1 .. i : a[j] = b[j]
  PROVE  Outer(a, i) = Outer(b, i)
  BY DEF Outer

LEMMA ThroughPlace ==
  ASSUME NEW x \in Seq(Frames), NEW z \in Seq(Frames), Through(x, z)
  PROVE  /\ Outer(Place(x), Len(z)) = Place(z)
         /\ \A i \in 0 .. Len(z) : Outer(Place(x), i) = Outer(Place(z), i)
         /\ Len(x) = Len(z) => x = z
<1>1. Len(z) \in Nat /\ Len(x) \in Nat /\ Len(z) <= Len(x) /\ \A i \in 1 .. Len(z) : x[i] = z[i]
  BY DEF Through
<1>2. \A i \in 1 .. Len(z) : Place(x)[i] = Place(z)[i]
  <2> TAKE i \in 1 .. Len(z)
  <2>1. i \in 1 .. Len(x)
    BY <1>1
  <2>2. Place(x)[i] = x[i].at /\ Place(z)[i] = z[i].at
    BY <2>1, PlaceOf
  <2> QED BY <1>1, <2>2
<1>3. \A i \in 0 .. Len(z) : Outer(Place(x), i) = Outer(Place(z), i)
  <2> TAKE i \in 0 .. Len(z)
  <2>1. \A j \in 1 .. i : Place(x)[j] = Place(z)[j]
    BY <1>1, <1>2
  <2> QED BY <2>1, OuterSame
<1>4. Outer(Place(z), Len(z)) = Place(z)
  BY PlaceOf
<1>5. Len(x) = Len(z) => x = z
  BY <1>1, SameSeq
<1> QED BY <1>1, <1>3, <1>4, <1>5

LEMMA StepIs ==
  ASSUME NEW p, Good(p), NEW x \in Steps(p)
  PROVE  /\ x \in Seq(Frames) /\ x # <<>>
         /\ Place(x) \in DOMAIN p.nodes /\ p.nodes[Place(x)].type # "loop"
         /\ \A i \in 1 .. Len(x) : x[i].turn <= Repeats(p, Place(x), i)
<1>1. PICK a \in DOMAIN p.nodes : p.nodes[a].type # "loop" /\ x \in StepsAt(p, a)
  BY DEF Steps
<1>2. PICK t \in [DOMAIN a -> Turns(p, a)] :
        /\ x = [i \in DOMAIN a |-> [turn |-> t[i], at |-> a[i]]]
        /\ \A i \in DOMAIN a : t[i] <= Repeats(p, a, i)
  BY <1>1 DEF StepsAt
<1>3. a \in Seq(Nat \ {0}) /\ a # <<>>
  BY NodeKinds
<1>4. DOMAIN a = 1 .. Len(a) /\ Len(a) \in Nat \ {0}
  BY <1>3
<1>5. \A i \in 1 .. Len(a) : t[i] \in Nat \ {0} /\ a[i] \in Nat \ {0}
  <2>1. Turns(p, a) \subseteq Nat \ {0}
    BY DEF Turns
  <2>2. \A i \in 1 .. Len(a) : t[i] \in Turns(p, a)
    BY <1>2, <1>4
  <2>3. \A i \in 1 .. Len(a) : a[i] \in Nat \ {0}
    BY <1>3
  <2> QED BY <2>1, <2>2, <2>3
<1>6. /\ x \in Seq(Frames) /\ Len(x) = Len(a) /\ x # <<>> /\ DOMAIN x = 1 .. Len(a)
      /\ \A i \in 1 .. Len(a) : x[i].turn = t[i] /\ x[i].at = a[i]
  <2>1. x = [i \in 1 .. Len(a) |-> [turn |-> t[i], at |-> a[i]]]
    BY <1>2, <1>4
  <2>2. \A i \in 1 .. Len(a) : [turn |-> t[i], at |-> a[i]] \in Frames
    BY <1>5 DEF Frames
  <2>3. x \in Seq(Frames) /\ Len(x) = Len(a) /\ DOMAIN x = 1 .. Len(a)
    BY <1>4, <2>1, <2>2
  <2> QED BY <1>4, <2>1, <2>3
<1>7. Place(x) = a
  <2>1. Place(x) = [i \in 1 .. Len(a) |-> a[i]]
    BY <1>6 DEF Place
  <2> QED BY <1>3, <1>4, <2>1
<1> QED BY <1>1, <1>2, <1>4, <1>6, <1>7

LEMMA IsStep ==
  ASSUME NEW p, Good(p), NEW x \in Seq(Frames), x # <<>>,
         Place(x) \in DOMAIN p.nodes, p.nodes[Place(x)].type # "loop",
         \A i \in 1 .. Len(x) : x[i].turn <= Repeats(p, Place(x), i),
         \A i \in 1 .. Len(x) : Repeats(p, Place(x), i) \in Int
  PROVE  x \in Steps(p)
<1> DEFINE a == Place(x)
           t == [i \in DOMAIN a |-> x[i].turn]
<1>1. DOMAIN a = 1 .. Len(x) /\ \A i \in 1 .. Len(x) : a[i] = x[i].at /\ x[i] \in Frames
  BY PlaceOf
<1> HIDE DEF a
<1>2. \A i \in 1 .. Len(x) : x[i].turn \in 1 .. Repeats(p, a, i)
  BY <1>1 DEF Frames, a
<1>3. \A i \in 1 .. Len(x) : x[i].turn \in Turns(p, a)
  BY <1>1, <1>2 DEF Turns
<1>4. t \in [DOMAIN a -> Turns(p, a)] /\ \A i \in DOMAIN a : t[i] <= Repeats(p, a, i)
  BY <1>1, <1>3 DEF a
<1>5. x = [i \in DOMAIN a |-> [turn |-> t[i], at |-> a[i]]]
  <2>1. \A i \in 1 .. Len(x) : x[i] = [turn |-> t[i], at |-> a[i]]
    BY <1>1 DEF Frames
  <2>2. x = [i \in 1 .. Len(x) |-> x[i]]
    OBVIOUS
  <2> HIDE DEF t
  <2> QED BY <1>1, <2>1, <2>2
<1> HIDE DEF t
<1>6. x \in StepsAt(p, a)
  BY <1>4, <1>5 DEF StepsAt
<1>7. a \in DOMAIN p.nodes /\ p.nodes[a].type # "loop"
  BY DEF a
<1> QED BY <1>6, <1>7 DEF Steps

\* A step is within nothing but loops.
LEMMA LeafThrough ==
  ASSUME NEW p, Good(p), NEW x \in Steps(p), NEW z \in Seq(Frames), z # <<>>, Through(x, z)
  PROVE  /\ Place(z) \in DOMAIN p.nodes
         /\ p.nodes[Place(z)].type # "loop" => x = z
         /\ p.nodes[Place(z)].type = "loop" => Len(x) > Len(z)
<1>1. /\ x \in Seq(Frames) /\ Place(x) \in DOMAIN p.nodes /\ p.nodes[Place(x)].type # "loop"
      /\ Len(x) \in Nat /\ Len(z) \in Nat \ {0} /\ Len(z) <= Len(x) /\ Len(Place(x)) = Len(x)
  BY StepIs, PlaceOf DEF Through
<1>2. Outer(Place(x), Len(z)) = Place(z) /\ (Len(x) = Len(z) => x = z)
  BY <1>1, ThroughPlace
<1>3. CASE Len(x) = Len(z)
  BY <1>1, <1>2, <1>3
<1>4. CASE Len(x) > Len(z)
  <2>1. Len(z) \in 1 .. Len(Place(x)) - 1
    BY <1>1, <1>4
  <2>2. /\ Outer(Place(x), Len(z)) \in DOMAIN p.nodes
        /\ p.nodes[Outer(Place(x), Len(z))].type = "loop"
    BY <1>1, <2>1 DEF Good, Tree
  <2> QED BY <1>2, <1>4, <2>2
<1> QED BY <1>1, <1>3, <1>4

\* The list a step is in has no place before the step's that is not a node's.
LEMMA ListEnds ==
  ASSUME NEW p, Good(p), NEW x \in Steps(p), NEW z \in Seq(Frames), NEW f \in Frames,
         Through(x, z), Len(x) > Len(z), Place(Append(z, f)) \notin DOMAIN p.nodes
  PROVE  x[Len(z) + 1].at < f.at
<1> DEFINE n == Len(z) + 1
           a == Place(x)
           b == Outer(a, n)
           c == [b EXCEPT ![n] = f.at]
<1>1. /\ x \in Seq(Frames) /\ a \in DOMAIN p.nodes /\ a \in Seq(Nat \ {0}) /\ Len(a) = Len(x)
      /\ n \in 1 .. Len(x) /\ Len(x) \in Nat /\ Len(z) \in Nat /\ a[n] = x[n].at
      /\ a[n] \in Nat /\ f.at \in Nat \ {0}
      /\ Outer(a, Len(x)) = a
  <2>1. x \in Seq(Frames) /\ a \in DOMAIN p.nodes
    BY StepIs
  <2>2. Len(z) \in Nat /\ Len(x) \in Nat /\ n \in 1 .. Len(x)
    BY <2>1
  <2>3. a \in Seq(Nat \ {0}) /\ Len(a) = Len(x) /\ a[n] = x[n].at /\ Outer(a, Len(x)) = a
    BY <2>1, <2>2, PlaceOf
  <2>4. a[n] \in Nat
    BY <2>2, <2>3
  <2> QED BY <2>1, <2>2, <2>3, <2>4 DEF Frames
<1> HIDE DEF a
<1>2. b \in DOMAIN p.nodes
  <2>1. n = Len(x) \/ n \in 1 .. Len(a) - 1
    BY <1>1
  <2> QED BY <1>1, <2>1 DEF Good, Tree
<1>3. Len(b) = n /\ b[n] = a[n] /\ DOMAIN b = 1 .. n
  <2>1. b = [j \in 1 .. n |-> a[j]]
    BY DEF Outer
  <2>2. b \in Seq(Nat \ {0})
    BY <1>2, NodeKinds
  <2> HIDE DEF b
  <2> QED BY <1>1, <2>1, <2>2
<1>4. SUFFICES ASSUME ~(x[n].at < f.at) PROVE FALSE
  OBVIOUS
<1>5. c \in DOMAIN p.nodes
  <2>1. f.at \in 1 .. b[Len(b)]
    BY <1>1, <1>3, <1>4
  <2> HIDE DEF b
  <2>2. [b EXCEPT ![Len(b)] = f.at] \in DOMAIN p.nodes
    BY <1>2, <2>1 DEF Good, Tree
  <2> QED BY <1>3, <2>2
<1>6. c = Place(Append(z, f))
  <2>1. /\ DOMAIN Place(Append(z, f)) = 1 .. n
        /\ \A i \in 1 .. n : Place(Append(z, f))[i] = Append(z, f)[i].at
    <3>1. Append(z, f) \in Seq(Frames) /\ Len(Append(z, f)) = n
      BY Appended
    <3> QED BY <3>1, PlaceOf
  <2>2. \A i \in 1 .. Len(z) : Append(z, f)[i] = z[i] /\ x[i] = z[i] /\ i \in 1 .. Len(x)
    BY <1>1, Appended DEF Through
  <2>3. \A i \in 1 .. Len(z) : a[i] = x[i].at
    BY <1>1, <2>2, PlaceOf DEF a
  <2>4. Append(z, f)[n] = f
    BY Appended
  <2>5. \A i \in 1 .. n : b[i] = a[i]
    BY DEF Outer
  <2>6. \A i \in 1 .. n : i = n \/ (i # n /\ i \in 1 .. Len(z))
    BY <1>1
  <2> HIDE DEF b
  <2>7. \A i \in 1 .. n : c[i] = Place(Append(z, f))[i]
    <3> TAKE i \in 1 .. n
    <3>1. CASE i = n
      BY <1>3, <2>1, <2>4, <3>1
    <3>2. CASE i # n /\ i \in 1 .. Len(z)
      BY <1>3, <2>1, <2>2, <2>3, <2>5, <3>2
    <3> QED BY <2>6, <3>1, <3>2
  <2>8. c = [i \in 1 .. n |-> c[i]] /\ Place(Append(z, f)) = [i \in 1 .. n |-> Place(Append(z, f))[i]]
    BY <1>3, <2>1 DEF Place
  <2> HIDE DEF c
  <2> QED BY <2>7, <2>8
<1> QED BY <1>5, <1>6

------------------------------------------------------------------------------
(***************************************************************************)
(* The walk.                                                               *)
(***************************************************************************)
LEMMA BoundTyped ==
  ASSUME NEW p, Good(p), NEW z \in Seq(Frames), Inside(p, z)
  PROVE  /\ Bound(p, z) \in Int /\ Bound(p, z) >= 1
         /\ z # <<>> => Place(z) \in DOMAIN p.nodes /\ p.nodes[Place(z)].type = "loop"
<1>1. CASE z = <<>>
  BY <1>1 DEF Bound, Good, Valid
<1>2. CASE z # <<>>
  <2>1. Len(z) \in 1 .. Len(z) /\ Outer(Place(z), Len(z)) = Place(z)
    BY <1>2, PlaceOf
  <2>2. Place(z) \in DOMAIN p.nodes /\ p.nodes[Place(z)].type = "loop"
    BY <2>1 DEF Inside
  <2> QED BY <1>2, <2>2, NodeKinds DEF Bound
<1> QED BY <1>1, <1>2

\* One more level: the levels around it are as they were.
LEMMA Deeper ==
  ASSUME NEW p, Good(p), NEW z \in Seq(Frames), NEW f \in Frames
  PROVE  LET y == Append(z, f)
         IN /\ Repeats(p, Place(y), Len(y)) = Bound(p, z)
            /\ \A i \in 1 .. Len(z) : /\ Outer(Place(y), i) = Outer(Place(z), i)
                                      /\ Repeats(p, Place(y), i) = Repeats(p, Place(z), i)
            /\ Outer(Place(y), Len(y)) = Place(y)
<1> DEFINE y == Append(z, f)
<1>1. y \in Seq(Frames) /\ Len(y) = Len(z) + 1 /\ Len(z) \in Nat /\ \A i \in 1 .. Len(z) : y[i] = z[i]
  BY Appended
<1> HIDE DEF y
<1>2. Through(y, z)
  BY <1>1 DEF Through
<1>3. /\ Outer(Place(y), Len(z)) = Place(z)
      /\ \A i \in 0 .. Len(z) : Outer(Place(y), i) = Outer(Place(z), i)
  BY <1>1, <1>2, ThroughPlace
<1>4. Outer(Place(y), Len(y)) = Place(y)
  BY <1>1, PlaceOf
<1>5. Repeats(p, Place(y), Len(y)) = Bound(p, z)
  <2>1. CASE z = <<>>
    BY <1>1, <2>1 DEF Repeats, Bound
  <2>2. CASE z # <<>>
    <3>1. Len(y) # 1 /\ Len(y) - 1 = Len(z)
      BY <1>1, <2>2
    <3> QED BY <1>3, <2>2, <3>1 DEF Repeats, Bound
  <2> QED BY <2>1, <2>2
<1>6. \A i \in 1 .. Len(z) : Repeats(p, Place(y), i) = Repeats(p, Place(z), i)
  <2> TAKE i \in 1 .. Len(z)
  <2>1. i - 1 \in 0 .. Len(z)
    BY <1>1
  <2>2. Outer(Place(y), i - 1) = Outer(Place(z), i - 1)
    BY <1>3, <2>1
  <2> QED BY <2>2 DEF Repeats
<1>7. \A i \in 1 .. Len(z) : Outer(Place(y), i) = Outer(Place(z), i)
  <2> TAKE i \in 1 .. Len(z)
  <2>1. i \in 0 .. Len(z)
    BY <1>1
  <2> QED BY <1>3, <2>1
<1> QED BY <1>4, <1>5, <1>6, <1>7 DEF y

\* A walk is inside a loop if the levels around the loop are and its turn is one of its own.
LEMMA InsideDeeper ==
  ASSUME NEW p, Good(p), NEW z \in Seq(Frames), NEW f \in Frames
  PROVE  Inside(p, Append(z, f))
           <=> /\ Inside(p, z) /\ f.turn <= Bound(p, z)
               /\ Place(Append(z, f)) \in DOMAIN p.nodes
               /\ p.nodes[Place(Append(z, f))].type = "loop"
<1> DEFINE y == Append(z, f)
<1>1. /\ y \in Seq(Frames) /\ Len(y) = Len(z) + 1 /\ Len(z) \in Nat /\ y[Len(y)] = f
      /\ \A i \in 1 .. Len(z) : y[i] = z[i]
  BY Appended
<1>2. /\ Repeats(p, Place(y), Len(y)) = Bound(p, z)
      /\ \A i \in 1 .. Len(z) : /\ Outer(Place(y), i) = Outer(Place(z), i)
                                /\ Repeats(p, Place(y), i) = Repeats(p, Place(z), i)
      /\ Outer(Place(y), Len(y)) = Place(y)
  BY Deeper
<1> HIDE DEF y
<1>3. /\ \A i \in 1 .. Len(y) : i = Len(y) \/ i \in 1 .. Len(z)
      /\ \A i \in 1 .. Len(z) : i \in 1 .. Len(y)
      /\ Len(y) \in 1 .. Len(y)
  BY <1>1
<1>4. ASSUME Inside(p, y)
      PROVE  /\ Inside(p, z) /\ f.turn <= Bound(p, z)
             /\ Place(y) \in DOMAIN p.nodes /\ p.nodes[Place(y)].type = "loop"
  BY <1>1, <1>2, <1>3, <1>4 DEF Inside
<1>5. ASSUME Inside(p, z), f.turn <= Bound(p, z),
             Place(y) \in DOMAIN p.nodes, p.nodes[Place(y)].type = "loop"
      PROVE  Inside(p, y)
  BY <1>1, <1>2, <1>3, <1>5 DEF Inside
<1> QED BY <1>4, <1>5 DEF y

\* A walk at a setHold or a ramp is at a step.
LEMMA AtStep ==
  ASSUME NEW p, Good(p), NEW z \in Seq(Frames), NEW f \in Frames,
         Inside(p, z), f.turn <= Bound(p, z),
         Place(Append(z, f)) \in DOMAIN p.nodes, p.nodes[Place(Append(z, f))].type # "loop"
  PROVE  Append(z, f) \in Steps(p)
<1> DEFINE y == Append(z, f)
<1>1. /\ y \in Seq(Frames) /\ y # <<>> /\ Len(y) = Len(z) + 1 /\ Len(z) \in Nat /\ y[Len(y)] = f
      /\ \A i \in 1 .. Len(z) : y[i] = z[i]
  BY Appended
<1>2. /\ Repeats(p, Place(y), Len(y)) = Bound(p, z)
      /\ \A i \in 1 .. Len(z) : Repeats(p, Place(y), i) = Repeats(p, Place(z), i)
  BY Deeper
<1> HIDE DEF y
<1>3. \A i \in 1 .. Len(z) : z[i].turn <= Repeats(p, Place(z), i) /\ Repeats(p, Place(z), i) \in Int
  <2> TAKE i \in 1 .. Len(z)
  <2>1. i = 1 \/ (i # 1 /\ i - 1 \in 1 .. Len(z))
    <3>1. Len(z) \in Nat
      OBVIOUS
    <3> QED BY <3>1
  <2>2. CASE i = 1
    BY <2>2 DEF Inside, Repeats, Good
  <2>3. CASE i # 1 /\ i - 1 \in 1 .. Len(z)
    <3>1. /\ Outer(Place(z), i - 1) \in DOMAIN p.nodes
          /\ p.nodes[Outer(Place(z), i - 1)].type = "loop"
      BY <2>3 DEF Inside
    <3>2. p.nodes[Outer(Place(z), i - 1)].repeat \in Int
      BY <3>1, NodeKinds
    <3> QED BY <2>3, <3>2 DEF Inside, Repeats
  <2> QED BY <2>1, <2>2, <2>3
<1>4. Bound(p, z) \in Int
  BY BoundTyped
<1>5. \A i \in 1 .. Len(y) : i = Len(y) \/ i \in 1 .. Len(z)
  BY <1>1
<1>6. \A i \in 1 .. Len(y) :
        y[i].turn <= Repeats(p, Place(y), i) /\ Repeats(p, Place(y), i) \in Int
  BY <1>1, <1>2, <1>3, <1>4, <1>5
<1>7. Place(y) \in DOMAIN p.nodes /\ p.nodes[Place(y)].type # "loop"
  BY DEF y
<1>8. y \in Steps(p)
  BY <1>1, <1>6, <1>7, IsStep
<1> QED BY <1>8 DEF y

(***************************************************************************)
(* Where the walk stands.                                                  *)
(***************************************************************************)
Walking == pc \in {"next", "volts", "amps", "wait", "ramp"}
Stepping == pc \in {"volts", "amps", "wait", "ramp"}

RowsGood ==
  /\ stored # None => Good(stored)
  /\ edit # None => Good(edit)
  /\ pc = "idle" => program = None
  /\ pc # "idle" => Good(program)

\* The stack fits the tree, and at a statement of a step it is at the step.
StackFits ==
  /\ Walking => /\ stack \in Seq(Frames) /\ stack # <<>>
                /\ Inside(program, Below) /\ Top.turn <= Bound(program, Below)
  /\ Stepping => Place(stack) \in DOMAIN program.nodes /\ Node.type # "loop"

\* What is done is what comes before the stack.
DoneIsBefore ==
  Walking => \A x \in Steps(program) : x \in Range(done) <=> Before(x, stack)

DoneInOrder ==
  pc # "idle" =>
    /\ \A i, j \in DOMAIN done : i < j => Before(done[i], done[j])
    /\ Range(done) \subseteq Steps(program)
    /\ \A x \in Steps(program), y \in Range(done) : Before(x, y) => x \in Range(done)
    /\ state = "completed" => pc = "ended" /\ Range(done) = Steps(program)

WalkTyped ==
  /\ pc \in {"idle", "energize", "next", "volts", "amps", "wait", "ramp", "ended"}
  /\ done \in Seq(Seq(Frames))
  /\ pc \in {"idle", "energize"} => done = <<>>
  /\ pc # "ended" => state # "completed"

WalkInv == RowsGood /\ WalkTyped /\ StackFits /\ DoneIsBefore /\ DoneInOrder

LEMMA StackSplit ==
  ASSUME StackFits, Walking
  PROVE  /\ stack \in Seq(Frames) /\ stack # <<>> /\ Below \in Seq(Frames) /\ Top \in Frames
         /\ stack = Append(Below, Top) /\ Len(Below) + 1 = Len(stack) /\ Len(Below) \in Nat
         /\ Inside(program, Below) /\ Top.turn <= Bound(program, Below)
<1>1. stack \in Seq(Frames) /\ stack # <<>> /\ Inside(program, Below) /\ Top.turn <= Bound(program, Below)
  BY DEF StackFits
<1>2. /\ Below \in Seq(Frames) /\ Top \in Frames
      /\ stack = Append(Below, Top) /\ Len(Below) = Len(stack) - 1 /\ Len(stack) \in Nat \ {0}
  BY <1>1, Split DEF Below, Top
<1> QED BY <1>1, <1>2

LEMMA AppendedIs ==
  ASSUME NEW z \in Seq(Frames), NEW f \in Frames
  PROVE  /\ SubSeq(Append(z, f), 1, Len(Append(z, f)) - 1) = z
         /\ Append(z, f)[Len(Append(z, f))] = f
<1>1. /\ Append(z, f) \in Seq(Frames) /\ Append(z, f) # <<>>
      /\ Len(Append(z, f)) = Len(z) + 1 /\ Append(z, f)[Len(z) + 1] = f
      /\ \A i \in 1 .. Len(z) : Append(z, f)[i] = z[i]
  BY Appended
<1> DEFINE y == Append(z, f)
           w == SubSeq(y, 1, Len(y) - 1)
<1> HIDE DEF y
<1>2. w \in Seq(Frames) /\ Len(w) = Len(y) - 1 /\ y = Append(w, y[Len(y)]) /\ y[Len(y)] \in Frames
  BY <1>1, Split DEF y
<1> HIDE DEF w
<1>3. Len(w) = Len(z) /\ Len(z) \in Nat
  BY <1>1, <1>2 DEF y
<1>4. \A i \in 1 .. Len(w) : w[i] = y[i]
  <2> DEFINE e == y[Len(y)]
  <2> HIDE DEF e
  <2>1. e \in Frames /\ y = Append(w, e)
    BY <1>2 DEF e
  <2>2. \A i \in 1 .. Len(w) : Append(w, e)[i] = w[i]
    BY <1>2, <2>1, Appended
  <2> QED BY <2>1, <2>2
<1>5. \A i \in 1 .. Len(w) : w[i] = z[i]
  BY <1>1, <1>3, <1>4 DEF y
<1>6. w = z
  BY <1>2, <1>3, <1>5, SameSeq
<1> QED BY <1>1, <1>6 DEF w, y

\* The walk is elsewhere with the same steps done.
LEMMA MovesOver ==
  ASSUME WalkInv, Walking, pc' \in {"next", "volts", "amps", "wait", "ramp"},
         UNCHANGED <<program, done, state>>, RowsGood',
         NEW z \in Seq(Frames), NEW f \in Frames, stack' = Append(z, f),
         Inside(program, z), f.turn <= Bound(program, z),
         pc' # "next" => /\ Place(Append(z, f)) \in DOMAIN program.nodes
                         /\ program.nodes[Place(Append(z, f))].type # "loop",
         \A x \in Steps(program) : Before(x, Append(z, f)) <=> Before(x, stack)
  PROVE  WalkInv'
<1>1. (Below)' = z /\ (Top)' = f /\ (Node)' = program.nodes[Place(Append(z, f))]
  BY AppendedIs DEF Below, Top, Node
<1>2. stack' \in Seq(Frames) /\ stack' # <<>>
  BY Appended
<1>3. StackFits'
  BY <1>1, <1>2 DEF StackFits, Walking, Stepping
<1>4. DoneIsBefore'
  BY DEF WalkInv, DoneIsBefore, Walking
<1>5. DoneInOrder'
  BY DEF WalkInv, WalkTyped, DoneInOrder, Walking
<1>6. WalkTyped'
  BY DEF WalkInv, WalkTyped, Walking
<1> QED BY <1>3, <1>4, <1>5, <1>6 DEF WalkInv

\* The walk stays where it is, or is over and not completed.
LEMMA Stays ==
  ASSUME WalkInv, UNCHANGED <<program, stack, done, state>>, RowsGood',
         \/ pc' = pc
         \/ /\ Walking /\ pc' \in {"volts", "amps", "wait", "ramp"}
            /\ Place(stack) \in DOMAIN program.nodes /\ Node.type # "loop"
  PROVE  WalkInv'
<1>1. (Below)' = Below /\ (Top)' = Top /\ (Node)' = Node
  BY DEF Below, Top, Node
<1>2. StackFits'
  BY <1>1 DEF WalkInv, StackFits, Walking, Stepping
<1>3. DoneIsBefore'
  BY DEF WalkInv, DoneIsBefore, Walking
<1>4. DoneInOrder'
  BY DEF WalkInv, WalkTyped, DoneInOrder, Walking
<1>5. WalkTyped'
  BY DEF WalkInv, WalkTyped, Walking
<1> QED BY <1>2, <1>3, <1>4, <1>5 DEF WalkInv

LEMMA Stops ==
  ASSUME WalkInv, pc \notin {"idle", "ended"}, pc' = "ended", state' # "completed",
         UNCHANGED <<program, done>>, RowsGood'
  PROVE  WalkInv'
<1>1. StackFits' /\ DoneIsBefore'
  BY DEF StackFits, DoneIsBefore, Walking, Stepping
<1>2. DoneInOrder'
  BY DEF WalkInv, DoneInOrder
<1>3. WalkTyped'
  BY DEF WalkInv, WalkTyped
<1> QED BY <1>1, <1>2, <1>3 DEF WalkInv

LEMMA Extended ==
  ASSUME NEW S, NEW d \in Seq(S), NEW y \in S
  PROVE  /\ Append(d, y) \in Seq(S)
         /\ Range(Append(d, y)) = Range(d) \cup {y}
         /\ DOMAIN Append(d, y) = 1 .. Len(d) + 1
         /\ \A i \in DOMAIN d : Append(d, y)[i] = d[i]
         /\ Append(d, y)[Len(d) + 1] = y
<1>1. /\ Append(d, y) \in Seq(S) /\ DOMAIN Append(d, y) = 1 .. Len(d) + 1
      /\ \A i \in 1 .. Len(d) : Append(d, y)[i] = d[i]
      /\ Append(d, y)[Len(d) + 1] = y
      /\ DOMAIN d = 1 .. Len(d) /\ Len(d) \in Nat
  OBVIOUS
<1>2. \A i \in 1 .. Len(d) + 1 : i = Len(d) + 1 \/ i \in 1 .. Len(d)
  BY <1>1
<1>3. Range(Append(d, y)) = Range(d) \cup {y}
  <2> DEFINE e == Append(d, y)
  <2> HIDE DEF e
  <2> QED BY <1>1, <1>2 DEF Range, e
<1> QED BY <1>1, <1>3

\* The end of a step.
LEMMA StepEnds ==
  ASSUME WalkInv, Stepping, StepDone, UNCHANGED <<program, state>>, RowsGood'
  PROVE  WalkInv'
<1>0. Walking /\ Good(program)
  BY DEF WalkInv, RowsGood, Walking, Stepping
<1> DEFINE z == Below
           f == Top
           g == [turn |-> f.turn, at |-> f.at + 1]
<1>1. /\ stack \in Seq(Frames) /\ stack # <<>> /\ z \in Seq(Frames) /\ f \in Frames
      /\ stack = Append(z, f) /\ Inside(program, z) /\ f.turn <= Bound(program, z)
  BY <1>0, StackSplit DEF WalkInv
<1>2. Place(stack) \in DOMAIN program.nodes /\ program.nodes[Place(stack)].type # "loop"
  BY DEF WalkInv, StackFits, Node
<1>3. stack' = Append(z, g) /\ pc' = "next" /\ done' = Append(done, stack)
  BY <1>1, BeforeOnward DEF StepDone, Below, Top
<1> HIDE DEF z, f
<1>4. g \in Frames /\ g.turn = f.turn
  BY <1>1 DEF Frames
<1> HIDE DEF g
<1>5. stack \in Steps(program)
  BY <1>0, <1>1, <1>2, AtStep
<1>6. \A x \in Steps(program) : Before(x, Append(z, g)) <=> Before(x, stack) \/ x = stack
  <2> TAKE x \in Steps(program)
  <2>1. x \in Seq(Frames)
    BY <1>0, StepIs
  <2>2. Before(x, Append(z, g)) <=> Before(x, stack) \/ Through(x, stack)
    BY <1>1, <1>3, <2>1, BeforeOnward DEF StepDone
  <2>3. Through(x, stack) => x = stack
    BY <1>0, <1>1, <1>2, LeafThrough
  <2>4. Through(stack, stack)
    BY <1>1 DEF Through
  <2> QED BY <2>2, <2>3, <2>4
<1>7. /\ done' \in Seq(Seq(Frames)) /\ Range(done') = Range(done) \cup {stack}
      /\ DOMAIN done' = 1 .. Len(done) + 1 /\ done'[Len(done) + 1] = stack
      /\ \A i \in DOMAIN done : done'[i] = done[i]
      /\ DOMAIN done = 1 .. Len(done) /\ Len(done) \in Nat
  <2>1. done \in Seq(Seq(Frames))
    BY DEF WalkInv, WalkTyped
  <2>2. /\ Append(done, stack) \in Seq(Seq(Frames))
        /\ Range(Append(done, stack)) = Range(done) \cup {stack}
        /\ DOMAIN Append(done, stack) = 1 .. Len(done) + 1
        /\ \A i \in DOMAIN done : Append(done, stack)[i] = done[i]
        /\ Append(done, stack)[Len(done) + 1] = stack
    <3> DEFINE S == Seq(Frames)
    <3>1. stack \in S /\ done \in Seq(S)
      BY <1>1, <2>1
    <3> HIDE DEF S
    <3>2. /\ Append(done, stack) \in Seq(S)
          /\ Range(Append(done, stack)) = Range(done) \cup {stack}
          /\ DOMAIN Append(done, stack) = 1 .. Len(done) + 1
          /\ \A i \in DOMAIN done : Append(done, stack)[i] = done[i]
          /\ Append(done, stack)[Len(done) + 1] = stack
      BY ONLY <3>1, Extended
    <3> QED BY <3>2 DEF S
  <2>3. DOMAIN done = 1 .. Len(done) /\ Len(done) \in Nat
    BY <2>1
  <2> QED BY <1>3, <2>2, <2>3
<1>8. \A x \in Steps(program) : x \in Range(done) <=> Before(x, stack)
  BY <1>0 DEF WalkInv, DoneIsBefore
<1>9. /\ \A i, j \in DOMAIN done : i < j => Before(done[i], done[j])
      /\ Range(done) \subseteq Steps(program)
      /\ \A x \in Steps(program), y \in Range(done) : Before(x, y) => x \in Range(done)
  BY <1>0 DEF WalkInv, DoneInOrder, Walking
<1>10. StackFits'
  <2>1. (Below)' = z /\ (Top)' = g
    BY <1>1, <1>3, <1>4, AppendedIs DEF Below, Top
  <2>2. stack' \in Seq(Frames) /\ stack' # <<>>
    BY <1>1, <1>3, <1>4, Appended
  <2> QED BY <1>1, <1>3, <1>4, <2>1, <2>2 DEF StackFits, Walking, Stepping
<1>11. DoneIsBefore'
  BY <1>3, <1>6, <1>7, <1>8 DEF DoneIsBefore
<1>12. DoneInOrder'
  <2>1. Range(done') \subseteq Steps(program)
    BY <1>5, <1>7, <1>9
  <2>2. \A x \in Steps(program), y \in Range(done') : Before(x, y) => x \in Range(done')
    BY <1>7, <1>8, <1>9
  <2>3. ASSUME NEW i \in DOMAIN done', NEW j \in DOMAIN done', i < j
        PROVE  Before(done'[i], done'[j])
    <3>1. i \in DOMAIN done
      BY <1>7, <2>3
    <3>2. CASE j \in DOMAIN done
      BY <1>7, <1>9, <2>3, <3>1, <3>2
    <3>3. CASE j = Len(done) + 1
      <4>1. done[i] \in Range(done)
        BY <3>1 DEF Range
      <4>2. Before(done[i], stack)
        BY <1>8, <1>9, <4>1
      <4> QED BY <1>7, <3>1, <3>3, <4>2
    <3>4. j \in DOMAIN done \/ j = Len(done) + 1
      BY <1>7
    <3> QED BY <3>2, <3>3, <3>4
  <2>4. state' # "completed"
    BY <1>0 DEF WalkInv, WalkTyped, Walking
  <2> QED BY <2>1, <2>2, <2>3, <2>4 DEF DoneInOrder
<1>13. WalkTyped'
  BY <1>0, <1>3, <1>7 DEF WalkInv, WalkTyped, Walking
<1> QED BY <1>10, <1>11, <1>12, <1>13 DEF WalkInv

LEMMA EnterLoopMoves ==
  ASSUME WalkInv, EnterLoop, RowsGood'
  PROVE  WalkInv'
<1>0. Walking /\ Good(program) /\ pc = "next"
  BY DEF WalkInv, RowsGood, Walking, EnterLoop, AtNode
<1>1. /\ stack \in Seq(Frames) /\ Below \in Seq(Frames) /\ Top \in Frames
      /\ stack = Append(Below, Top) /\ Inside(program, Below) /\ Top.turn <= Bound(program, Below)
  BY <1>0, StackSplit DEF WalkInv
<1>2. Place(stack) \in DOMAIN program.nodes /\ program.nodes[Place(stack)].type = "loop"
  BY DEF EnterLoop, AtNode, Node
<1>3. Inside(program, stack)
  BY <1>0, <1>1, <1>2, InsideDeeper
<1>4. Begin \in Frames /\ Begin.turn <= Bound(program, stack)
  <2>1. Bound(program, stack) \in Int /\ Bound(program, stack) >= 1
    BY <1>0, <1>1, <1>3, BoundTyped
  <2> QED BY <2>1 DEF Begin, Frames
<1>5. \A x \in Steps(program) : Before(x, Append(stack, Begin)) <=> Before(x, stack)
  <2> TAKE x \in Steps(program)
  <2>1. x \in Seq(Frames)
    BY <1>0, StepIs
  <2>2. Before(x, Append(stack, Begin))
          <=> \/ Before(x, stack)
              \/ /\ Through(x, stack) /\ Len(x) > Len(stack)
                 /\ Earlier(x[Len(stack) + 1], Begin)
    BY <1>1, <1>4, <2>1, BeforeAppended
  <2>3. ASSUME Len(x) > Len(stack) PROVE ~Earlier(x[Len(stack) + 1], Begin)
    <3>1. Len(stack) + 1 \in 1 .. Len(x)
      BY <1>1, <2>1, <2>3
    <3>2. x[Len(stack) + 1] \in Frames
      BY <2>1, <3>1
    <3> QED BY <3>2 DEF Earlier, Begin, Frames
  <2> QED BY <2>2, <2>3
<1>6. pc' = "next" /\ stack' = Append(stack, Begin) /\ UNCHANGED <<program, done, state>>
  BY <1>0 DEF EnterLoop, history
<1> QED BY <1>0, <1>1, <1>3, <1>4, <1>5, <1>6, MovesOver

\* The end of a list: of the steps in it, the ones with the turn or an earlier one are
\* before the stack, and no step is in between.
LEMMA EndOfListMoves ==
  ASSUME WalkInv, EndOfList, RowsGood'
  PROVE  WalkInv'
<1>0. Walking /\ Good(program) /\ pc = "next" /\ Place(stack) \notin DOMAIN program.nodes
  BY DEF WalkInv, RowsGood, Walking, EndOfList, AtNode
<1> DEFINE z == Below
           f == Top
<1>1. /\ stack \in Seq(Frames) /\ stack # <<>> /\ z \in Seq(Frames) /\ f \in Frames
      /\ stack = Append(z, f) /\ Len(z) + 1 = Len(stack) /\ Len(z) \in Nat
      /\ Inside(program, z) /\ f.turn <= Bound(program, z)
  BY <1>0, StackSplit DEF WalkInv
<1>2. UNCHANGED <<program, done>>
  BY DEF EndOfList, history
<1>3. Repeats(program, Place(stack), Len(stack)) = Bound(program, z) /\ Bound(program, z) \in Int
  <2>1. Repeats(program, Place(Append(z, f)), Len(Append(z, f))) = Bound(program, z)
    BY <1>0, <1>1, Deeper
  <2> QED BY <1>0, <1>1, <2>1, BoundTyped
<1>4. Again <=> f.turn < Bound(program, z)
  BY <1>3 DEF Again
<1> HIDE DEF z, f
<1>5. f.turn \in Nat /\ f.at \in Nat
  BY <1>1 DEF Frames
<1>6. \A x \in Steps(program) :
        Before(x, stack) <=> \/ Before(x, z)
                             \/ /\ Through(x, z) /\ Len(x) > Len(z)
                                /\ x[Len(z) + 1].turn <= f.turn
  <2> TAKE x \in Steps(program)
  <2>1. x \in Seq(Frames)
    BY <1>0, StepIs
  <2>2. Before(x, stack) <=> \/ Before(x, z)
                             \/ Through(x, z) /\ Len(x) > Len(z) /\ Earlier(x[Len(z) + 1], f)
    BY <1>1, <2>1, BeforeAppended
  <2>3. ASSUME Through(x, z), Len(x) > Len(z)
        PROVE  Earlier(x[Len(z) + 1], f) <=> x[Len(z) + 1].turn <= f.turn
    <3>1. x[Len(z) + 1].at < f.at
      BY <1>0, <1>1, <2>3, ListEnds
    <3>2. Len(z) + 1 \in 1 .. Len(x)
      BY <1>1, <2>1, <2>3
    <3>3. x[Len(z) + 1].turn \in Nat
      <4>1. x[Len(z) + 1] \in Frames
        BY <2>1, <3>2
      <4> QED BY <4>1 DEF Frames
    <3> QED BY <1>5, <3>1, <3>3 DEF Earlier
  <2> QED BY <2>2, <2>3
<1>7. CASE Again
  <2> DEFINE g == [turn |-> f.turn + 1, at |-> 1]
  <2>1. g \in Frames /\ g.turn = f.turn + 1 /\ g.at = 1 /\ g.turn <= Bound(program, z)
    BY <1>3, <1>4, <1>5, <1>7 DEF Frames
  <2>2. stack' = Append(z, g) /\ pc' = "next" /\ state' = state
    <3>1. stack' = [stack EXCEPT ![Len(stack)] = g] /\ pc' = "next" /\ state' = state
      BY <1>0, <1>7 DEF EndOfList, f, Top
    <3> HIDE DEF g
    <3> DEFINE u == [stack EXCEPT ![Len(stack)] = g]
               v == Append(z, g)
    <3>2. /\ v \in Seq(Frames) /\ Len(v) = Len(z) + 1 /\ v[Len(z) + 1] = g
          /\ \A i \in 1 .. Len(z) : v[i] = z[i] /\ stack[i] = z[i]
      BY <1>1, <2>1, Appended
    <3>3. u \in Seq(Frames) /\ Len(u) = Len(stack)
      BY <1>1, <2>1
    <3>4. \A i \in 1 .. Len(stack) : (i = Len(stack) /\ u[i] = g) \/ (i \in 1 .. Len(z) /\ u[i] = stack[i])
      <4>1. \A i \in 1 .. Len(stack) : u[i] = IF i = Len(stack) THEN g ELSE stack[i]
        <5>1. DOMAIN stack = 1 .. Len(stack)
          BY <1>1
        <5> QED BY ONLY <5>1
      <4>2. \A i \in 1 .. Len(stack) : i = Len(stack) \/ (i # Len(stack) /\ i \in 1 .. Len(z))
        BY <1>1
      <4> QED BY <4>1, <4>2
    <3> HIDE DEF u, v
    <3>5. \A i \in 1 .. Len(u) : u[i] = v[i]
      BY <1>1, <3>2, <3>3, <3>4
    <3>6. u = v
      BY <1>1, <3>2, <3>3, <3>5, SameSeq
    <3> QED BY <3>1, <3>6 DEF u, v
  <2> HIDE DEF g
  <2>3. \A x \in Steps(program) : Before(x, Append(z, g)) <=> Before(x, stack)
    <3> TAKE x \in Steps(program)
    <3>1. x \in Seq(Frames)
      BY <1>0, StepIs
    <3>2. Before(x, Append(z, g)) <=> \/ Before(x, z)
                                      \/ Through(x, z) /\ Len(x) > Len(z) /\ Earlier(x[Len(z) + 1], g)
      BY <1>1, <2>1, <3>1, BeforeAppended
    <3>3. ASSUME Len(x) > Len(z)
          PROVE  Earlier(x[Len(z) + 1], g) <=> x[Len(z) + 1].turn <= f.turn
      <4>1. Len(z) + 1 \in 1 .. Len(x)
        BY <1>1, <3>1, <3>3
      <4>2. x[Len(z) + 1] \in Frames
        BY <3>1, <4>1
      <4> QED BY <1>5, <2>1, <4>2 DEF Earlier, Frames
    <3> QED BY <1>6, <3>2, <3>3
  <2> QED BY <1>0, <1>1, <1>2, <2>1, <2>2, <2>3, MovesOver
\* Every step that goes through the loop is before the end of its last turn.
<1>8. CASE ~Again
  <2>1. \A x \in Steps(program) : Through(x, z) => Len(x) > Len(z) /\ x[Len(z) + 1].turn <= f.turn
    <3> SUFFICES ASSUME NEW x \in Steps(program), Through(x, z)
                 PROVE  Len(x) > Len(z) /\ x[Len(z) + 1].turn <= f.turn
      OBVIOUS
    <3>1. /\ x \in Seq(Frames) /\ x # <<>>
          /\ \A i \in 1 .. Len(x) : x[i].turn <= Repeats(program, Place(x), i)
      BY <1>0, StepIs
    <3>2. Len(x) > Len(z)
      <4>1. CASE z = <<>>
        BY <3>1, <4>1
      <4>2. CASE z # <<>>
        BY <1>0, <1>1, <4>2, BoundTyped, LeafThrough
      <4> QED BY <4>1, <4>2
    <3>3. Len(z) + 1 \in 1 .. Len(x)
      BY <1>1, <3>1, <3>2
    <3>4. Repeats(program, Place(x), Len(z) + 1) = Bound(program, z)
      <4>1. Outer(Place(x), Len(z)) = Place(z)
        BY <1>1, <3>1, ThroughPlace
      <4>2. z = <<>> <=> Len(z) + 1 = 1
        BY <1>1
      <4>3. Len(z) + 1 - 1 = Len(z)
        BY <1>1
      <4> QED BY <4>1, <4>2, <4>3 DEF Repeats, Bound
    <3>5. x[Len(z) + 1].turn \in Nat
      <4>1. x[Len(z) + 1] \in Frames
        BY <3>1, <3>3
      <4> QED BY <4>1 DEF Frames
    <3> QED BY <1>3, <1>4, <1>5, <1>8, <3>1, <3>2, <3>3, <3>4, <3>5
  <2>2. \A x \in Steps(program) : Before(x, stack) <=> Before(x, z) \/ Through(x, z)
    BY <1>6, <2>1
  <2>3. CASE Len(stack) > 1
    <3>1. stack' = Onward(z) /\ pc' = "next" /\ state' = state
      BY <1>0, <1>8, <2>3 DEF EndOfList, z
    <3>2. z # <<>>
      BY <1>1, <2>3
    <3> DEFINE w == SubSeq(z, 1, Len(z) - 1)
               g == z[Len(z)]
               h == [turn |-> g.turn, at |-> g.at + 1]
    <3>3. w \in Seq(Frames) /\ g \in Frames /\ z = Append(w, g)
      BY <1>1, <3>2, Split
    <3>4. Onward(z) = Append(w, h)
      BY <1>1, <3>2, BeforeOnward
    <3> HIDE DEF w, g
    <3>5. h \in Frames /\ h.turn = g.turn
      BY <3>3 DEF Frames
    <3>6. Inside(program, w) /\ g.turn <= Bound(program, w)
      BY <1>0, <1>1, <3>3, InsideDeeper
    <3> HIDE DEF h
    <3>7. \A x \in Steps(program) : Before(x, Append(w, h)) <=> Before(x, stack)
      <4> TAKE x \in Steps(program)
      <4>1. x \in Seq(Frames)
        BY <1>0, StepIs
      <4>2. Before(x, Onward(z)) <=> Before(x, z) \/ Through(x, z)
        BY <1>1, <3>2, <4>1, BeforeOnward
      <4> QED BY <2>2, <3>4, <4>2
    <3> QED BY <1>0, <1>2, <3>1, <3>3, <3>4, <3>5, <3>6, <3>7, MovesOver
  <2>4. CASE ~(Len(stack) > 1)
    <3>1. pc' = "ended" /\ state' = "completed"
      BY <1>8, <2>4 DEF EndOfList, Ends
    <3>2. Len(z) = 0
      BY <1>1, <2>4
    <3>3. \A x \in Steps(program) : Before(x, stack)
      <4> TAKE x \in Steps(program)
      <4>1. x \in Seq(Frames)
        BY <1>0, StepIs
      <4>2. Through(x, z)
        BY <3>2, <4>1 DEF Through
      <4> QED BY <2>2, <4>2
    <3>4. Range(done) = Steps(program)
      BY <1>0, <3>3 DEF WalkInv, DoneIsBefore, DoneInOrder
    <3>5. DoneInOrder'
      BY <1>0, <1>2, <3>1, <3>4 DEF WalkInv, DoneInOrder
    <3>6. StackFits' /\ DoneIsBefore'
      BY <3>1 DEF StackFits, DoneIsBefore, Walking, Stepping
    <3>7. WalkTyped'
      BY <1>2, <3>1 DEF WalkInv, WalkTyped
    <3> QED BY <3>5, <3>6, <3>7 DEF WalkInv
  <2> QED BY <2>3, <2>4
<1> QED BY <1>7, <1>8

\* What is saved, loaded and run has been validated.
LEMMA SavedIsGood ==
  ASSUME NEW body \in Programs \cup Edits, Valid(Asked(body))
  PROVE  Good(Asked(body))
  BY BodiesAssumption DEF Good, Asked

LEMMA LoadedIsGood ==
  ASSUME NEW row, Good(row), Valid(Loaded(row))
  PROVE  Good(Loaded(row))
  BY DEF Good, Loaded

LEMMA RowsStep ==
  ASSUME RowsGood, WalkTyped, [Next]_vars
  PROVE  RowsGood'
<1>1. ASSUME NEW body \in Programs, Create(body) PROVE RowsGood'
  BY <1>1, SavedIsGood DEF Create, RowsGood
<1>2. ASSUME NEW body \in Edits, OpenUpdate(body) PROVE RowsGood'
  BY <1>2, SavedIsGood DEF OpenUpdate, RowsGood
<1>3. CASE SaveUpdate
  BY <1>3 DEF SaveUpdate, RowsGood
<1>4. CASE Delete
  BY <1>4 DEF Delete, RowsGood
<1>5. CASE Start
  BY <1>5, LoadedIsGood DEF Start, RowsGood, rows
<1>6. CASE Energize
  BY <1>6 DEF Energize, Ends, RowsGood, rows
<1>7. CASE EnterLoop \/ EndOfList \/ EnterStep
  BY <1>7 DEF EnterLoop, EndOfList, EnterStep, AtNode, Ends, RowsGood, rows
<1>8. CASE WriteVolts \/ WriteAmps
  BY <1>8 DEF WriteVolts, WriteAmps, Ends, RowsGood, rows
<1>9. CASE Cancelled \/ TakeTrip \/ HoldTick
  BY <1>9 DEF Cancelled, TakeTrip, HoldTick, StepDone, Ends, RowsGood, rows
<1>10. CASE RampTick
  BY <1>10 DEF RampTick, RowsGood, rows
<1>11. CASE WriteRamp
  BY <1>11 DEF WriteRamp, StepDone, Ends, RowsGood, rows
<1>12. ASSUME NEW c \in {"stop", "shutdown"}, Cancel(c) PROVE RowsGood'
  BY <1>12 DEF Cancel, Rest, RowsGood, rows
<1>13. CASE Trip \/ LinkDown \/ LinkUp \/ MeterResets
  BY <1>13 DEF Trip, LinkDown, LinkUp, MeterResets, Rest, RowsGood, rows
<1>14. ASSUME NEW reports \in BOOLEAN, Period(reports) PROVE RowsGood'
  BY <1>14 DEF Period, RowsGood, rows
<1>15. CASE UNCHANGED vars
  BY <1>15 DEF vars, RowsGood
<1> QED
  BY <1>1, <1>2, <1>3, <1>4, <1>5, <1>6, <1>7, <1>8, <1>9, <1>10, <1>11, <1>12, <1>13, <1>14, <1>15
  DEF Next, Run, Walk, Write, Take

LEMMA WalkStep ==
  ASSUME WalkInv, [Next]_vars
  PROVE  WalkInv'
<1>0. RowsGood'
  BY RowsStep DEF WalkInv
\* The rows, the user, the device and time leave the walk alone.
<1>1. ASSUME UNCHANGED <<program, pc, stack, state, done>> PROVE WalkInv'
  BY <1>0, <1>1, Stays
<1>2. CASE (\E body \in Programs : Create(body)) \/ (\E body \in Edits : OpenUpdate(body))
  BY <1>1, <1>2 DEF Create, OpenUpdate, history
<1>3. CASE SaveUpdate \/ Delete
  BY <1>1, <1>3 DEF SaveUpdate, Delete, history
<1>4. CASE \E c \in {"stop", "shutdown"} : Cancel(c)
  BY <1>1, <1>4 DEF Cancel, Rest, history
<1>5. CASE Trip \/ LinkDown \/ LinkUp \/ MeterResets
  BY <1>1, <1>5 DEF Trip, LinkDown, LinkUp, MeterResets, Rest, history
<1>6. CASE \E reports \in BOOLEAN : Period(reports)
  BY <1>1, <1>6 DEF Period
<1>7. CASE UNCHANGED vars
  BY <1>1, <1>7 DEF vars
<1>8. CASE Start
  <2>1. pc = "idle" /\ pc' = "energize" /\ done' = done /\ done = <<>> /\ state' = "running"
    BY <1>8 DEF Start, history, WalkInv, WalkTyped
  <2>2. WalkTyped' /\ StackFits' /\ DoneIsBefore'
    BY <2>1 DEF WalkInv, WalkTyped, StackFits, DoneIsBefore, Walking, Stepping
  <2>3. DoneInOrder'
    BY <2>1 DEF DoneInOrder, Range
  <2> QED BY <1>0, <2>2, <2>3 DEF WalkInv
<1>9. CASE Energize
  <2>0. pc = "energize" /\ Good(program) /\ UNCHANGED <<program, done>> /\ done = <<>>
    BY <1>9 DEF Energize, history, WalkInv, WalkTyped, RowsGood
  <2>1. CASE Ends("none")
    BY <1>0, <2>0, <2>1, Stops DEF Ends
  <2>2. CASE pc' = "next" /\ stack' = <<Begin>> /\ state' = state
    <3>1. Begin \in Frames
      BY DEF Begin, Frames
    <3>2. /\ stack' = Append(<<>>, Begin) /\ <<>> \in Seq(Frames)
          /\ stack' \in Seq(Frames) /\ stack' # <<>> /\ Len(<<>>) = 0
      BY <2>2, <3>1
    <3>3. (Below)' = <<>> /\ (Top)' = Begin
      BY <3>1, <3>2, AppendedIs DEF Below, Top
    <3>4. Inside(program, <<>>) /\ Bound(program, <<>>) >= 1
      <4>1. Inside(program, <<>>)
        BY DEF Inside
      <4> QED BY <2>0, <3>2, <4>1, BoundTyped
    <3>5. StackFits'
      BY <2>0, <2>2, <3>2, <3>3, <3>4 DEF StackFits, Walking, Stepping, Begin
    <3>6. ASSUME NEW x \in Steps(program) PROVE ~Before(x, stack')
      <4>1. x \in Seq(Frames) /\ x # <<>>
        BY <2>0, StepIs
      <4>2. x[1] \in Frames
        BY <4>1
      <4>3. ~Earlier(x[1], Begin)
        BY <4>2 DEF Earlier, Begin, Frames
      <4>4. \A k \in DOMAIN stack' : k = 1 /\ stack'[k] = Begin
        BY <2>2
      <4> QED BY <4>3, <4>4 DEF Before
    <3>7. Range(done') = {}
      BY <2>0 DEF Range
    <3>8. DoneIsBefore'
      BY <2>0, <3>6, <3>7 DEF DoneIsBefore
    <3>9. DoneInOrder' /\ WalkTyped'
      BY <2>0, <2>2, <3>7 DEF WalkInv, WalkTyped, DoneInOrder
    <3> QED BY <1>0, <3>5, <3>8, <3>9 DEF WalkInv
  <2> QED BY <1>9, <2>1, <2>2 DEF Energize
<1>10. CASE EnterLoop \/ EndOfList
  BY <1>0, <1>10, EnterLoopMoves, EndOfListMoves
\* A statement of a step fails, or is followed by another.
<1>11. ASSUME pc # "idle" /\ pc # "ended", UNCHANGED <<program, done>>,
              \/ pc' = "ended" /\ state' # "completed"
              \/ /\ Walking /\ pc' \in {"volts", "amps", "wait", "ramp"} /\ UNCHANGED <<stack, state>>
                 /\ Place(stack) \in DOMAIN program.nodes /\ Node.type # "loop"
       PROVE  WalkInv'
  BY <1>0, <1>11, Stops, Stays
<1>12. CASE EnterStep
  <2>1. Walking /\ Place(stack) \in DOMAIN program.nodes /\ Node.type # "loop" /\ pc = "next"
    BY <1>12 DEF EnterStep, AtNode, Walking
  <2> QED BY <1>11, <1>12, <2>1 DEF EnterStep, Ends
<1>13. ASSUME Stepping PROVE Walking /\ Place(stack) \in DOMAIN program.nodes /\ Node.type # "loop"
  BY <1>13 DEF WalkInv, StackFits, Stepping, Walking
<1>14. CASE WriteVolts
  <2>1. Stepping
    BY <1>14 DEF WriteVolts, Stepping
  <2> QED BY <1>11, <1>13, <1>14, <2>1 DEF WriteVolts, Ends
<1>15. CASE WriteAmps
  <2>1. Stepping
    BY <1>15 DEF WriteAmps, Stepping
  <2> QED BY <1>11, <1>13, <1>15, <2>1 DEF WriteAmps, Ends
<1>16. CASE Cancelled
  BY <1>11, <1>16 DEF Cancelled, Ends, history
<1>17. CASE TakeTrip
  BY <1>11, <1>17 DEF TakeTrip, Ends, history
<1>18. CASE HoldTick
  <2>1. Stepping /\ UNCHANGED <<program, state>>
    BY <1>18 DEF HoldTick, Stepping
  <2>2. CASE StepDone
    BY <1>0, <2>1, <2>2, StepEnds
  <2>3. CASE UNCHANGED <<stack, pc, done>>
    BY <1>1, <2>1, <2>3
  <2> QED BY <1>18, <2>2, <2>3 DEF HoldTick
<1>19. CASE RampTick
  <2>1. Stepping /\ UNCHANGED <<program, done>> /\ pc = "wait"
    BY <1>19 DEF RampTick, history, Stepping
  <2>2. \/ UNCHANGED <<pc, stack, state>>
        \/ pc' = "ended" /\ state' = "failed"
        \/ pc' = "ramp" /\ UNCHANGED <<stack, state>>
    BY <1>19 DEF RampTick
  <2> QED BY <1>1, <1>11, <1>13, <2>1, <2>2
<1>20. CASE WriteRamp
  <2>1. Stepping /\ program' = program /\ pc = "ramp"
    BY <1>20 DEF WriteRamp, Stepping
  <2>2. CASE StepDone /\ state' = state
    BY <1>0, <2>1, <2>2, StepEnds
  <2>3. CASE pc' = "wait" /\ UNCHANGED <<stack, done, state>>
    BY <1>11, <1>13, <2>1, <2>3
  <2>4. CASE pc' = "ended" /\ state' = "failed" /\ done' = done
    BY <1>11, <2>1, <2>4
  <2> QED BY <1>20, <2>2, <2>3, <2>4 DEF WriteRamp, Ends
<1> QED
  BY <1>2, <1>3, <1>4, <1>5, <1>6, <1>7, <1>8, <1>9, <1>10, <1>12, <1>14, <1>15, <1>16, <1>17,
     <1>18, <1>19, <1>20
  DEF Next, Run, Walk, Write, Take

LEMMA WalkInit == Init => WalkInv
<1> SUFFICES ASSUME Init PROVE WalkInv
  OBVIOUS
<1>1. RowsGood /\ StackFits /\ DoneIsBefore /\ DoneInOrder
  BY DEF Init, RowsGood, StackFits, DoneIsBefore, DoneInOrder, Walking, Stepping
<1>2. WalkTyped
  BY DEF Init, WalkTyped
<1> QED BY <1>1, <1>2 DEF WalkInv

\* The walk over any tree with its nested repeats takes the steps the program means,
\* each of them, once and in order, and a completed run has taken them all (runNodes,
\* drive).
THEOREM WalkDrivesProgram == Spec => []DrivesProgram
<1>1. WalkInv => DrivesProgram
  <2>1. WalkInv /\ program # None => pc # "idle"
    BY DEF WalkInv, RowsGood
  <2> QED BY <2>1 DEF WalkInv, DoneInOrder, DrivesProgram
<1> QED BY <1>1, WalkInit, WalkStep, PTL DEF Spec

------------------------------------------------------------------------------
(***************************************************************************)
(* What a step leaves behind, and when.                                    *)
(*                                                                         *)
(* A tick in the channel is no older than the run is behind the stream, so *)
(* neither is a baseline when it is taken; from then on it ages with the   *)
(* setpoints of the step.                                                  *)
(***************************************************************************)
StepLocals ==
  [begun : BOOLEAN, start : Nat, ah : Nat, holding : BOOLEAN, held : Nat,
   wrote : BOOLEAN, last : Nat, mark : Nat, val : Int, final : BOOLEAN]

Ticks == [trip : BOOLEAN, age : Nat, low : BOOLEAN, ah : Nat]
Events == [trip : {TRUE}]
Reports == Ticks \cup Events

\* A channel whose ticks are no older than l.
Recent(q, l) ==
  q \in Seq(Reports) /\ \A i \in DOMAIN q : q[i] \in Ticks => q[i].age <= l

SinceBegun(loc, f) ==
  /\ loc.begun => loc.start <= f + MaxLag
  /\ loc.holding => loc.held <= f + MaxLag

RunTyped ==
  /\ s \in StepLocals /\ Recent(queue, lag)
  /\ lag \in Nat /\ lag <= MaxLag
  /\ inForce \in Nat /\ inForce <= Longest
  /\ sent \in [Targets -> Int]
  /\ ah \in Nat /\ tripped \in BOOLEAN /\ seenTrip \in BOOLEAN

\* What the statements of a step rely on.
StepHolds ==
  /\ SinceBegun(s, inForce)
  /\ pc \in {"volts", "amps"} => Node.type = "setHold" /\ s = Fresh
  /\ pc = "ramp" => Node.type = "ramp"
  /\ pc = "ramp" /\ s.final => s.val = Node.to /\ Node.seconds <= inForce + MaxLag
  /\ pc = "amps" => sent["voltage"] = Node.volts
  /\ pc = "wait" /\ Node.type = "setHold"
       => sent = [t \in Targets |-> IF t = "voltage" THEN Node.volts ELSE Node.amps]

StepInv == WalkInv /\ RunTyped /\ StepHolds

LEMMA ReportKinds ==
  ASSUME NEW r \in Reports
  PROVE  /\ r.trip \in BOOLEAN
         /\ r \in Ticks => "age" \in DOMAIN r /\ r.age \in Nat
         /\ r \notin Ticks => "age" \notin DOMAIN r /\ r.trip = TRUE
<1>1. CASE r \in Ticks
  BY <1>1 DEF Ticks
<1>2. CASE r \in Events /\ r \notin Ticks
  BY <1>2 DEF Events
<1> QED BY <1>1, <1>2 DEF Reports

LEMMA Shortened ==
  ASSUME NEW q, NEW l \in Nat, Recent(q, l), q # <<>>
  PROVE  /\ Recent(Tail(q), l) /\ Head(q) \in Reports /\ Head(q).trip \in BOOLEAN
         /\ ~Head(q).trip => Head(q) \in Ticks /\ Head(q).age \in Nat /\ Head(q).age <= l
<1>1. /\ q \in Seq(Reports) /\ Head(q) = q[1] /\ 1 \in DOMAIN q /\ q[1] \in Reports
      /\ Tail(q) \in Seq(Reports)
      /\ \A i \in DOMAIN Tail(q) : Tail(q)[i] = q[i + 1] /\ i + 1 \in DOMAIN q
  BY DEF Recent
<1>2. q[1] \in Ticks => q[1].age <= l
  BY <1>1 DEF Recent
<1>3. Recent(Tail(q), l)
  BY <1>1 DEF Recent
<1> QED BY <1>1, <1>2, <1>3, ReportKinds

LEMMA Offered ==
  ASSUME NEW q, NEW l \in Nat, Recent(q, l), NEW r \in Reports, r \in Ticks => r.age <= l
  PROVE  Recent(Offer(q, r), l)
<1>1. q \in Seq(Reports) /\ Len(q) \in Nat
  BY DEF Recent
<1>2. /\ Append(q, r) \in Seq(Reports) /\ DOMAIN Append(q, r) = 1 .. Len(q) + 1
      /\ Append(q, r)[Len(q) + 1] = r /\ \A i \in 1 .. Len(q) : Append(q, r)[i] = q[i]
      /\ DOMAIN q = 1 .. Len(q)
  BY <1>1
<1>3. \A i \in 1 .. Len(q) + 1 : i = Len(q) + 1 \/ i \in 1 .. Len(q)
  BY <1>1
<1>4. Recent(Append(q, r), l)
  BY <1>2, <1>3 DEF Recent
<1> QED BY <1>4 DEF Offer

LEMMA OlderIs ==
  ASSUME NEW n \in Nat
  PROVE  Older(n) \in Nat /\ Older(n) <= n + 1 /\ Older(n) <= Longest
  BY BoundsAssumption DEF Older, Cap

LEMMA Ages ==
  ASSUME NEW q, NEW l \in Nat, Recent(q, l)
  PROVE  Recent(Aged(q), l + 1) /\ (q = <<>> => Aged(q) = <<>>)
<1>1. /\ q \in Seq(Reports) /\ DOMAIN q = 1 .. Len(q) /\ Len(q) \in Nat
      /\ \A i \in DOMAIN q : q[i] \in Reports /\ (q[i] \in Ticks => q[i].age <= l)
  BY DEF Recent
<1> DEFINE older(r) == IF "age" \in DOMAIN r THEN [r EXCEPT !.age = Older(@)] ELSE r
<1>2. ASSUME NEW r \in Reports, r \in Ticks => r.age <= l
      PROVE  older(r) \in Reports /\ (older(r) \in Ticks => older(r).age <= l + 1)
  <2>1. CASE r \in Ticks
    <3>1. "age" \in DOMAIN r /\ r.age \in Nat
      BY <2>1, ReportKinds
    <3>2. Older(r.age) \in Nat /\ Older(r.age) <= l + 1
      BY <1>2, <2>1, <3>1, OlderIs
    <3>3. [r EXCEPT !.age = Older(r.age)] \in Ticks
      BY <2>1, <3>2 DEF Ticks
    <3>4. [r EXCEPT !.age = Older(r.age)].age = Older(r.age)
      BY <2>1 DEF Ticks
    <3> QED BY <3>1, <3>2, <3>3, <3>4 DEF Reports
  <2>2. CASE r \notin Ticks
    BY <1>2, <2>2, ReportKinds
  <2> QED BY <2>1, <2>2
<1>3. Aged(q) = [i \in 1 .. Len(q) |-> older(q[i])]
  BY <1>1 DEF Aged
<1> HIDE DEF older
<1>4. \A i \in 1 .. Len(q) :
        older(q[i]) \in Reports /\ (older(q[i]) \in Ticks => older(q[i]).age <= l + 1)
  BY <1>1, <1>2
<1>5. Aged(q) \in Seq(Reports) /\ DOMAIN Aged(q) = 1 .. Len(q)
  BY <1>1, <1>3, <1>4
<1>6. \A i \in DOMAIN Aged(q) : Aged(q)[i] = older(q[i])
  BY <1>3
<1>7. Recent(Aged(q), l + 1)
  BY <1>4, <1>5, <1>6 DEF Recent
<1>8. q = <<>> => Aged(q) = <<>>
  BY <1>5
<1> QED BY <1>7, <1>8

\* What a tick makes of the locals of a hold.
LEMMA Observes ==
  ASSUME RunTyped, SinceBegun(s, inForce), queue # <<>>, ~Tick.trip
  PROVE  /\ Observed \in StepLocals /\ SinceBegun(Observed, inForce)
         /\ Observed.begun /\ Tick.age \in Nat
<1>1. Tick \in Ticks /\ Tick.age \in Nat /\ Tick.age <= lag
  BY Shortened DEF RunTyped, Tick
<1>2. Tick.ah \in Nat /\ Tick.low \in BOOLEAN /\ Tick.age <= inForce + MaxLag
  BY <1>1, BoundsAssumption DEF RunTyped, Ticks
<1> DEFINE b == IF s.begun THEN s ELSE [s EXCEPT !.begun = TRUE, !.start = Tick.age, !.ah = Tick.ah]
<1>3. b \in StepLocals /\ b.begun /\ SinceBegun(b, inForce)
  <2>1. CASE s.begun
    BY <2>1 DEF RunTyped
  <2>2. CASE ~s.begun
    <3>1. b = [s EXCEPT !.begun = TRUE, !.start = Tick.age, !.ah = Tick.ah]
      BY <2>2
    <3>2. b \in StepLocals
      BY <1>1, <1>2, <3>1 DEF RunTyped, StepLocals
    <3>3. b.begun /\ b.start = Tick.age /\ b.holding = s.holding /\ b.held = s.held
      BY <3>1 DEF RunTyped, StepLocals
    <3> QED BY <1>2, <3>2, <3>3 DEF SinceBegun
  <2> QED BY <2>1, <2>2
<1>4. Observed = IF ~Tick.low THEN [b EXCEPT !.holding = FALSE]
                 ELSE IF b.holding THEN b ELSE [b EXCEPT !.holding = TRUE, !.held = Tick.age]
  BY DEF Observed
<1> HIDE DEF b
<1>5. CASE ~Tick.low
  <2>1. Observed = [b EXCEPT !.holding = FALSE]
    BY <1>4, <1>5
  <2>2. Observed \in StepLocals
    BY <1>3, <2>1 DEF StepLocals
  <2>3. Observed.begun = b.begun /\ Observed.start = b.start /\ Observed.holding = FALSE
    BY <1>3, <2>1 DEF StepLocals
  <2> QED BY <1>1, <1>3, <2>2, <2>3 DEF SinceBegun
<1>6. CASE Tick.low /\ b.holding
  BY <1>1, <1>3, <1>4, <1>6
<1>7. CASE Tick.low /\ ~b.holding
  <2>1. Observed = [b EXCEPT !.holding = TRUE, !.held = Tick.age]
    BY <1>4, <1>7
  <2>2. Observed \in StepLocals
    BY <1>1, <1>3, <2>1 DEF StepLocals
  <2>3. Observed.begun = b.begun /\ Observed.start = b.start /\ Observed.held = Tick.age
    BY <1>3, <2>1 DEF StepLocals
  <2> QED BY <1>1, <1>2, <1>3, <2>2, <2>3 DEF SinceBegun
<1> QED BY <1>5, <1>6, <1>7

LEMMA Divides ==
  ASSUME NEW a \in Int, NEW b \in Int, b > 0
  PROVE  a \div b \in Int /\ (a * b) \div b = a
  OBVIOUS

\* A ramp ends at its endpoint.
LEMMA RampValue ==
  ASSUME NEW n, n.from \in Int, n.to \in Int, n.seconds \in Int, n.seconds > 0
  PROVE  /\ \A e \in Int : Between(n, e) \in Int
         /\ Between(n, n.seconds) = n.to
<1>1. ASSUME NEW e \in Int PROVE Between(n, e) \in Int
  <2>1. (n.to - n.from) * e \in Int /\ (n.from - n.to) * e \in Int
    OBVIOUS
  <2>2. ((n.to - n.from) * e) \div n.seconds \in Int /\ ((n.from - n.to) * e) \div n.seconds \in Int
    BY <2>1, Divides
  <2> QED BY <2>2 DEF Between
<1>2. /\ ((n.to - n.from) * n.seconds) \div n.seconds = n.to - n.from
      /\ ((n.from - n.to) * n.seconds) \div n.seconds = n.from - n.to
  <2> DEFINE up == n.to - n.from
             down == n.from - n.to
             b == n.seconds
  <2>1. up \in Int /\ down \in Int /\ b \in Int /\ b > 0
    OBVIOUS
  <2> HIDE DEF up, down, b
  <2>2. (up * b) \div b = up /\ (down * b) \div b = down
    BY <2>1, Divides
  <2> QED BY <2>2 DEF up, down, b
<1>3. Between(n, n.seconds) = n.to
  BY <1>2 DEF Between
<1> QED BY <1>1, <1>3

(***************************************************************************)
(* The steps preserve it.                                                  *)
(***************************************************************************)
LEMMA LaterBaseline ==
  ASSUME NEW f \in Nat, f <= Longest, NEW x \in Nat, x <= f + MaxLag
  PROVE  Older(x) <= Older(f) + MaxLag /\ Older(f) \in Nat /\ Older(f) <= Longest /\ f <= Older(f)
  BY BoundsAssumption DEF Older, Cap

\* A period.
LEMMA PeriodTyped ==
  ASSUME RunTyped, NEW reports \in BOOLEAN, Period(reports)
  PROVE  RunTyped'
<1>1. lag' \in Nat /\ lag' <= MaxLag
  BY BoundsAssumption DEF RunTyped, Period
<1>2. ah' \in Nat
  BY BoundsAssumption DEF RunTyped, Period, Cap
<1>3. s' \in StepLocals
  <2>1. /\ s \in StepLocals
        /\ \A n \in Nat : Older(n) \in Nat
        /\ s.start \in Nat /\ s.held \in Nat /\ s.last \in Nat /\ s.mark \in Nat
    BY OlderIs DEF RunTyped, StepLocals
  <2>2. s' = AgedLocals
    BY DEF Period
  <2> DEFINE u == IF s.begun THEN Older(s.start) ELSE 0
             v == IF s.holding THEN Older(s.held) ELSE 0
             w == IF s.wrote THEN Older(s.last) ELSE 0
             x == IF pc = "ramp" THEN Older(s.mark) ELSE 0
  <2>3. u \in Nat /\ v \in Nat /\ w \in Nat /\ x \in Nat
    BY <2>1
  <2>4. AgedLocals = [s EXCEPT !.start = u, !.held = v, !.last = w, !.mark = x]
    BY DEF AgedLocals
  <2> HIDE DEF u, v, w, x
  <2> QED BY <2>1, <2>2, <2>3, <2>4 DEF StepLocals
<1>4. inForce' \in Nat /\ inForce' <= Longest
  BY OlderIs DEF RunTyped, Period
<1>5. Recent(queue', lag')
  <2>1. Recent(queue, lag) /\ lag \in Nat
    BY DEF RunTyped
  <2>2. Recent(Aged(queue), lag')
    <3>1. CASE lag' = lag + 1
      BY <2>1, <3>1, Ages
    <3>2. CASE queue = <<>>
      <4>1. Aged(queue) = <<>>
        BY <2>1, <3>2, Ages
      <4>2. Recent(<<>>, lag')
        BY DEF Recent
      <4> QED BY <4>1, <4>2
    <3> QED BY <3>1, <3>2 DEF Period
  <2>3. ASSUME NEW low \in BOOLEAN PROVE Telemetry(low) \in Reports /\ Telemetry(low).age = 0
    BY <2>3 DEF Telemetry, Reports, Ticks, RunTyped
  <2>4. \A low \in BOOLEAN : Recent(Offer(Aged(queue), Telemetry(low)), lag')
    BY <1>1, <2>2, <2>3, Offered
  <2> QED BY <2>2, <2>4 DEF Period
<1>6. UNCHANGED <<sent, tripped, seenTrip>>
  BY DEF Period
<1> QED BY <1>1, <1>2, <1>3, <1>4, <1>5, <1>6 DEF RunTyped

LEMMA PeriodHolds ==
  ASSUME StepInv, NEW reports \in BOOLEAN, Period(reports)
  PROVE  StepHolds'
<1>1. inForce \in Nat /\ inForce <= Longest /\ inForce' = Older(inForce) /\ s \in StepLocals
  BY DEF StepInv, RunTyped, Period
<1>2. UNCHANGED <<pc, sent>> /\ Node' = Node /\ s' = AgedLocals
  BY DEF Period, Node
<1>3. /\ s'.begun = s.begun /\ s'.holding = s.holding /\ s'.final = s.final /\ s'.val = s.val
      /\ s'.start = IF s.begun THEN Older(s.start) ELSE 0
      /\ s'.held = IF s.holding THEN Older(s.held) ELSE 0
  BY <1>1, <1>2 DEF AgedLocals, StepLocals
<1>4. s.start \in Nat /\ s.held \in Nat
  BY <1>1 DEF StepLocals
<1>5. SinceBegun(s, inForce)'
  <2>1. s.begun => s.start <= inForce + MaxLag
    BY DEF StepInv, StepHolds, SinceBegun
  <2>2. s.holding => s.held <= inForce + MaxLag
    BY DEF StepInv, StepHolds, SinceBegun
  <2>3. s.begun => Older(s.start) <= Older(inForce) + MaxLag
    BY <1>1, <1>4, <2>1, LaterBaseline
  <2>4. s.holding => Older(s.held) <= Older(inForce) + MaxLag
    BY <1>1, <1>4, <2>2, LaterBaseline
  <2> QED BY <1>1, <1>3, <2>3, <2>4 DEF SinceBegun
<1>6. pc \in {"volts", "amps"} => Node.type = "setHold" /\ s' = Fresh
  <2> SUFFICES ASSUME pc \in {"volts", "amps"} PROVE Node.type = "setHold" /\ s' = Fresh
    OBVIOUS
  <2>1. Node.type = "setHold" /\ s = Fresh
    BY DEF StepInv, StepHolds
  <2> QED BY <1>2, <2>1 DEF AgedLocals, Fresh
<1>7. pc = "ramp" /\ s.final => s.val = Node.to /\ Node.seconds <= inForce' + MaxLag
  <2> SUFFICES ASSUME pc = "ramp", s.final PROVE s.val = Node.to /\ Node.seconds <= inForce' + MaxLag
    OBVIOUS
  <2>1. s.val = Node.to /\ Node.seconds <= inForce + MaxLag /\ Node.type = "ramp"
    BY DEF StepInv, StepHolds
  <2>2. inForce <= inForce' /\ inForce' \in Nat
    BY <1>1, BoundsAssumption DEF Older, Cap
  <2>3. Node.seconds \in Int
    <3>1. Good(program) /\ Place(stack) \in DOMAIN program.nodes
      BY DEF StepInv, WalkInv, RowsGood, StackFits, Stepping
    <3> QED BY <2>1, <3>1, NodeKinds DEF Node
  <2> QED BY <1>1, <2>1, <2>2, <2>3, BoundsAssumption
<1>8. /\ pc = "ramp" => Node.type = "ramp"
      /\ pc = "amps" => sent["voltage"] = Node.volts
      /\ pc = "wait" /\ Node.type = "setHold"
           => sent = [t \in Targets |-> IF t = "voltage" THEN Node.volts ELSE Node.amps]
  BY DEF StepInv, StepHolds
<1>9. s'.final = s.final /\ s'.val = s.val
  BY <1>3
<1> QED
  <2>1. pc' = pc /\ sent' = sent
    BY <1>2
  <2> QED BY <1>2, <1>5, <1>6, <1>7, <1>8, <1>9, <2>1 DEF StepHolds

LEMMA FreshTyped ==
  /\ Fresh \in StepLocals /\ ~Fresh.begun /\ ~Fresh.holding /\ ~Fresh.final
  /\ \A f : SinceBegun(Fresh, f)
  BY DEF Fresh, StepLocals, SinceBegun

LEMMA EmptyRecent == \A l : Recent(<<>>, l)
  BY DEF Recent

\* The run is over.
LEMMA Overs ==
  ASSUME StepInv, s' = Fresh, pc' = "ended", RunTyped'
  PROVE  StepHolds'
<1>1. SinceBegun(s, inForce)'
  <2>1. SinceBegun(Fresh, inForce')
    BY FreshTyped
  <2> QED BY <2>1 DEF SinceBegun
<1> QED BY <1>1 DEF StepHolds

\* The device, the link and the user; what reaches the channel is no tick.
LEMMA Announced ==
  ASSUME RunTyped
  PROVE  Recent(Announce(TripEvent), lag)
<1>1. TripEvent \in Reports /\ TripEvent \notin Ticks
  <2>1. TripEvent \in Events
    BY DEF TripEvent, Events
  <2>2. "age" \notin DOMAIN TripEvent
    BY DEF TripEvent
  <2> QED BY <2>1, <2>2, ReportKinds DEF Reports
<1>2. Recent(queue, lag) /\ lag \in Nat
  BY DEF RunTyped
<1>3. Recent(Offer(queue, TripEvent), lag)
  BY <1>1, <1>2, Offered
<1> QED BY <1>2, <1>3 DEF Announce

LEMMA RestTyped ==
  ASSUME RunTyped,
         \/ Trip \/ LinkDown \/ LinkUp \/ MeterResets
         \/ \E c \in {"stop", "shutdown"} : Cancel(c)
  PROVE  RunTyped' /\ UNCHANGED <<s, pc, program, stack, sent, inForce>>
<1>1. UNCHANGED <<s, pc, program, stack, sent, inForce, lag>>
  BY DEF Trip, LinkDown, LinkUp, MeterResets, Cancel, Rest, history
<1>2. queue' \in {queue, Announce(TripEvent)}
  BY DEF Trip, LinkDown, LinkUp, MeterResets, Cancel
<1>3. Recent(queue', lag)
  BY <1>2, Announced DEF RunTyped
<1>4. ah' \in Nat
  BY DEF Trip, LinkDown, LinkUp, MeterResets, Cancel, device, RunTyped
<1>5. tripped' \in BOOLEAN /\ seenTrip' \in BOOLEAN
  BY DEF Trip, LinkDown, LinkUp, MeterResets, Cancel, device, RunTyped
<1> QED BY <1>1, <1>3, <1>4, <1>5 DEF RunTyped

LEMMA SameHolds ==
  ASSUME StepHolds, UNCHANGED <<s, pc, program, stack, sent, inForce>>
  PROVE  StepHolds'
<1>1. Node' = Node
  BY DEF Node
<1>2. SinceBegun(s, inForce)'
  BY DEF StepHolds, SinceBegun
<1> QED BY <1>1, <1>2 DEF StepHolds

LEMMA SameTyped ==
  ASSUME RunTyped, UNCHANGED <<s, queue, lag, sent, ah, tripped, seenTrip>>,
         inForce' \in {inForce, 0}
  PROVE  RunTyped'
  BY BoundsAssumption DEF RunTyped

LEMMA EndsTyped ==
  ASSUME RunTyped, NEW outcome, Ends(outcome), UNCHANGED <<lag, ah, tripped, seenTrip>>,
         inForce' \in {inForce, 0}, sent' \in [Targets -> Int]
  PROVE  RunTyped' /\ s' = Fresh /\ pc' = "ended"
<1>1. s' = Fresh /\ pc' = "ended" /\ queue' = <<>>
  BY DEF Ends
<1>2. s' \in StepLocals /\ Recent(queue', lag')
  BY <1>1, FreshTyped, EmptyRecent
<1>3. lag' \in Nat /\ lag' <= MaxLag /\ inForce' \in Nat /\ inForce' <= Longest
  BY BoundsAssumption DEF RunTyped
<1>4. ah' \in Nat /\ tripped' \in BOOLEAN /\ seenTrip' \in BOOLEAN
  BY DEF RunTyped
<1> QED BY <1>1, <1>2, <1>3, <1>4 DEF RunTyped

\* The node of a statement of a step, of a program that is valid.
LEMMA HasNode ==
  ASSUME WalkInv, Stepping
  PROVE  /\ Node.type \in {"setHold", "ramp"}
         /\ Node.type = "setHold" => Node.volts \in Int /\ Node.amps \in Int /\ Node.need \in Int
         /\ Node.type = "ramp" => /\ Node.target \in Targets /\ Node.from \in Int /\ Node.to \in Int
                                  /\ Node.seconds \in Int /\ Node.seconds > 0
<1>1. Good(program) /\ Place(stack) \in DOMAIN program.nodes /\ Node.type # "loop"
  BY DEF WalkInv, RowsGood, StackFits, Stepping
<1> DEFINE a == Place(stack)
<1>2. a \in DOMAIN program.nodes /\ Node = program.nodes[a]
  BY <1>1 DEF Node
<1> HIDE DEF a
<1> QED BY <1>1, <1>2, NodeKinds

\* Start and the first write.
LEMMA StartHolds ==
  ASSUME StepInv, Start
  PROVE  RunTyped' /\ StepHolds'
<1>1. pc' = "energize" /\ UNCHANGED <<s, queue, lag, sent, ah, tripped, seenTrip, inForce>>
  BY DEF Start, device, history
<1>2. RunTyped'
  BY <1>1, SameTyped DEF StepInv
<1>3. SinceBegun(s, inForce)'
  BY <1>1 DEF StepInv, StepHolds, SinceBegun
<1> QED BY <1>1, <1>2, <1>3 DEF StepHolds

LEMMA EnergizeHolds ==
  ASSUME StepInv, Energize
  PROVE  RunTyped' /\ StepHolds'
<1>1. UNCHANGED <<lag, sent, ah, tripped, seenTrip, inForce>>
  BY DEF Energize, device, history
<1>2. CASE pc' = "next" /\ UNCHANGED <<s, queue>>
  <2>1. RunTyped'
    BY <1>1, <1>2, SameTyped DEF StepInv
  <2>2. SinceBegun(s, inForce)'
    BY <1>1, <1>2 DEF StepInv, StepHolds, SinceBegun
  <2> QED BY <1>2, <2>1, <2>2 DEF StepHolds
<1>3. CASE Ends("none")
  <2>1. sent' \in [Targets -> Int]
    BY <1>1 DEF StepInv, RunTyped
  <2>2. RunTyped' /\ s' = Fresh /\ pc' = "ended"
    BY <1>1, <1>3, <2>1, EndsTyped DEF StepInv
  <2> QED BY <2>2, Overs
<1> QED BY <1>2, <1>3 DEF Energize

\* The walk.
LEMMA WalkHolds ==
  ASSUME StepInv, Walk
  PROVE  RunTyped' /\ StepHolds'
<1>1. UNCHANGED <<lag, sent, ah, tripped, seenTrip>> /\ inForce' \in {inForce, 0}
  BY DEF Walk, EnterLoop, EndOfList, EnterStep, device, history
<1>2. ASSUME NEW outcome, Ends(outcome)
      PROVE  RunTyped' /\ StepHolds'
  <2>1. sent' \in [Targets -> Int]
    BY <1>1 DEF StepInv, RunTyped
  <2>2. RunTyped' /\ s' = Fresh /\ pc' = "ended"
    BY <1>1, <1>2, <2>1, EndsTyped DEF StepInv
  <2> QED BY <2>2, Overs
<1>3. CASE pc = "next" /\ UNCHANGED <<pc, s, queue, inForce>>
  <2>1. RunTyped'
    BY <1>1, <1>3, SameTyped DEF StepInv
  <2>2. SinceBegun(s, inForce)'
    BY <1>1, <1>3 DEF StepInv, StepHolds, SinceBegun
  <2> QED BY <1>3, <2>1, <2>2 DEF StepHolds
<1>4. CASE /\ AtNode /\ Node.type # "loop" /\ s' = Locals
           /\ pc' = IF Node.type = "setHold" THEN "volts" ELSE "wait"
           /\ UNCHANGED <<stack, queue, state, program>>
  <2>1. s' \in StepLocals /\ Recent(queue', lag')
    BY <1>1, <1>4, FreshTyped DEF Locals, StepInv, RunTyped
  <2>2. RunTyped'
    BY <1>1, <2>1, BoundsAssumption DEF StepInv, RunTyped
  <2>3. Node' = Node /\ s' = Fresh
    BY <1>4 DEF Node, Locals
  <2>4. SinceBegun(s, inForce)' /\ ~s'.final
    BY <2>3, FreshTyped DEF SinceBegun
  <2> QED BY <1>4, <2>2, <2>3, <2>4 DEF StepHolds
<1>5. CASE EnterLoop
  BY <1>3, <1>5 DEF EnterLoop, AtNode, history
<1>6. CASE EndOfList
  <2>1. UNCHANGED inForce /\ pc = "next"
    BY <1>6 DEF EndOfList, history
  <2>2. UNCHANGED <<pc, s, queue>> \/ Ends("completed")
    BY <1>6 DEF EndOfList
  <2> QED BY <1>2, <1>3, <2>1, <2>2
<1>7. CASE EnterStep
  BY <1>2, <1>4, <1>7 DEF EnterStep
<1> QED BY <1>5, <1>6, <1>7 DEF Walk

\* The setpoints of a hold.
LEMMA VoltsHold ==
  ASSUME StepInv, WriteVolts
  PROVE  RunTyped' /\ StepHolds'
<1>1. UNCHANGED <<program, lag, ah, tripped, seenTrip, inForce>> /\ pc = "volts"
  BY DEF WriteVolts, device
<1>2. Node.volts \in Int /\ Node.type = "setHold" /\ s = Fresh
  BY <1>1, HasNode DEF StepInv, StepHolds, Stepping
<1>3. sent \in [Targets -> Int] /\ sent' \in {sent, [sent EXCEPT !["voltage"] = Node.volts]}
  BY DEF StepInv, RunTyped, WriteVolts
<1>4. sent' \in [Targets -> Int]
  BY <1>2, <1>3
<1>5. CASE Ends("failed")
  <2>1. RunTyped' /\ s' = Fresh /\ pc' = "ended"
    BY <1>1, <1>4, <1>5, EndsTyped DEF StepInv
  <2> QED BY <2>1, Overs
<1>6. CASE /\ pc' = "amps" /\ UNCHANGED <<stack, s, queue>>
           /\ sent' = [sent EXCEPT !["voltage"] = Node.volts]
  <2>1. RunTyped'
    <3>1. s' \in StepLocals /\ Recent(queue', lag')
      BY <1>1, <1>6 DEF StepInv, RunTyped
    <3> QED BY <1>1, <1>4, <3>1 DEF StepInv, RunTyped
  <2>2. Node' = Node /\ sent'["voltage"] = Node.volts
    BY <1>1, <1>3, <1>6 DEF Node, Targets
  <2>3. SinceBegun(s, inForce)'
    BY <1>1, <1>6 DEF StepInv, StepHolds, SinceBegun
  <2> QED BY <1>2, <1>6, <2>1, <2>2, <2>3 DEF StepHolds
<1> QED BY <1>5, <1>6 DEF WriteVolts

LEMMA AmpsHold ==
  ASSUME StepInv, WriteAmps
  PROVE  RunTyped' /\ StepHolds'
<1>1. UNCHANGED <<program, lag, ah, tripped, seenTrip>> /\ pc = "amps" /\ inForce' = 0
  BY DEF WriteAmps, device
<1>2. Node.amps \in Int /\ Node.type = "setHold" /\ s = Fresh /\ sent["voltage"] = Node.volts
  BY <1>1, HasNode DEF StepInv, StepHolds, Stepping
<1>3. sent \in [Targets -> Int] /\ sent' \in {sent, [sent EXCEPT !["current"] = Node.amps]}
  BY DEF StepInv, RunTyped, WriteAmps
<1>4. sent' \in [Targets -> Int]
  BY <1>2, <1>3
<1>5. CASE Ends("failed")
  <2>1. RunTyped' /\ s' = Fresh /\ pc' = "ended"
    BY <1>1, <1>4, <1>5, EndsTyped DEF StepInv
  <2> QED BY <2>1, Overs
<1>6. CASE /\ pc' = "wait" /\ UNCHANGED <<stack, s, queue>>
           /\ sent' = [sent EXCEPT !["current"] = Node.amps]
  <2>1. RunTyped'
    <3>1. s' \in StepLocals /\ Recent(queue', lag')
      BY <1>1, <1>6 DEF StepInv, RunTyped
    <3> QED BY <1>1, <1>4, <3>1, BoundsAssumption DEF StepInv, RunTyped
  <2>2. Node' = Node
    BY <1>1, <1>6 DEF Node
  <2>3. SinceBegun(s, inForce)'
    BY <1>2, <1>6, FreshTyped DEF SinceBegun
  <2>4. sent' = [t \in Targets |-> IF t = "voltage" THEN Node.volts ELSE Node.amps]
    BY <1>2, <1>3, <1>6 DEF Targets
  <2> QED BY <1>6, <2>1, <2>2, <2>3, <2>4 DEF StepHolds
<1> QED BY <1>5, <1>6 DEF WriteAmps

\* What a step that comes to its end has to show.
Marked ==
  IF Node.type = "setHold"
  THEN sent' = [t \in Targets |-> IF t = "voltage" THEN Node.volts ELSE Node.amps]
  ELSE sent' = [sent EXCEPT ![Node.target] = Node.to]
Long ==
  LET asked == IF Node.type = "ramp" THEN Node.seconds
               ELSE IF Node.advance \in Timed THEN Node.need ELSE 0
  IN inForce + MaxLag >= asked

LEMMA HoldTickHolds ==
  ASSUME StepInv, HoldTick
  PROVE  RunTyped' /\ StepHolds' /\ (done' # done => Marked /\ Long)
<1>1. /\ UNCHANGED <<program, lag, ah, tripped, seenTrip, inForce, sent>>
      /\ pc = "wait" /\ Node.type = "setHold" /\ queue # <<>> /\ ~Tick.trip
      /\ queue' = Tail(queue)
  BY DEF HoldTick, device, Tick
<1>2. Observed \in StepLocals /\ SinceBegun(Observed, inForce) /\ Observed.begun /\ Tick.age \in Nat
  BY <1>1, Observes DEF StepInv, StepHolds
<1>3. Recent(queue', lag')
  BY <1>1, Shortened DEF StepInv, RunTyped
<1>4. s' \in StepLocals /\ SinceBegun(s', inForce)
  BY <1>2 DEF HoldTick, StepDone, StepInv, RunTyped, StepHolds
<1>5. RunTyped'
  BY <1>1, <1>3, <1>4 DEF StepInv, RunTyped
<1>6. SinceBegun(s, inForce)'
  BY <1>1, <1>4 DEF SinceBegun
<1>7. sent = [t \in Targets |-> IF t = "voltage" THEN Node.volts ELSE Node.amps]
  BY <1>1 DEF StepInv, StepHolds
<1>8. StepHolds'
  <2>1. CASE pc' = "next"
    BY <1>6, <2>1 DEF StepHolds
  <2>2. CASE UNCHANGED <<stack, pc>>
    <3>1. Node' = Node /\ pc' = "wait"
      BY <1>1, <2>2 DEF Node
    <3>2. sent' = [t \in Targets |-> IF t = "voltage" THEN (Node')["volts"] ELSE (Node')["amps"]]
      BY <1>1, <1>7, <3>1
    <3> QED BY <1>6, <3>1, <3>2 DEF StepHolds
  <2> QED BY <2>1, <2>2 DEF HoldTick, StepDone
<1>9. ASSUME done' # done
      PROVE  Long
  <2>1. Met(Node, Observed)
    BY <1>9 DEF HoldTick
  <2>2. Node.need \in Int /\ Node.type # "ramp"
    BY <1>1, HasNode DEF StepInv, Stepping
  <2>3. inForce \in Nat /\ Observed.start \in Nat /\ Observed.held \in Nat
    BY <1>2 DEF StepInv, RunTyped, StepLocals
  <2>4. CASE Node.advance = "currentBelow"
    <3>1. Observed.holding /\ Observed.held - Tick.age >= Node.need
      BY <2>1, <2>4 DEF Met, Since
    <3>2. Observed.held <= inForce + MaxLag
      BY <1>2, <3>1 DEF SinceBegun
    <3> QED BY <1>2, <2>2, <2>3, <2>4, <3>1, <3>2, BoundsAssumption DEF Long, Timed
  <2>5. CASE Node.advance = "elapsedAbove"
    <3>1. Observed.start - Tick.age >= Node.need
      BY <2>1, <2>5 DEF Met, Since
    <3>2. Observed.start <= inForce + MaxLag
      BY <1>2 DEF SinceBegun
    <3> QED BY <1>2, <2>2, <2>3, <2>5, <3>1, <3>2, BoundsAssumption DEF Long, Timed
  <2>6. CASE Node.advance \notin Timed
    BY <2>2, <2>3, <2>6, BoundsAssumption DEF Long
  <2> QED BY <2>4, <2>5, <2>6 DEF Timed
<1>10. Marked
  BY <1>1, <1>7 DEF Marked
<1> QED BY <1>5, <1>8, <1>9, <1>10

\* A ramp: at its end the setpoint it computes is its endpoint, and it has run its time.
LEMMA RampTickHolds ==
  ASSUME StepInv, RampTick
  PROVE  RunTyped' /\ StepHolds'
<1>1. /\ UNCHANGED <<program, lag, ah, tripped, seenTrip, inForce, sent>>
      /\ pc = "wait" /\ Node.type = "ramp" /\ queue # <<>> /\ ~Tick.trip
      /\ queue' = Tail(queue)
  BY DEF RampTick, device, Tick, history
<1>2. Tick.age \in Nat /\ Tick.age <= lag /\ Recent(queue', lag')
  BY <1>1, Shortened DEF StepInv, RunTyped, Tick
<1>3. /\ Node.from \in Int /\ Node.to \in Int /\ Node.seconds \in Int /\ Node.seconds > 0
  BY <1>1, HasNode DEF StepInv, Stepping
<1>4. /\ inForce \in Nat /\ lag <= MaxLag /\ lag \in Nat /\ MaxLag \in Nat /\ s \in StepLocals
      /\ SinceBegun(s, inForce)
  BY BoundsAssumption DEF StepInv, RunTyped, StepHolds
<1> DEFINE b == IF s.begun THEN s ELSE [s EXCEPT !.begun = TRUE, !.start = Tick.age]
           elapsed == Cap(Since(b.start), Node.seconds)
           final == AtEnd(elapsed, Node)
<1>5. b \in StepLocals /\ b.begun /\ SinceBegun(b, inForce)
  <2>1. CASE s.begun
    BY <1>4, <2>1
  <2>2. CASE ~s.begun
    <3>1. b = [s EXCEPT !.begun = TRUE, !.start = Tick.age]
      BY <2>2
    <3>2. b \in StepLocals
      BY <1>2, <1>4, <3>1 DEF StepLocals
    <3>3. b.begun /\ b.start = Tick.age /\ b.holding = s.holding /\ b.held = s.held
      BY <1>4, <3>1 DEF StepLocals
    <3> QED BY <1>2, <1>4, <3>2, <3>3 DEF SinceBegun
  <2> QED BY <2>1, <2>2
<1>6. \/ s' = b /\ UNCHANGED <<pc, stack>>
      \/ pc' = "ended" /\ s' = Fresh
      \/ /\ s' = [b EXCEPT !.val = Between(Node, elapsed), !.final = final, !.mark = Tick.age]
         /\ pc' = "ramp" /\ UNCHANGED stack
  BY DEF RampTick
<1> HIDE DEF b
<1>7. /\ elapsed \in Int
      /\ final => elapsed = Node.seconds /\ Node.seconds <= inForce + MaxLag
  <2>1. b.start \in Nat /\ b.start <= inForce + MaxLag
    BY <1>5 DEF StepLocals, SinceBegun
  <2> QED BY <1>2, <1>3, <1>4, <2>1 DEF Cap, Since, AtEnd
<1>8. final \in BOOLEAN
  BY DEF AtEnd
<1> HIDE DEF elapsed, final
<1>9. Between(Node, elapsed) \in Int /\ (final => Between(Node, elapsed) = Node.to)
  BY <1>3, <1>7, RampValue
<1>10. CASE s' = b /\ UNCHANGED <<pc, stack>>
  <2>1. RunTyped'
    BY <1>1, <1>2, <1>5, <1>10 DEF StepInv, RunTyped
  <2>2. Node' = Node /\ pc' = "wait"
    BY <1>1, <1>10 DEF Node
  <2>3. SinceBegun(s, inForce)'
    BY <1>1, <1>5, <1>10 DEF SinceBegun
  <2> QED BY <1>1, <2>1, <2>2, <2>3 DEF StepHolds
<1>11. CASE pc' = "ended" /\ s' = Fresh
  <2>1. RunTyped'
    BY <1>1, <1>2, <1>11, FreshTyped DEF StepInv, RunTyped
  <2> QED BY <1>11, <2>1, Overs
<1>12. CASE /\ s' = [b EXCEPT !.val = Between(Node, elapsed), !.final = final, !.mark = Tick.age]
            /\ pc' = "ramp" /\ UNCHANGED stack
  <2> DEFINE v == Between(Node, elapsed)
             m == Tick.age
  <2>1. v \in Int /\ m \in Nat /\ s' = [b EXCEPT !.val = v, !.final = final, !.mark = m]
    BY <1>2, <1>9, <1>12
  <2> HIDE DEF v, m
  <2>2. s' \in StepLocals
    BY <1>5, <1>8, <2>1 DEF StepLocals
  <2>3. /\ s'.val = v /\ s'.final = final /\ s'.begun = b.begun /\ s'.start = b.start
        /\ s'.holding = b.holding /\ s'.held = b.held
    BY <1>5, <2>1 DEF StepLocals
  <2>4. RunTyped'
    BY <1>1, <1>2, <2>2 DEF StepInv, RunTyped
  <2>5. SinceBegun(s, inForce)'
    BY <1>1, <1>5, <2>3 DEF SinceBegun
  <2>6. Node' = Node
    BY <1>1, <1>12 DEF Node
  <2>7. s'.final => s'.val = Node.to /\ Node.seconds <= inForce' + MaxLag
    BY <1>1, <1>7, <1>9, <2>3 DEF v
  <2> QED BY <1>1, <1>12, <2>4, <2>5, <2>6, <2>7 DEF StepHolds
<1> QED BY <1>6, <1>10, <1>11, <1>12

LEMMA WriteRampHolds ==
  ASSUME StepInv, WriteRamp
  PROVE  RunTyped' /\ StepHolds' /\ (done' # done => Marked /\ Long)
<1>1. UNCHANGED <<program, lag, ah, tripped, seenTrip, inForce>> /\ pc = "ramp"
  BY DEF WriteRamp, device
<1>2. Node.type = "ramp" /\ Node.target \in Targets /\ s \in StepLocals /\ SinceBegun(s, inForce)
  BY <1>1, HasNode DEF StepInv, StepHolds, RunTyped, Stepping
<1>3. sent' \in [Targets -> Int]
  <2>1. sent \in [Targets -> Int] /\ s.val \in Int
    BY <1>2 DEF StepInv, RunTyped, StepLocals
  <2> QED BY <1>2, <2>1 DEF WriteRamp
<1>4. CASE Ends("failed") /\ UNCHANGED <<sent, done>>
  <2>1. RunTyped' /\ s' = Fresh /\ pc' = "ended"
    BY <1>1, <1>3, <1>4, EndsTyped DEF StepInv
  <2> QED BY <1>4, <2>1, Overs
<1>5. CASE /\ sent' = [sent EXCEPT ![Node.target] = s.val] /\ UNCHANGED queue
           /\ s.final /\ StepDone
  <2>1. UNCHANGED s /\ pc' = "next"
    BY <1>5 DEF StepDone
  <2>2. s' \in StepLocals /\ Recent(queue', lag')
    BY <1>1, <1>2, <1>5, <2>1 DEF StepInv, RunTyped
  <2>3. RunTyped'
    BY <1>1, <1>3, <2>2 DEF StepInv, RunTyped
  <2>4. SinceBegun(s, inForce)'
    BY <1>1, <1>2, <2>1 DEF SinceBegun
  <2>5. StepHolds'
    BY <2>1, <2>4 DEF StepHolds
  <2>6. s.val = Node.to /\ Node.seconds <= inForce + MaxLag
    BY <1>1, <1>5 DEF StepInv, StepHolds
  <2>7. Marked
    BY <1>2, <1>5, <2>6 DEF Marked
  <2>8. Long
    <3>1. Node.seconds \in Int /\ inForce \in Nat /\ MaxLag \in Nat
      BY <1>1, <1>2, HasNode, BoundsAssumption DEF StepInv, Stepping, RunTyped
    <3> QED BY <1>2, <2>6, <3>1 DEF Long
  <2> QED BY <2>3, <2>5, <2>7, <2>8
<1>6. CASE /\ UNCHANGED <<queue, stack, done>> /\ pc' = "wait"
           /\ s' = [s EXCEPT !.wrote = TRUE, !.last = s.mark, !.mark = 0, !.val = 0]
  <2>1. s' \in StepLocals
    <3> DEFINE m == s.mark
    <3>1. m \in Nat /\ s' = [s EXCEPT !.wrote = TRUE, !.last = m, !.mark = 0, !.val = 0]
      BY <1>2, <1>6 DEF StepLocals
    <3> HIDE DEF m
    <3>2. TRUE \in BOOLEAN /\ 0 \in Nat /\ 0 \in Int
      OBVIOUS
    <3> QED BY <1>2, <3>1, <3>2 DEF StepLocals
  <2>2. s'.begun = s.begun /\ s'.start = s.start /\ s'.holding = s.holding /\ s'.held = s.held
    BY <1>2, <1>6 DEF StepLocals
  <2>3. RunTyped'
    BY <1>1, <1>3, <1>6, <2>1 DEF StepInv, RunTyped
  <2>4. SinceBegun(s, inForce)'
    BY <1>1, <1>2, <2>2 DEF SinceBegun
  <2>5. Node' = Node
    BY <1>1, <1>6 DEF Node
  <2> QED BY <1>2, <1>6, <2>3, <2>4, <2>5 DEF StepHolds
<1> QED BY <1>4, <1>5, <1>6 DEF WriteRamp

LEMMA StepInvInit == Init => StepInv
<1> SUFFICES ASSUME Init PROVE StepInv
  OBVIOUS
<1>1. RunTyped
  <2>1. s \in StepLocals /\ Recent(queue, lag)
    BY FreshTyped, EmptyRecent DEF Init
  <2>2. lag \in Nat /\ lag <= MaxLag /\ inForce \in Nat /\ inForce <= Longest /\ ah \in Nat
    BY BoundsAssumption DEF Init
  <2>3. sent \in [Targets -> Int]
    BY DEF Init
  <2>4. tripped \in BOOLEAN /\ seenTrip \in BOOLEAN
    BY DEF Init
  <2> QED BY <2>1, <2>2, <2>3, <2>4 DEF RunTyped
<1>2. StepHolds
  BY FreshTyped DEF Init, StepHolds
<1> QED BY <1>1, <1>2, WalkInit DEF StepInv

LEMMA StepInvStep ==
  StepInv /\ [Next]_vars => StepInv' /\ (done' # done => Marked /\ Long)
<1> SUFFICES ASSUME StepInv, [Next]_vars
             PROVE  StepInv' /\ (done' # done => Marked /\ Long)
  OBVIOUS
<1>1. WalkInv'
  BY WalkStep DEF StepInv
<1> SUFFICES RunTyped' /\ StepHolds' /\ (done' # done => Marked /\ Long)
  BY <1>1 DEF StepInv
<1>2. CASE UNCHANGED <<s, pc, program, stack, queue, lag, sent, ah, tripped, seenTrip, inForce, done>>
  BY <1>2, SameTyped, SameHolds DEF StepInv
<1>3. ASSUME NEW body, Create(body) \/ OpenUpdate(body)
      PROVE  RunTyped' /\ StepHolds' /\ done' = done
  BY <1>2, <1>3 DEF Create, OpenUpdate, device, history
<1>4. ASSUME SaveUpdate \/ Delete
      PROVE  RunTyped' /\ StepHolds' /\ done' = done
  BY <1>2, <1>4 DEF SaveUpdate, Delete, device, history
<1>5. CASE Start
  <2>1. done' = done
    BY <1>5 DEF Start, history
  <2> QED BY <1>5, <2>1, StartHolds
<1>6. CASE Walk
  <2>1. done' = done
    BY <1>6 DEF Walk, EnterLoop, EndOfList, EnterStep, history
  <2> QED BY <1>6, <2>1, WalkHolds
<1>7. CASE Energize
  <2>1. done' = done
    BY <1>7 DEF Energize, history
  <2> QED BY <1>7, <2>1, EnergizeHolds
<1>8. CASE WriteVolts
  <2>1. done' = done
    BY <1>8 DEF WriteVolts
  <2> QED BY <1>8, <2>1, VoltsHold
<1>9. CASE WriteAmps
  <2>1. done' = done
    BY <1>9 DEF WriteAmps
  <2> QED BY <1>9, <2>1, AmpsHold
<1>10. CASE WriteRamp
  BY <1>10, WriteRampHolds
<1>11. CASE HoldTick
  BY <1>11, HoldTickHolds
<1>12. CASE RampTick
  <2>1. done' = done
    BY <1>12 DEF RampTick, history
  <2> QED BY <1>12, <2>1, RampTickHolds
<1>13. CASE TakeTrip \/ Cancelled
  <2>1. UNCHANGED <<lag, ah, tripped, seenTrip, sent, inForce, done>>
    BY <1>13 DEF TakeTrip, Cancelled, device, history
  <2>2. PICK outcome : Ends(outcome)
    BY <1>13 DEF TakeTrip, Cancelled
  <2>3. RunTyped' /\ s' = Fresh /\ pc' = "ended"
    <3>1. sent' \in [Targets -> Int]
      BY <2>1 DEF StepInv, RunTyped
    <3> QED BY <2>1, <2>2, <3>1, EndsTyped DEF StepInv
  <2> QED BY <2>1, <2>3, Overs
<1>14. CASE Trip \/ LinkDown \/ LinkUp \/ MeterResets \/ \E c \in {"stop", "shutdown"} : Cancel(c)
  <2>1. RunTyped' /\ UNCHANGED <<s, pc, program, stack, sent, inForce>>
    BY <1>14, RestTyped DEF StepInv
  <2>2. done' = done
    BY <1>14 DEF Trip, LinkDown, LinkUp, MeterResets, Cancel, Rest, history
  <2> QED BY <2>1, <2>2, SameHolds DEF StepInv
<1>15. ASSUME NEW reports \in BOOLEAN, Period(reports)
       PROVE  RunTyped' /\ StepHolds' /\ done' = done
  <2>1. RunTyped'
    BY <1>15, PeriodTyped DEF StepInv
  <2>2. StepHolds'
    BY <1>15, PeriodHolds
  <2>3. done' = done
    BY <1>15 DEF Period
  <2> QED BY <2>1, <2>2, <2>3
<1>16. CASE UNCHANGED vars
  BY <1>2, <1>16 DEF vars
<1> QED
  BY <1>3, <1>4, <1>5, <1>6, <1>7, <1>8, <1>9, <1>10, <1>11, <1>12, <1>13, <1>14, <1>15, <1>16
     DEF Next, Run, Write, Take

\* A step that is done has left its setpoints behind: a hold its voltage and current,
\* a ramp its endpoint, whatever ticks were throttled or dropped on the way.
THEOREM MarksAreLeft == Spec => StepsLeaveTheirMark
<1>1. StepInv /\ [Next]_vars => (done' # done => Marked)
  BY StepInvStep
<1>2. StepInv /\ [Next]_vars => StepInv'
  BY StepInvStep
<1>3. StepInv /\ [Next]_vars
        => [done' # done =>
              IF Node.type = "setHold"
              THEN sent' = [t \in Targets |-> IF t = "voltage" THEN Node.volts ELSE Node.amps]
              ELSE sent' = [sent EXCEPT ![Node.target] = Node.to]]_vars
  BY <1>1 DEF Marked
<1> QED BY <1>2, <1>3, StepInvInit, PTL DEF Spec, StepsLeaveTheirMark

\* No hold and no ramp ends before its time but by what the run was behind the stream.
THEOREM HoldsAreKept == Spec => HoldsLongEnough
<1>1. StepInv /\ [Next]_vars => (done' # done => Long)
  BY StepInvStep
<1>2. StepInv /\ [Next]_vars => StepInv'
  BY StepInvStep
<1>3. StepInv /\ [Next]_vars
        => [done' # done =>
              LET asked == IF Node.type = "ramp" THEN Node.seconds
                           ELSE IF Node.advance \in Timed THEN Node.need ELSE 0
              IN inForce + MaxLag >= asked]_vars
  BY <1>1 DEF Long
<1> QED BY <1>2, <1>3, StepInvInit, PTL DEF Spec, HoldsLongEnough

\* The channel never holds a tick older than the run is behind, and no baseline is
\* older than the setpoints by more than that.
THEOREM BaselinesAreRecent == Spec => [](Recent(queue, lag) /\ SinceBegun(s, inForce))
<1>1. StepInv => Recent(queue, lag) /\ SinceBegun(s, inForce)
  BY DEF StepInv, RunTyped, StepHolds
<1>2. StepInv /\ [Next]_vars => StepInv'
  BY StepInvStep
<1> QED BY <1>1, <1>2, StepInvInit, PTL DEF Spec
==============================================================================
