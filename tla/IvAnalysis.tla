------------------------------ MODULE IvAnalysis ------------------------------
(***************************************************************************)
(* What finish makes of the points of a sweep (ivtrace/analyze.go): the    *)
(* metrics of the component that was swept.  They are a function of the    *)
(* points, and those of the run and of the component: a curve is what is   *)
(* measured at each step of a sweep through it.                            *)
(*                                                                         *)
(* Volts and amps are natural numbers and a metric is a rational, <<num,   *)
(* den>> with den > 0, or Null: one the analysis does not vouch for.       *)
(***************************************************************************)
EXTENDS IvRun, FiniteSetsExt, Functions

CONSTANTS
  Curves,             \* sequences of [v, i], of MaxSteps points
  ConductionFloor,    \* conductionFloorA
  Reference,          \* RefCurrentA, IztA
  Log,                \* the logarithm of the currents there are, to scale
  Slopes,             \* bound: the laws of the properties below
  IdealityMinPoints, ResistorMinPoints

ASSUME AnalysisAssumption ==
  /\ ConductionFloor \in Nat \ {0} /\ Reference \in Nat \ {0}
  /\ IdealityMinPoints \in Nat /\ ResistorMinPoints \in Nat
  /\ Slopes \subseteq Nat \ {0}
  /\ \A c \in Curves :
       /\ c \in Seq([v : Nat, i : Nat]) /\ Len(c) = MaxSteps
       /\ \A k \in DOMAIN c : c[k].i >= ConductionFloor => Log[c[k].i] \in Int

Null == <<0, 0>>
Same(a, b) == a[1] * b[2] = b[1] * a[2] /\ (a = Null <=> b = Null)
Positive(a) == a # Null /\ a[1] > 0
OrNull(a, vouched) == IF vouched THEN a ELSE Null

\* recordPoint: what the device measured, nothing at all with its output off.
Dark == [v |-> 0, i |-> 0]
Measured(c) == [k \in DOMAIN points |-> IF points[k] = 0 THEN Dark ELSE c[points[k]]]

\* currentCeiling
Ceiling == IF plan.mode = "voltage" THEN plan.compliance ELSE plan.stop

(***************************************************************************)
(* The helpers.  A fit is over some of the points, K their indices.        *)
(***************************************************************************)
Volts(p, K) == [k \in K |-> p[k].v]
Amps(p, K) == [k \in K |-> p[k].i]

Total(x) == MapThenSumSet(LAMBDA k : x[k], DOMAIN x)

\* The squared number of points times the covariance of x and y.
Spread(x, y) ==
  Cardinality(DOMAIN x) * Total([k \in DOMAIN x |-> x[k] * y[k]]) - Total(x) * Total(y)

\* linearFit: the slope of y over x.
Fit(x, y) ==
  OrNull(<<Spread(x, y), Spread(x, x)>>,
         Cardinality(DOMAIN x) >= 2 /\ Spread(x, x) > 0 /\ Spread(y, y) > 0)

\* R squared is below 0.999.
Curved(x, y) == 1000 * Spread(x, y) * Spread(x, y) < 999 * Spread(x, x) * Spread(y, y)

MaxCurrent(p) == Max({0} \cup Range(Amps(p, DOMAIN p)))
Conducts(p) == MaxCurrent(p) >= ConductionFloor

\* interpVAtI
Straddles(p, k, target) ==
  /\ p[k - 1].i # p[k].i
  /\ Min({p[k - 1].i, p[k].i}) <= target /\ target <= Max({p[k - 1].i, p[k].i})
Crossings(p, target) == {k \in 2 .. Len(p) : Straddles(p, k, target)}

Between(a, b, target) ==
  LET sign == IF b.i > a.i THEN 1 ELSE -1
  IN <<sign * (a.v * (b.i - a.i) + (target - a.i) * (b.v - a.v)), sign * (b.i - a.i)>>

\* Mutant: the segment that was reached last.
VoltageAtLast(p, target) ==
  LET crossings == Crossings(p, target)
  IN IF crossings = {} THEN Null ELSE Between(p[Max(crossings) - 1], p[Max(crossings)], target)

VoltageAt(p, target) ==
  LET crossings == Crossings(p, target)
  IN IF crossings = {} THEN Null ELSE Between(p[Min(crossings) - 1], p[Min(crossings)], target)

\* Below the ceiling by clampFrac, 5 %.
InRegion(p) == {k \in DOMAIN p : p[k].i >= ConductionFloor /\ 20 * p[k].i <= 19 * Ceiling}

\* topByCurrent with defaultTopFrac, a fifth of the region, and two points at least.  The
\* sort leaves it open which of the points of one current are above the others.
TopsByCurrent(p) ==
  LET region == InRegion(p)
      n == Cardinality(region)
  IN IF n < 2 THEN {region}
     ELSE {top \in kSubset(Max({2, (n + 4) \div 5}), region) :
             \A j \in top, k \in region \ top : p[k].i <= p[j].i}

(***************************************************************************)
(* The components.                                                         *)
(***************************************************************************)
\* analyzeDiode.  The ideality is 1 / (slope * vt).
IdealitySlope(p) ==
  LET region == InRegion(p)
      slope == Fit(Volts(p, region), [k \in region |-> Log[p[k].i]])
  IN OrNull(slope, Cardinality(region) >= IdealityMinPoints /\ Positive(slope))

SeriesR(p, top) ==
  LET slope == Fit(Amps(p, top), Volts(p, top))
  IN OrNull(slope, Positive(slope))

Vf(p) == OrNull(VoltageAt(p, Reference), Conducts(p))

Diode(p, top) ==
  [vf       |-> Vf(p),
   ideality |-> OrNull(IdealitySlope(p), Conducts(p)),
   seriesR  |-> OrNull(SeriesR(p, top), Conducts(p)),
   dynamicR |-> Vf(p) # Null /\ IdealitySlope(p) # Null]

\* analyzeResistor
Resistor(p) ==
  LET conductance == Fit(Volts(p, DOMAIN p), Amps(p, DOMAIN p))
      known == Conducts(p) /\ Len(p) >= ResistorMinPoints /\ Positive(conductance)
  IN [resistance |-> OrNull(<<conductance[2], conductance[1]>>, known),
      approx     |-> known /\ Curved(Volts(p, DOMAIN p), Amps(p, DOMAIN p))]

\* analyzeZener
Vz(p) == OrNull(VoltageAt(p, Reference), MaxCurrent(p) >= Reference)

Zener(p) ==
  LET breakdown == {k \in DOMAIN p : 2 * p[k].i >= Reference}
      zzt == Fit(Amps(p, breakdown), Volts(p, breakdown))
  IN [vz |-> Vz(p), zzt |-> OrNull(zzt, Vz(p) # Null /\ Positive(zzt))]

\* analyzeLamp: the first conducting point, and the first of the highest current.
Lamp(p) ==
  LET colds == {k \in DOMAIN p : p[k].i >= ConductionFloor /\ p[k].v > 0}
      hot == Min({k \in DOMAIN p : p[k].i = MaxCurrent(p)})
      Ohms(k) == <<p[k].v, p[k].i>>
  IN [cold |-> IF Conducts(p) /\ colds # {} THEN Ohms(Min(colds)) ELSE Null,
      hot  |-> IF Conducts(p) THEN Ohms(hot) ELSE Null]

(***************************************************************************)
(* Properties.                                                             *)
(***************************************************************************)
Swept == {SubSeq(c, 1, plan.steps) : c \in Curves}

\* The laws a component may obey where it conducts and the supply does not clamp it.
Ohmic(c, g) == \A k \in DOMAIN c : c[k].i = g * c[k].v
Exponential(c, s) ==
  \A j, k \in InRegion(c) : Log[c[k].i] - Log[c[j].i] = s * (c[k].v - c[j].v)
Warms(c) ==
  /\ \A k \in DOMAIN c : c[k].v = 0 => c[k].i = 0
  /\ \A j, k \in DOMAIN c : j < k => c[k].v * c[j].i >= c[j].v * c[k].i

\* What a sweep that kept up with its ticks reports of its component is true of the
\* component, whether the sweep was completed or cut short, and whether or not its output
\* was lost on the way: the voltage
\* at the reference current is the whole curve's, if that begins below it; an ohmic
\* component has its resistance, from every analysis, and an exponential diode its slope,
\* free of what the supply clamped; and a filament that warms is not colder hot (Analyze,
\* finish).
MetricsOfTheCurve ==
  pc = "ended" /\ hurried = {} => \A c \in Swept :
    LET p == Measured(c)
    IN /\ c[1].i < Reference =>
            \A known \in {Vf(p), Vz(p)} :
              known # Null => Same(known, VoltageAt(c, Reference))
       /\ \A top \in TopsByCurrent(p), s \in Slopes :
            /\ Ohmic(c, s) =>
                 /\ ~Resistor(p).approx
                 /\ \A known \in {Resistor(p).resistance, Diode(p, top).seriesR, Zener(p).zzt} :
                      known # Null => Same(known, <<1, s>>)
            /\ Exponential(c, s) /\ Diode(p, top).ideality # Null =>
                 Same(Diode(p, top).ideality, <<s, 1>>)
       /\ Warms(c) /\ Lamp(p).cold # Null =>
            Lamp(p).hot[1] * Lamp(p).cold[2] >= Lamp(p).cold[1] * Lamp(p).hot[2]
==============================================================================
