------------------------------ MODULE DpsDevice ------------------------------
(***************************************************************************)
(* The DPS-150 as the emulator plays it (device/emulator/emulator.go): two *)
(* registers, a set voltage and the threshold of the over-voltage          *)
(* protection, the output and the latched protection.  The other registers *)
(* are written and read as these are; the regulation mode and the metering *)
(* are read-only values nothing here tells apart.                          *)
(*                                                                         *)
(* A frame to the device is [op, reg, val]; one from it is [reg, val], and *)
(* a full dump is [reg, dump].  What an operation does is                  *)
(* [dev, out]: the device after it and the frames it sends.                *)
(***************************************************************************)
EXTENDS Integers, Sequences

CONSTANTS Values,  \* the values of a float register
          PowerOn  \* what the float registers hold at power-on

Floats == {"volts", "ovp"}
Trips == {"ovp", "otp"}

ASSUME PowerOnAssumption == Values \subseteq Nat /\ PowerOn \in [Floats -> Values]

Devices == [reg : [Floats -> Values], on : BOOLEAN, prot : Trips \cup {"ok"}, session : BOOLEAN]

\* New: the power-on state.
Powered == [reg |-> PowerOn, on |-> FALSE, prot |-> "ok", session |-> FALSE]

SessionFrame == [op |-> "session", reg |-> "none", val |-> 1]
GetAllFrame == [op |-> "read", reg |-> "all", val |-> 0]
WriteFrame(r, v) == [op |-> "write", reg |-> r, val |-> v]
OutputFrame(on) == WriteFrame("output", IF on THEN 1 ELSE 0)

Dump(d) == [reg |-> "all", dump |-> [reg |-> d.reg, on |-> d.on, prot |-> d.prot]]
Measured == [reg |-> "measurement", val |-> 0]
Shown(r, v) == [reg |-> r, val |-> v]

Does(d, out) == [dev |-> d, out |-> out]

(***************************************************************************)
(* refresh, trip: the measured voltage of a lit output is the set one.     *)
(***************************************************************************)
Violated(d) == d.on /\ d.reg["volts"] > d.reg["ovp"]

Tripped(d, p) ==
  Does([d EXCEPT !.prot = p, !.on = FALSE],
       <<Shown("protection", p)>> \o IF d.on THEN <<Shown("output", 0)>> ELSE <<>>)

Refreshed(d) == IF d.prot = "ok" /\ Violated(d) THEN Tripped(d, "ovp") ELSE Does(d, <<>>)

(***************************************************************************)
(* applyWrite, handleWrite: any write of the output register clears a      *)
(* latched protection; the echo follows, and then what refresh has to say. *)
(***************************************************************************)
Written(d, f) ==
  IF f.reg \in Floats
  THEN Does([d EXCEPT !.reg[f.reg] = f.val], <<>>)
  ELSE Does([d EXCEPT !.on = f.val = 1, !.prot = "ok"],
            IF d.prot # "ok" THEN <<Shown("protection", "ok")>> ELSE <<>>)

HandleWrite(d, f) ==
  LET w == Written(d, f)
      r == Refreshed(w.dev)
  IN  Does(r.dev, w.out \o <<Shown(f.reg, f.val)>> \o r.out)

\* handleSession: enabling pushes the first burst, once.
HandleSession(d) ==
  IF d.session
  THEN Does(d, <<>>)
  ELSE LET r == Refreshed([d EXCEPT !.session = TRUE]) IN Does(r.dev, r.out \o <<Measured>>)

HandleRead(d) == Does(d, <<Dump(d)>>)

\* handle: without a session nothing but its enabling is heard.
Handle(d, f) ==
  CASE f.op = "session" -> HandleSession(d)
    [] f.op = "write" /\ d.session -> HandleWrite(d, f)
    [] f.op = "read" /\ d.session -> HandleRead(d)
    [] OTHER -> Does(d, <<>>)

\* TripProtection: the condition latches with the output off as well, and is pushed
\* to the session there is.
Condition(d, p) ==
  LET t == Tripped(d, p) IN Does(t.dev, IF d.session THEN t.out ELSE <<>>)
==============================================================================
