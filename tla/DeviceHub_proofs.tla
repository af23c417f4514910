--------------------------- MODULE DeviceHub_proofs ---------------------------
(***************************************************************************)
(* What the cache and a subscriber know of the device, whatever is on the  *)
(* wire, for any clients, commands, buffer and backlog.                    *)
(*                                                                         *)
(* The cache.  What a reader ends with is decided by the wire: the last    *)
(* frame to the hub that tells of a register, or what the reader holds     *)
(* when none does.  A register settles if a frame to the device will make  *)
(* it tell, with no write of the register behind, or if the wire to the    *)
(* hub ends with what the device holds.  Every step keeps that for the     *)
(* cache, and for each command that has yet to store what it wrote; the    *)
(* registers left out are the late ones, and the threshold of a command    *)
(* that has yet to ask for the dump.                                       *)
(*                                                                         *)
(* The subscriber.  An update is about the change it tells of, so that one *)
(* which is not lost leaves the subscriber with what the hub then holds.   *)
(* What is shown before the first frame is what the hub assumes, since the *)
(* first frame of a session is a measurement.                              *)
(***************************************************************************)
EXTENDS DeviceHub, SequenceTheorems, WellFoundedInduction, TLAPS

Outputs == {{}, {TRUE}, {FALSE}}

DeviceFrames ==
  {SessionFrame, GetAllFrame} \cup {OutputFrame(on) : on \in BOOLEAN}
    \cup {WriteFrame(r, v) : r \in Floats, v \in Values}

HostFrames ==
  {Measured} \cup {Shown("output", n) : n \in {0, 1}}
    \cup {Shown("protection", p) : p \in Trips \cup {"ok"}}
    \cup {Shown(r, v) : r \in Floats, v \in Values}
    \cup {Dump(d) : d \in Devices}

WireTyped ==
  /\ dev \in Devices /\ open \in BOOLEAN /\ stalled \in BOOLEAN
  /\ toDev \in Seq(DeviceFrames) /\ toHost \in Seq(HostFrames)
HubTyped ==
  /\ pc \in {"down", "shake", "read"}
  /\ conn \in BOOLEAN /\ connected \in BOOLEAN /\ dumped \in BOOLEAN
  /\ cache \in Caches \cup {NoState}
LockTyped ==
  /\ writer \in Clients \cup {Hub, NoOne} /\ onWire \in BOOLEAN
  /\ left \in Seq(DeviceFrames)
CallsTyped ==
  /\ client \in [Clients -> [pc : {"idle", "call", "store"}, cmd : [set : Settings, out : Outputs]]]
  /\ passed \in [Clients -> SUBSET Floats] /\ late \in SUBSET Floats
  /\ issued \in Nat /\ faults \in Nat
SubTyped ==
  /\ room \in 0 .. Buffer
  /\ view \in [link : BOOLEAN, on : BOOLEAN, prot : Trips \cup {"ok"}]
  /\ missed \in SUBSET {"link", "on", "prot"}

TypeOK == WireTyped /\ HubTyped /\ LockTyped /\ CallsTyped /\ SubTyped

------------------------------------------------------------------------------
(***************************************************************************)
(* Frames to the hub.                                                      *)
(***************************************************************************)
Fields == {"on", "prot"} \cup Floats

\* A field of a cache, of a dump or of the device.
Field(s, x) == IF x \in Floats THEN s.reg[x] ELSE IF x = "on" THEN s.on ELSE s.prot

\* The frames that tell of a field, and what they tell.
Tells(f, x) ==
  \/ f.reg = "all"
  \/ f.reg = "output" /\ x = "on"
  \/ f.reg = "protection" /\ x = "prot"
  \/ f.reg = "volts" /\ x = "volts"
Told(f, x) ==
  IF f.reg = "all" THEN Field(f.dump, x) ELSE IF x = "on" THEN f.val = 1 ELSE f.val

After(f, x, b) == IF Tells(f, x) THEN Told(f, x) ELSE b

Mute(s, x) == \A i \in DOMAIN s : ~Tells(s[i], x)
Ends(s, x, v) ==
  \E i \in DOMAIN s : /\ Tells(s[i], x) /\ Told(s[i], x) = v
                      /\ \A j \in DOMAIN s : j > i => ~Tells(s[j], x)

\* Who holds b and reads s holds v then.
Heard(s, x, b, v) == Ends(s, x, v) \/ (Mute(s, x) /\ b = v)

LEMMA EndsConcat ==
  ASSUME NEW S, NEW s \in Seq(S), NEW t \in Seq(S), NEW x, NEW w, Ends(t, x, w)
  PROVE  Ends(s \o t, x, w)
<1>1. PICK i \in DOMAIN t : /\ Tells(t[i], x) /\ Told(t[i], x) = w
                            /\ \A j \in DOMAIN t : j > i => ~Tells(t[j], x)
  BY DEF Ends
<1>2. /\ Len(s) \in Nat /\ Len(t) \in Nat /\ DOMAIN t = 1 .. Len(t)
      /\ s \o t \in Seq(S) /\ Len(s \o t) = Len(s) + Len(t)
      /\ DOMAIN (s \o t) = 1 .. Len(s) + Len(t)
  BY LenProperties, ConcatProperties
<1>3. \A j \in 1 .. Len(s) + Len(t) : j > Len(s) => (s \o t)[j] = t[j - Len(s)]
  BY <1>2, ConcatProperties
<1>4. /\ Len(s) + i \in DOMAIN (s \o t)
      /\ (s \o t)[Len(s) + i] = t[i]
  BY <1>1, <1>2, <1>3
<1>5. ASSUME NEW j \in DOMAIN (s \o t), j > Len(s) + i
      PROVE  ~Tells((s \o t)[j], x)
  BY <1>1, <1>2, <1>3, <1>5
<1>6. QED
  BY <1>1, <1>4, <1>5 DEF Ends

LEMMA EndsHeard ==
  ASSUME NEW S, NEW s \in Seq(S), NEW t \in Seq(S), NEW x, NEW v, NEW w,
         Ends(s, x, v), Heard(t, x, v, w)
  PROVE  Ends(s \o t, x, w)
<1>1. CASE Ends(t, x, w)
  BY <1>1, EndsConcat
<1>2. CASE Mute(t, x) /\ v = w
  <2>1. /\ Len(s) \in Nat /\ Len(t) \in Nat /\ DOMAIN t = 1 .. Len(t) /\ DOMAIN s = 1 .. Len(s)
        /\ s \o t \in Seq(S) /\ DOMAIN (s \o t) = 1 .. Len(s) + Len(t)
    BY LenProperties, ConcatProperties
  <2>2. \A j \in 1 .. Len(s) + Len(t) :
           (s \o t)[j] = IF j <= Len(s) THEN s[j] ELSE t[j - Len(s)]
    BY <2>1, ConcatProperties
  <2>3. \A j \in 1 .. Len(s) + Len(t) : j > Len(s) => ~Tells((s \o t)[j], x)
    BY <1>2, <2>1, <2>2 DEF Mute
  <2>4. PICK i \in DOMAIN s : /\ Tells(s[i], x) /\ Told(s[i], x) = v
                              /\ \A j \in DOMAIN s : j > i => ~Tells(s[j], x)
    BY DEF Ends
  <2>5. /\ i \in DOMAIN (s \o t) /\ (s \o t)[i] = s[i]
    BY <2>1, <2>2
  <2>6. ASSUME NEW j \in DOMAIN (s \o t), j > i
        PROVE  ~Tells((s \o t)[j], x)
    BY <2>1, <2>2, <2>3, <2>4, <2>6
  <2>7. QED
    BY <1>2, <2>4, <2>5, <2>6 DEF Ends
<1>3. QED
  BY <1>1, <1>2 DEF Heard

LEMMA HeardConcat ==
  ASSUME NEW S, NEW s \in Seq(S), NEW t \in Seq(S), NEW x, NEW b, NEW v, NEW w,
         Heard(s, x, b, v), Heard(t, x, v, w)
  PROVE  Heard(s \o t, x, b, w)
<1>1. CASE Ends(s, x, v)
  BY <1>1, EndsHeard DEF Heard
<1>2. CASE Ends(t, x, w)
  BY <1>2, EndsConcat DEF Heard
<1>3. CASE Mute(s, x) /\ Mute(t, x) /\ b = v /\ v = w
  <2>1. /\ Len(s) \in Nat /\ Len(t) \in Nat /\ DOMAIN t = 1 .. Len(t) /\ DOMAIN s = 1 .. Len(s)
        /\ s \o t \in Seq(S) /\ DOMAIN (s \o t) = 1 .. Len(s) + Len(t)
    BY LenProperties, ConcatProperties
  <2>2. \A j \in 1 .. Len(s) + Len(t) :
           (s \o t)[j] = IF j <= Len(s) THEN s[j] ELSE t[j - Len(s)]
    BY <2>1, ConcatProperties
  <2>3. Mute(s \o t, x)
    BY <1>3, <2>1, <2>2 DEF Mute
  <2>4. QED
    BY <1>3, <2>3 DEF Heard
<1>4. QED
  BY <1>1, <1>2, <1>3 DEF Heard

\* Reading a frame leaves the rest of the wire to say the same.
LEMMA HeardTail ==
  ASSUME NEW S, NEW s \in Seq(S), s # <<>>, NEW x, NEW b, NEW v, Heard(s, x, b, v)
  PROVE  Heard(Tail(s), x, After(Head(s), x, b), v)
<1>1. /\ Len(s) \in Nat \ {0} /\ DOMAIN s = 1 .. Len(s) /\ Head(s) = s[1]
      /\ Tail(s) \in Seq(S) /\ DOMAIN Tail(s) = 1 .. Len(s) - 1
      /\ \A i \in 1 .. Len(s) - 1 : Tail(s)[i] = s[i + 1]
  BY LenProperties, HeadTailProperties, EmptySeq
<1>2. CASE Mute(s, x) /\ b = v
  <2>1. Mute(Tail(s), x) /\ ~Tells(Head(s), x)
    BY <1>1, <1>2 DEF Mute
  <2>2. QED
    BY <1>2, <2>1 DEF Heard, After
<1>3. CASE Ends(s, x, v)
  <2>1. PICK i \in DOMAIN s : /\ Tells(s[i], x) /\ Told(s[i], x) = v
                              /\ \A j \in DOMAIN s : j > i => ~Tells(s[j], x)
    BY <1>3 DEF Ends
  <2>2. CASE i = 1
    <3>1. Mute(Tail(s), x)
      BY <1>1, <2>1, <2>2 DEF Mute
    <3>2. After(Head(s), x, b) = v
      BY <1>1, <2>1, <2>2 DEF After
    <3>3. QED
      BY <3>1, <3>2 DEF Heard
  <2>3. CASE i # 1
    <3>1. /\ i - 1 \in DOMAIN Tail(s) /\ Tail(s)[i - 1] = s[i]
      BY <1>1, <2>3
    <3>2. ASSUME NEW j \in DOMAIN Tail(s), j > i - 1
          PROVE  ~Tells(Tail(s)[j], x)
      <4>1. j + 1 \in DOMAIN s /\ j + 1 > i /\ Tail(s)[j] = s[j + 1]
        BY <1>1, <3>2
      <4>2. QED
        BY <2>1, <4>1
    <3>3. QED
      BY <2>1, <3>1, <3>2 DEF Ends, Heard
  <2>4. QED
    BY <2>2, <2>3
<1>4. QED
  BY <1>2, <1>3 DEF Heard

LEMMA HeardNone ==
  ASSUME NEW x, NEW b
  PROVE  Heard(<<>>, x, b, b)
BY DEF Heard, Mute

LEMMA HeardOne ==
  ASSUME NEW f, NEW x, NEW b
  PROVE  Heard(<<f>>, x, b, After(f, x, b))
<1>1. DOMAIN <<f>> = {1} /\ <<f>>[1] = f
  OBVIOUS
<1>2. CASE Tells(f, x)
  BY <1>1, <1>2 DEF Heard, Ends, After
<1>3. CASE ~Tells(f, x)
  BY <1>1, <1>3 DEF Heard, Mute, After
<1>4. QED
  BY <1>2, <1>3

------------------------------------------------------------------------------
(***************************************************************************)
(* The device tells what it does, but for the writes of the threshold.     *)
(***************************************************************************)
Says(out, d, e) == \A x \in Fields : Heard(out, x, Field(d, x), Field(e, x))

\* The first frame a device sends is not a dump unless it was asked for one.
Dumpless(out) == \A i \in DOMAIN out : out[i].reg # "all"

LEMMA FrameTypes ==
  /\ Measured \in HostFrames
  /\ \A p \in Trips \cup {"ok"} : Shown("protection", p) \in HostFrames
  /\ \A n \in {0, 1} : Shown("output", n) \in HostFrames
  /\ \A r \in Floats, v \in Values : Shown(r, v) \in HostFrames
  /\ \A d \in Devices : Dump(d) \in HostFrames
BY DEF HostFrames

LEMMA SaysConcat ==
  ASSUME NEW s \in Seq(HostFrames), NEW t \in Seq(HostFrames), NEW d, NEW e, NEW g,
         Says(s, d, e), Says(t, e, g)
  PROVE  Says(s \o t, d, g)
BY HeardConcat DEF Says

LEMMA SaysNone ==
  ASSUME NEW d
  PROVE  Says(<<>>, d, d)
BY HeardNone DEF Says

LEMMA SaysOne ==
  ASSUME NEW f, NEW d, NEW e, \A x \in Fields : Field(e, x) = After(f, x, Field(d, x))
  PROVE  Says(<<f>>, d, e)
BY HeardOne DEF Says

LEMMA DumplessConcat ==
  ASSUME NEW s \in Seq(HostFrames), NEW t \in Seq(HostFrames)
  PROVE  Dumpless(s \o t) <=> Dumpless(s) /\ Dumpless(t)
<1>1. /\ Len(s) \in Nat /\ Len(t) \in Nat /\ DOMAIN t = 1 .. Len(t) /\ DOMAIN s = 1 .. Len(s)
      /\ s \o t \in Seq(HostFrames) /\ DOMAIN (s \o t) = 1 .. Len(s) + Len(t)
  BY LenProperties, ConcatProperties
<1>2. \A j \in 1 .. Len(s) + Len(t) : (s \o t)[j] = IF j <= Len(s) THEN s[j] ELSE t[j - Len(s)]
  BY <1>1, ConcatProperties
<1>3. ASSUME Dumpless(s \o t) PROVE Dumpless(s) /\ Dumpless(t)
  <2>1. Dumpless(s)
    BY <1>1, <1>2, <1>3 DEF Dumpless
  <2>2. ASSUME NEW i \in DOMAIN t PROVE t[i].reg # "all"
    <3>1. Len(s) + i \in DOMAIN (s \o t) /\ (s \o t)[Len(s) + i] = t[i]
      BY <1>1, <1>2
    <3>2. QED
      BY <1>3, <3>1 DEF Dumpless
  <2>3. QED
    BY <2>1, <2>2 DEF Dumpless
<1>4. ASSUME Dumpless(s), Dumpless(t), NEW j \in DOMAIN (s \o t)
      PROVE  (s \o t)[j].reg # "all"
  <2>1. CASE j <= Len(s)
    BY <1>1, <1>2, <1>4, <2>1 DEF Dumpless
  <2>2. CASE j > Len(s)
    <3>1. j - Len(s) \in DOMAIN t /\ (s \o t)[j] = t[j - Len(s)]
      BY <1>1, <1>2, <2>2
    <3>2. QED
      BY <1>4, <3>1 DEF Dumpless
  <2>3. QED
    BY <1>1, <2>1, <2>2
<1>5. QED
  BY <1>3, <1>4 DEF Dumpless

LEMMA DumplessOne ==
  ASSUME NEW f, f.reg # "all"
  PROVE  Dumpless(<<f>>)
BY DEF Dumpless

LEMMA TrippedSays ==
  ASSUME NEW d \in Devices, NEW p \in Trips
  PROVE  LET r == Tripped(d, p)
         IN  /\ r.dev \in Devices /\ r.out \in Seq(HostFrames)
             /\ r.dev.reg = d.reg /\ r.dev.session = d.session /\ ~r.dev.on
             /\ Says(r.out, d, r.dev) /\ Dumpless(r.out)
<1> DEFINE e == [d EXCEPT !.prot = p, !.on = FALSE]
           m == [d EXCEPT !.prot = p]
           first == <<Shown("protection", p)>>
           then == IF d.on THEN <<Shown("output", 0)>> ELSE <<>>
<1>1. Tripped(d, p).dev = e /\ Tripped(d, p).out = first \o then
  BY DEF Tripped, Does
<1>2. /\ e \in Devices /\ e.reg = d.reg /\ e.session = d.session /\ e.on = FALSE /\ e.prot = p
      /\ m.reg = d.reg /\ m.on = d.on /\ m.prot = p
  BY DEF Devices
<1>3. first \in Seq(HostFrames) /\ then \in Seq(HostFrames)
  BY FrameTypes
<1>4. Says(first, d, m) /\ Dumpless(first)
  <2>1. ASSUME NEW x \in Fields PROVE Field(m, x) = After(Shown("protection", p), x, Field(d, x))
    BY <1>2 DEF Fields, Floats, Field, After, Tells, Told, Shown
  <2>2. QED
    BY <2>1, SaysOne, DumplessOne DEF Shown
<1>5. Says(then, m, e) /\ Dumpless(then)
  <2>1. CASE d.on
    <3>1. ASSUME NEW x \in Fields PROVE Field(e, x) = After(Shown("output", 0), x, Field(m, x))
      <4>1. CASE x = "on"
        <5>1. Field(e, x) = FALSE
          BY <1>2, <4>1 DEF Floats, Field
        <5>2. After(Shown("output", 0), x, Field(m, x)) = FALSE
          BY <4>1 DEF After, Tells, Told, Shown
        <5>3. QED
          BY <5>1, <5>2
      <4>2. CASE x # "on"
        BY <1>2, <4>2 DEF Fields, Floats, Field, After, Tells, Told, Shown
      <4>3. QED
        BY <4>1, <4>2
    <3>2. QED
      BY <2>1, <3>1, SaysOne, DumplessOne DEF Shown
  <2>2. CASE ~d.on
    <3>1. \A x \in Fields : Field(e, x) = Field(m, x)
      BY <1>2, <2>2 DEF Fields, Floats, Field, Devices
    <3>2. QED
      BY <2>2, <3>1, HeardNone DEF Says, Dumpless
  <2>3. QED
    BY <2>1, <2>2
<1>6. /\ first \o then \in Seq(HostFrames)
      /\ Says(first \o then, d, e) /\ Dumpless(first \o then)
  BY <1>3, <1>4, <1>5, SaysConcat, DumplessConcat, ConcatProperties
<1>7. QED
  BY <1>1, <1>2, <1>6

LEMMA RefreshedSays ==
  ASSUME NEW d \in Devices
  PROVE  LET r == Refreshed(d)
         IN  /\ r.dev \in Devices /\ r.out \in Seq(HostFrames)
             /\ r.dev.reg = d.reg /\ r.dev.session = d.session
             /\ ~d.on => r.dev = d /\ r.out = <<>>
             /\ Says(r.out, d, r.dev) /\ Dumpless(r.out)
<1>1. CASE d.prot = "ok" /\ Violated(d)
  <2>1. Refreshed(d) = Tripped(d, "ovp") /\ d.on
    BY <1>1 DEF Refreshed, Violated
  <2>2. QED
    BY <2>1, TrippedSays DEF Trips
<1>2. CASE ~(d.prot = "ok" /\ Violated(d))
  <2>1. Refreshed(d) = Does(d, <<>>)
    BY <1>2 DEF Refreshed
  <2>2. /\ Does(d, <<>>).dev = d /\ Does(d, <<>>).out = <<>>
    BY DEF Does
  <2>3. <<>> \in Seq(HostFrames) /\ Dumpless(<<>>)
    BY DEF Dumpless
  <2>4. QED
    BY <2>1, <2>2, <2>3, SaysNone
<1>3. QED
  BY <1>1, <1>2

LEMMA DeviceFrameKinds ==
  ASSUME NEW f \in DeviceFrames
  PROVE  \/ f = SessionFrame \/ f = GetAllFrame
         \/ f.op = "write" /\ f.reg \in Floats /\ f.val \in Values
         \/ f.op = "write" /\ f.reg = "output" /\ f.val \in {0, 1}
<1>1. CASE \E on \in BOOLEAN : f = OutputFrame(on)
  BY <1>1 DEF OutputFrame, WriteFrame
<1>2. CASE \E r \in Floats, v \in Values : f = WriteFrame(r, v)
  BY <1>2 DEF WriteFrame
<1>3. QED
  BY <1>1, <1>2 DEF DeviceFrames

LEMMA WriteSays ==
  ASSUME NEW d \in Devices, NEW f \in DeviceFrames, f.op = "write"
  PROVE  LET h == HandleWrite(d, f)
         IN  /\ h.dev \in Devices /\ h.out \in Seq(HostFrames)
             /\ h.dev.session = d.session
             /\ \A r \in Floats : h.dev.reg[r] = IF f.reg = r THEN f.val ELSE d.reg[r]
             /\ \A x \in Fields : \/ f.reg = x /\ x \notin Echoed
                                 \/ Heard(h.out, x, Field(d, x), Field(h.dev, x))
             /\ f.reg \in Echoed => Ends(h.out, f.reg, h.dev.reg[f.reg])
             /\ Dumpless(h.out)
<1> DEFINE w == Written(d, f)
           r == Refreshed(w.dev)
           echo == <<Shown(f.reg, f.val)>>
           cleared == [d EXCEPT !.prot = "ok"]
<1>1. /\ HandleWrite(d, f).dev = r.dev
      /\ HandleWrite(d, f).out = (w.out \o echo) \o r.out
  BY DEF HandleWrite, Does
<1>2. \/ f.reg \in Floats /\ f.val \in Values
      \/ f.reg = "output" /\ f.val \in {0, 1}
  BY DeviceFrameKinds DEF SessionFrame, GetAllFrame
<1>3. /\ w.dev \in Devices /\ w.out \in Seq(HostFrames) /\ echo \in Seq(HostFrames)
      /\ w.dev.session = d.session
      /\ \A q \in Floats : w.dev.reg[q] = IF f.reg = q THEN f.val ELSE d.reg[q]
  <2>1. CASE f.reg \in Floats /\ f.val \in Values
    <3>1. w.dev = [d EXCEPT !.reg[f.reg] = f.val] /\ w.out = <<>>
      BY <2>1 DEF Written, Does
    <3>2. QED
      BY <2>1, <3>1, FrameTypes DEF Devices
  <2>2. CASE f.reg = "output" /\ f.val \in {0, 1}
    <3>1. /\ w.dev = [d EXCEPT !.on = (f.val = 1), !.prot = "ok"]
          /\ w.out = IF d.prot # "ok" THEN <<Shown("protection", "ok")>> ELSE <<>>
      BY <2>2 DEF Written, Does, Floats
    <3>2. w.dev \in Devices /\ w.dev.session = d.session /\ w.dev.reg = d.reg
      BY <3>1 DEF Devices
    <3>3. w.out \in Seq(HostFrames) /\ echo \in Seq(HostFrames)
      BY <2>2, <3>1, FrameTypes
    <3>4. QED
      BY <2>2, <3>2, <3>3 DEF Floats
  <2>3. QED
    BY <1>2, <2>1, <2>2
<1>4. /\ r.dev \in Devices /\ r.out \in Seq(HostFrames)
      /\ r.dev.reg = w.dev.reg /\ r.dev.session = w.dev.session
      /\ Says(r.out, w.dev, r.dev) /\ Dumpless(r.out)
  BY <1>3, RefreshedSays
<1>5. w.out \o echo \in Seq(HostFrames) /\ (w.out \o echo) \o r.out \in Seq(HostFrames)
  BY <1>3, <1>4, ConcatProperties
<1>6. Dumpless(w.out \o echo)
  <2>1. w.out = <<>> \/ w.out = <<Shown("protection", "ok")>>
    BY DEF Written, Does
  <2>2. Dumpless(w.out)
    BY <2>1, DumplessOne DEF Dumpless, Shown
  <2>3. Dumpless(echo)
    BY <1>2, DumplessOne DEF Shown, Floats
  <2>4. QED
    BY <1>3, <2>2, <2>3, DumplessConcat
<1>7. ASSUME NEW x \in Fields, ~(f.reg = x /\ x \notin Echoed)
      PROVE  Heard(w.out \o echo, x, Field(d, x), Field(w.dev, x))
  <2>1. CASE f.reg \in Floats /\ f.val \in Values
    <3>1. w.dev = [d EXCEPT !.reg[f.reg] = f.val] /\ w.out = <<>>
      BY <2>1 DEF Written, Does
    <3>2. Field(w.dev, x) = After(Shown(f.reg, f.val), x, Field(d, x))
      BY <1>7, <2>1, <3>1 DEF Fields, Floats, Field, After, Tells, Told, Shown, Devices, Echoed
    <3>3. QED
      BY <1>3, <3>1, <3>2, HeardOne, HeardNone, HeardConcat
  <2>2. CASE f.reg = "output" /\ f.val \in {0, 1}
    <3>1. /\ w.dev = [d EXCEPT !.on = (f.val = 1), !.prot = "ok"]
          /\ w.out = IF d.prot # "ok" THEN <<Shown("protection", "ok")>> ELSE <<>>
      BY <2>2 DEF Written, Does, Floats
    <3>2. cleared.prot = "ok" /\ cleared.reg = d.reg /\ cleared.on = d.on
      BY DEF Devices
    <3>3. w.dev.prot = "ok" /\ w.dev.reg = d.reg /\ w.dev.on = (f.val = 1)
      BY <3>1 DEF Devices
    <3>4. Heard(w.out, x, Field(d, x), Field(cleared, x))
      <4>1. CASE d.prot # "ok"
        <5>1. Field(cleared, x) = After(Shown("protection", "ok"), x, Field(d, x))
          BY <3>2 DEF Fields, Floats, Field, After, Tells, Told, Shown
        <5>2. QED
          BY <3>1, <4>1, <5>1, HeardOne
      <4>2. CASE d.prot = "ok"
        <5>1. Field(cleared, x) = Field(d, x)
          BY <3>2, <4>2 DEF Field
        <5>2. QED
          BY <3>1, <4>2, <5>1, HeardNone
      <4>3. QED
        BY <4>1, <4>2
    <3>5. Field(w.dev, x) = After(Shown(f.reg, f.val), x, Field(cleared, x))
      <4>1. CASE x = "on"
        <5>1. Field(w.dev, x) = (f.val = 1)
          BY <3>3, <4>1 DEF Field, Floats
        <5>2. After(Shown(f.reg, f.val), x, Field(cleared, x)) = (f.val = 1)
          BY <2>2, <4>1 DEF After, Tells, Told, Shown
        <5>3. QED
          BY <5>1, <5>2
      <4>2. CASE x # "on"
        BY <2>2, <3>2, <3>3, <4>2 DEF Fields, Floats, Field, After, Tells, Told, Shown
      <4>3. QED
        BY <4>1, <4>2
    <3>6. QED
      BY <1>3, <3>4, <3>5, HeardOne, HeardConcat, ZenonT(60)
  <2>3. QED
    BY <1>2, <2>1, <2>2
<1>8. ASSUME NEW x \in Fields, ~(f.reg = x /\ x \notin Echoed)
      PROVE  Heard((w.out \o echo) \o r.out, x, Field(d, x), Field(r.dev, x))
  BY <1>4, <1>5, <1>7, <1>8, HeardConcat DEF Says
<1>9. ASSUME f.reg \in Echoed
      PROVE  Ends((w.out \o echo) \o r.out, f.reg, r.dev.reg[f.reg])
  <2>1. f.reg = "volts" /\ f.reg \in Fields /\ f.reg \in Floats
    BY <1>9 DEF Echoed, Fields, Floats
  <2>2. w.out = <<>> /\ w.out \o echo = echo
    BY <1>3, <2>1 DEF Written, Does
  <2>3. Field(r.dev, "volts") = f.val /\ Field(w.dev, "volts") = f.val
    BY <1>3, <1>4, <2>1 DEF Field
  <2>4. Ends(echo, "volts", f.val)
    BY <2>1 DEF Ends, Tells, Told, Shown
  <2>5. Heard(r.out, "volts", f.val, f.val)
    BY <1>4, <2>1, <2>3 DEF Says
  <2>6. Ends(echo \o r.out, "volts", f.val)
    BY <1>3, <1>4, <2>4, <2>5, EndsHeard
  <2>7. QED
    BY <2>1, <2>2, <2>3, <2>6 DEF Field
<1>10. Dumpless((w.out \o echo) \o r.out)
  BY <1>4, <1>5, <1>6, DumplessConcat
<1>11. \A q \in Floats : r.dev.reg[q] = IF f.reg = q THEN f.val ELSE d.reg[q]
  BY <1>3, <1>4
<1>12. QED
  <2> HIDE DEF w, r, echo
  <2>1. QED
    BY <1>1, <1>3, <1>4, <1>5, <1>8, <1>9, <1>10, <1>11

\* What handling a frame does, and what is heard of it.
LEMMA HandleTypes ==
  ASSUME NEW d \in Devices, NEW f \in DeviceFrames
  PROVE  LET h == Handle(d, f)
         IN  /\ h.dev \in Devices /\ h.out \in Seq(HostFrames)
             /\ d.session => h.dev.session
             /\ f.op # "write" => h.dev.reg = d.reg
             /\ ~d.session /\ ~d.on /\ f.op = "session" => h.out = <<Measured>>
             /\ ~d.session /\ f.op # "session" => h.out = <<>> /\ ~h.dev.session
             /\ ~d.on /\ f.op # "write" => ~h.dev.on
             /\ f.op # "read" => Dumpless(h.out)
<1> DEFINE h == Handle(d, f)
           s == [d EXCEPT !.session = TRUE]
<1>1. CASE ~d.session /\ f.op # "session"
  <2>1. h = Does(d, <<>>)
    BY <1>1 DEF Handle
  <2>2. h.dev = d /\ h.out = <<>>
    BY <2>1 DEF Does
  <2>3. QED
    BY <1>1, <2>2 DEF Dumpless
<1>2. CASE f.op = "session" /\ d.session
  <2>1. h = Does(d, <<>>)
    BY <1>2 DEF Handle, HandleSession
  <2>2. h.dev = d /\ h.out = <<>>
    BY <2>1 DEF Does
  <2>3. QED
    BY <1>2, <2>2 DEF Dumpless
<1>3. CASE f.op = "session" /\ ~d.session
  <2>1. s \in Devices /\ s.session /\ s.reg = d.reg /\ s.on = d.on
    BY DEF Devices
  <2>2. h.dev = Refreshed(s).dev /\ h.out = Refreshed(s).out \o <<Measured>>
    BY <1>3 DEF Handle, HandleSession, Does
  <2>3. /\ Refreshed(s).dev \in Devices /\ Refreshed(s).out \in Seq(HostFrames)
        /\ Refreshed(s).dev.reg = s.reg /\ Refreshed(s).dev.session = s.session
        /\ ~s.on => Refreshed(s).dev = s /\ Refreshed(s).out = <<>>
        /\ Dumpless(Refreshed(s).out)
    BY <2>1, RefreshedSays
  <2>4. <<Measured>> \in Seq(HostFrames) /\ Dumpless(<<Measured>>)
    BY FrameTypes, DumplessOne DEF Measured
  <2>5. h.out \in Seq(HostFrames) /\ Dumpless(h.out)
    <3>1. Refreshed(s).out \o <<Measured>> \in Seq(HostFrames)
      BY <2>3, <2>4, ConcatProperties
    <3>2. Dumpless(Refreshed(s).out \o <<Measured>>)
      BY <2>3, <2>4, DumplessConcat
    <3>3. QED
      BY <2>2, <3>1, <3>2
  <2>6. ASSUME ~d.on PROVE h.out = <<Measured>> /\ ~h.dev.on
    <3>1. Refreshed(s).dev = s /\ Refreshed(s).out = <<>>
      BY <2>1, <2>3, <2>6
    <3>2. QED
      BY <2>1, <2>2, <2>4, <2>6, <3>1, ConcatEmptySeq
  <2>7. QED
    BY <1>3, <2>1, <2>2, <2>3, <2>5, <2>6
<1>4. CASE f.op = "read" /\ d.session
  <2>1. h = Does(d, <<Dump(d)>>)
    BY <1>4 DEF Handle, HandleRead
  <2>2. h.dev = d /\ h.out = <<Dump(d)>>
    BY <2>1 DEF Does
  <2>3. QED
    BY <1>4, <2>2, FrameTypes
<1>5. CASE f.op = "write" /\ d.session
  <2>1. h = HandleWrite(d, f)
    BY <1>5 DEF Handle
  <2>2. QED
    BY <1>5, <2>1, WriteSays
<1>6. f.op \in {"session", "read", "write"}
  BY DeviceFrameKinds DEF SessionFrame, GetAllFrame
<1>7. QED
  <2> HIDE DEF h
  <2>1. QED
    BY <1>1, <1>2, <1>3, <1>4, <1>5, <1>6 DEF h

LEMMA HandleSays ==
  ASSUME NEW d \in Devices, NEW f \in DeviceFrames, d.session
  PROVE  LET h == Handle(d, f)
         IN  /\ \A r \in Floats : h.dev.reg[r] = IF f.reg = r THEN f.val ELSE d.reg[r]
             /\ \A x \in Fields : \/ f.reg = x /\ x \notin Echoed
                                 \/ Heard(h.out, x, Field(d, x), Field(h.dev, x))
             /\ \A x \in Fields :
                  f.reg = "all" \/ (f.reg = x /\ x \in Echoed) => Ends(h.out, x, Field(h.dev, x))
<1> DEFINE h == Handle(d, f)
<1>1. CASE f = SessionFrame
  <2>1. h = Does(d, <<>>)
    BY <1>1 DEF Handle, HandleSession, SessionFrame
  <2>2. h.dev = d /\ h.out = <<>>
    BY <2>1 DEF Does
  <2>3. f.reg \notin Fields /\ f.reg # "all" /\ f.reg \notin Floats
    BY <1>1 DEF SessionFrame, Fields, Floats
  <2>4. QED
    BY <2>2, <2>3, HeardNone
<1>2. CASE f = GetAllFrame
  <2>1. h = Does(d, <<Dump(d)>>)
    BY <1>2 DEF Handle, HandleRead, GetAllFrame
  <2>2. h.dev = d /\ h.out = <<Dump(d)>>
    BY <2>1 DEF Does
  <2>3. f.reg \notin Floats
    BY <1>2 DEF GetAllFrame, Floats
  <2>4. ASSUME NEW x \in Fields PROVE Ends(h.out, x, Field(h.dev, x))
    <3>1. Tells(Dump(d), x)
      BY DEF Tells, Dump
    <3>2. Told(Dump(d), x) = Field(d, x)
      BY DEF Told, Dump, Field
    <3>3. Ends(<<Dump(d)>>, x, Field(d, x))
      BY <3>1, <3>2 DEF Ends
    <3>4. QED
      BY <2>2, <3>3
  <2>5. QED
    BY <2>2, <2>3, <2>4 DEF Heard
<1>3. CASE f.op = "write" /\ (f.reg \in Floats \/ f.reg = "output")
  <2>1. h = HandleWrite(d, f)
    BY <1>3 DEF Handle
  <2>2. /\ \A r \in Floats : h.dev.reg[r] = IF f.reg = r THEN f.val ELSE d.reg[r]
        /\ \A x \in Fields : \/ f.reg = x /\ x \notin Echoed
                            \/ Heard(h.out, x, Field(d, x), Field(h.dev, x))
        /\ f.reg \in Echoed => Ends(h.out, f.reg, h.dev.reg[f.reg])
    BY <1>3, <2>1, WriteSays
  <2>3. f.reg # "all" /\ Echoed \subseteq Floats
    BY <1>3 DEF Floats, Echoed
  <2>4. QED
    BY <2>2, <2>3 DEF Field
<1>4. QED
  BY <1>1, <1>2, <1>3, DeviceFrameKinds

\* What the device pushes unasked.
LEMMA ConditionSays ==
  ASSUME NEW d \in Devices
  PROVE  LET h == Condition(d, "otp")
         IN  /\ h.dev \in Devices /\ h.out \in Seq(HostFrames)
             /\ h.dev.reg = d.reg /\ h.dev.session = d.session /\ ~h.dev.on
             /\ ~d.session => h.out = <<>>
             /\ Dumpless(h.out)
             /\ d.session => Says(h.out, d, h.dev)
<1>1. "otp" \in Trips
  BY DEF Trips
<1>2. /\ Condition(d, "otp").dev = Tripped(d, "otp").dev
      /\ Condition(d, "otp").out = IF d.session THEN Tripped(d, "otp").out ELSE <<>>
  BY DEF Condition, Does
<1>3. <<>> \in Seq(HostFrames) /\ Dumpless(<<>>)
  BY DEF Dumpless
<1>4. /\ Tripped(d, "otp").dev \in Devices /\ Tripped(d, "otp").out \in Seq(HostFrames)
      /\ Tripped(d, "otp").dev.reg = d.reg /\ Tripped(d, "otp").dev.session = d.session
      /\ ~Tripped(d, "otp").dev.on
      /\ Says(Tripped(d, "otp").out, d, Tripped(d, "otp").dev) /\ Dumpless(Tripped(d, "otp").out)
  BY <1>1, TrippedSays
<1>5. QED
  BY <1>2, <1>3, <1>4

LEMMA MeasuredSays ==
  ASSUME NEW d \in Devices
  PROVE  LET h == Does(d, <<Measured>>)
         IN  /\ h.dev = d /\ h.out = <<Measured>> /\ h.out \in Seq(HostFrames)
             /\ Dumpless(h.out) /\ Says(h.out, d, d)
<1>1. \A x \in Fields : Field(d, x) = After(Measured, x, Field(d, x))
  BY DEF After, Tells, Measured
<1>2. QED
  BY <1>1, FrameTypes, DumplessOne, SaysOne DEF Does, Measured

------------------------------------------------------------------------------
(***************************************************************************)
(* The frames of a command, and the frames and the updates in general.     *)
(***************************************************************************)
LEMMA HostFrameKinds ==
  ASSUME NEW f \in HostFrames
  PROVE  \/ f = Measured
         \/ f.reg = "output" /\ f.val \in {0, 1}
         \/ f.reg = "protection" /\ f.val \in Trips \cup {"ok"}
         \/ f.reg \in Floats /\ f.val \in Values
         \/ f.reg = "all" /\ f.dump \in Caches
<1>1. CASE \E n \in {0, 1} : f = Shown("output", n)
  BY <1>1 DEF Shown
<1>2. CASE \E p \in Trips \cup {"ok"} : f = Shown("protection", p)
  BY <1>2 DEF Shown
<1>3. CASE \E r \in Floats, v \in Values : f = Shown(r, v)
  BY <1>3 DEF Shown
<1>4. CASE \E d \in Devices : f = Dump(d)
  BY <1>4 DEF Dump, Devices, Caches
<1>5. QED
  BY <1>1, <1>2, <1>3, <1>4 DEF HostFrames

LEMMA Setting ==
  ASSUME NEW set \in Settings
  PROVE  DOMAIN set \subseteq Floats /\ \A r \in DOMAIN set : set[r] \in Values
BY DEF Settings

LEMMA NoSetting == <<>> \in Settings
<1>1. <<>> \in [{} -> Values]
  OBVIOUS
<1>2. QED
  BY <1>1 DEF Settings

Regs(s) == {s[i].reg : i \in DOMAIN s}

\* A series has each register once, and ends with the request for the dump.
Series(s) ==
  /\ \A i \in DOMAIN s : s[i].reg = "all" <=> i = Len(s)
  /\ \A i, j \in DOMAIN s : s[i].reg = s[j].reg => i = j

\* It writes what the command sets.
Carries(s, set) ==
  \A i \in DOMAIN s : s[i].reg \in Floats => /\ s[i].reg \in DOMAIN set
                                             /\ s[i].val = set[s[i].reg]

LEMMA SeriesCons ==
  ASSUME NEW s \in Seq(DeviceFrames), s # <<>>, NEW set, Series(s), Carries(s, set),
         NEW f \in DeviceFrames, f.reg # "all", f.reg \notin Regs(s),
         f.reg \in Floats => f.reg \in DOMAIN set /\ f.val = set[f.reg]
  PROVE  /\ <<f>> \o s \in Seq(DeviceFrames) /\ <<f>> \o s # <<>>
         /\ Series(<<f>> \o s) /\ Carries(<<f>> \o s, set)
         /\ Regs(<<f>> \o s) = {f.reg} \cup Regs(s)
<1> DEFINE t == <<f>> \o s
<1>1. /\ Len(s) \in Nat \ {0} /\ DOMAIN s = 1 .. Len(s)
      /\ t \in Seq(DeviceFrames) /\ Len(t) = 1 + Len(s) /\ DOMAIN t = 1 .. 1 + Len(s)
      /\ t[1] = f /\ \A i \in 1 .. Len(s) : t[1 + i] = s[i]
  BY LenProperties, EmptySeq, ConcatProperties
<1>2. \A i \in DOMAIN t : i = 1 \/ (i - 1 \in DOMAIN s /\ t[i] = s[i - 1])
  BY <1>1
<1> HIDE DEF t
<1>3. Series(t)
  <2>1. ASSUME NEW i \in DOMAIN t PROVE t[i].reg = "all" <=> i = Len(t)
    BY <1>1, <1>2 DEF Series
  <2>2. ASSUME NEW i \in DOMAIN t, NEW j \in DOMAIN t, t[i].reg = t[j].reg PROVE i = j
    <3>1. \A k \in DOMAIN s : s[k].reg # f.reg
      BY DEF Regs
    <3>2. CASE i = 1 \/ j = 1
      BY <1>1, <1>2, <2>2, <3>1, <3>2
    <3>3. CASE i # 1 /\ j # 1
      <4>1. i - 1 = j - 1
        BY <1>2, <2>2, <3>3 DEF Series
      <4>2. QED
        BY <1>1, <4>1
    <3>4. QED
      BY <3>2, <3>3
  <2>3. QED
    BY <2>1, <2>2 DEF Series
<1>4. Carries(t, set)
  BY <1>1, <1>2 DEF Carries
<1>5. Regs(t) = {f.reg} \cup Regs(s)
  <2>1. ASSUME NEW r \in Regs(t) PROVE r \in {f.reg} \cup Regs(s)
    BY <1>1, <1>2, <2>1 DEF Regs
  <2>2. ASSUME NEW i \in DOMAIN s PROVE s[i].reg \in Regs(t)
    <3>1. 1 + i \in DOMAIN t /\ t[1 + i] = s[i]
      BY <1>1
    <3>2. QED
      BY <3>1 DEF Regs
  <2>3. f.reg \in Regs(t)
    BY <1>1 DEF Regs
  <2>4. QED
    BY <2>1, <2>2, <2>3 DEF Regs
<1>6. t # <<>>
  BY <1>1, EmptySeq
<1>7. QED
  BY <1>1, <1>3, <1>4, <1>5, <1>6 DEF t

LEMMA FramesSeries ==
  ASSUME NEW cmd \in [set : Settings, out : Outputs]
  PROVE  /\ Frames(cmd) \in Seq(DeviceFrames) /\ Frames(cmd) # <<>>
         /\ Series(Frames(cmd)) /\ Carries(Frames(cmd), cmd.set)
         /\ DOMAIN cmd.set \subseteq Regs(Frames(cmd))
<1> DEFINE Of(r) == IF r \in DOMAIN cmd.set THEN <<WriteFrame(r, cmd.set[r])>> ELSE <<>>
           Output == IF cmd.out = {} THEN <<>> ELSE <<OutputFrame(TRUE \in cmd.out)>>
           last == <<GetAllFrame>>
           Good(s) == /\ s \in Seq(DeviceFrames) /\ s # <<>>
                      /\ Series(s) /\ Carries(s, cmd.set)
           s == Output \o last
           t == Of("ovp") \o s
           u == Of("volts") \o t
<1>1. /\ DOMAIN cmd.set \subseteq {"volts", "ovp"} /\ \A r \in DOMAIN cmd.set : cmd.set[r] \in Values
  <2>1. cmd.set \in Settings
    OBVIOUS
  <2>2. QED
    BY <2>1, Setting DEF Floats
<1>2. Good(last) /\ Regs(last) = {"all"}
  BY DEF Series, Carries, Regs, GetAllFrame, Floats, DeviceFrames
<1>4. ASSUME NEW r \in {"volts", "ovp"}, NEW q, Good(q), r \notin Regs(q)
      PROVE  /\ Of(r) \in Seq(DeviceFrames) /\ Good(Of(r) \o q)
             /\ r \in DOMAIN cmd.set => r \in Regs(Of(r) \o q)
             /\ Regs(q) \subseteq Regs(Of(r) \o q)
             /\ Regs(Of(r) \o q) \subseteq {r} \cup Regs(q)
  <2>1. CASE r \in DOMAIN cmd.set
    <3> DEFINE f == WriteFrame(r, cmd.set[r])
    <3>1. f \in DeviceFrames /\ f.reg = r /\ f.val = cmd.set[r] /\ r # "all"
      BY <1>1, <2>1 DEF DeviceFrames, WriteFrame, Floats
    <3>2. Of(r) = <<f>>
      BY <2>1
    <3> HIDE DEF f, Of
    <3>3. QED
      BY <1>4, <2>1, <3>1, <3>2, SeriesCons
  <2>2. CASE r \notin DOMAIN cmd.set
    <3>1. Of(r) = <<>>
      BY <2>2
    <3> HIDE DEF Of
    <3>2. QED
      BY <1>4, <2>2, <3>1, ConcatEmptySeq
  <2>3. QED
    BY <2>1, <2>2
<1>5. Output \in Seq(DeviceFrames) /\ Good(s) /\ Regs(s) \subseteq {"output", "all"}
  <2>1. CASE cmd.out = {}
    BY <1>2, <2>1, ConcatEmptySeq
  <2>2. CASE cmd.out # {}
    <3> DEFINE f == OutputFrame(TRUE \in cmd.out)
    <3>1. f = WriteFrame("output", 1) \/ f = WriteFrame("output", 0)
      BY DEF OutputFrame
    <3>2. OutputFrame(TRUE) = WriteFrame("output", 1) /\ OutputFrame(FALSE) = WriteFrame("output", 0)
      BY DEF OutputFrame
    <3>3. f \in DeviceFrames /\ f.reg = "output"
      <4>1. \E on \in BOOLEAN : f = OutputFrame(on)
        BY <3>1, <3>2
      <4> HIDE DEF f
      <4>2. PICK on \in BOOLEAN : f = OutputFrame(on)
        BY <4>1
      <4>3. f \in DeviceFrames
        BY <4>2 DEF DeviceFrames
      <4>4. f.reg = "output"
        BY <3>1 DEF WriteFrame
      <4>5. QED
        BY <4>3, <4>4
    <3>4. Output = <<f>>
      BY <2>2
    <3> HIDE DEF f, Output, last
    <3>5. QED
      BY <1>2, <3>3, <3>4, SeriesCons DEF Floats
  <2>3. QED
    BY <2>1, <2>2
<1>6. Of("ovp") \in Seq(DeviceFrames) /\ Of("volts") \in Seq(DeviceFrames)
  BY <1>2, <1>4
<1>7. Frames(cmd) = u
  BY DEF Frames
<1> HIDE DEF Of, Output, last, s, t, u, Good
<1>8. /\ Good(t) /\ Regs(t) \subseteq {"ovp", "output", "all"}
      /\ "ovp" \in DOMAIN cmd.set => "ovp" \in Regs(t)
  BY <1>4, <1>5 DEF t
<1>9. /\ Good(u) /\ Regs(t) \subseteq Regs(u)
      /\ "volts" \in DOMAIN cmd.set => "volts" \in Regs(u)
  BY <1>4, <1>8 DEF u
<1>10. QED
  BY <1>1, <1>7, <1>8, <1>9 DEF Good

LEMMA HandshakeSeries ==
  /\ Handshake \in Seq(DeviceFrames) /\ Handshake # <<>> /\ Series(Handshake)
  /\ Tail(Handshake) = <<GetAllFrame>> /\ Head(Handshake) = SessionFrame
BY DEF Handshake, Series, SessionFrame, GetAllFrame, DeviceFrames

\* What is left of a series.
LEMMA SeriesTail ==
  ASSUME NEW s \in Seq(DeviceFrames), s # <<>>, Series(s)
  PROVE  /\ Tail(s) \in Seq(DeviceFrames) /\ Series(Tail(s))
         /\ Head(s) \in DeviceFrames
         /\ Head(s).reg = "all" <=> Len(s) = 1
         /\ Len(s) > 1 => Tail(s) # <<>>
         /\ Head(s).reg \notin Regs(Tail(s)) /\ Regs(s) = {Head(s).reg} \cup Regs(Tail(s))
         /\ \A set : Carries(s, set) => Carries(Tail(s), set)
<1>1. /\ Len(s) \in Nat \ {0} /\ DOMAIN s = 1 .. Len(s) /\ Head(s) = s[1]
      /\ Tail(s) \in Seq(DeviceFrames) /\ DOMAIN Tail(s) = 1 .. Len(s) - 1
      /\ Len(Tail(s)) = Len(s) - 1
      /\ \A i \in 1 .. Len(s) - 1 : Tail(s)[i] = s[i + 1]
  BY LenProperties, HeadTailProperties, EmptySeq
<1>2. Head(s) \in DeviceFrames
  BY <1>1, ElementOfSeq
<1>3. \A i \in DOMAIN Tail(s) : i + 1 \in DOMAIN s /\ Tail(s)[i] = s[i + 1]
  BY <1>1
<1>4. \A i \in DOMAIN s : i # 1 => i - 1 \in DOMAIN Tail(s) /\ Tail(s)[i - 1] = s[i]
  BY <1>1
<1>5. Series(Tail(s))
  BY <1>1, <1>3, SMTT(30) DEF Series
<1>6. Head(s).reg = "all" <=> Len(s) = 1
  BY <1>1 DEF Series
<1>7. Head(s).reg \notin Regs(Tail(s))
  <2>1. ASSUME NEW i \in DOMAIN Tail(s) PROVE Tail(s)[i].reg # Head(s).reg
    <3>1. i + 1 # 1 /\ 1 \in DOMAIN s
      BY <1>1
    <3>2. QED
      BY <1>1, <1>3, <3>1 DEF Series
  <2>2. QED
    BY <2>1 DEF Regs
<1>8. Regs(s) = {Head(s).reg} \cup Regs(Tail(s))
  <2>1. ASSUME NEW i \in DOMAIN s PROVE s[i].reg \in {Head(s).reg} \cup Regs(Tail(s))
    BY <1>1, <1>4, <2>1 DEF Regs
  <2>2. ASSUME NEW i \in DOMAIN Tail(s) PROVE Tail(s)[i].reg \in Regs(s)
    BY <1>3, <2>2 DEF Regs
  <2>3. Head(s).reg \in Regs(s)
    BY <1>1 DEF Regs
  <2>4. QED
    BY <2>1, <2>2, <2>3 DEF Regs
<1>9. ASSUME NEW set, Carries(s, set) PROVE Carries(Tail(s), set)
  BY <1>3, <1>9 DEF Carries
<1>10. ASSUME Len(s) > 1 PROVE Tail(s) # <<>>
  <2>1. Len(Tail(s)) # 0 /\ Len(<<>>) = 0
    BY <1>1, <1>10, EmptySeq, SMTT(30)
  <2>2. QED
    BY <2>1
<1>11. QED
  BY <1>1, <1>2, <1>5, <1>6, <1>7, <1>8, <1>9, <1>10

------------------------------------------------------------------------------
(***************************************************************************)
(* Updates.                                                                *)
(***************************************************************************)
Shows == {"link", "on", "prot"}
Prots == Trips \cup {"ok"}

Updates ==
  [link : BOOLEAN] \cup [on : BOOLEAN] \cup [prot : Prots] \cup [on : BOOLEAN, prot : Prots]
    \cup [link : BOOLEAN, on : BOOLEAN, prot : Prots]

\* What the updates tell of x is v.
Agree(updates, x, v) == \A i \in DOMAIN updates : x \in DOMAIN updates[i] => updates[i][x] = v

LEMMA LastTold ==
  ASSUME NEW n \in Nat, NEW told \in SUBSET (1 .. n), told # {}
  PROVE  Last(told) \in told
<1> DEFINE behind == {n - i : i \in told}
<1>1. behind \in SUBSET Nat /\ behind # {}
  <2>1. ASSUME NEW i \in told PROVE n - i \in Nat
    OBVIOUS
  <2>2. QED
    BY <2>1
<1>2. PICK m \in behind : \A k \in behind : ~(<<k, m>> \in OpToRel(<, Nat))
  <2> HIDE DEF behind
  <2>1. QED
    BY <1>1, WFMin, NatLessThanWellFounded, Zenon
<1>3. PICK i \in told : m = n - i
  BY <1>2
<1>4. \A j \in told : j <= i
  <2>1. ASSUME NEW j \in told PROVE j <= i
    <3>1. ~(n - j < m)
      BY <1>1, <1>2 DEF OpToRel
    <3>2. QED
      BY <1>3, <3>1
  <2>2. QED
    BY <2>1
<1>5. QED
  BY <1>4 DEF Last

LEMMA BroadcastTells ==
  ASSUME NEW S, NEW updates \in Seq(S), room \in Nat, Broadcast(updates), NEW x \in DOMAIN view
  PROVE  /\ Telling(x, updates) = {} => /\ view'[x] = view[x]
                                        /\ x \in missed' <=> x \in missed
         /\ \A v : Telling(x, updates) # {} /\ Agree(updates, x, v)
                     => view'[x] = v \/ x \in missed'
<1> DEFINE told == Telling(x, updates)
           sent == Sent(x, updates)
<1>1. /\ Len(updates) \in Nat /\ told \in SUBSET (1 .. Len(updates)) /\ sent \in SUBSET told
      /\ sent = {i \in told : i <= room}
  BY LenProperties DEF Telling, Sent
<1>2. /\ view'[x] = IF sent = {} THEN view[x] ELSE updates[Last(sent)][x]
      /\ x \in missed' <=> IF told = {} THEN x \in missed ELSE \E i \in told : i > room
  BY DEF Broadcast
<1>3. sent # {} => Last(sent) \in told
  BY <1>1, LastTold
<1>4. ASSUME told = {}
      PROVE  view'[x] = view[x] /\ (x \in missed' <=> x \in missed)
  BY <1>1, <1>2, <1>4
<1>5. ASSUME NEW v, told # {}, Agree(updates, x, v), x \notin missed'
      PROVE  view'[x] = v
  <2>1. sent = told
    BY <1>1, <1>2, <1>5
  <2>2. Last(sent) \in told
    BY <1>3, <1>5, <2>1
  <2>3. updates[Last(sent)][x] = v
    BY <1>5, <2>2 DEF Agree, Telling
  <2>4. QED
    BY <1>2, <1>5, <2>1, <2>3
<1>6. QED
  BY <1>4, <1>5

LEMMA BroadcastTypes ==
  ASSUME NEW updates \in Seq(Updates), room \in 0 .. Buffer,
         view \in [link : BOOLEAN, on : BOOLEAN, prot : Prots], Broadcast(updates)
  PROVE  /\ room' \in 0 .. Buffer
         /\ view' \in [link : BOOLEAN, on : BOOLEAN, prot : Prots]
         /\ missed' \in SUBSET Shows
<1>1. DOMAIN view = Shows /\ room \in Nat /\ Len(updates) \in Nat
  BY HubAssumption DEF Shows, HubAssumption
<1>2. room' \in 0 .. Buffer
  BY <1>1, HubAssumption DEF Broadcast, Least, HubAssumption
<1>3. missed' \in SUBSET Shows
  BY <1>1 DEF Broadcast
<1>4. ASSUME NEW x \in Shows
      PROVE  \/ view'[x] = view[x]
             \/ \E u \in Updates : x \in DOMAIN u /\ view'[x] = u[x]
  <2>1. view'[x] = IF Sent(x, updates) = {} THEN view[x] ELSE updates[Last(Sent(x, updates))][x]
    BY <1>1 DEF Broadcast
  <2>2. Telling(x, updates) \in SUBSET (1 .. Len(updates)) /\ Sent(x, updates) \in SUBSET Telling(x, updates)
    BY LenProperties DEF Telling, Sent
  <2>3. Sent(x, updates) # {} => Last(Sent(x, updates)) \in Telling(x, updates)
    BY <1>1, <2>2, LastTold
  <2>4. \A i \in Telling(x, updates) : updates[i] \in Updates /\ x \in DOMAIN updates[i]
    BY <2>2, ElementOfSeq DEF Telling
  <2>5. QED
    BY <2>1, <2>3, <2>4
<1>5. ASSUME NEW u \in Updates
      PROVE  /\ "link" \in DOMAIN u => u["link"] \in BOOLEAN
             /\ "on" \in DOMAIN u => u["on"] \in BOOLEAN
             /\ "prot" \in DOMAIN u => u["prot"] \in Prots
  BY <1>5 DEF Updates
<1>6. view["link"] \in BOOLEAN /\ view["on"] \in BOOLEAN /\ view["prot"] \in Prots
  OBVIOUS
<1>7. view'["link"] \in BOOLEAN /\ view'["on"] \in BOOLEAN /\ view'["prot"] \in Prots
  BY <1>4, <1>5, <1>6 DEF Shows
<1>8. PICK f : f = [x \in Shows |-> view'[x]] /\ view' = f
  BY <1>1 DEF Broadcast
<1>9. view' = [link |-> view'["link"], on |-> view'["on"], prot |-> view'["prot"]]
  BY <1>8 DEF Shows
<1>10. QED
  BY <1>2, <1>3, <1>7, <1>9

------------------------------------------------------------------------------
(***************************************************************************)
(* The invariants.                                                         *)
(***************************************************************************)
HasDump == ~Dumpless(toHost)

\* A hub with a device has read from it, in the session there is; before that only the
\* handshake is on the wire, and no answer while any of it is.
SessionHolds ==
  /\ connected => pc = "read" /\ dumped /\ cache # NoState /\ dev.session
  /\ open => pc # "down"
  /\ HasDump => dev.session
  /\ open /\ HasDump => pc = "read"
  /\ open /\ pc = "shake" /\ writer # Hub => toDev = <<>>
  /\ open /\ writer = Hub => \/ left = Handshake /\ toDev = <<>>
                             \/ left = <<GetAllFrame>> /\ toDev \in {<<>>, <<SessionFrame>>}
  /\ open /\ pc = "read" /\ ~connected =>
       /\ toDev \in {<<>>, <<GetAllFrame>>, Handshake}
       /\ HasDump => toDev = <<>>

\* The holder of writeMu writes what is left of its series, on a connection that is the
\* hub's or gone; a command that has yet to store is overtaken by the loss of the device.
Holds(c) ==
  writer = c => /\ client[c].pc = "call"
                /\ onWire => connected
                /\ Carries(left, client[c].cmd.set)
Overtook(c) ==
  client[c].pc = "store" => /\ cache # NoState
                            /\ connected \/ DOMAIN client[c].cmd.set \subseteq passed[c]
WriterHolds ==
  /\ writer = Hub => pc = "shake" /\ onWire
  /\ writer # NoOne => left # <<>>
  /\ Series(left)
  /\ \A c \in Clients : Holds(c) /\ Overtook(c)

\* Before the first frame the output is off, nothing was written, and the first frame will
\* be a measurement.
NothingYet ==
  cache = NoState =>
    /\ ~dev.on
    /\ \A i \in DOMAIN toDev : toDev[i].op # "write"
    /\ toHost = <<>> \/ Head(toHost) = Measured
    /\ open /\ dev.session => toHost # <<>>

\* The device has answered, or its answer is on the wire.
Answering == open /\ (connected \/ HasDump)

OutputFollows ==
  Answering => \A x \in {"on", "prot"} : Heard(toHost, x, Field(State, x), Field(dev, x))

\* Of frames to the device: one makes it tell of r, with no write of r behind; none writes
\* r; the last that writes r writes v.
Asks(s, r) ==
  \E i \in DOMAIN s : /\ s[i].reg \in {"all"} \cup ({r} \cap Echoed)
                      /\ \A j \in DOMAIN s : j > i => s[j].reg # r
Spares(s, r) == \A i \in DOMAIN s : s[i].reg # r
Sets(s, r, v) ==
  \E i \in DOMAIN s : /\ s[i].reg = r /\ s[i].val = v
                      /\ \A j \in DOMAIN s : j > i => s[j].reg # r

\* Who holds b for r holds what the device d does, once s and then t are handled.
Settling(s, t, d, r, b) == Asks(s, r) \/ (Spares(s, r) /\ Heard(t, r, b, d.reg[r]))
Settles(r, b) == Settling(toDev, toHost, dev, r, b)

\* What is on the wire leaves the device with v for r.
Leaving(s, d, r, v) == (Spares(s, r) /\ d.reg[r] = v) \/ Sets(s, r, v)
Leaves(r, v) == Leaving(toDev, dev, r, v)

\* A threshold was written, and the dump that tells of it is yet to be asked for.
Unasked(r) ==
  \E c \in Clients : /\ writer = c /\ onWire
                     /\ r \in DOMAIN client[c].cmd.set \ (Regs(left) \cup Echoed)

CacheFollows == \A r \in Floats \ late : Unasked(r) \/ Settles(r, State.reg[r])

\* What a command has written and nobody wrote anew.
StoresFollow ==
  \A c \in Clients : client[c].pc = "store" =>
    \A r \in DOMAIN client[c].cmd.set \ passed[c] :
      Settles(r, client[c].cmd.set[r]) /\ Leaves(r, client[c].cmd.set[r])
WritesFollow ==
  \A c \in Clients : writer = c /\ onWire =>
    \A r \in DOMAIN client[c].cmd.set \ Regs(left) : Leaves(r, client[c].cmd.set[r])

RegistersFollow == Answering => CacheFollows /\ StoresFollow /\ WritesFollow

HubInv ==
  /\ TypeOK /\ SessionHolds /\ WriterHolds /\ NothingYet
  /\ OutputFollows /\ RegistersFollow /\ SubscriberAgrees

------------------------------------------------------------------------------
(***************************************************************************)
(* Types.                                                                  *)
(***************************************************************************)
LEMMA StateType ==
  ASSUME TypeOK
  PROVE  State \in Caches /\ (State # NoState) /\ (cache # NoState => State = cache)
<1>1. Blank \in Caches
  BY DEF Blank, Caches, Floats, Trips
<1>2. NoState \notin Caches
  BY CommandsAssumption
<1>3. QED
  BY <1>1, <1>2 DEF State, TypeOK, HubTyped

LEMMA IdleType == Idle \in [pc : {"idle", "call", "store"}, cmd : [set : Settings, out : Outputs]]
BY NoSetting DEF Idle, Outputs

LEMMA UpdateTypes ==
  ASSUME TypeOK
  PROVE  /\ Loss \in Seq(Updates)
         /\ <<Telemetry>> \in Seq(Updates)
         /\ \A on \in BOOLEAN : OutputChange(on) \in Seq(Updates)
         /\ \A p \in Prots : TripEvent(p) \in Seq(Updates)
         /\ <<[link |-> TRUE]>> \in Seq(Updates)
         /\ \A d \in Caches : <<[link |-> TRUE, on |-> d.on, prot |-> d.prot]>> \in Seq(Updates)
<1>1. State.on \in BOOLEAN /\ State.prot \in Prots
  BY StateType DEF Caches, Prots
<1>2. [link |-> FALSE] \in Updates /\ [link |-> TRUE] \in Updates /\ Telemetry \in Updates
  BY <1>1 DEF Updates, Telemetry
<1>3. \A on \in BOOLEAN : [on |-> on] \in Updates
  BY DEF Updates
<1>4. \A p \in Prots : [prot |-> p] \in Updates
  BY DEF Updates
<1>5. \A d \in Caches : [link |-> TRUE, on |-> d.on, prot |-> d.prot] \in Updates
  BY DEF Updates, Caches, Prots
<1>6. Loss \in Seq(Updates) /\ <<Telemetry>> \in Seq(Updates) /\ <<[link |-> TRUE]>> \in Seq(Updates)
  BY <1>2 DEF Loss
<1>7. ASSUME NEW b \in BOOLEAN PROVE OutputChange(b) \in Seq(Updates)
  <2>1. <<[on |-> b]>> \in Seq(Updates) /\ <<>> \in Seq(Updates)
    BY <1>3
  <2>2. QED
    BY <2>1 DEF OutputChange
<1>8. ASSUME NEW p \in Prots PROVE TripEvent(p) \in Seq(Updates)
  <2>1. <<[prot |-> p]>> \in Seq(Updates) /\ <<>> \in Seq(Updates)
    BY <1>4
  <2>2. QED
    BY <2>1 DEF TripEvent
<1>9. QED
  BY <1>5, <1>6, <1>7, <1>8

LEMMA SubTypes ==
  ASSUME TypeOK, NEW updates \in Seq(Updates), Broadcast(updates)
  PROVE  SubTyped'
BY BroadcastTypes DEF TypeOK, SubTyped, Prots, Shows

\* The updates of a dump.
DumpUpdates(d) ==
  (IF connected THEN <<>> ELSE << [link |-> TRUE] >>)
     \o OutputChange(d.on) \o TripEvent(d.prot)
     \o << [link |-> TRUE, on |-> d.on, prot |-> d.prot] >>

LEMMA DumpUpdateTypes ==
  ASSUME TypeOK, NEW d \in Caches
  PROVE  DumpUpdates(d) \in Seq(Updates)
<1>1. /\ (IF connected THEN <<>> ELSE << [link |-> TRUE] >>) \in Seq(Updates)
      /\ OutputChange(d.on) \in Seq(Updates) /\ TripEvent(d.prot) \in Seq(Updates)
      /\ << [link |-> TRUE, on |-> d.on, prot |-> d.prot] >> \in Seq(Updates)
  BY UpdateTypes, EmptySeq DEF Caches, Prots
<1>2. QED
  BY <1>1, ConcatProperties DEF DumpUpdates

LEMMA ReadFrame ==
  ASSUME TypeOK, toHost # <<>>
  PROVE  Head(toHost) \in HostFrames /\ Tail(toHost) \in Seq(HostFrames)
BY HeadTailProperties DEF TypeOK, WireTyped

LEMMA ServedFrame ==
  ASSUME TypeOK, toDev # <<>>
  PROVE  Head(toDev) \in DeviceFrames /\ Tail(toDev) \in Seq(DeviceFrames)
BY HeadTailProperties DEF TypeOK, WireTyped

\* The parts no step of the others touches.
LEMMA KeepsTypes ==
  /\ WireTyped /\ UNCHANGED <<dev, wire>> => WireTyped'
  /\ HubTyped /\ UNCHANGED hub => HubTyped'
  /\ LockTyped /\ UNCHANGED lock => LockTyped'
  /\ CallsTyped /\ UNCHANGED <<calls, faults>> => CallsTyped'
  /\ SubTyped /\ UNCHANGED sub => SubTyped'
BY DEF WireTyped, HubTyped, LockTyped, CallsTyped, SubTyped, wire, hub, lock, calls, sub

LEMMA CommandType ==
  ASSUME CallsTyped, NEW c \in Clients
  PROVE  /\ client[c] \in [pc : {"idle", "call", "store"}, cmd : [set : Settings, out : Outputs]]
         /\ client[c].cmd.set \in Settings
         /\ DOMAIN client[c].cmd.set \subseteq Floats
         /\ \A r \in DOMAIN client[c].cmd.set : client[c].cmd.set[r] \in Values
         /\ passed[c] \subseteq Floats
BY Setting DEF CallsTyped

LEMMA ReturnsTypes ==
  ASSUME CallsTyped, NEW c \in Clients, Returns(c)
  PROVE  /\ client' \in [Clients -> [pc : {"idle", "call", "store"}, cmd : [set : Settings, out : Outputs]]]
         /\ passed' \in [Clients -> SUBSET Floats]
BY IdleType DEF Returns, CallsTyped

LEMMA DetachCalls ==
  ASSUME CallsTyped, Detach
  PROVE  passed' \in [Clients -> SUBSET Floats]
BY CommandType DEF Detach

LEMMA SessionTypes ==
  ASSUME TypeOK, Session
  PROVE  TypeOK'
<1> USE KeepsTypes DEF TypeOK
<1>1. CASE Dial
  <2>1. WireTyped' /\ HubTyped'
    <3>1. dev' \in Devices
      BY <1>1 DEF Dial, WireTyped, Devices
    <3>2. QED
      BY <1>1, <3>1, EmptySeq DEF Dial, WireTyped, HubTyped
  <2>2. QED
    BY <1>1, <2>1 DEF Dial
<1>2. CASE ShakeHands
  <2>1. LockTyped'
    BY <1>2, HandshakeSeries DEF ShakeHands, LockTyped
  <2>2. QED
    BY <1>2, <2>1 DEF ShakeHands
<1>3. CASE ReadFails
  <2>1. WireTyped' /\ LockTyped'
    BY <1>3 DEF ReadFails, Detach, WireTyped, LockTyped
  <2>2. HubTyped'
    BY <1>3 DEF ReadFails, Detach, HubTyped
  <2>3. CallsTyped'
    BY <1>3, DetachCalls DEF ReadFails, Detach, CallsTyped
  <2>4. SubTyped'
    BY <1>3, UpdateTypes, SubTypes DEF ReadFails, Detach
  <2>5. QED
    BY <2>1, <2>2, <2>3, <2>4
<1>4. CASE AnswerTimeout
  BY <1>4 DEF AnswerTimeout, Unanswered, WireTyped, CallsTyped, calls
<1>5. QED
  BY <1>1, <1>2, <1>3, <1>4 DEF Session

LEMMA GivesUpTypes ==
  ASSUME TypeOK, NEW drops \in BOOLEAN, writer # NoOne, GivesUp(drops)
  PROVE  /\ WireTyped' /\ HubTyped' /\ LockTyped' /\ SubTyped'
         /\ client' \in [Clients -> [pc : {"idle", "call", "store"}, cmd : [set : Settings, out : Outputs]]]
         /\ passed' \in [Clients -> SUBSET Floats] /\ issued' \in Nat
<1> USE DEF TypeOK
<1>1. LockTyped'
  BY EmptySeq DEF GivesUp, Unlock, LockTyped
<1>2. CASE writer = Hub
  <2>1. Detach /\ UNCHANGED dev
    BY <1>2 DEF GivesUp
  <2>2. WireTyped' /\ HubTyped'
    BY <2>1 DEF Detach, WireTyped, HubTyped
  <2>3. SubTyped'
    BY <2>1, UpdateTypes, SubTypes DEF Detach
  <2>4. QED
    BY <1>1, <2>1, <2>2, <2>3, DetachCalls DEF Detach, CallsTyped
<1>3. CASE writer # Hub
  <2>1. writer \in Clients
    BY <1>3 DEF LockTyped
  <2>2. /\ Returns(writer) /\ issued' = issued
        /\ conn' = (conn /\ ~drops) /\ open' = OpenAfter(drops)
        /\ UNCHANGED <<stalled, toDev, toHost, pc, connected, dumped, cache, sub, dev>>
    BY <1>3 DEF GivesUp
  <2>3. WireTyped' /\ HubTyped' /\ SubTyped'
    BY <2>2, KeepsTypes DEF OpenAfter, WireTyped, HubTyped
  <2>4. QED
    BY <1>1, <2>1, <2>2, <2>3, IdleType DEF Returns, CallsTyped
<1>4. QED
  BY <1>2, <1>3

LEMMA SendsTypes ==
  ASSUME TypeOK, Series(left), Sends
  PROVE  /\ left # <<>> => WireTyped' /\ Head(left) \in DeviceFrames /\ Tail(left) \in Seq(DeviceFrames)
         /\ late' \in SUBSET Floats /\ issued' \in Nat /\ faults' \in Nat
         /\ SubTyped'
         /\ pc' \in {"down", "shake", "read"} => HubTyped'
<1> USE DEF TypeOK
<1>1. ASSUME left # <<>>
      PROVE  WireTyped' /\ Head(left) \in DeviceFrames /\ Tail(left) \in Seq(DeviceFrames)
  <2>1. Head(left) \in DeviceFrames /\ Tail(left) \in Seq(DeviceFrames)
    BY <1>1, HeadTailProperties DEF LockTyped
  <2>2. toDev' \in Seq(DeviceFrames)
    BY <2>1, AppendProperties DEF Sends, WireTyped
  <2>3. QED
    BY <2>1, <2>2 DEF Sends, WireTyped
<1>2. late' \in SUBSET Floats /\ issued' \in Nat /\ faults' \in Nat
  BY DEF Sends, CallsTyped
<1>3. SubTyped' /\ (pc' \in {"down", "shake", "read"} => HubTyped')
  BY KeepsTypes DEF Sends, HubTyped
<1>4. QED
  BY <1>1, <1>2, <1>3

LEMMA WriteTypes ==
  ASSUME TypeOK, WriterHolds, Write
  PROVE  TypeOK'
<1> USE DEF TypeOK
<1>1. CASE Writes
  <2>1. /\ WireTyped' /\ Tail(left) \in Seq(DeviceFrames) /\ SubTyped' /\ Head(left) \in DeviceFrames
        /\ late' \in SUBSET Floats /\ issued' \in Nat /\ faults' \in Nat
        /\ pc' \in {"down", "shake", "read"} => HubTyped'
    BY <1>1, SendsTypes DEF Writes, Sends, WriterHolds
  <2>2. LockTyped' /\ HubTyped'
    BY <1>1, <2>1 DEF Writes, LockTyped, HubTyped
  <2>3. passed' \in [Clients -> SUBSET Floats]
    BY <1>1, CommandType DEF Writes, Overtakes, Overtaken
  <2>4. CallsTyped'
    BY <1>1, <2>1, <2>3 DEF Writes, CallsTyped
  <2>5. QED
    BY <2>1, <2>2, <2>4
<1>2. CASE Shaken
  <2>1. /\ WireTyped' /\ SubTyped'
        /\ late' \in SUBSET Floats /\ issued' \in Nat /\ faults' \in Nat
        /\ pc' \in {"down", "shake", "read"} => HubTyped'
    BY <1>2, SendsTypes DEF Shaken, Sends, WriterHolds
  <2>2. LockTyped' /\ HubTyped'
    BY <1>2, <2>1, EmptySeq DEF Shaken, Unlock, LockTyped
  <2>3. CallsTyped'
    BY <1>2, <2>1 DEF Shaken, CallsTyped
  <2>4. QED
    BY <2>1, <2>2, <2>3
<1>3. ASSUME NEW c \in Clients, Return(c)
      PROVE  TypeOK'
  <2>1. /\ WireTyped' /\ SubTyped'
        /\ late' \in SUBSET Floats /\ issued' \in Nat /\ faults' \in Nat
        /\ pc' \in {"down", "shake", "read"} => HubTyped'
    BY <1>3, SendsTypes DEF Return, Sends, WriterHolds
  <2>2. LockTyped' /\ HubTyped'
    BY <1>3, <2>1, EmptySeq DEF Return, Unlock, LockTyped, HubTyped
  <2>3. CallsTyped'
    <3>1. CASE client[c].cmd.set = <<>>
      BY <1>3, <2>1, <3>1, ReturnsTypes DEF Return, CallsTyped
    <3>2. CASE client[c].cmd.set # <<>>
      BY <1>3, <2>1, <3>2 DEF Return, CallsTyped
    <3>3. QED
      BY <3>1, <3>2
  <2>4. QED
    BY <2>1, <2>2, <2>3
<1>4. CASE WriteFails
  BY <1>4, GivesUpTypes DEF WriteFails, CallsTyped
<1>5. CASE WriteStalls
  BY <1>5, GivesUpTypes DEF WriteStalls, CallsTyped
<1>6. QED
  BY <1>1, <1>2, <1>3, <1>4, <1>5 DEF Write

LEMMA ReadTypes ==
  ASSUME TypeOK, Read
  PROVE  TypeOK'
<1> USE DEF TypeOK
<1> DEFINE f == Head(toHost)
<1>1. f \in HostFrames /\ Tail(toHost) \in Seq(HostFrames)
  BY ReadFrame DEF Read
<1>2. /\ WireTyped' /\ LockTyped' /\ CallsTyped'
  BY <1>1, KeepsTypes DEF Read, WireTyped
<1>3. State \in Caches
  BY StateType
<1>4. pc' = pc /\ conn' = conn
  BY DEF Read
<1>5. CASE f.reg = "all"
  <2>1. f.dump \in Caches
    BY <1>1, <1>5, HostFrameKinds DEF Measured, Floats
  <2>2. AppliesDump(f.dump)
    BY <1>5 DEF Read
  <2>3. HubTyped'
    BY <1>4, <2>1, <2>2 DEF AppliesDump, Replaces, HubTyped
  <2>4. Broadcast(DumpUpdates(f.dump))
    BY <2>2 DEF AppliesDump, DumpUpdates
  <2>5. SubTyped'
    BY <2>1, <2>4, DumpUpdateTypes, SubTypes
  <2>6. QED
    BY <1>2, <2>3, <2>5
<1>6. CASE f.reg # "all"
  <2>1. Applies(f)
    BY <1>6 DEF Read
  <2>2. connected' = connected /\ dumped' = dumped
    BY <2>1 DEF Applies
  <2>3. cache' \in Caches \cup {NoState} /\ SubTyped'
    <3>1. CASE f.reg = "measurement"
      BY <1>3, <2>1, <3>1, UpdateTypes, SubTypes DEF Applies
    <3>2. CASE f.reg = "output"
      <4>1. cache' = [State EXCEPT !.on = (f.val = 1)] /\ Broadcast(OutputChange(f.val = 1))
        BY <2>1, <3>2 DEF Applies
      <4>2. OutputChange(f.val = 1) \in Seq(Updates)
        BY UpdateTypes
      <4>3. SubTyped'
        BY <4>1, <4>2, SubTypes
      <4>4. cache' \in Caches
        BY <1>3, <4>1 DEF Caches
      <4>5. QED
        BY <4>3, <4>4
    <3>3. CASE f.reg = "protection"
      <4>1. f.val \in Prots
        BY <1>1, <3>3, HostFrameKinds DEF Measured, Floats, Prots
      <4>2. cache' = [State EXCEPT !.prot = f.val] /\ Broadcast(TripEvent(f.val))
        BY <2>1, <3>3 DEF Applies
      <4>3. SubTyped'
        BY <4>1, <4>2, UpdateTypes, SubTypes
      <4>4. cache' \in Caches
        BY <1>3, <4>1, <4>2 DEF Caches, Prots
      <4>5. QED
        BY <4>3, <4>4
    <3>4. CASE f.reg = "volts"
      <4>1. f.val \in Values
        BY <1>1, <3>4, HostFrameKinds DEF Measured
      <4>2. cache' = [State EXCEPT !.reg["volts"] = f.val] /\ UNCHANGED sub
        BY <2>1, <3>4 DEF Applies
      <4>3. cache' \in Caches
        BY <1>3, <4>1, <4>2 DEF Caches, Floats
      <4>4. QED
        BY <4>2, <4>3, KeepsTypes
    <3>5. CASE f.reg \notin {"measurement", "output", "protection", "volts"}
      BY <2>1, <3>5, KeepsTypes DEF Applies, HubTyped
    <3>6. QED
      BY <3>1, <3>2, <3>3, <3>4, <3>5
  <2>4. HubTyped'
    BY <1>4, <2>2, <2>3 DEF HubTyped
  <2>5. QED
    BY <1>2, <2>3, <2>4
<1>7. QED
  BY <1>5, <1>6

LEMMA PushesTypes ==
  ASSUME WireTyped, NEW r, r.dev \in Devices, r.out \in Seq(HostFrames), Pushes(r)
  PROVE  dev' \in Devices /\ toHost' \in Seq(HostFrames)
BY ConcatProperties DEF Pushes, WireTyped

LEMMA DeviceTypes ==
  ASSUME TypeOK, Serves \/ Reports \/ Overheats \/ Ignores \/ Stall \/ Cut
  PROVE  TypeOK'
<1> USE KeepsTypes DEF TypeOK
<1>1. dev \in Devices
  BY DEF WireTyped
<1>2. CASE Serves
  <2>1. Head(toDev) \in DeviceFrames /\ Tail(toDev) \in Seq(DeviceFrames)
    BY <1>2, ServedFrame DEF Serves
  <2>2. dev' \in Devices /\ toHost' \in Seq(HostFrames)
    BY <1>1, <1>2, <2>1, HandleTypes, PushesTypes DEF Serves
  <2>3. WireTyped'
    BY <1>2, <2>1, <2>2 DEF Serves, WireTyped
  <2>4. QED
    BY <1>2, <2>3 DEF Serves
<1>3. CASE Reports
  <2>1. dev' \in Devices /\ toHost' \in Seq(HostFrames)
    BY <1>1, <1>3, MeasuredSays, PushesTypes DEF Reports
  <2>2. WireTyped'
    BY <1>3, <2>1 DEF Reports, WireTyped
  <2>3. QED
    BY <1>3, <2>2 DEF Reports
<1>4. CASE Overheats
  <2>1. dev' \in Devices /\ toHost' \in Seq(HostFrames)
    BY <1>1, <1>4, ConditionSays, PushesTypes DEF Overheats
  <2>2. WireTyped' /\ CallsTyped'
    BY <1>4, <2>1 DEF Overheats, WireTyped, CallsTyped, calls
  <2>3. QED
    BY <1>4, <2>2 DEF Overheats
<1>5. CASE Ignores
  <2>1. WireTyped' /\ CallsTyped'
    BY <1>5, ServedFrame DEF Ignores, WireTyped, CallsTyped, calls
  <2>2. QED
    BY <1>5, <2>1 DEF Ignores
<1>6. CASE Stall
  <2>1. WireTyped' /\ CallsTyped'
    BY <1>6 DEF Stall, WireTyped, CallsTyped, calls
  <2>2. QED
    BY <1>6, <2>1 DEF Stall
<1>7. CASE Cut
  <2>1. WireTyped'
    BY <1>7 DEF Cut, WireTyped
  <2>2. CallsTyped'
    BY <1>7 DEF Cut, CallsTyped, calls
  <2>3. QED
    BY <1>7, <2>1, <2>2 DEF Cut
<1>8. QED
  BY <1>2, <1>3, <1>4, <1>5, <1>6, <1>7

LEMMA CommandTypes ==
  ASSUME TypeOK, WriterHolds, NEW c \in Clients,
         Command(c) \/ \E cmd \in Commands[c] : Call(c, cmd)
  PROVE  TypeOK'
<1> USE KeepsTypes DEF TypeOK
<1>1. ASSUME NEW cmd \in Commands[c], Call(c, cmd) PROVE TypeOK'
  <2>1. cmd \in [set : Settings, out : Outputs]
    BY CommandsAssumption DEF Outputs
  <2>2. CallsTyped'
    BY <1>1, <2>1 DEF Call, CallsTyped
  <2>3. QED
    BY <1>1, <2>2 DEF Call
<1>2. CASE Lock(c)
  <2>1. client[c].cmd \in [set : Settings, out : Outputs]
    BY CommandType
  <2>2. LockTyped'
    BY <1>2, <2>1, FramesSeries DEF Lock, LockTyped, lock
  <2>3. CallsTyped'
    BY <1>2, ReturnsTypes DEF Lock, CallsTyped
  <2>4. QED
    BY <1>2, <2>2, <2>3 DEF Lock
<1>3. CASE Store(c)
  <2>1. cache \in Caches
    BY <1>3 DEF Store, WriterHolds, Overtook, HubTyped
  <2>2. /\ DOMAIN client[c].cmd.set \subseteq Floats
        /\ \A r \in DOMAIN client[c].cmd.set : client[c].cmd.set[r] \in Values
        /\ passed[c] \subseteq Floats
    BY CommandType
  <2> DEFINE stored == [r \in Floats |-> IF r \in DOMAIN client[c].cmd.set
                                        THEN client[c].cmd.set[r] ELSE cache.reg[r]]
  <2>3. stored \in [Floats -> Values \cup {0}]
    BY <2>1, <2>2 DEF Caches
  <2>4. cache' = [cache EXCEPT !.reg = stored]
    BY <1>3 DEF Store
  <2>5. HubTyped'
    <3> HIDE DEF stored
    <3>1. QED
      BY <1>3, <2>1, <2>3, <2>4 DEF Store, HubTyped, Caches
  <2>6. CallsTyped'
    BY <1>3, <2>2, IdleType DEF Store, Returns, CallsTyped
  <2>7. QED
    BY <1>3, <2>5, <2>6 DEF Store
<1>4. QED
  BY <1>1, <1>2, <1>3 DEF Command

LEMMA TypesStep ==
  ASSUME TypeOK, WriterHolds, [Next]_vars
  PROVE  TypeOK'
<1>1. CASE Take
  <2>1. SubTyped'
    BY <1>1, HubAssumption DEF Take, TypeOK, SubTyped, HubAssumption
  <2>2. QED
    BY <1>1, <2>1, KeepsTypes DEF Take, TypeOK
<1>2. CASE DialFails
  <2>1. CallsTyped'
    BY <1>2 DEF DialFails, TypeOK, CallsTyped, calls
  <2>2. QED
    BY <1>2, <2>1, KeepsTypes DEF DialFails, TypeOK
<1>3. CASE AnswerLate
  <2>1. WireTyped'
    BY <1>3 DEF AnswerLate, Unanswered, TypeOK, WireTyped
  <2>2. CallsTyped'
    BY <1>3 DEF AnswerLate, Unanswered, TypeOK, CallsTyped, calls
  <2>3. QED
    BY <1>3, <2>1, <2>2, KeepsTypes DEF AnswerLate, Unanswered, TypeOK
<1>4. ASSUME NEW inWrite \in BOOLEAN, Cancel(inWrite) PROVE TypeOK'
  <2>1. writer \in Clients /\ GivesUp(inWrite /\ onWire) /\ writer # NoOne
    BY <1>4, HubAssumption DEF Cancel, HubAssumption
  <2>2. /\ WireTyped' /\ HubTyped' /\ LockTyped' /\ SubTyped'
        /\ client' \in [Clients -> [pc : {"idle", "call", "store"}, cmd : [set : Settings, out : Outputs]]]
        /\ passed' \in [Clients -> SUBSET Floats] /\ issued' \in Nat
    BY <2>1, GivesUpTypes DEF TypeOK, LockTyped
  <2>3. late' \in SUBSET Floats /\ faults' \in Nat
    BY <1>4, <2>1, CommandType DEF Cancel, TypeOK, CallsTyped
  <2>4. QED
    BY <2>2, <2>3 DEF TypeOK, CallsTyped
<1>5. CASE UNCHANGED vars
  BY <1>5, KeepsTypes DEF vars, TypeOK
<1>6. QED
  BY <1>1, <1>2, <1>3, <1>4, <1>5, SessionTypes, WriteTypes, ReadTypes, DeviceTypes, CommandTypes
     DEF Next, Faulty

------------------------------------------------------------------------------
(***************************************************************************)
(* What reading and storing do to the cache.                               *)
(***************************************************************************)
LEMMA ReadCache ==
  ASSUME TypeOK, Read
  PROVE  /\ cache' = NoState => cache = NoState /\ Head(toHost).reg \in Floats
         /\ \A x \in Fields : Field(State', x) = After(Head(toHost), x, Field(State, x))
<1> DEFINE f == Head(toHost)
<1>1. f \in HostFrames
  BY ReadFrame DEF Read
<1>2. State \in Caches /\ State # NoState /\ (cache # NoState => State = cache)
  BY StateType
<1>3. cache' # NoState => State' = cache'
  BY DEF State
<1>4. NoState \notin Caches
  BY CommandsAssumption
<1> HIDE DEF f
<1>5. CASE f.reg = "all"
  <2>1. f.dump \in Caches
    BY <1>1, <1>5, HostFrameKinds DEF Measured, Floats
  <2>2. cache' = f.dump
    BY <1>5 DEF Read, AppliesDump, Replaces, f
  <2>3. cache' # NoState /\ State' = f.dump
    BY <1>3, <1>4, <2>1, <2>2
  <2>4. QED
    BY <1>5, <2>3 DEF After, Tells, Told, f
<1>6. CASE f.reg # "all"
  <2>0. Applies(f)
    BY <1>6 DEF Read, f
  <2>1. CASE f.reg = "measurement"
    <3>1. cache' = State
      BY <2>0, <2>1 DEF Applies
    <3>2. State' = State /\ cache' # NoState
      BY <1>2, <1>3, <3>1
    <3>3. \A x : ~Tells(f, x)
      BY <2>1 DEF Tells
    <3>4. QED
      BY <3>2, <3>3 DEF After, f
  <2>2. CASE f.reg = "output"
    <3>1. cache' = [State EXCEPT !.on = (f.val = 1)]
      BY <2>0, <2>2 DEF Applies
    <3>2. cache' \in Caches /\ cache'.on = (f.val = 1) /\ cache'.prot = State.prot /\ cache'.reg = State.reg
      BY <1>2, <3>1 DEF Caches
    <3>3. State' = cache' /\ cache' # NoState
      BY <1>3, <1>4, <3>2
    <3>4. \A x \in Fields : Tells(f, x) <=> x = "on"
      BY <2>2 DEF Tells, Fields, Floats
    <3>5. ASSUME NEW x \in Fields PROVE Field(State', x) = After(f, x, Field(State, x))
      <4>1. CASE x = "on"
        <5>1. Field(State', x) = (f.val = 1)
          BY <3>2, <3>3, <4>1 DEF Field, Floats
        <5>2. After(f, x, Field(State, x)) = (f.val = 1)
          BY <2>2, <3>4, <4>1 DEF After, Told
        <5>3. QED
          BY <5>1, <5>2
      <4>2. CASE x # "on"
        BY <3>2, <3>3, <3>4, <4>2 DEF After, Field
      <4>3. QED
        BY <4>1, <4>2
    <3>6. QED
      BY <3>3, <3>5 DEF f
  <2>3. CASE f.reg = "protection"
    <3>1. f.val \in Trips \cup {"ok"}
      BY <1>1, <2>3, HostFrameKinds DEF Measured, Floats
    <3>2. cache' = [State EXCEPT !.prot = f.val]
      BY <2>0, <2>3 DEF Applies
    <3>3. cache' \in Caches /\ cache'.on = State.on /\ cache'.prot = f.val /\ cache'.reg = State.reg
      BY <1>2, <3>1, <3>2 DEF Caches
    <3>4. State' = cache' /\ cache' # NoState
      BY <1>3, <1>4, <3>3
    <3>5. ASSUME NEW x \in Fields PROVE Field(State', x) = After(f, x, Field(State, x))
      BY <2>3, <3>3, <3>4 DEF After, Field, Tells, Told, Fields, Floats
    <3>6. QED
      BY <3>4, <3>5 DEF f
  <2>4. CASE f.reg = "volts"
    <3>1. f.val \in Values
      BY <1>1, <2>4, HostFrameKinds DEF Measured
    <3>2. cache' = [State EXCEPT !.reg["volts"] = f.val]
      BY <2>0, <2>4 DEF Applies
    <3>3. /\ cache' \in Caches /\ cache'.on = State.on /\ cache'.prot = State.prot
          /\ cache'.reg["volts"] = f.val /\ cache'.reg["ovp"] = State.reg["ovp"]
      BY <1>2, <3>1, <3>2 DEF Caches, Floats
    <3>4. State' = cache' /\ cache' # NoState
      BY <1>3, <1>4, <3>3
    <3>5. ASSUME NEW x \in Fields PROVE Field(State', x) = After(f, x, Field(State, x))
      BY <2>4, <3>3, <3>4 DEF After, Field, Tells, Told, Fields, Floats
    <3>6. QED
      BY <3>4, <3>5 DEF f
  <2>5. CASE f.reg \notin {"measurement", "output", "protection", "volts"}
    <3>1. cache' = cache /\ State' = State
      BY <2>0, <2>5 DEF Applies, State
    <3>2. f.reg = "ovp"
      BY <1>1, <1>6, <2>5, HostFrameKinds DEF Measured, Floats
    <3>3. \A x \in Fields : ~Tells(f, x)
      BY <3>2 DEF Tells
    <3>4. QED
      BY <3>1, <3>2, <3>3 DEF After, Floats, f
  <2>6. QED
    BY <2>1, <2>2, <2>3, <2>4, <2>5
<1>7. QED
  BY <1>5, <1>6

LEMMA StoreCache ==
  ASSUME TypeOK, WriterHolds, NEW c \in Clients, Store(c)
  PROVE  /\ cache # NoState /\ cache' \in Caches /\ State' = cache' /\ State = cache
         /\ cache'.on = cache.on /\ cache'.prot = cache.prot
         /\ \A r \in Floats : cache'.reg[r] = IF r \in DOMAIN client[c].cmd.set
                                             THEN client[c].cmd.set[r] ELSE cache.reg[r]
<1>1. cache \in Caches /\ cache # NoState
  BY DEF Store, WriterHolds, Overtook, TypeOK, HubTyped
<1>2. /\ DOMAIN client[c].cmd.set \subseteq Floats
      /\ \A r \in DOMAIN client[c].cmd.set : client[c].cmd.set[r] \in Values
  BY CommandType DEF TypeOK
<1> DEFINE stored == [r \in Floats |-> IF r \in DOMAIN client[c].cmd.set
                                      THEN client[c].cmd.set[r] ELSE cache.reg[r]]
<1>3. stored \in [Floats -> Values \cup {0}]
  BY <1>1, <1>2 DEF Caches
<1>4. cache' = [cache EXCEPT !.reg = stored]
  BY DEF Store
<1>5. /\ cache' \in Caches /\ cache'.reg = stored
      /\ cache'.on = cache.on /\ cache'.prot = cache.prot
  <2> HIDE DEF stored
  <2>1. QED
    BY <1>1, <1>3, <1>4 DEF Caches
<1>6. State = cache /\ State' = cache'
  BY <1>1, <1>5, CommandsAssumption DEF State
<1>7. QED
  BY <1>1, <1>5, <1>6

------------------------------------------------------------------------------
(***************************************************************************)
(* The holder of writeMu.                                                  *)
(***************************************************************************)
LEMMA Names == Hub \notin Clients /\ NoOne \notin Clients /\ Hub # NoOne
BY HubAssumption DEF HubAssumption

LEMMA NothingLeft ==
  Series(<<>>) /\ Regs(<<>>) = {} /\ \A set : Carries(<<>>, set)
BY DEF Series, Carries, Regs

\* The holder lets go.
LEMMA UnlockHolds ==
  ASSUME Unlock
  PROVE  /\ writer' # Hub
         /\ writer' # NoOne => left' # <<>>
         /\ Series(left)'
         /\ \A c \in Clients : Holds(c)'
<1>1. left' = <<>> /\ writer' = NoOne
  BY DEF Unlock
<1>2. Series(left)'
  BY <1>1, NothingLeft
<1>3. QED
  BY <1>1, <1>2, Names DEF Holds

LEMMA DetachHolds ==
  ASSUME CallsTyped, WriterHolds, Detach
  PROVE  \A c \in Clients : Overtook(c)'
BY DEF Detach, WriterHolds, Overtook, CallsTyped

\* Nothing but the cache changes, and it is kept.
LEMMA WriterKept ==
  ASSUME WriterHolds, UNCHANGED <<pc, writer, onWire, left, client, passed>>,
         connected => connected',
         cache # NoState => cache' # NoState
  PROVE  WriterHolds'
BY DEF WriterHolds, Holds, Overtook, Series, Carries

LEMMA ReturnsHold ==
  ASSUME CallsTyped, WriterHolds, NEW c \in Clients, Returns(c), UNCHANGED <<connected, cache>>
  PROVE  \A q \in Clients : Overtook(q)'
BY DEF Returns, Idle, WriterHolds, Overtook, CallsTyped

LEMMA GivesUpHolds ==
  ASSUME TypeOK, WriterHolds, NEW drops \in BOOLEAN, writer # NoOne, GivesUp(drops)
  PROVE  WriterHolds'
<1>1. \A c \in Clients : Overtook(c)'
  <2>1. CASE writer = Hub
    BY <2>1, DetachHolds DEF GivesUp, TypeOK
  <2>2. CASE writer # Hub
    BY <2>2, ReturnsHold DEF GivesUp, TypeOK, LockTyped
  <2>3. QED
    BY <2>1, <2>2
<1>2. Unlock
  BY DEF GivesUp
<1>3. QED
  BY <1>1, <1>2, UnlockHolds DEF WriterHolds

LEMMA WriterStep ==
  ASSUME TypeOK, SessionHolds, WriterHolds, [Next]_vars
  PROVE  WriterHolds'
<1>1. CASE Dial
  <2>1. writer # Hub
    BY <1>1 DEF Dial, WriterHolds
  <2>2. /\ UNCHANGED <<writer, onWire, left, client, passed, connected, cache>>
    BY <1>1 DEF Dial, lock, calls
  <2>3. QED
    BY <2>1, <2>2 DEF WriterHolds, Holds, Overtook, Series, Carries
<1>2. CASE ShakeHands
  <2>1. /\ writer' = Hub /\ onWire' = TRUE /\ left' = Handshake /\ pc' = "shake"
        /\ UNCHANGED <<client, passed, connected, cache>>
    BY <1>2 DEF ShakeHands, calls, hub
  <2>2. \A c \in Clients : Overtook(c)' /\ Holds(c)'
    BY <2>1, Names DEF WriterHolds, Overtook, Holds
  <2>3. left' # <<>> /\ Series(left)'
    BY <2>1, HandshakeSeries
  <2>4. QED
    BY <2>1, <2>2, <2>3 DEF WriterHolds
<1>3. CASE ReadFails
  <2>1. writer # Hub /\ onWire' = FALSE /\ UNCHANGED <<writer, left, client>> /\ Detach
    BY <1>3 DEF ReadFails, WriterHolds, Detach
  <2>2. \A c \in Clients : Overtook(c)'
    BY <2>1, DetachHolds DEF TypeOK
  <2>3. \A c \in Clients : Holds(c)'
    BY <2>1 DEF Holds, WriterHolds, Carries
  <2>4. (writer' # NoOne => left' # <<>>) /\ Series(left)' /\ writer' # Hub
    BY <2>1 DEF WriterHolds, Series
  <2>5. QED
    BY <2>2, <2>3, <2>4 DEF WriterHolds
<1>4. CASE Writes
  <2>1. left # <<>> /\ left \in Seq(DeviceFrames) /\ Len(left) > 1 /\ left' = Tail(left)
    BY <1>4 DEF Writes, Sends, WriterHolds, TypeOK, LockTyped
  <2>2. /\ Series(Tail(left)) /\ Tail(left) # <<>>
        /\ \A set : Carries(left, set) => Carries(Tail(left), set)
    BY <2>1, SeriesTail DEF WriterHolds
  <2>3. /\ UNCHANGED <<writer, onWire, pc, client, connected, cache>> /\ Overtakes
    BY <1>4 DEF Writes, Sends
  <2>4. ASSUME NEW c \in Clients PROVE Overtook(c)' /\ Holds(c)'
    <3>1. passed[c] \subseteq passed'[c]
      BY <2>3 DEF Overtakes
    <3>2. Overtook(c)'
      BY <2>3, <3>1 DEF WriterHolds, Overtook
    <3>3. Holds(c)'
      BY <2>1, <2>2, <2>3 DEF WriterHolds, Holds
    <3>4. QED
      BY <3>2, <3>3
  <2>5. (writer' = Hub => pc' = "shake" /\ onWire') /\ left' # <<>> /\ Series(left)'
    BY <2>1, <2>2, <2>3 DEF WriterHolds
  <2>6. QED
    BY <2>4, <2>5 DEF WriterHolds
<1>5. CASE Shaken
  <2>1. Unlock /\ UNCHANGED <<client, passed, connected, cache>>
    BY <1>5 DEF Shaken, Sends
  <2>2. \A c \in Clients : Overtook(c)'
    BY <2>1 DEF WriterHolds, Overtook
  <2>3. QED
    BY <2>1, <2>2, UnlockHolds DEF WriterHolds
<1>6. ASSUME NEW c \in Clients, Return(c) PROVE WriterHolds'
  <2>1. Unlock /\ UNCHANGED <<connected, cache>> /\ connected
    BY <1>6 DEF Return, Sends, WriterHolds, Holds
  <2>2. \A q \in Clients : Overtook(q)'
    <3>1. CASE client[c].cmd.set = <<>>
      BY <1>6, <2>1, <3>1, ReturnsHold DEF Return, TypeOK
    <3>2. CASE client[c].cmd.set # <<>>
      <4>1. client' = [client EXCEPT ![c].pc = "store"] /\ passed' = passed
        BY <1>6, <3>2 DEF Return
      <4>2. cache # NoState
        BY <2>1 DEF SessionHolds
      <4>3. QED
        BY <2>1, <4>1, <4>2 DEF WriterHolds, Overtook
    <3>3. QED
      BY <3>1, <3>2
  <2>3. QED
    BY <2>1, <2>2, UnlockHolds DEF WriterHolds
<1>7. CASE WriteFails
  BY <1>7, GivesUpHolds DEF WriteFails
<1>8. CASE WriteStalls
  BY <1>8, GivesUpHolds DEF WriteStalls
<1>9. ASSUME NEW inWrite \in BOOLEAN, Cancel(inWrite) PROVE WriterHolds'
  <2>1. GivesUp(inWrite /\ onWire) /\ writer # NoOne /\ (inWrite /\ onWire) \in BOOLEAN
    BY <1>9, Names DEF Cancel
  <2>2. QED
    BY <2>1, GivesUpHolds
<1>10. CASE Read
  <2>1. UNCHANGED <<pc, writer, onWire, left, client, passed>>
    BY <1>10 DEF Read, lock, calls
  <2>2. connected => connected'
    BY <1>10 DEF Read, AppliesDump, Applies
  <2>4. cache # NoState => cache' # NoState
    BY <1>10, ReadCache
  <2>5. QED
    BY <2>1, <2>2, <2>4, WriterKept
<1>11. ASSUME NEW c \in Clients, NEW cmd \in Commands[c], Call(c, cmd) PROVE WriterHolds'
  <2>1. /\ client[c].pc = "idle" /\ client' = [client EXCEPT ![c] = [pc |-> "call", cmd |-> cmd]]
        /\ UNCHANGED <<pc, writer, onWire, left, passed, connected, cache>>
    BY <1>11 DEF Call, lock, hub
  <2>2. client'[c].pc = "call" /\ \A q \in Clients : q # c => client'[q] = client[q]
    BY <2>1 DEF TypeOK, CallsTyped
  <2>3. \A q \in Clients : Holds(q)' /\ Overtook(q)'
    BY <2>1, <2>2 DEF WriterHolds, Holds, Overtook, Carries
  <2>4. QED
    BY <2>1, <2>3 DEF WriterHolds, Series
<1>12. ASSUME NEW c \in Clients, Lock(c) PROVE WriterHolds'
  <2>1. UNCHANGED <<pc, connected, cache>> /\ client[c].pc = "call" /\ writer = NoOne
    BY <1>12 DEF Lock, hub
  <2>2. CASE conn /\ connected
    <3>1. /\ writer' = c /\ onWire' = TRUE /\ left' = Frames(client[c].cmd)
          /\ UNCHANGED <<client, passed>>
      BY <1>12, <2>2 DEF Lock
    <3>2. client[c].cmd \in [set : Settings, out : Outputs]
      BY CommandType DEF TypeOK
    <3>3. Series(left)' /\ left' # <<>> /\ Carries(left', client[c].cmd.set)
      BY <3>1, <3>2, FramesSeries
    <3>4. \A q \in Clients : Overtook(q)' /\ Holds(q)'
      BY <2>1, <2>2, <3>1, <3>3 DEF WriterHolds, Overtook, Holds
    <3>5. writer' # Hub
      BY <3>1, Names
    <3>6. QED
      BY <3>3, <3>4, <3>5 DEF WriterHolds
  <2>3. CASE ~(conn /\ connected)
    <3>1. Returns(c) /\ UNCHANGED <<writer, onWire, left>>
      BY <1>12, <2>3 DEF Lock, lock
    <3>2. \A q \in Clients : Overtook(q)'
      BY <2>1, <3>1, ReturnsHold DEF TypeOK
    <3>3. \A q \in Clients : Holds(q)'
      BY <2>1, <3>1, Names DEF Holds
    <3>4. writer' = NoOne /\ Series(left)'
      BY <2>1, <3>1 DEF WriterHolds, Series
    <3>5. QED
      BY <3>2, <3>3, <3>4, Names DEF WriterHolds
  <2>4. QED
    BY <2>2, <2>3
<1>13. ASSUME NEW c \in Clients, Store(c) PROVE WriterHolds'
  <2>1. Returns(c) /\ UNCHANGED <<pc, connected, writer, onWire, left>> /\ client[c].pc = "store"
    BY <1>13 DEF Store, lock
  <2>2. cache # NoState /\ cache' # NoState
    BY <1>13, StoreCache, CommandsAssumption
  <2>3. \A q \in Clients : Overtook(q)'
    BY <2>1, <2>2 DEF Returns, Idle, WriterHolds, Overtook, TypeOK, CallsTyped
  <2>4. \A q \in Clients : Holds(q)'
    BY <2>1 DEF Holds, WriterHolds, Carries, Returns, TypeOK, CallsTyped
  <2>5. QED
    BY <2>1, <2>3, <2>4 DEF WriterHolds, Series
<1>14. CASE UNCHANGED <<pc, writer, onWire, left, client, passed, connected, cache>>
  BY <1>14, WriterKept
<1>15. QED
  BY <1>1, <1>2, <1>3, <1>4, <1>5, <1>6, <1>7, <1>8, <1>9, <1>10, <1>11, <1>12, <1>13, <1>14
     DEF Next, Session, Write, Command, Faulty, Take, Serves, Reports, Overheats, Ignores, Stall, Cut,
         AnswerTimeout, AnswerLate, Unanswered, DialFails, vars, lock, hub, calls
------------------------------------------------------------------------------
(***************************************************************************)
(* The session.                                                            *)
(***************************************************************************)
LEMMA HeadConcat ==
  ASSUME NEW S, NEW s \in Seq(S), NEW t \in Seq(S), s # <<>>
  PROVE  s \o t # <<>> /\ Head(s \o t) = Head(s)
<1>1. Len(s) \in Nat \ {0} /\ Len(t) \in Nat
  BY EmptySeq, LenProperties
<1>2. Len(s \o t) = Len(s) + Len(t) /\ (s \o t)[1] = s[1]
  BY <1>1, ConcatProperties
<1>3. s \o t # <<>>
  BY <1>1, <1>2, EmptySeq
<1>4. QED
  BY <1>2, <1>3

LEMMA DumplessTail ==
  ASSUME NEW s \in Seq(HostFrames), s # <<>>, Dumpless(s)
  PROVE  Dumpless(Tail(s))
<1>1. /\ Len(s) \in Nat \ {0} /\ DOMAIN s = 1 .. Len(s)
      /\ DOMAIN Tail(s) = 1 .. Len(s) - 1
      /\ \A i \in 1 .. Len(s) - 1 : Tail(s)[i] = s[i + 1]
  BY LenProperties, HeadTailProperties, EmptySeq
<1>2. \A i \in DOMAIN Tail(s) : i + 1 \in DOMAIN s /\ Tail(s)[i] = s[i + 1]
  BY <1>1
<1>3. QED
  BY <1>2 DEF Dumpless

\* What a step of the device does to the wire to the hub.
LEMMA PushesWire ==
  ASSUME WireTyped, NEW r, r.out \in Seq(HostFrames), Pushes(r)
  PROVE  /\ open => toHost' = toHost \o r.out
         /\ ~open => toHost' = toHost
         /\ dev' = r.dev
         /\ HasDump' => HasDump \/ (open /\ ~Dumpless(r.out))
         /\ toHost # <<>> => toHost' # <<>> /\ Head(toHost') = Head(toHost)
         /\ open /\ toHost = <<>> => toHost' = r.out
BY DumplessConcat, HeadConcat, ConcatEmptySeq DEF Pushes, HasDump, WireTyped

LEMMA ShortAppend ==
  ASSUME NEW a, NEW b
  PROVE  Append(<<>>, a) = <<a>> /\ Append(<<a>>, b) = <<a, b>>
<1>1. /\ Append(<<>>, a) \in Seq({a, b}) /\ Len(Append(<<>>, a)) = 1 /\ Append(<<>>, a)[1] = a
  <2>1. <<>> \in Seq({a, b}) /\ Len(<<>>) = 0
    OBVIOUS
  <2>2. QED
    BY <2>1, AppendProperties
<1>2. <<a>> \in Seq({a, b}) /\ Len(<<a>>) = 1 /\ <<a>>[1] = a
  OBVIOUS
<1>3. Append(<<>>, a) = <<a>>
  BY <1>1, <1>2, SeqEqual
<1>4. /\ Append(<<a>>, b) \in Seq({a, b}) /\ Len(Append(<<a>>, b)) = 2
      /\ Append(<<a>>, b)[1] = a /\ Append(<<a>>, b)[2] = b
  BY <1>2, AppendProperties
<1>5. <<a, b>> \in Seq({a, b}) /\ Len(<<a, b>>) = 2 /\ <<a, b>>[1] = a /\ <<a, b>>[2] = b
  OBVIOUS
<1>6. Append(<<a>>, b) = <<a, b>>
  <2>1. PICK s \in Seq({a, b}), u \in Seq({a, b}) :
           /\ s = Append(<<a>>, b) /\ u = <<a, b>>
           /\ Len(s) = 2 /\ s[1] = a /\ s[2] = b
           /\ Len(u) = 2 /\ u[1] = a /\ u[2] = b
    BY <1>4, <1>5
  <2>2. \A i \in 1 .. Len(s) : s[i] = u[i]
    BY <2>1
  <2>3. s = u
    BY <2>1, <2>2, SeqEqual
  <2>4. QED
    BY <2>1, <2>3
<1>7. QED
  BY <1>3, <1>6

LEMMA ShortTails ==
  /\ Tail(<<SessionFrame>>) = <<>> /\ Tail(<<GetAllFrame>>) = <<>>
  /\ Tail(Handshake) = <<GetAllFrame>>
  /\ Head(<<SessionFrame>>) = SessionFrame /\ Head(<<GetAllFrame>>) = GetAllFrame
  /\ Head(Handshake) = SessionFrame
  /\ Len(<<GetAllFrame>>) = 1 /\ Len(Handshake) = 2
  /\ Append(<<>>, SessionFrame) = <<SessionFrame>> /\ Append(<<>>, GetAllFrame) = <<GetAllFrame>>
  /\ Append(<<SessionFrame>>, GetAllFrame) = Handshake
  /\ <<SessionFrame>> # <<>> /\ <<GetAllFrame>> # <<>> /\ Handshake # <<>>
<1>1. /\ Tail(<<SessionFrame>>) = <<>> /\ Tail(<<GetAllFrame>>) = <<>>
      /\ Tail(<<SessionFrame, GetAllFrame>>) = <<GetAllFrame>>
  OBVIOUS
<1>2. /\ Head(<<SessionFrame>>) = SessionFrame /\ Head(<<GetAllFrame>>) = GetAllFrame
      /\ Head(<<SessionFrame, GetAllFrame>>) = SessionFrame
      /\ Len(<<GetAllFrame>>) = 1 /\ Len(<<SessionFrame, GetAllFrame>>) = 2
  OBVIOUS
<1>3. /\ Append(<<>>, SessionFrame) = <<SessionFrame>> /\ Append(<<>>, GetAllFrame) = <<GetAllFrame>>
      /\ Append(<<SessionFrame>>, GetAllFrame) = <<SessionFrame, GetAllFrame>>
  BY ShortAppend
<1>4. /\ <<SessionFrame>> # <<>> /\ <<GetAllFrame>> # <<>> /\ <<SessionFrame, GetAllFrame>> # <<>>
  OBVIOUS
<1>5. QED
  BY <1>1, <1>2, <1>3, <1>4 DEF Handshake

\* A step that closes the transport or keeps the session as it is.
LEMMA SessionKept ==
  ASSUME SessionHolds, UNCHANGED <<dev, toDev, toHost, pc, connected, dumped, cache, writer, left>>,
         open' => open
  PROVE  SessionHolds'
BY DEF SessionHolds, HasDump, Dumpless

LEMMA DetachSession ==
  ASSUME SessionHolds, Detach, UNCHANGED dev
  PROVE  SessionHolds'
BY DEF SessionHolds, Detach, HasDump, Dumpless

LEMMA GivesUpSession ==
  ASSUME TypeOK, SessionHolds, WriterHolds, writer # NoOne, NEW drops \in BOOLEAN, GivesUp(drops)
  PROVE  SessionHolds'
<1>1. CASE writer = Hub
  BY <1>1, DetachSession DEF GivesUp
<1>2. CASE writer # Hub
  <2>1. /\ UNCHANGED <<dev, toDev, toHost, pc, connected, dumped, cache>>
        /\ open' => open
        /\ writer' = NoOne
    BY <1>2 DEF GivesUp, Unlock, OpenAfter
  <2>2. QED
    BY <1>2, <2>1, Names DEF SessionHolds, HasDump, Dumpless
<1>3. QED
  BY <1>1, <1>2

LEMMA SendsSession ==
  ASSUME TypeOK, SessionHolds, WriterHolds, Writes \/ Shaken \/ \E c \in Clients : Return(c)
  PROVE  SessionHolds'
<1>1. /\ writer # NoOne /\ onWire /\ open
      /\ toDev' = Append(toDev, Head(left))
      /\ UNCHANGED <<dev, open, toHost, connected, dumped, cache>>
  BY DEF Writes, Shaken, Return, Sends
<1>2. CASE writer = Hub
  <2>1. /\ pc = "shake" /\ ~connected /\ ~HasDump
    BY <1>1, <1>2 DEF SessionHolds, WriterHolds
  <2>2. \/ left = Handshake /\ toDev = <<>>
        \/ left = <<GetAllFrame>> /\ toDev \in {<<>>, <<SessionFrame>>}
    BY <1>1, <1>2 DEF SessionHolds
  <2>3. ~HasDump'
    BY <1>1, <2>1 DEF HasDump
  <2>4. CASE Writes
    <3>1. left = Handshake /\ toDev = <<>>
      BY <2>2, <2>4, ShortTails DEF Writes
    <3>2. left' = <<GetAllFrame>> /\ toDev' = <<SessionFrame>> /\ writer' = Hub /\ pc' = "shake"
      BY <1>1, <1>2, <2>1, <2>4, <3>1, ShortTails DEF Writes
    <3>3. QED
      BY <1>1, <2>1, <2>3, <3>2 DEF SessionHolds
  <2>5. CASE Shaken
    <3>1. left = <<GetAllFrame>> /\ toDev \in {<<>>, <<SessionFrame>>}
      <4>1. Len(left) # Len(Handshake)
        BY <2>5, ShortTails DEF Shaken
      <4>2. QED
        BY <2>2, <4>1
    <3>2. toDev' \in {<<GetAllFrame>>, Handshake} /\ writer' = NoOne /\ pc' = "read"
      BY <1>1, <2>5, <3>1, ShortTails DEF Shaken, Unlock
    <3>3. QED
      BY <1>1, <2>1, <2>3, <3>2, Names DEF SessionHolds
  <2>6. QED
    BY <1>2, <2>4, <2>5, Names DEF Return
<1>3. CASE writer # Hub
  <2>1. writer \in Clients
    BY <1>1, <1>3 DEF TypeOK, LockTyped
  <2>2. connected
    BY <1>1, <2>1 DEF WriterHolds, Holds
  <2>3. pc = "read" /\ pc' = pc
    BY <1>3, <2>2 DEF SessionHolds, Writes, Shaken, Return
  <2>4. writer' # Hub
    BY <1>3, Names DEF Writes, Shaken, Return, Unlock
  <2>5. HasDump' = HasDump
    BY <1>1 DEF HasDump
  <2>6. QED
    BY <1>1, <2>2, <2>3, <2>4, <2>5 DEF SessionHolds
<1>4. QED
  BY <1>2, <1>3

LEMMA ReadSession ==
  ASSUME TypeOK, SessionHolds, Read
  PROVE  SessionHolds'
<1> DEFINE f == Head(toHost)
<1>1. /\ pc = "read" /\ toHost # <<>> /\ toHost' = Tail(toHost)
      /\ UNCHANGED <<open, toDev, dev, pc, writer, left>>
  BY DEF Read, lock
<1>2. HasDump' => HasDump
  BY <1>1, DumplessTail DEF HasDump, TypeOK, WireTyped
<1>3. cache' = NoState => cache = NoState /\ f.reg \in Floats
  BY ReadCache
<1>4. CASE f.reg = "all"
  <2>1. HasDump
    <3>1. 1 \in DOMAIN toHost /\ toHost[1] = f
      BY <1>1, LenProperties, EmptySeq DEF TypeOK, WireTyped
    <3>2. QED
      BY <1>4, <3>1 DEF HasDump, Dumpless
  <2>2. connected' = TRUE /\ dumped' = TRUE
    BY <1>4 DEF Read, AppliesDump
  <2>3. cache' # NoState
    BY <1>3, <1>4 DEF Floats
  <2>4. QED
    BY <1>1, <1>2, <2>1, <2>2, <2>3 DEF SessionHolds
<1>5. CASE f.reg # "all"
  <2>1. connected' = connected /\ dumped' = dumped
    BY <1>5 DEF Read, Applies
  <2>2. QED
    BY <1>1, <1>2, <1>3, <2>1 DEF SessionHolds
<1>6. QED
  BY <1>4, <1>5

\* The handshake that is served.
LEMMA ServesSession ==
  ASSUME TypeOK, SessionHolds, WriterHolds, Serves
  PROVE  SessionHolds'
<1> DEFINE f == Head(toDev)
           h == Handle(dev, f)
<1>1. f \in DeviceFrames /\ dev \in Devices
  BY ServedFrame DEF Serves, TypeOK, WireTyped
<1>2. /\ h.out \in Seq(HostFrames)
      /\ dev.session => h.dev.session
      /\ ~dev.session /\ f.op # "session" => h.out = <<>>
      /\ f.op # "read" => Dumpless(h.out)
  BY <1>1, HandleTypes
<1>3. /\ toDev # <<>> /\ Pushes(h) /\ toDev' = Tail(toDev)
      /\ UNCHANGED <<open, pc, connected, dumped, cache, writer, left>>
  BY DEF Serves, hub, lock
<1> HIDE DEF h
<1>4. /\ dev' = h.dev
      /\ HasDump' => HasDump \/ (open /\ ~Dumpless(h.out))
  BY <1>2, <1>3, PushesWire DEF TypeOK
<1>5. dev.session => dev'.session
  BY <1>2, <1>4
<1>6. ~Dumpless(h.out) => f.op = "read" /\ dev.session
  BY <1>2 DEF Dumpless, SessionFrame
<1>7. f = SessionFrame => f.op # "read"
  BY DEF SessionFrame
<1>8. CASE open /\ ~connected
  <2>1. CASE pc = "read"
    <3>1. toDev \in {<<GetAllFrame>>, Handshake} /\ ~HasDump
      BY <1>3, <1>8, <2>1 DEF SessionHolds
    <3>2. CASE toDev = <<GetAllFrame>>
      BY <1>3, <1>4, <1>5, <1>6, <1>8, <2>1, <3>1, <3>2, ShortTails DEF SessionHolds, WriterHolds
    <3>3. CASE toDev = Handshake
      <4>1. f.op # "read" /\ toDev' = <<GetAllFrame>>
        BY <1>3, <1>7, <3>3, ShortTails
      <4>2. QED
        BY <1>3, <1>4, <1>5, <1>6, <1>8, <2>1, <3>1, <4>1 DEF SessionHolds, WriterHolds
    <3>4. QED
      BY <3>1, <3>2, <3>3
  <2>2. CASE pc = "shake"
    <3>1. writer = Hub /\ left = <<GetAllFrame>> /\ toDev = <<SessionFrame>> /\ ~HasDump
      BY <1>3, <1>8, <2>2 DEF SessionHolds
    <3>2. f.op # "read" /\ toDev' = <<>>
      BY <1>3, <1>7, <3>1, ShortTails
    <3>3. QED
      BY <1>3, <1>4, <1>5, <1>6, <1>8, <2>2, <3>1, <3>2 DEF SessionHolds
  <2>3. QED
    BY <1>8, <2>1, <2>2 DEF SessionHolds, TypeOK, HubTyped
<1>9. CASE ~(open /\ ~connected)
  BY <1>3, <1>4, <1>5, <1>6, <1>9 DEF SessionHolds, WriterHolds
<1>10. QED
  BY <1>8, <1>9

LEMMA SessionStep ==
  ASSUME TypeOK, SessionHolds, WriterHolds, [Next]_vars
  PROVE  SessionHolds'
<1>1. CASE Dial
  <2>1. /\ ~connected /\ writer # Hub
    BY <1>1 DEF Dial, SessionHolds, WriterHolds
  <2>2. /\ pc' = "shake" /\ toDev' = <<>> /\ toHost' = <<>> /\ UNCHANGED <<connected, writer>>
    BY <1>1 DEF Dial, lock
  <2>3. ~HasDump'
    BY <2>2 DEF HasDump, Dumpless
  <2>4. QED
    BY <2>1, <2>2, <2>3 DEF SessionHolds
<1>2. CASE ShakeHands
  <2>1. /\ pc = "shake" /\ writer = NoOne /\ writer' = Hub /\ left' = Handshake
        /\ UNCHANGED <<dev, open, toDev, toHost, pc, connected, dumped, cache>>
    BY <1>2 DEF ShakeHands, wire, hub
  <2>2. HasDump' = HasDump
    BY <2>1 DEF HasDump
  <2>3. QED
    BY <2>1, <2>2, Names DEF SessionHolds
<1>3. CASE ReadFails
  BY <1>3, DetachSession DEF ReadFails
<1>4. CASE AnswerTimeout \/ AnswerLate \/ Cut
  BY <1>4, SessionKept DEF AnswerTimeout, AnswerLate, Unanswered, Cut, hub, lock
<1>5. CASE WriteFails \/ WriteStalls
  BY <1>5, GivesUpSession DEF WriteFails, WriteStalls
<1>6. ASSUME NEW inWrite \in BOOLEAN, Cancel(inWrite) PROVE SessionHolds'
  <2>1. GivesUp(inWrite /\ onWire) /\ writer # NoOne /\ (inWrite /\ onWire) \in BOOLEAN
    BY <1>6, Names DEF Cancel
  <2>2. QED
    BY <2>1, GivesUpSession
<1>7. ASSUME NEW c \in Clients, Lock(c) PROVE SessionHolds'
  <2>1. /\ UNCHANGED <<dev, open, toDev, toHost, pc, connected, dumped, cache>>
        /\ writer # Hub /\ writer' # Hub
    BY <1>7, Names DEF Lock, wire, hub, lock
  <2>2. HasDump' = HasDump
    BY <2>1 DEF HasDump
  <2>3. QED
    BY <2>1, <2>2 DEF SessionHolds
<1>8. ASSUME NEW c \in Clients, Store(c) PROVE SessionHolds'
  <2>1. UNCHANGED <<dev, open, toDev, toHost, pc, connected, dumped, writer, left>>
    BY <1>8 DEF Store, wire, lock
  <2>2. cache' # NoState
    BY <1>8, StoreCache, CommandsAssumption
  <2>3. HasDump' = HasDump
    BY <2>1 DEF HasDump
  <2>4. QED
    BY <2>1, <2>2, <2>3 DEF SessionHolds
<1>9. CASE Reports
  <2>1. /\ Pushes(Does(dev, <<Measured>>)) /\ Does(dev, <<Measured>>).dev = dev
        /\ Does(dev, <<Measured>>).out \in Seq(HostFrames)
        /\ Dumpless(Does(dev, <<Measured>>).out)
    BY <1>9, MeasuredSays DEF Reports, TypeOK, WireTyped
  <2>2. dev' = dev /\ (HasDump' => HasDump)
    BY <2>1, PushesWire DEF TypeOK
  <2>3. UNCHANGED <<open, toDev, pc, connected, dumped, cache, writer, left>>
    BY <1>9 DEF Reports, hub, lock
  <2>4. QED
    BY <2>2, <2>3 DEF SessionHolds
<1>10. CASE Overheats
  <2>1. /\ Pushes(Condition(dev, "otp")) /\ Condition(dev, "otp").dev.session = dev.session
        /\ Condition(dev, "otp").out \in Seq(HostFrames)
        /\ Dumpless(Condition(dev, "otp").out)
    BY <1>10, ConditionSays DEF Overheats, TypeOK, WireTyped
  <2>2. dev'.session = dev.session /\ (HasDump' => HasDump)
    BY <2>1, PushesWire DEF TypeOK
  <2>3. UNCHANGED <<open, toDev, pc, connected, dumped, cache, writer, left>>
    BY <1>10 DEF Overheats, hub, lock
  <2>4. QED
    BY <2>2, <2>3 DEF SessionHolds
<1>11. CASE Ignores
  <2>1. /\ toDev # <<>> /\ toDev' = Tail(toDev)
        /\ UNCHANGED <<dev, open, toHost, pc, connected, dumped, cache, writer, left>>
    BY <1>11 DEF Ignores, hub, lock
  <2>2. HasDump' = HasDump
    BY <2>1 DEF HasDump
  <2>3. QED
    BY <2>1, <2>2, ShortTails DEF SessionHolds
<1>12. CASE UNCHANGED <<dev, open, toDev, toHost, pc, connected, dumped, cache, writer, left>>
  BY <1>12, SessionKept
<1>13. QED
  BY <1>1, <1>2, <1>3, <1>4, <1>5, <1>6, <1>7, <1>8, <1>9, <1>10, <1>11, <1>12,
     SendsSession, ReadSession, ServesSession
     DEF Next, Session, Write, Command, Faulty, Take, Call, Stall, DialFails, vars, wire, hub, lock

------------------------------------------------------------------------------
(***************************************************************************)
(* Before the first frame.                                                 *)
(***************************************************************************)
LEMMA TailElements ==
  ASSUME NEW S, NEW s \in Seq(S), s # <<>>
  PROVE  /\ Len(s) \in Nat \ {0} /\ DOMAIN s = 1 .. Len(s) /\ Head(s) = s[1]
         /\ Tail(s) \in Seq(S) /\ DOMAIN Tail(s) = 1 .. Len(s) - 1
         /\ \A i \in 1 .. Len(s) - 1 : Tail(s)[i] = s[i + 1]
BY LenProperties, HeadTailProperties, EmptySeq

LEMMA AppendElements ==
  ASSUME NEW S, NEW s \in Seq(S), NEW e \in S
  PROVE  /\ Len(s) \in Nat /\ DOMAIN s = 1 .. Len(s)
         /\ Append(s, e) \in Seq(S) /\ DOMAIN Append(s, e) = 1 .. Len(s) + 1
         /\ \A i \in 1 .. Len(s) : Append(s, e)[i] = s[i]
         /\ Append(s, e)[Len(s) + 1] = e
BY LenProperties, AppendProperties

LEMMA NothingKept ==
  ASSUME NothingYet, UNCHANGED <<dev, toDev, toHost>>, open' => open,
         cache' = NoState => cache = NoState
  PROVE  NothingYet'
BY DEF NothingYet

LEMMA NothingSent ==
  ASSUME TypeOK, SessionHolds, WriterHolds, NothingYet,
         Writes \/ Shaken \/ \E c \in Clients : Return(c)
  PROVE  NothingYet'
<1>1. /\ writer # NoOne /\ onWire /\ open
      /\ toDev' = Append(toDev, Head(left))
      /\ UNCHANGED <<dev, open, toHost, connected, cache>>
  BY DEF Writes, Shaken, Return, Sends
<1>2. SUFFICES ASSUME cache = NoState PROVE \A i \in DOMAIN toDev' : toDev'[i].op # "write"
  BY <1>1 DEF NothingYet
<1>3. writer = Hub
  BY <1>1, <1>2 DEF TypeOK, LockTyped, WriterHolds, Holds, SessionHolds
<1>4. Head(left) \in {SessionFrame, GetAllFrame}
  BY <1>1, <1>3, ShortTails DEF SessionHolds
<1>5. Head(left).op # "write" /\ Head(left) \in DeviceFrames
  BY <1>4 DEF SessionFrame, GetAllFrame, DeviceFrames
<1>6. /\ Len(toDev) \in Nat /\ DOMAIN toDev = 1 .. Len(toDev)
      /\ DOMAIN toDev' = 1 .. Len(toDev) + 1
      /\ \A i \in 1 .. Len(toDev) : toDev'[i] = toDev[i]
      /\ toDev'[Len(toDev) + 1] = Head(left)
  BY <1>1, <1>5, AppendElements DEF TypeOK, WireTyped
<1>7. QED
  BY <1>2, <1>5, <1>6 DEF NothingYet

LEMMA NothingPushed ==
  ASSUME TypeOK, NothingYet, UNCHANGED <<open, cache>>,
         toDev' = toDev \/ (toDev # <<>> /\ toDev' = Tail(toDev)),
         NEW r, r.dev \in Devices, r.out \in Seq(HostFrames), Pushes(r),
         cache = NoState =>
           /\ ~r.dev.on
           /\ ~dev.session => r.out = <<>> \/ Head(r.out) = Measured
           /\ ~dev.session /\ r.dev.session => r.out # <<>>
  PROVE  NothingYet'
<1>1. /\ open => toHost' = toHost \o r.out
      /\ ~open => toHost' = toHost
      /\ dev' = r.dev
      /\ toHost # <<>> => toHost' # <<>> /\ Head(toHost') = Head(toHost)
      /\ open /\ toHost = <<>> => toHost' = r.out
  BY PushesWire DEF TypeOK
<1>2. SUFFICES ASSUME cache = NoState
               PROVE  /\ ~dev'.on
                      /\ \A i \in DOMAIN toDev' : toDev'[i].op # "write"
                      /\ toHost' = <<>> \/ Head(toHost') = Measured
                      /\ open /\ dev'.session => toHost' # <<>>
  BY DEF NothingYet
<1>3. \A i \in DOMAIN toDev' : toDev'[i].op # "write"
  <2>1. CASE toDev' = toDev
    BY <1>2, <2>1 DEF NothingYet
  <2>2. CASE toDev # <<>> /\ toDev' = Tail(toDev)
    BY <1>2, <2>2, TailElements DEF NothingYet, TypeOK, WireTyped
  <2>3. QED
    BY <2>1, <2>2
<1>4. CASE toHost # <<>>
  BY <1>1, <1>2, <1>3, <1>4 DEF NothingYet
<1>5. CASE toHost = <<>>
  BY <1>1, <1>2, <1>3, <1>5 DEF NothingYet
<1>6. QED
  BY <1>4, <1>5

LEMMA NothingYetStep ==
  ASSUME TypeOK, SessionHolds, WriterHolds, NothingYet, [Next]_vars
  PROVE  NothingYet'
<1>1. CASE Dial
  <2>1. /\ toDev' = <<>> /\ toHost' = <<>> /\ cache' = cache
        /\ dev' = [dev EXCEPT !.session = FALSE]
    BY <1>1 DEF Dial
  <2>2. dev'.on = dev.on /\ ~dev'.session
    BY <2>1 DEF TypeOK, WireTyped, Devices
  <2>3. QED
    BY <2>1, <2>2 DEF NothingYet
<1>2. CASE Read
  <2>1. cache' = NoState => cache = NoState /\ Head(toHost).reg \in Floats
    BY <1>2, ReadCache
  <2>2. toHost # <<>> /\ Measured.reg \notin Floats
    BY <1>2 DEF Read, Measured, Floats
  <2>3. cache' # NoState
    BY <2>1, <2>2 DEF NothingYet
  <2>4. QED
    BY <2>3 DEF NothingYet
<1>3. ASSUME NEW c \in Clients, Store(c) PROVE NothingYet'
  <2>1. cache' # NoState
    BY <1>3, StoreCache, CommandsAssumption
  <2>2. QED
    BY <2>1 DEF NothingYet
<1>4. CASE Serves
  <2> DEFINE f == Head(toDev)
             h == Handle(dev, f)
  <2>1. toDev # <<>> /\ Pushes(h) /\ toDev' = Tail(toDev) /\ UNCHANGED <<open, cache>>
    BY <1>4 DEF Serves, hub
  <2>2. f \in DeviceFrames /\ dev \in Devices
    BY <2>1, ServedFrame DEF TypeOK, WireTyped
  <2>3. /\ h.dev \in Devices /\ h.out \in Seq(HostFrames)
        /\ ~dev.session /\ ~dev.on /\ f.op = "session" => h.out = <<Measured>>
        /\ ~dev.session /\ f.op # "session" => h.out = <<>> /\ ~h.dev.session
        /\ ~dev.on /\ f.op # "write" => ~h.dev.on
    BY <2>2, HandleTypes
  <2>4. cache = NoState => ~dev.on /\ f.op # "write"
    BY <2>1, TailElements DEF NothingYet, TypeOK, WireTyped
  <2> HIDE DEF f, h
  <2>5. Head(<<Measured>>) = Measured /\ <<Measured>> # <<>>
    OBVIOUS
  <2>6. cache = NoState =>
          /\ ~h.dev.on
          /\ ~dev.session => h.out = <<>> \/ Head(h.out) = Measured
          /\ ~dev.session /\ h.dev.session => h.out # <<>>
    BY <2>3, <2>4, <2>5
  <2>7. QED
    BY <2>1, <2>3, <2>6, NothingPushed
<1>5. CASE Reports
  <2> DEFINE h == Does(dev, <<Measured>>)
  <2>1. Pushes(h) /\ UNCHANGED <<open, cache, toDev>> /\ dev.session
    BY <1>5 DEF Reports, hub
  <2>2. h.dev = dev /\ h.out \in Seq(HostFrames) /\ dev \in Devices
    BY MeasuredSays DEF TypeOK, WireTyped
  <2> HIDE DEF h
  <2>3. cache = NoState => ~h.dev.on
    BY <2>2 DEF NothingYet
  <2>4. QED
    BY <2>1, <2>2, <2>3, NothingPushed
<1>6. CASE Overheats
  <2> DEFINE h == Condition(dev, "otp")
  <2>1. Pushes(h) /\ UNCHANGED <<open, cache, toDev>>
    BY <1>6 DEF Overheats, hub
  <2>2. /\ h.dev \in Devices /\ h.out \in Seq(HostFrames) /\ ~h.dev.on
        /\ h.dev.session = dev.session
        /\ ~dev.session => h.out = <<>>
    BY ConditionSays DEF TypeOK, WireTyped
  <2> HIDE DEF h
  <2>3. QED
    BY <2>1, <2>2, NothingPushed
<1>7. CASE Ignores
  <2>1. toDev # <<>> /\ toDev' = Tail(toDev) /\ UNCHANGED <<dev, open, toHost, cache>>
    BY <1>7 DEF Ignores, hub
  <2>2. cache = NoState => \A i \in DOMAIN toDev' : toDev'[i].op # "write"
    BY <2>1, TailElements DEF NothingYet, TypeOK, WireTyped
  <2>3. QED
    BY <2>1, <2>2 DEF NothingYet
<1>8. CASE ReadFails
  BY <1>8, NothingKept DEF ReadFails, Detach
<1>9. CASE AnswerTimeout \/ AnswerLate \/ Cut \/ Stall
  BY <1>9, NothingKept DEF AnswerTimeout, AnswerLate, Unanswered, Cut, Stall, hub
<1>10. ASSUME NEW drops \in BOOLEAN, GivesUp(drops) PROVE NothingYet'
  BY <1>10, NothingKept DEF GivesUp, Detach, OpenAfter
<1>11. CASE WriteFails \/ WriteStalls \/ \E inWrite \in BOOLEAN : Cancel(inWrite)
  BY <1>10, <1>11 DEF WriteFails, WriteStalls, Cancel, TypeOK, LockTyped
<1>12. CASE UNCHANGED <<dev, open, toDev, toHost, cache>>
  BY <1>12, NothingKept
<1>13. QED
  BY <1>1, <1>2, <1>3, <1>4, <1>5, <1>6, <1>7, <1>8, <1>9, <1>11, <1>12, NothingSent
     DEF Next, Session, Write, Command, Faulty, ShakeHands, Lock, Take, Call, DialFails, vars, wire, hub

------------------------------------------------------------------------------
(***************************************************************************)
(* The output and the protection.                                          *)
(***************************************************************************)
Lit == {"on", "prot"}

\* The transport is closed, or nothing the output depends on changes.
LEMMA OutputKept ==
  ASSUME OutputFollows, UNCHANGED <<dev, toHost, cache, connected>>, open' => open
  PROVE  OutputFollows'
BY DEF OutputFollows, Answering, HasDump, Dumpless, Heard, Mute, Ends, State

LEMMA OutputPushed ==
  ASSUME TypeOK, SessionHolds, OutputFollows, UNCHANGED <<open, connected, cache>>,
         NEW r, r.out \in Seq(HostFrames), Pushes(r),
         dev.session => \A x \in Lit : Heard(r.out, x, Field(dev, x), Field(r.dev, x)),
         ~Dumpless(r.out) => \A x \in Lit : Ends(r.out, x, Field(r.dev, x))
  PROVE  OutputFollows'
<1>1. /\ open => toHost' = toHost \o r.out
      /\ dev' = r.dev
      /\ HasDump' => HasDump \/ (open /\ ~Dumpless(r.out))
  BY PushesWire DEF TypeOK
<1>2. State' = State
  BY DEF State
<1>3. toHost \in Seq(HostFrames)
  BY DEF TypeOK, WireTyped
<1>4. SUFFICES ASSUME Answering', NEW x \in Lit
               PROVE  Heard(toHost \o r.out, x, Field(State, x), Field(r.dev, x))
  <2>1. Answering' => open
    BY DEF Answering
  <2>2. QED
    BY <1>1, <1>2, <2>1 DEF OutputFollows, Lit, Heard, Mute, Ends
<1>5. CASE Answering
  <2>1. dev.session
    BY <1>5 DEF Answering, SessionHolds
  <2>2. Heard(toHost, x, Field(State, x), Field(dev, x))
    BY <1>5 DEF OutputFollows, Lit
  <2>3. Heard(r.out, x, Field(dev, x), Field(r.dev, x))
    BY <2>1
  <2>4. QED
    BY <1>3, <2>2, <2>3, HeardConcat
<1>6. CASE ~Answering
  <2>1. ~Dumpless(r.out)
    BY <1>1, <1>4, <1>6 DEF Answering
  <2>2. Ends(r.out, x, Field(r.dev, x))
    BY <2>1
  <2>3. Ends(toHost \o r.out, x, Field(r.dev, x))
    BY <1>3, <2>2, EndsConcat
  <2>4. QED
    BY <2>3 DEF Heard
<1>7. QED
  BY <1>5, <1>6

LEMMA OutputRead ==
  ASSUME TypeOK, OutputFollows, Read
  PROVE  OutputFollows'
<1>1. /\ toHost # <<>> /\ toHost' = Tail(toHost) /\ toHost \in Seq(HostFrames)
      /\ UNCHANGED <<open, dev>>
  BY DEF Read, TypeOK, WireTyped
<1>2. HasDump' => HasDump
  BY <1>1, DumplessTail DEF HasDump
<1>3. connected' => connected \/ HasDump
  <2>1. CASE Head(toHost).reg = "all"
    BY <1>1, <2>1, TailElements DEF HasDump, Dumpless
  <2>2. CASE Head(toHost).reg # "all"
    BY <2>2 DEF Read, Applies
  <2>3. QED
    BY <2>1, <2>2
<1>4. \A x \in Lit : Field(State', x) = After(Head(toHost), x, Field(State, x))
  BY ReadCache DEF Lit, Fields
<1>5. SUFFICES ASSUME Answering', NEW x \in Lit
               PROVE  Heard(Tail(toHost), x, Field(State', x), Field(dev, x))
  BY <1>1 DEF OutputFollows, Lit, Heard, Mute, Ends
<1>6. Answering
  BY <1>1, <1>2, <1>3, <1>5 DEF Answering
<1>7. Heard(toHost, x, Field(State, x), Field(dev, x))
  BY <1>6 DEF OutputFollows, Lit
<1>8. Heard(Tail(toHost), x, After(Head(toHost), x, Field(State, x)), Field(dev, x))
  BY <1>1, <1>7, HeardTail
<1>9. QED
  BY <1>4, <1>8

LEMMA OutputFollowsStep ==
  ASSUME TypeOK, SessionHolds, WriterHolds, OutputFollows, [Next]_vars
  PROVE  OutputFollows'
<1>1. CASE Dial
  <2>1. ~connected /\ connected' = connected /\ toHost' = <<>>
    BY <1>1 DEF Dial, SessionHolds
  <2>2. ~HasDump'
    BY <2>1 DEF HasDump, Dumpless
  <2>3. QED
    BY <2>1, <2>2 DEF OutputFollows, Answering
<1>2. ASSUME NEW c \in Clients, Store(c) PROVE OutputFollows'
  <2>1. /\ State'.on = State.on /\ State'.prot = State.prot
    BY <1>2, StoreCache
  <2>2. \A x \in Lit : Field(State', x) = Field(State, x)
    BY <2>1 DEF Lit, Field, Floats
  <2>3. UNCHANGED <<dev, toHost, open, connected>>
    BY <1>2 DEF Store, wire
  <2>4. QED
    BY <2>2, <2>3 DEF OutputFollows, Lit, Answering, HasDump, Dumpless, Heard, Mute, Ends
<1>3. CASE Serves
  <2> DEFINE f == Head(toDev)
             h == Handle(dev, f)
  <2>1. toDev # <<>> /\ Pushes(h) /\ UNCHANGED <<open, connected, cache>>
    BY <1>3 DEF Serves, hub
  <2>2. f \in DeviceFrames /\ dev \in Devices
    BY <2>1, ServedFrame DEF TypeOK, WireTyped
  <2>3. /\ h.out \in Seq(HostFrames)
        /\ ~dev.session /\ f.op # "session" => h.out = <<>>
        /\ f.op # "read" => Dumpless(h.out)
    BY <2>2, HandleTypes
  <2>4. f.reg \notin Lit /\ (f.op = "read" => f.reg = "all" /\ f.op # "session")
    BY <2>2, DeviceFrameKinds DEF Lit, Floats, SessionFrame, GetAllFrame
  <2>5. dev.session => \A x \in Lit : Heard(h.out, x, Field(dev, x), Field(h.dev, x))
    BY <2>2, <2>4, HandleSays DEF Fields, Lit
  <2>6. ~Dumpless(h.out) => f.op = "read" /\ dev.session
    BY <2>3, <2>4 DEF Dumpless
  <2>7. dev.session /\ f.reg = "all" => \A x \in Lit : Ends(h.out, x, Field(h.dev, x))
    <3>1. SUFFICES ASSUME dev.session, f.reg = "all"
                   PROVE  \A x \in Lit : Ends(h.out, x, Field(h.dev, x))
      OBVIOUS
    <3>2. \A x \in Fields : Ends(h.out, x, Field(h.dev, x))
      <4>1. \A x \in Fields :
               f.reg = "all" \/ (f.reg = x /\ x \in Echoed) => Ends(h.out, x, Field(h.dev, x))
        BY <2>2, <3>1, HandleSays
      <4>2. QED
        BY <3>1, <4>1
    <3>3. QED
      BY <3>2 DEF Fields, Lit
  <2> HIDE DEF f, h
  <2>8. ~Dumpless(h.out) => \A x \in Lit : Ends(h.out, x, Field(h.dev, x))
    BY <2>4, <2>6, <2>7
  <2>9. QED
    BY <2>1, <2>3, <2>5, <2>8, OutputPushed
<1>4. CASE Reports
  <2> DEFINE h == Does(dev, <<Measured>>)
  <2>1. Pushes(h) /\ UNCHANGED <<open, connected, cache>>
    BY <1>4 DEF Reports, hub
  <2>2. h.dev = dev /\ h.out \in Seq(HostFrames) /\ Dumpless(h.out) /\ Says(h.out, dev, h.dev)
    BY MeasuredSays DEF TypeOK, WireTyped
  <2> HIDE DEF h
  <2>3. \A x \in Lit : Heard(h.out, x, Field(dev, x), Field(h.dev, x))
    BY <2>2 DEF Says, Fields, Lit
  <2>4. QED
    BY <2>1, <2>2, <2>3, OutputPushed
<1>5. CASE Overheats
  <2> DEFINE h == Condition(dev, "otp")
  <2>1. Pushes(h) /\ UNCHANGED <<open, connected, cache>>
    BY <1>5 DEF Overheats, hub
  <2>2. /\ h.out \in Seq(HostFrames) /\ Dumpless(h.out)
        /\ dev.session => Says(h.out, dev, h.dev)
    BY ConditionSays DEF TypeOK, WireTyped
  <2> HIDE DEF h
  <2>3. dev.session => \A x \in Lit : Heard(h.out, x, Field(dev, x), Field(h.dev, x))
    BY <2>2 DEF Says, Fields, Lit
  <2>4. QED
    BY <2>1, <2>2, <2>3, OutputPushed
<1>6. CASE ReadFails
  BY <1>6 DEF ReadFails, Detach, OutputFollows, Answering
<1>7. CASE AnswerTimeout \/ AnswerLate \/ Cut \/ Stall \/ Ignores
  BY <1>7, OutputKept DEF AnswerTimeout, AnswerLate, Unanswered, Cut, Stall, Ignores, hub
<1>8. ASSUME NEW drops \in BOOLEAN, GivesUp(drops) PROVE OutputFollows'
  <2>1. CASE writer = Hub
    BY <1>8, <2>1 DEF GivesUp, Detach, OutputFollows, Answering
  <2>2. CASE writer # Hub
    BY <1>8, <2>2, OutputKept DEF GivesUp, OpenAfter
  <2>3. QED
    BY <2>1, <2>2
<1>9. CASE WriteFails \/ WriteStalls \/ \E inWrite \in BOOLEAN : Cancel(inWrite)
  BY <1>8, <1>9 DEF WriteFails, WriteStalls, Cancel, TypeOK, LockTyped
<1>10. CASE Writes \/ Shaken \/ \E c \in Clients : Return(c)
  BY <1>10, OutputKept DEF Writes, Shaken, Return, Sends
<1>11. CASE UNCHANGED <<dev, toHost, cache, connected, open>>
  BY <1>11, OutputKept
<1>12. QED
  BY <1>1, <1>2, <1>3, <1>4, <1>5, <1>6, <1>7, <1>9, <1>10, <1>11, OutputRead
     DEF Next, Session, Write, Command, Faulty, ShakeHands, Lock, Take, Call, DialFails, vars, wire, hub

------------------------------------------------------------------------------
(***************************************************************************)
(* The registers: frames to the device.                                    *)
(***************************************************************************)
LEMMA AppendFollows ==
  ASSUME NEW s \in Seq(DeviceFrames), NEW f \in DeviceFrames, NEW r
  PROVE  /\ f.reg \in {"all"} \cup ({r} \cap Echoed) => Asks(Append(s, f), r)
         /\ f.reg # r /\ Asks(s, r) => Asks(Append(s, f), r)
         /\ f.reg # r /\ Spares(s, r) => Spares(Append(s, f), r)
         /\ f.reg = r => Sets(Append(s, f), r, f.val)
         /\ \A v : f.reg # r /\ Sets(s, r, v) => Sets(Append(s, f), r, v)
<1> DEFINE t == Append(s, f)
<1>1. /\ Len(s) \in Nat /\ DOMAIN s = 1 .. Len(s) /\ DOMAIN t = 1 .. Len(s) + 1
      /\ \A i \in 1 .. Len(s) : t[i] = s[i]
      /\ t[Len(s) + 1] = f
  BY AppendElements
<1> HIDE DEF t
<1>2. f.reg \in {"all"} \cup ({r} \cap Echoed) => Asks(t, r)
  BY <1>1 DEF Asks
<1>3. ASSUME f.reg # r, Asks(s, r) PROVE Asks(t, r)
  <2>1. PICK i \in DOMAIN s : /\ s[i].reg \in {"all"} \cup ({r} \cap Echoed)
                              /\ \A j \in DOMAIN s : j > i => s[j].reg # r
    BY <1>3 DEF Asks
  <2>2. i \in DOMAIN t /\ t[i] = s[i] /\ \A j \in DOMAIN t : j > i => t[j].reg # r
    BY <1>1, <1>3, <2>1
  <2>3. QED
    BY <2>1, <2>2 DEF Asks
<1>4. f.reg # r /\ Spares(s, r) => Spares(t, r)
  BY <1>1 DEF Spares
<1>5. f.reg = r => Sets(t, r, f.val)
  BY <1>1 DEF Sets
<1>6. ASSUME NEW v, f.reg # r, Sets(s, r, v) PROVE Sets(t, r, v)
  <2>1. PICK i \in DOMAIN s : /\ s[i].reg = r /\ s[i].val = v
                              /\ \A j \in DOMAIN s : j > i => s[j].reg # r
    BY <1>6 DEF Sets
  <2>2. i \in DOMAIN t /\ t[i] = s[i] /\ \A j \in DOMAIN t : j > i => t[j].reg # r
    BY <1>1, <1>6, <2>1
  <2>3. QED
    BY <2>1, <2>2 DEF Sets
<1>7. QED
  BY <1>2, <1>3, <1>4, <1>5, <1>6 DEF t

LEMMA TailFollows ==
  ASSUME NEW s \in Seq(DeviceFrames), s # <<>>, NEW r
  PROVE  /\ Asks(s, r) => \/ Asks(Tail(s), r)
                          \/ Head(s).reg \in {"all"} \cup ({r} \cap Echoed) /\ Spares(Tail(s), r)
         /\ Spares(s, r) => Spares(Tail(s), r) /\ Head(s).reg # r
         /\ \A v : Sets(s, r, v) => \/ Sets(Tail(s), r, v)
                                    \/ Head(s).reg = r /\ Head(s).val = v /\ Spares(Tail(s), r)
<1> DEFINE t == Tail(s)
<1>1. /\ Len(s) \in Nat \ {0} /\ DOMAIN s = 1 .. Len(s) /\ DOMAIN t = 1 .. Len(s) - 1
      /\ \A i \in 1 .. Len(s) - 1 : t[i] = s[i + 1]
      /\ Head(s) = s[1]
  BY TailElements
<1> HIDE DEF t
<1>2. /\ \A i \in DOMAIN t : i \in Int /\ i + 1 \in DOMAIN s /\ i + 1 > 1 /\ t[i] = s[i + 1]
      /\ \A i \in DOMAIN s : i # 1 => i - 1 \in DOMAIN t /\ t[i - 1] = s[i] /\ i \in Int
  BY <1>1
<1>3. ASSUME NEW i \in DOMAIN s, i # 1, \A j \in DOMAIN s : j > i => s[j].reg # r
      PROVE  \A j \in DOMAIN t : j > i - 1 => t[j].reg # r
  <2>1. SUFFICES ASSUME NEW j \in DOMAIN t, j > i - 1 PROVE t[j].reg # r
    OBVIOUS
  <2>2. j + 1 \in DOMAIN s /\ t[j] = s[j + 1] /\ j + 1 > i
    BY <1>2, <1>3, <2>1
  <2>3. QED
    BY <1>3, <2>2
<1>4. ASSUME \A j \in DOMAIN s : j > 1 => s[j].reg # r PROVE Spares(t, r)
  BY <1>2, <1>4 DEF Spares
<1>5. ASSUME Asks(s, r)
      PROVE  \/ Asks(t, r)
             \/ Head(s).reg \in {"all"} \cup ({r} \cap Echoed) /\ Spares(t, r)
  <2>1. PICK i \in DOMAIN s : /\ s[i].reg \in {"all"} \cup ({r} \cap Echoed)
                              /\ \A j \in DOMAIN s : j > i => s[j].reg # r
    BY <1>5 DEF Asks
  <2>2. CASE i = 1
    BY <1>1, <1>4, <2>1, <2>2
  <2>3. CASE i # 1
    <3>1. /\ i - 1 \in DOMAIN t /\ t[i - 1] = s[i]
          /\ \A j \in DOMAIN t : j > i - 1 => t[j].reg # r
      BY <1>2, <1>3, <2>1, <2>3
    <3>2. QED
      BY <2>1, <3>1 DEF Asks
  <2>4. QED
    BY <2>2, <2>3
<1>6. Spares(s, r) => Spares(t, r) /\ Head(s).reg # r
  <2>1. 1 \in DOMAIN s /\ Head(s) = s[1]
    BY <1>1
  <2>2. Spares(s, r) => Spares(t, r)
    BY <1>2 DEF Spares
  <2>3. Spares(s, r) => Head(s).reg # r
    BY <2>1 DEF Spares
  <2>4. QED
    BY <2>2, <2>3
<1>7. ASSUME NEW v, Sets(s, r, v)
      PROVE  \/ Sets(t, r, v)
             \/ Head(s).reg = r /\ Head(s).val = v /\ Spares(t, r)
  <2>1. PICK i \in DOMAIN s : /\ s[i].reg = r /\ s[i].val = v
                              /\ \A j \in DOMAIN s : j > i => s[j].reg # r
    BY <1>7 DEF Sets
  <2>2. CASE i = 1
    BY <1>1, <1>4, <2>1, <2>2
  <2>3. CASE i # 1
    <3>1. /\ i - 1 \in DOMAIN t /\ t[i - 1] = s[i]
          /\ \A j \in DOMAIN t : j > i - 1 => t[j].reg # r
      BY <1>2, <1>3, <2>1, <2>3
    <3>2. QED
      BY <2>1, <3>1 DEF Sets
  <2>4. QED
    BY <2>2, <2>3
<1>8. QED
  BY <1>5, <1>6, <1>7 DEF t

LEMMA AppendSettling ==
  ASSUME NEW s \in Seq(DeviceFrames), NEW f \in DeviceFrames, NEW r, NEW t, NEW d, NEW b
  PROVE  /\ f.reg \in {"all"} \cup ({r} \cap Echoed) => Settling(Append(s, f), t, d, r, b)
         /\ f.reg # r /\ Settling(s, t, d, r, b) => Settling(Append(s, f), t, d, r, b)
         /\ f.reg # r /\ Leaving(s, d, r, b) => Leaving(Append(s, f), d, r, b)
         /\ f.reg = r => Leaving(Append(s, f), d, r, f.val)
BY AppendFollows DEF Settling, Leaving

\* What a reader is told of r it holds, and the device still does.
LEMMA TailSettling ==
  ASSUME NEW s, NEW t \in Seq(HostFrames), t # <<>>, NEW r, NEW d, NEW b
  PROVE  /\ Settling(s, t, d, r, b) => Settling(s, Tail(t), d, r, After(Head(t), r, b))
         /\ Settling(s, t, d, r, b) /\ Leaving(s, d, r, b) => Settling(s, Tail(t), d, r, b)
<1>1. CASE Asks(s, r)
  BY <1>1 DEF Settling
<1>2. CASE ~Asks(s, r)
  <2>1. SUFFICES ASSUME Settling(s, t, d, r, b)
                 PROVE  /\ Settling(s, Tail(t), d, r, After(Head(t), r, b))
                        /\ Leaving(s, d, r, b) => Settling(s, Tail(t), d, r, b)
    OBVIOUS
  <2>2. Spares(s, r) /\ Heard(t, r, b, d.reg[r])
    BY <1>2, <2>1 DEF Settling
  <2>3. Heard(Tail(t), r, After(Head(t), r, b), d.reg[r])
    BY <2>2, HeardTail
  <2>4. Leaving(s, d, r, b) => d.reg[r] = b
    BY <2>2 DEF Leaving, Spares, Sets
  <2>5. Leaving(s, d, r, b) => Heard(Tail(t), r, b, d.reg[r])
    BY <2>3, <2>4 DEF Heard
  <2>6. QED
    BY <2>2, <2>3, <2>5 DEF Settling
<1>3. QED
  BY <1>1, <1>2

\* The device handles a frame, within a session.
LEMMA HandleSettling ==
  ASSUME NEW d \in Devices, d.session, NEW s \in Seq(DeviceFrames), s # <<>>,
         NEW t \in Seq(HostFrames), NEW r \in Floats, NEW b
  PROVE  LET h == Handle(d, Head(s))
         IN  /\ Settling(s, t, d, r, b) => Settling(Tail(s), t \o h.out, h.dev, r, b)
             /\ Leaving(s, d, r, b) => Leaving(Tail(s), h.dev, r, b)
<1> DEFINE f == Head(s)
           h == Handle(d, f)
<1>1. f \in DeviceFrames
  BY HeadTailProperties
<1>2. h.out \in Seq(HostFrames)
  BY <1>1, HandleTypes
<1>3. h.dev.reg[r] = IF f.reg = r THEN f.val ELSE d.reg[r]
  BY <1>1, HandleSays
<1>4. f.reg = r \/ Heard(h.out, r, d.reg[r], h.dev.reg[r])
  BY <1>1, HandleSays DEF Fields, Field
<1>5. f.reg \in {"all"} \cup ({r} \cap Echoed) => Ends(h.out, r, h.dev.reg[r])
  <2>1. r \in Fields /\ Field(h.dev, r) = h.dev.reg[r]
    BY DEF Fields, Field
  <2>2. f.reg = "all" \/ (f.reg = r /\ r \in Echoed) => Ends(h.out, r, Field(h.dev, r))
    BY <1>1, <2>1, HandleSays
  <2>3. QED
    BY <2>1, <2>2
<1>6. /\ Asks(s, r) => \/ Asks(Tail(s), r)
                       \/ f.reg \in {"all"} \cup ({r} \cap Echoed) /\ Spares(Tail(s), r)
      /\ Spares(s, r) => Spares(Tail(s), r) /\ f.reg # r
      /\ Sets(s, r, b) => \/ Sets(Tail(s), r, b)
                          \/ f.reg = r /\ f.val = b /\ Spares(Tail(s), r)
  BY TailFollows
<1> HIDE DEF f, h
<1>7. ASSUME Settling(s, t, d, r, b) PROVE Settling(Tail(s), t \o h.out, h.dev, r, b)
  <2>1. CASE Asks(Tail(s), r)
    BY <2>1 DEF Settling
  <2>2. CASE f.reg \in {"all"} \cup ({r} \cap Echoed) /\ Spares(Tail(s), r)
    <3>1. Ends(t \o h.out, r, h.dev.reg[r])
      BY <1>2, <1>5, <2>2, EndsConcat
    <3>2. QED
      BY <2>2, <3>1 DEF Settling, Heard
  <2>3. CASE Spares(s, r) /\ Heard(t, r, b, d.reg[r])
    <3>1. Spares(Tail(s), r) /\ Heard(h.out, r, d.reg[r], h.dev.reg[r])
      BY <1>4, <1>6, <2>3
    <3>2. Heard(t \o h.out, r, b, h.dev.reg[r])
      BY <1>2, <2>3, <3>1, HeardConcat
    <3>3. QED
      BY <3>1, <3>2 DEF Settling
  <2>4. QED
    BY <1>6, <1>7, <2>1, <2>2, <2>3 DEF Settling
<1>8. ASSUME Leaving(s, d, r, b) PROVE Leaving(Tail(s), h.dev, r, b)
  BY <1>3, <1>6, <1>8 DEF Leaving
<1>9. QED
  BY <1>7, <1>8 DEF f, h

\* What the device pushes unasked tells of no register anew.
LEMMA PushSettling ==
  ASSUME NEW t \in Seq(HostFrames), NEW u \in Seq(HostFrames), NEW d, NEW e, NEW s,
         NEW r \in Floats, NEW b, Says(u, d, e), e.reg = d.reg
  PROVE  /\ Settling(s, t, d, r, b) => Settling(s, t \o u, e, r, b)
         /\ Leaving(s, d, r, b) => Leaving(s, e, r, b)
<1>1. Heard(u, r, d.reg[r], e.reg[r])
  BY DEF Says, Fields, Field
<1>2. Heard(t, r, b, d.reg[r]) => Heard(t \o u, r, b, e.reg[r])
  BY <1>1, HeardConcat
<1>3. QED
  BY <1>2 DEF Settling, Leaving

------------------------------------------------------------------------------
(***************************************************************************)
(* The registers: the steps.                                               *)
(***************************************************************************)
\* Only the wire and the device change, and what settles does still.
LEMMA RegistersPushed ==
  ASSUME RegistersFollow, Answering' => Answering,
         UNCHANGED <<cache, writer, onWire, left, client, passed, late>>,
         \A b : \A r \in Floats :
           /\ Settling(toDev, toHost, dev, r, b) => Settling(toDev', toHost', dev', r, b)
           /\ Leaving(toDev, dev, r, b) => Leaving(toDev', dev', r, b),
         CallsTyped
  PROVE  RegistersFollow'
<1>1. SUFFICES ASSUME Answering' PROVE CacheFollows' /\ StoresFollow' /\ WritesFollow'
  BY DEF RegistersFollow
<1>2. CacheFollows /\ StoresFollow /\ WritesFollow
  BY <1>1 DEF RegistersFollow
<1>3. State' = State
  BY DEF State
<1>4. CacheFollows'
  <2>1. \A r \in Floats : Unasked(r) => Unasked(r)'
    BY DEF Unasked
  <2>2. \A r \in Floats : Settles(r, State.reg[r]) => Settling(toDev', toHost', dev', r, State.reg[r])
    BY DEF Settles
  <2>3. QED
    BY <1>2, <1>3, <2>1, <2>2 DEF CacheFollows, Settles
<1>5. StoresFollow'
  <2>1. SUFFICES ASSUME NEW c \in Clients, client[c].pc = "store",
                        NEW r \in DOMAIN client[c].cmd.set \ passed[c]
                 PROVE  /\ Settling(toDev', toHost', dev', r, client[c].cmd.set[r])
                        /\ Leaving(toDev', dev', r, client[c].cmd.set[r])
    BY DEF StoresFollow, Settles, Leaves
  <2>2. r \in Floats
    BY <2>1, CommandType
  <2>3. QED
    BY <1>2, <2>1, <2>2 DEF StoresFollow, Settles, Leaves
<1>6. WritesFollow'
  <2>1. SUFFICES ASSUME NEW c \in Clients, writer = c, onWire,
                        NEW r \in DOMAIN client[c].cmd.set \ Regs(left)
                 PROVE  Leaving(toDev', dev', r, client[c].cmd.set[r])
    BY DEF WritesFollow, Leaves
  <2>2. r \in Floats
    BY <2>1, CommandType
  <2>3. QED
    BY <1>2, <2>1, <2>2 DEF WritesFollow, Leaves
<1>7. QED
  BY <1>4, <1>5, <1>6

\* Only the commands and the holder change: no register is left to nobody.
LEMMA RegistersCalled ==
  ASSUME RegistersFollow, UNCHANGED <<dev, toDev, toHost, cache, connected>>, open' => open,
         open' => \A r \in Floats \ late' : r \notin late /\ (Unasked(r) => Unasked(r)'),
         \A c \in Clients : client'[c].pc = "store" =>
           client[c].pc = "store" /\ client'[c] = client[c] /\ passed'[c] = passed[c],
         \A c \in Clients : writer' = c /\ onWire' =>
           \/ writer = c /\ onWire /\ client'[c] = client[c] /\ left' = left
           \/ DOMAIN client'[c].cmd.set \subseteq Regs(left')
  PROVE  RegistersFollow'
<1>1. SUFFICES ASSUME Answering' PROVE CacheFollows' /\ StoresFollow' /\ WritesFollow'
  BY DEF RegistersFollow
<1>2. Answering /\ open'
  BY <1>1 DEF Answering, HasDump, Dumpless
<1>3. CacheFollows /\ StoresFollow /\ WritesFollow
  BY <1>2 DEF RegistersFollow
<1>4. State' = State
  BY DEF State
<1>5. CacheFollows'
  BY <1>2, <1>3, <1>4 DEF CacheFollows, Settles
<1>6. StoresFollow'
  BY <1>3 DEF StoresFollow, Settles, Leaves
<1>7. WritesFollow'
  BY <1>3 DEF WritesFollow, Leaves
<1>8. QED
  BY <1>5, <1>6, <1>7

\* The holder gives up: what it wrote and asked no dump for, if it was on the wire, is late.
LEMMA RegistersGivenUp ==
  ASSUME TypeOK, WriterHolds, RegistersFollow, writer # NoOne,
         NEW drops \in BOOLEAN, GivesUp(drops), late \subseteq late',
         open' /\ writer \in Clients /\ onWire =>
           DOMAIN client[writer].cmd.set \ (Regs(left) \cup Echoed) \subseteq late'
  PROVE  RegistersFollow'
<1>1. CASE writer = Hub
  BY <1>1 DEF GivesUp, Detach, RegistersFollow, Answering
<1>2. CASE writer # Hub
  <2>1. writer \in Clients
    BY <1>2 DEF TypeOK, LockTyped
  <2>2. /\ UNCHANGED <<dev, toDev, toHost, cache, connected>> /\ (open' => open)
        /\ client' = [client EXCEPT ![writer] = Idle] /\ passed' = [passed EXCEPT ![writer] = {}]
        /\ writer' = NoOne
    BY <1>2 DEF GivesUp, Returns, Unlock, OpenAfter
  <2>3. open' => \A r \in Floats \ late' : r \notin late /\ ~Unasked(r)
    BY <2>1 DEF Unasked
  <2>4. \A c \in Clients : client'[c].pc = "store" =>
          client[c].pc = "store" /\ client'[c] = client[c] /\ passed'[c] = passed[c]
    BY <2>2 DEF Idle, TypeOK, CallsTyped
  <2>5. \A c \in Clients : writer' # c
    BY <2>2, Names
  <2>6. QED
    BY <2>2, <2>3, <2>4, <2>5, RegistersCalled
<1>3. QED
  BY <1>1, <1>2

LEMMA RegistersSent ==
  ASSUME TypeOK, SessionHolds, WriterHolds, RegistersFollow,
         Writes \/ Shaken \/ \E c \in Clients : Return(c)
  PROVE  RegistersFollow'
<1> DEFINE f == Head(left)
<1>1. /\ writer # NoOne /\ onWire /\ open
      /\ toDev' = Append(toDev, f)
      /\ UNCHANGED <<dev, open, toHost, connected, cache>>
      /\ late' = IF f = GetAllFrame THEN {} ELSE late \ ({f.reg} \cap Echoed)
  BY DEF Writes, Shaken, Return, Sends
<1>2. SUFFICES ASSUME Answering' PROVE CacheFollows' /\ StoresFollow' /\ WritesFollow'
  BY DEF RegistersFollow
<1>3. Answering
  BY <1>1, <1>2 DEF Answering, HasDump, Dumpless
<1>4. CacheFollows /\ StoresFollow /\ WritesFollow
  BY <1>3 DEF RegistersFollow
<1>5. State' = State
  BY <1>1 DEF State
<1>6. writer # Hub
  BY <1>1, <1>3 DEF Answering, SessionHolds, WriterHolds
<1>7. PICK c \in Clients : writer = c
  BY <1>1, <1>6 DEF TypeOK, LockTyped
<1> DEFINE set == client[c].cmd.set
<1>8. /\ left \in Seq(DeviceFrames) /\ left # <<>> /\ Series(left) /\ Carries(left, set)
      /\ client[c].pc = "call"
  BY <1>1, <1>7 DEF WriterHolds, Holds, TypeOK, LockTyped
<1>9. /\ f \in DeviceFrames
      /\ f.reg = "all" <=> Len(left) = 1
      /\ f.reg \notin Regs(Tail(left)) /\ Regs(left) = {f.reg} \cup Regs(Tail(left))
      /\ Len(left) \in Nat \ {0} /\ DOMAIN left = 1 .. Len(left) /\ f = left[1]
  BY <1>8, SeriesTail, TailElements
<1>10. f.reg = "all" <=> f = GetAllFrame
  BY <1>9, DeviceFrameKinds DEF Floats, GetAllFrame, SessionFrame
<1>11. f.reg \in Floats => f.reg \in DOMAIN set /\ f.val = set[f.reg]
  BY <1>8, <1>9 DEF Carries
<1>12. \A q \in Clients : DOMAIN client[q].cmd.set \subseteq Floats
  BY CommandType DEF TypeOK
<1>13. \A b : \A r \in Floats :
         /\ f.reg \in {"all"} \cup ({r} \cap Echoed) => Settling(toDev', toHost', dev', r, b)
         /\ f.reg # r /\ Settling(toDev, toHost, dev, r, b) => Settling(toDev', toHost', dev', r, b)
         /\ f.reg # r /\ Leaving(toDev, dev, r, b) => Leaving(toDev', dev', r, b)
         /\ f.reg = r => Leaving(toDev', dev', r, f.val)
  BY <1>1, <1>9, AppendSettling DEF TypeOK, WireTyped
<1>14. "all" \notin Floats
  BY DEF Floats
<1> HIDE DEF f, set
<1>15. CASE f.reg = "all"
  <2>1. Return(c)
    BY <1>6, <1>7, <1>9, <1>15, Names DEF Writes, Shaken, Return
  <2>2. writer' = NoOne
    BY <2>1 DEF Return, Unlock
  <2>3. \A q \in Clients \ {c} : client'[q] = client[q] /\ passed'[q] = passed[q]
    BY <2>1 DEF Return, Returns, TypeOK, CallsTyped
  <2>4. client'[c].pc = "store" => client'[c].cmd.set = set /\ passed'[c] = passed[c]
    BY <1>7, <2>1 DEF Return, Returns, Idle, TypeOK, CallsTyped, set
  <2>5. CacheFollows'
    BY <1>13, <1>15 DEF CacheFollows, Settles
  <2>6. WritesFollow'
    BY <2>2, Names DEF WritesFollow
  <2>7. StoresFollow'
    <3>1. SUFFICES ASSUME NEW q \in Clients, client'[q].pc = "store",
                          NEW r \in DOMAIN client'[q].cmd.set \ passed'[q]
                   PROVE  /\ Settling(toDev', toHost', dev', r, client'[q].cmd.set[r])
                          /\ Leaving(toDev', dev', r, client'[q].cmd.set[r])
      BY DEF StoresFollow, Settles, Leaves
    <3>2. CASE q = c
      <4>1. r \in DOMAIN set /\ client'[q].cmd.set = set
        BY <2>4, <3>1, <3>2
      <4>2. r \in Floats /\ f.reg # r
        BY <1>12, <1>14, <1>15, <4>1 DEF set
      <4>3. Regs(left) = {"all"}
        <5>1. Len(left) = 1
          BY <1>9, <1>15
        <5>2. QED
          BY <1>9, <1>15, <5>1 DEF Regs
      <4>4. Leaving(toDev, dev, r, set[r])
        BY <1>1, <1>4, <1>7, <4>1, <4>2, <4>3, <1>15 DEF WritesFollow, Leaves, set
      <4>5. QED
        BY <1>13, <1>15, <4>1, <4>2, <4>4
    <3>3. CASE q # c
      <4>1. /\ client'[q] = client[q] /\ client[q].pc = "store"
            /\ r \in DOMAIN client[q].cmd.set \ passed[q]
        BY <2>3, <3>1, <3>3
      <4>2. r \in Floats /\ f.reg # r
        BY <1>12, <1>14, <1>15, <4>1
      <4>3. Leaving(toDev, dev, r, client[q].cmd.set[r])
        BY <1>4, <4>1 DEF StoresFollow, Leaves
      <4>4. QED
        BY <1>13, <1>15, <4>1, <4>2, <4>3
    <3>4. QED
      BY <3>2, <3>3
  <2>8. QED
    BY <2>5, <2>6, <2>7
<1>16. CASE f.reg # "all"
  <2>1. Writes
    BY <1>9, <1>16 DEF Shaken, Return
  <2>2. /\ left' = Tail(left) /\ UNCHANGED <<writer, onWire, client>>
        /\ late' = late \ ({f.reg} \cap Echoed)
    BY <1>1, <1>10, <1>16, <2>1 DEF Writes
  <2>3. \A q \in Clients : client[q].pc = "store" =>
          passed[q] \subseteq passed'[q] /\ (f.reg \in DOMAIN client[q].cmd.set => f.reg \in passed'[q])
    BY <2>1 DEF Writes, Overtakes, Overtaken, TypeOK, CallsTyped, f
  <2>4. CacheFollows'
    <3>1. SUFFICES ASSUME NEW r \in Floats \ late'
                   PROVE  Unasked(r)' \/ Settling(toDev', toHost', dev', r, State.reg[r])
      BY <1>5 DEF CacheFollows, Settles
    <3>2. CASE f.reg = r /\ r \in Echoed
      BY <1>13, <3>2
    <3>3. CASE f.reg = r /\ r \notin Echoed
      <4>1. r \in DOMAIN set /\ r \notin Regs(Tail(left))
        BY <1>9, <1>11, <3>3
      <4>2. QED
        BY <1>1, <1>7, <2>2, <3>3, <4>1 DEF Unasked, set
    <3>4. CASE f.reg # r
      <4>1. r \notin late
        BY <2>2, <3>1, <3>4
      <4>2. CASE Unasked(r)
        <5>1. PICK q \in Clients : /\ writer = q /\ onWire
                                   /\ r \in DOMAIN client[q].cmd.set \ (Regs(left) \cup Echoed)
          BY <4>2 DEF Unasked
        <5>2. r \notin Regs(left')
          BY <1>9, <2>2, <5>1
        <5>3. QED
          BY <2>2, <5>1, <5>2 DEF Unasked
      <4>3. CASE Settles(r, State.reg[r])
        BY <1>13, <3>4, <4>3 DEF Settles
      <4>4. QED
        BY <1>4, <4>1, <4>2, <4>3 DEF CacheFollows
    <3>5. QED
      BY <3>2, <3>3, <3>4
  <2>5. StoresFollow'
    <3>1. SUFFICES ASSUME NEW q \in Clients, client[q].pc = "store",
                          NEW r \in DOMAIN client[q].cmd.set \ passed'[q]
                   PROVE  /\ Settling(toDev', toHost', dev', r, client[q].cmd.set[r])
                          /\ Leaving(toDev', dev', r, client[q].cmd.set[r])
      BY <2>2 DEF StoresFollow, Settles, Leaves
    <3>2. r \in Floats /\ r \notin passed[q] /\ f.reg # r
      BY <1>12, <2>3, <3>1
    <3>3. /\ Settling(toDev, toHost, dev, r, client[q].cmd.set[r])
          /\ Leaving(toDev, dev, r, client[q].cmd.set[r])
      BY <1>4, <3>1, <3>2 DEF StoresFollow, Settles, Leaves
    <3>4. QED
      BY <1>13, <3>2, <3>3
  <2>6. WritesFollow'
    <3>1. SUFFICES ASSUME NEW r \in DOMAIN set \ Regs(Tail(left))
                   PROVE  Leaving(toDev', dev', r, set[r])
      BY <1>7, <2>2 DEF WritesFollow, Leaves, set
    <3>2. r \in Floats
      BY <1>12 DEF set
    <3>3. CASE f.reg = r
      BY <1>11, <1>13, <3>2, <3>3
    <3>4. CASE f.reg # r
      <4>1. r \notin Regs(left)
        BY <1>9, <3>4
      <4>2. Leaving(toDev, dev, r, set[r])
        BY <1>1, <1>4, <1>7, <4>1 DEF WritesFollow, Leaves, set
      <4>3. QED
        BY <1>13, <3>2, <3>4, <4>2
    <3>5. QED
      BY <3>3, <3>4
  <2>7. QED
    BY <2>4, <2>5, <2>6
<1>17. QED
  BY <1>15, <1>16

LEMMA RegistersStored ==
  ASSUME TypeOK, WriterHolds, RegistersFollow, NEW c \in Clients, Store(c)
  PROVE  RegistersFollow'
<1> DEFINE set == client[c].cmd.set
<1>1. /\ client[c].pc = "store"
      /\ UNCHANGED <<dev, open, toDev, toHost, connected, writer, onWire, left>>
      /\ late' = (late \ DOMAIN set) \cup passed[c]
      /\ client' = [client EXCEPT ![c] = Idle] /\ passed' = [passed EXCEPT ![c] = {}]
  BY DEF Store, Returns, wire, lock
<1>2. SUFFICES ASSUME Answering' PROVE CacheFollows' /\ StoresFollow' /\ WritesFollow'
  BY DEF RegistersFollow
<1>3. Answering
  BY <1>1, <1>2 DEF Answering, HasDump, Dumpless
<1>4. CacheFollows /\ StoresFollow /\ WritesFollow
  BY <1>3 DEF RegistersFollow
<1>5. \A r \in Floats : State'.reg[r] = IF r \in DOMAIN set THEN set[r] ELSE State.reg[r]
  BY StoreCache
<1>6. \A q \in Clients : writer = q => q # c
  BY <1>1 DEF WriterHolds, Holds
<1>7. \A q \in Clients : q # c => client'[q] = client[q] /\ passed'[q] = passed[q]
  BY <1>1 DEF TypeOK, CallsTyped
<1>8. client'[c].pc = "idle"
  BY <1>1 DEF TypeOK, CallsTyped, Idle
<1> HIDE DEF set
<1>9. CacheFollows'
  <2>1. SUFFICES ASSUME NEW r \in Floats \ late'
                 PROVE  Unasked(r)' \/ Settling(toDev, toHost, dev, r, State'.reg[r])
    BY <1>1 DEF CacheFollows, Settles
  <2>2. CASE r \in DOMAIN set
    <3>1. r \notin passed[c]
      BY <1>1, <2>1
    <3>2. Settling(toDev, toHost, dev, r, set[r])
      BY <1>1, <1>4, <2>2, <3>1 DEF StoresFollow, Settles, set
    <3>3. QED
      BY <1>5, <2>2, <3>2
  <2>3. CASE r \notin DOMAIN set
    <3>1. r \notin late /\ State'.reg[r] = State.reg[r]
      BY <1>1, <1>5, <2>1, <2>3
    <3>2. CASE Unasked(r)
      BY <1>1, <1>6, <1>7, <3>2 DEF Unasked
    <3>3. QED
      BY <1>4, <3>1, <3>2 DEF CacheFollows, Settles
  <2>4. QED
    BY <2>2, <2>3
<1>10. StoresFollow'
  BY <1>1, <1>4, <1>7, <1>8 DEF StoresFollow, Settles, Leaves
<1>11. WritesFollow'
  BY <1>1, <1>4, <1>6, <1>7 DEF WritesFollow, Leaves
<1>12. QED
  BY <1>9, <1>10, <1>11

LEMMA RegistersRead ==
  ASSUME TypeOK, RegistersFollow, Read
  PROVE  RegistersFollow'
<1>1. /\ toHost # <<>> /\ toHost' = Tail(toHost) /\ toHost \in Seq(HostFrames)
      /\ UNCHANGED <<open, dev, toDev, writer, onWire, left, client, passed, late>>
  BY DEF Read, lock, calls, TypeOK, WireTyped
<1>2. HasDump' => HasDump
  BY <1>1, DumplessTail DEF HasDump
<1>3. connected' => connected \/ HasDump
  <2>1. CASE Head(toHost).reg = "all"
    BY <1>1, <2>1, TailElements DEF HasDump, Dumpless
  <2>2. CASE Head(toHost).reg # "all"
    BY <2>2 DEF Read, Applies
  <2>3. QED
    BY <2>1, <2>2
<1>4. \A r \in Floats : State'.reg[r] = After(Head(toHost), r, State.reg[r])
  BY ReadCache DEF Fields, Field
<1>5. SUFFICES ASSUME Answering' PROVE CacheFollows' /\ StoresFollow' /\ WritesFollow'
  BY DEF RegistersFollow
<1>6. Answering
  BY <1>1, <1>2, <1>3, <1>5 DEF Answering
<1>7. CacheFollows /\ StoresFollow /\ WritesFollow
  BY <1>6 DEF RegistersFollow
<1>8. CacheFollows'
  <2>1. SUFFICES ASSUME NEW r \in Floats \ late
                 PROVE  Unasked(r)' \/ Settling(toDev, Tail(toHost), dev, r, State'.reg[r])
    BY <1>1 DEF CacheFollows, Settles
  <2>2. CASE Unasked(r)
    BY <1>1, <2>2 DEF Unasked
  <2>3. CASE Settling(toDev, toHost, dev, r, State.reg[r])
    <3>1. Settling(toDev, Tail(toHost), dev, r, After(Head(toHost), r, State.reg[r]))
      BY <1>1, <2>3, TailSettling
    <3>2. QED
      BY <1>4, <3>1
  <2>4. QED
    BY <1>7, <2>2, <2>3 DEF CacheFollows, Settles
<1>9. StoresFollow'
  <2>1. SUFFICES ASSUME NEW c \in Clients, client[c].pc = "store",
                        NEW r \in DOMAIN client[c].cmd.set \ passed[c]
                 PROVE  /\ Settling(toDev, Tail(toHost), dev, r, client[c].cmd.set[r])
                        /\ Leaving(toDev, dev, r, client[c].cmd.set[r])
    BY <1>1 DEF StoresFollow, Settles, Leaves
  <2>2. /\ Settling(toDev, toHost, dev, r, client[c].cmd.set[r])
        /\ Leaving(toDev, dev, r, client[c].cmd.set[r])
    BY <1>7, <2>1 DEF StoresFollow, Settles, Leaves
  <2>3. QED
    BY <1>1, <2>2, TailSettling
<1>10. WritesFollow'
  BY <1>1, <1>7 DEF WritesFollow, Leaves
<1>11. QED
  BY <1>8, <1>9, <1>10

LEMMA RegistersServed ==
  ASSUME TypeOK, SessionHolds, SessionHolds', WriterHolds, RegistersFollow, Serves
  PROVE  RegistersFollow'
<1> DEFINE f == Head(toDev)
           h == Handle(dev, f)
<1>1. /\ toDev # <<>> /\ Pushes(h) /\ toDev' = Tail(toDev)
      /\ UNCHANGED <<open, cache, pc, connected, writer, onWire, left, client, passed, late>>
  BY DEF Serves, hub, lock, calls
<1>2. f \in DeviceFrames /\ dev \in Devices /\ toDev \in Seq(DeviceFrames)
  BY <1>1, ServedFrame DEF TypeOK, WireTyped
<1>3. /\ h.out \in Seq(HostFrames)
      /\ ~dev.session /\ f.op # "session" => h.out = <<>>
      /\ f.op # "read" => Dumpless(h.out)
  BY <1>2, HandleTypes
<1>4. /\ open => toHost' = toHost \o h.out
      /\ dev' = h.dev
      /\ HasDump' => HasDump \/ (open /\ ~Dumpless(h.out))
  BY <1>1, <1>3, PushesWire DEF TypeOK
<1>5. toHost \in Seq(HostFrames) /\ CallsTyped
  BY DEF TypeOK, WireTyped
<1>6. CASE Answering
  <2>1. open /\ dev.session
    BY <1>6 DEF Answering, SessionHolds
  <2>2. \A b : \A r \in Floats :
          /\ Settling(toDev, toHost, dev, r, b) => Settling(Tail(toDev), toHost \o h.out, h.dev, r, b)
          /\ Leaving(toDev, dev, r, b) => Leaving(Tail(toDev), h.dev, r, b)
    BY <1>1, <1>2, <1>5, <2>1, HandleSettling
  <2> HIDE DEF h
  <2>3. QED
    BY <1>1, <1>4, <1>5, <1>6, <2>1, <2>2, RegistersPushed
<1>7. CASE ~Answering
  <2>1. SUFFICES ASSUME Answering' PROVE CacheFollows' /\ StoresFollow' /\ WritesFollow'
    BY DEF RegistersFollow
  <2>2. open /\ ~connected /\ ~HasDump /\ HasDump' /\ ~Dumpless(h.out)
    BY <1>1, <1>4, <1>7, <2>1 DEF Answering
  <2>3. f.op = "read"
    BY <1>3, <2>2
  <2>4. f.reg = "all" /\ f.op # "session"
    BY <1>2, <2>3, DeviceFrameKinds DEF SessionFrame, GetAllFrame
  <2>5. dev.session
    BY <1>3, <2>2, <2>4 DEF Dumpless
  <2>6. toDev' = <<>>
    BY <1>1, <2>2 DEF SessionHolds
  <2>7. ASSUME NEW r \in Floats, NEW b PROVE Settling(toDev', toHost', dev', r, b)
    <3>1. r \in Fields /\ Field(h.dev, r) = h.dev.reg[r]
      BY DEF Fields, Field
    <3>2. f.reg = "all" \/ (f.reg = r /\ r \in Echoed) => Ends(h.out, r, Field(h.dev, r))
      BY <1>2, <2>5, <3>1, HandleSays
    <3>3. Ends(h.out, r, h.dev.reg[r])
      BY <2>4, <3>1, <3>2
    <3>4. Ends(toHost \o h.out, r, h.dev.reg[r])
      BY <1>3, <1>5, <3>3, EndsConcat
    <3>5. Spares(<<>>, r)
      BY DEF Spares
    <3>6. QED
      BY <1>4, <2>2, <2>6, <3>4, <3>5 DEF Settling, Heard
  <2>8. CacheFollows'
    BY <2>7 DEF CacheFollows, Settles
  <2>9. StoresFollow'
    BY <1>1, <2>2 DEF StoresFollow, WriterHolds, Overtook
  <2>10. WritesFollow'
    BY <1>1, <2>2 DEF WritesFollow, WriterHolds, Holds
  <2>11. QED
    BY <2>8, <2>9, <2>10
<1>8. QED
  BY <1>6, <1>7

LEMMA RegistersReported ==
  ASSUME TypeOK, SessionHolds, RegistersFollow,
         UNCHANGED <<open, toDev, cache, connected, writer, onWire, left, client, passed, late>>,
         NEW r, r.out \in Seq(HostFrames), Dumpless(r.out), r.dev.reg = dev.reg,
         dev.session => Says(r.out, dev, r.dev), Pushes(r)
  PROVE  RegistersFollow'
<1>1. /\ open => toHost' = toHost \o r.out
      /\ dev' = r.dev
      /\ HasDump' => HasDump
  BY PushesWire DEF TypeOK
<1>2. CASE Answering
  <2>1. open /\ dev.session
    BY <1>2 DEF Answering, SessionHolds
  <2>2. \A b : \A x \in Floats :
          /\ Settling(toDev, toHost, dev, x, b) => Settling(toDev', toHost', dev', x, b)
          /\ Leaving(toDev, dev, x, b) => Leaving(toDev', dev', x, b)
    BY <1>1, <2>1, PushSettling DEF TypeOK, WireTyped
  <2>3. QED
    BY <1>2, <2>2, RegistersPushed DEF TypeOK
<1>3. CASE ~Answering
  BY <1>1, <1>3 DEF Answering, RegistersFollow
<1>4. QED
  BY <1>2, <1>3

LEMMA RegistersLocked ==
  ASSUME TypeOK, WriterHolds, RegistersFollow, NEW c \in Clients,
         Lock(c) \/ \E cmd \in Commands[c] : Call(c, cmd)
  PROVE  RegistersFollow'
<1>1. UNCHANGED <<dev, open, toDev, toHost, cache, connected, late>>
  BY DEF Lock, Call, wire, hub
<1>2. CASE \E cmd \in Commands[c] : Call(c, cmd)
  <2>1. /\ client[c].pc = "idle" /\ UNCHANGED <<writer, onWire, left, passed>>
        /\ client'[c].pc = "call" /\ \A q \in Clients \ {c} : client'[q] = client[q]
    BY <1>2 DEF Call, lock, TypeOK, CallsTyped
  <2>2. writer # c
    BY <2>1 DEF WriterHolds, Holds
  <2>3. \A q \in Clients : writer = q => client'[q] = client[q]
    BY <2>1, <2>2
  <2>4. \A r \in Floats : Unasked(r) => Unasked(r)'
    BY <2>1, <2>3 DEF Unasked
  <2>5. \A q \in Clients : client'[q].pc = "store" =>
          client[q].pc = "store" /\ client'[q] = client[q] /\ passed'[q] = passed[q]
    BY <2>1
  <2>6. QED
    BY <1>1, <2>1, <2>3, <2>4, <2>5, RegistersCalled
<1>3. CASE Lock(c)
  <2>1. \A r \in Floats : ~Unasked(r)
    BY <1>3, Names DEF Lock, Unasked
  <2>2. CASE conn /\ connected
    <3>1. writer' = c /\ left' = Frames(client[c].cmd) /\ UNCHANGED <<client, passed>>
      BY <1>3, <2>2 DEF Lock
    <3>2. DOMAIN client[c].cmd.set \subseteq Regs(Frames(client[c].cmd))
      <4>1. client[c].cmd \in [set : Settings, out : Outputs]
        BY DEF TypeOK, CallsTyped
      <4>2. QED
        BY <4>1, FramesSeries
    <3>3. QED
      BY <1>1, <2>1, <3>1, <3>2, RegistersCalled
  <2>3. CASE ~(conn /\ connected)
    <3>1. /\ UNCHANGED <<writer, onWire, left>> /\ writer = NoOne
          /\ client' = [client EXCEPT ![c] = Idle] /\ passed' = [passed EXCEPT ![c] = {}]
      BY <1>3, <2>3 DEF Lock, Returns, lock
    <3>2. \A q \in Clients : client'[q].pc = "store" =>
            client[q].pc = "store" /\ client'[q] = client[q] /\ passed'[q] = passed[q]
      BY <3>1 DEF Idle, TypeOK, CallsTyped
    <3>3. \A q \in Clients : writer' # q
      BY <3>1, Names
    <3>4. QED
      BY <1>1, <2>1, <3>2, <3>3, RegistersCalled
  <2>4. QED
    BY <2>2, <2>3
<1>4. QED
  BY <1>2, <1>3

LEMMA RegistersFollowStep ==
  ASSUME TypeOK, SessionHolds, SessionHolds', WriterHolds, RegistersFollow, [Next]_vars
  PROVE  RegistersFollow'
<1>1. CASE Dial
  <2>1. ~connected /\ connected' = connected /\ toHost' = <<>>
    BY <1>1 DEF Dial, SessionHolds
  <2>2. ~HasDump'
    BY <2>1 DEF HasDump, Dumpless
  <2>3. QED
    BY <2>1, <2>2 DEF RegistersFollow, Answering
<1>2. CASE ShakeHands
  <2>1. /\ writer = NoOne /\ writer' = Hub
        /\ UNCHANGED <<dev, open, toDev, toHost, cache, connected, client, passed, late>>
    BY <1>2 DEF ShakeHands, wire, hub, calls
  <2>2. \A r \in Floats : ~Unasked(r)
    BY <2>1, Names DEF Unasked
  <2>3. QED
    BY <2>1, <2>2, Names, RegistersCalled
<1>3. CASE ReadFails
  BY <1>3 DEF ReadFails, Detach, RegistersFollow, Answering
<1>4. CASE WriteFails
  <2>1. writer # NoOne /\ GivesUp(FALSE) /\ late' = late /\ ~(onWire /\ open)
    BY <1>4 DEF WriteFails
  <2>2. open' => open
    BY <2>1 DEF GivesUp, Detach, OpenAfter
  <2>3. QED
    BY <2>1, <2>2, RegistersGivenUp
<1>5. CASE WriteStalls
  <2>1. GivesUp(TRUE)
    BY <1>5 DEF WriteStalls
  <2>2. ~open'
    BY <2>1 DEF GivesUp, Detach, OpenAfter
  <2>3. QED
    BY <2>2 DEF RegistersFollow, Answering
<1>6. ASSUME NEW inWrite \in BOOLEAN, Cancel(inWrite) PROVE RegistersFollow'
  <2>1. /\ writer # NoOne /\ GivesUp(inWrite /\ onWire) /\ (inWrite /\ onWire) \in BOOLEAN
        /\ late' = late \cup (DOMAIN client[writer].cmd.set \ (Regs(left) \cup Echoed))
    BY <1>6, Names DEF Cancel, Pending, Regs
  <2>2. QED
    BY <2>1, RegistersGivenUp
<1>7. CASE Reports
  <2> DEFINE h == Does(dev, <<Measured>>)
  <2>1. /\ Pushes(h)
        /\ UNCHANGED <<open, toDev, cache, connected, writer, onWire, left, client, passed, late>>
    BY <1>7 DEF Reports, hub, lock, calls
  <2>2. h.dev = dev /\ h.out \in Seq(HostFrames) /\ Dumpless(h.out) /\ Says(h.out, dev, h.dev)
    BY MeasuredSays DEF TypeOK, WireTyped
  <2> HIDE DEF h
  <2>3. QED
    BY <2>1, <2>2, RegistersReported
<1>8. CASE Overheats
  <2> DEFINE h == Condition(dev, "otp")
  <2>1. /\ Pushes(h)
        /\ UNCHANGED <<open, toDev, cache, connected, writer, onWire, left, client, passed, late>>
    BY <1>8 DEF Overheats, hub, lock, calls
  <2>2. /\ h.out \in Seq(HostFrames) /\ Dumpless(h.out) /\ h.dev.reg = dev.reg
        /\ dev.session => Says(h.out, dev, h.dev)
    BY ConditionSays DEF TypeOK, WireTyped
  <2> HIDE DEF h
  <2>3. QED
    BY <2>1, <2>2, RegistersReported
<1>9. CASE Ignores
  <2>1. /\ toDev # <<>> /\ ~dumped /\ UNCHANGED <<open, toHost, connected>>
    BY <1>9 DEF Ignores, hub
  <2>2. ~Answering
    BY <2>1 DEF Answering, SessionHolds
  <2>3. ~Answering'
    BY <2>1, <2>2 DEF Answering, HasDump, Dumpless
  <2>4. QED
    BY <2>3 DEF RegistersFollow
<1>10. CASE /\ UNCHANGED <<dev, toDev, toHost, cache, connected, writer, onWire, left, client, passed, late>>
            /\ open' => open
  <2>1. \A r \in Floats : Unasked(r) => Unasked(r)'
    BY <1>10 DEF Unasked
  <2>2. QED
    BY <1>10, <2>1, RegistersCalled
<1>11. CASE AnswerTimeout \/ AnswerLate \/ Cut \/ Stall \/ Take \/ DialFails \/ UNCHANGED vars
  BY <1>10, <1>11 DEF AnswerTimeout, AnswerLate, Unanswered, Cut, Stall, Take, DialFails,
                      vars, wire, hub, lock, calls
<1>12. QED
  BY <1>1, <1>2, <1>3, <1>4, <1>5, <1>6, <1>7, <1>8, <1>9, <1>11,
     RegistersSent, RegistersStored, RegistersRead, RegistersServed, RegistersLocked
     DEF Next, Session, Write, Command, Faulty

------------------------------------------------------------------------------
(***************************************************************************)
(* The subscriber.                                                         *)
(***************************************************************************)
LEMMA AgreeConcat ==
  ASSUME NEW S, NEW s \in Seq(S), NEW t \in Seq(S), NEW x, NEW v, Agree(s, x, v), Agree(t, x, v)
  PROVE  /\ Agree(s \o t, x, v)
         /\ Telling(x, t) # {} => Telling(x, s \o t) # {}
<1>1. /\ Len(s) \in Nat /\ Len(t) \in Nat /\ DOMAIN t = 1 .. Len(t) /\ DOMAIN s = 1 .. Len(s)
      /\ s \o t \in Seq(S) /\ DOMAIN (s \o t) = 1 .. Len(s) + Len(t)
  BY LenProperties, ConcatProperties
<1>2. \A j \in 1 .. Len(s) + Len(t) : (s \o t)[j] = IF j <= Len(s) THEN s[j] ELSE t[j - Len(s)]
  BY <1>1, ConcatProperties
<1>3. ASSUME NEW i \in DOMAIN (s \o t), x \in DOMAIN (s \o t)[i] PROVE (s \o t)[i][x] = v
  <2>1. CASE i <= Len(s)
    BY <1>1, <1>2, <1>3, <2>1 DEF Agree
  <2>2. CASE i > Len(s)
    <3>1. i - Len(s) \in DOMAIN t /\ (s \o t)[i] = t[i - Len(s)]
      BY <1>1, <1>2, <2>2
    <3>2. QED
      BY <1>3, <3>1 DEF Agree
  <2>3. QED
    BY <1>1, <2>1, <2>2
<1>4. ASSUME NEW i \in Telling(x, t) PROVE Telling(x, s \o t) # {}
  <2>1. Len(s) + i \in DOMAIN (s \o t) /\ (s \o t)[Len(s) + i] = t[i]
    BY <1>1, <1>2 DEF Telling
  <2>2. QED
    BY <2>1 DEF Telling
<1>5. QED
  BY <1>3, <1>4 DEF Agree

LEMMA AgreeShort ==
  ASSUME NEW x, NEW v
  PROVE  /\ Agree(<<>>, x, v) /\ Telling(x, <<>>) = {}
         /\ \A u : /\ Agree(<<u>>, x, v) <=> (x \in DOMAIN u => u[x] = v)
                   /\ Telling(x, <<u>>) = {} <=> x \notin DOMAIN u
<1>1. DOMAIN <<>> = {}
  OBVIOUS
<1>2. ASSUME NEW u
      PROVE  /\ Agree(<<u>>, x, v) <=> (x \in DOMAIN u => u[x] = v)
             /\ Telling(x, <<u>>) = {} <=> x \notin DOMAIN u
  <2>1. DOMAIN <<u>> = {1} /\ <<u>>[1] = u
    OBVIOUS
  <2>2. QED
    BY <2>1 DEF Agree, Telling
<1>3. QED
  BY <1>1, <1>2 DEF Agree, Telling

\* What a broadcast leaves the subscriber with.
LEMMA BroadcastShows ==
  ASSUME TypeOK, NEW updates \in Seq(Updates), Broadcast(updates), NEW x \in Shows
  PROVE  /\ Telling(x, updates) = {} => view'[x] = view[x] /\ (x \in missed' <=> x \in missed)
         /\ \A v : Telling(x, updates) # {} /\ Agree(updates, x, v) => view'[x] = v \/ x \in missed'
<1>1. DOMAIN view = Shows /\ room \in Nat
  BY DEF TypeOK, SubTyped, Shows
<1>2. QED
  BY <1>1, BroadcastTells

LEMMA DumpAgrees ==
  ASSUME TypeOK, NEW d \in Caches
  PROVE  /\ Agree(DumpUpdates(d), "link", TRUE) /\ Telling("link", DumpUpdates(d)) # {}
         /\ Agree(DumpUpdates(d), "on", d.on) /\ Telling("on", DumpUpdates(d)) # {}
         /\ Agree(DumpUpdates(d), "prot", d.prot) /\ Telling("prot", DumpUpdates(d)) # {}
<1>1. PICK A \in Seq(Updates), B \in Seq(Updates), C \in Seq(Updates), D \in Seq(Updates) :
         /\ A = (IF connected THEN <<>> ELSE << [link |-> TRUE] >>)
         /\ B = OutputChange(d.on) /\ C = TripEvent(d.prot)
         /\ D = << [link |-> TRUE, on |-> d.on, prot |-> d.prot] >>
  BY UpdateTypes, EmptySeq DEF Caches, Prots
<1>2. DumpUpdates(d) = ((A \o B) \o C) \o D
  BY <1>1 DEF DumpUpdates
<1>3. A \o B \in Seq(Updates) /\ (A \o B) \o C \in Seq(Updates)
  BY ConcatProperties
<1>4. ASSUME NEW x, NEW v, Agree(A, x, v), Agree(B, x, v), Agree(C, x, v), Agree(D, x, v),
             Telling(x, D) # {}
      PROVE  Agree(DumpUpdates(d), x, v) /\ Telling(x, DumpUpdates(d)) # {}
  <2>1. Agree(A \o B, x, v)
    BY <1>4, AgreeConcat
  <2>2. Agree((A \o B) \o C, x, v)
    BY <1>3, <1>4, <2>1, AgreeConcat
  <2>3. QED
    BY <1>2, <1>3, <1>4, <2>2, AgreeConcat
<1>5. \A x, v : Agree(A, x, v) <=> (x = "link" /\ ~connected => v = TRUE)
  <2>1. DOMAIN [link |-> TRUE] = {"link"} /\ [link |-> TRUE]["link"] = TRUE
    OBVIOUS
  <2>2. QED
    BY <1>1, <2>1, AgreeShort
<1>6. Agree(B, "link", TRUE) /\ Agree(B, "on", d.on) /\ Agree(B, "prot", d.prot)
  <2>1. DOMAIN [on |-> d.on] = {"on"} /\ [on |-> d.on]["on"] = d.on
    OBVIOUS
  <2>2. QED
    BY <1>1, <2>1, AgreeShort DEF OutputChange
<1>7. Agree(C, "link", TRUE) /\ Agree(C, "on", d.on) /\ Agree(C, "prot", d.prot)
  <2>1. DOMAIN [prot |-> d.prot] = {"prot"} /\ [prot |-> d.prot]["prot"] = d.prot
    OBVIOUS
  <2>2. QED
    BY <1>1, <2>1, AgreeShort DEF TripEvent
<1>8. /\ Agree(D, "link", TRUE) /\ Telling("link", D) # {}
      /\ Agree(D, "on", d.on) /\ Telling("on", D) # {}
      /\ Agree(D, "prot", d.prot) /\ Telling("prot", D) # {}
  <2> DEFINE u == [link |-> TRUE, on |-> d.on, prot |-> d.prot]
  <2>1. /\ DOMAIN u = {"link", "on", "prot"}
        /\ u["link"] = TRUE /\ u["on"] = d.on /\ u["prot"] = d.prot
    OBVIOUS
  <2>2. D = <<u>>
    BY <1>1
  <2> HIDE DEF u
  <2>3. QED
    BY <2>1, <2>2, AgreeShort
<1>9. QED
  BY <1>4, <1>5, <1>6, <1>7, <1>8

\* An update told of x: the subscriber has what it says, or the loss is noted.
Showing(x, v) == view[x] = v \/ x \in missed

LEMMA ShowingTold ==
  ASSUME TypeOK, NEW updates \in Seq(Updates), Broadcast(updates), NEW x \in Shows, NEW v,
         Agree(updates, x, v), Telling(x, updates) # {}
  PROVE  Showing(x, v)'
BY BroadcastShows DEF Showing

LEMMA ShowingKept ==
  ASSUME TypeOK, NEW updates \in Seq(Updates), Broadcast(updates), NEW x \in Shows, NEW v,
         Telling(x, updates) = {}, Showing(x, v)
  PROVE  Showing(x, v)'
BY BroadcastShows DEF Showing

LEMMA SubscriberKept ==
  ASSUME SubscriberAgrees, UNCHANGED <<view, missed, connected>>,
         State'.on = State.on, State'.prot = State.prot
  PROVE  SubscriberAgrees'
BY DEF SubscriberAgrees

LEMMA SubscriberLoss ==
  ASSUME TypeOK, SubscriberAgrees, Detach
  PROVE  SubscriberAgrees'
<1>1. Broadcast(Loss) /\ connected' = FALSE /\ cache' = cache /\ State' = State
  BY DEF Detach, State
<1>2. Loss \in Seq(Updates)
  BY UpdateTypes
<1>3. /\ Showing("link", connected) /\ Showing("on", State.on)
      /\ State.prot = "ok" \/ Showing("prot", State.prot)
  BY DEF SubscriberAgrees, Showing
<1>4. DOMAIN [link |-> FALSE] = {"link"} /\ [link |-> FALSE]["link"] = FALSE
  OBVIOUS
<1>5. \A x \in {"on", "prot"} : Telling(x, Loss) = {}
  BY <1>4, AgreeShort DEF Loss
<1>6. Showing("link", FALSE)'
  <2>1. CASE connected
    <3>1. Agree(Loss, "link", FALSE) /\ Telling("link", Loss) # {}
      BY <1>4, <2>1, AgreeShort DEF Loss
    <3>2. QED
      BY <1>1, <1>2, <3>1, ShowingTold DEF Shows
  <2>2. CASE ~connected
    <3>1. Telling("link", Loss) = {} /\ connected = FALSE
      BY <2>2, AgreeShort DEF Loss, TypeOK, HubTyped
    <3>2. Showing("link", FALSE)
      BY <1>3, <3>1
    <3>3. QED
      BY <1>1, <1>2, <3>1, <3>2, ShowingKept DEF Shows
  <2>3. QED
    BY <2>1, <2>2
<1>7. \A v : /\ Showing("on", v) => Showing("on", v)'
             /\ Showing("prot", v) => Showing("prot", v)'
  BY <1>1, <1>2, <1>5, ShowingKept DEF Shows
<1>8. PICK on, prot : on = State.on /\ prot = State.prot
  OBVIOUS
<1>9. Showing("on", on)' /\ (prot = "ok" \/ Showing("prot", prot)')
  BY <1>3, <1>7, <1>8
<1>10. State'.on = on /\ State'.prot = prot
  BY <1>1, <1>8
<1>11. QED
  BY <1>1, <1>6, <1>9, <1>10 DEF SubscriberAgrees, Showing

\* A frame that is applied: the link is told by a dump, and the output and the trip by
\* whatever changes them.
LEMMA SubscriberRead ==
  ASSUME TypeOK, NothingYet, SubscriberAgrees, Read
  PROVE  SubscriberAgrees'
<1> DEFINE f == Head(toHost)
<1>1. f \in HostFrames /\ toHost # <<>>
  BY ReadFrame DEF Read
<1>2. /\ State \in Caches
      /\ \A x \in Fields : Field(State', x) = After(f, x, Field(State, x))
  BY StateType, ReadCache
<1>3. State'.on = After(f, "on", State.on) /\ State'.prot = After(f, "prot", State.prot)
  BY <1>2 DEF Fields, Floats, Field
<1>4. /\ Showing("link", connected) /\ Showing("on", State.on)
      /\ State.prot = "ok" \/ Showing("prot", State.prot)
  BY DEF SubscriberAgrees, Showing
<1>5. f.reg = "all" => AppliesDump(f.dump)
  BY DEF Read
<1>6. f.reg # "all" => Applies(f) /\ connected' = connected
  BY DEF Read, Applies
<1>7. cache = NoState => f.reg = "measurement"
  BY <1>1 DEF NothingYet, Measured
<1>8. ASSUME NEW l, NEW on, NEW prot, connected' = l, State'.on = on, State'.prot = prot,
             Showing("link", l)', Showing("on", on)',
             prot = "ok" \/ Showing("prot", prot)'
      PROVE  SubscriberAgrees'
  BY <1>8 DEF SubscriberAgrees, Showing
<1> HIDE DEF f
<1>9. CASE f.reg = "all"
  <2>1. f.dump \in Caches
    BY <1>1, <1>9, HostFrameKinds DEF Measured, Floats
  <2>2. Broadcast(DumpUpdates(f.dump)) /\ connected' = TRUE
    BY <1>5, <1>9 DEF AppliesDump, DumpUpdates
  <2>3. State'.on = f.dump.on /\ State'.prot = f.dump.prot
    BY <1>3, <1>9 DEF After, Tells, Told, Field, Floats
  <2>4. PICK d \in Caches : d = f.dump
    BY <2>1
  <2>5. DumpUpdates(f.dump) \in Seq(Updates) /\ DumpUpdates(d) = DumpUpdates(f.dump)
    BY <2>1, <2>4, DumpUpdateTypes
  <2>6. Showing("link", TRUE)' /\ Showing("on", d.on)' /\ Showing("prot", d.prot)'
    BY <2>2, <2>5, DumpAgrees, ShowingTold DEF Shows
  <2>7. QED
    BY <1>8, <2>2, <2>3, <2>4, <2>6
<1>10. PICK l, on, prot : l = connected /\ on = State.on /\ prot = State.prot
  OBVIOUS
<1>11. CASE f.reg = "measurement"
  <2>1. Broadcast(<<Telemetry>>) /\ connected' = connected
    BY <1>6, <1>11 DEF Applies
  <2>2. State'.on = State.on /\ State'.prot = State.prot
    BY <1>3, <1>11 DEF After, Tells
  <2>3. <<Telemetry>> \in Seq(Updates)
    BY UpdateTypes
  <2>4. DOMAIN Telemetry = {"on", "prot"} /\ Telemetry["on"] = on /\ Telemetry["prot"] = prot
    BY <1>10 DEF Telemetry
  <2>5. /\ Telling("link", <<Telemetry>>) = {}
        /\ Agree(<<Telemetry>>, "on", on) /\ Telling("on", <<Telemetry>>) # {}
        /\ Agree(<<Telemetry>>, "prot", prot) /\ Telling("prot", <<Telemetry>>) # {}
    BY <2>4, AgreeShort
  <2>6. Showing("link", l)' /\ Showing("on", on)' /\ Showing("prot", prot)'
    <3>1. Showing("link", l)
      BY <1>4, <1>10
    <3>2. QED
      BY <2>1, <2>3, <2>5, <3>1, ShowingTold, ShowingKept DEF Shows
  <2>7. QED
    BY <1>8, <1>10, <2>1, <2>2, <2>6
<1>12. CASE f.reg = "output"
  <2>1. Applies(f) /\ connected' = connected /\ cache # NoState
    BY <1>6, <1>7, <1>12
  <2>2. PICK b \in BOOLEAN : b = (f.val = 1)
    OBVIOUS
  <2>3. Broadcast(OutputChange(b)) /\ State'.prot = State.prot
    BY <1>3, <1>12, <2>1, <2>2 DEF Applies, After, Tells
  <2>4. State'.on = b
    BY <1>3, <1>12, <2>2 DEF After, Tells, Told
  <2>5. OutputChange(b) \in Seq(Updates)
    BY UpdateTypes
  <2>6. DOMAIN [on |-> b] = {"on"} /\ [on |-> b]["on"] = b
    OBVIOUS
  <2>7. Telling("link", OutputChange(b)) = {} /\ Telling("prot", OutputChange(b)) = {}
    BY <2>6, AgreeShort DEF OutputChange
  <2>8. Showing("link", l)' /\ (prot = "ok" \/ Showing("prot", prot)')
    <3>1. Showing("link", l) /\ (prot = "ok" \/ Showing("prot", prot))
      BY <1>4, <1>10
    <3>2. QED
      BY <2>3, <2>5, <2>7, <3>1, ShowingKept DEF Shows
  <2>9. Showing("on", b)'
    <3>1. CASE on = b
      <4>1. Telling("on", OutputChange(b)) = {} /\ Showing("on", b)
        BY <1>4, <1>10, <3>1, AgreeShort DEF OutputChange
      <4>2. QED
        BY <2>3, <2>5, <4>1, ShowingKept DEF Shows
    <3>2. CASE on # b
      <4>1. OutputChange(b) = <<[on |-> b]>>
        BY <1>10, <2>1, <3>2 DEF OutputChange
      <4>2. Agree(OutputChange(b), "on", b) /\ Telling("on", OutputChange(b)) # {}
        <5>1. PICK u : u = [on |-> b] /\ DOMAIN u = {"on"} /\ u["on"] = b
          BY <2>6
        <5>2. Agree(<<u>>, "on", b) /\ Telling("on", <<u>>) # {}
          BY <5>1, AgreeShort
        <5>3. QED
          BY <4>1, <5>1, <5>2
      <4>3. QED
        BY <2>3, <2>5, <4>2, ShowingTold DEF Shows
    <3>3. QED
      BY <3>1, <3>2
  <2>10. QED
    BY <1>8, <1>10, <2>1, <2>3, <2>4, <2>8, <2>9
<1>13. CASE f.reg = "protection"
  <2>1. Applies(f) /\ connected' = connected /\ cache # NoState
    BY <1>6, <1>7, <1>13
  <2>2. PICK p \in Prots : p = f.val
    BY <1>1, <1>13, HostFrameKinds DEF Measured, Floats, Prots
  <2>3. Broadcast(TripEvent(p)) /\ State'.on = State.on
    BY <1>3, <1>13, <2>1, <2>2 DEF Applies, After, Tells
  <2>4. State'.prot = p
    BY <1>3, <1>13, <2>2 DEF After, Tells, Told
  <2>5. TripEvent(p) \in Seq(Updates)
    BY UpdateTypes
  <2>6. DOMAIN [prot |-> p] = {"prot"} /\ [prot |-> p]["prot"] = p
    OBVIOUS
  <2>7. Telling("link", TripEvent(p)) = {} /\ Telling("on", TripEvent(p)) = {}
    BY <2>6, AgreeShort DEF TripEvent
  <2>8. Showing("link", l)' /\ Showing("on", on)'
    <3>1. Showing("link", l) /\ Showing("on", on)
      BY <1>4, <1>10
    <3>2. QED
      BY <2>3, <2>5, <2>7, <3>1, ShowingKept DEF Shows
  <2>9. p = "ok" \/ Showing("prot", p)'
    <3>1. CASE prot = p /\ p # "ok"
      <4>1. Telling("prot", TripEvent(p)) = {} /\ Showing("prot", p)
        BY <1>4, <1>10, <3>1, AgreeShort DEF TripEvent
      <4>2. QED
        BY <2>3, <2>5, <4>1, ShowingKept DEF Shows
    <3>2. CASE prot # p /\ p # "ok"
      <4>1. TripEvent(p) = <<[prot |-> p]>>
        BY <1>10, <2>1, <3>2 DEF TripEvent
      <4>2. Agree(TripEvent(p), "prot", p) /\ Telling("prot", TripEvent(p)) # {}
        BY <2>6, <4>1, AgreeShort, ZenonT(60)
      <4>3. QED
        BY <2>3, <2>5, <4>2, ShowingTold DEF Shows
    <3>3. QED
      BY <3>1, <3>2
  <2>10. QED
    BY <1>8, <1>10, <2>1, <2>3, <2>4, <2>8, <2>9
<1>14. CASE f.reg \in Floats
  <2>1. /\ UNCHANGED <<view, missed, connected>>
        /\ State'.on = State.on /\ State'.prot = State.prot
    BY <1>3, <1>6, <1>14 DEF Applies, After, Tells, Floats, sub
  <2>2. QED
    BY <2>1, SubscriberKept
<1>15. QED
  BY <1>1, <1>9, <1>11, <1>12, <1>13, <1>14, HostFrameKinds DEF Measured

LEMMA SubscriberStep ==
  ASSUME TypeOK, WriterHolds, NothingYet, SubscriberAgrees, [Next]_vars
  PROVE  SubscriberAgrees'
<1>1. CASE UNCHANGED <<view, missed, connected, cache>>
  <2>1. State' = State
    BY <1>1 DEF State
  <2>2. QED
    BY <1>1, <2>1, SubscriberKept
<1>2. CASE ReadFails
  BY <1>2, SubscriberLoss DEF ReadFails
<1>3. ASSUME NEW drops \in BOOLEAN, GivesUp(drops) PROVE SubscriberAgrees'
  <2>1. CASE writer = Hub
    BY <1>3, <2>1, SubscriberLoss DEF GivesUp
  <2>2. CASE writer # Hub
    BY <1>1, <1>3, <2>2 DEF GivesUp, sub
  <2>3. QED
    BY <2>1, <2>2
<1>4. CASE WriteFails \/ WriteStalls \/ \E inWrite \in BOOLEAN : Cancel(inWrite)
  BY <1>3, <1>4 DEF WriteFails, WriteStalls, Cancel, TypeOK, LockTyped
<1>5. ASSUME NEW c \in Clients, Store(c) PROVE SubscriberAgrees'
  <2>1. UNCHANGED <<view, missed, connected>>
    BY <1>5 DEF Store, sub
  <2>2. QED
    BY <1>5, <2>1, StoreCache, SubscriberKept
<1>6. CASE Writes \/ Shaken \/ \E c \in Clients : Return(c)
  BY <1>1, <1>6 DEF Writes, Shaken, Return, Sends, sub
<1>7. CASE Serves \/ Reports \/ Overheats \/ Ignores \/ Stall \/ Cut \/ DialFails \/ Take
  BY <1>1, <1>7 DEF Serves, Reports, Overheats, Ignores, Stall, Cut, DialFails, Take, hub, sub
<1>8. CASE Dial \/ ShakeHands \/ AnswerTimeout \/ AnswerLate \/ UNCHANGED vars
  BY <1>1, <1>8 DEF Dial, ShakeHands, AnswerTimeout, AnswerLate, Unanswered, vars, hub, sub
<1>9. ASSUME NEW c \in Clients, Lock(c) \/ \E cmd \in Commands[c] : Call(c, cmd) PROVE SubscriberAgrees'
  BY <1>1, <1>9 DEF Lock, Call, hub, sub
<1>10. QED
  BY <1>2, <1>4, <1>5, <1>6, <1>7, <1>8, <1>9, SubscriberRead
     DEF Next, Session, Write, Command, Faulty

------------------------------------------------------------------------------
(***************************************************************************)
(* The theorems.                                                           *)
(***************************************************************************)
LEMMA InitHolds ==
  ASSUME Init
  PROVE  HubInv
<1>1. /\ dev = Powered /\ open = FALSE /\ stalled = FALSE /\ toDev = <<>> /\ toHost = <<>>
      /\ pc = "down" /\ conn = FALSE /\ connected = FALSE /\ dumped = FALSE /\ cache = NoState
      /\ writer = NoOne /\ onWire = FALSE /\ left = <<>>
      /\ client = [c \in Clients |-> Idle] /\ passed = [c \in Clients |-> {}] /\ late = {}
      /\ issued = 0 /\ faults = MaxFaults /\ room = Buffer
      /\ view = [link |-> FALSE, on |-> FALSE, prot |-> "ok"] /\ missed = {}
  BY DEF Init
<1>2. Powered \in Devices /\ ~Powered.on /\ ~Powered.session
  BY PowerOnAssumption DEF PowerOnAssumption, Powered, Devices
<1>3. TypeOK
  <2>0. \A S : <<>> \in Seq(S)
    BY EmptySeq
  <2>1. WireTyped
    BY <1>1, <1>2, <2>0 DEF WireTyped
  <2>2. HubTyped /\ LockTyped
    BY <1>1, <2>0 DEF HubTyped, LockTyped
  <2>3. CallsTyped
    BY <1>1, IdleType, HubAssumption DEF CallsTyped, HubAssumption
  <2>4. SubTyped
    BY <1>1, HubAssumption DEF SubTyped, HubAssumption
  <2>5. QED
    BY <2>1, <2>2, <2>3, <2>4 DEF TypeOK
<1>4. Dumpless(<<>>)
  BY DEF Dumpless
<1>5. SessionHolds /\ OutputFollows /\ RegistersFollow
  BY <1>1, <1>4, Names DEF SessionHolds, HasDump, OutputFollows, RegistersFollow, Answering
<1>6. WriterHolds
  <2>1. \A c \in Clients : Holds(c) /\ Overtook(c)
    BY <1>1, Names DEF Holds, Overtook, Idle
  <2>2. QED
    BY <1>1, <2>1, Names, NothingLeft DEF WriterHolds
<1>7. NothingYet
  BY <1>1, <1>2 DEF NothingYet
<1>8. SubscriberAgrees
  BY <1>1 DEF SubscriberAgrees, State, Blank
<1>9. QED
  BY <1>3, <1>5, <1>6, <1>7, <1>8 DEF HubInv

LEMMA HubInvStep ==
  ASSUME HubInv, [Next]_vars
  PROVE  HubInv'
<1>1. /\ TypeOK /\ SessionHolds /\ WriterHolds /\ NothingYet
      /\ OutputFollows /\ RegistersFollow /\ SubscriberAgrees
  BY DEF HubInv
<1>2. TypeOK' /\ SessionHolds' /\ WriterHolds'
  BY <1>1, TypesStep, SessionStep, WriterStep
<1>3. NothingYet' /\ OutputFollows' /\ SubscriberAgrees'
  BY <1>1, NothingYetStep, OutputFollowsStep, SubscriberStep
<1>4. RegistersFollow'
  BY <1>1, <1>2, RegistersFollowStep
<1>5. QED
  BY <1>2, <1>3, <1>4 DEF HubInv

LEMMA HubInvHolds == Spec => []HubInv
<1>1. Init => HubInv
  BY InitHolds
<1>2. HubInv /\ [Next]_vars => HubInv'
  BY HubInvStep
<1>3. QED
  BY <1>1, <1>2, PTL DEF Spec

\* Nothing on the wire: who follows the device holds what it does.
LEMMA QuietSettles ==
  ASSUME HubInv
  PROVE  CacheSettles
<1>1. SUFFICES ASSUME Quiet
               PROVE  /\ cache.on = dev.on /\ cache.prot = dev.prot
                      /\ \A r \in Floats \ late : cache.reg[r] = dev.reg[r]
  BY DEF CacheSettles
<1>2. /\ connected /\ open /\ toDev = <<>> /\ toHost = <<>>
      /\ \A c \in Clients : client[c].pc = "idle"
  BY <1>1 DEF Quiet
<1>3. Answering /\ State = cache
  BY <1>2 DEF Answering, HubInv, SessionHolds, State
<1>4. \A x, b, v : Heard(<<>>, x, b, v) => b = v
  BY DEF Heard, Ends
<1>5. cache.on = dev.on /\ cache.prot = dev.prot
  <2>1. \A x \in {"on", "prot"} : Field(cache, x) = Field(dev, x)
    BY <1>2, <1>3, <1>4 DEF HubInv, OutputFollows
  <2>2. QED
    BY <2>1 DEF Field, Floats
<1>6. ASSUME NEW r \in Floats \ late PROVE cache.reg[r] = dev.reg[r]
  <2>1. ~Unasked(r)
    BY <1>2 DEF Unasked, HubInv, WriterHolds, Holds
  <2>2. Settling(<<>>, <<>>, dev, r, cache.reg[r])
    BY <1>2, <1>3, <2>1 DEF HubInv, RegistersFollow, CacheFollows, Settles
  <2>3. ~Asks(<<>>, r)
    BY DEF Asks
  <2>4. QED
    BY <1>4, <2>2, <2>3 DEF Settling
<1>7. QED
  BY <1>5, <1>6

\* The variables keep their types: the frames on the wire are those the device and the hub
\* know, a command sets float registers, the subscriber's channel is never beyond its
\* buffer (hub.go, emulator.go).
THEOREM TypeCorrect == Spec => []TypeOK
<1>1. HubInv => TypeOK
  BY DEF HubInv
<1>2. QED
  BY <1>1, HubInvHolds, PTL

\* When nothing is under way the cache holds what the device does, but for the registers a
\* late store, or a threshold no dump was asked for, has left behind (applyDumpLocked,
\* applyLocked, the setters).
THEOREM CacheKeepsUp == Spec => []CacheSettles
<1>1. HubInv => CacheSettles
  BY QuietSettles
<1>2. QED
  BY <1>1, HubInvHolds, PTL

\* A subscriber that has taken its updates sees the link, the output and a trip as the hub
\* does, unless an update it lost would have told it (broadcastLocked, applyLocked, session).
THEOREM SubscriberKnows == Spec => []SubscriberAgrees
<1>1. HubInv => SubscriberAgrees
  BY DEF HubInv
<1>2. QED
  BY <1>1, HubInvHolds, PTL
==============================================================================
