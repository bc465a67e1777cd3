-------------------------- MODULE McuProcedures_proofs ------------------------
(***************************************************************************)
(* For every value of the constants: the status that a calibration returns *)
(* is of the procedure that this call asked for (OwnStatusIs), and that    *)
(* procedure ran with the clock, the bandwidth and the loopback pair of    *)
(* this call and with the chip's SPI (OwnParametersAre).                   *)
(*                                                                         *)
(* The argument is by position.  CalibratePos(n) says what holds before    *)
(* the n-th step of a calibration: which of its requests the MCU has, what *)
(* of the parameters has arrived, and how far the MCU can be with them.    *)
(* When a call begins nothing is known of the MCU, which may be serving a  *)
(* request that was given up: the first three steps of asking for the      *)
(* program make sure that it is not, or it is programmed anew.             *)
(***************************************************************************)
EXTENDS McuProcedures, SequenceTheorems, TLAPS

-----------------------------------------------------------------------------
\* The invariant.

\* The MCU waits for a request.
Quiet == alive /\ latched = {} /\ main = "poll" /\ ~runProcedure

Fields == {"call", "id", "ref", "bw", "pair", "bus", "status"}

\* It has been told to do nothing before it is programmed.
McuOK == /\ main \in {"poll", "busy", "clear"}
         /\ DOMAIN inputRegs = 1..3 /\ inputRegs = [i \in 1..3 |-> inputRegs[i]]
         /\ DOMAIN doing = Fields /\ doing = [i \in Fields |-> doing[i]]
         /\ ~alive => latched = {} /\ main = "poll" /\ ~runProcedure /\ P1 = MCU_IDLE

\* A request that is on its way, or served, or over; whatever was running before.
Requested == \/ latched = {3} /\ P0 = GetProgramID
             \/ /\ latched = {} /\ currentInstruction = GetProgramID
                /\ main = "busy" \/ (main = "poll" /\ runProcedure) => P1 = MCU_WORKING
Gone == main = "clear" \/ (main = "poll" /\ ~runProcedure)

\* The first k - 1 of the steps that ask for the program are done.
CheckPos(k) ==
    /\ k \in {2, 3} /\ alive => latched = {}
    /\ k = 3 => P0 = GetProgramID
    /\ k \in 4..6 /\ alive => Requested
    /\ k \in {5, 6} => latched = {}
    /\ k = 7 /\ alive => latched = {} /\ Gone
    /\ k = 8 /\ alive => Quiet
    /\ k \in {7, 8} /\ ~alive => value # ProgramID

\* A calibration runs four procedures, the third of them if there is a loopback pair.
IdOf(m) == CASE m = 1 -> UpdateRefClk [] m = 2 -> UpdateBW [] m = 3 -> SetLoopback
             [] OTHER -> call.id

\* What the MCU knows before the m-th, and what it must have been sent for it.
Known(m) == /\ m >= 2 => RefClk = call.ref
            /\ m >= 3 => bandwidthRF = call.bw
            /\ m >= 4 /\ call.pair # None => extLoopbackPair = call.pair

Ready(m) == /\ m = 1 => inputRegs = call.ref
            /\ m = 2 => inputRegs = call.bw
            /\ m = 3 => inputRegs[1] = call.pair

\* A procedure that has been asked for by this call and runs with what it passed.
Own(w) == /\ w.call = calls /\ w.id = call.id /\ w.bus
          /\ w.ref = call.ref /\ w.bw = call.bw
          /\ call.pair # None => w.pair = call.pair

\* The m-th has been requested: it waits, it runs, or it is over.
Waits(m) == /\ main = "poll" /\ runProcedure /\ P1 = MCU_WORKING
            /\ Known(m) /\ Ready(m) /\ mcuHasSPI /\ asked = calls
Runs(m) == /\ main = "busy" /\ P1 = MCU_WORKING
           /\ Known(m) /\ Ready(m)
           /\ doing.id = IdOf(m) /\ (m = 4 => Own(doing))
Over(m) == /\ Gone /\ Known(m + 1)
           /\ m = 4 => Own(finished) /\ P1 = finished.status
Served(m) == /\ alive /\ latched = {} /\ currentInstruction = IdOf(m)
             /\ Waits(m) \/ Runs(m) \/ Over(m)

\* RunProcedure and WaitForMCU with their first k - 1 steps done.
RunPos(m, k) ==
    /\ k \in 1..3 => Quiet /\ Known(m) /\ Ready(m)
    /\ k \in {2, 3} => mcuHasSPI
    /\ k = 3 => P0 = IdOf(m)
    /\ k = 4 => \/ /\ alive /\ latched = {3} /\ main = "poll" /\ ~runProcedure
                   /\ P0 = IdOf(m) /\ Known(m) /\ Ready(m) /\ mcuHasSPI /\ asked = calls
                \/ Served(m)
    /\ k \in {5, 6} => Served(m)
    /\ k = 7 /\ (m # 4 \/ value # TimedOut) =>
          /\ alive /\ latched = {} /\ Over(m)
          /\ m = 4 => finished.status = value
    /\ k = 8 /\ (m # 4 \/ value # TimedOut) =>
          /\ Quiet /\ Known(m + 1)
          /\ m = 4 => Own(finished) /\ finished.status = value

\* The MCU has the last j bytes of f; another one is on its way.
Got(j, f) == \A i \in 1..j : inputRegs[i] = f[3 - j + i]
Has(j, f) == Quiet /\ Got(j, f)
Sends(j, f) == /\ alive /\ main = "poll" /\ ~runProcedure
               /\ \/ latched = {2} /\ P0 = f[3 - j] /\ Got(j, f)
                  \/ latched = {} /\ Got(j + 1, f)

\* A frequency is sent and its procedure run; k - 1 steps are done.
FreqPos(m, f, k) ==
    /\ k \in 1..9 => Known(m)
    /\ k = 1 => Has(0, f)
    /\ k = 2 => Has(0, f) /\ P0 = f[3]
    /\ k = 3 => Sends(0, f)
    /\ k = 4 => Has(1, f)
    /\ k = 5 => Has(1, f) /\ P0 = f[2]
    /\ k = 6 => Sends(1, f)
    /\ k = 7 => Has(2, f)
    /\ k = 8 => Has(2, f) /\ P0 = f[1]
    /\ k = 9 => Sends(2, f)
    /\ k \in 10..16 => RunPos(m, k - 9)

\* The same for a pair, of one byte.
PairPos(pair, k) ==
    /\ k \in 1..5 => Known(3)
    /\ k = 1 => Quiet
    /\ k = 2 => Quiet /\ P0 = pair
    /\ k = 3 => Sends(0, <<0, 0, pair>>)
    /\ k \in {4, 5} => Has(1, <<0, 0, pair>>)
    /\ k \in 6..12 => RunPos(3, k - 5)

LastOf(c) == IF c.pair = None THEN 40 ELSE 52

\* CalibrateTx and the like, called with c, with their first n - 1 steps done.
CalibratePos(c, n) ==
    /\ n \in 1..8 => CheckPos(n)
    /\ n \in 9..24 => FreqPos(1, c.ref, n - 8)
    /\ n \in 25..40 => FreqPos(2, c.bw, n - 24)
    /\ n \in 41..LastOf(c) => PairPos(c.pair, n - 40)
    /\ n \in LastOf(c)+1..LastOf(c)+8 => RunPos(4, n - LastOf(c))

Rest(s, n) == SubSeq(s, n, Len(s))

Stage(c, n) == /\ call = c /\ n \in 1..LastOf(c)+8
               /\ script = Rest(Calibrate(c), n)
               /\ CalibratePos(c, n)

\* The answer of a calibration that has returned is its own; one that has not is at one of
\* its steps, or the program has to be sent before the ninth.
Where ==
    \/ /\ script = <<>>
       /\ Answered => /\ Quiet /\ Own(finished) /\ finished.status = result
    \/ /\ script # <<>>
       /\ call.kind = "calibrate" =>
             \/ \E c \in Calls, n \in 1..60 : Stage(c, n)
             \/ script = <<Do("program", 0)>> \o Rest(Calibrate(call), 9)

IInv == McuOK /\ call \in Calls /\ Where

-----------------------------------------------------------------------------
\* The steps of a calibration, by their numbers.

Ops == {"switch", "P0", "pulse", "sleep", "poll", "check", "program", "020C", "return"}
Steps == [op : Ops, arg : BOOLEAN \cup Bytes]

LEMMA DoIsStep ==
    ASSUME NEW o \in Ops, NEW a \in BOOLEAN \cup Bytes
    PROVE  Do(o, a) \in Steps
  BY DEF Do, Steps

\* w is found in s after its first o elements.
Within(s, o, w) == \A i \in 1..Len(w) : s[o + i] = w[i]

LEMMA Splits ==
    ASSUME NEW v \in Seq(Steps), NEW w \in Seq(Steps), NEW s, NEW o \in Nat,
           Within(s, o, v \o w)
    PROVE  /\ Within(s, o, v) /\ Within(s, o + Len(v), w)
           /\ v \o w \in Seq(Steps) /\ Len(v \o w) = Len(v) + Len(w)
  <1>1. Len(v) \in Nat /\ Len(w) \in Nat
    BY LenProperties
  <1>2. /\ v \o w \in Seq(Steps) /\ Len(v \o w) = Len(v) + Len(w)
        /\ \A i \in 1..Len(v) + Len(w) :
              (v \o w)[i] = IF i <= Len(v) THEN v[i] ELSE w[i - Len(v)]
    BY ConcatProperties
  <1> DEFINE c == v \o w
             a == Len(v)
             b == Len(w)
  <1>3. /\ Len(c) = a + b
        /\ \A i \in 1..a + b : c[i] = IF i <= a THEN v[i] ELSE w[i - a]
        /\ \A i \in 1..Len(c) : s[o + i] = c[i]
    BY <1>2 DEF Within
  <1>4. a \in Nat /\ b \in Nat /\ o \in Nat
    BY <1>1
  <1> HIDE DEF c, a, b
  <1>5. ASSUME NEW i \in 1..a
        PROVE  s[o + i] = v[i]
    <2>1. i \in 1..a + b /\ i \in 1..Len(c) /\ i <= a
      BY <1>3, <1>4
    <2> QED
      BY <1>3, <2>1
  <1>6. ASSUME NEW i \in 1..b
        PROVE  s[o + a + i] = w[i]
    <2> DEFINE j == a + i
    <2>1. j \in 1..a + b /\ j \in 1..Len(c) /\ ~(j <= a) /\ j - a = i /\ o + j = o + a + i
      BY <1>3, <1>4
    <2> HIDE DEF j
    <2>2. s[o + j] = c[j] /\ c[j] = w[j - a]
      BY <1>3, <2>1
    <2> QED
      BY <2>1, <2>2
  <1> QED
    BY <1>2, <1>5, <1>6 DEF Within, a, b

LEMMA Joined ==
    ASSUME NEW v \in Seq(Steps), NEW w \in Seq(Steps)
    PROVE  v \o w \in Seq(Steps) /\ Len(v \o w) = Len(v) + Len(w)
  BY ConcatProperties

\* RunProcedure(id) and WaitForMCU.
RunAt(s, o, id) ==
    /\ s[o + 1] = Do("switch", TRUE) /\ s[o + 2] = Do("P0", id) /\ s[o + 3] = Do("pulse", 3)
    /\ s[o + 4] = Do("sleep", 0) /\ s[o + 5] = Do("sleep", 0)
    /\ s[o + 6] = Do("poll", 0) /\ s[o + 7] = Do("switch", FALSE)

LEMMA RunSteps ==
    ASSUME NEW id \in Bytes
    PROVE  /\ RunProcedure(id) \in Seq(Steps) /\ Len(RunProcedure(id)) = 4
           /\ WaitForMCU \in Seq(Steps) /\ Len(WaitForMCU) = 3
  <1>1. /\ Do("switch", TRUE) \in Steps /\ Do("switch", FALSE) \in Steps
        /\ Do("P0", id) \in Steps /\ Do("pulse", 3) \in Steps /\ Do("sleep", 0) \in Steps
        /\ Do("poll", 0) \in Steps
    <2>1. TRUE \in BOOLEAN \cup Bytes /\ FALSE \in BOOLEAN \cup Bytes
      OBVIOUS
    <2>2. 3 \in BOOLEAN \cup Bytes /\ 0 \in BOOLEAN \cup Bytes /\ id \in BOOLEAN \cup Bytes
      BY DEF Bytes
    <2> QED
      BY <2>1, <2>2, DoIsStep DEF Ops
  <1>2. RunProcedure(id) \in Seq(Steps) /\ Len(RunProcedure(id)) = 4
    <2> DEFINE a == Do("switch", TRUE)
               b == Do("P0", id)
               c == Do("pulse", 3)
               d == Do("sleep", 0)
    <2>1. RunProcedure(id) = <<a, b, c, d>> /\ {a, b, c, d} \subseteq Steps
      BY <1>1 DEF RunProcedure
    <2> HIDE DEF a, b, c, d
    <2> QED
      BY <2>1
  <1>3. WaitForMCU \in Seq(Steps) /\ Len(WaitForMCU) = 3
    <2> DEFINE a == Do("sleep", 0)
               b == Do("poll", 0)
               c == Do("switch", FALSE)
    <2>1. WaitForMCU = <<a, b, c>> /\ {a, b, c} \subseteq Steps
      BY <1>1 DEF WaitForMCU
    <2> HIDE DEF a, b, c
    <2> QED
      BY <2>1
  <1> QED
    BY <1>2, <1>3

LEMMA RunWithin ==
    ASSUME NEW id \in Bytes, NEW s, NEW o \in Nat,
           Within(s, o, RunProcedure(id)), Within(s, o + 4, WaitForMCU)
    PROVE  RunAt(s, o, id)
  <1>1. /\ s[o + 1] = Do("switch", TRUE) /\ s[o + 2] = Do("P0", id) /\ s[o + 3] = Do("pulse", 3)
        /\ s[o + 4] = Do("sleep", 0)
    <2> DEFINE r == RunProcedure(id)
    <2>1. /\ Len(r) = 4 /\ r[1] = Do("switch", TRUE) /\ r[2] = Do("P0", id)
          /\ r[3] = Do("pulse", 3) /\ r[4] = Do("sleep", 0)
      BY DEF RunProcedure
    <2>2. \A i \in 1..Len(r) : s[o + i] = r[i]
      BY DEF Within
    <2> HIDE DEF r
    <2>3. 1 \in 1..Len(r) /\ 2 \in 1..Len(r) /\ 3 \in 1..Len(r) /\ 4 \in 1..Len(r)
      BY <2>1
    <2>4. s[o + 1] = r[1] /\ s[o + 2] = r[2] /\ s[o + 3] = r[3] /\ s[o + 4] = r[4]
      BY <2>2, <2>3
    <2> QED
      BY <2>1, <2>4
  <1>2. /\ s[o + 5] = Do("sleep", 0) /\ s[o + 6] = Do("poll", 0)
        /\ s[o + 7] = Do("switch", FALSE)
    <2> DEFINE r == WaitForMCU
    <2>1. /\ Len(r) = 3 /\ r[1] = Do("sleep", 0) /\ r[2] = Do("poll", 0)
          /\ r[3] = Do("switch", FALSE)
      BY DEF WaitForMCU
    <2>2. \A i \in 1..Len(r) : s[o + 4 + i] = r[i]
      BY DEF Within
    <2> HIDE DEF r
    <2>3. o + 4 + 1 = o + 5 /\ o + 4 + 2 = o + 6 /\ o + 4 + 3 = o + 7
      OBVIOUS
    <2>4. 1 \in 1..Len(r) /\ 2 \in 1..Len(r) /\ 3 \in 1..Len(r)
      BY <2>1
    <2>5. s[o + 4 + 1] = r[1] /\ s[o + 4 + 2] = r[2] /\ s[o + 4 + 3] = r[3]
      BY <2>2, <2>4
    <2> QED
      BY <2>1, <2>3, <2>5
  <1> QED
    BY <1>1, <1>2 DEF RunAt

\* The bytes of a frequency, and its procedure.
FreqAt(s, o, f, id) ==
    /\ s[o + 1] = Do("P0", f[3]) /\ s[o + 2] = Do("pulse", 2) /\ s[o + 3] = Do("sleep", 0)
    /\ s[o + 4] = Do("P0", f[2]) /\ s[o + 5] = Do("pulse", 2) /\ s[o + 6] = Do("sleep", 0)
    /\ s[o + 7] = Do("P0", f[1]) /\ s[o + 8] = Do("pulse", 2) /\ s[o + 9] = Do("sleep", 0)
    /\ RunAt(s, o + 9, id)

PairAt(s, o, pair) ==
    /\ s[o + 1] = Do("P0", pair) /\ s[o + 2] = Do("pulse", 2)
    /\ s[o + 3] = Do("sleep", 0) /\ s[o + 4] = Do("poll", 0) /\ s[o + 5] = Do("switch", FALSE)
    /\ RunAt(s, o + 5, SetLoopback)

LEMMA ByteSteps ==
    ASSUME NEW b \in Bytes
    PROVE  /\ SendByte(b) \in Seq(Steps) /\ Len(SendByte(b)) = 3
           /\ \A s : \A o \in Nat : Within(s, o, SendByte(b)) =>
                 /\ s[o + 1] = Do("P0", b) /\ s[o + 2] = Do("pulse", 2)
                 /\ s[o + 3] = Do("sleep", 0)
  <1> DEFINE x == Do("P0", b)
             y == Do("pulse", 2)
             z == Do("sleep", 0)
             t == SendByte(b)
  <1>1. x \in Steps /\ y \in Steps /\ z \in Steps
    <2>1. 2 \in BOOLEAN \cup Bytes /\ 0 \in BOOLEAN \cup Bytes /\ b \in BOOLEAN \cup Bytes
      BY DEF Bytes
    <2> QED
      BY <2>1, DoIsStep DEF Ops
  <1>2. t = <<x, y, z>>
    BY DEF SendByte
  <1> HIDE DEF x, y, z, t
  <1>3. t \in Seq(Steps) /\ Len(t) = 3 /\ t[1] = x /\ t[2] = y /\ t[3] = z
    BY <1>1, <1>2
  <1>4. ASSUME NEW s, NEW o \in Nat, Within(s, o, t)
        PROVE  s[o + 1] = x /\ s[o + 2] = y /\ s[o + 3] = z
    <2>1. 1 \in 1..Len(t) /\ 2 \in 1..Len(t) /\ 3 \in 1..Len(t)
      BY <1>3
    <2>2. s[o + 1] = t[1] /\ s[o + 2] = t[2] /\ s[o + 3] = t[3]
      BY <1>4, <2>1 DEF Within
    <2> QED
      BY <1>3, <2>2
  <1> QED
    BY <1>3, <1>4 DEF x, y, z, t

LEMMA FreqSteps ==
    ASSUME NEW f \in Seq(Bytes), Len(f) = 3, NEW id \in Bytes
    PROVE  /\ SetFrequency(f, id) \in Seq(Steps) /\ Len(SetFrequency(f, id)) = 16
           /\ \A s : \A o \in Nat : Within(s, o, SetFrequency(f, id)) => FreqAt(s, o, f, id)
  <1>1. f[1] \in Bytes /\ f[2] \in Bytes /\ f[3] \in Bytes
    BY ElementOfSeq
  <1> DEFINE a == SendByte(f[3])
             b == SendByte(f[2])
             c == SendByte(f[1])
             d == RunProcedure(id)
             e == WaitForMCU
  <1>2. /\ a \in Seq(Steps) /\ b \in Seq(Steps) /\ c \in Seq(Steps)
        /\ Len(a) = 3 /\ Len(b) = 3 /\ Len(c) = 3
    BY <1>1, ByteSteps
  <1>3. d \in Seq(Steps) /\ e \in Seq(Steps) /\ Len(d) = 4 /\ Len(e) = 3
    BY RunSteps
  <1>4. SetFrequency(f, id) = a \o b \o c \o d \o e
    BY DEF SetFrequency
  <1> HIDE DEF a, b, c, d, e
  <1>5. /\ a \o b \in Seq(Steps) /\ Len(a \o b) = 6
        /\ a \o b \o c \in Seq(Steps) /\ Len(a \o b \o c) = 9
        /\ a \o b \o c \o d \in Seq(Steps) /\ Len(a \o b \o c \o d) = 13
        /\ a \o b \o c \o d \o e \in Seq(Steps) /\ Len(a \o b \o c \o d \o e) = 16
    <2>1. a \o b \in Seq(Steps) /\ Len(a \o b) = 6
      <3>1. a \o b \in Seq(Steps) /\ Len(a \o b) = Len(a) + Len(b)
        BY <1>2, Joined
      <3> QED
        BY <1>2, <3>1
    <2>2. a \o b \o c \in Seq(Steps) /\ Len(a \o b \o c) = 9
      <3>1. a \o b \o c \in Seq(Steps) /\ Len(a \o b \o c) = Len(a \o b) + Len(c)
        BY <1>2, <2>1, Joined
      <3> QED
        BY <1>2, <2>1, <3>1
    <2>3. a \o b \o c \o d \in Seq(Steps) /\ Len(a \o b \o c \o d) = 13
      <3>1. a \o b \o c \o d \in Seq(Steps) /\ Len(a \o b \o c \o d) = Len(a \o b \o c) + Len(d)
        BY <1>3, <2>2, Joined
      <3> QED
        BY <1>3, <2>2, <3>1
    <2>4. a \o b \o c \o d \o e \in Seq(Steps) /\ Len(a \o b \o c \o d \o e) = 16
      <3>1. /\ a \o b \o c \o d \o e \in Seq(Steps)
            /\ Len(a \o b \o c \o d \o e) = Len(a \o b \o c \o d) + Len(e)
        BY <1>3, <2>3, Joined
      <3> QED
        BY <1>3, <2>3, <3>1
    <2> QED
      BY <2>1, <2>2, <2>3, <2>4
  <1>6. ASSUME NEW s, NEW o \in Nat, Within(s, o, SetFrequency(f, id))
        PROVE  FreqAt(s, o, f, id)
    <2>1. Within(s, o, a \o b \o c \o d) /\ Within(s, o + 13, e)
      <3>1. Within(s, o, a \o b \o c \o d \o e)
        BY <1>4, <1>6
      <3> DEFINE v == a \o b \o c \o d
      <3>2. v \in Seq(Steps) /\ Len(v) = 13 /\ Within(s, o, v \o e)
        BY <1>5, <3>1
      <3> HIDE DEF v
      <3>3. Within(s, o, v) /\ Within(s, o + Len(v), e)
        BY <1>3, <3>2, Splits
      <3> QED
        BY <3>2, <3>3 DEF v
    <2>2. Within(s, o, a \o b \o c) /\ Within(s, o + 9, d)
      BY <1>3, <1>5, <2>1, Splits
    <2>3. Within(s, o, a \o b) /\ Within(s, o + 6, c)
      BY <1>2, <1>5, <2>2, Splits
    <2>4. Within(s, o, a) /\ Within(s, o + 3, b)
      BY <1>2, <2>3, Splits
    <2>5. RunAt(s, o + 9, id)
      <3> DEFINE q == o + 9
      <3>1. q \in Nat /\ q + 4 = o + 13
        OBVIOUS
      <3> HIDE DEF q
      <3>2. Within(s, q, d) /\ Within(s, q + 4, e)
        BY <2>1, <2>2, <3>1 DEF q
      <3>3. RunAt(s, q, id)
        BY <3>1, <3>2, RunWithin DEF d, e
      <3> QED
        BY <3>3 DEF q
    <2>6. s[o + 1] = Do("P0", f[3]) /\ s[o + 2] = Do("pulse", 2) /\ s[o + 3] = Do("sleep", 0)
      BY <1>1, <2>4, ByteSteps DEF a
    <2>7. s[o + 4] = Do("P0", f[2]) /\ s[o + 5] = Do("pulse", 2) /\ s[o + 6] = Do("sleep", 0)
      <3>1. o + 3 \in Nat /\ o + 3 + 1 = o + 4 /\ o + 3 + 2 = o + 5 /\ o + 3 + 3 = o + 6
        OBVIOUS
      <3>2. /\ s[o + 3 + 1] = Do("P0", f[2]) /\ s[o + 3 + 2] = Do("pulse", 2)
            /\ s[o + 3 + 3] = Do("sleep", 0)
        BY <1>1, <2>4, <3>1, ByteSteps DEF b
      <3> QED
        BY <3>1, <3>2
    <2>8. s[o + 7] = Do("P0", f[1]) /\ s[o + 8] = Do("pulse", 2) /\ s[o + 9] = Do("sleep", 0)
      <3>1. o + 6 \in Nat /\ o + 6 + 1 = o + 7 /\ o + 6 + 2 = o + 8 /\ o + 6 + 3 = o + 9
        OBVIOUS
      <3>2. /\ s[o + 6 + 1] = Do("P0", f[1]) /\ s[o + 6 + 2] = Do("pulse", 2)
            /\ s[o + 6 + 3] = Do("sleep", 0)
        BY <1>1, <2>3, <3>1, ByteSteps DEF c
      <3> QED
        BY <3>1, <3>2
    <2> QED
      BY <2>5, <2>6, <2>7, <2>8 DEF FreqAt
  <1> QED
    BY <1>4, <1>5, <1>6

LEMMA PairSteps ==
    ASSUME NEW pair \in Bytes
    PROVE  /\ SetPair(pair) \in Seq(Steps) /\ Len(SetPair(pair)) = 12
           /\ \A s : \A o \in Nat : Within(s, o, SetPair(pair)) => PairAt(s, o, pair)
  <1> DEFINE x == Do("P0", pair)
             y == Do("pulse", 2)
             a == <<x, y>>
             d == RunProcedure(SetLoopback)
             e == WaitForMCU
  <1>1. x \in Steps /\ y \in Steps
    <2>1. 2 \in BOOLEAN \cup Bytes /\ pair \in BOOLEAN \cup Bytes
      BY DEF Bytes
    <2> QED
      BY <2>1, DoIsStep DEF Ops
  <1>2. d \in Seq(Steps) /\ e \in Seq(Steps) /\ Len(d) = 4 /\ Len(e) = 3
    BY RunSteps DEF SetLoopback, Bytes
  <1>3. SetPair(pair) = a \o e \o d \o e
    BY DEF SetPair
  <1> HIDE DEF x, y, d, e
  <1>4. a \in Seq(Steps) /\ Len(a) = 2 /\ a[1] = x /\ a[2] = y
    BY <1>1
  <1> HIDE DEF a
  <1>5. /\ a \o e \in Seq(Steps) /\ Len(a \o e) = 5
        /\ a \o e \o d \in Seq(Steps) /\ Len(a \o e \o d) = 9
        /\ a \o e \o d \o e \in Seq(Steps) /\ Len(a \o e \o d \o e) = 12
    <2>1. a \o e \in Seq(Steps) /\ Len(a \o e) = 5
      <3>1. a \o e \in Seq(Steps) /\ Len(a \o e) = Len(a) + Len(e)
        BY <1>2, <1>4, Joined
      <3> QED
        BY <1>2, <1>4, <3>1
    <2>2. a \o e \o d \in Seq(Steps) /\ Len(a \o e \o d) = 9
      <3>1. a \o e \o d \in Seq(Steps) /\ Len(a \o e \o d) = Len(a \o e) + Len(d)
        BY <1>2, <2>1, Joined
      <3> QED
        BY <1>2, <2>1, <3>1
    <2>3. a \o e \o d \o e \in Seq(Steps) /\ Len(a \o e \o d \o e) = 12
      <3>1. a \o e \o d \o e \in Seq(Steps) /\ Len(a \o e \o d \o e) = Len(a \o e \o d) + Len(e)
        BY <1>2, <2>2, Joined
      <3> QED
        BY <1>2, <2>2, <3>1
    <2> QED
      BY <2>1, <2>2, <2>3
  <1>6. ASSUME NEW s, NEW o \in Nat, Within(s, o, SetPair(pair))
        PROVE  PairAt(s, o, pair)
    <2>1. Within(s, o, a \o e \o d) /\ Within(s, o + 9, e)
      <3>1. Within(s, o, a \o e \o d \o e)
        BY <1>3, <1>6
      <3> DEFINE v == a \o e \o d
      <3>2. v \in Seq(Steps) /\ Len(v) = 9 /\ Within(s, o, v \o e)
        BY <1>5, <3>1
      <3> HIDE DEF v
      <3>3. Within(s, o, v) /\ Within(s, o + Len(v), e)
        BY <1>2, <3>2, Splits
      <3> QED
        BY <3>2, <3>3 DEF v
    <2>2. Within(s, o, a \o e) /\ Within(s, o + 5, d)
      BY <1>2, <1>5, <2>1, Splits
    <2>3. Within(s, o, a) /\ Within(s, o + 2, e)
      BY <1>2, <1>4, <2>2, Splits
    <2>4. RunAt(s, o + 5, SetLoopback)
      <3> DEFINE q == o + 5
      <3>1. q \in Nat /\ q + 4 = o + 9
        OBVIOUS
      <3> HIDE DEF q
      <3>2. Within(s, q, d) /\ Within(s, q + 4, e)
        BY <2>1, <2>2, <3>1 DEF q
      <3>3. RunAt(s, q, SetLoopback)
        BY <3>1, <3>2, RunWithin DEF d, e, SetLoopback, Bytes
      <3> QED
        BY <3>3 DEF q
    <2>5. s[o + 1] = x /\ s[o + 2] = y
      <3>1. 1 \in 1..Len(a) /\ 2 \in 1..Len(a)
        BY <1>4
      <3>2. s[o + 1] = a[1] /\ s[o + 2] = a[2]
        BY <2>3, <3>1 DEF Within
      <3> QED
        BY <1>4, <3>2
    <2>6. /\ s[o + 3] = Do("sleep", 0) /\ s[o + 4] = Do("poll", 0)
          /\ s[o + 5] = Do("switch", FALSE)
      <3>1. /\ e[1] = Do("sleep", 0) /\ e[2] = Do("poll", 0) /\ e[3] = Do("switch", FALSE)
        BY DEF WaitForMCU, e
      <3>2. 1 \in 1..Len(e) /\ 2 \in 1..Len(e) /\ 3 \in 1..Len(e)
        BY <1>2
      <3>3. s[o + 2 + 1] = e[1] /\ s[o + 2 + 2] = e[2] /\ s[o + 2 + 3] = e[3]
        BY <2>3, <3>2 DEF Within
      <3>4. o + 2 + 1 = o + 3 /\ o + 2 + 2 = o + 4 /\ o + 2 + 3 = o + 5
        OBVIOUS
      <3> QED
        BY <3>1, <3>3, <3>4
    <2> QED
      BY <2>4, <2>5, <2>6 DEF PairAt, x, y
  <1> QED
    BY <1>3, <1>5, <1>6

\* The steps of a call, with the pair's only if there is one.
CalibrateAt(s, c) ==
    /\ RunAt(s, 0, GetProgramID) /\ s[8] = Do("check", 0)
    /\ FreqAt(s, 8, c.ref, UpdateRefClk) /\ FreqAt(s, 24, c.bw, UpdateBW)
    /\ c.pair # None => PairAt(s, 40, c.pair)

LEMMA CheckSteps ==
    /\ CheckProgram \in Seq(Steps) /\ Len(CheckProgram) = 8
    /\ \A s : Within(s, 0, CheckProgram) => RunAt(s, 0, GetProgramID) /\ s[8] = Do("check", 0)
  <1> DEFINE x == Do("check", 0)
             a == RunProcedure(GetProgramID)
             b == WaitForMCU
             c == <<x>>
  <1>1. x \in Steps
    <2>1. 0 \in BOOLEAN \cup Bytes
      BY DEF Bytes
    <2> QED
      BY <2>1, DoIsStep DEF Ops
  <1>2. GetProgramID \in Bytes
    BY DEF GetProgramID, Bytes
  <1>3. a \in Seq(Steps) /\ b \in Seq(Steps) /\ Len(a) = 4 /\ Len(b) = 3
    BY <1>2, RunSteps
  <1>4. CheckProgram = a \o b \o c
    BY DEF CheckProgram
  <1> HIDE DEF a, b, x
  <1>5. c \in Seq(Steps) /\ Len(c) = 1 /\ c[1] = x
    BY <1>1
  <1> HIDE DEF c
  <1>6. a \o b \in Seq(Steps) /\ Len(a \o b) = 7
    <2>1. a \o b \in Seq(Steps) /\ Len(a \o b) = Len(a) + Len(b)
      BY <1>3, Joined
    <2> QED
      BY <1>3, <2>1
  <1>7. a \o b \o c \in Seq(Steps) /\ Len(a \o b \o c) = 8
    <2>1. a \o b \o c \in Seq(Steps) /\ Len(a \o b \o c) = Len(a \o b) + Len(c)
      BY <1>5, <1>6, Joined
    <2> QED
      BY <1>5, <1>6, <2>1
  <1>8. ASSUME NEW s, Within(s, 0, CheckProgram)
        PROVE  RunAt(s, 0, GetProgramID) /\ s[8] = Do("check", 0)
    <2> DEFINE o == 0
    <2>1. o \in Nat /\ o + 4 = 4 /\ o + 7 = 7 /\ Within(s, o, a \o b \o c)
      BY <1>4, <1>8
    <2> HIDE DEF o
    <2>2. Within(s, o, a \o b) /\ Within(s, o + 7, c)
      BY <1>5, <1>6, <2>1, Splits
    <2>3. Within(s, o, a) /\ Within(s, o + 4, b)
      BY <1>3, <2>1, <2>2, Splits
    <2>4. RunAt(s, o, GetProgramID)
      BY <1>2, <2>1, <2>3, RunWithin DEF a, b
    <2>5. s[8] = x
      <3>1. 1 \in 1..Len(c) /\ o + 7 + 1 = 8
        BY <1>5, <2>1
      <3>2. s[o + 7 + 1] = c[1]
        BY <2>2, <3>1 DEF Within
      <3> QED
        BY <1>5, <3>1, <3>2
    <2> QED
      BY <2>4, <2>5 DEF o, x
  <1> QED
    BY <1>4, <1>7, <1>8

LEMMA CalibrateSteps ==
    ASSUME NEW c \in Calls
    PROVE  LET s == Calibrate(c)
               l == LastOf(c)
           IN  /\ s \in Seq(Steps) /\ Len(s) = l + 8
               /\ CalibrateAt(s, c) /\ RunAt(s, l, c.id) /\ s[l + 8] = Do("return", 0)
  <1>1. /\ c.id \in Bytes /\ c.pair \in Bytes
        /\ c.ref \in Seq(Bytes) /\ c.bw \in Seq(Bytes) /\ Len(c.ref) = 3 /\ Len(c.bw) = 3
    BY McuAssumption
  <1> DEFINE x == Do("return", 0)
             a == CheckProgram
             b == SetFrequency(c.ref, UpdateRefClk)
             d == SetFrequency(c.bw, UpdateBW)
             e == IF c.pair = None THEN <<>> ELSE SetPair(c.pair)
             f == RunProcedure(c.id)
             g == WaitForMCU
             h == <<x>>
             m == LastOf(c) - 40
             s == Calibrate(c)
  <1>2. x \in Steps
    <2>1. 0 \in BOOLEAN \cup Bytes
      BY DEF Bytes
    <2> QED
      BY <2>1, DoIsStep DEF Ops
  <1>3. a \in Seq(Steps) /\ Len(a) = 8
    BY CheckSteps
  <1>4. /\ b \in Seq(Steps) /\ Len(b) = 16 /\ d \in Seq(Steps) /\ Len(d) = 16
    <2>1. UpdateRefClk \in Bytes /\ UpdateBW \in Bytes
      BY DEF UpdateRefClk, UpdateBW, Bytes
    <2> QED
      BY <1>1, <2>1, FreqSteps
  <1>5. e \in Seq(Steps) /\ Len(e) = m /\ m \in Nat
    <2>1. CASE c.pair = None
      BY <2>1, EmptySeq DEF LastOf
    <2>2. CASE c.pair # None
      <3>1. e = SetPair(c.pair) /\ m = 12
        BY <2>2 DEF LastOf
      <3> HIDE DEF e, m
      <3> QED
        BY <1>1, <3>1, PairSteps
    <2> QED
      BY <2>1, <2>2
  <1>6. /\ f \in Seq(Steps) /\ g \in Seq(Steps) /\ Len(f) = 4 /\ Len(g) = 3
    BY <1>1, RunSteps
  <1>7. s = a \o b \o d \o e \o f \o g \o h
    BY DEF Calibrate
  <1>8. m + 40 = LastOf(c)
    BY DEF LastOf
  <1> HIDE DEF a, b, d, e, f, g, x, m, s
  <1>9. h \in Seq(Steps) /\ Len(h) = 1 /\ h[1] = x
    BY <1>2
  <1> HIDE DEF h
  <1>10. a \o b \in Seq(Steps) /\ Len(a \o b) = 24
    <2>1. a \o b \in Seq(Steps) /\ Len(a \o b) = Len(a) + Len(b)
      BY <1>3, <1>4, Joined
    <2> QED
      BY <1>3, <1>4, <2>1
  <1> DEFINE ab == a \o b
  <1> HIDE DEF ab
  <1>11. ab \o d \in Seq(Steps) /\ Len(ab \o d) = 40
    <2>1. ab \o d \in Seq(Steps) /\ Len(ab \o d) = Len(ab) + Len(d)
      BY <1>4, <1>10, Joined DEF ab
    <2> QED
      BY <1>4, <1>10, <2>1 DEF ab
  <1> DEFINE abd == ab \o d
  <1> HIDE DEF abd
  <1>12. abd \o e \in Seq(Steps) /\ Len(abd \o e) = 40 + m
    <2>1. abd \o e \in Seq(Steps) /\ Len(abd \o e) = Len(abd) + Len(e)
      BY <1>5, <1>11, Joined DEF abd
    <2> QED
      BY <1>5, <1>11, <2>1 DEF abd
  <1> DEFINE abde == abd \o e
  <1> HIDE DEF abde
  <1>13. abde \o f \in Seq(Steps) /\ Len(abde \o f) = 44 + m
    <2>1. abde \o f \in Seq(Steps) /\ Len(abde \o f) = Len(abde) + Len(f)
      BY <1>6, <1>12, Joined DEF abde
    <2> QED
      BY <1>5, <1>6, <1>12, <2>1 DEF abde
  <1> DEFINE abdef == abde \o f
  <1> HIDE DEF abdef
  <1>14. abdef \o g \in Seq(Steps) /\ Len(abdef \o g) = 47 + m
    <2>1. abdef \o g \in Seq(Steps) /\ Len(abdef \o g) = Len(abdef) + Len(g)
      BY <1>6, <1>13, Joined DEF abdef
    <2> QED
      BY <1>5, <1>6, <1>13, <2>1 DEF abdef
  <1> DEFINE abdefg == abdef \o g
  <1> HIDE DEF abdefg
  <1>15. abdefg \o h \in Seq(Steps) /\ Len(abdefg \o h) = 48 + m
    <2>1. abdefg \o h \in Seq(Steps) /\ Len(abdefg \o h) = Len(abdefg) + Len(h)
      BY <1>9, <1>14, Joined DEF abdefg
    <2> QED
      BY <1>5, <1>9, <1>14, <2>1 DEF abdefg
  <1>16. s = abdefg \o h
    BY <1>7 DEF abdefg, abdef, abde, abd, ab
  <1>17. s \in Seq(Steps) /\ Len(s) = 48 + m
    BY <1>15, <1>16
  <1>18. Within(s, 0, abdefg \o h)
    <2>1. Within(s, 0, s)
      <3>1. \A i \in 1..Len(s) : 0 + i = i
        BY <1>17, LenProperties
      <3> QED
        BY <3>1 DEF Within
    <2> QED
      BY <1>16, <2>1
  <1> DEFINE o == 0
  <1>19. o \in Nat /\ Within(s, o, abdefg \o h) /\ o = 0
    BY <1>18
  <1> HIDE DEF o
  <1>20. Within(s, o, abdefg) /\ Within(s, o + (47 + m), h)
    BY <1>9, <1>14, <1>19, Splits DEF abdefg
  <1>21. Within(s, o, abdef) /\ Within(s, o + (44 + m), g)
    BY <1>6, <1>13, <1>19, <1>20, Splits DEF abdefg, abdef
  <1>22. Within(s, o, abde) /\ Within(s, o + (40 + m), f)
    BY <1>6, <1>12, <1>19, <1>21, Splits DEF abdef, abde
  <1>23. Within(s, o, abd) /\ Within(s, o + 40, e)
    BY <1>5, <1>11, <1>19, <1>22, Splits DEF abde, abd
  <1>24. Within(s, o, ab) /\ Within(s, o + 24, d)
    BY <1>4, <1>10, <1>19, <1>23, Splits DEF abd, ab
  <1>25. Within(s, o, a) /\ Within(s, o + 8, b)
    BY <1>3, <1>4, <1>19, <1>24, Splits DEF ab
  <1>26. RunAt(s, 0, GetProgramID) /\ s[8] = Do("check", 0)
    BY <1>19, <1>25, CheckSteps DEF a
  <1>27. FreqAt(s, 8, c.ref, UpdateRefClk) /\ FreqAt(s, 24, c.bw, UpdateBW)
    <2>1. Within(s, 8, b) /\ Within(s, 24, d)
      BY <1>19, <1>24, <1>25
    <2>2. UpdateRefClk \in Bytes /\ UpdateBW \in Bytes /\ 8 \in Nat /\ 24 \in Nat
      BY DEF UpdateRefClk, UpdateBW, Bytes
    <2> QED
      BY <1>1, <2>1, <2>2, FreqSteps DEF b, d
  <1>28. c.pair # None => PairAt(s, 40, c.pair)
    <2> SUFFICES ASSUME c.pair # None PROVE PairAt(s, 40, c.pair)
      OBVIOUS
    <2>1. Within(s, 40, SetPair(c.pair)) /\ 40 \in Nat
      BY <1>19, <1>23 DEF e
    <2> QED
      BY <1>1, <2>1, PairSteps
  <1>29. RunAt(s, LastOf(c), c.id)
    <2> DEFINE q == LastOf(c)
    <2>1. q \in Nat /\ o + (40 + m) = q /\ o + (44 + m) = q + 4
      BY <1>5, <1>8, <1>19
    <2> HIDE DEF q
    <2>2. Within(s, q, f) /\ Within(s, q + 4, g)
      BY <1>21, <1>22, <2>1
    <2>3. RunAt(s, q, c.id)
      BY <1>1, <2>1, <2>2, RunWithin DEF f, g
    <2> QED
      BY <2>3 DEF q
  <1>30. s[LastOf(c) + 8] = x
    <2>1. 1 \in 1..Len(h) /\ o + (47 + m) + 1 = LastOf(c) + 8
      BY <1>5, <1>8, <1>9, <1>19
    <2>2. s[o + (47 + m) + 1] = h[1]
      BY <1>20, <2>1 DEF Within
    <2> QED
      BY <1>9, <2>1, <2>2
  <1>31. Len(s) = LastOf(c) + 8
    BY <1>5, <1>8, <1>17
  <1> QED
    BY <1>17, <1>26, <1>27, <1>28, <1>29, <1>30, <1>31 DEF CalibrateAt, s, x

LEMMA Advance ==
    ASSUME NEW s \in Seq(Steps), NEW n \in 1..Len(s)
    PROVE  /\ Rest(s, n) # <<>> /\ Head(Rest(s, n)) = s[n]
           /\ Tail(Rest(s, n)) = IF n = Len(s) THEN <<>> ELSE Rest(s, n + 1)
  <1>1. Len(s) \in Nat /\ DOMAIN s = 1..Len(s) /\ \A i \in 1..Len(s) : s[i] \in Steps
    BY LenProperties, ElementOfSeq
  <1>2. Len(s) \in 1..Len(s) /\ Len(s) \in n..Len(s)
    BY <1>1
  <1>3. Head(Rest(s, n)) = s[n] /\ Tail(Rest(s, n)) = SubSeq(s, n + 1, Len(s))
    BY <1>2, HeadTailOfSubSeq DEF Rest
  <1>4. Rest(s, n) \in Seq(Steps) /\ Len(Rest(s, n)) = Len(s) - n + 1
    <2>1. \A i \in n..Len(s) : s[i] \in Steps
      BY <1>1
    <2> QED
      BY <1>1, <2>1, SubSeqProperties DEF Rest
  <1>5. Rest(s, n) # <<>>
    BY <1>1, <1>4, EmptySeq
  <1>6. n = Len(s) => SubSeq(s, n + 1, Len(s)) = <<>>
    BY <1>1, SubSeqEmpty
  <1> QED
    BY <1>3, <1>5, <1>6 DEF Rest

\* When the program has to be sent first.
LEMMA Before ==
    ASSUME NEW s \in Seq(Steps), NEW n \in 1..Len(s)
    PROVE  LET w == <<Do("program", 0)>> \o Rest(s, n)
           IN  w # <<>> /\ Head(w) = Do("program", 0) /\ Tail(w) = Rest(s, n)
  <1> DEFINE x == Do("program", 0)
             t == Rest(s, n)
             v == <<x>>
             w == v \o t
  <1>1. x \in Steps
    <2>1. 0 \in BOOLEAN \cup Bytes
      BY DEF Bytes
    <2> QED
      BY <2>1, DoIsStep DEF Ops
  <1>2. t \in Seq(Steps)
    <2>1. \A i \in n..Len(s) : s[i] \in Steps
      BY LenProperties, ElementOfSeq
    <2> QED
      BY <2>1, LenProperties, SubSeqProperties DEF Rest
  <1> HIDE DEF x, t
  <1>3. v \in Seq(Steps) /\ Len(v) = 1 /\ v[1] = x
    BY <1>1
  <1> HIDE DEF v
  <1>4. w \in Seq(Steps) /\ Len(w) = 1 + Len(t) /\ Len(t) \in Nat
    <2>1. w \in Seq(Steps) /\ Len(w) = Len(v) + Len(t)
      BY <1>2, <1>3, Joined
    <2> QED
      BY <1>2, <1>3, <2>1, LenProperties
  <1>5. \A i \in 1..Len(w) : w[i] = IF i <= 1 THEN v[i] ELSE t[i - 1]
    BY <1>2, <1>3, <1>4, ConcatProperties
  <1> HIDE DEF w
  <1>6. w # <<>>
    BY <1>4, EmptySeq
  <1>7. Head(w) = x
    <2>1. Head(w) = w[1]
      BY <1>4, <1>6, HeadTailProperties
    <2>2. w[1] = v[1]
      BY <1>4, <1>5
    <2> QED
      BY <1>3, <2>1, <2>2
  <1>8. Tail(w) = t
    <2>1. /\ Tail(w) \in Seq(Steps) /\ Len(Tail(w)) = Len(w) - 1
          /\ \A i \in 1..Len(Tail(w)) : Tail(w)[i] = w[i + 1]
      BY <1>4, <1>6, HeadTailProperties
    <2>2. Len(Tail(w)) = Len(t)
      BY <1>4, <2>1
    <2>3. ASSUME NEW i \in 1..Len(t)
          PROVE  Tail(w)[i] = t[i]
      <3>1. Tail(w)[i] = w[i + 1]
        BY <2>1, <2>2, <2>3
      <3>2. i + 1 \in 1..Len(w) /\ ~(i + 1 <= 1) /\ i + 1 - 1 = i
        BY <1>4, <2>3
      <3>3. w[i + 1] = t[i + 1 - 1]
        BY <1>5, <3>2
      <3> QED
        BY <3>1, <3>2, <3>3
    <2> QED
      BY <1>2, <2>1, <2>2, <2>3, SeqEqual
  <1> QED
    BY <1>6, <1>7, <1>8 DEF w, v, x, t

-----------------------------------------------------------------------------
\* What the steps of a calibration do.

LEMMA SwitchStep ==
    ASSUME DriverStep, script # <<>>, NEW a, Head(script) = Do("switch", a),
           call.kind = "calibrate"
    PROVE  /\ UNCHANGED <<currentInstruction, inputRegs, RefClk, bandwidthRF, extLoopbackPair,
                          finished, call, calls>>
           /\ UNCHANGED <<alive, main, runProcedure, P1, P0, latched, asked, value>>
           /\ script' = Tail(script)
           /\ Settled
           /\ mcuHasSPI' = a /\ doing' = [doing EXCEPT !.bus = @ /\ a]
  <1>1. Head(script).op = "switch" /\ arg = a
    BY DEF Do, arg
  <1>2. SetSwitch
    BY <1>1 DEF DriverStep, At, SetSwitch, WriteP0, Pulse, Sleep, Poll, Check, Program,
       ProgramFails, Write020C, Return
  <1> QED
    BY <1>1, <1>2 DEF SetSwitch, Done, regs, firmware, request, control, params,
       history

LEMMA P0Step ==
    ASSUME DriverStep, script # <<>>, NEW a, Head(script) = Do("P0", a),
           call.kind = "calibrate"
    PROVE  /\ UNCHANGED <<currentInstruction, inputRegs, RefClk, bandwidthRF, extLoopbackPair,
                          finished, call, calls>>
           /\ UNCHANGED <<alive, main, runProcedure, P1, latched, asked, mcuHasSPI, doing, value>>
           /\ script' = Tail(script)
           /\ P0' = a
  <1>1. Head(script).op = "P0" /\ arg = a
    BY DEF Do, arg
  <1>2. WriteP0
    BY <1>1 DEF DriverStep, At, SetSwitch, WriteP0, Pulse, Sleep, Poll, Check, Program,
       ProgramFails, Write020C, Return
  <1> QED
    BY <1>1, <1>2 DEF WriteP0, Done, regs, firmware, request, control, params,
       history

LEMMA PulseStep ==
    ASSUME DriverStep, script # <<>>, NEW a, Head(script) = Do("pulse", a),
           call.kind = "calibrate"
    PROVE  /\ UNCHANGED <<currentInstruction, inputRegs, RefClk, bandwidthRF, extLoopbackPair,
                          finished, call, calls>>
           /\ UNCHANGED <<alive, main, runProcedure, P1, P0, mcuHasSPI, doing, value>>
           /\ script' = Tail(script)
           /\ latched' = IF alive THEN latched \cup {a} ELSE latched
           /\ a = 3 => asked' = calls
  <1>1. Head(script).op = "pulse" /\ arg = a
    BY DEF Do, arg
  <1>2. Pulse
    BY <1>1 DEF DriverStep, At, SetSwitch, WriteP0, Pulse, Sleep, Poll, Check, Program,
       ProgramFails, Write020C, Return
  <1> QED
    BY <1>1, <1>2 DEF Pulse, Done, regs, firmware, request, control, params,
       history

LEMMA SleepStep ==
    ASSUME DriverStep, script # <<>>, Head(script) = Do("sleep", 0),
           call.kind = "calibrate"
    PROVE  /\ UNCHANGED <<currentInstruction, inputRegs, RefClk, bandwidthRF, extLoopbackPair,
                          finished, call, calls>>
           /\ UNCHANGED <<alive, main, runProcedure, P1, P0, latched, asked, mcuHasSPI, doing,
                          value>>
           /\ script' = Tail(script)
           /\ Settled
  <1>1. Head(script).op = "sleep" /\ arg = 0
    BY DEF Do, arg
  <1>2. Sleep
    BY <1>1 DEF DriverStep, At, SetSwitch, WriteP0, Pulse, Sleep, Poll, Check, Program,
       ProgramFails, Write020C, Return
  <1> QED
    BY <1>1, <1>2 DEF Sleep, Done, regs, firmware, request, control, params,
       history

LEMMA PollStep ==
    ASSUME DriverStep, script # <<>>, Head(script) = Do("poll", 0),
           call.kind = "calibrate"
    PROVE  /\ UNCHANGED <<currentInstruction, inputRegs, RefClk, bandwidthRF, extLoopbackPair,
                          finished, call, calls>>
           /\ UNCHANGED <<alive, main, runProcedure, P1, P0, latched, asked, mcuHasSPI, doing>>
           /\ script' = Tail(script)
           /\ P1 # MCU_WORKING \/ Unanswered
           /\ value' = IF P1 = MCU_WORKING THEN TimedOut ELSE P1
  <1>1. Head(script).op = "poll" /\ arg = 0
    BY DEF Do, arg
  <1>2. Poll
    BY <1>1 DEF DriverStep, At, SetSwitch, WriteP0, Pulse, Sleep, Poll, Check, Program,
       ProgramFails, Write020C, Return
  <1> QED
    BY <1>1, <1>2 DEF Poll, Done, regs, firmware, request, control, params,
       history

LEMMA CheckStep ==
    ASSUME DriverStep, script # <<>>, Head(script) = Do("check", 0),
           call.kind = "calibrate"
    PROVE  /\ UNCHANGED <<currentInstruction, inputRegs, RefClk, bandwidthRF, extLoopbackPair,
                          finished, call, calls>>
           /\ UNCHANGED <<alive, main, runProcedure, P1, P0, latched, asked, mcuHasSPI, doing,
                          value>>
           /\ script' = IF value = ProgramID THEN Tail(script)
                        ELSE <<Do("program", 0)>> \o Tail(script)
  <1>1. Head(script).op = "check" /\ arg = 0
    BY DEF Do, arg
  <1>2. Check
    BY <1>1 DEF DriverStep, At, SetSwitch, WriteP0, Pulse, Sleep, Poll, Check, Program,
       ProgramFails, Write020C, Return
  <1> QED
    BY <1>1, <1>2 DEF Check, Done, regs, firmware, request, control, params,
       history

LEMMA ReturnStep ==
    ASSUME DriverStep, script # <<>>, Head(script) = Do("return", 0),
           call.kind = "calibrate"
    PROVE  /\ UNCHANGED <<currentInstruction, inputRegs, RefClk, bandwidthRF, extLoopbackPair,
                          finished, call, calls>>
           /\ UNCHANGED <<alive, main, runProcedure, P1, P0, latched, asked, mcuHasSPI, doing,
                          value>>
           /\ script' = Tail(script)
           /\ result' = value
  <1>1. Head(script).op = "return" /\ arg = 0
    BY DEF Do, arg
  <1>2. Return
    BY <1>1 DEF DriverStep, At, SetSwitch, WriteP0, Pulse, Sleep, Poll, Check, Program,
       ProgramFails, Write020C, Return
  <1> QED
    BY <1>1, <1>2 DEF Return, Done, regs, firmware, request, control, params,
       history

LEMMA ProgramStep ==
    ASSUME DriverStep, script # <<>>, Head(script) = Do("program", 0),
           call.kind = "calibrate"
    PROVE  /\ UNCHANGED <<currentInstruction, inputRegs, RefClk, bandwidthRF, extLoopbackPair,
                          finished, call, calls>>
           /\ UNCHANGED <<P0, asked, mcuHasSPI, doing, value>>
           /\ P1' = MCU_IDLE /\ main' = "poll" /\ latched' = {} /\ runProcedure' = FALSE
           /\ \/ alive' = TRUE /\ script' = Tail(script)
              \/ alive' = FALSE /\ script' = <<>> /\ result' = NotProgrammed
  <1>1. Head(script).op = "program" /\ arg = 0
    BY DEF Do, arg
  <1>2. Program \/ ProgramFails
    BY <1>1 DEF DriverStep, At, SetSwitch, WriteP0, Pulse, Sleep, Poll, Check, Program,
       ProgramFails, Write020C, Return
  <1> QED
    BY <1>1, <1>2 DEF Program, ProgramFails, Done, regs, firmware, request, control, params,
       history

\* The procedures of a calibration: only the last may be slow or another than gain control's.
LEMMA Ids ==
    ASSUME call \in Calls, call.kind = "calibrate", NEW m \in 1..4
    PROVE  /\ IdOf(m) # AGC
           /\ m # 4 => IdOf(m) \notin Slow
           /\ IdOf(1) = UpdateRefClk /\ IdOf(2) = UpdateBW /\ IdOf(3) = SetLoopback
           /\ IdOf(4) = call.id /\ call.id \notin Quick
  <1>1. call.id \notin Quick \cup {AGC} /\ Slow \cap Quick = {}
    BY McuAssumption
  <1>2. IdOf(1) = UpdateRefClk /\ IdOf(2) = UpdateBW /\ IdOf(3) = SetLoopback /\ IdOf(4) = call.id
    BY DEF IdOf
  <1>3. {UpdateRefClk, UpdateBW, SetLoopback} \subseteq Quick
    BY DEF Quick
  <1>4. UpdateRefClk # AGC /\ UpdateBW # AGC /\ SetLoopback # AGC
    BY DEF UpdateRefClk, UpdateBW, SetLoopback, AGC
  <1>5. m = 1 \/ m = 2 \/ m = 3 \/ m = 4
    OBVIOUS
  <1> QED
    BY <1>1, <1>2, <1>3, <1>4, <1>5

LEMMA RunDriver ==
    ASSUME McuOK, call \in Calls, call.kind = "calibrate",
           NEW m \in 1..4, NEW k \in 1..7, RunPos(m, k),
           DriverStep, script # <<>>,
           NEW s, NEW o \in Nat, RunAt(s, o, IdOf(m)), Head(script) = s[o + k]
    PROVE  RunPos(m, k + 1)' /\ script' = Tail(script) /\ UNCHANGED <<call, calls>>
  <1>1. CASE k = 1
    <2>1. Head(script) = Do("switch", TRUE)
      BY <1>1 DEF RunAt
    <2>2. /\ UNCHANGED <<inputRegs, RefClk, bandwidthRF, extLoopbackPair, call, calls, alive,
                         main, runProcedure, latched>>
          /\ script' = Tail(script) /\ mcuHasSPI' = TRUE
      BY <2>1, SwitchStep
    <2>3. Quiet /\ Known(m) /\ Ready(m)
      BY <1>1 DEF RunPos
    <2>4. Quiet' /\ Known(m)' /\ Ready(m)' /\ mcuHasSPI'
      BY <2>2, <2>3 DEF Quiet, Known, Ready
    <2> QED
      BY <1>1, <2>2, <2>4 DEF RunPos
  <1>2. CASE k = 2
    <2>1. Head(script) = Do("P0", IdOf(m))
      BY <1>2 DEF RunAt
    <2>2. /\ UNCHANGED <<inputRegs, RefClk, bandwidthRF, extLoopbackPair, call, calls, alive,
                         main, runProcedure, latched, mcuHasSPI>>
          /\ script' = Tail(script) /\ P0' = IdOf(m)
      BY <2>1, P0Step
    <2>3. Quiet /\ Known(m) /\ Ready(m) /\ mcuHasSPI
      BY <1>2 DEF RunPos
    <2>4. Quiet' /\ Known(m)' /\ Ready(m)' /\ mcuHasSPI' /\ P0' = IdOf(m)'
      BY <2>2, <2>3 DEF Quiet, Known, Ready, IdOf
    <2> QED
      BY <1>2, <2>2, <2>4 DEF RunPos
  <1>3. CASE k = 3
    <2>1. Head(script) = Do("pulse", 3)
      BY <1>3 DEF RunAt
    <2>2. /\ UNCHANGED <<inputRegs, RefClk, bandwidthRF, extLoopbackPair, call, calls, alive,
                         main, runProcedure, mcuHasSPI, P0>>
          /\ script' = Tail(script) /\ asked' = calls
          /\ latched' = IF alive THEN latched \cup {3} ELSE latched
      BY <2>1, PulseStep
    <2>3. Quiet /\ Known(m) /\ Ready(m) /\ mcuHasSPI /\ P0 = IdOf(m)
      BY <1>3 DEF RunPos
    <2>4. alive' /\ latched' = {3} /\ main' = "poll" /\ ~runProcedure'
      BY <2>2, <2>3 DEF Quiet
    <2>5. /\ Known(m)' /\ Ready(m)' /\ mcuHasSPI' /\ P0' = IdOf(m)' /\ asked' = calls'
      BY <2>2, <2>3 DEF Known, Ready, IdOf
    <2> QED
      BY <1>3, <2>2, <2>4, <2>5 DEF RunPos
  <1>4. CASE k \in {4, 5}
    <2>1. Head(script) = Do("sleep", 0)
      BY <1>4 DEF RunAt
    <2>2. /\ UNCHANGED <<inputRegs, RefClk, bandwidthRF, extLoopbackPair, call, calls, alive,
                         main, runProcedure, mcuHasSPI, P0, P1, latched, currentInstruction,
                         asked, doing, finished>>
          /\ script' = Tail(script) /\ Settled
      BY <2>1, SleepStep
    <2>3. Served(m)
      BY <1>4, <2>2 DEF RunPos, Settled
    <2>4. Served(m)'
      BY <2>2, <2>3 DEF Served, Waits, Runs, Over, Known, Ready, IdOf, Own, Gone
    <2> QED
      BY <1>4, <2>2, <2>4 DEF RunPos
  <1>5. CASE k = 6
    <2>1. Head(script) = Do("poll", 0)
      BY <1>5 DEF RunAt
    <2>2. /\ UNCHANGED <<inputRegs, RefClk, bandwidthRF, extLoopbackPair, call, calls, alive,
                         main, runProcedure, P1, latched, finished>>
          /\ script' = Tail(script)
          /\ P1 # MCU_WORKING \/ Unanswered
          /\ value' = IF P1 = MCU_WORKING THEN TimedOut ELSE P1
      BY <2>1, PollStep
    <2>3. Served(m)
      BY <1>5 DEF RunPos
    <2>4. ASSUME m # 4 \/ value' # TimedOut
          PROVE  Over(m) /\ (m = 4 => finished.status = value')
      <3>1. m # 4 \/ P1 # MCU_WORKING
        BY <2>2, <2>4
      <3>2. currentInstruction = IdOf(m)
        BY <2>3 DEF Served
      <3>3. m # 4 => currentInstruction \notin Slow
        BY <3>2, Ids
      <3>4. Over(m)
        <4>1. alive
          BY <2>3 DEF Served
        <4>2. Waits(m) => P1 = MCU_WORKING /\ ~Unanswered
          BY <4>1 DEF Waits, Unanswered
        <4>3. Runs(m) => P1 = MCU_WORKING /\ (m # 4 => ~Unanswered)
          BY <3>3, <4>1 DEF Runs, Unanswered
        <4> QED
          BY <2>2, <2>3, <3>1, <4>2, <4>3 DEF Served
      <3>5. m = 4 => finished.status = value'
        BY <2>2, <3>1, <3>4 DEF Over
      <3> QED
        BY <3>4, <3>5
    <2>5. Over(m) => Over(m)'
      BY <2>2 DEF Over, Known, Gone, Own
    <2>6. alive' /\ latched' = {}
      BY <2>2, <2>3 DEF Served
    <2> QED
      BY <1>5, <2>2, <2>4, <2>5, <2>6 DEF RunPos
  <1>6. CASE k = 7
    <2>1. Head(script) = Do("switch", FALSE)
      BY <1>6 DEF RunAt
    <2>2. /\ UNCHANGED <<RefClk, bandwidthRF, extLoopbackPair, call, calls, alive,
                         main, runProcedure, P1, latched, finished, value>>
          /\ script' = Tail(script) /\ Settled
      BY <2>1, SwitchStep
    <2>3. ASSUME m # 4 \/ value # TimedOut
          PROVE  Quiet' /\ Known(m + 1)' /\ (m = 4 => (Own(finished) /\ finished.status = value)')
      <3>1. alive /\ latched = {} /\ Over(m) /\ (m = 4 => finished.status = value)
        BY <1>6, <2>3 DEF RunPos
      <3>2. Quiet'
        BY <2>2, <3>1 DEF Quiet, Settled, Over, Gone
      <3>3. Known(m + 1)'
        <4>1. Known(m + 1)
          BY <3>1 DEF Over
        <4> QED
          BY <2>2, <4>1 DEF Known
      <3>4. m = 4 => (Own(finished) /\ finished.status = value)'
        BY <2>2, <3>1 DEF Over, Own
      <3> QED
        BY <3>2, <3>3, <3>4
    <2> QED
      BY <1>6, <2>2, <2>3 DEF RunPos
  <1> QED
    BY <1>1, <1>2, <1>3, <1>4, <1>5, <1>6

-----------------------------------------------------------------------------
\* What the MCU does meanwhile.

LEMMA McuFrame ==
    ASSUME McuStep
    PROVE  UNCHANGED <<script, call, calls, value, result, mcuHasSPI, P0, asked, alive>>
  BY DEF McuStep, ext2_int, ext3_int, PickUp, Finish, Clear, driver, request, control, params,
     history

LEMMA QuietStays == Quiet => ~McuStep
  BY DEF Quiet, McuStep, ext2_int, ext3_int, PickUp, Finish, Clear

\* A procedure that has been picked up leaves its results.
LEMMA Finished ==
    ASSUME McuOK, Finish
    PROVE  /\ UNCHANGED <<latched, currentInstruction, runProcedure, inputRegs, doing>>
           /\ main = "busy" /\ main' = "clear"
           /\ P1' = finished'.status /\ P1' \in Statuses(doing.id)
           /\ \A x \in Fields \ {"status"} : finished'[x] = doing[x]
           /\ DOMAIN finished' = Fields
           /\ RefClk' = IF doing.id = UpdateRefClk THEN inputRegs ELSE RefClk
           /\ bandwidthRF' = IF doing.id = UpdateBW THEN inputRegs ELSE bandwidthRF
           /\ extLoopbackPair' = IF doing.id = SetLoopback THEN inputRegs[1] ELSE extLoopbackPair
  <1>1. DOMAIN doing = Fields
    BY DEF McuOK
  <1>2. PICK status \in Statuses(doing.id) :
           P1' = status /\ finished' = [doing EXCEPT !.status = status]
    BY DEF Finish
  <1>3. /\ finished'.status = status /\ DOMAIN finished' = Fields
        /\ \A x \in Fields \ {"status"} : finished'[x] = doing[x]
    BY <1>1, <1>2 DEF Fields
  <1>4. /\ UNCHANGED <<latched, currentInstruction, runProcedure, inputRegs, doing>>
        /\ main = "busy" /\ main' = "clear"
        /\ RefClk' = IF doing.id = UpdateRefClk THEN inputRegs ELSE RefClk
        /\ bandwidthRF' = IF doing.id = UpdateBW THEN inputRegs ELSE bandwidthRF
        /\ extLoopbackPair' = IF doing.id = SetLoopback THEN inputRegs[1] ELSE extLoopbackPair
    BY DEF Finish, request
  <1> QED
    BY <1>2, <1>3, <1>4

LEMMA OverStays ==
    ASSUME NEW m \in 1..4, latched = {}, Over(m), McuStep
    PROVE  Over(m)' /\ latched' = {} /\ UNCHANGED <<P1, currentInstruction, finished>>
  <1>1. Clear
    BY DEF Over, Gone, McuStep, ext2_int, ext3_int, PickUp, Finish, Clear
  <1>2. /\ UNCHANGED <<call, calls, P1, currentInstruction, latched, RefClk, bandwidthRF,
                       extLoopbackPair, finished>>
        /\ main' = "poll" /\ runProcedure' = FALSE
    BY <1>1 DEF Clear, driver, request, params, history
  <1> QED
    BY <1>2 DEF Over, Gone, Known, Own

LEMMA ServedStays ==
    ASSUME McuOK, call \in Calls, call.kind = "calibrate", NEW m \in 1..4,
           Served(m), McuStep
    PROVE  Served(m)'
  <1>0. /\ alive /\ latched = {} /\ currentInstruction = IdOf(m)
        /\ UNCHANGED <<call, calls, mcuHasSPI, P0, asked, alive>>
    BY McuFrame DEF Served
  <1>1. IdOf(m)' = IdOf(m)
    BY <1>0 DEF IdOf
  <1>2. CASE Waits(m)
    <2>1. PickUp
      BY <1>0, <1>2 DEF Waits, McuStep, ext2_int, ext3_int, PickUp, Finish, Clear
    <2>2. currentInstruction # AGC
      BY <1>0, Ids
    <2>3. /\ main' = "busy" /\ UNCHANGED <<P1, latched, currentInstruction, inputRegs, RefClk,
                                           bandwidthRF, extLoopbackPair>>
          /\ doing' = [call |-> asked, id |-> currentInstruction, ref |-> RefClk,
                       bw |-> bandwidthRF, pair |-> extLoopbackPair, bus |-> mcuHasSPI,
                       status |-> MCU_WORKING]
      BY <2>1, <2>2 DEF PickUp, request, params
    <2>4. Known(m)' /\ Ready(m)'
      BY <1>0, <1>2, <2>3 DEF Waits, Known, Ready
    <2>5. doing'.id = IdOf(m)
      BY <1>0, <2>3
    <2>6. m = 4 => Own(doing)'
      <3> SUFFICES ASSUME m = 4 PROVE Own(doing)'
        OBVIOUS
      <3>1. /\ RefClk = call.ref /\ bandwidthRF = call.bw
            /\ call.pair # None => extLoopbackPair = call.pair
            /\ mcuHasSPI /\ asked = calls
        BY <1>2 DEF Waits, Known
      <3>2. currentInstruction = call.id
        BY <1>0, Ids
      <3>3. doing'.bus
        BY <2>3, <3>1
      <3>4. /\ doing'.call = asked /\ doing'.id = currentInstruction /\ doing'.ref = RefClk
            /\ doing'.bw = bandwidthRF /\ doing'.pair = extLoopbackPair
        BY <2>3
      <3> QED
        BY <1>0, <3>1, <3>2, <3>3, <3>4 DEF Own
    <2>7. Runs(m)'
      BY <1>1, <1>2, <2>3, <2>4, <2>5, <2>6 DEF Runs, Waits
    <2> QED
      BY <1>0, <1>1, <2>3, <2>7 DEF Served
  <1>3. CASE Runs(m)
    <2>1. Finish
      BY <1>0, <1>3 DEF Runs, McuStep, ext2_int, ext3_int, PickUp, Finish, Clear
    <2>2. /\ UNCHANGED <<latched, currentInstruction, runProcedure, inputRegs, doing>>
          /\ main' = "clear" /\ P1' = finished'.status
          /\ \A x \in Fields \ {"status"} : finished'[x] = doing[x]
          /\ RefClk' = IF doing.id = UpdateRefClk THEN inputRegs ELSE RefClk
          /\ bandwidthRF' = IF doing.id = UpdateBW THEN inputRegs ELSE bandwidthRF
          /\ extLoopbackPair' = IF doing.id = SetLoopback THEN inputRegs[1] ELSE extLoopbackPair
      BY <2>1, Finished
    <2>3. doing.id = IdOf(m) /\ Known(m) /\ Ready(m)
      BY <1>3 DEF Runs
    <2>4. Known(m + 1)'
      <3>1. m \in 1..3 => m = 1 \/ m = 2 \/ m = 3
        OBVIOUS
      <3>2. CASE m = 1
        <4>1. RefClk' = call.ref
          BY <2>2, <2>3, <3>2, Ids DEF Ready
        <4> QED
          BY <1>0, <3>2, <4>1 DEF Known
      <3>3. CASE m = 2
        <4>1. RefClk' = call.ref /\ bandwidthRF' = call.bw
          BY <2>2, <2>3, <3>3, Ids DEF Ready, Known, UpdateRefClk, UpdateBW
        <4> QED
          BY <1>0, <3>3, <4>1 DEF Known
      <3>4. CASE m = 3
        <4>1. RefClk' = call.ref /\ bandwidthRF' = call.bw /\ extLoopbackPair' = call.pair
          BY <2>2, <2>3, <3>4, Ids DEF Ready, Known, UpdateRefClk, UpdateBW, SetLoopback
        <4> QED
          BY <1>0, <3>4, <4>1 DEF Known
      <3>5. CASE m = 4
        <4>1. call.id \notin {UpdateRefClk, UpdateBW, SetLoopback}
          BY Ids DEF Quick
        <4>2. UNCHANGED <<RefClk, bandwidthRF, extLoopbackPair>>
          BY <2>2, <2>3, <3>5, <4>1, Ids
        <4> QED
          BY <1>0, <2>3, <3>5, <4>2 DEF Known
      <3> QED
        BY <3>1, <3>2, <3>3, <3>4, <3>5
    <2>5. m = 4 => Own(finished)'
      <3> SUFFICES ASSUME m = 4 PROVE Own(finished)'
        OBVIOUS
      <3>1. Own(doing)
        BY <1>3 DEF Runs
      <3>2. /\ finished'.call = doing.call /\ finished'.id = doing.id /\ finished'.ref = doing.ref
            /\ finished'.bw = doing.bw /\ finished'.pair = doing.pair
            /\ finished'.bus = doing.bus
        BY <2>2 DEF Fields
      <3>3. finished'.bus
        BY <3>1, <3>2 DEF Own
      <3> QED
        BY <1>0, <3>1, <3>2, <3>3 DEF Own
    <2>6. Over(m)'
      BY <2>2, <2>4, <2>5 DEF Over, Gone
    <2> QED
      BY <1>0, <1>1, <2>2, <2>6 DEF Served
  <1>4. CASE Over(m)
    BY <1>0, <1>1, <1>4, OverStays DEF Served
  <1> QED
    BY <1>2, <1>3, <1>4 DEF Served

LEMMA RunMcu ==
    ASSUME McuOK, call \in Calls, call.kind = "calibrate",
           NEW m \in 1..4, NEW k \in 1..8, RunPos(m, k), McuStep
    PROVE  RunPos(m, k)'
  <1>1. UNCHANGED <<script, call, calls, value, result, mcuHasSPI, P0, asked, alive>>
    BY McuFrame
  <1>2. k \notin 1..3
    BY QuietStays DEF RunPos
  <1>3. CASE k = 4
    <2>1. CASE Served(m)
      BY <1>3, <2>1, ServedStays DEF RunPos
    <2>2. CASE ~Served(m)
      <3>1. /\ alive /\ latched = {3} /\ main = "poll" /\ ~runProcedure
            /\ P0 = IdOf(m) /\ Known(m) /\ Ready(m) /\ mcuHasSPI /\ asked = calls
        BY <1>3, <2>2 DEF RunPos
      <3>2. ext3_int
        <4>1. 2 \notin latched /\ main = "poll" /\ ~runProcedure
          BY <3>1
        <4> QED
          BY <4>1 DEF McuStep, ext2_int, PickUp, Finish, Clear
      <3>3. /\ P1' = MCU_WORKING /\ currentInstruction' = P0 /\ runProcedure' = TRUE
            /\ latched' = {}
            /\ UNCHANGED <<main, inputRegs, RefClk, bandwidthRF, extLoopbackPair>>
        BY <3>1, <3>2 DEF ext3_int, params
      <3>4. Known(m)' /\ Ready(m)' /\ IdOf(m)' = IdOf(m)
        BY <1>1, <3>1, <3>3 DEF Known, Ready, IdOf
      <3>5. Waits(m)'
        BY <1>1, <3>1, <3>3, <3>4 DEF Waits
      <3>6. Served(m)'
        BY <1>1, <3>1, <3>3, <3>4, <3>5 DEF Served
      <3> QED
        BY <1>3, <3>6 DEF RunPos
    <2> QED
      BY <2>1, <2>2
  <1>4. CASE k \in {5, 6}
    BY <1>4, ServedStays DEF RunPos
  <1>5. CASE k = 7
    <2>1. ASSUME m # 4 \/ value # TimedOut
          PROVE  alive' /\ latched' = {} /\ Over(m)' /\ (m = 4 => finished'.status = value')
      <3>1. alive /\ latched = {} /\ Over(m) /\ (m = 4 => finished.status = value)
        BY <1>5, <2>1 DEF RunPos
      <3>2. Over(m)' /\ latched' = {} /\ finished' = finished
        BY <3>1, OverStays
      <3> QED
        BY <1>1, <3>1, <3>2
    <2> QED
      BY <1>1, <1>5, <2>1 DEF RunPos
  <1>6. CASE k = 8
    <2>1. ~(m # 4 \/ value # TimedOut)
      BY <1>6, QuietStays DEF RunPos
    <2> QED
      BY <1>1, <1>6, <2>1 DEF RunPos
  <1> QED
    BY <1>2, <1>3, <1>4, <1>5, <1>6

-----------------------------------------------------------------------------
\* Asking for the program.

LEMMA CheckDriver ==
    ASSUME McuOK, call \in Calls, call.kind = "calibrate",
           NEW k \in 1..7, CheckPos(k), DriverStep, script # <<>>,
           NEW s, RunAt(s, 0, GetProgramID), Head(script) = s[k]
    PROVE  CheckPos(k + 1)' /\ script' = Tail(script) /\ UNCHANGED <<call, calls>>
  <1>0. /\ s[1] = Do("switch", TRUE) /\ s[2] = Do("P0", GetProgramID) /\ s[3] = Do("pulse", 3)
        /\ s[4] = Do("sleep", 0) /\ s[5] = Do("sleep", 0)
        /\ s[6] = Do("poll", 0) /\ s[7] = Do("switch", FALSE)
    <2> DEFINE o == 0
    <2>1. RunAt(s, o, GetProgramID) /\ o = 0
      OBVIOUS
    <2> HIDE DEF o
    <2>2. /\ o + 1 = 1 /\ o + 2 = 2 /\ o + 3 = 3 /\ o + 4 = 4 /\ o + 5 = 5 /\ o + 6 = 6
          /\ o + 7 = 7
      BY <2>1
    <2> QED
      BY <2>1, <2>2 DEF RunAt
  <1>1. CASE k = 1
    <2>1. Head(script) = Do("switch", TRUE)
      BY <1>0, <1>1
    <2>2. script' = Tail(script) /\ UNCHANGED <<call, calls, alive, latched>> /\ Settled
      BY <2>1, SwitchStep
    <2> QED
      BY <1>1, <2>2 DEF CheckPos, Settled
  <1>2. CASE k = 2
    <2>1. Head(script) = Do("P0", GetProgramID)
      BY <1>0, <1>2
    <2>2. script' = Tail(script) /\ UNCHANGED <<call, calls, alive, latched>> /\ P0' = GetProgramID
      BY <2>1, P0Step
    <2> QED
      BY <1>2, <2>2 DEF CheckPos
  <1>3. CASE k = 3
    <2>1. Head(script) = Do("pulse", 3)
      BY <1>0, <1>3
    <2>2. /\ script' = Tail(script) /\ UNCHANGED <<call, calls, alive, P0>>
          /\ latched' = IF alive THEN latched \cup {3} ELSE latched
      BY <2>1, PulseStep
    <2>3. alive => latched' = {3} /\ P0' = GetProgramID
      BY <1>3, <2>2 DEF CheckPos
    <2> QED
      BY <1>3, <2>2, <2>3 DEF CheckPos, Requested
  <1>4. CASE k \in {4, 5}
    <2>1. Head(script) = Do("sleep", 0)
      BY <1>0, <1>4
    <2>2. /\ script' = Tail(script) /\ Settled
          /\ UNCHANGED <<call, calls, alive, P0, P1, latched, currentInstruction, main,
                         runProcedure>>
      BY <2>1, SleepStep
    <2>3. latched = {}
      BY <2>2 DEF Settled, McuOK
    <2>4. alive => Requested'
      BY <1>4, <2>2 DEF CheckPos, Requested
    <2> QED
      BY <1>4, <2>2, <2>3, <2>4 DEF CheckPos
  <1>5. CASE k = 6
    <2>1. Head(script) = Do("poll", 0)
      BY <1>0, <1>5
    <2>2. /\ script' = Tail(script)
          /\ UNCHANGED <<call, calls, alive, latched, main, runProcedure>>
          /\ P1 # MCU_WORKING \/ Unanswered
          /\ value' = IF P1 = MCU_WORKING THEN TimedOut ELSE P1
      BY <2>1, PollStep
    <2>3. latched = {} /\ (alive => Requested)
      BY <1>5 DEF CheckPos
    <2>4. alive => Gone
      <3> SUFFICES ASSUME alive PROVE Gone
        OBVIOUS
      <3>1. /\ currentInstruction = GetProgramID
            /\ main = "busy" \/ (main = "poll" /\ runProcedure) => P1 = MCU_WORKING
        BY <2>3 DEF Requested
      <3>2. currentInstruction \notin Slow
        BY <3>1, McuAssumption DEF Quick
      <3>3. P1 # MCU_WORKING \/ (main = "poll" /\ ~runProcedure)
        BY <2>2, <3>2 DEF Unanswered
      <3> QED
        BY <3>1, <3>3 DEF Gone, McuOK
    <2>5. ~alive => value' # ProgramID
      BY <2>2 DEF McuOK, MCU_IDLE, MCU_WORKING, ProgramID
    <2>6. alive' => latched' = {} /\ Gone'
      BY <2>2, <2>3, <2>4 DEF Gone
    <2> QED
      BY <1>5, <2>2, <2>5, <2>6 DEF CheckPos
  <1>6. CASE k = 7
    <2>1. Head(script) = Do("switch", FALSE)
      BY <1>0, <1>6
    <2>2. /\ script' = Tail(script) /\ Settled
          /\ UNCHANGED <<call, calls, alive, latched, main, runProcedure, value>>
      BY <2>1, SwitchStep
    <2>3. alive => Quiet
      BY <1>6, <2>2 DEF CheckPos, Settled, Gone, Quiet
    <2>4. alive' => Quiet'
      BY <2>2, <2>3 DEF Quiet
    <2>5. ~alive' => value' # ProgramID
      BY <1>6, <2>2 DEF CheckPos
    <2> QED
      BY <1>6, <2>2, <2>4, <2>5 DEF CheckPos
  <1> QED
    BY <1>1, <1>2, <1>3, <1>4, <1>5, <1>6

LEMMA CheckMcu ==
    ASSUME McuOK, NEW k \in 1..8, CheckPos(k), McuStep
    PROVE  CheckPos(k)'
  <1>1. UNCHANGED <<script, call, calls, value, result, mcuHasSPI, P0, asked, alive>> /\ alive
    BY McuFrame DEF McuStep, ext2_int, ext3_int, PickUp, Finish, Clear
  <1>2. latched' \subseteq latched
    BY DEF McuStep, ext2_int, ext3_int, PickUp, Finish, Clear, request
  <1>3. CASE k \in 1..3
    BY <1>1, <1>2, <1>3 DEF CheckPos
  <1>4. CASE k \in 4..6
    <2>1. Requested
      BY <1>1, <1>4 DEF CheckPos
    <2>2. ASSUME latched = {3} /\ P0 = GetProgramID
          PROVE  Requested'
      <3>1. CASE ext3_int
        <4>1. P1' = MCU_WORKING /\ currentInstruction' = P0 /\ latched' = {}
          BY <2>2, <3>1 DEF ext3_int
        <4> QED
          BY <2>2, <4>1 DEF Requested
      <3>2. CASE ~ext3_int
        <4>1. 2 \notin latched
          BY <2>2
        <4>2. PickUp \/ Finish \/ Clear
          BY <3>2, <4>1 DEF McuStep, ext2_int
        <4>3. latched' = latched
          BY <4>2 DEF PickUp, Finish, Clear, request
        <4> QED
          BY <1>1, <2>2, <4>3 DEF Requested
      <3> QED
        BY <3>1, <3>2
    <2>3. ASSUME latched = {} /\ currentInstruction = GetProgramID
          PROVE  Requested'
      <3>1. currentInstruction # AGC
        BY <2>3 DEF GetProgramID, AGC
      <3>2. CASE PickUp
        BY <2>1, <2>3, <3>1, <3>2 DEF Requested, PickUp, request
      <3>3. CASE Finish
        BY <2>3, <3>3 DEF Requested, Finish, request
      <3>4. CASE Clear
        BY <2>3, <3>4 DEF Requested, Clear, request
      <3> QED
        BY <2>3, <3>2, <3>3, <3>4 DEF McuStep, ext2_int, ext3_int
    <2>4. Requested'
      BY <2>1, <2>2, <2>3 DEF Requested
    <2> QED
      BY <1>1, <1>2, <1>4, <2>4 DEF CheckPos
  <1>5. CASE k = 7
    <2>1. latched = {} /\ Gone
      BY <1>1, <1>5 DEF CheckPos
    <2>2. Clear
      BY <2>1 DEF Gone, McuStep, ext2_int, ext3_int, PickUp, Finish
    <2>3. Gone'
      BY <2>2 DEF Clear, Gone
    <2> QED
      BY <1>1, <1>2, <1>5, <2>1, <2>3 DEF CheckPos
  <1>6. k # 8
    BY <1>1, QuietStays DEF CheckPos
  <1> QED
    BY <1>3, <1>4, <1>5, <1>6

-----------------------------------------------------------------------------
\* Sending bytes.

LEMMA SendsArrive ==
    ASSUME McuOK, NEW j \in 0..2, NEW f, Sends(j, f), McuStep
    PROVE  Sends(j, f)' /\ UNCHANGED <<RefClk, bandwidthRF, extLoopbackPair>>
  <1>1. UNCHANGED <<P0, alive>>
    BY McuFrame
  <1>2. alive /\ main = "poll" /\ ~runProcedure /\ latched \in {{}, {2}}
    BY DEF Sends
  <1>3. ext2_int
    <2>1. 3 \notin latched
      BY <1>2
    <2> QED
      BY <1>2, <2>1 DEF McuStep, ext3_int, PickUp, Finish, Clear
  <1>4. 2 \in latched
    BY <1>3 DEF ext2_int
  <1>5. latched = {2} /\ P0 = f[3 - j] /\ Got(j, f)
    BY <1>4 DEF Sends
  <1>6. /\ inputRegs' = <<P0, inputRegs[1], inputRegs[2]>>
        /\ latched' = {}
        /\ UNCHANGED <<main, runProcedure, RefClk, bandwidthRF, extLoopbackPair>>
    BY <1>3, <1>5 DEF ext2_int, control
  <1>7. Got(j + 1, f)'
    <2>1. ASSUME NEW i \in 1..j + 1
          PROVE  inputRegs'[i] = f[3 - (j + 1) + i]
      <3>1. CASE i = 1
        <4>1. 3 - (j + 1) + i = 3 - j
          BY <3>1
        <4> QED
          BY <1>5, <1>6, <3>1, <4>1
      <3>2. CASE i \in {2, 3}
        <4> DEFINE h == i - 1
        <4>1. h \in 1..j /\ 3 - (j + 1) + i = 3 - j + h /\ i = h + 1 /\ h \in {1, 2}
          BY <3>2
        <4>2. inputRegs'[i] = inputRegs[h]
          BY <1>6, <3>2
        <4> HIDE DEF h
        <4>3. inputRegs[h] = f[3 - j + h]
          BY <1>5, <4>1 DEF Got
        <4> QED
          BY <4>1, <4>2, <4>3
      <3>3. i = 1 \/ i \in {2, 3}
        BY <2>1
      <3> QED
        BY <3>1, <3>2, <3>3
    <2> QED
      BY <2>1 DEF Got
  <1> QED
    BY <1>1, <1>2, <1>6, <1>7 DEF Sends

\* A byte is written, announced, and has arrived once the driver has slept.
LEMMA ByteWritten ==
    ASSUME call.kind = "calibrate", DriverStep, script # <<>>, NEW b,
           NEW j \in 0..2, NEW f, Has(j, f), Head(script) = Do("P0", b)
    PROVE  /\ Has(j, f)' /\ P0' = b /\ script' = Tail(script)
           /\ UNCHANGED <<call, calls, RefClk, bandwidthRF, extLoopbackPair>>
  <1>1. /\ UNCHANGED <<call, calls, RefClk, bandwidthRF, extLoopbackPair, inputRegs, alive,
                       main, runProcedure, latched>>
        /\ P0' = b /\ script' = Tail(script)
    BY P0Step
  <1> QED
    BY <1>1 DEF Has, Quiet, Got

LEMMA BytePulsed ==
    ASSUME call.kind = "calibrate", DriverStep, script # <<>>,
           NEW j \in 0..2, NEW f, Has(j, f), P0 = f[3 - j], Head(script) = Do("pulse", 2)
    PROVE  /\ Sends(j, f)' /\ script' = Tail(script)
           /\ UNCHANGED <<call, calls, RefClk, bandwidthRF, extLoopbackPair>>
  <1>1. /\ UNCHANGED <<call, calls, RefClk, bandwidthRF, extLoopbackPair, inputRegs, alive,
                       main, runProcedure, P0>>
        /\ latched' = IF alive THEN latched \cup {2} ELSE latched
        /\ script' = Tail(script)
    BY PulseStep
  <1>2. latched' = {2} /\ alive' /\ main' = "poll" /\ ~runProcedure'
    BY <1>1 DEF Has, Quiet
  <1>3. Got(j, f)' /\ P0' = f[3 - j]
    BY <1>1 DEF Has, Got
  <1> QED
    BY <1>1, <1>2, <1>3 DEF Sends

LEMMA ByteSlept ==
    ASSUME call.kind = "calibrate", DriverStep, script # <<>>,
           NEW j \in 0..2, NEW f, Sends(j, f), Head(script) = Do("sleep", 0)
    PROVE  /\ Has(j + 1, f)' /\ script' = Tail(script)
           /\ UNCHANGED <<call, calls, RefClk, bandwidthRF, extLoopbackPair>>
  <1>1. /\ UNCHANGED <<call, calls, RefClk, bandwidthRF, extLoopbackPair, inputRegs, alive,
                       main, runProcedure, latched>>
        /\ Settled /\ script' = Tail(script)
    BY SleepStep
  <1>2. alive /\ main = "poll" /\ ~runProcedure /\ latched = {} /\ Got(j + 1, f)
    BY <1>1 DEF Sends, Settled
  <1>3. Quiet' /\ Got(j + 1, f)'
    BY <1>1, <1>2 DEF Quiet, Got
  <1> QED
    BY <1>1, <1>3 DEF Has

\* A step of SetParameter for a frequency.
LEMMA FreqDriver ==
    ASSUME McuOK, McuOK', call \in Calls, call.kind = "calibrate",
           NEW m \in {1, 2}, NEW f \in Seq(Bytes), Len(f) = 3,
           f = IF m = 1 THEN call.ref ELSE call.bw,
           NEW k \in 1..16, FreqPos(m, f, k), DriverStep, script # <<>>,
           NEW s, NEW o \in Nat, FreqAt(s, o, f, IdOf(m)), Head(script) = s[o + k]
    PROVE  /\ k \in 1..15 => FreqPos(m, f, k + 1)'
           /\ k = 16 => RunPos(m, 8)'
           /\ script' = Tail(script) /\ UNCHANGED <<call, calls>>
  <1>0. /\ s[o + 1] = Do("P0", f[3]) /\ s[o + 2] = Do("pulse", 2) /\ s[o + 3] = Do("sleep", 0)
        /\ s[o + 4] = Do("P0", f[2]) /\ s[o + 5] = Do("pulse", 2) /\ s[o + 6] = Do("sleep", 0)
        /\ s[o + 7] = Do("P0", f[1]) /\ s[o + 8] = Do("pulse", 2) /\ s[o + 9] = Do("sleep", 0)
        /\ RunAt(s, o + 9, IdOf(m))
    BY DEF FreqAt
  <1>1. k \in 1..9 => Known(m)
    BY DEF FreqPos
  <1>2. Known(m) /\ UNCHANGED <<call, RefClk, bandwidthRF, extLoopbackPair>> => Known(m)'
    BY DEF Known
  <1>3. CASE k \in {1, 4, 7}
    <2> DEFINE j == IF k = 1 THEN 0 ELSE IF k = 4 THEN 1 ELSE 2
    <2>1. j \in 0..2 /\ k = 3 * j + 1
      BY <1>3
    <2>2. Has(j, f) /\ Head(script) = Do("P0", f[3 - j])
      <3>1. CASE k = 1
        <4>1. j = 0 /\ 3 - j = 3
          BY <3>1
        <4> HIDE DEF j
        <4> QED
          BY <1>0, <3>1, <4>1 DEF FreqPos
      <3>2. CASE k = 4
        <4>1. j = 1 /\ 3 - j = 2
          BY <3>2
        <4> HIDE DEF j
        <4> QED
          BY <1>0, <3>2, <4>1 DEF FreqPos
      <3>3. CASE k = 7
        <4>1. j = 2 /\ 3 - j = 1
          BY <3>3
        <4> HIDE DEF j
        <4> QED
          BY <1>0, <3>3, <4>1 DEF FreqPos
      <3> QED
        BY <1>3, <3>1, <3>2, <3>3
    <2> HIDE DEF j
    <2>3. /\ Has(j, f)' /\ P0' = f[3 - j] /\ script' = Tail(script)
          /\ UNCHANGED <<call, calls, RefClk, bandwidthRF, extLoopbackPair>>
      BY <2>1, <2>2, ByteWritten
    <2>4. Known(m)'
      BY <1>1, <1>2, <1>3, <2>3
    <2>5. FreqPos(m, f, k + 1)'
      <3>1. CASE k = 1
        <4>1. j = 0 /\ 3 - j = 3
          BY <2>1, <3>1
        <4> QED
          BY <2>3, <2>4, <3>1, <4>1 DEF FreqPos
      <3>2. CASE k = 4
        <4>1. j = 1 /\ 3 - j = 2
          BY <2>1, <3>2
        <4> QED
          BY <2>3, <2>4, <3>2, <4>1 DEF FreqPos
      <3>3. CASE k = 7
        <4>1. j = 2 /\ 3 - j = 1
          BY <2>1, <3>3
        <4> QED
          BY <2>3, <2>4, <3>3, <4>1 DEF FreqPos
      <3> QED
        BY <1>3, <3>1, <3>2, <3>3
    <2> QED
      BY <1>3, <2>3, <2>5
  <1>4. CASE k \in {2, 5, 8}
    <2> DEFINE j == IF k = 2 THEN 0 ELSE IF k = 5 THEN 1 ELSE 2
    <2>1. j \in 0..2 /\ k = 3 * j + 2
      BY <1>4
    <2>2. Has(j, f) /\ P0 = f[3 - j] /\ Head(script) = Do("pulse", 2)
      <3>1. CASE k = 2
        <4>1. j = 0 /\ 3 - j = 3
          BY <3>1
        <4> HIDE DEF j
        <4> QED
          BY <1>0, <3>1, <4>1 DEF FreqPos
      <3>2. CASE k = 5
        <4>1. j = 1 /\ 3 - j = 2
          BY <3>2
        <4> HIDE DEF j
        <4> QED
          BY <1>0, <3>2, <4>1 DEF FreqPos
      <3>3. CASE k = 8
        <4>1. j = 2 /\ 3 - j = 1
          BY <3>3
        <4> HIDE DEF j
        <4> QED
          BY <1>0, <3>3, <4>1 DEF FreqPos
      <3> QED
        BY <1>4, <3>1, <3>2, <3>3
    <2> HIDE DEF j
    <2>3. /\ Sends(j, f)' /\ script' = Tail(script)
          /\ UNCHANGED <<call, calls, RefClk, bandwidthRF, extLoopbackPair>>
      BY <2>1, <2>2, BytePulsed
    <2>4. Known(m)'
      BY <1>1, <1>2, <1>4, <2>3
    <2>5. FreqPos(m, f, k + 1)'
      <3>1. CASE k = 2
        <4>1. j = 0
          BY <2>1, <3>1
        <4> QED
          BY <2>3, <2>4, <3>1, <4>1 DEF FreqPos
      <3>2. CASE k = 5
        <4>1. j = 1
          BY <2>1, <3>2
        <4> QED
          BY <2>3, <2>4, <3>2, <4>1 DEF FreqPos
      <3>3. CASE k = 8
        <4>1. j = 2
          BY <2>1, <3>3
        <4> QED
          BY <2>3, <2>4, <3>3, <4>1 DEF FreqPos
      <3> QED
        BY <1>4, <3>1, <3>2, <3>3
    <2> QED
      BY <1>4, <2>3, <2>5
  <1>5. CASE k \in {3, 6, 9}
    <2> DEFINE j == IF k = 3 THEN 0 ELSE IF k = 6 THEN 1 ELSE 2
               h == j + 1
    <2>1. j \in 0..2 /\ k = 3 * j + 3 /\ h = j + 1
      BY <1>5
    <2>2. Sends(j, f) /\ Head(script) = Do("sleep", 0)
      BY <1>0, <1>5 DEF FreqPos
    <2> HIDE DEF j, h
    <2>3. /\ Has(h, f)' /\ script' = Tail(script)
          /\ UNCHANGED <<call, calls, RefClk, bandwidthRF, extLoopbackPair>>
      BY <2>1, <2>2, ByteSlept
    <2>4. Known(m)'
      BY <1>1, <1>2, <1>5, <2>3
    <2>5. FreqPos(m, f, k + 1)'
      <3>1. CASE k = 3
        <4>1. h = 1
          BY <2>1, <3>1
        <4> QED
          BY <2>3, <2>4, <3>1, <4>1 DEF FreqPos
      <3>2. CASE k = 6
        <4>1. h = 2
          BY <2>1, <3>2
        <4> QED
          BY <2>3, <2>4, <3>2, <4>1 DEF FreqPos
      <3>3. CASE k = 9
        <4>1. h = 3
          BY <2>1, <3>3
        <4>2. Quiet' /\ Got(3, f)'
          BY <2>3, <4>1 DEF Has
        <4>3. inputRegs' = f
          <5>1. inputRegs' = [i \in 1..3 |-> inputRegs'[i]]
            BY DEF McuOK
          <5>2. f = [i \in 1..3 |-> f[i]]
            BY LenProperties
          <5>3. ASSUME NEW i \in 1..3
                PROVE  inputRegs'[i] = f[i]
            <6>1. 3 - 3 + i = i
              OBVIOUS
            <6> QED
              BY <4>2, <6>1 DEF Got
          <5> QED
            BY <5>1, <5>2, <5>3
        <4>4. Ready(m)'
          BY <2>3, <4>3 DEF Ready
        <4>5. RunPos(m, 1)'
          BY <2>4, <4>2, <4>4 DEF RunPos
        <4> DEFINE i == 1
        <4>6. RunPos(m, i)' /\ k + 1 - 9 = i /\ k + 1 = 10
          BY <3>3, <4>5
        <4> DEFINE g == k + 1
        <4>7. g = 10 /\ g - 9 = i
          BY <4>6
        <4> HIDE DEF i, g
        <4>8. FreqPos(m, f, g)'
          BY <4>6, <4>7 DEF FreqPos
        <4> QED
          BY <4>8 DEF g
      <3> QED
        BY <1>5, <3>1, <3>2, <3>3
    <2> QED
      BY <1>5, <2>3, <2>5
  <1>6. CASE k \in 10..16
    <2> DEFINE h == k - 9
               q == o + 9
    <2>1. h \in 1..7 /\ q \in Nat /\ q + h = o + k
      BY <1>6
    <2>2. RunPos(m, h) /\ RunAt(s, q, IdOf(m)) /\ m \in 1..4
      BY <1>0, <1>6 DEF FreqPos
    <2>3. k + 1 - 9 = h + 1 /\ (k = 16 => h + 1 = 8)
      BY <1>6
    <2> HIDE DEF h, q
    <2>4. RunPos(m, h + 1)' /\ script' = Tail(script) /\ UNCHANGED <<call, calls>>
      BY <2>1, <2>2, RunDriver
    <2> DEFINE i == h + 1
    <2>5. RunPos(m, i)' /\ k + 1 - 9 = i /\ (k = 16 => i = 8)
      BY <2>3, <2>4
    <2> HIDE DEF i
    <2>6. k \in 1..15 => FreqPos(m, f, k + 1)'
      <3> SUFFICES ASSUME k \in 1..15 PROVE FreqPos(m, f, k + 1)'
        OBVIOUS
      <3> DEFINE g == k + 1
      <3>1. g \in 11..16 /\ g - 9 = i
        BY <1>6, <2>5
      <3> HIDE DEF g
      <3>2. FreqPos(m, f, g)'
        BY <2>5, <3>1 DEF FreqPos
      <3> QED
        BY <3>2 DEF g
    <2> QED
      BY <1>6, <2>4, <2>5, <2>6
  <1> QED
    BY <1>3, <1>4, <1>5, <1>6

LEMMA FreqMcu ==
    ASSUME McuOK, call \in Calls, call.kind = "calibrate",
           NEW m \in {1, 2}, NEW f, NEW k \in 1..16, FreqPos(m, f, k), McuStep
    PROVE  FreqPos(m, f, k)'
  <1>1. UNCHANGED <<call, P0, alive>>
    BY McuFrame
  <1>2. k \notin {1, 2, 4, 5, 7, 8}
    BY QuietStays DEF FreqPos, Has
  <1>3. CASE k \in {3, 6, 9}
    <2> DEFINE j == IF k = 3 THEN 0 ELSE IF k = 6 THEN 1 ELSE 2
    <2>1. j \in 0..2 /\ k = 3 * j + 3
      BY <1>3
    <2>2. Sends(j, f) /\ Known(m)
      BY <1>3 DEF FreqPos
    <2> HIDE DEF j
    <2>3. Sends(j, f)' /\ UNCHANGED <<RefClk, bandwidthRF, extLoopbackPair>>
      BY <2>1, <2>2, SendsArrive
    <2>4. Known(m)'
      BY <1>1, <2>2, <2>3 DEF Known
    <2>5. CASE k = 3
      <3>1. j = 0
        BY <2>1, <2>5
      <3> QED
        BY <2>3, <2>4, <2>5, <3>1 DEF FreqPos
    <2>6. CASE k = 6
      <3>1. j = 1
        BY <2>1, <2>6
      <3> QED
        BY <2>3, <2>4, <2>6, <3>1 DEF FreqPos
    <2>7. CASE k = 9
      <3>1. j = 2
        BY <2>1, <2>7
      <3> QED
        BY <2>3, <2>4, <2>7, <3>1 DEF FreqPos
    <2> QED
      BY <1>3, <2>5, <2>6, <2>7
  <1>4. CASE k \in 10..16
    <2> DEFINE h == k - 9
    <2>1. h \in 1..8 /\ RunPos(m, h) /\ m \in 1..4
      BY <1>4 DEF FreqPos
    <2> HIDE DEF h
    <2>2. RunPos(m, h)'
      BY <2>1, RunMcu
    <2> QED
      BY <1>4, <2>2 DEF FreqPos, h
  <1> QED
    BY <1>2, <1>3, <1>4

\* A step of SetParameter for a loopback pair.
LEMMA PairDriver ==
    ASSUME McuOK, call \in Calls, call.kind = "calibrate",
           NEW pair, pair = call.pair,
           NEW k \in 1..12, PairPos(pair, k), DriverStep, script # <<>>,
           NEW s, NEW o \in Nat, PairAt(s, o, pair), Head(script) = s[o + k]
    PROVE  /\ k \in 1..11 => PairPos(pair, k + 1)'
           /\ k = 12 => RunPos(3, 8)'
           /\ script' = Tail(script) /\ UNCHANGED <<call, calls>>
  <1> DEFINE f == <<0, 0, pair>>
             j == 0
             h == 1
  <1>0. /\ s[o + 1] = Do("P0", pair) /\ s[o + 2] = Do("pulse", 2) /\ s[o + 3] = Do("sleep", 0)
        /\ s[o + 4] = Do("poll", 0) /\ s[o + 5] = Do("switch", FALSE)
        /\ RunAt(s, o + 5, SetLoopback)
    BY DEF PairAt
  <1>1. k \in 1..5 => Known(3)
    BY DEF PairPos
  <1>2. Known(3) /\ UNCHANGED <<call, RefClk, bandwidthRF, extLoopbackPair>> => Known(3)'
    BY DEF Known
  <1>3. j \in 0..2 /\ j + 1 = h /\ f[3 - j] = pair
    OBVIOUS
  <1>4. CASE k = 1
    <2>1. Quiet /\ Head(script) = Do("P0", pair)
      BY <1>0, <1>4 DEF PairPos
    <2>2. /\ UNCHANGED <<call, calls, RefClk, bandwidthRF, extLoopbackPair, alive, main,
                         runProcedure, latched>>
          /\ P0' = pair /\ script' = Tail(script)
      BY <2>1, P0Step
    <2>3. Quiet' /\ Known(3)'
      BY <1>1, <1>2, <1>4, <2>1, <2>2 DEF Quiet
    <2> QED
      BY <1>4, <2>2, <2>3 DEF PairPos
  <1>5. CASE k = 2
    <2>1. Quiet /\ P0 = pair /\ Head(script) = Do("pulse", 2)
      BY <1>0, <1>5 DEF PairPos
    <2>2. Has(j, f)
      BY <2>1 DEF Has, Got
    <2>3. P0 = f[3 - j]
      BY <1>3, <2>1
    <2> HIDE DEF f, j
    <2>4. /\ Sends(j, f)' /\ script' = Tail(script)
          /\ UNCHANGED <<call, calls, RefClk, bandwidthRF, extLoopbackPair>>
      BY <1>3, <2>1, <2>2, <2>3, BytePulsed
    <2>5. Known(3)'
      BY <1>1, <1>2, <1>5, <2>4
    <2>6. Sends(0, <<0, 0, pair>>)'
      BY <2>4 DEF f, j
    <2> QED
      BY <1>5, <2>4, <2>5, <2>6 DEF PairPos
  <1>6. CASE k = 3
    <2>1. Sends(j, f) /\ Head(script) = Do("sleep", 0)
      BY <1>0, <1>6 DEF PairPos
    <2> HIDE DEF f, j, h
    <2>2. /\ Has(h, f)' /\ script' = Tail(script)
          /\ UNCHANGED <<call, calls, RefClk, bandwidthRF, extLoopbackPair>>
      BY <1>3, <2>1, ByteSlept
    <2>3. Known(3)'
      BY <1>1, <1>2, <1>6, <2>2
    <2>4. Has(1, <<0, 0, pair>>)'
      BY <2>2 DEF f, h
    <2> QED
      BY <1>6, <2>2, <2>3, <2>4 DEF PairPos
  <1>7. CASE k = 4
    <2>1. Has(h, f) /\ Head(script) = Do("poll", 0)
      BY <1>0, <1>7 DEF PairPos
    <2> HIDE DEF f, h
    <2>2. /\ UNCHANGED <<call, calls, RefClk, bandwidthRF, extLoopbackPair, alive, main,
                         runProcedure, latched, inputRegs>>
          /\ script' = Tail(script)
      BY <2>1, PollStep
    <2>3. Has(h, f)'
      BY <2>1, <2>2 DEF Has, Quiet, Got
    <2>4. Known(3)'
      BY <1>1, <1>2, <1>7, <2>2
    <2>5. Has(1, <<0, 0, pair>>)'
      BY <2>3 DEF f, h
    <2> QED
      BY <1>7, <2>2, <2>4, <2>5 DEF PairPos
  <1>8. CASE k = 5
    <2>1. Has(1, f) /\ Head(script) = Do("switch", FALSE)
      BY <1>0, <1>8 DEF PairPos
    <2>2. /\ UNCHANGED <<call, calls, RefClk, bandwidthRF, extLoopbackPair, alive, main,
                         runProcedure, latched, inputRegs>>
          /\ script' = Tail(script)
      BY <2>1, SwitchStep
    <2>3. Quiet' /\ Known(3)'
      BY <1>1, <1>2, <1>8, <2>1, <2>2 DEF Has, Quiet
    <2>4. inputRegs[1] = pair
      <3>1. 1 \in 1..1 /\ 3 - 1 + 1 = 3 /\ f[3] = pair
        OBVIOUS
      <3> HIDE DEF f
      <3>2. inputRegs[1] = f[3 - 1 + 1]
        BY <2>1, <3>1 DEF Has, Got
      <3> QED
        BY <3>1, <3>2
    <2>5. Ready(3)'
      BY <2>2, <2>4 DEF Ready
    <2>6. RunPos(3, 1)'
      BY <2>3, <2>5 DEF RunPos
    <2> DEFINE i == 1
    <2>7. RunPos(3, i)' /\ k + 1 - 5 = i /\ k + 1 = 6
      BY <1>8, <2>6
    <2> HIDE DEF i
    <2>8. k + 1 \notin 1..5
      BY <1>8
    <2> QED
      BY <1>8, <2>2, <2>7, <2>8 DEF PairPos
  <1>9. CASE k \in 6..12
    <2> DEFINE g == k - 5
               q == o + 5
               m == 3
    <2>1. g \in 1..7 /\ q \in Nat /\ q + g = o + k /\ m \in 1..4
      BY <1>9
    <2>2. RunPos(m, g) /\ RunAt(s, q, IdOf(m))
      BY <1>0, <1>9, Ids DEF PairPos
    <2>3. k + 1 - 5 = g + 1 /\ (k = 12 => g + 1 = 8)
      BY <1>9
    <2> HIDE DEF g, q, m
    <2>4. RunPos(m, g + 1)' /\ script' = Tail(script) /\ UNCHANGED <<call, calls>>
      BY <2>1, <2>2, RunDriver
    <2> DEFINE i == g + 1
    <2>5. RunPos(3, i)' /\ k + 1 - 5 = i /\ (k = 12 => i = 8)
      BY <2>3, <2>4 DEF m
    <2> HIDE DEF i
    <2>6. k \in 1..11 => PairPos(pair, k + 1)'
      <3> SUFFICES ASSUME k \in 1..11 PROVE PairPos(pair, k + 1)'
        OBVIOUS
      <3> DEFINE e == k + 1
      <3>1. e \in 7..12 /\ e - 5 = i
        BY <1>9, <2>5
      <3> HIDE DEF e
      <3>2. PairPos(pair, e)'
        BY <2>5, <3>1 DEF PairPos
      <3> QED
        BY <3>2 DEF e
    <2> QED
      BY <1>9, <2>4, <2>5, <2>6
  <1> QED
    BY <1>4, <1>5, <1>6, <1>7, <1>8, <1>9

LEMMA PairMcu ==
    ASSUME McuOK, call \in Calls, call.kind = "calibrate",
           NEW pair, NEW k \in 1..12, PairPos(pair, k), McuStep
    PROVE  PairPos(pair, k)'
  <1> DEFINE f == <<0, 0, pair>>
             j == 0
  <1>1. UNCHANGED <<call, P0, alive>>
    BY McuFrame
  <1>2. k \notin {1, 2, 4, 5}
    BY QuietStays DEF PairPos, Has
  <1>3. CASE k = 3
    <2>1. Sends(j, f) /\ Known(3) /\ j \in 0..2
      BY <1>3 DEF PairPos
    <2> HIDE DEF f, j
    <2>2. Sends(j, f)' /\ UNCHANGED <<RefClk, bandwidthRF, extLoopbackPair>>
      BY <2>1, SendsArrive
    <2>3. Known(3)'
      BY <1>1, <2>1, <2>2 DEF Known
    <2>4. Sends(0, <<0, 0, pair>>)'
      BY <2>2 DEF f, j
    <2> QED
      BY <1>3, <2>3, <2>4 DEF PairPos
  <1>4. CASE k \in 6..12
    <2> DEFINE h == k - 5
               m == 3
    <2>1. h \in 1..8 /\ RunPos(m, h) /\ m \in 1..4
      BY <1>4 DEF PairPos
    <2> HIDE DEF h, m
    <2>2. RunPos(m, h)'
      BY <2>1, RunMcu
    <2> QED
      BY <1>4, <2>2 DEF PairPos, h, m
  <1> QED
    BY <1>2, <1>3, <1>4

-----------------------------------------------------------------------------
\* Every step keeps the invariant.

LEMMA McuOKKeeps ==
    ASSUME McuOK, [Next]_vars
    PROVE  McuOK'
  <1>0. /\ main \in {"poll", "busy", "clear"}
        /\ DOMAIN inputRegs = 1..3 /\ inputRegs = [i \in 1..3 |-> inputRegs[i]]
        /\ DOMAIN doing = Fields /\ doing = [i \in Fields |-> doing[i]]
        /\ ~alive => latched = {} /\ main = "poll" /\ ~runProcedure /\ P1 = MCU_IDLE
    BY DEF McuOK
  <1>1. CASE UNCHANGED <<main, inputRegs, doing, alive, latched, runProcedure, P1>>
    BY <1>0, <1>1 DEF McuOK
  <1>2. CASE UNCHANGED vars
    <2>1. UNCHANGED <<main, inputRegs, doing, alive, latched, runProcedure, P1>>
      BY <1>2 DEF vars, firmware, request, control, params, history
    <2> QED
      BY <1>1, <2>1
  <1>3. CASE Begin
    <2>1. UNCHANGED <<main, inputRegs, doing, alive, latched, runProcedure, P1>>
      BY <1>3 DEF Begin, firmware, request, control, params, history
    <2> QED
      BY <1>1, <2>1
  <1>4. CASE SetSwitch
    <2>1. UNCHANGED <<main, inputRegs, alive, latched, runProcedure, P1>>
      BY <1>4 DEF SetSwitch, firmware, request, control, params
    <2>2. doing' = [doing EXCEPT !.bus = @ /\ arg]
      BY <1>4 DEF SetSwitch
    <2>3. DOMAIN doing' = Fields /\ doing' = [i \in Fields |-> doing'[i]]
      BY <1>0, <2>2
    <2> QED
      BY <1>0, <2>1, <2>3 DEF McuOK
  <1>5. CASE Pulse
    <2>1. /\ UNCHANGED <<main, inputRegs, doing, alive, runProcedure, P1>>
          /\ latched' = IF alive THEN latched \cup {arg} ELSE latched
      BY <1>5 DEF Pulse, control, params
    <2> QED
      BY <1>0, <2>1 DEF McuOK
  <1>6. CASE WriteP0 \/ Sleep \/ Poll \/ Check \/ Write020C \/ Return
    <2>1. UNCHANGED <<main, inputRegs, doing, alive, latched, runProcedure, P1>>
      BY <1>6 DEF WriteP0, Sleep, Poll, Check, Write020C, Return, firmware, request, control,
         params, history
    <2> QED
      BY <1>1, <2>1
  <1>7. CASE Program \/ ProgramFails
    <2>1. /\ UNCHANGED <<inputRegs, doing>>
          /\ P1' = MCU_IDLE /\ main' = "poll" /\ latched' = {} /\ runProcedure' = FALSE
      BY <1>7 DEF Program, ProgramFails, params, history
    <2> QED
      BY <1>0, <2>1 DEF McuOK
  <1>8. CASE ext2_int
    <2>1. /\ UNCHANGED <<main, doing, alive, runProcedure>>
          /\ alive /\ inputRegs' = <<P0, inputRegs[1], inputRegs[2]>>
      BY <1>8 DEF ext2_int, control, history
    <2>2. DOMAIN inputRegs' = 1..3 /\ inputRegs' = [i \in 1..3 |-> inputRegs'[i]]
      BY <2>1
    <2> QED
      BY <1>0, <2>1, <2>2 DEF McuOK
  <1>9. CASE ext3_int
    <2>1. /\ UNCHANGED <<main, inputRegs, doing, alive>> /\ alive
      BY <1>9 DEF ext3_int, params, history
    <2> QED
      BY <1>0, <2>1 DEF McuOK
  <1>10. CASE PickUp
    <2>1. /\ UNCHANGED <<inputRegs, alive>> /\ alive /\ main' = "busy"
          /\ doing' = [call |-> asked, id |-> currentInstruction, ref |-> RefClk,
                       bw |-> bandwidthRF, pair |-> extLoopbackPair, bus |-> mcuHasSPI,
                       status |-> MCU_WORKING]
      BY <1>10 DEF PickUp, params
    <2>2. DOMAIN doing' = Fields /\ doing' = [i \in Fields |-> doing'[i]]
      BY <2>1 DEF Fields
    <2> QED
      BY <1>0, <2>1, <2>2 DEF McuOK
  <1>11. CASE Finish
    <2>1. /\ UNCHANGED <<inputRegs, doing, alive>> /\ alive /\ main' = "clear"
      BY <1>11 DEF Finish
    <2> QED
      BY <1>0, <2>1 DEF McuOK
  <1>12. CASE Clear
    <2>1. /\ UNCHANGED <<inputRegs, doing, alive>> /\ alive /\ main' = "poll"
      BY <1>12 DEF Clear, params, history
    <2> QED
      BY <1>0, <2>1 DEF McuOK
  <1> QED
    BY <1>2, <1>3, <1>4, <1>5, <1>6, <1>7, <1>8, <1>9, <1>10, <1>11, <1>12
    DEF Next, DriverStep, McuStep

\* Where a calibration is while it runs.
LEMMA Running ==
    ASSUME IInv, script # <<>>, call.kind = "calibrate"
    PROVE  \/ \E c \in Calls, n \in 1..60 : Stage(c, n)
           \/ script = <<Do("program", 0)>> \o Rest(Calibrate(call), 9)
  BY DEF IInv, Where

\* A step that the driver takes from the n-th to the next.
LEMMA Onwards ==
    ASSUME NEW c \in Calls, NEW n \in 1..60, Stage(c, n), n < LastOf(c) + 8,
           script' = Tail(script), UNCHANGED call, CalibratePos(c, n + 1)'
    PROVE  Stage(c, n + 1)' /\ script' # <<>> /\ n + 1 \in 1..60
  <1> DEFINE s == Calibrate(c)
             l == LastOf(c)
  <1>1. s \in Seq(Steps) /\ Len(s) = l + 8 /\ l \in {40, 52}
    BY CalibrateSteps DEF LastOf
  <1>2. n \in 1..Len(s) /\ n + 1 \in 1..Len(s) /\ n # Len(s) /\ n + 1 \in 1..60
    BY <1>1 DEF Stage
  <1>3. script = Rest(s, n) /\ call' = c
    BY DEF Stage
  <1> HIDE DEF s
  <1>4. script' = Rest(s, n + 1)
    BY <1>1, <1>2, <1>3, Advance
  <1>5. script' # <<>>
    <2> DEFINE k == n + 1
    <2>1. k \in 1..Len(s) /\ script' = Rest(s, k)
      BY <1>2, <1>4
    <2> HIDE DEF k
    <2> QED
      BY <1>1, <2>1, Advance
  <1>6. n + 1 \in 1..l + 8
    BY <1>1, <1>2
  <1> QED
    BY <1>2, <1>3, <1>4, <1>5, <1>6 DEF Stage, s, l

\* Where a part of a calibration is, so is the calibration; and what a part leaves is what
\* the next one begins with.
Parts(c) ==
    /\ \A i \in 2..8 : CheckPos(i) => CalibratePos(c, i)
    /\ \A i \in 1..16 : FreqPos(1, c.ref, i) => CalibratePos(c, i + 8)
    /\ \A i \in 1..16 : FreqPos(2, c.bw, i) => CalibratePos(c, i + 24)
    /\ LastOf(c) = 52 => \A i \in 1..12 : PairPos(c.pair, i) => CalibratePos(c, i + 40)
    /\ \A i \in 1..8 : RunPos(4, i) => CalibratePos(c, LastOf(c) + i)
    /\ Quiet => FreqPos(1, c.ref, 1)
    /\ RunPos(1, 8) => FreqPos(2, c.bw, 1)
    /\ call = c /\ RunPos(2, 8) =>
          IF LastOf(c) = 52 THEN PairPos(c.pair, 1) ELSE RunPos(4, 1)
    /\ RunPos(3, 8) => RunPos(4, 1)

AllParts == \A c \in Calls : Parts(c)

LEMMA PartsFit == AllParts
  <1> SUFFICES ASSUME NEW c \in Calls PROVE Parts(c)
    BY DEF AllParts
  <1> DEFINE l == LastOf(c)
  <1>1. l \in {40, 52} /\ (l = 40 <=> c.pair = None)
    BY DEF LastOf
  <1> HIDE DEF l
  <1>2. ASSUME NEW i \in 2..8, CheckPos(i)
        PROVE  CalibratePos(c, i)
    BY <1>1, <1>2 DEF CalibratePos, l
  <1>3. ASSUME NEW i \in 1..16, FreqPos(1, c.ref, i)
        PROVE  CalibratePos(c, i + 8)
    <2> DEFINE n == i + 8
    <2>1. n \in 9..24 /\ n - 8 = i
      OBVIOUS
    <2> HIDE DEF n
    <2>2. CalibratePos(c, n)
      BY <1>1, <1>3, <2>1 DEF CalibratePos, l
    <2> QED
      BY <2>2 DEF n
  <1>4. ASSUME NEW i \in 1..16, FreqPos(2, c.bw, i)
        PROVE  CalibratePos(c, i + 24)
    <2> DEFINE n == i + 24
    <2>1. n \in 25..40 /\ n - 24 = i
      OBVIOUS
    <2> HIDE DEF n
    <2>2. CalibratePos(c, n)
      BY <1>1, <1>4, <2>1 DEF CalibratePos, l
    <2> QED
      BY <2>2 DEF n
  <1>5. ASSUME l = 52, NEW i \in 1..12, PairPos(c.pair, i)
        PROVE  CalibratePos(c, i + 40)
    <2> DEFINE n == i + 40
    <2>1. n \in 41..52 /\ n - 40 = i
      OBVIOUS
    <2> HIDE DEF n
    <2>2. CalibratePos(c, n)
      BY <1>5, <2>1 DEF CalibratePos, l
    <2> QED
      BY <2>2 DEF n
  <1>6. ASSUME NEW i \in 1..8, RunPos(4, i)
        PROVE  CalibratePos(c, l + i)
    <2> DEFINE n == l + i
    <2>1. n \in l + 1..l + 8 /\ n - l = i /\ n \notin 41..l /\ n > 40
      BY <1>1
    <2> HIDE DEF n
    <2>2. CalibratePos(c, n)
      BY <1>1, <1>6, <2>1 DEF CalibratePos, l
    <2> QED
      BY <2>2 DEF n
  <1>7. Quiet => FreqPos(1, c.ref, 1)
    BY DEF FreqPos, Has, Got, Known
  <1>8. Quiet /\ Known(4) => RunPos(4, 1)
    BY DEF RunPos, Ready
  <1>9. RunPos(1, 8) => FreqPos(2, c.bw, 1)
    <2>1. RunPos(1, 8) => Quiet /\ Known(2)
      BY DEF RunPos
    <2> QED
      BY <2>1 DEF FreqPos, Has, Got
  <1>10. call = c /\ RunPos(2, 8) => IF l = 52 THEN PairPos(c.pair, 1) ELSE RunPos(4, 1)
    <2> SUFFICES ASSUME call = c, RunPos(2, 8)
                 PROVE  IF l = 52 THEN PairPos(c.pair, 1) ELSE RunPos(4, 1)
      OBVIOUS
    <2>1. Quiet /\ Known(3)
      BY DEF RunPos
    <2>2. PairPos(c.pair, 1)
      BY <2>1 DEF PairPos
    <2>3. c.pair = None => Known(4)
      BY <2>1 DEF Known
    <2> QED
      BY <1>1, <1>8, <2>1, <2>2, <2>3
  <1>11. RunPos(3, 8) => RunPos(4, 1)
    <2>1. RunPos(3, 8) => Quiet /\ Known(4)
      BY DEF RunPos
    <2> QED
      BY <1>8, <2>1
  <1> QED
    BY <1>2, <1>3, <1>4, <1>5, <1>6, <1>7, <1>9, <1>10, <1>11 DEF Parts, l

LEMMA PartsFitNext ==
    ASSUME NEW c \in Calls
    PROVE  Parts(c)'
  <1>1. AllParts'
    BY PartsFit, PTL
  <1> QED
    BY <1>1 DEF AllParts

LEMMA StageDriver ==
    ASSUME McuOK, McuOK', NEW c \in Calls, c.kind = "calibrate",
           NEW n \in 1..60, Stage(c, n), DriverStep
    PROVE  Where'
  <1> DEFINE s == Calibrate(c)
             l == LastOf(c)
  <1>0. l \in {40, 52}
    BY DEF LastOf
  <1>1. /\ s \in Seq(Steps) /\ Len(s) = l + 8 /\ l \in {40, 52} /\ (l = 40 <=> c.pair = None)
        /\ CalibrateAt(s, c) /\ RunAt(s, l, c.id) /\ s[l + 8] = Do("return", 0)
    BY CalibrateSteps DEF LastOf
  <1>2. /\ call = c /\ call \in Calls /\ call.kind = "calibrate"
        /\ n \in 1..l + 8 /\ n \in 1..Len(s) /\ script = Rest(s, n) /\ CalibratePos(c, n)
    BY <1>1 DEF Stage
  <1> HIDE DEF s
  <1>3. script # <<>> /\ Head(script) = s[n]
    BY <1>1, <1>2, Advance
  <1>4. /\ RunAt(s, 0, GetProgramID) /\ s[8] = Do("check", 0)
        /\ FreqAt(s, 8, c.ref, UpdateRefClk) /\ FreqAt(s, 24, c.bw, UpdateBW)
        /\ l = 52 => PairAt(s, 40, c.pair)
    BY <1>1 DEF CalibrateAt
  <1>5. ASSUME n < l + 8, script' = Tail(script), UNCHANGED call, CalibratePos(c, n + 1)'
        PROVE  Where'
    <2>1. Stage(c, n + 1)' /\ script' # <<>> /\ n + 1 \in 1..60
      BY <1>5, Onwards
    <2> QED
      BY <2>1 DEF Where
  <1>6. /\ c.ref \in Seq(Bytes) /\ Len(c.ref) = 3 /\ c.bw \in Seq(Bytes) /\ Len(c.bw) = 3
    BY McuAssumption
  <1>7. CASE n \in 1..7
    <2>1. CheckPos(n)
      BY <1>2, <1>7 DEF CalibratePos
    <2>2. CheckPos(n + 1)' /\ script' = Tail(script) /\ UNCHANGED <<call, calls>>
      BY <1>2, <1>3, <1>4, <1>7, <2>1, CheckDriver
    <2> DEFINE i == n + 1
    <2>3. i \in 2..8 /\ CheckPos(i)'
      BY <1>7, <2>2
    <2> HIDE DEF i
    <2>4. CalibratePos(c, i)'
      BY <2>3, PartsFitNext DEF Parts
    <2> QED
      BY <1>0, <1>5, <1>7, <2>2, <2>4 DEF i
  <1>8. CASE n = 8
    <2>1. CheckPos(8)
      BY <1>2, <1>8 DEF CalibratePos
    <2>2. /\ UNCHANGED <<call, alive, main, runProcedure, latched>>
          /\ script' = IF value = ProgramID THEN Tail(script)
                       ELSE <<Do("program", 0)>> \o Tail(script)
      BY <1>2, <1>3, <1>4, <1>8, CheckStep
    <2>3. CASE value = ProgramID
      <3>1. Quiet
        BY <2>1, <2>3 DEF CheckPos
      <3>2. Quiet'
        BY <2>2, <3>1 DEF Quiet
      <3>3. CalibratePos(c, 9)'
        <4> DEFINE k == 1
        <4>1. FreqPos(1, c.ref, k)' /\ k \in 1..16 /\ k + 8 = 9
          BY <3>2, PartsFitNext DEF Parts
        <4> HIDE DEF k
        <4>2. CalibratePos(c, k + 8)'
          BY <4>1, PartsFitNext DEF Parts
        <4> QED
          BY <4>1, <4>2
      <3> QED
        BY <1>0, <1>5, <1>8, <2>2, <2>3, <3>3
    <2>4. CASE value # ProgramID
      <3>1. Tail(script) = Rest(s, 9)
        <4>1. n # Len(s) /\ n + 1 = 9
          BY <1>1, <1>8
        <4> QED
          BY <1>1, <1>2, <4>1, Advance
      <3>2. script' = <<Do("program", 0)>> \o Rest(Calibrate(call'), 9)
        BY <1>2, <2>2, <2>4, <3>1 DEF s
      <3>3. script' # <<>>
        <4> DEFINE k == 9
        <4>1. k \in 1..Len(s)
          BY <1>1
        <4> HIDE DEF k
        <4>2. <<Do("program", 0)>> \o Rest(s, k) # <<>>
          BY <1>1, <4>1, Before
        <4> QED
          BY <2>2, <2>4, <3>1, <4>2 DEF k
      <3> QED
        BY <3>2, <3>3 DEF Where
    <2> QED
      BY <2>3, <2>4
  <1>9. CASE n \in 9..24
    <2> DEFINE k == n - 8
               m == 1
               f == c.ref
    <2>1. k \in 1..16 /\ m \in {1, 2} /\ 8 + k = n /\ f \in Seq(Bytes) /\ Len(f) = 3
      BY <1>6, <1>9
    <2>2. /\ FreqPos(m, f, k) /\ FreqAt(s, 8, f, IdOf(m)) /\ Head(script) = s[8 + k]
          /\ f = IF m = 1 THEN call.ref ELSE call.bw
      BY <1>2, <1>3, <1>4, <1>9, <2>1, Ids DEF CalibratePos
    <2> HIDE DEF k, m, f
    <2>3. /\ k \in 1..15 => FreqPos(m, f, k + 1)'
          /\ k = 16 => RunPos(m, 8)'
          /\ script' = Tail(script) /\ UNCHANGED <<call, calls>>
      BY <1>2, <1>3, <2>1, <2>2, FreqDriver
    <2>4. CASE n = 24
      <3>1. RunPos(1, 8)'
        BY <2>1, <2>3, <2>4 DEF k, m
      <3> DEFINE i == 1
      <3>2. FreqPos(2, c.bw, i)' /\ i \in 1..16 /\ i + 24 = n + 1
        BY <2>4, <3>1, PartsFitNext DEF Parts
      <3> HIDE DEF i
      <3>3. CalibratePos(c, i + 24)'
        BY <3>2, PartsFitNext DEF Parts
      <3>4. CalibratePos(c, n + 1)'
        BY <3>2, <3>3
      <3> QED
        BY <1>0, <1>5, <2>3, <2>4, <3>4
    <2>5. CASE n # 24
      <3> DEFINE i == k + 1
      <3>1. i \in 1..16 /\ FreqPos(1, c.ref, i)' /\ i + 8 = n + 1
        BY <1>9, <2>1, <2>3, <2>5 DEF m, f
      <3> HIDE DEF i
      <3>2. CalibratePos(c, i + 8)'
        BY <3>1, PartsFitNext DEF Parts
      <3>3. CalibratePos(c, n + 1)'
        BY <3>1, <3>2
      <3>4. n < l + 8
        BY <1>1, <1>9
      <3> QED
        BY <1>5, <2>3, <3>3, <3>4
    <2> QED
      BY <2>4, <2>5
  <1>10. CASE n \in 25..40
    <2> DEFINE k == n - 24
               m == 2
               f == c.bw
    <2>1. k \in 1..16 /\ m \in {1, 2} /\ 24 + k = n /\ f \in Seq(Bytes) /\ Len(f) = 3
      BY <1>6, <1>10
    <2>2. /\ FreqPos(m, f, k) /\ FreqAt(s, 24, f, IdOf(m)) /\ Head(script) = s[24 + k]
          /\ f = IF m = 1 THEN call.ref ELSE call.bw
      BY <1>2, <1>3, <1>4, <1>10, <2>1, Ids DEF CalibratePos
    <2> HIDE DEF k, m, f
    <2>3. /\ k \in 1..15 => FreqPos(m, f, k + 1)'
          /\ k = 16 => RunPos(m, 8)'
          /\ script' = Tail(script) /\ UNCHANGED <<call, calls>>
      BY <1>2, <1>3, <2>1, <2>2, FreqDriver
    <2>4. CASE n = 40
      <3>1. RunPos(2, 8)' /\ call' = c
        BY <1>2, <2>1, <2>3, <2>4 DEF k, m
      <3> DEFINE i == 1
      <3>2. IF l = 52 THEN PairPos(c.pair, i)' ELSE RunPos(4, i)'
        BY <3>1, PartsFitNext DEF Parts
      <3>3. i \in 1..12 /\ i \in 1..8 /\ i + 40 = n + 1 /\ 40 + i = n + 1
        BY <2>4
      <3> HIDE DEF i
      <3>4. l = 52 => CalibratePos(c, i + 40)'
        BY <3>2, <3>3, PartsFitNext DEF Parts
      <3>5. l # 52 => CalibratePos(c, l + i)'
        BY <3>2, <3>3, PartsFitNext DEF Parts
      <3>6. CalibratePos(c, n + 1)'
        <4>1. l # 52 => l + i = n + 1
          BY <1>1, <3>3
        <4> HIDE DEF l
        <4> QED
          BY <3>3, <3>4, <3>5, <4>1
      <3> QED
        BY <1>0, <1>5, <2>3, <2>4, <3>6
    <2>5. CASE n # 40
      <3> DEFINE i == k + 1
      <3>1. i \in 1..16 /\ FreqPos(2, c.bw, i)' /\ i + 24 = n + 1
        BY <1>10, <2>1, <2>3, <2>5 DEF m, f
      <3> HIDE DEF i
      <3>2. CalibratePos(c, i + 24)'
        BY <3>1, PartsFitNext DEF Parts
      <3>3. CalibratePos(c, n + 1)'
        BY <3>1, <3>2
      <3> QED
        BY <1>0, <1>5, <1>10, <2>3, <3>3
    <2> QED
      BY <2>4, <2>5
  <1>11. CASE l = 52 /\ n \in 41..52
    <2> DEFINE k == n - 40
               pair == c.pair
    <2>1. k \in 1..12 /\ 40 + k = n
      BY <1>11
    <2>2. /\ PairPos(pair, k) /\ PairAt(s, 40, pair) /\ Head(script) = s[40 + k]
          /\ pair = call.pair
      BY <1>2, <1>3, <1>4, <1>11, <2>1 DEF CalibratePos
    <2> HIDE DEF k, pair
    <2>3. /\ k \in 1..11 => PairPos(pair, k + 1)'
          /\ k = 12 => RunPos(3, 8)'
          /\ script' = Tail(script) /\ UNCHANGED <<call, calls>>
      BY <1>2, <1>3, <2>1, <2>2, PairDriver
    <2>4. CASE n = 52
      <3>1. RunPos(3, 8)'
        BY <2>1, <2>3, <2>4 DEF k
      <3> DEFINE i == 1
      <3>2. RunPos(4, i)' /\ i \in 1..8 /\ l + i = n + 1
        BY <1>11, <2>4, <3>1, PartsFitNext DEF Parts
      <3> HIDE DEF i
      <3>3. CalibratePos(c, l + i)'
        BY <3>2, PartsFitNext DEF Parts
      <3>4. CalibratePos(c, n + 1)'
        BY <3>2, <3>3
      <3> QED
        BY <1>0, <1>5, <1>11, <2>3, <2>4, <3>4
    <2>5. CASE n # 52
      <3> DEFINE i == k + 1
      <3>1. i \in 1..12 /\ PairPos(c.pair, i)' /\ i + 40 = n + 1
        BY <1>11, <2>1, <2>3, <2>5 DEF pair
      <3> HIDE DEF i
      <3>2. CalibratePos(c, i + 40)'
        BY <1>11, <3>1, PartsFitNext DEF Parts
      <3>3. CalibratePos(c, n + 1)'
        BY <3>1, <3>2
      <3> QED
        BY <1>0, <1>5, <1>11, <2>3, <3>3
    <2> QED
      BY <2>4, <2>5
  <1>12. CASE n \in l + 1..l + 7
    <2> DEFINE k == n - l
               m == 4
    <2>1. k \in 1..7 /\ l + k = n /\ m \in 1..4 /\ l \in Nat
      BY <1>0, <1>12
    <2>2. /\ RunPos(m, k) /\ RunAt(s, l, IdOf(m)) /\ Head(script) = s[l + k]
      <3>1. n \in l + 1..l + 8
        BY <1>1, <1>12
      <3>2. RunPos(4, n - l)
        BY <1>2, <3>1 DEF CalibratePos
      <3> QED
        BY <1>1, <1>2, <1>3, <2>1, <3>2, Ids
    <2> HIDE DEF k, m, l
    <2>3. RunPos(m, k + 1)' /\ script' = Tail(script) /\ UNCHANGED <<call, calls>>
      BY <1>2, <1>3, <2>1, <2>2, RunDriver
    <2> DEFINE i == k + 1
    <2>4. RunPos(4, i)' /\ i \in 1..8 /\ l + i = n + 1
      BY <2>1, <2>3 DEF m
    <2> HIDE DEF i
    <2>5. CalibratePos(c, l + i)'
      BY <2>4, PartsFitNext DEF Parts, l
    <2>6. CalibratePos(c, n + 1)'
      BY <2>4, <2>5
    <2>7. n < l + 8
      BY <1>12, <2>1
    <2> QED
      BY <1>5, <2>3, <2>6, <2>7
  <1>13. CASE n = l + 8
    <2>1. RunPos(4, 8)
      <3>1. n \in l + 1..l + 8 /\ n - l = 8
        BY <1>1, <1>13
      <3> QED
        BY <1>2, <3>1 DEF CalibratePos
    <2>2. /\ UNCHANGED <<call, calls, alive, main, runProcedure, latched, finished>>
          /\ script' = Tail(script) /\ result' = value
      BY <1>1, <1>2, <1>3, <1>13, ReturnStep
    <2>3. script' = <<>>
      <3>1. n = Len(s) /\ n \in 1..Len(s)
        BY <1>1, <1>13
      <3> QED
        BY <1>1, <1>2, <2>2, <3>1, Advance
    <2>4. ASSUME Answered'
          PROVE  Quiet' /\ Own(finished)' /\ finished'.status = result'
      <3>1. value # TimedOut
        BY <2>2, <2>4 DEF Answered
      <3>2. Quiet /\ Own(finished) /\ finished.status = value
        BY <2>1, <3>1 DEF RunPos
      <3>3. Quiet'
        BY <2>2, <3>2 DEF Quiet
      <3>4. Own(finished)'
        BY <2>2, <3>2 DEF Own
      <3> QED
        BY <2>2, <3>2, <3>3, <3>4
    <2> QED
      BY <2>3, <2>4 DEF Where
  <1>14. \/ n \in 1..7 \/ n = 8 \/ n \in 9..24 \/ n \in 25..40
         \/ l = 52 /\ n \in 41..52
         \/ n \in l + 1..l + 7 \/ n = l + 8
    BY <1>1, <1>2
  <1> QED
    BY <1>7, <1>8, <1>9, <1>10, <1>11, <1>12, <1>13, <1>14

LEMMA StageMcu ==
    ASSUME McuOK, NEW c \in Calls, c.kind = "calibrate",
           NEW n \in 1..60, Stage(c, n), McuStep
    PROVE  Stage(c, n)'
  <1> DEFINE l == LastOf(c)
  <1>1. l \in {40, 52}
    BY DEF LastOf
  <1>2. /\ call = c /\ call \in Calls /\ call.kind = "calibrate"
        /\ n \in 1..l + 8 /\ CalibratePos(c, n)
    BY DEF Stage
  <1>3. UNCHANGED <<script, call>>
    BY McuFrame
  <1>4. CalibratePos(c, n)'
    <2>1. CASE n \in 1..8
      <3>1. CheckPos(n)
        BY <1>2, <2>1 DEF CalibratePos
      <3>2. CheckPos(n)'
        BY <2>1, <3>1, CheckMcu
      <3>3. n = 1 => CalibratePos(c, n)'
        BY <1>1, <3>2 DEF CalibratePos, l
      <3>4. n \in 2..8 => CalibratePos(c, n)'
        BY <3>2, PartsFitNext DEF Parts
      <3> QED
        BY <2>1, <3>3, <3>4
    <2>2. CASE n \in 9..24
      <3> DEFINE k == n - 8
                 m == 1
                 f == c.ref
      <3>1. k \in 1..16 /\ m \in {1, 2} /\ k + 8 = n /\ FreqPos(m, f, k)
        BY <1>2, <2>2 DEF CalibratePos
      <3> HIDE DEF k, m, f
      <3>2. FreqPos(m, f, k)'
        BY <1>2, <3>1, FreqMcu
      <3>3. FreqPos(1, c.ref, k)'
        BY <3>2 DEF m, f
      <3>4. CalibratePos(c, k + 8)'
        BY <3>1, <3>3, PartsFitNext DEF Parts
      <3> QED
        BY <3>1, <3>4
    <2>3. CASE n \in 25..40
      <3> DEFINE k == n - 24
                 m == 2
                 f == c.bw
      <3>1. k \in 1..16 /\ m \in {1, 2} /\ k + 24 = n /\ FreqPos(m, f, k)
        BY <1>2, <2>3 DEF CalibratePos
      <3> HIDE DEF k, m, f
      <3>2. FreqPos(m, f, k)'
        BY <1>2, <3>1, FreqMcu
      <3>3. FreqPos(2, c.bw, k)'
        BY <3>2 DEF m, f
      <3>4. CalibratePos(c, k + 24)'
        BY <3>1, <3>3, PartsFitNext DEF Parts
      <3> QED
        BY <3>1, <3>4
    <2>4. CASE l = 52 /\ n \in 41..52
      <3> DEFINE k == n - 40
                 pair == c.pair
      <3>1. k \in 1..12 /\ k + 40 = n /\ PairPos(pair, k)
        BY <1>2, <2>4 DEF CalibratePos
      <3> HIDE DEF k, pair
      <3>2. PairPos(pair, k)'
        BY <1>2, <3>1, PairMcu
      <3>3. PairPos(c.pair, k)'
        BY <3>2 DEF pair
      <3>4. CalibratePos(c, k + 40)'
        BY <2>4, <3>1, <3>3, PartsFitNext DEF Parts
      <3> QED
        BY <3>1, <3>4
    <2>5. CASE n \in l + 1..l + 8
      <3> DEFINE k == n - l
                 m == 4
      <3>1. k \in 1..8 /\ m \in 1..4 /\ l + k = n /\ RunPos(m, k)
        BY <1>1, <1>2, <2>5 DEF CalibratePos
      <3> HIDE DEF k, m
      <3>2. RunPos(m, k)'
        BY <1>2, <3>1, RunMcu
      <3>3. RunPos(4, k)'
        BY <3>2 DEF m
      <3>4. CalibratePos(c, l + k)'
        BY <3>1, <3>3, PartsFitNext DEF Parts
      <3> HIDE DEF l
      <3> QED
        BY <3>1, <3>4
    <2>6. \/ n \in 1..8 \/ n \in 9..24 \/ n \in 25..40
          \/ l = 52 /\ n \in 41..52
          \/ n \in l + 1..l + 8
      BY <1>1, <1>2
    <2> QED
      BY <2>1, <2>2, <2>3, <2>4, <2>5, <2>6
  <1> QED
    BY <1>2, <1>3, <1>4 DEF Stage

\* A call that is not a calibration has no answer.
LEMMA OthersKeep ==
    ASSUME call' \in Calls, call'.kind # "calibrate"
    PROVE  Where'
  BY DEF Where, Answered

LEMMA DriverKeeps ==
    ASSUME IInv, McuOK', DriverStep
    PROVE  IInv'
  <1>1. McuOK /\ call \in Calls /\ Where
    BY DEF IInv
  <1>2. call' = call
    BY DEF DriverStep, SetSwitch, WriteP0, Pulse, Sleep, Poll, Check, Program, ProgramFails,
       Write020C, Return, Done
  <1>3. script # <<>>
    BY DEF DriverStep, SetSwitch, WriteP0, Pulse, Sleep, Poll, Check, Program, ProgramFails,
       Write020C, Return, At
  <1>4. Where'
    <2>1. CASE call.kind # "calibrate"
      BY <1>1, <1>2, <2>1, OthersKeep
    <2>2. ASSUME call.kind = "calibrate", NEW c \in Calls, NEW n \in 1..60, Stage(c, n)
          PROVE  Where'
      <3>1. c.kind = "calibrate"
        BY <2>2 DEF Stage
      <3> QED
        BY <1>1, <2>2, <3>1, StageDriver
    <2>3. CASE call.kind = "calibrate" /\ script = <<Do("program", 0)>> \o Rest(Calibrate(call), 9)
      <3>1. PICK c \in Calls : c = call
        BY <1>1
      <3> DEFINE s == Calibrate(c)
                 k == 9
                 w == <<Do("program", 0)>> \o Rest(s, k)
      <3>2. s \in Seq(Steps) /\ Len(s) = LastOf(c) + 8 /\ LastOf(c) \in {40, 52}
        BY CalibrateSteps DEF LastOf
      <3>3. k \in 1..Len(s) /\ k \in 1..LastOf(c) + 8
        BY <3>2
      <3>4. script = w
        BY <2>3, <3>1
      <3>5. k = 9
        OBVIOUS
      <3> HIDE DEF s, k
      <3>6. w # <<>> /\ Head(w) = Do("program", 0) /\ Tail(w) = Rest(s, k)
        BY <3>2, <3>3, Before
      <3> HIDE DEF w
      <3>7. /\ P1' = MCU_IDLE /\ main' = "poll" /\ latched' = {} /\ runProcedure' = FALSE
            /\ \/ alive' = TRUE /\ script' = Rest(s, k)
               \/ alive' = FALSE /\ script' = <<>> /\ result' = NotProgrammed
        BY <1>3, <2>3, <3>4, <3>6, ProgramStep
      <3>8. CASE alive' = FALSE /\ script' = <<>> /\ result' = NotProgrammed
        BY <3>8 DEF Where, Answered
      <3>9. CASE alive' = TRUE /\ script' = Rest(s, k)
        <4>1. Quiet'
          BY <3>7, <3>9 DEF Quiet
        <4> DEFINE i == 1
        <4>2. FreqPos(1, c.ref, i)' /\ i \in 1..16 /\ i + 8 = k
          BY <3>5, <4>1, PartsFitNext DEF Parts
        <4> HIDE DEF i
        <4>3. CalibratePos(c, i + 8)'
          BY <4>2, PartsFitNext DEF Parts
        <4>4. CalibratePos(c, k)'
          BY <4>2, <4>3
        <4>5. Stage(c, k)'
          BY <1>2, <3>1, <3>3, <3>9, <4>4 DEF Stage, s
        <4>6. script' # <<>> /\ k \in 1..60
          BY <3>2, <3>3, <3>5, <3>9, Advance
        <4> QED
          BY <4>5, <4>6 DEF Where
      <3> QED
        BY <3>7, <3>8, <3>9
    <2> QED
      BY <1>3, <2>1, <2>2, <2>3, Running
  <1> QED
    BY <1>1, <1>2, <1>4 DEF IInv

LEMMA McuKeeps ==
    ASSUME IInv, McuOK', McuStep
    PROVE  IInv'
  <1>1. McuOK /\ call \in Calls /\ Where
    BY DEF IInv
  <1>2. UNCHANGED <<script, call, calls, value, result>>
    BY McuFrame
  <1>3. CASE call.kind # "calibrate"
    BY <1>1, <1>2, <1>3, OthersKeep DEF IInv
  <1>4. CASE call.kind = "calibrate" /\ script = <<>>
    <2>1. ~Answered
      BY <1>1, <1>4, QuietStays DEF Where
    <2>2. ~Answered'
      BY <1>2, <2>1 DEF Answered, Returned
    <2> QED
      BY <1>1, <1>2, <1>4, <2>2 DEF IInv, Where
  <1>5. CASE call.kind = "calibrate" /\ script # <<>>
    <2>1. ASSUME NEW c \in Calls, NEW n \in 1..60, Stage(c, n)
          PROVE  Stage(c, n)'
      <3>1. c.kind = "calibrate"
        BY <1>5, <2>1 DEF Stage
      <3> QED
        BY <1>1, <2>1, <3>1, StageMcu
    <2>2. \/ \E c \in Calls, n \in 1..60 : Stage(c, n)'
          \/ script' = <<Do("program", 0)>> \o Rest(Calibrate(call'), 9)
      BY <1>2, <1>5, <2>1, Running
    <2>3. Where'
      BY <1>2, <1>5, <2>2 DEF Where
    <2> QED
      BY <1>1, <1>2, <2>3 DEF IInv
  <1> QED
    BY <1>3, <1>4, <1>5

LEMMA BeginKeeps ==
    ASSUME IInv, McuOK', Begin
    PROVE  IInv'
  <1>1. PICK c \in Calls : call' = c /\ script' = StepsOf(c)
    BY DEF Begin
  <1>2. CASE c.kind # "calibrate"
    BY <1>1, <1>2, OthersKeep DEF IInv
  <1>3. CASE c.kind = "calibrate"
    <2> DEFINE s == Calibrate(c)
               n == 1
    <2>1. s \in Seq(Steps) /\ Len(s) = LastOf(c) + 8 /\ LastOf(c) \in {40, 52}
      BY CalibrateSteps DEF LastOf
    <2>2. script' = s
      BY <1>1, <1>3 DEF StepsOf
    <2> HIDE DEF s
    <2>3. n = 1 /\ n \in 1..Len(s) /\ n \in 1..LastOf(c) + 8 /\ n \in 1..60
      BY <2>1
    <2>4. Rest(s, n) = s
      BY <2>1, SubSeqFull DEF Rest
    <2> HIDE DEF n
    <2>5. script' # <<>>
      BY <2>1, <2>2, <2>3, <2>4, Advance
    <2>6. CalibratePos(c, n)'
      <3> DEFINE l == LastOf(c)
      <3>1. l \in {40, 52}
        BY <2>1
      <3> HIDE DEF l
      <3>2. CheckPos(n)'
        BY <2>3 DEF CheckPos
      <3> QED
        BY <2>3, <3>1, <3>2 DEF CalibratePos, l
    <2>7. Stage(c, n)'
      BY <1>1, <2>2, <2>3, <2>4, <2>6 DEF Stage, s
    <2> QED
      BY <1>1, <2>3, <2>5, <2>7 DEF IInv, Where
  <1> QED
    BY <1>2, <1>3

LEMMA StutterKeeps ==
    ASSUME IInv, McuOK', UNCHANGED vars
    PROVE  IInv'
  <1>1. UNCHANGED <<script, call, calls, value, result, mcuHasSPI, P0, P1, latched, alive, main,
                    currentInstruction, runProcedure, inputRegs, RefClk, bandwidthRF,
                    extLoopbackPair, asked, doing, finished>>
    BY DEF vars, driver, firmware, request, control, params, history
  <1>2. call \in Calls /\ Where
    BY DEF IInv
  <1>3. Answered /\ Quiet /\ Own(finished) /\ finished.status = result =>
           (Quiet /\ Own(finished) /\ finished.status = result)'
    BY <1>1 DEF Quiet, Own
  <1>4. Answered' => Answered
    BY <1>1 DEF Answered, Returned
  <1>5. \A m \in 1..4 : Served(m) => Served(m)'
    BY <1>1 DEF Served, Waits, Runs, Over, Known, Ready, IdOf, Own, Gone
  <1>6. \A m \in 1..4 : Over(m) => Over(m)'
    BY <1>1 DEF Over, Known, Own, Gone
  <1>7. ASSUME NEW m \in 1..4, NEW k \in 1..8, RunPos(m, k)
        PROVE  RunPos(m, k)'
    BY <1>1, <1>5, <1>6, <1>7 DEF RunPos, Quiet, Known, Ready, IdOf, Own
  <1>8. ASSUME NEW k \in 1..8, CheckPos(k)
        PROVE  CheckPos(k)'
    BY <1>1, <1>8 DEF CheckPos, Requested, Gone, Quiet
  <1>9. ASSUME NEW j \in 0..3, NEW f
        PROVE  /\ Has(j, f) => Has(j, f)'
               /\ Sends(j, f) => Sends(j, f)'
    BY <1>1 DEF Has, Sends, Got, Quiet
  <1>10. ASSUME NEW m \in {1, 2}, NEW f, NEW k \in 1..16, FreqPos(m, f, k)
         PROVE  FreqPos(m, f, k)'
    <2>1. CASE k \in 1..9
      <3>1. Known(m)'
        BY <1>1, <1>10, <2>1 DEF FreqPos, Known
      <3> QED
        BY <1>1, <1>9, <1>10, <2>1, <3>1 DEF FreqPos
    <2>2. CASE k \in 10..16
      <3> DEFINE h == k - 9
      <3>1. h \in 1..8 /\ RunPos(m, h) /\ m \in 1..4
        BY <1>10, <2>2 DEF FreqPos
      <3> HIDE DEF h
      <3>2. RunPos(m, h)'
        BY <1>7, <3>1
      <3> QED
        BY <2>2, <3>2 DEF FreqPos, h
    <2> QED
      BY <2>1, <2>2
  <1>11. ASSUME NEW pair, NEW k \in 1..12, PairPos(pair, k)
         PROVE  PairPos(pair, k)'
    <2>1. CASE k \in 1..5
      <3>1. Known(3)'
        BY <1>1, <1>11, <2>1 DEF PairPos, Known
      <3>2. Quiet => Quiet'
        BY <1>1 DEF Quiet
      <3> QED
        BY <1>1, <1>9, <1>11, <2>1, <3>1, <3>2 DEF PairPos
    <2>2. CASE k \in 6..12
      <3> DEFINE h == k - 5
                 m == 3
      <3>1. h \in 1..8 /\ RunPos(m, h) /\ m \in 1..4
        BY <1>11, <2>2 DEF PairPos
      <3> HIDE DEF h, m
      <3>2. RunPos(m, h)'
        BY <1>7, <3>1
      <3> QED
        BY <2>2, <3>2 DEF PairPos, h, m
    <2> QED
      BY <2>1, <2>2
  <1>12. ASSUME NEW c \in Calls, NEW n \in 1..60, Stage(c, n)
         PROVE  Stage(c, n)'
    <2> DEFINE l == LastOf(c)
    <2>1. CalibratePos(c, n) /\ l \in {40, 52} /\ n \in 1..l + 8
      BY <1>12 DEF Stage, LastOf
    <2>2. n \in 1..8 => CheckPos(n)'
      BY <1>8, <2>1 DEF CalibratePos
    <2>3. n \in 9..24 => FreqPos(1, c.ref, n - 8)'
      <3> SUFFICES ASSUME n \in 9..24 PROVE FreqPos(1, c.ref, n - 8)'
        OBVIOUS
      <3> DEFINE k == n - 8
                 m == 1
                 f == c.ref
      <3>1. k \in 1..16 /\ m \in {1, 2} /\ FreqPos(m, f, k)
        BY <2>1 DEF CalibratePos
      <3> HIDE DEF k, m, f
      <3>2. FreqPos(m, f, k)'
        BY <1>10, <3>1
      <3> QED
        BY <3>2 DEF k, m, f
    <2>4. n \in 25..40 => FreqPos(2, c.bw, n - 24)'
      <3> SUFFICES ASSUME n \in 25..40 PROVE FreqPos(2, c.bw, n - 24)'
        OBVIOUS
      <3> DEFINE k == n - 24
                 m == 2
                 f == c.bw
      <3>1. k \in 1..16 /\ m \in {1, 2} /\ FreqPos(m, f, k)
        BY <2>1 DEF CalibratePos
      <3> HIDE DEF k, m, f
      <3>2. FreqPos(m, f, k)'
        BY <1>10, <3>1
      <3> QED
        BY <3>2 DEF k, m, f
    <2>5. n \in 41..l => PairPos(c.pair, n - 40)'
      <3> SUFFICES ASSUME n \in 41..l PROVE PairPos(c.pair, n - 40)'
        OBVIOUS
      <3> DEFINE k == n - 40
                 pair == c.pair
      <3>1. k \in 1..12 /\ PairPos(pair, k)
        BY <2>1 DEF CalibratePos
      <3> HIDE DEF k, pair
      <3>2. PairPos(pair, k)'
        BY <1>11, <3>1
      <3> QED
        BY <3>2 DEF k, pair
    <2>6. n \in l + 1..l + 8 => RunPos(4, n - l)'
      <3> SUFFICES ASSUME n \in l + 1..l + 8 PROVE RunPos(4, n - l)'
        OBVIOUS
      <3> DEFINE k == n - l
                 m == 4
      <3>1. k \in 1..8 /\ RunPos(m, k) /\ m \in 1..4
        BY <2>1 DEF CalibratePos
      <3> HIDE DEF k, m
      <3>2. RunPos(m, k)'
        BY <1>7, <3>1
      <3> QED
        BY <3>2 DEF k, m
    <2>7. CalibratePos(c, n)'
      BY <2>2, <2>3, <2>4, <2>5, <2>6 DEF CalibratePos
    <2> QED
      BY <1>1, <1>12, <2>7 DEF Stage
  <1>13. Where'
    <2>1. CASE script = <<>>
      BY <1>1, <1>2, <1>3, <1>4, <2>1 DEF Where
    <2>2. CASE script # <<>> /\ call.kind # "calibrate"
      BY <1>1, <1>2, <2>2, OthersKeep
    <2>3. CASE script # <<>> /\ call.kind = "calibrate"
      <3>1. \/ \E c \in Calls, n \in 1..60 : Stage(c, n)'
            \/ script' = <<Do("program", 0)>> \o Rest(Calibrate(call'), 9)
        BY <1>1, <1>12, <2>3, Running
      <3> QED
        BY <1>1, <2>3, <3>1 DEF Where
    <2> QED
      BY <2>1, <2>2, <2>3
  <1> QED
    BY <1>1, <1>2, <1>13 DEF IInv

\* The invariant of the calls' steps and the MCU's.
THEOREM Inductive == Spec => []IInv
  <1>1. Init => IInv
    <2> SUFFICES ASSUME Init PROVE IInv
      OBVIOUS
    <2>1. /\ script = <<>> /\ calls = 0 /\ call \in Calls /\ main = "poll" /\ latched = {}
          /\ P1 = MCU_IDLE /\ runProcedure = FALSE /\ inputRegs = <<0, 0, 0>> /\ doing = NoWork
      BY DEF Init
    <2>2. DOMAIN inputRegs = 1..3 /\ inputRegs = [i \in 1..3 |-> inputRegs[i]]
      BY <2>1
    <2>3. DOMAIN doing = Fields /\ doing = [i \in Fields |-> doing[i]]
      BY <2>1 DEF NoWork, Fields
    <2>4. McuOK
      BY <2>1, <2>2, <2>3 DEF McuOK
    <2>5. ~Answered
      BY <2>1 DEF Answered, Returned
    <2> QED
      BY <2>1, <2>4, <2>5 DEF IInv, Where
  <1>2. IInv /\ [Next]_vars => IInv'
    <2> SUFFICES ASSUME IInv, [Next]_vars PROVE IInv'
      OBVIOUS
    <2>1. McuOK'
      BY McuOKKeeps DEF IInv
    <2> QED
      BY <2>1, BeginKeeps, DriverKeeps, McuKeeps, StutterKeeps DEF Next
  <1> QED
    BY <1>1, <1>2, PTL DEF Spec

-----------------------------------------------------------------------------
LEMMA AnswerIsOwn ==
    ASSUME IInv, Answered
    PROVE  Own(finished) /\ finished.status = result
  BY DEF IInv, Where, Answered, Returned

\* The status that a calibration returns, when it is one, is of the procedure that this very
\* call asked for, whatever earlier calls have left running on the MCU.
THEOREM OwnStatusIs == Spec => []OwnStatus
  <1>1. IInv => OwnStatus
    BY AnswerIsOwn DEF OwnStatus, Own
  <1> QED
    BY <1>1, Inductive, PTL

\* The procedure ran with the clock, the bandwidth and the loopback pair of this call and
\* with the chip's SPI.
THEOREM OwnParametersAre == Spec => []OwnParameters
  <1>1. IInv => OwnParameters
    BY AnswerIsOwn DEF OwnParameters, Own
  <1> QED
    BY <1>1, Inductive, PTL
=============================================================================
