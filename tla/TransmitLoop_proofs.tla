-------------------------- MODULE TransmitLoop_proofs --------------------------
(***************************************************************************)
(* The transmit loop of one channel, for any packets in any order, any     *)
(* size of batch and number of buffers, and any hand-overs refused: what   *)
(* is popped is sent once and in order, samples leave at their time, and   *)
(* the packets of a batch are contiguous.                                  *)
(***************************************************************************)
EXTENDS TransmitLoop, SequenceTheorems, FiniteSetTheorems, TLAPS

-----------------------------------------------------------------------------
\* One channel.

Only == CHOOSE c \in Used : TRUE

\* The packets the loop has popped.
Popped == written[Only] - Len(fifo[Only])

\* A packet has been popped in this pass, and is not in the batch yet.
Assembling == has /\ pc \in {"channel", "assemble"}

\* The packets the application writes, by the time they are due.
Due == [n \in Times |-> Packet(n)]
DuePackets == {Due[n] : n \in Times}

\* FPGA packets that carry the samples due at their counter.
Timely == {p \in [counter : Times, ignore : BOOLEAN, payload : Int, samples : [{0} -> Times]] :
              /\ p.samples[0] = p.counter
              /\ p.ignore <=> "SYNC_TIMESTAMP" \notin kind[p.counter].flags}

TypeInv ==
    /\ kind \in [Times -> Kinds]
    /\ written \in [Used -> 0..Packets]
    /\ fifo \in [Used -> Seq(DuePackets)]
    /\ DOMAIN packets = {0, 1}
    /\ pc \in {"top", "channel", "assemble", "send", "ended"}
    /\ ch \in {0, 1}
    /\ has \in BOOLEAN
    /\ payloadSize \in Int
    /\ wire \in Seq(Timely) /\ batch \in Seq(Timely)
    /\ bi \in Buffers
    /\ transfer \in [Buffers -> {"none", "busy", "done"}]

\* The FIFO holds what has been written and not popped.
FifoOK ==
    /\ Popped \in 0..Packets
    /\ \A k \in DOMAIN fifo[Only] : fifo[Only][k] = Due[Popped + k - 1]

\* A pass pops one packet, and the channel is not looked at again.
PassOK ==
    /\ pc = "channel" /\ ch <= Only => ~has
    /\ Assembling => Popped > 0 /\ packets[0] = Due[Popped - 1]

WireCounters == {wire[i].counter : i \in DOMAIN wire}
BatchCounters == {batch[i].counter : i \in DOMAIN batch}

InOrder == /\ \A i, j \in DOMAIN wire : i < j => wire[i].counter < wire[j].counter
           /\ \A i, j \in DOMAIN batch : i < j => batch[i].counter < batch[j].counter
           /\ \A i \in DOMAIN wire, j \in DOMAIN batch : wire[i].counter < batch[j].counter

\* What has been popped is on the wire, refused, in the batch or being put together.
Accounted ==
    pc # "ended" =>
        refused \cup WireCounters \cup BatchCounters
            = 0..(IF Assembling THEN Popped - 2 ELSE Popped - 1)

BufferOK == /\ pc = "top" => batch = <<>>
            /\ pc \in {"channel", "assemble", "send"} => transfer[bi] # "busy"

IInv == TypeInv /\ FifoOK /\ PassOK /\ InOrder /\ Accounted /\ BufferOK

-----------------------------------------------------------------------------
\* The sizes of the packets, of the two formats a link has.

LinkFormat == /\ DataBytes = 4080
              /\ \/ maxSamples = 1360 /\ Quantum = 48
                 \/ maxSamples = 1020 /\ Quantum = 16

\* The payloads that hold a packet's samples.
Fit == [n \in Times |-> {b \in Int : /\ b <= DataBytes /\ b % Quantum = 0
                                     /\ b * maxSamples >= kind[n].last * DataBytes}]

SizeOK ==
    /\ pc \in {"channel", "assemble"} =>
          IF has THEN /\ payloadSize \in Fit[Popped - 1]
                      /\ payloadSize = DataBytes \/ EndBurst
                 ELSE payloadSize = DataBytes
    /\ \A i \in DOMAIN batch : /\ batch[i].payload \in Fit[batch[i].counter]
                               /\ i < Len(batch) => batch[i].payload = DataBytes
    /\ pc \in {"channel", "assemble"} => \A i \in DOMAIN batch : batch[i].payload = DataBytes

-----------------------------------------------------------------------------
\* What the steps have in common.

LEMMA OneChannel ==
    ASSUME chCount = 1
    PROVE  /\ Used = {Only} /\ Only \in {0, 1}
           /\ \A c : Slot(c) = 0
           /\ buffersCount \in Nat \ {0} /\ 0 \in Buffers /\ Packets \in Nat
  <1>1. Used \subseteq {0, 1} /\ Used # {} /\ Cardinality(Used) = 1
    BY LoopAssumption
  <1>2. PICK c \in {0, 1} : Used = {c}
    <2>1. IsFiniteSet({0, 1})
      <3>0. 0 \in Int /\ 1 \in Int
        OBVIOUS
      <3>1. IsFiniteSet(0..1)
        BY <3>0, FS_Interval
      <3>2. 0..1 = {0, 1}
        OBVIOUS
      <3> QED
        BY <3>1, <3>2
    <2>2. IsFiniteSet(Used)
      BY <1>1, <2>1, FS_Subset
    <2>3. \E x : Used = {x}
      BY <1>1, <2>2, FS_Singleton
    <2> QED
      BY <1>1, <2>3
  <1>3. Used = {Only}
    BY <1>2 DEF Only
  <1>4. buffersCount \in Nat \ {0} /\ Packets \in Nat
    BY LoopAssumption
  <1> QED
    BY <1>1, <1>3, <1>4 DEF Slot, Buffers

\* What two sequences hold, one behind the other.
LEMMA Joined ==
    ASSUME NEW S, NEW s \in Seq(S), NEW t \in Seq(S)
    PROVE  /\ s \o t \in Seq(S)
           /\ Len(s) \in Nat /\ DOMAIN s = 1..Len(s) /\ Len(t) \in Nat /\ DOMAIN t = 1..Len(t)
           /\ DOMAIN (s \o t) = 1..(Len(s) + Len(t))
           /\ \A i \in DOMAIN (s \o t) :
                 \/ i \in DOMAIN s /\ (s \o t)[i] = s[i]
                 \/ i > Len(s) /\ i - Len(s) \in DOMAIN t /\ (s \o t)[i] = t[i - Len(s)]
           /\ \A i \in DOMAIN s : i \in DOMAIN (s \o t) /\ (s \o t)[i] = s[i]
           /\ \A i \in DOMAIN t : Len(s) + i \in DOMAIN (s \o t) /\ (s \o t)[Len(s) + i] = t[i]
  <1>1. /\ s \o t \in Seq(S) /\ Len(s \o t) = Len(s) + Len(t)
        /\ \A i \in 1..(Len(s) + Len(t)) :
              (s \o t)[i] = IF i <= Len(s) THEN s[i] ELSE t[i - Len(s)]
    BY ConcatProperties
  <1>2. /\ Len(s) \in Nat /\ DOMAIN s = 1..Len(s) /\ Len(t) \in Nat /\ DOMAIN t = 1..Len(t)
        /\ DOMAIN (s \o t) = 1..(Len(s) + Len(t))
    BY <1>1, LenProperties
  <1>3. ASSUME NEW i \in DOMAIN (s \o t)
        PROVE  \/ i \in DOMAIN s /\ (s \o t)[i] = s[i]
               \/ i > Len(s) /\ i - Len(s) \in DOMAIN t /\ (s \o t)[i] = t[i - Len(s)]
    BY <1>1, <1>2
  <1>4. ASSUME NEW i \in DOMAIN s
        PROVE  i \in DOMAIN (s \o t) /\ (s \o t)[i] = s[i]
    BY <1>1, <1>2
  <1>5. ASSUME NEW i \in DOMAIN t
        PROVE  Len(s) + i \in DOMAIN (s \o t) /\ (s \o t)[Len(s) + i] = t[i]
    <2>1. Len(s) + i \in 1..(Len(s) + Len(t)) /\ ~(Len(s) + i <= Len(s))
          /\ (Len(s) + i) - Len(s) = i
      BY <1>2
    <2>2. (s \o t)[Len(s) + i] = t[(Len(s) + i) - Len(s)]
      BY <1>1, <2>1
    <2> QED
      BY <1>2, <2>1, <2>2
  <1> QED
    BY <1>1, <1>2, <1>3, <1>4, <1>5

\* The FIFO, as a sequence.
LEMMA TheFifo ==
    ASSUME chCount = 1, TypeInv
    PROVE  /\ fifo[Only] \in Seq(DuePackets)
           /\ Len(fifo[Only]) \in Nat /\ DOMAIN fifo[Only] = 1..Len(fifo[Only])
           /\ written[Only] \in 0..Packets /\ Packets \in Nat
           /\ Popped \in Int /\ Popped + Len(fifo[Only]) = written[Only]
           /\ Only \in Used
  <1>1. Only \in Used /\ Packets \in Nat
    BY OneChannel
  <1>2. /\ fifo[Only] \in Seq(DuePackets) /\ written[Only] \in 0..Packets
    BY <1>1 DEF TypeInv
  <1>3. Len(fifo[Only]) \in Nat /\ DOMAIN fifo[Only] = 1..Len(fifo[Only])
    BY <1>2, LenProperties
  <1> QED
    BY <1>1, <1>2, <1>3 DEF Popped

\* The oldest packet of the FIFO is popped: the next one that is due.
LEMMA Pops ==
    ASSUME chCount = 1, TypeInv, FifoOK, PopPacket
    PROVE  /\ ch = Only /\ pc = "channel" /\ Popped \in Times
           /\ packets' = [packets EXCEPT ![0] = Due[Popped]]
           /\ Popped' = Popped + 1
           /\ fifo' \in [Used -> Seq(DuePackets)]
           /\ Len(fifo'[Only]) = Len(fifo[Only]) - 1
           /\ DOMAIN fifo'[Only] = 1..(Len(fifo[Only]) - 1)
           /\ \A k \in DOMAIN fifo'[Only] : fifo'[Only][k] = fifo[Only][k + 1]
           /\ has' = TRUE
           /\ payloadSize' = IF Due[Popped].last = maxSamples THEN payloadSize
                             ELSE Rounded(Due[Popped].last)
           /\ UNCHANGED <<kind, written>>
  <1> DEFINE f == fifo[Only]
  <1>1. /\ f \in Seq(DuePackets)
        /\ Len(f) \in Nat /\ DOMAIN f = 1..Len(f)
        /\ written[Only] \in 0..Packets /\ Packets \in Nat
        /\ Popped \in Int /\ Popped + Len(f) = written[Only] /\ Only \in Used
    BY TheFifo
  <1>2. /\ ch = Only /\ pc = "channel" /\ f # <<>>
        /\ packets' = [packets EXCEPT ![0] = Head(f)]
        /\ fifo' = [fifo EXCEPT ![Only] = Tail(f)]
        /\ payloadSize' = IF Head(f).last = maxSamples THEN payloadSize ELSE Rounded(Head(f).last)
        /\ has' = TRUE
        /\ UNCHANGED <<kind, written>>
    BY OneChannel DEF PopPacket, app
  <1>3. /\ Head(f) = f[1] /\ 1 \in DOMAIN f
        /\ Tail(f) \in Seq(DuePackets) /\ Len(Tail(f)) = Len(f) - 1
        /\ \A k \in 1..(Len(f) - 1) : Tail(f)[k] = f[k + 1]
    BY <1>1, <1>2, EmptySeq, HeadTailProperties
  <1>4. fifo'[Only] = Tail(f) /\ fifo' \in [Used -> Seq(DuePackets)]
    BY <1>1, <1>2, <1>3 DEF TypeInv
  <1>5. DOMAIN fifo'[Only] = 1..(Len(f) - 1)
    BY <1>1, <1>3, <1>4, LenProperties
  <1>6. f[1] = Due[Popped]
    <2>1. 1 \in DOMAIN fifo[Only]
      BY <1>3
    <2>2. fifo[Only][1] = Due[Popped + 1 - 1]
      BY <2>1 DEF FifoOK
    <2>3. Popped + 1 - 1 = Popped
      BY <1>1
    <2> QED
      BY <2>2, <2>3
  <1>7. Popped \in Times /\ Popped' = Popped + 1
    <2>1. Len(fifo'[Only]) = Len(f) - 1 /\ written' = written
      BY <1>2, <1>3, <1>4
    <2>2. Len(f) >= 1 /\ Popped \in 0..Packets
      BY <1>1, <1>3 DEF FifoOK
    <2>3. Popped' = written[Only] - (Len(f) - 1)
      BY <2>1 DEF Popped
    <2>4. Popped = written[Only] - Len(f)
      BY DEF Popped
    <2> HIDE DEF f
    <2> QED
      BY <1>1, <2>2, <2>3, <2>4 DEF Times
  <1> HIDE DEF f
  <1> QED
    BY <1>2, <1>3, <1>4, <1>5, <1>6, <1>7 DEF f

\* The FPGA packet that is put together.
LEMMA Assembles ==
    ASSUME chCount = 1, TypeInv, FifoOK, PassOK, Assemble
    PROVE  /\ Assembling /\ Popped - 1 \in Times
           /\ FpgaPacket \in Timely
           /\ FpgaPacket.counter = Popped - 1 /\ FpgaPacket.payload = payloadSize
           /\ batch' = Append(batch, FpgaPacket)
           /\ batch' \in Seq(Timely) /\ Len(batch') = Len(batch) + 1 /\ Len(batch) \in Nat
           /\ DOMAIN batch = 1..Len(batch) /\ DOMAIN batch' = 1..(Len(batch) + 1)
           /\ batch'[Len(batch) + 1] = FpgaPacket
           /\ \A i \in DOMAIN batch : batch'[i] = batch[i]
           /\ ~Assembling'
           /\ UNCHANGED <<kind, written, fifo, packets, wire, refused>>
  <1>1. Assembling /\ pc = "assemble" /\ has
    BY DEF Assemble, Assembling
  <1>2. Popped > 0 /\ packets[0] = Due[Popped - 1] /\ Popped \in 0..Packets /\ Packets \in Nat
    BY <1>1, OneChannel DEF PassOK, FifoOK
  <1>3. Popped - 1 \in Times
    BY <1>2 DEF Times
  <1>4. packets[0] = Packet(Popped - 1)
    BY <1>2, <1>3 DEF Due
  <1>5. /\ FpgaPacket.counter = Popped - 1
        /\ FpgaPacket.payload = payloadSize
        /\ FpgaPacket.ignore = ("SYNC_TIMESTAMP" \notin kind[Popped - 1].flags)
        /\ FpgaPacket.samples = [c \in {0} |-> Popped - 1]
    <2>1. 0..(chCount - 1) = {0}
      OBVIOUS
    <2>2. /\ packets[0].timestamp = Popped - 1 /\ packets[0].flags = kind[Popped - 1].flags
          /\ packets[0].samples = Popped - 1
      BY <1>4 DEF Packet
    <2>3. [c \in 0..(chCount - 1) |-> packets[c].samples] = [c \in {0} |-> Popped - 1]
      BY <2>1, <2>2
    <2> QED
      BY <2>2, <2>3 DEF FpgaPacket
  <1>6. FpgaPacket = [counter |-> FpgaPacket.counter, ignore |-> FpgaPacket.ignore,
                      payload |-> FpgaPacket.payload, samples |-> FpgaPacket.samples]
    BY DEF FpgaPacket
  <1>7. FpgaPacket \in Timely
    <2>1. FpgaPacket.ignore \in BOOLEAN /\ payloadSize \in Int
      BY <1>5 DEF TypeInv
    <2>2. FpgaPacket \in [counter : Times, ignore : BOOLEAN, payload : Int,
                          samples : [{0} -> Times]]
      BY <1>3, <1>5, <1>6, <2>1
    <2> QED
      BY <1>5, <2>2 DEF Timely
  <1>8. batch' = Append(batch, FpgaPacket) /\ batch \in Seq(Timely)
    BY DEF Assemble, TypeInv
  <1>9. /\ batch' \in Seq(Timely) /\ Len(batch') = Len(batch) + 1 /\ Len(batch) \in Nat
        /\ DOMAIN batch = 1..Len(batch) /\ DOMAIN batch' = 1..(Len(batch) + 1)
        /\ batch'[Len(batch) + 1] = FpgaPacket
        /\ \A i \in DOMAIN batch : batch'[i] = batch[i]
    BY <1>7, <1>8, AppendProperties, LenProperties
  <1>10. ~Assembling'
    BY DEF Assemble, StartPass, Assembling
  <1>11. UNCHANGED <<kind, written, fifo, packets, wire, refused>>
    BY DEF Assemble, app
  <1> QED
    BY <1>1, <1>3, <1>5, <1>7, <1>8, <1>9, <1>10, <1>11

-----------------------------------------------------------------------------
\* Types.

LEMMA RoundedInt ==
    ASSUME NEW last \in Int
    PROVE  Rounded(last) \in Int
  <1> DEFINE bytes == (last * DataBytes) \div maxSamples
  <1>1. maxSamples \in Nat \ {0} /\ Quantum \in Nat \ {0} /\ DataBytes \in Int
    BY LoopAssumption
  <1>2. bytes \in Int
    BY <1>1
  <1>3. Rounded(last) = (1 + ((bytes - 1) \div Quantum)) * Quantum
    BY DEF Rounded
  <1> HIDE DEF bytes
  <1>4. (bytes - 1) \div Quantum \in Int
    BY <1>1, <1>2
  <1> QED
    BY <1>1, <1>3, <1>4

LEMMA NextInRing ==
    ASSUME NEW b \in Buffers
    PROVE  NextBuffer(b) \in Buffers
  <1>1. buffersCount \in {1, 2, 4, 8, 16}
    BY LoopAssumption
  <1> QED
    BY <1>1 DEF NextBuffer, Buffers

LEMMA TypeInit == chCount = 1 /\ Init => TypeInv
  BY OneChannel DEF Init, TypeInv

\* The application's next packet is due when its number says.
LEMMA Writes ==
    ASSUME chCount = 1, TypeInv, NEW c \in Used, Write(c)
    PROVE  /\ c = Only /\ written[Only] \in Times
           /\ written' \in [Used -> 0..Packets] /\ written'[Only] = written[Only] + 1
           /\ fifo' \in [Used -> Seq(DuePackets)]
           /\ Len(fifo'[Only]) = Len(fifo[Only]) + 1
           /\ DOMAIN fifo'[Only] = 1..(Len(fifo[Only]) + 1)
           /\ \A k \in DOMAIN fifo[Only] : fifo'[Only][k] = fifo[Only][k]
           /\ fifo'[Only][Len(fifo[Only]) + 1] = Due[written[Only]]
           /\ UNCHANGED <<kind, packets, pc, ch, has, payloadSize, batch, bi, transfer, wire,
                          refused>>
  <1> DEFINE f == fifo[Only]
  <1>1. /\ f \in Seq(DuePackets)
        /\ Len(f) \in Nat /\ DOMAIN f = 1..Len(f)
        /\ written[Only] \in 0..Packets /\ Packets \in Nat /\ Only \in Used
    BY TheFifo
  <1>2. /\ c = Only /\ written[Only] < Packets
        /\ fifo' = [fifo EXCEPT ![Only] = Append(f, Packet(written[Only]))]
        /\ written' = [written EXCEPT ![Only] = written[Only] + 1]
        /\ UNCHANGED <<kind, packets, pc, ch, has, payloadSize, batch, bi, transfer, wire, refused>>
    BY OneChannel DEF Write
  <1>3. written[Only] \in Times
    BY <1>1, <1>2 DEF Times
  <1>4. Packet(written[Only]) = Due[written[Only]]
    BY <1>3 DEF Due
  <1>5. Append(f, Due[written[Only]]) \in Seq(DuePackets)
    BY <1>1, <1>3, AppendProperties DEF DuePackets
  <1>6. fifo'[Only] = Append(f, Due[written[Only]])
    BY <1>1, <1>2, <1>4 DEF TypeInv
  <1>7. fifo' \in [Used -> Seq(DuePackets)]
    BY <1>1, <1>2, <1>4, <1>5 DEF TypeInv
  <1>8. /\ Len(fifo'[Only]) = Len(f) + 1
        /\ DOMAIN fifo'[Only] = 1..(Len(f) + 1)
        /\ \A k \in DOMAIN f : fifo'[Only][k] = f[k]
        /\ fifo'[Only][Len(f) + 1] = Due[written[Only]]
    BY <1>1, <1>3, <1>5, <1>6, AppendProperties, LenProperties DEF DuePackets
  <1>9. /\ written' \in [Used -> 0..Packets] /\ written'[Only] = written[Only] + 1
    <2>1. written[Only] + 1 \in 0..Packets
      BY <1>1, <1>2
    <2> QED
      BY <1>1, <1>2, <2>1 DEF TypeInv
  <1> HIDE DEF f
  <1> QED
    BY <1>2, <1>3, <1>7, <1>8, <1>9 DEF f

LEMMA TypeStep ==
    chCount = 1 /\ TypeInv /\ FifoOK /\ PassOK /\ [Next]_vars => TypeInv'
  <1> SUFFICES ASSUME chCount = 1, TypeInv, FifoOK, PassOK, [Next]_vars
               PROVE  TypeInv'
    OBVIOUS
  <1>k. kind' = kind
    BY DEF Next, LoopStep, Write, Terminate, Completed, End, TakeBuffer, SkipChannel, PopPacket,
       PopTimesOut, Assemble, StopBatch, Abandon, SendNothing, Send, Refused, app, vars
  <1>d. Due' = Due /\ DuePackets' = DuePackets /\ Timely' = Timely
    BY <1>k DEF Due, DuePackets, Packet, Timely
  <1>1. ASSUME NEW c \in Used, Write(c)
        PROVE  TypeInv'
    BY <1>1, <1>d, Writes DEF TypeInv
  <1>2. CASE Terminate \/ UNCHANGED vars
    BY <1>2, <1>d DEF Terminate, app, vars, TypeInv
  <1>3. ASSUME NEW b \in Buffers, Completed(b)
        PROVE  TypeInv'
    BY <1>3, <1>d DEF Completed, app, TypeInv
  <1>4. CASE End \/ StopBatch \/ Abandon \/ SendNothing
    BY <1>4, <1>d DEF End, StopBatch, Abandon, SendNothing, app, TypeInv
  <1>5. CASE TakeBuffer
    <2>1. <<>> \in Seq(Timely) /\ DataBytes \in Int
      BY EmptySeq, LoopAssumption
    <2> QED
      BY <1>5, <1>d, <2>1 DEF TakeBuffer, StartPass, app, TypeInv
  <1>6. CASE SkipChannel \/ PopTimesOut
    BY <1>6, <1>d, OneChannel DEF SkipChannel, PopTimesOut, NextChannel, app, TypeInv
  <1>7. CASE PopPacket
    <2>1. /\ packets' = [packets EXCEPT ![0] = Due[Popped]]
          /\ fifo' \in [Used -> Seq(DuePackets)]
          /\ has' = TRUE /\ UNCHANGED <<kind, written>>
          /\ payloadSize' = IF Due[Popped].last = maxSamples THEN payloadSize
                             ELSE Rounded(Due[Popped].last)
          /\ Popped \in Times
      BY <1>7, Pops
    <2>2. Due[Popped].last \in Int
      BY <2>1, LoopAssumption DEF Due, Packet, TypeInv
    <2>3. Rounded(Due[Popped].last) \in Int
      BY <2>2, RoundedInt
    <2>4. payloadSize' \in Int
      BY <2>1, <2>3 DEF TypeInv
    <2> QED
      BY <1>7, <1>d, <2>1, <2>4 DEF PopPacket, NextChannel, TypeInv
  <1>8. CASE Assemble
    <2>1. batch' \in Seq(Timely)
      BY <1>8, Assembles
    <2>2. DataBytes \in Int
      BY LoopAssumption
    <2> QED
      BY <1>8, <1>d, <2>1, <2>2 DEF Assemble, StartPass, app, TypeInv
  <1>9. CASE Send \/ Refused
    <2>1. bi' \in Buffers
      BY <1>9, NextInRing DEF Send, Refused, HandOver, TypeInv
    <2>2. wire' \in Seq(Timely) /\ batch' \in Seq(Timely)
      <3>1. wire \o batch \in Seq(Timely) /\ wire \in Seq(Timely)
        BY Joined DEF TypeInv
      <3>2. <<>> \in Seq(Timely)
        BY EmptySeq
      <3> QED
        BY <1>9, <3>1, <3>2 DEF Send, Refused, HandOver
    <2> QED
      BY <1>9, <1>d, <2>1, <2>2 DEF Send, Refused, HandOver, app, TypeInv
  <1> QED
    BY <1>1, <1>2, <1>3, <1>4, <1>5, <1>6, <1>7, <1>8, <1>9 DEF Next, LoopStep

LEMMA FifoStep ==
    chCount = 1 /\ TypeInv /\ FifoOK /\ [Next]_vars => FifoOK'
  <1> SUFFICES ASSUME chCount = 1, TypeInv, FifoOK, [Next]_vars
               PROVE  FifoOK'
    OBVIOUS
  <1>f. /\ Len(fifo[Only]) \in Nat /\ DOMAIN fifo[Only] = 1..Len(fifo[Only])
        /\ written[Only] \in 0..Packets /\ Packets \in Nat
        /\ Popped \in Int /\ Popped + Len(fifo[Only]) = written[Only]
    BY TheFifo
  <1>1. ASSUME NEW c \in Used, Write(c)
        PROVE  FifoOK'
    <2>1. /\ written'[Only] = written[Only] + 1
          /\ Len(fifo'[Only]) = Len(fifo[Only]) + 1
          /\ DOMAIN fifo'[Only] = 1..(Len(fifo[Only]) + 1)
          /\ \A k \in DOMAIN fifo[Only] : fifo'[Only][k] = fifo[Only][k]
          /\ fifo'[Only][Len(fifo[Only]) + 1] = Due[written[Only]]
          /\ kind' = kind
      BY <1>1, Writes
    <2>2. Due' = Due
      BY <2>1 DEF Due, Packet
    <2>3. Popped' = Popped
      BY <1>f, <2>1 DEF Popped
    <2>4. ASSUME NEW k \in DOMAIN fifo'[Only]
          PROVE  fifo'[Only][k] = Due[Popped + k - 1]
      <3>1. CASE k \in DOMAIN fifo[Only]
        BY <2>1, <3>1 DEF FifoOK
      <3>2. CASE k = Len(fifo[Only]) + 1
        <4>1. Popped + k - 1 = written[Only]
          BY <1>f, <3>2
        <4> QED
          BY <2>1, <3>2, <4>1
      <3>3. k \in DOMAIN fifo[Only] \/ k = Len(fifo[Only]) + 1
        BY <1>f, <2>1
      <3> QED
        BY <3>1, <3>2, <3>3
    <2> QED
      BY <2>2, <2>3, <2>4 DEF FifoOK
  <1>2. CASE PopPacket
    <2>1. /\ Popped \in Times /\ Popped' = Popped + 1
          /\ DOMAIN fifo'[Only] = 1..(Len(fifo[Only]) - 1)
          /\ \A k \in DOMAIN fifo'[Only] : fifo'[Only][k] = fifo[Only][k + 1]
          /\ kind' = kind
      BY <1>2, Pops
    <2>2. Due' = Due
      BY <2>1 DEF Due, Packet
    <2>3. ASSUME NEW k \in DOMAIN fifo'[Only]
          PROVE  fifo'[Only][k] = Due[(Popped + 1) + k - 1]
      <3>1. k \in Int /\ k + 1 \in 1..Len(fifo[Only])
        BY <1>f, <2>1
      <3>2. Popped + (k + 1) - 1 = (Popped + 1) + k - 1
        BY <1>f, <3>1
      <3> QED
        BY <1>f, <2>1, <3>1, <3>2 DEF FifoOK
    <2>4. Popped' \in 0..Packets
      BY <1>f, <2>1 DEF Times
    <2> QED
      BY <2>1, <2>2, <2>3, <2>4 DEF FifoOK
  <1>3. CASE UNCHANGED <<kind, written, fifo>>
    <2>1. Due' = Due /\ Popped' = Popped
      BY <1>3 DEF Due, Packet, Popped
    <2> QED
      BY <1>3, <2>1 DEF FifoOK
  <1>4. CASE Terminate \/ (\E b \in Buffers : Completed(b)) \/ UNCHANGED vars
    BY <1>3, <1>4 DEF Terminate, Completed, vars, app
  <1>5. CASE LoopStep /\ ~PopPacket
    BY <1>3, <1>5 DEF LoopStep, End, TakeBuffer, SkipChannel,
       PopTimesOut, Assemble, StopBatch, Abandon, SendNothing, Send, Refused, app
  <1> QED
    BY <1>1, <1>2, <1>4, <1>5 DEF Next

-----------------------------------------------------------------------------
\* A pass pops one packet.

LEMMA NothingPopped ==
    ASSUME UNCHANGED <<kind, written, fifo>>
    PROVE  Popped' = Popped /\ Due' = Due
  BY DEF Popped, Due, Packet

LEMMA PassStep ==
    chCount = 1 /\ TypeInv /\ FifoOK /\ PassOK /\ [Next]_vars => PassOK'
  <1> SUFFICES ASSUME chCount = 1, TypeInv, FifoOK, PassOK, [Next]_vars
               PROVE  PassOK'
    OBVIOUS
  <1>0. Only \in {0, 1} /\ Used = {Only} /\ ch \in {0, 1}
    BY OneChannel DEF TypeInv
  <1>1. ASSUME NEW c \in Used, Write(c)
        PROVE  PassOK'
    <2>1. /\ written'[Only] = written[Only] + 1
          /\ Len(fifo'[Only]) = Len(fifo[Only]) + 1
          /\ UNCHANGED <<kind, packets, pc, ch, has>>
      BY <1>1, Writes
    <2>2. Popped' = Popped
      BY <2>1, TheFifo DEF Popped
    <2>3. Due' = Due
      BY <2>1 DEF Due, Packet
    <2> QED
      BY <2>1, <2>2, <2>3 DEF PassOK, Assembling
  <1>2. CASE PopPacket
    <2>1. /\ ch = Only /\ Popped \in Times
          /\ packets' = [packets EXCEPT ![0] = Due[Popped]]
          /\ Popped' = Popped + 1 /\ kind' = kind
      BY <1>2, Pops
    <2>2. Due' = Due
      BY <2>1 DEF Due, Packet
    <2>3. packets'[0] = Due[Popped]
      BY <2>1 DEF TypeInv
    <2>4. Popped' > 0 /\ Popped' - 1 = Popped
      BY <2>1 DEF Times
    <2>5. pc' = "channel" => ch' > Only
      BY <1>0, <1>2, <2>1 DEF PopPacket, NextChannel
    <2>6. ch' \in {0, 1}
      BY <1>2 DEF PopPacket, NextChannel
    <2> QED
      BY <1>0, <2>2, <2>3, <2>4, <2>5, <2>6 DEF PassOK
  <1>3. CASE PopTimesOut
    <2>1. ~has /\ has' = has
      BY <1>0, <1>3 DEF PopTimesOut, PassOK
    <2> QED
      BY <2>1 DEF PassOK, Assembling
  <1>4. CASE SkipChannel
    <2>1. /\ pc = "channel" /\ ch # Only
          /\ UNCHANGED <<kind, written, fifo, packets, has>>
          /\ IF ch = 0 THEN pc' = "channel" /\ ch' = 1 ELSE pc' = "assemble" /\ ch' = 0
      BY <1>0, <1>4 DEF SkipChannel, NextChannel, app
    <2>2. Popped' = Popped /\ Due' = Due
      BY <2>1, NothingPopped
    <2> QED
      BY <1>0, <2>1, <2>2 DEF PassOK, Assembling
  <1>5. CASE TakeBuffer \/ Assemble
    BY <1>5 DEF TakeBuffer, Assemble, StartPass, PassOK, Assembling
  <1>6. CASE End \/ StopBatch \/ Abandon \/ SendNothing \/ Send \/ Refused
    BY <1>6 DEF End, StopBatch, Abandon, SendNothing, Send, Refused, HandOver, PassOK, Assembling
  <1>7. CASE Terminate \/ (\E b \in Buffers : Completed(b)) \/ UNCHANGED vars
    <2>1. UNCHANGED <<kind, written, fifo, packets, has, pc, ch>>
      BY <1>7 DEF Terminate, Completed, vars, app
    <2>2. Popped' = Popped /\ Due' = Due
      BY <2>1, NothingPopped
    <2> QED
      BY <2>1, <2>2 DEF PassOK, Assembling
  <1> QED
    BY <1>1, <1>2, <1>3, <1>4, <1>5, <1>6, <1>7 DEF Next, LoopStep

-----------------------------------------------------------------------------
\* What is popped is sent once and in order.

\* What a step does to what is popped and made: nothing, or one of four things.
Idle == /\ UNCHANGED <<wire, batch, refused>>
        /\ Popped' = Popped
        /\ pc' # "ended" => pc # "ended" /\ (Assembling' <=> Assembling)

LEMMA IdleSteps ==
    chCount = 1 /\ TypeInv /\ FifoOK /\ PassOK /\ BufferOK /\ [Next]_vars
        => PopPacket \/ Assemble \/ Send \/ Refused \/ Idle
  <1> SUFFICES ASSUME chCount = 1, TypeInv, FifoOK, PassOK, BufferOK, [Next]_vars
               PROVE  PopPacket \/ Assemble \/ Send \/ Refused \/ Idle
    OBVIOUS
  <1>0. Only \in {0, 1} /\ Used = {Only} /\ ch \in {0, 1}
    BY OneChannel DEF TypeInv
  <1>1. ASSUME NEW c \in Used, Write(c)
        PROVE  Idle
    <2>1. /\ written'[Only] = written[Only] + 1
          /\ Len(fifo'[Only]) = Len(fifo[Only]) + 1
          /\ UNCHANGED <<pc, has, wire, batch, refused>>
      BY <1>1, Writes
    <2>2. Popped' = Popped
      BY <2>1, TheFifo DEF Popped
    <2> QED
      BY <2>1, <2>2 DEF Idle, Assembling
  <1>2. CASE PopTimesOut \/ SkipChannel
    <2>1. /\ UNCHANGED <<kind, written, fifo, wire, batch, refused, has>>
          /\ pc = "channel" /\ pc' \in {"channel", "assemble"}
      BY <1>2 DEF PopTimesOut, SkipChannel, NextChannel, app
    <2>2. Popped' = Popped
      BY <2>1, NothingPopped
    <2> QED
      BY <2>1, <2>2 DEF Idle, Assembling
  <1>3. CASE TakeBuffer
    <2>1. /\ UNCHANGED <<kind, written, fifo, wire, refused>>
          /\ pc = "top" /\ has' = FALSE /\ batch' = <<>>
      BY <1>3 DEF TakeBuffer, StartPass, app
    <2>2. Popped' = Popped
      BY <2>1, NothingPopped
    <2> QED
      BY <2>1, <2>2 DEF Idle, Assembling, BufferOK
  <1>4. CASE End \/ StopBatch \/ Abandon \/ SendNothing \/ Terminate
             \/ (\E b \in Buffers : Completed(b)) \/ UNCHANGED vars
    <2>1. /\ UNCHANGED <<kind, written, fifo, wire, batch, refused, has>>
          /\ \/ pc' = pc \/ pc' = "ended"
             \/ ~has /\ pc = "assemble" /\ pc' = "send"
             \/ pc = "send" /\ pc' = "top"
      BY <1>4 DEF End, StopBatch, Abandon, SendNothing, Terminate, Completed, vars, app
    <2>2. Popped' = Popped
      BY <2>1, NothingPopped
    <2> QED
      BY <2>1, <2>2 DEF Idle, Assembling
  <1> QED
    BY <1>1, <1>2, <1>3, <1>4 DEF Next, LoopStep

LEMMA BufferStep == TypeInv /\ BufferOK /\ [Next]_vars => BufferOK'
  <1> SUFFICES ASSUME TypeInv, BufferOK, [Next]_vars
               PROVE  BufferOK'
    OBVIOUS
  <1>1. ASSUME NEW c \in Used, Write(c)
        PROVE  BufferOK'
    BY <1>1 DEF Write, BufferOK
  <1>2. CASE TakeBuffer
    BY <1>2 DEF TakeBuffer, StartPass, BufferOK, TypeInv
  <1>3. ASSUME NEW b \in Buffers, Completed(b)
        PROVE  BufferOK'
    BY <1>3 DEF Completed, BufferOK, TypeInv
  <1>4. CASE Terminate \/ UNCHANGED vars
    BY <1>4 DEF Terminate, vars, BufferOK
  <1>5. CASE End \/ Abandon
    BY <1>5 DEF End, Abandon, BufferOK
  <1>6. CASE SkipChannel \/ PopPacket \/ PopTimesOut \/ Assemble \/ StopBatch
    <2>1. /\ pc \in {"channel", "assemble"} /\ pc' \in {"channel", "assemble", "send"}
          /\ UNCHANGED <<bi, transfer>>
      BY <1>6 DEF SkipChannel, PopPacket, PopTimesOut, Assemble, StopBatch, NextChannel, StartPass
    <2> QED
      BY <2>1 DEF BufferOK
  <1>7. CASE SendNothing \/ Send \/ Refused
    BY <1>7 DEF SendNothing, Send, Refused, HandOver, BufferOK
  <1> QED
    BY <1>1, <1>2, <1>3, <1>4, <1>5, <1>6, <1>7 DEF Next, LoopStep

\* What is on the wire and in the batch, one behind the other.
LEMMA MadeInOrder ==
    ASSUME TypeInv, InOrder
    PROVE  \A i, j \in DOMAIN Made : i < j => Made[i].counter < Made[j].counter
  <1>1. /\ Len(wire) \in Nat /\ DOMAIN wire = 1..Len(wire) /\ DOMAIN batch = 1..Len(batch)
        /\ Len(batch) \in Nat
        /\ DOMAIN Made = 1..(Len(wire) + Len(batch))
        /\ \A i \in DOMAIN Made :
              \/ i \in DOMAIN wire /\ Made[i] = wire[i]
              \/ i > Len(wire) /\ i - Len(wire) \in DOMAIN batch /\ Made[i] = batch[i - Len(wire)]
    BY Joined DEF TypeInv, Made
  <1> SUFFICES ASSUME NEW i \in DOMAIN Made, NEW j \in DOMAIN Made, i < j
               PROVE  Made[i].counter < Made[j].counter
    OBVIOUS
  <1>2. CASE i \in DOMAIN wire /\ Made[i] = wire[i]
    <2>1. CASE j \in DOMAIN wire /\ Made[j] = wire[j]
      BY <1>2, <2>1 DEF InOrder
    <2>2. CASE j - Len(wire) \in DOMAIN batch /\ Made[j] = batch[j - Len(wire)]
      BY <1>2, <2>2 DEF InOrder
    <2> QED
      BY <1>1, <2>1, <2>2
  <1>3. CASE i > Len(wire) /\ i - Len(wire) \in DOMAIN batch /\ Made[i] = batch[i - Len(wire)]
    <2>1. j - Len(wire) \in DOMAIN batch /\ Made[j] = batch[j - Len(wire)]
      BY <1>1, <1>3
    <2>2. i - Len(wire) < j - Len(wire)
      BY <1>1
    <2> QED
      BY <1>3, <2>1, <2>2 DEF InOrder
  <1> QED
    BY <1>1, <1>2, <1>3

LEMMA MadeCounters ==
    ASSUME TypeInv
    PROVE  {Made[i].counter : i \in DOMAIN Made} = WireCounters \cup BatchCounters
  <1>1. /\ \A i \in DOMAIN Made :
              \/ i \in DOMAIN wire /\ Made[i] = wire[i]
              \/ i - Len(wire) \in DOMAIN batch /\ Made[i] = batch[i - Len(wire)]
        /\ \A i \in DOMAIN wire : i \in DOMAIN Made /\ Made[i] = wire[i]
        /\ \A i \in DOMAIN batch : Len(wire) + i \in DOMAIN Made /\ Made[Len(wire) + i] = batch[i]
    BY Joined DEF TypeInv, Made
  <1>2. \A i \in DOMAIN Made : Made[i].counter \in WireCounters \cup BatchCounters
    BY <1>1 DEF WireCounters, BatchCounters
  <1>3. ASSUME NEW i \in DOMAIN wire
        PROVE  \E j \in DOMAIN Made : Made[j].counter = wire[i].counter
    BY <1>1
  <1>4. ASSUME NEW i \in DOMAIN batch
        PROVE  \E j \in DOMAIN Made : Made[j].counter = batch[i].counter
    BY <1>1
  <1> QED
    BY <1>2, <1>3, <1>4 DEF WireCounters, BatchCounters

\* A batch goes to the wire, or is refused.
LEMMA HandsOver ==
    ASSUME TypeInv, HandOver, UNCHANGED <<kind, written, fifo, has>>
    PROVE  /\ batch' = <<>> /\ DOMAIN batch' = {} /\ BatchCounters' = {}
           /\ ~Assembling /\ ~Assembling' /\ pc # "ended" /\ Popped' = Popped
  BY NothingPopped DEF HandOver, BatchCounters, Assembling

LEMMA InOrderStep ==
    /\ chCount = 1 /\ TypeInv /\ FifoOK /\ PassOK /\ InOrder /\ Accounted /\ BufferOK
    /\ [Next]_vars
    => InOrder'
  <1> SUFFICES ASSUME chCount = 1, TypeInv, FifoOK, PassOK, InOrder, Accounted, BufferOK,
                      [Next]_vars
               PROVE  InOrder'
    OBVIOUS
  <1>1. CASE Assemble
    <2>1. /\ Assembling /\ FpgaPacket.counter = Popped - 1
          /\ Len(batch) \in Nat
          /\ DOMAIN batch = 1..Len(batch) /\ DOMAIN batch' = 1..(Len(batch) + 1)
          /\ batch'[Len(batch) + 1] = FpgaPacket
          /\ \A i \in DOMAIN batch : batch'[i] = batch[i]
          /\ wire' = wire
      BY <1>1, Assembles
    <2>2. pc # "ended" /\ Popped \in Int
      BY <1>1, TheFifo DEF Assemble
    <2>3. WireCounters \cup BatchCounters \subseteq 0..(Popped - 2)
      BY <2>1, <2>2 DEF Accounted
    <2>4. /\ \A i \in DOMAIN wire : wire[i].counter < Popped - 1
          /\ \A i \in DOMAIN batch : batch[i].counter < Popped - 1
      BY <2>2, <2>3 DEF WireCounters, BatchCounters
    <2> HIDE DEF Assembling
    <2>5. ASSUME NEW i \in DOMAIN batch', NEW j \in DOMAIN batch', i < j
          PROVE  batch'[i].counter < batch'[j].counter
      <3>1. i \in DOMAIN batch
        BY <2>1, <2>5
      <3>2. CASE j \in DOMAIN batch
        BY <2>1, <2>5, <3>1, <3>2 DEF InOrder
      <3>3. CASE j = Len(batch) + 1
        BY <2>1, <2>4, <3>1, <3>3
      <3> QED
        BY <2>1, <3>2, <3>3
    <2>6. ASSUME NEW i \in DOMAIN wire, NEW j \in DOMAIN batch'
          PROVE  wire[i].counter < batch'[j].counter
      <3>1. CASE j \in DOMAIN batch
        BY <2>1, <3>1 DEF InOrder
      <3>2. CASE j = Len(batch) + 1
        BY <2>1, <2>4, <3>2
      <3> QED
        BY <2>1, <3>1, <3>2
    <2> QED
      BY <2>1, <2>5, <2>6 DEF InOrder
  <1>2. CASE Send
    <2>1. DOMAIN batch' = {} /\ wire' = wire \o batch
      BY <1>2, HandsOver DEF Send, app
    <2>2. ASSUME NEW i \in DOMAIN wire', NEW j \in DOMAIN wire', i < j
          PROVE  wire'[i].counter < wire'[j].counter
      BY <2>1, <2>2, MadeInOrder DEF Made
    <2> QED
      BY <2>1, <2>2 DEF InOrder
  <1>3. CASE Refused
    <2>1. DOMAIN batch' = {} /\ wire' = wire
      BY <1>3, HandsOver DEF Refused, app
    <2> QED
      BY <2>1 DEF InOrder
  <1>4. CASE PopPacket \/ Idle
    <2>1. UNCHANGED <<wire, batch>>
      BY <1>4 DEF PopPacket, Idle
    <2> QED
      BY <2>1 DEF InOrder
  <1> QED
    BY <1>1, <1>2, <1>3, <1>4, IdleSteps

LEMMA AccountedStep ==
    /\ chCount = 1 /\ TypeInv /\ FifoOK /\ PassOK /\ Accounted /\ BufferOK
    /\ [Next]_vars
    => Accounted'
  <1> SUFFICES ASSUME chCount = 1, TypeInv, FifoOK, PassOK, Accounted, BufferOK,
                      [Next]_vars, pc' # "ended"
               PROVE  Accounted'
    BY DEF Accounted
  <1>p. Popped \in Int
    BY TheFifo
  <1>1. CASE Assemble
    <2>1. /\ Assembling /\ ~Assembling' /\ FpgaPacket.counter = Popped - 1
          /\ Popped - 1 \in Times
          /\ DOMAIN batch = 1..Len(batch) /\ DOMAIN batch' = 1..(Len(batch) + 1)
          /\ Len(batch) \in Nat
          /\ batch'[Len(batch) + 1] = FpgaPacket
          /\ \A i \in DOMAIN batch : batch'[i] = batch[i]
          /\ UNCHANGED <<kind, written, fifo, wire, refused>>
      BY <1>1, Assembles
    <2>2. Popped' = Popped /\ WireCounters' = WireCounters
      BY <2>1, NothingPopped DEF WireCounters
    <2>3. BatchCounters' = BatchCounters \cup {Popped - 1}
      <3>1. DOMAIN batch' = DOMAIN batch \cup {Len(batch) + 1}
        BY <2>1
      <3> QED
        BY <2>1, <3>1 DEF BatchCounters
    <2>4. refused \cup WireCounters \cup BatchCounters = 0..(Popped - 2)
      BY <1>1, <2>1 DEF Accounted, Assemble
    <2>5. 0..(Popped - 1) = (0..(Popped - 2)) \cup {Popped - 1}
      BY <1>p, <2>1 DEF Times
    <2>6. refused' \cup WireCounters' \cup BatchCounters' = 0..(Popped' - 1)
      BY <2>1, <2>2, <2>3, <2>4, <2>5
    <2> QED
      BY <2>1, <2>6 DEF Accounted
  <1>2. CASE Send
    <2>1. /\ BatchCounters' = {} /\ wire' = wire \o batch /\ refused' = refused
          /\ ~Assembling /\ ~Assembling' /\ pc # "ended" /\ Popped' = Popped
      BY <1>2, HandsOver DEF Send, app
    <2>2. WireCounters' = WireCounters \cup BatchCounters
      BY <2>1, MadeCounters DEF Made, WireCounters
    <2> QED
      BY <2>1, <2>2 DEF Accounted
  <1>3. CASE Refused
    <2>1. /\ BatchCounters' = {} /\ wire' = wire /\ refused' = refused \cup BatchCounters
          /\ ~Assembling /\ ~Assembling' /\ pc # "ended" /\ Popped' = Popped
      BY <1>3, HandsOver DEF Refused, app, BatchCounters
    <2>2. WireCounters' = WireCounters
      BY <2>1 DEF WireCounters
    <2> QED
      BY <2>1, <2>2 DEF Accounted
  <1>4. CASE PopPacket
    <2>1. /\ ch = Only /\ pc = "channel" /\ Popped' = Popped + 1 /\ has' = TRUE
      BY <1>4, Pops
    <2>2. UNCHANGED <<wire, batch, refused>> /\ pc' \in {"channel", "assemble"}
      BY <1>4 DEF PopPacket, NextChannel
    <2>3. ~Assembling /\ Assembling'
      BY OneChannel, <2>1, <2>2 DEF PassOK, Assembling
    <2>4. WireCounters' = WireCounters /\ BatchCounters' = BatchCounters
      BY <2>2 DEF WireCounters, BatchCounters
    <2>5. Popped' - 2 = Popped - 1
      BY <1>p, <2>1
    <2> QED
      BY <2>1, <2>2, <2>3, <2>4, <2>5 DEF Accounted
  <1>5. CASE Idle
    <2>1. WireCounters' = WireCounters /\ BatchCounters' = BatchCounters
      BY <1>5 DEF Idle, WireCounters, BatchCounters
    <2> QED
      BY <1>5, <2>1 DEF Idle, Accounted
  <1> QED
    BY <1>1, <1>2, <1>3, <1>4, <1>5, IdleSteps

-----------------------------------------------------------------------------
\* The sizes of the packets.

LEMMA Fits ==
    ASSUME LinkFormat, TypeInv, NEW n \in Times
    PROVE  /\ kind[n].last = maxSamples => DataBytes \in Fit[n]
           /\ kind[n].last # maxSamples => /\ Rounded(kind[n].last) \in Fit[n]
                                           /\ "END_BURST" \in kind[n].flags
  <1> DEFINE last == kind[n].last
  <1>1. kind[n] \in Kinds
    BY DEF TypeInv
  <1>2. last \in 1..maxSamples /\ (last < maxSamples => "END_BURST" \in kind[n].flags)
    BY <1>1, LoopAssumption
  <1>3. maxSamples \in Nat
    BY LoopAssumption
  <1> HIDE DEF last
  <1>4. ASSUME NEW b \in Int, b <= DataBytes, b % Quantum = 0,
               b * maxSamples >= last * DataBytes
        PROVE  b \in Fit[n]
    BY <1>4 DEF Fit, last
  <1>5. ASSUME last = maxSamples
        PROVE  DataBytes \in Fit[n]
    <2>1. DataBytes \in Int /\ DataBytes % Quantum = 0
      BY DEF LinkFormat
    <2>2. DataBytes * maxSamples >= last * DataBytes
      BY <1>5 DEF LinkFormat
    <2> QED
      BY <1>4, <2>1, <2>2
  <1>6. ASSUME last # maxSamples
        PROVE  Rounded(last) \in Fit[n]
    <2>0. last \in 1..(maxSamples - 1)
      BY <1>2, <1>3, <1>6
    <2>1. CASE maxSamples = 1360
      <3>1. Quantum = 48 /\ DataBytes = 4080
        BY <2>1 DEF LinkFormat
      <3>2. (last * 4080) \div 1360 = last * 3
        BY <2>0, <2>1
      <3>3. Rounded(last) = (1 + ((last * 3 - 1) \div 48)) * 48
        BY <2>1, <3>1, <3>2 DEF Rounded
      <3> DEFINE r == (last * 3 - 1) \div 48
      <3>4. r \in Int /\ r * 48 <= last * 3 - 1 /\ last * 3 - 1 < r * 48 + 48
        BY <2>0, <2>1
      <3> HIDE DEF r
      <3>5. /\ Rounded(last) \in Int /\ Rounded(last) = (1 + r) * 48
            /\ Rounded(last) <= 4080 /\ Rounded(last) >= last * 3
        BY <2>0, <2>1, <3>3, <3>4 DEF r
      <3>6. Rounded(last) % 48 = 0
        BY <3>4, <3>5
      <3>7. Rounded(last) * 1360 >= last * 4080
        BY <2>0, <2>1, <3>5
      <3> QED
        BY <1>4, <2>1, <3>1, <3>5, <3>6, <3>7
    <2>2. CASE maxSamples = 1020
      <3>1. Quantum = 16 /\ DataBytes = 4080
        BY <2>2 DEF LinkFormat
      <3>2. (last * 4080) \div 1020 = last * 4
        BY <2>0, <2>2
      <3>3. Rounded(last) = (1 + ((last * 4 - 1) \div 16)) * 16
        BY <2>2, <3>1, <3>2 DEF Rounded
      <3> DEFINE r == (last * 4 - 1) \div 16
      <3>4. r \in Int /\ r * 16 <= last * 4 - 1 /\ last * 4 - 1 < r * 16 + 16
        BY <2>0, <2>2
      <3> HIDE DEF r
      <3>5. /\ Rounded(last) \in Int /\ Rounded(last) = (1 + r) * 16
            /\ Rounded(last) <= 4080 /\ Rounded(last) >= last * 4
        BY <2>0, <2>2, <3>3, <3>4 DEF r
      <3>6. Rounded(last) % 16 = 0
        BY <3>4, <3>5
      <3>7. Rounded(last) * 1020 >= last * 4080
        BY <2>0, <2>2, <3>5
      <3> QED
        BY <1>4, <2>2, <3>1, <3>5, <3>6, <3>7
    <2> QED
      BY <2>1, <2>2 DEF LinkFormat
  <1> QED
    BY <1>2, <1>3, <1>5, <1>6 DEF last

LEMMA SizeStep ==
    /\ LinkFormat /\ chCount = 1 /\ TypeInv /\ FifoOK /\ PassOK /\ BufferOK /\ SizeOK
    /\ [Next]_vars
    => SizeOK'
  <1> SUFFICES ASSUME LinkFormat, chCount = 1, TypeInv, FifoOK, PassOK, BufferOK, SizeOK,
                      [Next]_vars
               PROVE  SizeOK'
    OBVIOUS
  <1>k. kind' = kind
    BY DEF Next, LoopStep, Write, Terminate, Completed, End, TakeBuffer, SkipChannel, PopPacket,
       PopTimesOut, Assemble, StopBatch, Abandon, SendNothing, Send, Refused, app, vars
  <1>f. Fit' = Fit
    BY <1>k DEF Fit
  <1>1. CASE PopPacket
    <2>1. /\ ch = Only /\ pc = "channel" /\ Popped \in Times
          /\ packets' = [packets EXCEPT ![0] = Due[Popped]]
          /\ Popped' = Popped + 1 /\ has' = TRUE
          /\ payloadSize' = IF Due[Popped].last = maxSamples THEN payloadSize
                            ELSE Rounded(Due[Popped].last)
      BY <1>1, Pops
    <2>2. batch' = batch
      BY <1>1 DEF PopPacket
    <2>3. payloadSize = DataBytes /\ \A i \in DOMAIN batch : batch[i].payload = DataBytes
      BY <2>1, OneChannel DEF PassOK, SizeOK
    <2>4. Due[Popped].last = kind[Popped].last /\ Due[Popped].flags = kind[Popped].flags
      BY <2>1 DEF Due, Packet
    <2>5. packets'[0].flags = kind[Popped].flags
      BY <2>1, <2>4 DEF TypeInv
    <2>6. payloadSize' \in Fit[Popped] /\ (payloadSize' = DataBytes \/ EndBurst')
      <3>1. CASE kind[Popped].last = maxSamples
        BY <2>1, <2>3, <2>4, <3>1, Fits
      <3>2. CASE kind[Popped].last # maxSamples
        BY <2>1, <2>4, <2>5, <3>2, Fits DEF EndBurst
      <3> QED
        BY <3>1, <3>2
    <2>7. Popped' - 1 = Popped
      BY <2>1 DEF Times
    <2> QED
      BY <1>f, <2>1, <2>2, <2>3, <2>6, <2>7 DEF SizeOK
  <1>2. CASE Assemble
    <2>1. /\ Assembling /\ FpgaPacket.counter = Popped - 1
          /\ FpgaPacket.payload = payloadSize
          /\ DOMAIN batch = 1..Len(batch) /\ DOMAIN batch' = 1..(Len(batch) + 1)
          /\ Len(batch) \in Nat /\ Len(batch') = Len(batch) + 1
          /\ batch'[Len(batch) + 1] = FpgaPacket
          /\ \A i \in DOMAIN batch : batch'[i] = batch[i]
      BY <1>2, Assembles
    <2>2. /\ payloadSize \in Fit[Popped - 1] /\ (payloadSize = DataBytes \/ EndBurst)
          /\ \A i \in DOMAIN batch : /\ batch[i].payload = DataBytes
                                     /\ batch[i].payload \in Fit[batch[i].counter]
      BY <2>1 DEF SizeOK, Assembling
    <2>3. \A i \in DOMAIN batch' : /\ batch'[i].payload \in Fit[batch'[i].counter]
                                   /\ i < Len(batch') => batch'[i].payload = DataBytes
      <3>1. ASSUME NEW i \in DOMAIN batch'
            PROVE  /\ batch'[i].payload \in Fit[batch'[i].counter]
                   /\ i < Len(batch') => batch'[i].payload = DataBytes
        <4>1. CASE i \in DOMAIN batch
          BY <2>1, <2>2, <4>1
        <4>2. CASE i = Len(batch) + 1
          BY <2>1, <2>2, <4>2
        <4> QED
          BY <2>1, <4>1, <4>2
      <3> QED
        BY <3>1
    <2>4. CASE ~EndBurst /\ pc' = "channel" /\ has' = FALSE /\ payloadSize' = DataBytes
      <3>1. \A i \in DOMAIN batch' : batch'[i].payload = DataBytes
        <4>1. \A i \in DOMAIN batch' : i \in DOMAIN batch \/ i = Len(batch) + 1
          BY <2>1
        <4> QED
          BY <2>1, <2>2, <2>4, <4>1
      <3> QED
        BY <1>f, <2>3, <2>4, <3>1 DEF SizeOK
    <2>5. CASE pc' = "send"
      BY <1>f, <2>3, <2>5 DEF SizeOK
    <2> QED
      BY <1>2, <2>4, <2>5 DEF Assemble, StartPass
  <1>3. CASE PopTimesOut
    <2>1. /\ ~has /\ UNCHANGED <<has, payloadSize, batch>> /\ pc = "channel"
      BY <1>3, OneChannel DEF PopTimesOut, PassOK
    <2> QED
      BY <1>f, <2>1 DEF SizeOK
  <1>4. CASE TakeBuffer
    <2>1. batch' = <<>> /\ has' = FALSE /\ payloadSize' = DataBytes
      BY <1>4 DEF TakeBuffer, StartPass
    <2>2. DOMAIN batch' = {}
      BY <2>1
    <2> QED
      BY <2>1, <2>2 DEF SizeOK
  <1>5. CASE Send \/ Refused
    <2>1. pc' = "top" /\ batch' = <<>>
      BY <1>5 DEF Send, Refused, HandOver
    <2>2. DOMAIN batch' = {}
      BY <2>1
    <2> QED
      BY <2>1, <2>2 DEF SizeOK
  <1>6. CASE (\E c \in Used : Write(c)) \/ Terminate \/ (\E b \in Buffers : Completed(b))
             \/ SkipChannel \/ UNCHANGED vars
    <2>1. /\ UNCHANGED <<has, payloadSize, packets, batch>>
          /\ pc' = pc \/ (pc = "channel" /\ pc' \in {"channel", "assemble"})
      BY <1>6 DEF Write, Terminate, Completed, SkipChannel, NextChannel, vars
    <2>2. EndBurst' = EndBurst
      BY <2>1 DEF EndBurst
    <2>3. Popped' = Popped
      <3>1. CASE \E c \in Used : Write(c)
        <4>1. /\ written'[Only] = written[Only] + 1
              /\ Len(fifo'[Only]) = Len(fifo[Only]) + 1
          BY <3>1, Writes
        <4> QED
          BY <4>1, TheFifo DEF Popped
      <3>2. CASE ~\E c \in Used : Write(c)
        BY <1>6, <3>2, NothingPopped DEF Terminate, Completed, SkipChannel, vars, app
      <3> QED
        BY <3>1, <3>2
    <2> QED
      BY <1>f, <2>1, <2>2, <2>3 DEF SizeOK
  <1>7. CASE End \/ StopBatch \/ Abandon \/ SendNothing
    <2>1. batch' = batch /\ pc' \in {"send", "top", "ended"}
      BY <1>7 DEF End, StopBatch, Abandon, SendNothing
    <2> QED
      BY <1>f, <2>1 DEF SizeOK
  <1> QED
    BY <1>1, <1>2, <1>3, <1>4, <1>5, <1>6, <1>7 DEF Next, LoopStep

-----------------------------------------------------------------------------
\* The theorems.

LEMMA IInvInit == chCount = 1 /\ Init => IInv /\ SizeOK
  <1> SUFFICES ASSUME chCount = 1, Init
               PROVE  IInv /\ SizeOK
    OBVIOUS
  <1>1. TypeInv
    BY TypeInit
  <1>2. /\ fifo[Only] = <<>> /\ written[Only] = 0 /\ wire = <<>> /\ batch = <<>>
        /\ refused = {} /\ pc = "top" /\ has = FALSE /\ Packets \in Nat
    BY OneChannel DEF Init
  <1>3. Popped = 0
    <2>1. Len(fifo[Only]) = 0
      BY <1>1, <1>2, TheFifo, EmptySeq
    <2>2. Popped + Len(fifo[Only]) = written[Only] /\ Popped \in Int
      BY <1>1, TheFifo
    <2>3. written[Only] = 0
      BY <1>2
    <2> QED
      BY <2>1, <2>2, <2>3
  <1>4. DOMAIN fifo[Only] = {} /\ DOMAIN wire = {} /\ DOMAIN batch = {}
    BY <1>2
  <1>5. WireCounters = {} /\ BatchCounters = {}
    BY <1>4 DEF WireCounters, BatchCounters
  <1>6. FifoOK
    BY <1>2, <1>3, <1>4 DEF FifoOK
  <1>7. PassOK /\ InOrder /\ BufferOK /\ SizeOK
    BY <1>2, <1>4 DEF PassOK, InOrder, BufferOK, SizeOK, Assembling
  <1>8. Accounted
    BY <1>2, <1>3, <1>5 DEF Accounted, Assembling
  <1> QED
    BY <1>1, <1>6, <1>7, <1>8 DEF IInv

LEMMA IInvStep == chCount = 1 /\ IInv /\ [Next]_vars => IInv'
  BY TypeStep, FifoStep, PassStep, InOrderStep, AccountedStep, BufferStep DEF IInv

\* What every reachable state of a loop with one channel is like.
THEOREM LoopInvariant == chCount = 1 => (Spec => []IInv)
  <1> SUFFICES ASSUME chCount = 1
               PROVE  Spec => []IInv
    OBVIOUS
  <1> QED
    BY IInvInit, IInvStep, PTL DEF Spec

\* Every FPGA packet carries the samples that are due at its counter, and waits for that
\* time exactly if the application asked for it (TransmitPacketsLoop with one channel).
THEOREM SamplesTimely == chCount = 1 => (Spec => []SamplesLeaveAtTheirTime)
  <1> SUFFICES ASSUME chCount = 1
               PROVE  Spec => []SamplesLeaveAtTheirTime
    OBVIOUS
  <1>1. IInv => SamplesLeaveAtTheirTime
    <2> SUFFICES ASSUME IInv, NEW i \in DOMAIN Made
                 PROVE  /\ \A c \in DOMAIN Made[i].samples : Made[i].samples[c] = Made[i].counter
                        /\ Made[i].ignore <=>
                              "SYNC_TIMESTAMP" \notin kind[Made[i].counter].flags
      BY DEF SamplesLeaveAtTheirTime
    <2>1. Made \in Seq(Timely)
      BY Joined DEF IInv, TypeInv, Made
    <2>2. Made[i] \in Timely
      BY <2>1, ElementOfSeq, LenProperties
    <2> QED
      BY <2>2 DEF Timely
  <1> QED
    BY <1>1, LoopInvariant, PTL

\* Every packet popped from the FIFO is sent once and in order, but for those a refused
\* hand-over lost.
THEOREM SentOnce == chCount = 1 => (Spec => []SentOnceInOrder)
  <1> SUFFICES ASSUME chCount = 1
               PROVE  Spec => []SentOnceInOrder
    OBVIOUS
  <1>1. IInv => SentOnceInOrder
    <2> SUFFICES ASSUME IInv PROVE SentOnceInOrder
      OBVIOUS
    <2> DEFINE Sent == [i \in DOMAIN Made |-> Made[i].counter]
    <2>1. \A i, j \in DOMAIN Sent : i < j => Sent[i] < Sent[j]
      BY MadeInOrder DEF IInv
    <2>2. {Sent[i] : i \in DOMAIN Sent} = WireCounters \cup BatchCounters
      BY MadeCounters DEF IInv
    <2>3. ASSUME pc # "ended"
          PROVE  Assembled \cup refused \cup (WireCounters \cup BatchCounters) = 0..(Popped - 1)
      <3>1. CASE Assembling
        <4>1. Popped > 0 /\ packets[0] = Due[Popped - 1] /\ Popped \in 0..Packets
              /\ Packets \in Nat
          BY <3>1, OneChannel DEF IInv, PassOK, FifoOK
        <4>2. packets[0].timestamp = Popped - 1
          BY <4>1 DEF Due, Packet, Times
        <4>3. Assembled = {Popped - 1}
          BY <3>1, <4>2 DEF Assembled, Assembling
        <4>4. 0..(Popped - 1) = {Popped - 1} \cup 0..(Popped - 2)
          BY <4>1
        <4>5. refused \cup WireCounters \cup BatchCounters = 0..(Popped - 2)
          BY <2>3, <3>1 DEF IInv, Accounted
        <4> QED
          BY <4>3, <4>4, <4>5
      <3>2. CASE ~Assembling
        BY <2>3, <3>2 DEF IInv, Accounted, Assembled, Assembling
      <3> QED
        BY <3>1, <3>2
    <2> HIDE DEF Sent
    <2> QED
      BY <2>1, <2>2, <2>3 DEF SentOnceInOrder, Sent, Popped, Only
  <1> QED
    BY <1>1, LoopInvariant, PTL

\* Only the last packet of a batch is shorter than an FPGA packet, a short one holds its
\* samples, and the buffer is not written to while it is being sent.
THEOREM BatchContiguous ==
    LinkFormat /\ chCount = 1 => (Spec => []BatchesAreContiguous)
  <1> SUFFICES ASSUME LinkFormat, chCount = 1
               PROVE  Spec => []BatchesAreContiguous
    OBVIOUS
  <1>1. IInv /\ SizeOK => BatchesAreContiguous
    <2> SUFFICES ASSUME IInv, SizeOK
                 PROVE  BatchesAreContiguous
      OBVIOUS
    <2>1. ASSUME NEW i \in DOMAIN batch
          PROVE  /\ i < Len(batch) => batch[i].payload = DataBytes
                 /\ batch[i].payload <= DataBytes /\ batch[i].payload % Quantum = 0
                 /\ batch[i].payload * maxSamples >= kind[batch[i].counter].last * DataBytes
      <3>1. batch[i] \in Timely
        BY ElementOfSeq, LenProperties DEF IInv, TypeInv
      <3>2. batch[i].counter \in Times
        BY <3>1 DEF Timely
      <3>3. /\ batch[i].payload \in Fit[batch[i].counter]
            /\ i < Len(batch) => batch[i].payload = DataBytes
        BY DEF SizeOK
      <3> QED
        BY <3>2, <3>3 DEF Fit
    <2> QED
      BY <2>1 DEF BatchesAreContiguous, IInv, BufferOK
  <1>2. IInv /\ SizeOK /\ [Next]_vars => SizeOK'
    BY SizeStep DEF IInv
  <1> QED
    BY <1>1, <1>2, IInvInit, LoopInvariant, PTL DEF Spec
=============================================================================
