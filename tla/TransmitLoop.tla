----------------------------- MODULE TransmitLoop -----------------------------
(***************************************************************************)
(* Streamer::TransmitPacketsLoop (src/src/protocols/Streamer.cpp): packets *)
(* popped from the FIFOs of the transmit channels are put together into    *)
(* FPGA packets, FPGA packets into a batch, and a batch is handed to one   *)
(* of the connection's buffers, which go round.                            *)
(*                                                                         *)
(* A FIFO is the sequence of its complete packets (PacketQueue).  The      *)
(* application's packet n is due at time n, so a timestamp names a packet  *)
(* and its samples.  In packets[i] the samples stay behind when a pop      *)
(* times out, exactly as the array does.                                   *)
(***************************************************************************)
EXTENDS Integers, Sequences, FiniteSets

CONSTANTS Used,          \* the channels with a transmit stream: all are active
          chCount,       \* channels in an FPGA packet: 2 (MIMO) or 1
          maxSamples,    \* samples of one channel in a full packet: maxSamplesBatch
          Quantum,       \* a payload is a multiple of so many bytes: q
          DataBytes,     \* sizeof(FPGA_DataPacket::data), 4080
          Kinds,         \* what the application submits: [flags, last]
          Packets,       \* bound: packets the application writes
          packetsToBatch,
          buffersCount

ASSUME LoopAssumption ==
    /\ chCount \in {1, 2}
    /\ Used \subseteq {0, 1} /\ Used # {}
    /\ chCount = 1 => Cardinality(Used) = 1
    /\ maxSamples \in Nat \ {0} /\ Quantum \in Nat \ {0} /\ DataBytes \in Nat \ {0}
    /\ Kinds \subseteq [flags : SUBSET {"SYNC_TIMESTAMP", "END_BURST"}, last : 1..maxSamples]
    /\ \A k \in Kinds : k.last < maxSamples => "END_BURST" \in k.flags
    /\ Packets \in Nat /\ packetsToBatch \in Nat \ {0}
    /\ buffersCount \in {1, 2, 4, 8, 16}    \* so that & (buffersCount - 1) is a modulus

VARIABLES kind,       \* what the application's n-th packet is
          written,    \* packets of each channel the application has written
          fifo,       \* the complete packets waiting in each channel's FIFO
          packets,    \* the packets being put together, one for each channel
          pc, ch,     \* where the loop stands, and the channel it looks at
          has, payloadSize,
          batch,      \* the FPGA packets in the buffer being filled
          bi,         \* the buffer being filled
          transfer,   \* what became of each buffer's transfer
          wire,       \* the FPGA packets handed over, in order
          refused,    \* the packets of the batches the connection did not take
          terminate

app == <<kind, written>>
vars == <<app, fifo, packets, pc, ch, has, payloadSize, batch, bi, transfer, wire,
          refused, terminate>>

Buffers == 0..(buffersCount - 1)
Times == 0..(Packets - 1)
Nothing == -1    \* what an array holds that no packet was ever swapped into

Packet(n) == [timestamp |-> n, flags |-> kind[n].flags, last |-> kind[n].last,
              samples |-> n]

Init == /\ kind \in [Times -> Kinds]
        /\ written = [c \in Used |-> 0]
        /\ fifo = [c \in Used |-> <<>>]
        /\ packets = [i \in 0..1 |-> [timestamp |-> 0, flags |-> {}, last |-> 0,
                                      samples |-> Nothing]]
        /\ pc = "top" /\ ch = 0
        /\ has = FALSE /\ payloadSize = DataBytes
        /\ batch = <<>> /\ bi = 0
        /\ transfer = [b \in Buffers |-> "none"]
        /\ wire = <<>> /\ refused = {}
        /\ terminate = FALSE

-----------------------------------------------------------------------------
\* The application writes the same packets to every channel, channel 0 first.

Write(c) ==
    /\ written[c] < Packets
    /\ c = 1 /\ 0 \in Used => written[0] > written[1]
    /\ c = 0 /\ 1 \in Used => written[0] = written[1]
    /\ fifo' = [fifo EXCEPT ![c] = Append(@, Packet(written[c]))]
    /\ written' = [written EXCEPT ![c] = @ + 1]
    /\ UNCHANGED <<kind, packets, pc, ch, has, payloadSize, batch, bi, transfer, wire,
                   refused, terminate>>

\* UpdateThreads(): terminateTx.store(true).
Terminate ==
    /\ ~terminate
    /\ terminate' = TRUE
    /\ UNCHANGED <<app, fifo, packets, pc, ch, has, payloadSize, batch, bi, transfer,
                   wire, refused>>

\* The transfer of a buffer ends.
Completed(b) ==
    /\ transfer[b] = "busy"
    /\ transfer' = [transfer EXCEPT ![b] = "done"]
    /\ UNCHANGED <<app, fifo, packets, pc, ch, has, payloadSize, batch, bi, wire,
                   refused, terminate>>

-----------------------------------------------------------------------------
\* The loop.

StartPass == /\ pc' = "channel" /\ ch' = 0
             /\ has' = FALSE /\ payloadSize' = DataBytes

\* The loop condition fails: AbortSending cancels what is in flight.
End == /\ pc = "top" /\ terminate
       /\ pc' = "ended"
       /\ transfer' = [b \in Buffers |-> "none"]
       /\ UNCHANGED <<app, fifo, packets, ch, has, payloadSize, batch, bi, wire,
                      refused, terminate>>

\* The buffer is new, or WaitForSending says that its transfer is over; while it
\* says no the loop goes round to its condition and comes back.
TakeBuffer ==
    /\ pc = "top" /\ ~terminate
    /\ transfer[bi] # "busy"
    /\ transfer' = [transfer EXCEPT ![bi] = "none"]   \* FinishDataSending
    /\ batch' = <<>>
    /\ StartPass
    /\ UNCHANGED <<app, fifo, packets, bi, wire, refused, terminate>>

NextChannel == IF ch = 0 THEN pc' = "channel" /\ ch' = 1 ELSE pc' = "assemble" /\ ch' = 0

SkipChannel == /\ pc = "channel" /\ ch \notin Used
               /\ NextChannel
               /\ UNCHANGED <<app, fifo, packets, has, payloadSize, batch, bi, transfer,
                              wire, refused, terminate>>

\* Mutant: the packet of the channel, though there is only one.
SlotOfTwo(c) == c

\* The packet of packets[] that a channel fills: ind.
Slot(c) == IF chCount = 2 THEN c ELSE 0

\* Mutant: rounded down instead of up.
RoundedDown(last) == LET bytes == (last * DataBytes) \div maxSamples
                     IN  (bytes \div Quantum) * Quantum

\* The bytes a packet of so many samples takes up.
Rounded(last) == LET bytes == (last * DataBytes) \div maxSamples
                 IN  (1 + ((bytes - 1) \div Quantum)) * Quantum

\* pop_packet returns a packet: full, or short and the end of a burst.
PopPacket ==
    LET p == Head(fifo[ch])
    IN  /\ pc = "channel" /\ ch \in Used
        /\ fifo[ch] # <<>>
        /\ packets' = [packets EXCEPT ![Slot(ch)] = p]
        /\ fifo' = [fifo EXCEPT ![ch] = Tail(@)]
        /\ payloadSize' = IF p.last = maxSamples THEN payloadSize ELSE Rounded(p.last)
        /\ has' = TRUE
        /\ NextChannel
        /\ UNCHANGED <<app, batch, bi, transfer, wire, refused, terminate>>

\* Mutant: what was popped before counts again.
TimeOutButSend ==
    /\ pc = "channel" /\ ch \in Used
    /\ fifo[ch] = <<>>
    /\ packets' = [packets EXCEPT ![Slot(ch)] = [@ EXCEPT !.last = 0, !.flags = {}]]
    /\ has' = TRUE
    /\ NextChannel
    /\ UNCHANGED <<app, fifo, payloadSize, batch, bi, transfer, wire, refused, terminate>>

\* pop_packet gives up: no samples, no flags, and the channel is passed over.
PopTimesOut ==
    /\ pc = "channel" /\ ch \in Used
    /\ fifo[ch] = <<>>
    /\ packets' = [packets EXCEPT ![Slot(ch)] = [@ EXCEPT !.last = 0, !.flags = {}]]
    /\ NextChannel
    /\ UNCHANGED <<app, fifo, has, payloadSize, batch, bi, transfer, wire, refused,
                   terminate>>

\* The FPGA packet takes its time and flags from the first channel's packet.
FpgaPacket == [counter |-> packets[0].timestamp,
               ignore |-> "SYNC_TIMESTAMP" \notin packets[0].flags,
               payload |-> payloadSize,
               samples |-> [c \in 0..(chCount - 1) |-> packets[c].samples]]

EndBurst == "END_BURST" \in packets[0].flags

Assemble ==
    /\ pc = "assemble" /\ has
    /\ batch' = Append(batch, FpgaPacket)
    /\ IF Len(batch) + 1 < packetsToBatch /\ ~EndBurst
       THEN StartPass
       ELSE pc' = "send" /\ UNCHANGED <<ch, has, payloadSize>>
    /\ UNCHANGED <<app, fifo, packets, bi, transfer, wire, refused, terminate>>

\* Mutant: the batch waits until it is full.
KeepFilling ==
    /\ pc = "assemble" /\ ~has
    /\ StartPass
    /\ UNCHANGED <<app, fifo, packets, batch, bi, transfer, wire, refused, terminate>>

\* No channel had anything: what the batch holds so far is sent.
StopBatch ==
    /\ pc = "assemble" /\ ~has
    /\ pc' = "send"
    /\ UNCHANGED <<app, fifo, packets, ch, has, payloadSize, batch, bi, transfer, wire,
                   refused, terminate>>

\* "early termination": the batch is given up with the loop.
Abandon ==
    /\ pc = "send" /\ terminate
    /\ pc' = "ended"
    /\ transfer' = [b \in Buffers |-> "none"]
    /\ UNCHANGED <<app, fifo, packets, ch, has, payloadSize, batch, bi, wire, refused,
                   terminate>>

\* Mutant: a batch of one packet counts as none.
SendNothingOfOne ==
    /\ pc = "send" /\ ~terminate /\ Len(batch) <= 1
    /\ pc' = "top"
    /\ UNCHANGED <<app, fifo, packets, ch, has, payloadSize, batch, bi, transfer, wire,
                   refused, terminate>>

SendNothing ==
    /\ pc = "send" /\ ~terminate /\ batch = <<>>
    /\ pc' = "top"
    /\ UNCHANGED <<app, fifo, packets, ch, has, payloadSize, batch, bi, transfer, wire,
                   refused, terminate>>

NextBuffer(b) == (b + 1) % buffersCount

HandOver == /\ pc = "send" /\ ~terminate /\ batch # <<>>
            /\ pc' = "top"
            /\ batch' = <<>>
            /\ bi' = NextBuffer(bi)

\* BeginDataSending takes the batch ...
Send == /\ HandOver
        /\ transfer' = [transfer EXCEPT ![bi] = "busy"]
        /\ wire' = wire \o batch
        /\ UNCHANGED <<app, fifo, packets, ch, has, payloadSize, refused, terminate>>

\* ... or returns -1, which the loop does not look at: the wait for that handle
\* ends at once, and the batch is gone.
Refused == /\ HandOver
           /\ refused' = refused \cup {batch[i].counter : i \in DOMAIN batch}
           /\ UNCHANGED <<app, fifo, packets, ch, has, payloadSize, transfer, wire, terminate>>

LoopStep == \/ End \/ TakeBuffer
            \/ SkipChannel \/ PopPacket \/ PopTimesOut
            \/ Assemble \/ StopBatch
            \/ Abandon \/ SendNothing \/ Send \/ Refused

Next == \/ \E c \in Used : Write(c)
        \/ Terminate
        \/ \E b \in Buffers : Completed(b)
        \/ LoopStep

Spec == Init /\ [][Next]_vars

\* The loop's thread runs and the board takes in what it is sent.
Fairness == WF_vars(LoopStep) /\ \A b \in Buffers : WF_vars(Completed(b))

FairSpec == Spec /\ Fairness

-----------------------------------------------------------------------------
\* Properties.

\* The FPGA packets handed over so far and in the buffer being filled.
Made == wire \o batch

\* Every FPGA packet carries, for each of its channels, the samples that are due
\* at its counter, and waits for that time exactly if the application asked for
\* it ("time when the first sample in the submitted buffer should be send",
\* LimeSuite.h:1043).
SamplesLeaveAtTheirTime ==
    \A i \in DOMAIN Made :
        LET p == Made[i]
        IN  /\ \A c \in DOMAIN p.samples : p.samples[c] = p.counter
            /\ p.ignore <=> "SYNC_TIMESTAMP" \notin kind[p.counter].flags

\* What was popped in this pass and is not in the batch yet.
Assembled == IF has /\ pc \in {"channel", "assemble"} THEN {packets[0].timestamp} ELSE {}

\* One channel: every packet popped is sent once and in order, but for those a
\* refused hand-over lost.
SentOnceInOrder ==
    LET Sent == [i \in DOMAIN Made |-> Made[i].counter]
        c == CHOOSE c \in Used : TRUE
        popped == written[c] - Len(fifo[c])
    IN  /\ \A i, j \in DOMAIN Sent : i < j => Sent[i] < Sent[j]
        /\ pc # "ended" =>
              Assembled \cup refused \cup {Sent[i] : i \in DOMAIN Sent} = 0..(popped - 1)

\* The FPGA finds the packets of a transfer one behind the other: only the last
\* one may be shorter than an FPGA packet, a short one holds its samples, and the
\* buffer is not written to while it is being sent.
BatchesAreContiguous ==
    /\ \A i \in DOMAIN batch :
          LET p == batch[i]
          IN  /\ i < Len(batch) => p.payload = DataBytes
              /\ p.payload <= DataBytes /\ p.payload % Quantum = 0
              /\ p.payload * maxSamples >= kind[p.counter].last * DataBytes
    /\ pc \in {"channel", "assemble", "send"} => transfer[bi] # "busy"

\* What the application has written is sent, without more having to follow,
\* unless the loop is stopped or the connection refuses it.
EverythingIsSent ==
    \A n \in Times : (\A c \in Used : written[c] > n) ~>
        \/ terminate
        \/ n \in refused
        \/ \E i \in DOMAIN wire : wire[i].counter = n

\* Told to terminate, the loop ends.
LoopEnds == terminate ~> pc = "ended"
=============================================================================
