------------------------------ MODULE SoapyRead -------------------------------
(***************************************************************************)
(* A receive stream of the SoapySDR module (SoapyLMS7/Streaming.cpp): what *)
(* activateStream asks for, and readStream, which reads the FIFO of each   *)
(* channel in turn and lines the channels up by the times of what it gets, *)
(* over FIFOs that give up their oldest packet when they are full and that *)
(* lack the packets the board has dropped.                                 *)
(*                                                                         *)
(* A sample stands for its hardware time; a FIFO and a buffer are the      *)
(* sequences of the samples in them.  The FIFO is the queue that RingFIFO  *)
(* implements: Read takes its first samples, waits for more, and returns   *)
(* them with the time of the first alone.                                  *)
(***************************************************************************)
EXTENDS Integers, Sequences, FiniteSets

CONSTANTS Channels,     \* how many channels the stream has
          PktSize,      \* samples in a packet
          FifoSize,     \* packets a FIFO holds
          FirstTime,    \* the board's time after ResetTimestamp
          MaxTime,      \* bound: the last time at which a packet begins
          Counts,       \* the buffer sizes that are read into
          Commands,     \* what is activated: [timed, ticks, numElems]
          MayOverflow,  \* the channels whose FIFO may be full
          MayTimeOut,   \* may a Read give up before it has all it wants?
          StackBits     \* what a bit of md.flags that nobody has written may read as

ASSUME SoapyAssumption ==
    /\ {Channels, PktSize, FifoSize} \subseteq Nat \ {0}
    /\ {FirstTime, MaxTime} \subseteq Nat
    /\ Counts \subseteq 1..(PktSize * FifoSize)
    /\ Commands \subseteq [timed : BOOLEAN, ticks : Nat, numElems : Nat]
    /\ MayOverflow \subseteq 1..Channels
    /\ MayTimeOut \in BOOLEAN
    /\ StackBits \subseteq BOOLEAN /\ StackBits # {}

VARIABLES now,         \* the time of the packet that is being received
          next,        \* the channel it goes to next
          fifo,        \* the samples each channel holds
          active,      \* mActive of each channel
          \* IConnectionStream
          hasCmd, timed, timeTicks, burst,
          \* readStream and _readStreamAligned
          pc, i, numElems, requestTime, buffs, endBurst, ret,
          got,         \* pop_samples: what the Read under way has taken so far
          \* history: the command, and the samples returned since it was given
          command, returned,
          misled       \* history: has this readStream been misled by a time?

board == <<now, next, fifo>>
stream == <<hasCmd, timed, timeTicks, burst>>
local == <<i, numElems, requestTime, buffs, got>>
answer == <<endBurst, ret>>
history == <<command, returned, misled>>
vars == <<board, active, stream, pc, local, answer, history>>

Chan == 1..Channels

Timeout == -1
TimeError == -2
Corruption == -3
StreamError == -4

Init == /\ now = FirstTime /\ next = 1
        /\ fifo = [c \in Chan |-> <<>>]
        /\ active = [c \in Chan |-> FALSE]
        /\ hasCmd = FALSE /\ timed = FALSE /\ timeTicks = 0 /\ burst = 0
        /\ pc = "idle" /\ i = 1 /\ numElems = 0 /\ requestTime = 0
        /\ buffs = [c \in Chan |-> <<>>]
        /\ endBurst = FALSE /\ ret = 0
        /\ command = [timed |-> FALSE, ticks |-> 0, numElems |-> 0]
        /\ got = <<>> /\ returned = 0 /\ misled = FALSE

Lesser(a, b) == IF a < b THEN a ELSE b

-----------------------------------------------------------------------------
\* ReceivePacketsLoop gives a packet to one active channel after the other.

PacketOf(t) == (t - FirstTime) \div PktSize
HasRoom(c) == Cardinality({PacketOf(fifo[c][k]) : k \in DOMAIN fifo[c]}) < FifoSize

NotOfOldest(c) ==
    LET Oldest == {k \in DOMAIN fifo[c] : PacketOf(fifo[c][k]) = PacketOf(Head(fifo[c]))}
    IN  SubSeq(fifo[c], Cardinality(Oldest) + 1, Len(fifo[c]))

PushPacket(c) ==
    fifo' = [fifo EXCEPT ![c] =
               (IF HasRoom(c) THEN @ ELSE NotOfOldest(c)) \o [k \in 1..PktSize |-> now + k - 1]]

Receive == /\ now <= MaxTime
           /\ IF active[next] THEN (HasRoom(next) \/ next \in MayOverflow) /\ PushPacket(next)
                              ELSE UNCHANGED fifo
           /\ next' = (next % Channels) + 1
           /\ now' = IF next = Channels THEN now + PktSize ELSE now
           /\ UNCHANGED <<active, stream, pc, local, answer, history>>

\* A packet that the board or the link drops: no channel gets its samples.
Drop == /\ now <= MaxTime /\ next = 1
        /\ now' = now + PktSize
        /\ UNCHANGED <<next, fifo, active, stream, pc, local, answer, history>>

-----------------------------------------------------------------------------
\* activateStream and deactivateStream.

Activate(cmd) ==
    /\ pc = "idle" /\ \A c \in Chan : ~active[c]
    /\ hasCmd' = TRUE
    /\ timed' = cmd.timed /\ timeTicks' = cmd.ticks /\ burst' = cmd.numElems
    /\ command' = cmd /\ returned' = 0
    /\ pc' = "start" /\ i' = 1
    /\ UNCHANGED <<board, active, numElems, requestTime, buffs, got, answer, misled>>

\* UpdateThreads for the first channel to start: the receive loop begins with a packet,
\* and the board's time anew unless a transmit loop is running.
StartLoop == /\ now' \in {now, FirstTime}
             /\ next' = 1

\* StreamChannel::Start of one channel; the loop may run between two of them.
Start == /\ pc = "start"
         /\ fifo' = [fifo EXCEPT ![i] = <<>>]
         /\ active' = [active EXCEPT ![i] = TRUE]
         /\ IF i = 1 THEN StartLoop ELSE UNCHANGED <<now, next>>
         /\ i' = i + 1
         /\ pc' = IF i = Channels THEN "idle" ELSE "start"
         /\ UNCHANGED <<stream, numElems, requestTime, buffs, got, answer, history>>

Deactivate == /\ pc = "idle" /\ \E c \in Chan : active[c]
              /\ hasCmd' = FALSE
              /\ active' = [c \in Chan |-> FALSE]
              /\ UNCHANGED <<board, timed, timeTicks, burst, pc, local, answer, history>>

-----------------------------------------------------------------------------
\* readStream, up to the call of _readStreamAligned.

NoCommand == /\ pc = "idle" /\ ~hasCmd
             /\ ret' = Timeout
             /\ pc' = "done"
             /\ UNCHANGED <<board, active, stream, local, endBurst, history>>

ReadStream(count) ==
    /\ pc = "idle" /\ hasCmd
    /\ numElems' = count
    /\ requestTime' = IF timed THEN timeTicks ELSE 0
    /\ buffs' = [c \in Chan |-> <<>>]
    /\ i' = 1
    /\ \E bit \in StackBits : endBurst' = bit
    /\ misled' = FALSE
    /\ pc' = "read"
    /\ UNCHANGED <<board, active, stream, got, ret, command, returned>>

-----------------------------------------------------------------------------
\* _readStreamAligned.

DropFirst(s, n) == SubSeq(s, n + 1, Len(s))

\* Mutant: one sample too few is dropped.
FastForwardShort(buff, old, new) == DropFirst(buff, Lesser(new - old - 1, Len(buff)))

\* What of a buffer is left when time old moves on to time new.
FastForward(buff, old, new) == DropFirst(buff, Lesser(new - old, Len(buff)))

\* for (...; i += numWritten[i] >= numElems): from channel c, with these buffers.
Advance(c, b, wanted) ==
    /\ buffs' = b /\ numElems' = wanted
    /\ i' = IF Len(b[c]) >= wanted THEN c + 1 ELSE c

\* "if (numElems <= N) continue;"
Skip == /\ pc = "read" /\ i <= Channels /\ Len(buffs[i]) >= numElems
        /\ i' = i + 1
        /\ UNCHANGED <<board, active, stream, pc, numElems, requestTime, buffs, got, answer, history>>

Wanting == pc = "read" /\ i <= Channels /\ Len(buffs[i]) < numElems
Missing == numElems - Len(buffs[i])

\* pop_samples takes what there is, up to what it lacks; then it waits, the FIFO
\* unlocked, and takes more.
PopSamples ==
    /\ Wanting /\ fifo[i] # <<>> /\ Len(got) < Missing
    /\ LET n == Lesser(Missing - Len(got), Len(fifo[i]))
       IN  /\ got' = got \o SubSeq(fifo[i], 1, n)
           /\ fifo' = [fifo EXCEPT ![i] = DropFirst(@, n)]
    /\ UNCHANGED <<now, next, active, stream, pc, i, numElems, requestTime, buffs, answer, history>>

\* Mutant: a time-out is no reason to stop.
ReadAgain == /\ Wanting /\ MayTimeOut
             /\ got = <<>> /\ fifo[i] = <<>>
             /\ UNCHANGED vars

\* Nothing is read before the time-out: what the channels before have read is lost.
ReadNothing == /\ Wanting /\ MayTimeOut
               /\ got = <<>> /\ fifo[i] = <<>>
               /\ ret' = Timeout
               /\ pc' = "done"
               /\ UNCHANGED <<board, active, stream, local, endBurst, history>>

\* Read returns: it has all that was asked for, or its wait has ended with a time-out.
Returned == /\ Wanting /\ got # <<>>
            /\ Len(got) = Missing \/ MayTimeOut
            /\ got' = <<>>

Stamp == got[1]
InARow == \A k \in DOMAIN got : got[k] = Stamp + k - 1

Expected == requestTime + Len(buffs[i])

\* "unspecified request time, set the new head condition": a head at time 0 is one too,
\* and the next channel replaces it.
ReadHead == /\ Returned /\ requestTime = 0
            /\ requestTime' = Stamp
            /\ Advance(i, [buffs EXCEPT ![i] = @ \o got], Len(got))
            /\ misled' = (misled \/ ~InARow \/ (i > 1 /\ Stamp # 0))
            /\ UNCHANGED <<board, active, stream, pc, answer, command, returned>>

\* "good contiguous read, read again for remainder"
ReadOn == /\ Returned /\ requestTime # 0 /\ Stamp = Expected
          /\ Advance(i, [buffs EXCEPT ![i] = @ \o got], numElems)
          /\ misled' = (misled \/ ~InARow)
          /\ UNCHANGED <<board, active, stream, pc, requestTime, answer, command, returned>>

\* "request time is later, fast forward buffer"; behind what has been read already it
\* is a "non-monotonic timestamp".
ReadEarly ==
    /\ Returned /\ requestTime # 0 /\ Stamp < Expected
    /\ LET left == FastForward(got, Stamp, requestTime)
       IN  IF buffs[i] # <<>>
           THEN /\ ret' = Corruption /\ pc' = "done"
                /\ UNCHANGED <<i, numElems, buffs>>
           ELSE /\ Advance(i, [buffs EXCEPT ![i] = left],
                           IF i = 1 /\ left # <<>> THEN Len(left) ELSE numElems)
                /\ UNCHANGED <<ret, pc>>
    /\ misled' = (misled \/ ~InARow)
    /\ UNCHANGED <<board, active, stream, requestTime, endBurst, command, returned>>

\* Mutant: the channels before keep what they have.
ForwardedThisOnly == [buffs EXCEPT ![i] = got]

\* Those before are fast-forwarded to the new head, this one to what it has just read.
Forwarded == [c \in Chan |-> IF c < i THEN FastForward(buffs[c], requestTime, Stamp)
                             ELSE IF c = i THEN got
                             ELSE buffs[c]]

\* "overflow in the middle of a contiguous buffer": start over at the first channel.
ReadLate == /\ Returned /\ requestTime # 0 /\ Stamp > Expected
            /\ Advance(1, Forwarded, Len(got))
            /\ requestTime' = Stamp
            /\ misled' = (misled \/ ~InARow)
            /\ UNCHANGED <<board, active, stream, pc, answer, command, returned>>

-----------------------------------------------------------------------------
\* readStream, after _readStreamAligned: md.timestamp is requestTime, status numElems.

Aligned == pc = "read" /\ i > Channels

\* "our request time is now late, clear command and return error code", or else
\* "readStream() alignment algorithm failed".
RefuseTime == /\ Aligned /\ timed /\ timeTicks # requestTime
              /\ hasCmd' = (timeTicks > requestTime)
              /\ ret' = IF timeTicks < requestTime THEN TimeError ELSE StreamError
              /\ pc' = "done"
              /\ UNCHANGED <<board, active, timed, timeTicks, burst, local, endBurst, history>>

\* Mutant: what is read beyond the burst is returned too.
ReturnAll ==
    LET last == burst # 0 /\ numElems >= burst
    IN  /\ Aligned
        /\ timed => timeTicks = requestTime
        /\ timed' = FALSE
        /\ burst' = IF burst <= numElems THEN 0 ELSE burst - numElems
        /\ hasCmd' = ~last
        /\ endBurst' = (last \/ endBurst)
        /\ ret' = numElems
        /\ returned' = returned + numElems
        /\ pc' = "done"
        /\ UNCHANGED <<board, active, timeTicks, local, command, misled>>

\* Clipped to what the burst still lacks; the last of it ends the command.
Return ==
    LET n == IF burst = 0 THEN numElems ELSE Lesser(numElems, burst)
        last == burst # 0 /\ n = burst
    IN  /\ Aligned
        /\ timed => timeTicks = requestTime
        /\ timed' = FALSE
        /\ burst' = IF burst = 0 THEN 0 ELSE burst - n
        /\ hasCmd' = ~last
        /\ endBurst' = (last \/ endBurst)
        /\ ret' = n
        /\ returned' = returned + n
        /\ pc' = "done"
        /\ UNCHANGED <<board, active, timeTicks, local, command, misled>>

\* The caller has its answer, and the variables of the call are gone.
Leave == /\ pc = "done"
         /\ pc' = "idle"
         /\ i' = 1 /\ numElems' = 0 /\ requestTime' = 0
         /\ buffs' = [c \in Chan |-> <<>>]
         /\ endBurst' = FALSE /\ ret' = 0 /\ misled' = FALSE
         /\ UNCHANGED <<board, active, stream, got, command, returned>>

-----------------------------------------------------------------------------
CallStep == \/ Start \/ Skip \/ PopSamples \/ ReadNothing \/ ReadHead \/ ReadOn \/ ReadEarly
            \/ ReadLate \/ RefuseTime \/ Return \/ Leave

Next == \/ Receive
        \/ Drop
        \/ CallStep
        \/ NoCommand
        \/ Deactivate
        \/ \E cmd \in Commands : Activate(cmd)
        \/ \E count \in Counts : ReadStream(count)

Spec == Init /\ [][Next]_vars

\* The board goes on sending, and the thread that reads is run.
FairSpec == Spec /\ WF_vars(Receive) /\ WF_vars(CallStep)

-----------------------------------------------------------------------------
\* Properties.

\* Every sample that readStream returns was taken at the time that its place in the
\* buffer says, in every channel: no packet lost by the board or by a full FIFO leaves
\* a gap in a buffer, or channels that have slipped against each other.  That is so
\* as far as _readStreamAligned can see: it has one time for all samples of a Read, and
\* takes a head at time 0 for none.
SamplesAreWhereTheyBelong ==
    pc = "done" /\ ret > 0 /\ ~misled =>
        \A c \in Chan : \A k \in 1..ret : buffs[c][k] = requestTime + k - 1

\* A burst is returned to the last sample and not beyond, and END_BURST is "only
\* marked on the last" of it (BasicStreamTests.py:81).
EndBurstOnLast ==
    LET complete == command.numElems # 0 /\ returned = command.numElems
    IN  /\ command.numElems # 0 => returned <= command.numElems
        /\ pc = "done" /\ ret > 0 => (endBurst <=> complete)
        /\ pc = "idle" /\ complete => ~hasCmd

\* What a timed command returns begins exactly at its time, in every channel; or not
\* at all.  A gap inside a Read is beyond it here too.
TimedStartsOnTime ==
    pc = "done" /\ ret > 0 /\ ~misled /\ command.timed /\ returned = ret =>
        \A c \in Chan : buffs[c][1] = command.ticks

\* readStream returns.
CallsReturn == pc = "read" ~> pc = "done"
=============================================================================
