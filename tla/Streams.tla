------------------------------- MODULE Streams -------------------------------
(***************************************************************************)
(* The life of the sample streams of one chip: lime::Streamer and its      *)
(* StreamChannels (src/src/protocols/Streamer.cpp).  There are two         *)
(* channels and, for each, a receive and a transmit stream.                *)
(*                                                                         *)
(* The application's thread sets streams up, starts, stops and closes      *)
(* them; each call that may change what runs goes through UpdateThreads,   *)
(* which joins the loops no stream needs, configures the FPGA when nothing *)
(* runs, and spawns the loops that are needed.  The two loops meanwhile    *)
(* look at `used' and `mActive' and then use the FIFO, without a lock.     *)
(*                                                                         *)
(* A FIFO is here the number of samples its packets hold, 0 when there is  *)
(* none (RingFIFO says what it does with them).                            *)
(***************************************************************************)
EXTENDS Integers, FiniteSets

CONSTANT Liberties  \* what the application allows itself beyond what the
                    \* examples of the repository do: a set of
                    \*   "close" - closes a stream while another stream of its
                    \*             direction is active
                    \*   "setup" - sets up the other direction of a channel
                    \*             while both channels are streaming
                    \*   "start" - starts or stops a stream after closing the
                    \*             last one of the other channel
                    \*   "mix"   - sets up streams of different link formats

ASSUME LibertiesAssumption == Liberties \subseteq {"close", "setup", "start", "mix"}

Channels == {0, 1}
Directions == {"Rx", "Tx"}
Streams == Directions \X Channels
Formats == {"I12", "I16"}

VARIABLES used, mActive,   \* StreamChannel's flags, for each stream
          linkFormat,      \* config.linkFormat of each stream
          fifo,            \* samples in a packet of the stream's FIFO, 0: no FIFO
          streamSize,      \* channels the streams were last set up for
          dataLinkFormat,  \* the link format of the running streams
          terminate,       \* terminateRx, terminateTx
          loop,            \* where each direction's loop stands
          chCount, batch,  \* what the loop found when it began: channels, and
                           \* samples of each in a packet
          fpga,            \* what the FPGA was last told
          call             \* the application's call in progress

channels == <<used, mActive, linkFormat, fifo>>
loops == <<loop, chCount, batch>>
vars == <<channels, streamSize, dataLinkFormat, terminate, loops, fpga, call>>

InPacket(format) == IF format = "I12" THEN 1360 ELSE 1020

\* The places of a loop: not created; created; at its loop condition; looking at
\* a channel; using that channel's FIFO; returned but not joined.
Joinable(d) == loop[d].at # "none"
Loops == {"none", "new", "top", "check", "use", "ended"}

NoCall == [op |-> "none", stream |-> <<"Rx", 0>>, format |-> "I12",
           wasRunning |-> FALSE, needs |-> {}, stage |-> <<"idle">>]

Init == /\ used = [s \in Streams |-> FALSE]
        /\ mActive = [s \in Streams |-> FALSE]
        /\ linkFormat = [s \in Streams |-> "I12"]
        /\ fifo = [s \in Streams |-> 0]
        /\ streamSize = 1
        /\ dataLinkFormat = "I12"
        /\ terminate = [d \in Directions |-> FALSE]
        /\ loop = [d \in Directions |-> [at |-> "none", ch |-> 0]]
        /\ chCount = [d \in Directions |-> 1]
        /\ batch = [d \in Directions |-> 0]
        /\ fpga = [streaming |-> FALSE, channels |-> {}, format |-> "I12"]
        /\ call = NoCall

-----------------------------------------------------------------------------
\* Which channels and directions are in use.

ChannelUsed(c) == \E d \in Directions : used[<<d, c>>]
UsedChannels == {c \in Channels : ChannelUsed(c)}

\* The channels in use once stream s is set up.
SizeWith(s) == Cardinality(UsedChannels \cup {s[2]})

Needed == {d \in Directions : \E c \in Channels : used[<<d, c>>] /\ mActive[<<d, c>>]}

SomeI16 == \E s \in Streams : used[s] /\ linkFormat[s] # "I12"
LinkFormat == IF SomeI16 THEN "I16" ELSE "I12"

-----------------------------------------------------------------------------
\* The application's calls.  One thread makes them, one at a time.

Idle == call.stage = <<"idle">>

Begin(op, s, f, needs, stage) ==
    call' = [op |-> op, stream |-> s, format |-> f,
             wasRunning |-> \E d \in Directions : Joinable(d),
             needs |-> needs, stage |-> stage]

UpdateThreads == <<"stop", "Tx">>

\* Every stream is stopped before the first is closed, and set up again before
\* the next is started.
Ordered == "start" \in Liberties \/ streamSize = Cardinality(UsedChannels)

MaySetup(s, f) ==
    /\ "mix" \notin Liberties =>
          \/ \A r \in Streams : used[r] => linkFormat[r] = f
          \/ \E d \in Directions : Joinable(d)   \* will be refused
    /\ "setup" \notin Liberties =>
          ~(streamSize = 2 /\ ChannelUsed(s[2]) /\ \E d \in Directions : Joinable(d))

\* SetupStream: a channel new to the running streams stops them all first.
SetupStream(s, f) ==
    /\ Idle /\ ~used[s] /\ MaySetup(s, f)
    /\ Begin("setup", s, f, {},
             IF (\E d \in Directions : Joinable(d)) /\ ~ChannelUsed(s[2])
             THEN UpdateThreads ELSE <<"setup">>)
    /\ UNCHANGED <<channels, streamSize, dataLinkFormat, terminate, loops, fpga>>

RefuseSetup ==
    /\ call.stage = <<"setup">>
    /\ call.wasRunning /\ call.format # dataLinkFormat
    /\ call' = NoCall
    /\ UNCHANGED <<channels, streamSize, dataLinkFormat, terminate, loops, fpga>>

\* StreamChannel::Setup; the FIFO's packets are full size until the next start.
FinishSetup ==
    LET s == call.stream
    IN  /\ call.stage = <<"setup">>
        /\ ~(call.wasRunning /\ call.format # dataLinkFormat)
        /\ used' = [used EXCEPT ![s] = TRUE]
        /\ linkFormat' = [linkFormat EXCEPT ![s] = call.format]
        /\ fifo' = [fifo EXCEPT ![s] = InPacket(call.format)]
        /\ streamSize' = SizeWith(s)
        /\ call' = NoCall
        /\ UNCHANGED <<mActive, dataLinkFormat, terminate, loops, fpga>>

\* StreamChannel::Start, Stop, Close: the flag first, then UpdateThreads.
Start(s) ==
    /\ Idle /\ used[s] /\ Ordered
    /\ mActive' = [mActive EXCEPT ![s] = TRUE]
    /\ Begin("start", s, linkFormat[s], Needed \cup {s[1]}, UpdateThreads)
    /\ UNCHANGED <<used, linkFormat, fifo, streamSize, dataLinkFormat, terminate,
                   loops, fpga>>

\* Mutant: the stream that stops still counts.
NeededAnyway(s) == Needed

\* What runs once stream s is inactive.
NeededWithout(s) == {d \in Directions :
                        \E c \in Channels : <<d, c>> # s /\ used[<<d, c>>] /\ mActive[<<d, c>>]}

Stop(s) ==
    /\ Idle /\ used[s] /\ Ordered
    /\ mActive' = [mActive EXCEPT ![s] = FALSE]
    /\ Begin("stop", s, linkFormat[s], NeededWithout(s), UpdateThreads)
    /\ UNCHANGED <<used, linkFormat, fifo, streamSize, dataLinkFormat, terminate,
                   loops, fpga>>

Close(s) ==
    /\ Idle /\ used[s]
    /\ mActive[s] => Ordered
    /\ "close" \in Liberties \/ s[1] \notin NeededWithout(s)
    /\ mActive' = [mActive EXCEPT ![s] = FALSE]
    /\ Begin("close", s, linkFormat[s], NeededWithout(s),
             IF mActive[s] THEN UpdateThreads ELSE <<"delete">>)
    /\ UNCHANGED <<used, linkFormat, fifo, streamSize, dataLinkFormat, terminate,
                   loops, fpga>>

\* Nobody reads the configuration of an unused stream: it is forgotten.
DeleteFifo == /\ call.stage = <<"delete">>
              /\ fifo' = [fifo EXCEPT ![call.stream] = 0]
              /\ used' = [used EXCEPT ![call.stream] = FALSE]
              /\ linkFormat' = [linkFormat EXCEPT ![call.stream] = "I12"]
              /\ call' = NoCall
              /\ UNCHANGED <<mActive, streamSize, dataLinkFormat, terminate, loops, fpga>>

\* With nothing running, asking for the time stops the board to reset it.
GetHardwareTimestamp ==
    /\ Idle
    /\ \A d \in Directions : ~Joinable(d)
    /\ fpga' = [fpga EXCEPT !.streaming = FALSE]
    /\ UNCHANGED <<channels, streamSize, dataLinkFormat, terminate, loops, call>>

-----------------------------------------------------------------------------
\* UpdateThreads, step by step; call.needs says what is to run.

GoTo(stage) == call' = [call EXCEPT !.stage = stage]
AfterStop(d) == IF d = "Tx" THEN <<"stop", "Rx">> ELSE <<"configure">>

\* Mutant: the loop is joined but not told to end.
JoinOnly(d) ==
    /\ call.stage = <<"stop", d>>
    /\ IF d \notin call.needs /\ Joinable(d) THEN GoTo(<<"join", d>>)
                                            ELSE GoTo(AfterStop(d))
    /\ UNCHANGED <<channels, streamSize, dataLinkFormat, terminate, loops, fpga>>

\* if (!need && thread.joinable()) { terminate = true; ...
Terminate(d) ==
    /\ call.stage = <<"stop", d>>
    /\ IF d \notin call.needs /\ Joinable(d)
       THEN /\ terminate' = [terminate EXCEPT ![d] = TRUE]
            /\ GoTo(<<"join", d>>)
       ELSE /\ GoTo(AfterStop(d))
            /\ UNCHANGED terminate
    /\ UNCHANGED <<channels, streamSize, dataLinkFormat, loops, fpga>>

\* Mutant: the flag is raised but nobody waits for the loop.
JoinWithoutWaiting(d) ==
    /\ call.stage = <<"join", d>>
    /\ GoTo(AfterStop(d))
    /\ UNCHANGED <<channels, streamSize, dataLinkFormat, terminate, loops, fpga>>

\* ... thread.join(); }
Join(d) ==
    /\ call.stage = <<"join", d>>
    /\ loop[d].at = "ended"
    /\ loop' = [loop EXCEPT ![d].at = "none"]
    /\ chCount' = [chCount EXCEPT ![d] = 1]
    /\ batch' = [batch EXCEPT ![d] = 0]
    /\ GoTo(AfterStop(d))
    /\ UNCHANGED <<channels, streamSize, dataLinkFormat, terminate, fpga>>

NothingRuns == \A d \in Directions : ~Joinable(d)

\* Mutant: the receive FIFOs alone are cut to the size of a channel's share.
ResizeReceiveBuffers ==
    fifo' = [s \in Streams |->
                IF used[s] /\ s[1] = "Rx" THEN InPacket(LinkFormat) \div streamSize
                                         ELSE fifo[s]]

\* Every FIFO in use gets packets of a channel's share of an FPGA packet.
ResizeChannelBuffers ==
    fifo' = [s \in Streams |->
                IF used[s] THEN InPacket(LinkFormat) \div streamSize ELSE fifo[s]]

\* The FPGA is configured on the first start only.
Configure ==
    /\ call.stage = <<"configure">>
    /\ call.needs # {} /\ NothingRuns
    /\ ResizeChannelBuffers
    /\ dataLinkFormat' = LinkFormat
    /\ fpga' = [streaming |-> TRUE, channels |-> UsedChannels, format |-> LinkFormat]
    /\ GoTo(<<"spawn">>)
    /\ UNCHANGED <<used, mActive, linkFormat, streamSize, terminate, loops>>

\* Nothing is to stream: the FPGA is stopped.  Otherwise it goes on as it is.
LeaveConfigured ==
    /\ call.stage = <<"configure">>
    /\ call.needs = {} \/ ~NothingRuns
    /\ fpga' = [fpga EXCEPT !.streaming = @ /\ call.needs # {}]
    /\ GoTo(<<"spawn">>)
    /\ UNCHANGED <<channels, streamSize, dataLinkFormat, terminate, loops>>

AfterUpdate == CASE call.op = "setup" -> [call EXCEPT !.stage = <<"setup">>]
                 [] call.op = "close" -> [call EXCEPT !.stage = <<"delete">>]
                 [] OTHER -> NoCall

Spawn ==
    LET spawned == {d \in call.needs : ~Joinable(d)}
    IN  /\ call.stage = <<"spawn">>
        /\ terminate' = [d \in Directions |-> terminate[d] /\ d \notin spawned]
        /\ loop' = [d \in Directions |-> IF d \in spawned THEN [at |-> "new", ch |-> 0]
                                                         ELSE loop[d]]
        /\ call' = AfterUpdate
        /\ UNCHANGED <<channels, streamSize, dataLinkFormat, chCount, batch, fpga>>

-----------------------------------------------------------------------------
\* ReceivePacketsLoop and TransmitPacketsLoop: one pass looks at each channel in
\* turn and, if it is used and active, pushes to or pops from its FIFO.

At(d, place, c) == loop' = [loop EXCEPT ![d] = [at |-> place, ch |-> c]]

LoopBegins(d) ==
    /\ loop[d].at = "new"
    /\ At(d, "top", 0)
    /\ chCount' = [chCount EXCEPT ![d] = streamSize]
    /\ batch' = [batch EXCEPT ![d] = InPacket(dataLinkFormat) \div streamSize]
    /\ UNCHANGED <<channels, streamSize, dataLinkFormat, terminate, fpga, call>>

LoopTop(d) ==
    /\ loop[d].at = "top"
    /\ IF terminate[d] THEN At(d, "ended", 0) ELSE At(d, "check", 0)
    /\ UNCHANGED <<channels, streamSize, dataLinkFormat, terminate, chCount, batch, fpga, call>>

NextChannel(d) == IF loop[d].ch = 0 THEN At(d, "check", 1) ELSE At(d, "top", 0)

LoopChecks(d) ==
    LET s == <<d, loop[d].ch>>
    IN  /\ loop[d].at = "check"
        /\ IF used[s] /\ mActive[s] THEN At(d, "use", loop[d].ch) ELSE NextChannel(d)
        /\ UNCHANGED <<channels, streamSize, dataLinkFormat, terminate, chCount,
                       batch, fpga, call>>

\* push_packet or pop_packet returns.
LoopUsesFifo(d) ==
    /\ loop[d].at = "use"
    /\ NextChannel(d)
    /\ UNCHANGED <<channels, streamSize, dataLinkFormat, terminate, chCount, batch, fpga, call>>

-----------------------------------------------------------------------------
LoopStep(d) == LoopBegins(d) \/ LoopTop(d) \/ LoopChecks(d) \/ LoopUsesFifo(d)

CallStep == \/ RefuseSetup \/ FinishSetup \/ DeleteFifo
            \/ \E d \in Directions : Terminate(d) \/ Join(d)
            \/ Configure \/ LeaveConfigured \/ Spawn

Next == \/ \E s \in Streams, f \in Formats : SetupStream(s, f)
        \/ \E s \in Streams : Start(s) \/ Stop(s) \/ Close(s)
        \/ GetHardwareTimestamp
        \/ CallStep
        \/ \E d \in Directions : LoopStep(d)

Spec == Init /\ [][Next]_vars

\* Threads are scheduled, and every wait inside a loop has a time-out.
Fairness == WF_vars(CallStep) /\ \A d \in Directions : WF_vars(LoopStep(d))

FairSpec == Spec /\ Fairness

-----------------------------------------------------------------------------
\* Properties.

\* A loop that pushes to or pops from a FIFO has one: Close does not delete it
\* from under the call (Streamer.cpp:48, 738 and 892).
FifosOutliveLoops ==
    \A d \in Directions :
        loop[d].at = "use" => fifo[<<d, loop[d].ch>>] # 0

\* A running loop and the FPGA agree on what a packet is: how many channels it
\* interleaves and in which format the stream converts its samples; and a
\* transmit FIFO's packets are as long as the loop's, which otherwise drops them
\* or clears a negative number of samples (Streamer.cpp:740, 747).
PacketShapesAgree ==
    \A d \in Directions :
        loop[d].at = "use" =>
            LET s == <<d, loop[d].ch>>
            IN  /\ fpga.streaming
                /\ loop[d].ch \in fpga.channels
                /\ chCount[d] = Cardinality(fpga.channels)
                /\ linkFormat[s] = fpga.format
                /\ d = "Tx" => fifo[s] = batch[d]

\* Between calls a direction's loop runs only for some active stream, and is then not
\* told to end: the flag that ended the last one has been lowered.
LoopsServeActiveStreams ==
    Idle => \A d \in Directions : Joinable(d) => d \in Needed /\ ~terminate[d]

\* No call waits forever for a loop to end.
CallsReturn == ~Idle ~> Idle
=============================================================================
