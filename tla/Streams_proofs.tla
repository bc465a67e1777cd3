----------------------------- MODULE Streams_proofs -----------------------------
(***************************************************************************)
(* Proofs about Streams: a loop runs only for an active stream, whatever   *)
(* the application does; with the examples' discipline it never meets a    *)
(* deleted FIFO, and agrees with the FPGA and the FIFOs on what a packet   *)
(* is.                                                                     *)
(***************************************************************************)
EXTENDS Streams, FiniteSetTheorems, TLAPS

Calls == {"none", "setup", "start", "stop", "close"}

\* The steps of UpdateThreads, in their order.
StopSteps == {<<"stop", "Tx">>, <<"join", "Tx">>, <<"stop", "Rx">>, <<"join", "Rx">>}
Updating == StopSteps \cup {<<"configure">>, <<"spawn">>}
Stages == Updating \cup {<<"idle">>, <<"setup">>, <<"delete">>}

TypeInv ==
    /\ used \in [Streams -> BOOLEAN] /\ mActive \in [Streams -> BOOLEAN]
    /\ linkFormat \in [Streams -> Formats] /\ fifo \in [Streams -> Nat]
    /\ streamSize \in {1, 2} /\ dataLinkFormat \in Formats
    /\ terminate \in [Directions -> BOOLEAN]
    /\ loop \in [Directions -> [at : Loops, ch : Channels]]
    /\ chCount \in [Directions -> {1, 2}] /\ batch \in [Directions -> Nat]
    /\ fpga \in [streaming : BOOLEAN, channels : SUBSET Channels, format : Formats]
    /\ call \in [op : Calls, stream : Streams, format : Formats, wasRunning : BOOLEAN,
                 needs : SUBSET Directions, stage : Stages]

\* What UpdateThreads is to leave running is what the flags ask for, or nothing when
\* a channel is to be added; what is to be deleted is no longer active.
CallOK ==
    /\ call.stage \in Updating =>
          call.needs = IF call.op = "setup" THEN {} ELSE Needed
    /\ call.stage = <<"setup">> => call.op = "setup"
    /\ call.stage = <<"delete">> => call.op = "close"
    /\ ~Idle /\ call.op = "close" => ~mActive[call.stream]

\* The steps at which direction d's loop has not been dealt with yet.
Ahead(d) == IF d = "Tx" THEN {<<"stop", "Tx">>, <<"join", "Tx">>} ELSE StopSteps

\* A loop that has not been joined is wanted, or is about to be joined.
LoopOK(d) ==
    Joinable(d) =>
        /\ terminate[d] => call.stage = <<"join", d>>
        /\ call.stage \notin Updating => d \in Needed
        /\ call.stage \in Updating /\ call.stage \notin Ahead(d) => d \in call.needs

ThreadsOK == \A d \in Directions : LoopOK(d)

Basis == TypeInv /\ CallOK /\ ThreadsOK
-----------------------------------------------------------------------------
\* A FIFO is there while its stream is used, and the loop of a closed stream's
\* direction is not wanted.
FifoOK ==
    /\ \A s \in Streams : used[s] => fifo[s] # 0
    /\ \A d \in Directions : loop[d].at = "use" => used[<<d, loop[d].ch>>]
    /\ ~Idle /\ call.op = "close" => call.stream[1] \notin Needed

\* Something runs, or is about to.
Running == \/ \E d \in Directions : Joinable(d)
           \/ call.stage = <<"spawn">> /\ call.needs # {}

SameFormat(f) == \A s \in Streams : used[s] => linkFormat[s] = f

\* While something runs the FPGA, the FIFOs and the streams have one shape.
ShapeOK ==
    Running =>
        /\ fpga.streaming /\ fpga.format = dataLinkFormat
        /\ UsedChannels \subseteq fpga.channels
        /\ streamSize = Cardinality(fpga.channels)
        /\ SameFormat(dataLinkFormat)
        /\ \A s \in Streams : used[s] => fifo[s] = InPacket(dataLinkFormat) \div streamSize

\* What a loop read when it began still holds.
LoopShapeOK ==
    \A d \in Directions :
        loop[d].at \notin {"none", "new"} =>
            /\ chCount[d] = streamSize
            /\ batch[d] = InPacket(dataLinkFormat) \div streamSize

\* A stream is set up with the others' format; a start finds the channels in use to be
\* those last set up; and one that is set up without a stop changes neither.
SetupOK ==
    /\ \E f \in Formats : SameFormat(f)
    /\ Cardinality(UsedChannels) <= streamSize
    /\ ~Idle /\ call.op = "setup" =>
          /\ SameFormat(IF call.wasRunning THEN dataLinkFormat ELSE call.format)
          /\ ~call.wasRunning => ~Running
          /\ call.stage = <<"setup">> /\ Running =>
                ChannelUsed(call.stream[2]) /\ streamSize = 1
    /\ call.stage \in Updating /\ call.needs # {} => streamSize = Cardinality(UsedChannels)

IInv == Basis /\ FifoOK /\ ShapeOK /\ LoopShapeOK /\ SetupOK

-----------------------------------------------------------------------------
\* The stages are all different.
LEMMA StagesDiffer ==
    /\ \A x \in {"idle", "setup", "delete", "configure", "spawn"} :
          \A y \in {"idle", "setup", "delete", "configure", "spawn"} :
             x # y => <<x>> # <<y>>
    /\ \A x, d, z : <<x, d>> # <<z>>
    /\ \A x \in {"stop", "join"}, y \in {"stop", "join"} :
          \A d \in Directions, e \in Directions : <<x, d>> = <<y, e>> => x = y /\ d = e
  <1>1. \A x, z : <<x>> = <<z>> => x = z
    OBVIOUS
  <1>2. \A x, d, z : <<x, d>> # <<z>>
    OBVIOUS
  <1>3. \A x, d, y, e : <<x, d>> = <<y, e>> => x = y /\ d = e
    OBVIOUS
  <1> QED
    BY <1>1, <1>2, <1>3

LEMMA Places ==
    /\ \A s \in Streams : s[1] \in Directions /\ s[2] \in Channels /\ s = <<s[1], s[2]>>
    /\ \A d \in Directions, c \in Channels : <<d, c>> \in Streams
    /\ \A d, c, e, b : <<d, c>> = <<e, b>> => d = e /\ c = b
  BY DEF Streams

\* Sizes of sets of channels.
LEMMA Sizes ==
    ASSUME NEW S \in SUBSET Channels
    PROVE  /\ Cardinality(S) \in 0..2
           /\ S # {} => Cardinality(S) \in {1, 2}
           /\ \A T \in SUBSET S : Cardinality(T) <= Cardinality(S)
  <1>1. IsFiniteSet(Channels) /\ Cardinality(Channels) = 2
    <2>1. Channels = {0} \cup {1}
      BY DEF Channels
    <2>2. IsFiniteSet({0}) /\ Cardinality({0}) = 1
      BY FS_Singleton
    <2>3. IsFiniteSet({0} \cup {1}) /\ Cardinality({0} \cup {1}) = Cardinality({0}) + 1
      BY <2>2, FS_AddElement
    <2> QED
      BY <2>1, <2>2, <2>3
  <1>2. IsFiniteSet(S) /\ Cardinality(S) <= Cardinality(Channels)
    BY <1>1, FS_Subset
  <1>3. Cardinality(S) \in Nat /\ (Cardinality(S) = 0 => S = {})
    BY <1>2, FS_CardinalityType, FS_EmptySet
  <1>4. \A T \in SUBSET S : Cardinality(T) <= Cardinality(S)
    BY <1>2, FS_Subset
  <1> QED
    BY <1>1, <1>2, <1>3, <1>4

LEMMA Shares ==
    \A f \in Formats, n \in {1, 2} : InPacket(f) \div n \in Nat \ {0} /\ InPacket(f) \in Nat \ {0}
  BY DEF Formats, InPacket

LEMMA Used == /\ UsedChannels \subseteq Channels
              /\ \A s \in Streams : UsedChannels \cup {s[2]} \subseteq Channels
  BY Places DEF UsedChannels
-----------------------------------------------------------------------------
\* Types.

LEMMA InitBasis == Init => Basis
  BY StagesDiffer DEF Init, Basis, TypeInv, CallOK, ThreadsOK, LoopOK, Joinable, NoCall, Stages, Calls,
     Updating, StopSteps, Directions, Channels, Streams, Formats, Loops, Idle

LEMMA CallTypes ==
    ASSUME TypeInv,
           \/ \E s \in Streams, f \in Formats : SetupStream(s, f)
           \/ \E s \in Streams : Start(s) \/ Stop(s) \/ Close(s)
           \/ GetHardwareTimestamp
    PROVE  TypeInv'
  <1>1. ASSUME NEW op \in Calls, NEW s \in Streams, NEW f \in Formats,
               NEW needs \in SUBSET Directions, NEW stage \in Stages, Begin(op, s, f, needs, stage)
        PROVE  call' \in [op : Calls, stream : Streams, format : Formats, wasRunning : BOOLEAN,
                          needs : SUBSET Directions, stage : Stages]
    BY <1>1 DEF Begin
  <1>2. UpdateThreads \in Stages /\ <<"setup">> \in Stages /\ <<"delete">> \in Stages
    BY DEF UpdateThreads, Stages, Updating, StopSteps
  <1>3. Needed \in SUBSET Directions /\ \A s : NeededWithout(s) \in SUBSET Directions
    BY DEF Needed, NeededWithout
  <1>4. ASSUME NEW s \in Streams, NEW f \in Formats, SetupStream(s, f)
        PROVE  TypeInv'
    BY <1>1, <1>2, <1>4 DEF SetupStream, TypeInv, channels, loops, Calls
  <1>5. ASSUME NEW s \in Streams, Start(s)
        PROVE  TypeInv'
    <2>1. Needed \cup {s[1]} \in SUBSET Directions /\ linkFormat[s] \in Formats
      BY <1>3, Places DEF TypeInv
    <2> QED
      BY <1>1, <1>2, <1>5, <2>1 DEF Start, TypeInv, loops, Calls
  <1>6. ASSUME NEW s \in Streams, Stop(s) \/ Close(s)
        PROVE  TypeInv'
    <2>1. linkFormat[s] \in Formats
      BY DEF TypeInv
    <2>2. "stop" \in Calls /\ "close" \in Calls
      BY DEF Calls
    <2>3. CASE Stop(s)
      BY <1>1, <1>2, <1>3, <2>1, <2>2, <2>3 DEF Stop, TypeInv, loops
    <2>4. CASE Close(s)
      <3>1. (IF mActive[s] THEN UpdateThreads ELSE <<"delete">>) \in Stages
        BY <1>2
      <3> QED
        BY <1>1, <1>3, <2>1, <2>2, <2>4, <3>1 DEF Close, TypeInv, loops
    <2> QED
      BY <1>6, <2>3, <2>4
  <1>7. CASE GetHardwareTimestamp
    BY <1>7 DEF GetHardwareTimestamp, TypeInv, channels, loops
  <1> QED
    BY <1>4, <1>5, <1>6, <1>7

LEMMA StepTypes ==
    ASSUME TypeInv, CallStep
    PROVE  TypeInv'
  <1>1. NoCall \in [op : Calls, stream : Streams, format : Formats, wasRunning : BOOLEAN,
                    needs : SUBSET Directions, stage : Stages]
    BY DEF NoCall, Calls, Streams, Directions, Channels, Formats, Stages
  <1>2. ASSUME NEW stage \in Stages
        PROVE  GoTo(stage) =>
                  call' \in [op : Calls, stream : Streams, format : Formats, wasRunning : BOOLEAN,
                             needs : SUBSET Directions, stage : Stages]
    BY DEF GoTo, TypeInv
  <1>3. /\ \A d \in Directions : AfterStop(d) \in Stages /\ <<"join", d>> \in Stages
        /\ <<"spawn">> \in Stages /\ <<"setup">> \in Stages /\ <<"delete">> \in Stages
    BY DEF AfterStop, Directions, Stages, Updating, StopSteps
  <1>4. LinkFormat \in Formats
    BY DEF LinkFormat, Formats
  <1>5. CASE RefuseSetup
    BY <1>1, <1>5 DEF RefuseSetup, TypeInv, channels, loops
  <1>6. CASE FinishSetup
    <2>1. SizeWith(call.stream) \in {1, 2}
      <3>1. call.stream \in Streams
        BY DEF TypeInv
      <3> QED
        BY <3>1, Used, Sizes DEF SizeWith
    <2>2. InPacket(call.format) \in Nat
      BY Shares DEF TypeInv
    <2> QED
      BY <1>1, <1>6, <2>1, <2>2 DEF FinishSetup, TypeInv, loops
  <1>7. CASE DeleteFifo
    BY <1>1, <1>7 DEF DeleteFifo, TypeInv, loops, Formats
  <1>8. ASSUME NEW d \in Directions, Terminate(d)
        PROVE  TypeInv'
    BY <1>2, <1>3, <1>8 DEF Terminate, TypeInv, channels, loops
  <1>9. ASSUME NEW d \in Directions, Join(d)
        PROVE  TypeInv'
    <2>1. loop' \in [Directions -> [at : Loops, ch : Channels]]
      BY <1>9 DEF Join, TypeInv, Loops
    <2>2. chCount' \in [Directions -> {1, 2}] /\ batch' \in [Directions -> Nat]
      BY <1>9 DEF Join, TypeInv
    <2>3. GoTo(AfterStop(d)) /\ AfterStop(d) \in Stages
      BY <1>3, <1>9 DEF Join
    <2> QED
      BY <1>2, <1>9, <2>1, <2>2, <2>3 DEF Join, TypeInv, channels
  <1>10. CASE Configure
    <2>1. \A s \in Streams : used[s] => InPacket(LinkFormat) \div streamSize \in Nat
      BY <1>4, Shares DEF TypeInv
    <2>2. fifo' \in [Streams -> Nat]
      BY <1>10, <2>1 DEF Configure, ResizeChannelBuffers, TypeInv
    <2>3. fpga' \in [streaming : BOOLEAN, channels : SUBSET Channels, format : Formats]
      BY <1>4, <1>10, Used DEF Configure
    <2> QED
      BY <1>2, <1>3, <1>4, <1>10, <2>2, <2>3 DEF Configure, TypeInv, loops
  <1>11. CASE LeaveConfigured
    BY <1>2, <1>3, <1>11 DEF LeaveConfigured, TypeInv, channels, loops
  <1>12. CASE Spawn
    <2>1. call' \in [op : Calls, stream : Streams, format : Formats, wasRunning : BOOLEAN,
                     needs : SUBSET Directions, stage : Stages]
      BY <1>1, <1>3, <1>12 DEF Spawn, AfterUpdate, TypeInv
    <2> QED
      BY <1>12, <2>1 DEF Spawn, TypeInv, channels, Loops, Channels
  <1> QED
    BY <1>5, <1>6, <1>7, <1>8, <1>9, <1>10, <1>11, <1>12 DEF CallStep

LEMMA LoopTypes ==
    ASSUME TypeInv, NEW d \in Directions, LoopStep(d)
    PROVE  TypeInv'
  <1>1. ASSUME NEW place \in Loops, NEW c \in Channels, At(d, place, c)
        PROVE  loop' \in [Directions -> [at : Loops, ch : Channels]]
    BY <1>1 DEF At, TypeInv
  <1>2. {"top", "check", "use", "ended"} \subseteq Loops /\ 0 \in Channels /\ 1 \in Channels
    BY DEF Loops, Channels
  <1>3. loop[d].ch \in Channels
    BY DEF TypeInv
  <1>4. CASE LoopBegins(d)
    <2>1. InPacket(dataLinkFormat) \div streamSize \in Nat
      BY Shares DEF TypeInv
    <2> QED
      BY <1>1, <1>2, <1>4, <2>1 DEF LoopBegins, TypeInv, channels
  <1>5. CASE LoopTop(d)
    BY <1>1, <1>2, <1>5 DEF LoopTop, TypeInv, channels
  <1>6. CASE LoopChecks(d)
    BY <1>1, <1>2, <1>3, <1>6 DEF LoopChecks, NextChannel, TypeInv, channels
  <1>7. CASE LoopUsesFifo(d)
    BY <1>1, <1>2, <1>7 DEF LoopUsesFifo, NextChannel, TypeInv, channels
  <1> QED
    BY <1>4, <1>5, <1>6, <1>7 DEF LoopStep

-----------------------------------------------------------------------------
\* Loops run for active streams only.

LEMMA NeededKept ==
    ASSUME used' = used, mActive' = mActive
    PROVE  Needed' = Needed
  BY DEF Needed

\* A loop's own steps neither create nor join one.
LEMMA LoopsMove ==
    ASSUME TypeInv, NEW d \in Directions, LoopStep(d)
    PROVE  /\ \A e \in Directions : Joinable(e)' = Joinable(e)
           /\ \A e \in Directions : e # d => loop'[e] = loop[e]
           /\ UNCHANGED <<channels, streamSize, dataLinkFormat, terminate, fpga, call>>
           /\ loop[d].at # "none" /\ loop'[d].at # "none"
           /\ \A e \in Directions : e # d => chCount'[e] = chCount[e] /\ batch'[e] = batch[e]
  <1>1. ASSUME NEW place \in {"top", "check", "use", "ended"}, NEW c, At(d, place, c)
        PROVE  /\ loop'[d].at = place /\ loop'[d].ch = c
               /\ \A e \in Directions : e # d => loop'[e] = loop[e]
    BY <1>1 DEF At, TypeInv
  <1>2. /\ loop[d].at # "none"
        /\ \E place \in {"top", "check", "use", "ended"}, c \in {0, 1, loop[d].ch} : At(d, place, c)
    BY DEF LoopStep, LoopBegins, LoopTop, LoopChecks, LoopUsesFifo, NextChannel
  <1>3. /\ loop'[d].at # "none"
        /\ \A e \in Directions : e # d => loop'[e] = loop[e]
    BY <1>1, <1>2
  <1>4. /\ UNCHANGED <<channels, streamSize, dataLinkFormat, terminate, fpga, call>>
        /\ \A e \in Directions : e # d => chCount'[e] = chCount[e] /\ batch'[e] = batch[e]
    BY DEF LoopStep, LoopBegins, LoopTop, LoopChecks, LoopUsesFifo, TypeInv
  <1> QED
    BY <1>2, <1>3, <1>4 DEF Joinable

LEMMA LoopBasis ==
    ASSUME Basis, NEW d \in Directions, LoopStep(d)
    PROVE  Basis'
  <1>1. TypeInv'
    BY LoopTypes DEF Basis
  <1>2. /\ \A e \in Directions : Joinable(e)' = Joinable(e)
        /\ UNCHANGED <<used, mActive, terminate, call>>
    BY LoopsMove DEF Basis, channels
  <1>3. Needed' = Needed
    BY <1>2, NeededKept
  <1> QED
    BY <1>1, <1>2, <1>3 DEF Basis, CallOK, ThreadsOK, LoopOK, Idle

\* The step begun is never one of UpdateThreads' but its first.
LEMMA FirstSteps ==
    /\ UpdateThreads \in Updating /\ \A d \in Directions : UpdateThreads \in Ahead(d)
    /\ <<"idle">> \notin Updating /\ <<"setup">> \notin Updating /\ <<"delete">> \notin Updating
    /\ <<"idle">> # <<"setup">> /\ <<"idle">> # <<"delete">> /\ <<"setup">> # <<"delete">>
    /\ UpdateThreads # <<"setup">> /\ UpdateThreads # <<"delete">> /\ UpdateThreads # <<"idle">>
  <1>1. UpdateThreads \in Updating /\ \A d \in Directions : UpdateThreads \in Ahead(d)
    BY DEF UpdateThreads, Updating, StopSteps, Ahead, Directions
  <1>2. \A x \in {"idle", "setup", "delete"} : <<x>> \notin Updating
    BY StagesDiffer DEF Updating, StopSteps
  <1> QED
    BY <1>1, <1>2, StagesDiffer

\* Without stream s, and with s inactive, the same directions are needed.
LEMMA NeededOf ==
    ASSUME TypeInv, NEW s \in Streams
    PROVE  /\ mActive' = [mActive EXCEPT ![s] = FALSE] /\ used' = used =>
                 Needed' = NeededWithout(s)
           /\ mActive' = [mActive EXCEPT ![s] = TRUE] /\ used' = used /\ used[s] =>
                 Needed' = Needed \cup {s[1]}
           /\ ~mActive[s] => Needed = NeededWithout(s)
           /\ ~mActive[s] /\ mActive' = mActive /\ used' = [used EXCEPT ![s] = FALSE] =>
                 Needed' = Needed
           /\ mActive' = mActive /\ used' = [used EXCEPT ![s] = TRUE] => Needed \subseteq Needed'
  <1>1. /\ s[1] \in Directions /\ s[2] \in Channels /\ s = <<s[1], s[2]>>
        /\ \A d \in Directions, c \in Channels : <<d, c>> \in Streams
    BY Places
  <1>2. ASSUME mActive' = [mActive EXCEPT ![s] = FALSE], used' = used
        PROVE  Needed' = NeededWithout(s)
    <2>1. \A r \in Streams : mActive'[r] = (mActive[r] /\ r # s)
      BY <1>2 DEF TypeInv
    <2> QED
      BY <1>1, <1>2, <2>1 DEF Needed, NeededWithout
  <1>3. ASSUME mActive' = [mActive EXCEPT ![s] = TRUE], used' = used, used[s]
        PROVE  Needed' = Needed \cup {s[1]}
    <2>1. \A r \in Streams : mActive'[r] = (mActive[r] \/ r = s)
      BY <1>3 DEF TypeInv
    <2>2. \A d \in Directions, c \in Channels : <<d, c>> = s => d = s[1]
      BY <1>1, Places
    <2>3. \A d \in Directions :
             (\E c \in Channels : used[<<d, c>>] /\ mActive'[<<d, c>>])
             <=> (\E c \in Channels : used[<<d, c>>] /\ mActive[<<d, c>>]) \/ d = s[1]
      BY <1>1, <1>3, <2>1, <2>2
    <2> QED
      BY <1>1, <1>3, <2>3 DEF Needed
  <1>4. ~mActive[s] => Needed = NeededWithout(s)
    BY <1>1 DEF Needed, NeededWithout
  <1>5. ASSUME ~mActive[s], mActive' = mActive, used' = [used EXCEPT ![s] = FALSE]
        PROVE  Needed' = Needed
    <2>1. \A r \in Streams : used'[r] = (used[r] /\ r # s)
      BY <1>5 DEF TypeInv
    <2> QED
      BY <1>1, <1>5, <2>1 DEF Needed
  <1>6. ASSUME mActive' = mActive, used' = [used EXCEPT ![s] = TRUE]
        PROVE  Needed \subseteq Needed'
    <2>1. \A r \in Streams : used[r] => used'[r]
      BY <1>6 DEF TypeInv
    <2> QED
      BY <1>1, <1>6, <2>1 DEF Needed
  <1> QED
    BY <1>2, <1>3, <1>4, <1>5, <1>6

LEMMA CallBasis ==
    ASSUME Basis,
           \/ \E s \in Streams, f \in Formats : SetupStream(s, f)
           \/ \E s \in Streams : Start(s) \/ Stop(s) \/ Close(s)
           \/ GetHardwareTimestamp
    PROVE  Basis'
  <1>1. TypeInv' /\ TypeInv
    BY CallTypes DEF Basis
  <1>2. CASE GetHardwareTimestamp
    <2>1. UNCHANGED <<used, mActive, terminate, loop, call>>
      BY <1>2 DEF GetHardwareTimestamp, channels, loops
    <2>2. Needed' = Needed
      BY <2>1, NeededKept
    <2> QED
      BY <1>1, <2>1, <2>2 DEF Basis, CallOK, ThreadsOK, LoopOK, Idle, Joinable
  <1>3. ASSUME NEW op, NEW s, NEW f, NEW needs, NEW stage,
               Begin(op, s, f, needs, stage)
        PROVE  /\ call'.op = op /\ call'.stream = s /\ call'.needs = needs /\ call'.stage = stage
    BY <1>3 DEF Begin
  <1>4. ASSUME NEW s \in Streams, NEW f \in Formats, SetupStream(s, f)
        PROVE  Basis'
    <2>1. /\ UNCHANGED <<used, mActive, terminate, loop>>
          /\ call'.op = "setup" /\ call'.needs = {} /\ Idle
          /\ call'.stage = UpdateThreads \/ call'.stage = <<"setup">>
      BY <1>3, <1>4 DEF SetupStream, channels, loops
    <2>2. Needed' = Needed
      BY <2>1, NeededKept
    <2>3. CallOK'
      BY <2>1, FirstSteps DEF CallOK, Idle
    <2>4. ASSUME NEW d \in Directions
          PROVE  LoopOK(d)'
      BY <2>1, <2>2, FirstSteps, StagesDiffer DEF Basis, ThreadsOK, LoopOK, Joinable, Idle
    <2> QED
      BY <1>1, <2>3, <2>4 DEF Basis, ThreadsOK
  <1>5. ASSUME NEW s \in Streams, Start(s) \/ Stop(s) \/ Close(s)
        PROVE  Basis'
    <2>1. /\ UNCHANGED <<used, terminate, loop>> /\ Idle /\ call'.stream = s
          /\ call'.stage = UpdateThreads \/ call'.stage = <<"delete">>
      BY <1>3, <1>5 DEF Start, Stop, Close, loops
    <2>2. /\ call'.needs = Needed'
          /\ call'.op # "setup" /\ (call'.op = "close" => ~mActive'[s])
          /\ call'.stage = <<"delete">> => call'.op = "close" /\ Needed' = Needed
      <3>1. CASE Start(s)
        <4>1. call'.op = "start" /\ call'.needs = Needed \cup {s[1]} /\ call'.stage = UpdateThreads
          BY <1>3, <3>1 DEF Start
        <4>2. Needed' = Needed \cup {s[1]}
          BY <1>1, <2>1, <3>1, NeededOf DEF Start
        <4> QED
          BY <4>1, <4>2, FirstSteps
      <3>2. CASE Stop(s)
        <4>1. call'.op = "stop" /\ call'.needs = NeededWithout(s) /\ call'.stage = UpdateThreads
          BY <1>3, <3>2 DEF Stop
        <4>2. Needed' = NeededWithout(s)
          BY <1>1, <2>1, <3>2, NeededOf DEF Stop
        <4> QED
          BY <4>1, <4>2, FirstSteps
      <3>3. CASE Close(s)
        <4>1. /\ call'.op = "close" /\ call'.needs = NeededWithout(s)
              /\ mActive' = [mActive EXCEPT ![s] = FALSE]
              /\ call'.stage = IF mActive[s] THEN UpdateThreads ELSE <<"delete">>
          BY <1>3, <3>3 DEF Close
        <4>2. Needed' = NeededWithout(s)
          BY <1>1, <2>1, <4>1, NeededOf
        <4>3. ~mActive'[s]
          BY <1>1, <4>1 DEF TypeInv
        <4>4. ~mActive[s] => Needed = NeededWithout(s)
          BY <1>1, NeededOf
        <4> QED
          BY <4>1, <4>2, <4>3, <4>4, FirstSteps
      <3> QED
        BY <1>5, <3>1, <3>2, <3>3
    <2>3. CallOK'
      BY <2>1, <2>2, FirstSteps DEF CallOK, Idle
    <2>4. ASSUME NEW d \in Directions
          PROVE  LoopOK(d)'
      BY <2>1, <2>2, FirstSteps, StagesDiffer DEF Basis, ThreadsOK, LoopOK, Joinable, Idle
    <2> QED
      BY <1>1, <2>3, <2>4 DEF Basis, ThreadsOK
  <1> QED
    BY <1>2, <1>4, <1>5


\* The order of UpdateThreads' steps.
LEMMA StepOrder ==
    ASSUME NEW d \in Directions
    PROVE  /\ <<"stop", d>> \in Updating /\ <<"stop", d>> \in Ahead(d)
           /\ <<"join", d>> \in Updating /\ <<"join", d>> \in Ahead(d)
           /\ AfterStop(d) \in Updating /\ AfterStop(d) \notin Ahead(d)
           /\ \A e \in Directions : e # d =>
                 /\ AfterStop(d) \in Ahead(e) => <<"stop", d>> \in Ahead(e)
                 /\ <<"stop", d>> \in Ahead(e) => AfterStop(d) \in Ahead(e)
                 /\ (<<"join", d>> \in Ahead(e)) <=> (<<"stop", d>> \in Ahead(e))
                 /\ <<"stop", d>> # <<"join", e>> /\ <<"join", d>> # <<"join", e>>
           /\ <<"stop", d>> # <<"join", d>>
           /\ <<"configure">> \in Updating /\ <<"configure">> \notin Ahead(d)
           /\ <<"spawn">> \in Updating /\ <<"spawn">> \notin Ahead(d)
           /\ <<"configure">> # <<"join", d>> /\ <<"spawn">> # <<"join", d>>
           /\ \A s \in {<<"configure">>, <<"spawn">>} \cup StopSteps : s \in Updating
           /\ \A x \in {"idle", "setup", "delete"} :
                 <<x>> # <<"join", d>> /\ <<x>> # <<"configure">> /\ <<x>> # <<"spawn">>
                 /\ <<x>> # <<"stop", d>>
  <1>1. \A x, y, e, z : <<x, y>> # <<z>> /\ (<<x, e>> = <<y, z>> => x = y /\ e = z)
    OBVIOUS
  <1>2. \A x, z : <<x>> = <<z>> => x = z
    OBVIOUS
  <1>3. CASE d = "Tx"
    BY <1>1, <1>2, <1>3 DEF Updating, StopSteps, Ahead, AfterStop, Directions
  <1>4. CASE d = "Rx"
    BY <1>1, <1>2, <1>4 DEF Updating, StopSteps, Ahead, AfterStop, Directions
  <1> QED
    BY <1>3, <1>4 DEF Directions

LEMMA EndBasis ==
    ASSUME Basis, RefuseSetup \/ FinishSetup \/ DeleteFifo
    PROVE  Basis'
  <1>1. TypeInv' /\ TypeInv
    BY StepTypes DEF Basis, CallStep
  <1>2. /\ call' = NoCall /\ call'.stage = <<"idle">> /\ UNCHANGED <<mActive, terminate, loop>>
        /\ call.stage = <<"setup">> \/ call.stage = <<"delete">>
    BY DEF RefuseSetup, FinishSetup, DeleteFifo, channels, loops, NoCall
  <1>3. Needed \subseteq Needed'
    <2>1. call.stream \in Streams
      BY <1>1 DEF TypeInv
    <2>2. CASE RefuseSetup
      BY <2>2, NeededKept DEF RefuseSetup, channels
    <2>3. CASE FinishSetup
      BY <1>1, <1>2, <2>1, <2>3, NeededOf DEF FinishSetup
    <2>4. CASE DeleteFifo
      <3>1. call.stage = <<"delete">> /\ used' = [used EXCEPT ![call.stream] = FALSE]
        BY <2>4 DEF DeleteFifo
      <3>2. ~mActive[call.stream]
        BY <3>1, FirstSteps DEF Basis, CallOK, Idle
      <3> QED
        BY <1>1, <1>2, <2>1, <3>1, <3>2, NeededOf
    <2> QED
      BY <2>2, <2>3, <2>4
  <1>4. CallOK'
    BY <1>2, FirstSteps DEF CallOK, Idle
  <1>5. ASSUME NEW d \in Directions
        PROVE  LoopOK(d)'
    BY <1>2, <1>3, FirstSteps, StepOrder DEF Basis, ThreadsOK, LoopOK, Joinable
  <1> QED
    BY <1>1, <1>4, <1>5 DEF Basis, ThreadsOK

\* Going on to another stage of UpdateThreads.
LEMMA StageBasis ==
    ASSUME Basis, call.stage \in Updating, NEW stage \in Updating, GoTo(stage),
           UNCHANGED <<used, mActive>>
    PROVE  /\ CallOK' /\ Needed' = Needed /\ call'.needs = call.needs /\ call'.stage = stage
           /\ call'.op = call.op /\ call'.stream = call.stream
           /\ call'.wasRunning = call.wasRunning /\ call'.format = call.format
  <1>1. Needed' = Needed
    BY NeededKept
  <1>2. /\ call'.needs = call.needs /\ call'.stage = stage /\ call'.op = call.op
        /\ call'.stream = call.stream
        /\ call'.wasRunning = call.wasRunning /\ call'.format = call.format
    BY DEF GoTo, Basis, TypeInv
  <1> QED
    BY <1>1, <1>2, FirstSteps DEF Basis, CallOK, Idle

LEMMA UpdateBasis ==
    ASSUME Basis,
           \/ \E d \in Directions : Terminate(d) \/ Join(d)
           \/ Configure \/ LeaveConfigured
    PROVE  Basis'
  <1>1. TypeInv' /\ TypeInv
    BY StepTypes DEF Basis, CallStep
  <1>2. ASSUME NEW d \in Directions, Terminate(d)
        PROVE  Basis'
    <2>1. /\ call.stage = <<"stop", d>> /\ UNCHANGED <<used, mActive, loop>>
          /\ call.stage \in Updating
      BY <1>2, StepOrder DEF Terminate, channels, loops
    <2>2. CASE d \notin call.needs /\ Joinable(d)
      <3>1. terminate' = [terminate EXCEPT ![d] = TRUE] /\ GoTo(<<"join", d>>)
        BY <1>2, <2>2 DEF Terminate
      <3>2. /\ CallOK' /\ Needed' = Needed /\ call'.needs = call.needs
            /\ call'.stage = <<"join", d>>
        BY <2>1, <3>1, StageBasis, StepOrder
      <3>3. ASSUME NEW e \in Directions
            PROVE  LoopOK(e)'
        <4>1. CASE e = d
          BY <2>1, <3>2, <4>1, StepOrder DEF LoopOK
        <4>2. CASE e # d
          <5>1. terminate'[e] = terminate[e]
            BY <1>1, <3>1, <4>2 DEF TypeInv
          <5> QED
            BY <2>1, <3>2, <4>2, <5>1, StepOrder DEF Basis, ThreadsOK, LoopOK, Joinable
        <4> QED
          BY <4>1, <4>2
      <3> QED
        BY <1>1, <3>2, <3>3 DEF Basis, ThreadsOK
    <2>3. CASE ~(d \notin call.needs /\ Joinable(d))
      <3>1. terminate' = terminate /\ GoTo(AfterStop(d))
        BY <1>2, <2>3 DEF Terminate
      <3>2. /\ CallOK' /\ Needed' = Needed /\ call'.needs = call.needs
            /\ call'.stage = AfterStop(d)
        BY <2>1, <3>1, StageBasis, StepOrder
      <3>3. ASSUME NEW e \in Directions
            PROVE  LoopOK(e)'
        <4>1. CASE e = d
          <5>1. Joinable(d) => d \in call.needs
            BY <2>3
          <5>2. <<"stop", d>> # <<"join", d>> /\ AfterStop(d) \in Updating
            BY StepOrder
          <5>3. Joinable(d) => ~terminate[d]
            BY <2>1, <5>2 DEF Basis, ThreadsOK, LoopOK
          <5> QED
            BY <2>1, <3>1, <3>2, <4>1, <5>1, <5>2, <5>3 DEF LoopOK, Joinable
        <4>2. CASE e # d
          <5>1. /\ <<"stop", d>> # <<"join", e>> /\ AfterStop(d) \in Updating
                /\ (AfterStop(d) \in Ahead(e)) <=> (<<"stop", d>> \in Ahead(e))
            BY <4>2, StepOrder
          <5> QED
            BY <2>1, <3>1, <3>2, <5>1 DEF Basis, ThreadsOK, LoopOK, Joinable
        <4> QED
          BY <4>1, <4>2
      <3> QED
        BY <1>1, <3>2, <3>3 DEF Basis, ThreadsOK
    <2> QED
      BY <2>2, <2>3
  <1>3. ASSUME NEW d \in Directions, Join(d)
        PROVE  Basis'
    <2>1. /\ call.stage = <<"join", d>> /\ UNCHANGED <<used, mActive, terminate>>
          /\ call.stage \in Updating /\ GoTo(AfterStop(d))
      BY <1>3, StepOrder DEF Join, channels
    <2>2. /\ CallOK' /\ Needed' = Needed /\ call'.needs = call.needs
          /\ call'.stage = AfterStop(d)
      BY <2>1, StageBasis, StepOrder
    <2>3. loop'[d].at = "none" /\ \A e \in Directions : e # d => loop'[e] = loop[e]
      BY <1>1, <1>3 DEF Join, TypeInv
    <2>4. ASSUME NEW e \in Directions
          PROVE  LoopOK(e)'
      <3>1. CASE e = d
        BY <2>3, <3>1 DEF LoopOK, Joinable
      <3>2. CASE e # d
        <4>1. /\ <<"join", d>> # <<"join", e>> /\ AfterStop(d) \in Updating
              /\ (AfterStop(d) \in Ahead(e)) <=> (<<"join", d>> \in Ahead(e))
          BY <3>2, StepOrder
        <4> QED
          BY <2>1, <2>2, <2>3, <3>2, <4>1 DEF Basis, ThreadsOK, LoopOK, Joinable
      <3> QED
        BY <3>1, <3>2
    <2> QED
      BY <1>1, <2>2, <2>4 DEF Basis, ThreadsOK
  <1>4. CASE Configure \/ LeaveConfigured
    <2>1. /\ call.stage = <<"configure">> /\ UNCHANGED <<used, mActive, terminate, loop>>
          /\ call.stage \in Updating /\ <<"spawn">> \in Updating /\ GoTo(<<"spawn">>)
      BY <1>4, StepOrder DEF Configure, LeaveConfigured, channels, loops, Updating
    <2>2. /\ CallOK' /\ Needed' = Needed /\ call'.needs = call.needs
          /\ call'.stage = <<"spawn">>
      BY <2>1, StageBasis
    <2>3. ASSUME NEW e \in Directions
          PROVE  LoopOK(e)'
      BY <2>1, <2>2, StepOrder DEF Basis, ThreadsOK, LoopOK, Joinable
    <2> QED
      BY <1>1, <2>2, <2>3 DEF Basis, ThreadsOK
  <1> QED
    BY <1>2, <1>3, <1>4

\* How the call goes on when UpdateThreads is done.
LEMMA AfterSpawn ==
    ASSUME Basis, Spawn
    PROVE  /\ call.stage = <<"spawn">> /\ call'.stage \notin Updating
           /\ call'.stage = <<"setup">> => call.op = "setup"
           /\ call'.stage = <<"delete">> => call.op = "close"
           /\ call.op = "setup" => call.needs = {} /\ call'.stage = <<"setup">>
           /\ call.op # "setup" => call.needs = Needed
           /\ call'.stage # <<"idle">> =>
                 /\ call'.op = call.op /\ call'.stream = call.stream /\ call'.format = call.format
                 /\ call'.wasRunning = call.wasRunning /\ call'.needs = call.needs
           /\ call'.stage = <<"idle">> \/ call'.stage = <<"setup">> \/ call'.stage = <<"delete">>
  <1>1. call.stage = <<"spawn">> /\ call.stage \in Updating /\ call' = AfterUpdate
    BY Places, StepOrder DEF Spawn, Updating
  <1>2. CASE call.op = "setup"
    BY <1>1, <1>2, FirstSteps DEF AfterUpdate, Basis, TypeInv, CallOK
  <1>3. CASE call.op = "close"
    BY <1>1, <1>3, FirstSteps DEF AfterUpdate, Basis, TypeInv, CallOK
  <1>4. CASE call.op # "setup" /\ call.op # "close"
    BY <1>1, <1>4, FirstSteps DEF AfterUpdate, NoCall, Basis, CallOK
  <1> QED
    BY <1>2, <1>3, <1>4

LEMMA SpawnBasis ==
    ASSUME Basis, Spawn
    PROVE  Basis'
  <1>1. TypeInv' /\ TypeInv
    BY StepTypes DEF Basis, CallStep
  <1>2. /\ UNCHANGED <<used, mActive>> /\ call.stage \in Updating
        /\ \A d \in Directions :
              /\ d \in call.needs /\ ~Joinable(d) => ~terminate'[d]
              /\ d \notin call.needs \/ Joinable(d) =>
                    terminate'[d] = terminate[d] /\ loop'[d] = loop[d]
    BY <1>1 DEF Spawn, channels, Updating, TypeInv
  <1>3. Needed' = Needed
    BY <1>2, NeededKept
  <1>4. CallOK'
    BY <1>2, AfterSpawn, FirstSteps DEF Basis, CallOK, Idle
  <1>5. ASSUME NEW d \in Directions
        PROVE  LoopOK(d)'
    <2>1. <<"spawn">> \notin Ahead(d) /\ <<"spawn">> # <<"join", d>>
      BY StepOrder
    <2> QED
      BY <1>2, <1>3, <2>1, AfterSpawn DEF Basis, ThreadsOK, LoopOK, Joinable
  <1> QED
    BY <1>1, <1>4, <1>5 DEF Basis, ThreadsOK

LEMMA NextBasis ==
    ASSUME Basis, [Next]_vars
    PROVE  Basis'
  <1>1. CASE UNCHANGED vars
    BY <1>1, NeededKept DEF vars, channels, loops, Basis, TypeInv, CallOK, ThreadsOK, LoopOK, Idle, Joinable
  <1> QED
    BY <1>1, CallBasis, EndBasis, UpdateBasis, SpawnBasis, LoopBasis DEF Next, CallStep

\* Whatever the application does, between calls a loop runs only for an active stream and
\* has not been told to end.
THEOREM LoopsServe == Spec => []LoopsServeActiveStreams
  <1>1. Basis => LoopsServeActiveStreams
    BY FirstSteps, StepOrder DEF Basis, ThreadsOK, LoopOK, LoopsServeActiveStreams, Idle
  <1> QED
    BY <1>1, InitBasis, NextBasis, PTL DEF Spec

-----------------------------------------------------------------------------
\* FIFOs outlive the loops that use them.

LEMMA InitFifo == Init => FifoOK
  BY Places DEF Init, FifoOK, Idle, NoCall, Streams

LEMMA NextFifo ==
    ASSUME "close" \notin Liberties, Basis, FifoOK, [Next]_vars
    PROVE  FifoOK'
  <1>1. TypeInv /\ call.stream \in Streams
    BY DEF Basis, TypeInv
  <1>2. CASE UNCHANGED vars
    BY <1>2, NeededKept DEF vars, channels, loops, FifoOK, Idle
  <1>3. ASSUME NEW d \in Directions, LoopStep(d)
        PROVE  FifoOK'
    <2>1. /\ UNCHANGED <<used, mActive, fifo, call>>
          /\ \A e \in Directions : e # d => loop'[e] = loop[e]
      BY <1>1, <1>3, LoopsMove DEF channels
    <2>2. loop'[d].at = "use" => used[<<d, loop'[d].ch>>]
      <3>1. ASSUME NEW place, NEW c, At(d, place, c)
            PROVE  loop'[d].at = place /\ loop'[d].ch = c
        BY <1>1, <3>1 DEF At, TypeInv
      <3>2. CASE LoopChecks(d)
        BY <3>1, <3>2 DEF LoopChecks, NextChannel
      <3>3. CASE LoopBegins(d) \/ LoopTop(d) \/ LoopUsesFifo(d)
        BY <3>1, <3>3 DEF LoopBegins, LoopTop, LoopUsesFifo, NextChannel
      <3> QED
        BY <1>3, <3>2, <3>3 DEF LoopStep
    <2> QED
      BY <2>1, <2>2, NeededKept DEF FifoOK, Idle
  <1>4. ASSUME NEW s \in Streams, NEW f \in Formats, SetupStream(s, f)
        PROVE  FifoOK'
    BY <1>4 DEF SetupStream, Begin, channels, loops, FifoOK
  <1>5. ASSUME NEW s \in Streams, Start(s) \/ Stop(s)
        PROVE  FifoOK'
    BY <1>5 DEF Start, Stop, Begin, loops, FifoOK
  <1>6. ASSUME NEW s \in Streams, Close(s)
        PROVE  FifoOK'
    <2>1. /\ UNCHANGED <<used, fifo, loop>> /\ call'.stream = s
          /\ s[1] \notin NeededWithout(s)
          /\ mActive' = [mActive EXCEPT ![s] = FALSE]
      BY <1>6 DEF Close, Begin, loops
    <2>2. Needed' = NeededWithout(s)
      BY <1>1, <2>1, NeededOf
    <2> QED
      BY <2>1, <2>2 DEF FifoOK
  <1>7. CASE GetHardwareTimestamp
    BY <1>7, NeededKept DEF GetHardwareTimestamp, channels, loops, FifoOK, Idle
  <1>8. CASE RefuseSetup
    BY <1>8 DEF RefuseSetup, channels, loops, FifoOK, Idle, NoCall
  <1>9. CASE FinishSetup
    <2>1. /\ Idle' /\ loop' = loop
          /\ \A s \in Streams : /\ used[s] => used'[s]
                                /\ used'[s] => s = call.stream \/ used[s]
                                /\ s # call.stream => fifo'[s] = fifo[s]
          /\ fifo'[call.stream] = InPacket(call.format)
      BY <1>1, <1>9 DEF FinishSetup, loops, Idle, NoCall, TypeInv
    <2>2. InPacket(call.format) # 0
      BY <1>1, Shares DEF TypeInv
    <2>3. \A d \in Directions : <<d, loop[d].ch>> \in Streams
      BY <1>1, Places DEF TypeInv
    <2> QED
      BY <2>1, <2>2, <2>3 DEF FifoOK
  <1>10. CASE DeleteFifo
    <2>1. /\ Idle' /\ loop' = loop /\ call.stage = <<"delete">>
          /\ \A s \in Streams : s # call.stream => used'[s] = used[s] /\ fifo'[s] = fifo[s]
          /\ ~used'[call.stream]
      BY <1>1, <1>10 DEF DeleteFifo, loops, Idle, NoCall, TypeInv
    <2>2. call.stream[1] \notin Needed /\ call.stage \notin Updating
      BY <2>1, FirstSteps DEF Basis, CallOK, FifoOK, Idle
    <2>3. ASSUME NEW d \in Directions, loop[d].at = "use"
          PROVE  <<d, loop[d].ch>> # call.stream /\ <<d, loop[d].ch>> \in Streams
      <3>1. d \in Needed
        BY <2>2, <2>3 DEF Basis, ThreadsOK, LoopOK, Joinable
      <3>2. <<d, loop[d].ch>> \in Streams
        BY <1>1, Places DEF TypeInv
      <3> QED
        BY <2>2, <3>1, <3>2, Places
    <2> QED
      BY <2>1, <2>3 DEF FifoOK
  <1>11. ASSUME NEW d \in Directions, Terminate(d) \/ Join(d)
         PROVE  FifoOK'
    <2>1. /\ UNCHANGED <<used, mActive, fifo>> /\ call'.op = call.op /\ call'.stream = call.stream
          /\ ~Idle
          /\ \A e \in Directions : loop'[e].at = "use" => loop'[e] = loop[e]
      BY <1>1, <1>11, StepOrder DEF Terminate, Join, GoTo, channels, loops, Idle, TypeInv
    <2> QED
      BY <2>1, NeededKept DEF FifoOK
  <1>12. CASE Configure \/ LeaveConfigured
    <2>1. /\ UNCHANGED <<used, mActive, loop>> /\ call'.op = call.op
          /\ call'.stream = call.stream /\ ~Idle
      BY <1>1, <1>12, StagesDiffer
         DEF Configure, LeaveConfigured, GoTo, channels, loops, Idle, TypeInv
    <2>2. \A s \in Streams : used[s] => fifo'[s] # 0
      <3>1. CASE LeaveConfigured
        BY <3>1 DEF LeaveConfigured, channels, FifoOK
      <3>2. CASE Configure
        <4>1. LinkFormat \in Formats /\ streamSize \in {1, 2}
          BY <1>1 DEF LinkFormat, Formats, TypeInv
        <4>2. \A s \in Streams : used[s] => fifo'[s] = InPacket(LinkFormat) \div streamSize
          BY <3>2 DEF Configure, ResizeChannelBuffers
        <4> QED
          BY <4>1, <4>2, Shares
      <3> QED
        BY <1>12, <3>1, <3>2
    <2> QED
      BY <2>1, <2>2, NeededKept DEF FifoOK
  <1>13. CASE Spawn
    <2>1. /\ UNCHANGED <<used, mActive, fifo>>
          /\ \A e \in Directions : loop'[e].at = "use" => loop'[e] = loop[e]
      BY <1>13 DEF Spawn, channels
    <2>2. ~Idle /\ (~Idle' => call'.op = call.op /\ call'.stream = call.stream)
      BY <1>13, AfterSpawn, StepOrder, StagesDiffer DEF Idle
    <2> QED
      BY <2>1, <2>2, NeededKept DEF FifoOK
  <1> QED
    BY <1>2, <1>3, <1>4, <1>5, <1>6, <1>7, <1>8, <1>9, <1>10, <1>11, <1>12, <1>13
    DEF Next, CallStep

\* A loop that uses a FIFO has one, when no stream is closed while another stream of its
\* direction is active.
THEOREM FifosOutlive == "close" \notin Liberties => (Spec => []FifosOutliveLoops)
  <1> SUFFICES ASSUME "close" \notin Liberties PROVE Spec => []FifosOutliveLoops
    OBVIOUS
  <1>1. Init => Basis /\ FifoOK
    BY InitBasis, InitFifo
  <1>2. Basis /\ FifoOK /\ [Next]_vars => Basis' /\ FifoOK'
    BY NextBasis, NextFifo
  <1>3. Basis /\ FifoOK => FifosOutliveLoops
    <2> SUFFICES ASSUME Basis, FifoOK, NEW d \in Directions, loop[d].at = "use"
                 PROVE  fifo[<<d, loop[d].ch>>] # 0
      BY DEF FifosOutliveLoops
    <2>1. <<d, loop[d].ch>> \in Streams
      BY Places DEF Basis, TypeInv
    <2> QED
      BY <2>1 DEF FifoOK
  <1> QED
    BY <1>1, <1>2, <1>3, PTL DEF Spec

-----------------------------------------------------------------------------
\* One shape for all.

\* Nothing that has a shape changes, and nothing begins to run.
LEMMA SameShape ==
    ASSUME ShapeOK, UNCHANGED <<used, linkFormat, fifo, streamSize, dataLinkFormat, fpga>>,
           Running' => Running
    PROVE  ShapeOK'
  BY DEF ShapeOK, UsedChannels, ChannelUsed, SameFormat

LEMMA SameUsed ==
    ASSUME used' = used, linkFormat' = linkFormat
    PROVE  /\ UsedChannels' = UsedChannels
           /\ \A f : SameFormat(f)' = SameFormat(f)
           /\ \A c : ChannelUsed(c)' = ChannelUsed(c)
  BY DEF UsedChannels, ChannelUsed, SameFormat

\* The part of SetupOK that is about no call stays.
LEMMA SetupKept ==
    ASSUME SetupOK, UNCHANGED <<used, linkFormat, streamSize>>
    PROVE  /\ \E f \in Formats : SameFormat(f)'
           /\ Cardinality(UsedChannels') <= streamSize'
  BY SameUsed DEF SetupOK

LEMMA InitShapes == Init => ShapeOK /\ LoopShapeOK /\ SetupOK
  <1> SUFFICES ASSUME Init PROVE ShapeOK /\ LoopShapeOK /\ SetupOK
    OBVIOUS
  <1>1. UsedChannels = {}
    BY Places DEF Init, UsedChannels, ChannelUsed
  <1>2. Cardinality({}) = 0
    BY FS_EmptySet
  <1>3. "I12" \in Formats /\ SameFormat("I12")
    BY DEF Init, Formats, SameFormat
  <1>4. Idle /\ ~Running /\ \A d \in Directions : loop[d].at = "none"
    BY StagesDiffer DEF Init, Idle, NoCall, Running, Joinable
  <1> QED
    BY <1>1, <1>2, <1>3, <1>4, FirstSteps DEF Init, ShapeOK, LoopShapeOK, SetupOK, Idle

\* The application begins a call.
LEMMA CallShapes ==
    ASSUME Liberties = {}, Basis, ShapeOK, LoopShapeOK, SetupOK,
           \/ \E s \in Streams, f \in Formats : SetupStream(s, f)
           \/ \E s \in Streams : Start(s) \/ Stop(s) \/ Close(s)
           \/ GetHardwareTimestamp
    PROVE  ShapeOK' /\ LoopShapeOK' /\ SetupOK'
  <1>1. CASE GetHardwareTimestamp
    <2>1. /\ UNCHANGED <<used, linkFormat, streamSize, dataLinkFormat, loop, chCount, batch, call>>
          /\ Idle /\ \A d \in Directions : ~Joinable(d)
      BY <1>1 DEF GetHardwareTimestamp, channels, loops
    <2>2. ~Running' /\ Idle'
      BY <2>1, StagesDiffer DEF Running, Joinable, Idle
    <2>3. call'.stage \notin Updating
      BY <2>2, FirstSteps DEF Idle
    <2> QED
      BY <2>1, <2>2, <2>3, SetupKept DEF ShapeOK, LoopShapeOK, SetupOK
  <1>2. ASSUME UNCHANGED <<used, linkFormat, fifo, streamSize, dataLinkFormat, loops, fpga>>,
               call'.stage # <<"spawn">>
        PROVE  /\ ShapeOK' /\ LoopShapeOK'
               /\ Running' <=> \E d \in Directions : Joinable(d)
    <2>1. Running' <=> \E d \in Directions : Joinable(d)
      BY <1>2 DEF Running, Joinable, loops
    <2>2. ShapeOK'
      BY <1>2, <2>1, SameShape DEF Running
    <2> QED
      BY <1>2, <2>1, <2>2 DEF LoopShapeOK, loops
  <1>3. UpdateThreads # <<"spawn">> /\ <<"setup">> # <<"spawn">> /\ <<"delete">> # <<"spawn">>
    BY StagesDiffer DEF UpdateThreads
  <1>4. ASSUME NEW s \in Streams, NEW f \in Formats, SetupStream(s, f)
        PROVE  ShapeOK' /\ LoopShapeOK' /\ SetupOK'
    <2> DEFINE runs == \E d \in Directions : Joinable(d)
    <2>1. /\ UNCHANGED <<used, linkFormat, fifo, streamSize, dataLinkFormat, loops, fpga>>
          /\ call'.needs = {} /\ call'.stream = s /\ call'.format = f
          /\ call'.wasRunning = runs /\ MaySetup(s, f)
          /\ call'.stage = IF runs /\ ~ChannelUsed(s[2]) THEN UpdateThreads ELSE <<"setup">>
      BY <1>4 DEF SetupStream, Begin, channels
    <2>2. call'.stage # <<"spawn">>
      BY <1>3, <2>1
    <2>3. ShapeOK' /\ LoopShapeOK' /\ (Running' <=> runs)
      BY <1>2, <2>1, <2>2
    <2>4. SameFormat(IF call'.wasRunning THEN dataLinkFormat ELSE call'.format)
      <3>1. CASE runs
        BY <2>1, <3>1 DEF ShapeOK, Running
      <3>2. CASE ~runs
        BY <2>1, <3>2 DEF MaySetup, SameFormat
      <3> QED
        BY <3>1, <3>2
    <2>5. call'.stage = <<"setup">> /\ runs => ChannelUsed(s[2]) /\ streamSize = 1
      BY <2>1, FirstSteps DEF MaySetup, Basis, TypeInv
    <2> HIDE DEF runs
    <2> QED
      BY <2>1, <2>3, <2>4, <2>5, SetupKept, SameUsed DEF SetupOK
  <1>5. ASSUME NEW s \in Streams, Start(s) \/ Stop(s) \/ Close(s)
        PROVE  ShapeOK' /\ LoopShapeOK' /\ SetupOK'
    <2>1. /\ UNCHANGED <<used, linkFormat, fifo, streamSize, dataLinkFormat, loops, fpga>>
          /\ call'.op # "setup"
          /\ call'.stage = UpdateThreads \/ call'.stage = <<"delete">>
          /\ call'.stage = UpdateThreads => streamSize = Cardinality(UsedChannels)
      BY <1>5, FirstSteps DEF Start, Stop, Close, Begin, Ordered
    <2>2. call'.stage # <<"spawn">>
      BY <1>3, <2>1
    <2>3. ShapeOK' /\ LoopShapeOK'
      BY <1>2, <2>1, <2>2
    <2> QED
      BY <2>1, <2>3, SetupKept, SameUsed, FirstSteps DEF SetupOK
  <1> QED
    BY <1>1, <1>4, <1>5


\* A stream is set up or deleted, or is not.
LEMMA EndShapes ==
    ASSUME Basis, ShapeOK, LoopShapeOK, SetupOK, RefuseSetup \/ FinishSetup \/ DeleteFifo
    PROVE  ShapeOK' /\ LoopShapeOK' /\ SetupOK'
  <1>1. /\ Idle' /\ ~(call'.stage \in Updating) /\ call'.stage # <<"spawn">>
        /\ UNCHANGED <<dataLinkFormat, loops, fpga>>
    BY FirstSteps, StagesDiffer
    DEF RefuseSetup, FinishSetup, DeleteFifo, NoCall, Idle, channels
  <1>2. Running' => \E d \in Directions : Joinable(d)
    BY <1>1 DEF Running, Joinable, loops
  <1>3. TypeInv /\ call.stream \in Streams
    BY DEF Basis, TypeInv
  <1>4. CASE RefuseSetup
    <2>1. UNCHANGED <<used, linkFormat, fifo, streamSize>>
      BY <1>4 DEF RefuseSetup, channels
    <2> QED
      BY <1>1, <1>2, <2>1, SameShape, SetupKept DEF LoopShapeOK, SetupOK, loops, Running
  <1>5. CASE DeleteFifo
    <2>1. /\ streamSize' = streamSize
          /\ \A s \in Streams : /\ used'[s] => used[s] /\ s # call.stream
                                /\ s # call.stream => linkFormat'[s] = linkFormat[s]
                                                      /\ fifo'[s] = fifo[s]
      BY <1>3, <1>5 DEF DeleteFifo, TypeInv
    <2>2. UsedChannels' \subseteq UsedChannels /\ Cardinality(UsedChannels') <= Cardinality(UsedChannels)
      <3>1. UsedChannels' \subseteq UsedChannels
        BY <2>1, Places DEF UsedChannels, ChannelUsed
      <3> QED
        BY <3>1, Used, Sizes
    <2>3. Cardinality(UsedChannels) \in 0..2 /\ Cardinality(UsedChannels') \in 0..2
      BY <2>2, Used, Sizes
    <2>4. \A f : SameFormat(f) => SameFormat(f)'
      BY <2>1 DEF SameFormat
    <2>5. ShapeOK'
      BY <1>1, <1>2, <2>1, <2>2, <2>4 DEF ShapeOK, Running
    <2>6. SetupOK'
      <3>1. Cardinality(UsedChannels') <= streamSize'
        BY <1>3, <2>1, <2>2, <2>3 DEF SetupOK, TypeInv
      <3> QED
        BY <1>1, <2>4, <3>1 DEF SetupOK
    <2> QED
      BY <1>1, <2>1, <2>5, <2>6 DEF LoopShapeOK, loops
  <1>6. CASE FinishSetup
    <2> DEFINE s == call.stream
    <2>1. /\ call.stage = <<"setup">> /\ call.op = "setup" /\ ~Idle
          /\ streamSize' = SizeWith(s)
          /\ call.wasRunning => call.format = dataLinkFormat
          /\ \A r \in Streams :
                /\ used'[r] <=> (r = s \/ used[r])
                /\ linkFormat'[r] = IF r = s THEN call.format ELSE linkFormat[r]
                /\ fifo'[r] = IF r = s THEN InPacket(call.format) ELSE fifo[r]
      <3>1. call.stage = <<"setup">> /\ call.op = "setup" /\ ~Idle
        BY <1>6, FirstSteps DEF FinishSetup, Idle, Basis, CallOK
      <3> QED
        BY <1>3, <1>6, <3>1 DEF FinishSetup, TypeInv
    <2>2. call.format \in Formats /\ SameFormat(call.format)
      BY <1>3, <2>1 DEF TypeInv, SetupOK
    <2>3. \A r \in Streams : used'[r] => linkFormat'[r] = call.format
      BY <2>1, <2>2 DEF SameFormat
    <2>4. UsedChannels' = UsedChannels \cup {s[2]}
      <3>1. s[1] \in Directions /\ s[2] \in Channels /\ s = <<s[1], s[2]>>
        BY <1>3, Places
      <3> HIDE DEF s
      <3>2. ASSUME NEW c \in Channels
            PROVE  ChannelUsed(c)' <=> ChannelUsed(c) \/ c = s[2]
        <4>1. \A d \in Directions : used'[<<d, c>>] <=> (<<d, c>> = s \/ used[<<d, c>>])
          BY <2>1, Places
        <4>2. \A d \in Directions : <<d, c>> = s => c = s[2]
          BY <3>1, Places
        <4> QED
          BY <3>1, <4>1, <4>2 DEF ChannelUsed
      <3> QED
        BY <3>1, <3>2 DEF UsedChannels
    <2>5. streamSize' = Cardinality(UsedChannels')
      BY <2>1, <2>4 DEF SizeWith
    <2>6. ASSUME Running'
          PROVE  /\ Running /\ UsedChannels' = UsedChannels /\ streamSize = 1 /\ streamSize' = 1
                 /\ call.format = dataLinkFormat
      <3>1. Running
        BY <1>2, <2>6 DEF Running
      <3>2. call.wasRunning /\ ChannelUsed(s[2]) /\ streamSize = 1
        BY <2>1, <3>1 DEF SetupOK
      <3>3. s[2] \in UsedChannels /\ UsedChannels' = UsedChannels
        BY <1>3, <2>4, <3>2, Places DEF UsedChannels
      <3>4. Cardinality(UsedChannels) \in {1, 2} /\ Cardinality(UsedChannels) <= 1
        BY <3>2, <3>3, Used, Sizes DEF SetupOK
      <3> QED
        BY <2>1, <2>5, <3>1, <3>2, <3>3, <3>4
    <2>7. ShapeOK'
      <3> SUFFICES ASSUME Running' PROVE ShapeOK'
        BY DEF ShapeOK
      <3>1. InPacket(call.format) \div 1 = InPacket(call.format)
        BY <2>2 DEF Formats, InPacket
      <3>2. \A r \in Streams : used'[r] => fifo'[r] = InPacket(dataLinkFormat) \div streamSize'
        BY <2>1, <2>6, <3>1 DEF ShapeOK
      <3> QED
        BY <1>1, <2>3, <2>6, <3>2 DEF ShapeOK, SameFormat
    <2>8. LoopShapeOK'
      <3> SUFFICES ASSUME NEW d \in Directions, loop'[d].at \notin {"none", "new"}
                   PROVE  /\ chCount'[d] = streamSize'
                          /\ batch'[d] = InPacket(dataLinkFormat') \div streamSize'
        BY DEF LoopShapeOK
      <3>1. Running'
        BY DEF Running, Joinable
      <3> QED
        BY <1>1, <2>6, <3>1 DEF LoopShapeOK, loops
    <2>9. SetupOK'
      <3>1. UsedChannels' \in SUBSET Channels
        BY DEF UsedChannels
      <3>2. Cardinality(UsedChannels') <= streamSize'
        BY <2>5, <3>1, Sizes
      <3> QED
        BY <1>1, <2>2, <2>3, <3>2 DEF SetupOK, SameFormat
    <2> QED
      BY <2>7, <2>8, <2>9
  <1> QED
    BY <1>4, <1>5, <1>6

\* A step of UpdateThreads but for the configuration changes no shape.
LEMMA StopShapes ==
    ASSUME Basis, ShapeOK, LoopShapeOK, SetupOK,
           (\E d \in Directions : Terminate(d) \/ Join(d)) \/ Spawn
    PROVE  ShapeOK' /\ LoopShapeOK' /\ SetupOK'
  <1>1. TypeInv
    BY DEF Basis
  <1>2. ASSUME NEW d \in Directions, Terminate(d) \/ Join(d)
        PROVE  ShapeOK' /\ LoopShapeOK' /\ SetupOK'
    <2>1. /\ UNCHANGED <<used, linkFormat, fifo, streamSize, dataLinkFormat, fpga>>
          /\ call.stage \in Updating
          /\ \E stage \in {<<"join", d>>, AfterStop(d)} : GoTo(stage)
          /\ \A e \in Directions : loop'[e].at # "none" =>
                /\ loop[e].at = loop'[e].at
                /\ chCount'[e] = chCount[e] /\ batch'[e] = batch[e]
      <3>1. call.stage \in Updating
        BY <1>2, StepOrder DEF Terminate, Join
      <3>2. CASE Terminate(d)
        BY <3>1, <3>2 DEF Terminate, channels, loops
      <3>3. CASE Join(d)
        <4>1. /\ UNCHANGED <<used, linkFormat, fifo, streamSize, dataLinkFormat, fpga>>
              /\ GoTo(AfterStop(d))
              /\ loop'[d].at = "none"
              /\ \A e \in Directions : e # d => /\ loop'[e] = loop[e]
                                                /\ chCount'[e] = chCount[e]
                                                /\ batch'[e] = batch[e]
          BY <1>1, <3>3 DEF Join, channels, TypeInv
        <4> QED
          BY <3>1, <4>1
      <3> QED
        BY <1>2, <3>2, <3>3
    <2>2. /\ call'.op = call.op /\ call'.needs = call.needs /\ call'.format = call.format
          /\ call'.stream = call.stream /\ call'.wasRunning = call.wasRunning
          /\ call'.stage = <<"join", d>> \/ call'.stage = AfterStop(d)
      BY <1>1, <2>1 DEF GoTo, TypeInv
    <2>3. call'.stage # <<"setup">> /\ call'.stage # <<"spawn">> /\ ~Idle
      BY <2>1, <2>2, StepOrder, StagesDiffer, FirstSteps DEF AfterStop, Idle
    <2>4. Running' => Running
      BY <2>1, <2>3 DEF Running, Joinable
    <2>5. ShapeOK'
      BY <2>1, <2>4, SameShape
    <2>6. LoopShapeOK'
      BY <2>1 DEF LoopShapeOK
    <2>7. SetupOK'
      BY <2>1, <2>2, <2>3, <2>4, SetupKept, SameUsed DEF SetupOK
    <2> QED
      BY <2>5, <2>6, <2>7
  <1>3. CASE Spawn
    <2>1. /\ UNCHANGED <<used, linkFormat, fifo, streamSize, dataLinkFormat, fpga, chCount, batch>>
          /\ \A e \in Directions :
                \/ loop'[e] = loop[e]
                \/ loop'[e].at = "new" /\ e \in call.needs
      BY <1>3 DEF Spawn, channels
    <2>2. /\ call.stage = <<"spawn">> /\ call.stage \in Updating /\ call'.stage # <<"spawn">>
          /\ call'.stage \notin Updating /\ ~Idle
      BY <1>3, AfterSpawn, StepOrder, FirstSteps, StagesDiffer DEF Idle, Updating
    <2>3. Running' => Running
      BY <2>1, <2>2 DEF Running, Joinable
    <2>4. call.op = "setup" => ~Running
      <3> SUFFICES ASSUME call.op = "setup", NEW d \in Directions, Joinable(d) PROVE FALSE
        BY <1>3, AfterSpawn DEF Running
      <3>1. call.needs = {} /\ <<"spawn">> \notin Ahead(d)
        BY <1>3, AfterSpawn, StepOrder
      <3> QED
        BY <2>2, <3>1 DEF Basis, ThreadsOK, LoopOK
    <2>5. ShapeOK'
      BY <2>1, <2>3, SameShape
    <2>6. LoopShapeOK'
      BY <2>1 DEF LoopShapeOK
    <2>7. ASSUME ~Idle', call'.op = "setup"
          PROVE  /\ call.op = "setup" /\ ~Running'
                 /\ call'.wasRunning = call.wasRunning /\ call'.format = call.format
      BY <1>3, <2>3, <2>4, <2>7, AfterSpawn DEF Idle
    <2>8. SetupOK'
      BY <2>1, <2>2, <2>7, SetupKept, SameUsed DEF SetupOK
    <2> QED
      BY <2>5, <2>6, <2>8
  <1> QED
    BY <1>2, <1>3

LEMMA ConfigureShapes ==
    ASSUME Basis, ShapeOK, LoopShapeOK, SetupOK, Configure \/ LeaveConfigured
    PROVE  ShapeOK' /\ LoopShapeOK' /\ SetupOK'
  <1>1. TypeInv
    BY DEF Basis
  <1>2. /\ call.stage = <<"configure">> /\ call.stage \in Updating /\ GoTo(<<"spawn">>)
        /\ UNCHANGED <<used, linkFormat, streamSize, loops>>
    BY DEF Configure, LeaveConfigured, Updating, channels
  <1>3. /\ call'.op = call.op /\ call'.needs = call.needs /\ call'.format = call.format
        /\ call'.stream = call.stream /\ call'.wasRunning = call.wasRunning
        /\ call'.stage = <<"spawn">>
    BY <1>1, <1>2 DEF GoTo, TypeInv
  <1>4. ~Idle /\ call'.stage # <<"setup">> /\ call.stage # <<"spawn">>
    BY <1>2, <1>3, StagesDiffer, FirstSteps DEF Idle
  <1>5. ASSUME NEW d \in Directions, Joinable(d)
        PROVE  d \in call.needs
    BY <1>2, <1>5, StepOrder DEF Basis, ThreadsOK, LoopOK
  <1>6. call.op = "setup" => call.needs = {}
    BY <1>2 DEF Basis, CallOK
  <1>7. CASE LeaveConfigured
    <2>1. UNCHANGED <<fifo, dataLinkFormat>> /\ fpga' = [fpga EXCEPT !.streaming = @ /\ call.needs # {}]
      BY <1>7 DEF LeaveConfigured, channels
    <2>2. Running' => Running /\ call.needs # {}
      BY <1>2, <1>3, <1>5, <1>7 DEF Running, Joinable, loops, LeaveConfigured, NothingRuns
    <2>3. Running' => fpga' = fpga
      BY <1>1, <2>1, <2>2 DEF TypeInv, ShapeOK
    <2>4. ShapeOK'
      BY <1>2, <2>1, <2>2, <2>3, SameShape DEF ShapeOK
    <2>5. SetupOK'
      BY <1>2, <1>3, <1>4, <1>6, <2>1, <2>2, SetupKept, SameUsed DEF SetupOK
    <2> QED
      BY <1>2, <2>1, <2>4, <2>5 DEF LoopShapeOK, loops
  <1>8. CASE Configure
    <2>1. /\ call.needs # {} /\ \A d \in Directions : loop[d].at = "none"
          /\ dataLinkFormat' = LinkFormat
          /\ fpga' = [streaming |-> TRUE, channels |-> UsedChannels, format |-> LinkFormat]
          /\ \A s \in Streams : used[s] => fifo'[s] = InPacket(LinkFormat) \div streamSize
      BY <1>8 DEF Configure, NothingRuns, Joinable, ResizeChannelBuffers
    <2>2. SameFormat(LinkFormat)
      <3>1. PICK f \in Formats : SameFormat(f)
        BY DEF SetupOK
      <3>2. CASE SomeI16
        BY <1>1, <3>1, <3>2 DEF SomeI16, LinkFormat, SameFormat, Formats, TypeInv
      <3>3. CASE ~SomeI16
        BY <3>3 DEF SomeI16, LinkFormat, SameFormat
      <3> QED
        BY <3>2, <3>3
    <2>3. streamSize = Cardinality(UsedChannels)
      BY <1>2, <2>1 DEF SetupOK
    <2>4. UsedChannels' = UsedChannels /\ \A f : SameFormat(f)' = SameFormat(f)
      BY <1>2, SameUsed
    <2>5. ShapeOK'
      BY <1>2, <2>1, <2>2, <2>3, <2>4 DEF ShapeOK
    <2>6. LoopShapeOK'
      BY <1>2, <2>1 DEF LoopShapeOK, loops
    <2>7. call'.op # "setup"
      BY <1>3, <1>6, <2>1
    <2>8. SetupOK'
      BY <1>2, <1>3, <2>3, <2>4, <2>7, SetupKept DEF SetupOK
    <2> QED
      BY <2>5, <2>6, <2>8
  <1> QED
    BY <1>7, <1>8

LEMMA LoopShapes ==
    ASSUME Basis, ShapeOK, LoopShapeOK, SetupOK, NEW d \in Directions, LoopStep(d)
    PROVE  ShapeOK' /\ LoopShapeOK' /\ SetupOK'
  <1>1. /\ TypeInv
        /\ UNCHANGED <<used, linkFormat, fifo, streamSize, dataLinkFormat, fpga, call>>
        /\ \A e \in Directions : Joinable(e)' = Joinable(e)
        /\ \A e \in Directions : e # d => /\ loop'[e] = loop[e]
                                          /\ chCount'[e] = chCount[e] /\ batch'[e] = batch[e]
    BY LoopsMove DEF Basis, channels
  <1>2. Running' <=> Running
    BY <1>1 DEF Running
  <1>3. ShapeOK'
    BY <1>1, <1>2, SameShape
  <1>4. SetupOK'
    BY <1>1, <1>2, SetupKept, SameUsed DEF SetupOK, Idle
  <1>5. \/ chCount'[d] = streamSize /\ batch'[d] = InPacket(dataLinkFormat) \div streamSize
        \/ /\ chCount'[d] = chCount[d] /\ batch'[d] = batch[d]
           /\ loop[d].at \notin {"none", "new"}
    BY <1>1 DEF LoopStep, LoopBegins, LoopTop, LoopChecks, LoopUsesFifo, TypeInv
  <1>6. LoopShapeOK'
    BY <1>1, <1>5 DEF LoopShapeOK
  <1> QED
    BY <1>3, <1>4, <1>6

\* A loop that uses a FIFO, the FPGA, the stream and the FIFO agree on what a packet is,
\* when the application keeps the discipline of the examples.
THEOREM ShapesAgree == Liberties = {} => (Spec => []PacketShapesAgree)
  <1> SUFFICES ASSUME Liberties = {} PROVE Spec => []PacketShapesAgree
    OBVIOUS
  <1>1. Init => IInv
    BY InitBasis, InitFifo, InitShapes DEF IInv
  <1>2. IInv /\ [Next]_vars => IInv'
    <2> SUFFICES ASSUME IInv, [Next]_vars PROVE IInv'
      OBVIOUS
    <2>1. Basis' /\ FifoOK'
      BY NextBasis, NextFifo DEF IInv
    <2>2. CASE UNCHANGED vars
      <3>1. UNCHANGED <<used, linkFormat, fifo, streamSize, dataLinkFormat, fpga, loop, chCount,
                        batch, call>>
        BY <2>2 DEF vars, channels, loops
      <3>2. Running' <=> Running
        BY <3>1 DEF Running, Joinable
      <3> QED
        BY <2>1, <3>1, <3>2, SameShape, SetupKept, SameUsed DEF IInv, LoopShapeOK, SetupOK, Idle
    <2> QED
      BY <2>1, <2>2, CallShapes, EndShapes, StopShapes, ConfigureShapes, LoopShapes
      DEF IInv, Next, CallStep
  <1>3. IInv => PacketShapesAgree
    <2> SUFFICES ASSUME IInv, NEW d \in Directions, loop[d].at = "use"
                 PROVE  LET s == <<d, loop[d].ch>>
                        IN  /\ fpga.streaming
                            /\ loop[d].ch \in fpga.channels
                            /\ chCount[d] = Cardinality(fpga.channels)
                            /\ linkFormat[s] = fpga.format
                            /\ d = "Tx" => fifo[s] = batch[d]
      BY DEF PacketShapesAgree
    <2>1. /\ <<d, loop[d].ch>> \in Streams /\ loop[d].ch \in Channels
          /\ used[<<d, loop[d].ch>>] /\ Running
      BY Places DEF IInv, Basis, TypeInv, FifoOK, Running, Joinable
    <2>2. loop[d].ch \in UsedChannels
      BY <2>1 DEF UsedChannels, ChannelUsed
    <2> QED
      BY <2>1, <2>2 DEF IInv, ShapeOK, LoopShapeOK, SameFormat
  <1> QED
    BY <1>1, <1>2, <1>3, PTL DEF Spec
=============================================================================
