------------------------------ MODULE RingFIFO ------------------------------
(***************************************************************************)
(* lime::RingFIFO (src/src/protocols/fifo.h): the sample buffer between a  *)
(* stream's worker thread and the application.  One mutex guards every     *)
(* field, one condition variable announces both "there are packets" and    *)
(* "there is space", and it is only ever notified with notify_one.         *)
(*                                                                         *)
(* A receive stream is push_packet (ReceivePacketsLoop) against            *)
(* pop_samples (StreamChannel::Read); a transmit stream is push_samples    *)
(* (StreamChannel::Write) against pop_packet (TransmitPacketsLoop).        *)
(*                                                                         *)
(* A sample is the time it belongs to, a natural number: that both names   *)
(* the sample and says which timestamp it must be delivered under.  A      *)
(* packet is [timestamp, flags, data]; the code's `last' is Len(data).     *)
(* The lock is held from one step of a call to the next; it is given up    *)
(* where the code unlocks or waits.                                        *)
(***************************************************************************)
EXTENDS Integers, Sequences, FiniteSets

CONSTANTS PktPushers,     \* threads that call push_packet  (receive loop)
          SamplePushers,  \* threads that call push_samples (StreamChannel::Write)
          SamplePoppers,  \* threads that call pop_samples  (StreamChannel::Read)
          PktPoppers,     \* threads that call pop_packet   (transmit loop)
          Free,           \* the value of lock when no thread holds it
          InitPktSize, InitBufSize,  \* what StreamChannel::Setup passes to Resize
          PktSizes,       \* the packet sizes a later Resize may ask for
          CommonSize,     \* a common multiple of PktSizes: 4080 for the code's
                          \* 1360, 680, 1020 and 510
          Counts,         \* the lengths of the buffers the application submits
          Gaps,           \* jumps of the time between two submissions, in packets
          FlagSets,       \* the flags a Write may carry
          MaxTime,        \* bound: no sample is produced at or after this time
          MaxCounter,     \* bound: no pop begins once this many underruns count
          QuietResize     \* TRUE: Resize is called with no other call in flight

Threads == PktPushers \cup SamplePushers \cup SamplePoppers \cup PktPoppers
Poppers == SamplePoppers \cup PktPoppers

\* The two directions never share a FIFO: Streamer keeps one per channel and
\* direction.
ASSUME ThreadsAssumption ==
    /\ Free \notin Threads
    /\ PktPushers \cap SamplePoppers = {}
    /\ SamplePushers \cap PktPoppers = {}
    /\ \/ SamplePushers \cup PktPoppers = {}
       \/ PktPushers \cup SamplePoppers = {}

ASSUME SizesAssumption ==
    /\ InitPktSize \in Nat \ {0}
    /\ InitBufSize \in Nat \ {0}
    /\ PktSizes \subseteq Nat \ {0}
    /\ CommonSize \in Nat \ {0}
    /\ Counts \subseteq Nat \ {0}
    /\ Gaps \subseteq Nat
    /\ FlagSets \subseteq SUBSET {"SYNC_TIMESTAMP", "END_BURST"}
    /\ MaxTime \in Nat
    /\ MaxCounter \in Nat
    /\ QuietResize \in BOOLEAN

\* Setup allocates four packets of 1020 or 1360 samples at least, so whatever
\* sizes follow, rounding never leaves the FIFO without a slot.
ASSUME CapacityAssumption ==
    /\ InitPktSize * InitBufSize >= CommonSize
    /\ \A p \in PktSizes : \E k \in 1..CommonSize : CommonSize = k * p

VARIABLES mBuffer,          \* the slots: a function on 0 .. mBufferSize - 1
          mPktSize,         \* samples in a slot
          mBufferSize,      \* number of slots
          mHead, mTail,     \* next slot to pop, next slot to fill
          mFirst,           \* samples of the head slot already popped
          mLast,            \* samples already in the slot being filled
          mElementsFilled,  \* complete packets in the ring
          mOverflow, mUnderflow,
          lock,             \* the thread that holds the mutex, or Free
          pc,               \* where each thread stands in its call
          req,              \* the call's arguments and its result so far
          resizing,         \* packet size of the Resize under way, 0 when none
          clock             \* time of the next sample to be produced

ring == <<mBuffer, mPktSize, mBufferSize, mHead, mTail, mFirst, mLast,
          mElementsFilled>>
counters == <<mOverflow, mUnderflow>>
vars == <<ring, counters, lock, pc, req, resizing, clock>>

PC == {"idle", "run", "wait", "woken", "expired", "notify"}

Packet == [timestamp : Int, flags : SUBSET {"SYNC_TIMESTAMP", "END_BURST"},
           data : Seq(Nat)]

EmptySlot == [timestamp |-> 0, flags |-> {}, data |-> <<>>]

\* A call in progress: `done' counts the samples a push has taken; `data' is
\* what a push submits and what a pop has collected; `count' is what a pop
\* wants; `patient' says that the time-out has not run out yet.
Requests == [timestamp : Int, flags : SUBSET {"SYNC_TIMESTAMP", "END_BURST"},
             data : Seq(Nat), done : Nat, count : Nat, patient : BOOLEAN]

Request(ts, flags, data, count, patient) ==
    [timestamp |-> ts, flags |-> flags, data |-> data, done |-> 0,
     count |-> count, patient |-> patient]

NoCall == Request(0, {}, <<>>, 0, TRUE)

\* Nothing reads what a popped or cleared slot still holds, and the model
\* forgets it: a slot outside the ring is empty.
Vacate(i) == [mBuffer EXCEPT ![i] = EmptySlot]
Vacant(size) == [i \in 0..(size - 1) |-> EmptySlot]

Samples(from, n) == [i \in 1..n |-> from + i - 1]

-----------------------------------------------------------------------------
Init == /\ mPktSize = InitPktSize
        /\ mBufferSize = InitBufSize
        /\ mBuffer = Vacant(InitBufSize)
        /\ mHead = 0 /\ mTail = 0
        /\ mFirst = 0 /\ mLast = 0
        /\ mElementsFilled = 0
        /\ mOverflow = 0 /\ mUnderflow = 0
        /\ lock = Free
        /\ pc = [t \in Threads |-> "idle"]
        /\ req = [t \in Threads |-> NoCall]
        /\ resizing = 0
        /\ clock = 0

-----------------------------------------------------------------------------
\* Entering and leaving a call.

Idle == \A t \in Threads : pc[t] = "idle"

MayCall(t) == pc[t] = "idle" /\ (QuietResize => resizing = 0)

Call(t, r) == /\ pc' = [pc EXCEPT ![t] = "run"]
              /\ req' = [req EXCEPT ![t] = r]
              /\ UNCHANGED <<ring, counters, lock, resizing>>

\* t is inside its call and has, or can take, the lock.
Running(t) == pc[t] \in {"run", "woken", "expired"} /\ lock \in {Free, t}

\* lck.unlock(); the notify_one that follows is a step of its own.
UnlockThenNotify(t) == /\ lock' = Free
                       /\ pc' = [pc EXCEPT ![t] = "notify"]

\* The early returns, which notify nobody.
Leave(t) == /\ lock' = Free
            /\ pc' = [pc EXCEPT ![t] = "idle"]
            /\ req' = [req EXCEPT ![t] = NoCall]

\* hasItems.wait_for(lck, ...): gives the lock up and blocks.
WaitFor(t) == /\ lock' = Free
              /\ pc' = [pc EXCEPT ![t] = "wait"]
              /\ UNCHANGED <<ring, counters, req, resizing, clock>>

\* The loop goes round with the lock held; a deadline once passed stays passed.
KeepLock(t) == /\ lock' = t
               /\ pc' = [pc EXCEPT ![t] = IF @ = "expired" THEN @ ELSE "run"]

\* hasItems.notify_one() after the unlock: wakes one waiting thread, whichever.
NotifyOne(t) ==
    LET waiting == {w \in Threads : pc[w] = "wait"}
    IN  /\ pc[t] = "notify"
        /\ \/ /\ waiting = {}
              /\ pc' = [pc EXCEPT ![t] = "idle"]
           \/ \E w \in waiting :
                 pc' = [pc EXCEPT ![t] = "idle", ![w] = "woken"]
        /\ req' = [req EXCEPT ![t] = NoCall]
        /\ UNCHANGED <<ring, counters, lock, resizing, clock>>

\* Mutant: the transmit loop's wait has no time-out.
ExpireApplicationOnly(t) ==
    /\ t \notin PktPoppers
    /\ pc[t] \in {"wait", "woken"}
    /\ pc' = [pc EXCEPT ![t] = "expired"]
    /\ UNCHANGED <<ring, counters, lock, req, resizing, clock>>

\* The deadline of a wait passes, even after a notify if the thread has not
\* got the lock back: wait_for reports the time-out by the clock.
Expire(t) == /\ pc[t] \in {"wait", "woken"}
             /\ pc' = [pc EXCEPT ![t] = "expired"]
             /\ UNCHANGED <<ring, counters, lock, req, resizing, clock>>

-----------------------------------------------------------------------------
\* push_packet: never waits; a full ring gives up its oldest packet.

\* Mutant: the index is not wrapped around.
Next1NoWrap(i) == i + 1

Next1(i) == (i + 1) % mBufferSize

\* The receive loop has parsed a packet; whole packets may have been lost on
\* the way.
PushPacketCall(t) ==
    /\ MayCall(t)
    /\ \E g \in Gaps :
          LET ts == clock + g * mPktSize
          IN  /\ ts + mPktSize <= MaxTime
              /\ clock' = ts + mPktSize
              /\ Call(t, Request(ts, {}, Samples(ts, mPktSize), 0, TRUE))

\* Mutant: the read position survives the packet it belongs to.
DropOldestKeepFirst == /\ mHead' = Next1(mHead)
                       /\ mElementsFilled' = mElementsFilled
                       /\ mOverflow' = mOverflow + 1
                       /\ UNCHANGED mFirst

\* The oldest packet makes room, with what is left of it if it was partly read.
DropOldest == /\ mHead' = Next1(mHead)
              /\ mFirst' = 0
              /\ mElementsFilled' = mElementsFilled   \* one less, one more
              /\ mOverflow' = mOverflow + 1

UseFreeSlot == /\ mElementsFilled' = mElementsFilled + 1
               /\ UNCHANGED <<mHead, mFirst, mOverflow>>

PushPacket(t) ==
    /\ Running(t)
    /\ IF mElementsFilled >= mBufferSize THEN DropOldest ELSE UseFreeSlot
    /\ mBuffer' = [mBuffer EXCEPT ![mTail] =
                      [timestamp |-> req[t].timestamp, flags |-> req[t].flags,
                       data |-> req[t].data]]
    /\ mTail' = Next1(mTail)
    /\ UnlockThenNotify(t)
    /\ UNCHANGED <<mPktSize, mBufferSize, mLast, mUnderflow, req, resizing, clock>>

-----------------------------------------------------------------------------
\* push_samples: cuts the submitted buffer into packets, waits while full.

\* The application's time moves on by what the FIFO accepts, and jumps only
\* where no sample is left over in the slot being filled.
PushSamplesCall(t) ==
    /\ MayCall(t)
    /\ \E n \in Counts, f \in FlagSets, p \in BOOLEAN, g \in Gaps :
          LET ts == clock + g * mPktSize
          IN  /\ g > 0 => mLast = 0
              /\ ts + n <= MaxTime
              /\ Call(t, Request(ts, f, Samples(ts, n), 0, p))
    /\ UNCHANGED clock

\* elapsed < timeout_ms
InTime(t) == pc[t] # "expired" /\ req[t].patient

\* Mutants: any flag closes the packet; the samples left in the slot keep no
\* time of their own.
CompleteOnAnyFlag(last, flags) == last = mPktSize \/ flags # {}

SlotTimestampIgnoresRest(r) == r.timestamp + r.done

\* The open slot's packet is complete: tail advances.
Complete(last, flags) == last = mPktSize \/ "END_BURST" \in flags

\* The slot is stamped with the time of its first sample, which an earlier
\* Write may have left there.
SlotTimestamp(r) == r.timestamp + r.done - mLast

\* The samples left in the slot, then the next cnt of the buffer.
SlotData(r, cnt) == SubSeq(mBuffer[mTail].data, 1, mLast)
                       \o SubSeq(r.data, r.done + 1, r.done + cnt)

\* One pass of the loop with room in the ring: fills the open slot.
PushChunk(t) ==
    LET r == req[t]
        rest == Len(r.data) - r.done
        room == mPktSize - mLast
        cnt == IF rest > room THEN room ELSE rest
        flags == IF rest > room THEN r.flags \cap {"SYNC_TIMESTAMP"} ELSE r.flags
        slot == [timestamp |-> SlotTimestamp(r), flags |-> flags,
                 data |-> SlotData(r, cnt)]
        complete == Complete(mLast + cnt, flags)
    IN  /\ Running(t)
        /\ mElementsFilled < mBufferSize
        /\ mBuffer' = [mBuffer EXCEPT ![mTail] = slot]
        /\ mTail' = IF complete THEN Next1(mTail) ELSE mTail
        /\ mElementsFilled' = IF complete THEN mElementsFilled + 1
                                          ELSE mElementsFilled
        /\ mLast' = IF complete THEN 0 ELSE mLast + cnt
        /\ req' = [req EXCEPT ![t].done = r.done + cnt]
        /\ clock' = r.timestamp + r.done + cnt
        /\ IF r.done + cnt < Len(r.data) THEN KeepLock(t) ELSE UnlockThenNotify(t)
        /\ UNCHANGED <<mPktSize, mBufferSize, mHead, mFirst, counters, resizing>>

PushWait(t) == /\ Running(t)
               /\ mElementsFilled >= mBufferSize
               /\ InTime(t)
               /\ WaitFor(t)

\* The ring is full and the time is up: return what was taken so far.
PushTimeout(t) == /\ Running(t)
                  /\ mElementsFilled >= mBufferSize
                  /\ ~InTime(t)
                  /\ Leave(t)
                  /\ UNCHANGED <<ring, counters, resizing, clock>>

-----------------------------------------------------------------------------
\* Popping: both calls wait while the ring is empty and give up on a time-out
\* without looking at the ring again.

PopSamplesCall(t) ==
    /\ MayCall(t)
    /\ mUnderflow < MaxCounter
    /\ \E n \in Counts, p \in BOOLEAN :
          Call(t, Request(0, {}, <<>>, n, p))
    /\ UNCHANGED clock

PopPacketCall(t) ==
    /\ MayCall(t)
    /\ mUnderflow < MaxCounter
    /\ Call(t, NoCall)
    /\ UNCHANGED clock

PopWait(t) == /\ Running(t)
              /\ pc[t] # "expired"
              /\ mElementsFilled = 0
              /\ req[t].patient
              /\ WaitFor(t)

PopTimeout(t) == /\ Running(t)
                 /\ \/ pc[t] = "expired"
                    \/ mElementsFilled = 0 /\ ~req[t].patient
                 /\ mUnderflow' = mUnderflow + 1
                 /\ Leave(t)
                 /\ UNCHANGED <<ring, mOverflow, resizing, clock>>

\* Mutant: the read position inside the packet is left out.
FirstTimestampOfPacket == mBuffer[mHead].timestamp

\* The time of the next sample to be popped.
FirstTimestamp == mBuffer[mHead].timestamp + mFirst

\* One pass of the inner loop of pop_samples.
PopChunk(t) ==
    LET r == req[t]
        head == mBuffer[mHead]
        want == r.count - Len(r.data)
        cntbuf == Len(head.data) - mFirst
        cnt == IF want > cntbuf THEN cntbuf ELSE want
    IN  /\ Running(t)
        /\ pc[t] # "expired"
        /\ mElementsFilled > 0
        /\ req' = [req EXCEPT ![t] =
                     Request(IF r.data = <<>> THEN FirstTimestamp ELSE r.timestamp, {},
                             r.data \o SubSeq(head.data, mFirst + 1, mFirst + cnt),
                             r.count, r.patient)]
        /\ mBuffer' = IF cnt = cntbuf THEN Vacate(mHead) ELSE mBuffer
        /\ mHead' = IF cnt = cntbuf THEN Next1(mHead) ELSE mHead
        /\ mFirst' = IF cnt = cntbuf THEN 0 ELSE mFirst + cnt
        /\ mElementsFilled' = IF cnt = cntbuf THEN mElementsFilled - 1
                                              ELSE mElementsFilled
        /\ IF cnt < want THEN KeepLock(t) ELSE UnlockThenNotify(t)
        /\ UNCHANGED <<mPktSize, mBufferSize, mTail, mLast, counters, resizing,
                       clock>>

PopPacket(t) ==
    /\ Running(t)
    /\ pc[t] # "expired"
    /\ mElementsFilled > 0
    /\ req' = [req EXCEPT ![t] =
                 Request(mBuffer[mHead].timestamp, mBuffer[mHead].flags,
                         mBuffer[mHead].data, 0, TRUE)]
    /\ mBuffer' = Vacate(mHead)
    /\ mHead' = Next1(mHead)
    /\ mElementsFilled' = mElementsFilled - 1
    /\ UnlockThenNotify(t)
    /\ UNCHANGED <<mPktSize, mBufferSize, mTail, mFirst, mLast,
                   counters, resizing, clock>>

-----------------------------------------------------------------------------
\* What the owner of the stream does: none of it waits or notifies.

GetInfo == /\ lock = Free
           /\ mOverflow' = 0
           /\ mUnderflow' = 0
           /\ UNCHANGED <<ring, lock, pc, req, resizing, clock>>

ClearFields == /\ mBuffer' = Vacant(mBufferSize)
               /\ mHead' = 0 /\ mTail' = 0
               /\ mFirst' = 0 /\ mLast' = 0
               /\ mElementsFilled' = 0
               /\ mOverflow' = 0 /\ mUnderflow' = 0

\* StreamChannel::Start empties the FIFO, whatever else is going on.
Clear == /\ lock = Free
         /\ resizing = 0
         /\ ClearFields
         /\ UNCHANGED <<mPktSize, mBufferSize, lock, pc, req, resizing, clock>>

\* Resize clears the fields under the lock, gives it up, and takes it again to
\* allocate the slots.
ResizeClear == /\ lock = Free
               /\ resizing = 0
               /\ QuietResize => Idle
               /\ resizing' \in PktSizes
               /\ ClearFields
               /\ UNCHANGED <<mPktSize, mBufferSize, lock, pc, req, clock>>

\* bufSize < 0: the new number of slots follows from the old capacity.  The
\* caller resets the hardware time next (UpdateThreads).
ResizeAllocate ==
    LET bufSize == (mPktSize * mBufferSize) \div resizing
    IN  /\ lock = Free
        /\ resizing # 0
        /\ mPktSize' = resizing
        /\ mBufferSize' = bufSize
        /\ mBuffer' = IF bufSize = mBufferSize /\ resizing = mPktSize
                      THEN mBuffer
                      ELSE Vacant(bufSize)
        /\ resizing' = 0
        /\ clock' = 0
        /\ UNCHANGED <<mHead, mTail, mFirst, mLast, mElementsFilled, counters,
                       lock, pc, req>>

-----------------------------------------------------------------------------
PushPacketStep(t) == PushPacket(t) \/ NotifyOne(t)
PushSamplesStep(t) == PushChunk(t) \/ PushWait(t) \/ PushTimeout(t) \/ NotifyOne(t)
PopSamplesStep(t) == PopChunk(t) \/ PopWait(t) \/ PopTimeout(t) \/ NotifyOne(t)
PopPacketStep(t) == PopPacket(t) \/ PopWait(t) \/ PopTimeout(t) \/ NotifyOne(t)

Next == \/ \E t \in PktPushers : PushPacketCall(t) \/ PushPacketStep(t)
        \/ \E t \in SamplePushers : PushSamplesCall(t) \/ PushSamplesStep(t)
        \/ \E t \in SamplePoppers : PopSamplesCall(t) \/ PopSamplesStep(t)
        \/ \E t \in PktPoppers : PopPacketCall(t) \/ PopPacketStep(t)
        \/ \E t \in Threads : Expire(t)
        \/ GetInfo
        \/ Clear
        \/ ResizeClear
        \/ ResizeAllocate

Spec == Init /\ [][Next]_vars

\* Every thread that can go on with its call does so, and deadlines pass.  The
\* mutex is not handed out in order, so a thread needs strong fairness to get it.
Fairness == /\ \A t \in PktPushers : SF_vars(PushPacketStep(t))
            /\ \A t \in SamplePushers : SF_vars(PushSamplesStep(t))
            /\ \A t \in SamplePoppers : SF_vars(PopSamplesStep(t))
            /\ \A t \in PktPoppers : SF_vars(PopPacketStep(t))
            /\ \A t \in Threads : WF_vars(Expire(t))
            /\ WF_vars(ResizeAllocate)

FairSpec == Spec /\ Fairness

-----------------------------------------------------------------------------
\* Properties.

\* Type invariant: every field, every call in flight.
TypeOK ==
    /\ mPktSize \in Nat \ {0}
    /\ mBufferSize \in Nat \ {0}
    /\ mBuffer \in [0..(mBufferSize - 1) -> Packet]
    /\ mHead \in 0..(mBufferSize - 1)
    /\ mTail \in 0..(mBufferSize - 1)
    /\ mFirst \in Nat
    /\ mLast \in Nat
    /\ mElementsFilled \in Nat
    /\ mOverflow \in Nat
    /\ mUnderflow \in Nat
    /\ lock \in Threads \cup {Free}
    /\ pc \in [Threads -> PC]
    /\ req \in [Threads -> Requests]
    /\ resizing \in Nat
    /\ clock \in Nat

\* The i-th packet of the ring, oldest first.
Nth(i) == mBuffer[(mHead + i - 1) % mBufferSize]

\* The tail follows from the head and the count, whatever order packets came
\* and went in, so no push writes into a slot that is still to be popped.
IndicesAgree ==
    /\ mElementsFilled <= mBufferSize
    /\ mTail = (mHead + mElementsFilled) % mBufferSize

\* The two partial positions stay inside their packets: pop_samples never
\* computes a negative count from last - mFirst, nor push_samples one from
\* mPktSize - mLast (both are ints that end in a memcpy size).
PositionsInBounds ==
    /\ mFirst > 0 => mElementsFilled > 0 /\ mFirst < Len(mBuffer[mHead].data)
    /\ mLast < mPktSize
    /\ mLast > 0 => mElementsFilled < mBufferSize /\ mLast = Len(mBuffer[mTail].data)

\* A packet shorter than mPktSize ends a burst.  TransmitPacketsLoop relies on
\* it: it throws a short packet without END_BURST away (Streamer.cpp:740).
ShortPacketsEndBursts ==
    \A i \in 1..mElementsFilled :
        /\ Len(Nth(i).data) \in 1..mPktSize
        /\ Len(Nth(i).data) < mPktSize => "END_BURST" \in Nth(i).flags

\* Everything a stream's indices and positions must satisfy at any time.
RingOK == IndicesAgree /\ PositionsInBounds /\ ShortPacketsEndBursts

\* Read reports the time of the first sample it returns, also when that sample
\* comes from the middle of a packet, or after a wait or an overflow.
ReadTimestampIsFirstSample ==
    \A t \in SamplePoppers :
        req[t].data # <<>> => req[t].timestamp = Head(req[t].data)

\* The application's count of what Write accepted is what is queued, wherever its
\* buffers were cut or a wait interrupted them: every packet carries the time its
\* first sample was submitted for and consecutive samples; packets follow one
\* another without a hole but for the jumps the application made; and the newest
\* sample, in the open slot or the last packet, is the one just before the time
\* the application goes on from.
AcceptedIsQueued ==
    LET End(i) == Nth(i).timestamp + Len(Nth(i).data)
        n == mElementsFilled
    IN  /\ \A i \in 1..n : Nth(i).data = Samples(Nth(i).timestamp, Len(Nth(i).data))
        /\ \A i \in 1..(n - 1) :
              \E g \in Gaps : Nth(i + 1).timestamp = End(i) + g * mPktSize
        /\ mLast > 0 => mBuffer[mTail].timestamp + mLast = clock
        /\ mLast = 0 /\ n > 0 => End(n) = clock

\* The ring, read as a queue of packets: what a reader has taken of the first
\* one is gone.
Contents ==
    [i \in 1..mElementsFilled |->
        IF i = 1 THEN [timestamp |-> FirstTimestamp,
                       flags |-> mBuffer[mHead].flags,
                       data |-> SubSeq(mBuffer[mHead].data, mFirst + 1,
                                       Len(mBuffer[mHead].data))]
                 ELSE Nth(i)]

OpenSamples == IF mLast = 0 THEN <<>> ELSE mBuffer[mTail].data

Queue == INSTANCE PacketQueue WITH
    queue <- Contents, open <- OpenSamples, pktSize <- mPktSize,
    capacity <- mBufferSize, InitCapacity <- InitBufSize

\* The indices, waits and partial positions implement the bounded queue: nothing
\* is lost, repeated or reordered but by an overflow, a Clear or a Resize.
ImplementsPacketQueue == Queue!Spec

\* Every call returns: no wait is forever, though wake-ups may go astray.
CallsReturn == \A t \in Threads : pc[t] = "run" ~> pc[t] = "idle"
=============================================================================
