-------------------------- MODULE RingFIFO_proofs ---------------------------
(***************************************************************************)
(* RingFIFO for every number of threads, every size of the ring and of its *)
(* packets, and every buffer the application submits, as long as nobody    *)
(* calls Resize with another call in flight: its invariants hold, it       *)
(* implements PacketQueue, a Read is stamped with its first sample's time  *)
(* and what a Write was told is accepted is queued.                        *)
(***************************************************************************)
EXTENDS RingFIFO, SequenceTheorems, TLAPS

-----------------------------------------------------------------------------
\* Arithmetic of the ring's indices.

\* The slot of the i-th packet when the head is h and there are n slots.
Slot(h, i, n) == (h + i - 1) % n

LEMMA SlotType ==
    ASSUME NEW n \in Nat \ {0}, NEW h \in 0..(n - 1), NEW i \in 1..(n + 1)
    PROVE  /\ Slot(h, i, n) \in 0..(n - 1)
           /\ Slot(h, i, n) = IF h + i - 1 < n THEN h + i - 1 ELSE h + i - 1 - n
  <1>1. h + i - 1 \in 0..(2 * n - 1)
    OBVIOUS
  <1> QED
    BY <1>1 DEF Slot

\* The slot behind the last of f packets holds none of them, and the slot
\* after it is behind f + 1 packets.
LEMMA TailSlot ==
    ASSUME NEW n \in Nat \ {0}, NEW h \in 0..(n - 1), NEW f \in 0..(n - 1)
    PROVE  /\ (Slot(h, f + 1, n) + 1) % n = Slot(h, f + 2, n)
           /\ \A i \in 1..f : Slot(h, i, n) # Slot(h, f + 1, n)
  <1>1. (h + f) % n = IF h + f < n THEN h + f ELSE h + f - n
    OBVIOUS
  <1>2. (((h + f) % n) + 1) % n = (h + (f + 1)) % n
    <2>1. CASE h + f < n
      BY <1>1, <2>1
    <2>2. CASE h + f >= n
      <3>1. h + f + 1 - n \in 0..(n - 1)
        BY <2>2
      <3>2. (h + f + 1 - n) % n = h + f + 1 - n
        BY <3>1
      <3>3. (h + (f + 1)) % n = h + f + 1 - n
        BY <2>2
      <3> QED
        BY <1>1, <2>2, <3>2, <3>3
    <2> QED
      BY <2>1, <2>2
  <1>3. ASSUME NEW i \in 1..f
        PROVE  Slot(h, i, n) # Slot(h, f + 1, n)
    <2>1. i \in 1..(n + 1) /\ f + 1 \in 1..(n + 1)
      OBVIOUS
    <2>2. /\ Slot(h, i, n) = IF h + i - 1 < n THEN h + i - 1 ELSE h + i - 1 - n
          /\ Slot(h, f + 1, n) = IF h + (f + 1) - 1 < n THEN h + (f + 1) - 1
                                 ELSE h + (f + 1) - 1 - n
      BY <2>1, SlotType
    <2> QED
      BY <2>2
  <1> QED
    BY <1>2, <1>3 DEF Slot

\* Moving the head on by one renumbers the packets.
LEMMA HeadSlot ==
    ASSUME NEW n \in Nat \ {0}, NEW h \in 0..(n - 1)
    PROVE  /\ (h + 1) % n \in 0..(n - 1)
           /\ Slot(h, 1, n) = h
           /\ Slot(h, n + 1, n) = h
           /\ \A i \in 1..n : Slot((h + 1) % n, i, n) = Slot(h, i + 1, n)
           /\ \A i \in 2..n : Slot(h, i, n) # h
  <1>1. (h + 1) % n = IF h + 1 < n THEN h + 1 ELSE 0
    <2>1. h + 1 \in 0..(2 * n - 1)
      OBVIOUS
    <2> QED
      BY <2>1
  <1>2. ASSUME NEW i \in 1..n
        PROVE  Slot((h + 1) % n, i, n) = Slot(h, i + 1, n)
    <2>1. /\ Slot((h + 1) % n, i, n) = IF ((h + 1) % n) + i - 1 < n THEN ((h + 1) % n) + i - 1
                                      ELSE ((h + 1) % n) + i - 1 - n
          /\ Slot(h, i + 1, n) = IF h + i < n THEN h + i ELSE h + i - n
      <3>1. (h + 1) % n \in 0..(n - 1) /\ i + 1 \in 1..(n + 1) /\ i \in 1..(n + 1)
        BY <1>1
      <3> QED
        BY <3>1, SlotType
    <2> QED
      BY <1>1, <2>1
  <1>3. ASSUME NEW i \in 2..n
        PROVE  Slot(h, i, n) # h
    <2>1. i \in 1..(n + 1)
      OBVIOUS
    <2>2. Slot(h, i, n) = IF h + i - 1 < n THEN h + i - 1 ELSE h + i - 1 - n
      BY <2>1, SlotType
    <2> QED
      BY <2>2
  <1>4. Slot(h, 1, n) = h /\ Slot(h, n + 1, n) = h
    BY SlotType
  <1> QED
    BY <1>1, <1>2, <1>3, <1>4

\* Rounding the capacity down to whole packets of p keeps a common multiple.
LEMMA CapacityKept ==
    ASSUME NEW p \in Nat \ {0}, NEW k \in Nat \ {0}, NEW c \in Nat, c >= k * p
    PROVE  c \div p \in Nat \ {0} /\ p * (c \div p) >= k * p
  <1> DEFINE q == c \div p
  <1>1. q \in Int /\ c % p \in 0..(p - 1) /\ c = p * q + (c % p)
    OBVIOUS
  <1>2. q >= k
    <2>1. SUFFICES ASSUME q < k PROVE FALSE
      BY <1>1
    <2>2. (q + 1) * p <= k * p
      BY <1>1, <2>1
    <2>3. c < (q + 1) * p
      BY <1>1
    <2> QED
      BY <1>1, <2>2, <2>3
  <1>3. p * q >= k * p
    BY <1>1, <1>2
  <1> QED
    BY <1>1, <1>2, <1>3

-----------------------------------------------------------------------------
\* The inductive invariant.

\* What a call in flight still has to do, which keeps every count positive.
CallsOK ==
    \A t \in Threads : pc[t] # "idle" =>
        /\ t \in PktPushers => Len(req[t].data) = mPktSize
        /\ t \in SamplePushers => req[t].timestamp \in Nat
        /\ t \in SamplePushers /\ pc[t] # "notify" => req[t].done < Len(req[t].data)
        /\ t \in SamplePoppers /\ pc[t] # "notify" => Len(req[t].data) < req[t].count

\* A receive FIFO has no half-filled slot, a transmit FIFO no half-read one.
DirectionsOK == /\ SamplePushers = {} => mLast = 0
                /\ SamplePoppers = {} => mFirst = 0

\* Between the two critical sections of Resize the ring is empty and unused.
ResizeOK == resizing # 0 => /\ resizing \in PktSizes
                            /\ Idle
                            /\ mHead = 0 /\ mTail = 0 /\ mFirst = 0 /\ mLast = 0
                            /\ mElementsFilled = 0

CapacityOK == mPktSize * mBufferSize >= CommonSize

IInv == /\ TypeOK
        /\ RingOK
        /\ CallsOK
        /\ DirectionsOK
        /\ ResizeOK
        /\ CapacityOK

LEMMA InitIInv == Init => IInv
  <1> SUFFICES ASSUME Init PROVE IInv
    OBVIOUS
  <1> USE SizesAssumption, CapacityAssumption, ThreadsAssumption
  <1>1. TypeOK
    <2>1. EmptySlot \in Packet
      BY DEF EmptySlot, Packet
    <2>2. mBuffer \in [0..(mBufferSize - 1) -> Packet]
      BY <2>1 DEF Init, Vacant
    <2> QED
      BY <2>2 DEF Init, TypeOK, PC, NoCall, Request, Requests
  <1>2. RingOK
    BY DEF Init, RingOK, IndicesAgree, PositionsInBounds, ShortPacketsEndBursts
  <1>3. CallsOK /\ DirectionsOK /\ ResizeOK /\ CapacityOK
    BY DEF Init, CallsOK, DirectionsOK, ResizeOK, CapacityOK, Idle
  <1> QED
    BY <1>1, <1>2, <1>3 DEF IInv

-----------------------------------------------------------------------------
\* Steps that leave the ring alone.

LEMMA RingUnchanged ==
    ASSUME IInv, UNCHANGED ring
    PROVE  RingOK' /\ DirectionsOK' /\ CapacityOK'
  BY DEF IInv, ring, RingOK, IndicesAgree, PositionsInBounds,
         ShortPacketsEndBursts, Nth, DirectionsOK, CapacityOK

\* A call begins with a request r that fits its kind.
LEMMA CallStep ==
    ASSUME IInv, QuietResize, NEW t \in Threads, MayCall(t),
           NEW r \in Requests,
           t \in PktPushers => Len(r.data) = mPktSize,
           t \in SamplePushers => r.timestamp \in Nat /\ r.done < Len(r.data),
           t \in SamplePoppers => Len(r.data) < r.count,
           Call(t, r), clock' \in Nat
    PROVE  IInv'
  <1>1. UNCHANGED ring
    BY DEF Call
  <1>2. TypeOK'
    BY DEF IInv, TypeOK, Call, ring, counters, PC
  <1>3. CallsOK'
    BY DEF IInv, TypeOK, CallsOK, Call, ring
  <1>4. ResizeOK'
    BY DEF IInv, ResizeOK, Call, MayCall, ring
  <1> QED
    BY <1>1, <1>2, <1>3, <1>4, RingUnchanged DEF IInv

LEMMA SamplesType ==
    ASSUME NEW from \in Nat, NEW n \in Nat
    PROVE  Samples(from, n) \in Seq(Nat) /\ Len(Samples(from, n)) = n
  BY DEF Samples

LEMMA NoCallType == NoCall \in Requests
  BY DEF NoCall, Request, Requests

\* Steps of a call that change only its own place in it.
LEMMA BookkeepingStep ==
    ASSUME IInv, QuietResize, NEW t \in Threads,
           \/ NotifyOne(t)
           \/ Expire(t)
           \/ PushWait(t) \/ PushTimeout(t)
           \/ PopWait(t) \/ PopTimeout(t)
    PROVE  IInv'
  <1> USE NoCallType
  <1>1. UNCHANGED ring
    BY DEF NotifyOne, Expire, PushWait, PushTimeout, PopWait, PopTimeout, WaitFor
  <1>2. TypeOK'
    <2>1. CASE NotifyOne(t)
      BY <2>1 DEF NotifyOne, IInv, TypeOK, ring, counters, PC
    <2>2. CASE Expire(t)
      BY <2>2 DEF Expire, IInv, TypeOK, ring, counters, PC
    <2>3. CASE PushWait(t) \/ PopWait(t)
      BY <2>3 DEF PushWait, PopWait, WaitFor, IInv, TypeOK, ring, counters, PC
    <2>4. CASE PushTimeout(t)
      BY <2>4 DEF PushTimeout, Leave, IInv, TypeOK, ring, counters, PC
    <2>5. CASE PopTimeout(t)
      <3>1. mUnderflow' \in Nat
        BY <2>5 DEF PopTimeout, IInv, TypeOK
      <3>2. lock' = Free /\ pc' \in [Threads -> PC]
        BY <2>5 DEF PopTimeout, Leave, IInv, TypeOK, PC
      <3> QED
        BY <2>5, <3>1, <3>2 DEF PopTimeout, Leave, IInv, TypeOK, ring
    <2> QED
      BY <2>1, <2>2, <2>3, <2>4, <2>5
  <1>3. CallsOK'
    <2>1. CASE NotifyOne(t)
      BY <2>1 DEF NotifyOne, IInv, TypeOK, CallsOK, ring
    <2>2. CASE Expire(t)
      BY <2>2 DEF Expire, IInv, TypeOK, CallsOK, ring
    <2>3. CASE PushWait(t) \/ PopWait(t)
      BY <2>3 DEF PushWait, PopWait, WaitFor, Running, IInv, TypeOK, CallsOK, ring
    <2>4. CASE PushTimeout(t) \/ PopTimeout(t)
      BY <2>4 DEF PushTimeout, PopTimeout, Leave, IInv, TypeOK, CallsOK, ring
    <2> QED
      BY <2>1, <2>2, <2>3, <2>4
  <1>4. ResizeOK'
    <2>1. pc[t] # "idle" /\ resizing' = resizing
      BY DEF NotifyOne, Expire, PushWait, PushTimeout, PopWait, PopTimeout,
             WaitFor, Running
    <2>2. resizing = 0
      BY <2>1 DEF IInv, ResizeOK, Idle
    <2> QED
      BY <2>1, <2>2 DEF ResizeOK
  <1> QED
    BY <1>1, <1>2, <1>3, <1>4, RingUnchanged DEF IInv

LEMMA CallsIInv ==
    ASSUME IInv, QuietResize, NEW t \in Threads,
           \/ t \in PktPushers /\ PushPacketCall(t)
           \/ t \in SamplePushers /\ PushSamplesCall(t)
           \/ t \in SamplePoppers /\ PopSamplesCall(t)
           \/ t \in PktPoppers /\ PopPacketCall(t)
    PROVE  IInv'
  <1> USE NoCallType, SizesAssumption, ThreadsAssumption
  <1>1. CASE t \in PktPushers /\ PushPacketCall(t)
    <2>1. t \notin SamplePushers /\ t \notin SamplePoppers
      BY <1>1
    <2>2. PICK g \in Gaps :
            LET ts == clock + g * mPktSize
            IN  /\ clock' = ts + mPktSize
                /\ Call(t, Request(ts, {}, Samples(ts, mPktSize), 0, TRUE))
      BY <1>1 DEF PushPacketCall
    <2> DEFINE ts == clock + g * mPktSize
    <2>3. ts \in Nat /\ mPktSize \in Nat
      <3>1. clock \in Nat /\ g \in Nat /\ mPktSize \in Nat
        BY DEF IInv, TypeOK
      <3> QED
        BY <3>1
    <2>4. Samples(ts, mPktSize) \in Seq(Nat) /\ Len(Samples(ts, mPktSize)) = mPktSize
      BY <2>3, SamplesType
    <2> DEFINE r == Request(ts, {}, Samples(ts, mPktSize), 0, TRUE)
    <2>5. r \in Requests /\ Len(r.data) = mPktSize
      BY <2>3, <2>4 DEF Request, Requests
    <2>6. Call(t, r)
      BY <2>2
    <2>7. clock' \in Nat
      <3>1. clock' = ts + mPktSize
        BY <2>2
      <3> HIDE DEF ts
      <3> QED
        BY <2>3, <3>1
    <2>8. MayCall(t)
      BY <1>1 DEF PushPacketCall
    <2> HIDE DEF r
    <2> QED
      BY <2>1, <2>5, <2>6, <2>7, <2>8, CallStep
  <1>2. CASE t \in SamplePushers /\ PushSamplesCall(t)
    <2>1. t \notin PktPushers /\ t \notin SamplePoppers
      BY <1>2
    <2>2. PICK n \in Counts, f \in FlagSets, p \in BOOLEAN, g \in Gaps :
            LET ts == clock + g * mPktSize
            IN  Call(t, Request(ts, f, Samples(ts, n), 0, p))
      BY <1>2 DEF PushSamplesCall
    <2> DEFINE ts == clock + g * mPktSize
    <2>3. ts \in Nat /\ n \in Nat \ {0} /\ clock' \in Nat
      <3>1. clock \in Nat /\ g \in Nat /\ mPktSize \in Nat
        BY DEF IInv, TypeOK
      <3>2. n \in Nat \ {0} /\ clock' = clock
        BY <1>2 DEF PushSamplesCall
      <3> QED
        BY <3>1, <3>2
    <2>4. Samples(ts, n) \in Seq(Nat) /\ Len(Samples(ts, n)) = n
      BY <2>3, SamplesType
    <2> DEFINE r == Request(ts, f, Samples(ts, n), 0, p)
    <2>5. r \in Requests /\ r.timestamp \in Nat /\ r.done < Len(r.data)
      BY <2>3, <2>4 DEF Request, Requests
    <2>6. MayCall(t) /\ Call(t, r)
      BY <1>2, <2>2 DEF PushSamplesCall
    <2> HIDE DEF r
    <2> QED
      BY <2>1, <2>3, <2>5, <2>6, CallStep
  <1>3. CASE t \in SamplePoppers /\ PopSamplesCall(t)
    <2>1. t \notin PktPushers /\ t \notin SamplePushers
      BY <1>3
    <2>2. PICK n \in Counts, p \in BOOLEAN :
            Call(t, Request(0, {}, <<>>, n, p))
      BY <1>3 DEF PopSamplesCall
    <2>3. n \in Nat \ {0} /\ clock' \in Nat
      BY <1>3 DEF IInv, TypeOK, PopSamplesCall
    <2> DEFINE r == Request(0, {}, <<>>, n, p)
    <2>4. r \in Requests /\ Len(r.data) < r.count
      BY <2>3 DEF Request, Requests
    <2>5. MayCall(t) /\ Call(t, r)
      BY <1>3, <2>2 DEF PopSamplesCall
    <2> HIDE DEF r
    <2> QED
      BY <2>1, <2>3, <2>4, <2>5, CallStep
  <1>4. CASE t \in PktPoppers /\ PopPacketCall(t)
    <2>1. t \notin PktPushers /\ t \notin SamplePushers /\ t \notin SamplePoppers
      BY <1>4
    <2> QED
      BY <1>4, <2>1, CallStep DEF PopPacketCall, IInv, TypeOK
  <1> QED
    BY <1>1, <1>2, <1>3, <1>4

-----------------------------------------------------------------------------
\* Steps that move packets.  IndexFacts is what they need of the old indices.

LEMMA IndexFacts ==
    ASSUME IInv
    PROVE  /\ mBufferSize \in Nat \ {0} /\ mPktSize \in Nat \ {0}
           /\ mHead \in 0..(mBufferSize - 1) /\ mTail \in 0..(mBufferSize - 1)
           /\ mElementsFilled \in 0..mBufferSize
           /\ mFirst \in Nat /\ mLast \in 0..(mPktSize - 1)
           /\ mBuffer \in [0..(mBufferSize - 1) -> Packet]
  BY DEF IInv, TypeOK, RingOK, IndicesAgree, PositionsInBounds

LEMMA TailFollows ==
    ASSUME IInv
    PROVE  mTail = (mHead + mElementsFilled) % mBufferSize
  BY DEF IInv, RingOK, IndicesAgree

\* A packet that may stand in the ring.
Good(p, size) == /\ Len(p.data) \in 1..size
                 /\ Len(p.data) < size => "END_BURST" \in p.flags

\* The ring's invariants in terms of its slots.
LEMMA Slots ==
    ASSUME IInv
    PROVE  /\ mTail = Slot(mHead, mElementsFilled + 1, mBufferSize)
           /\ \A i \in 1..mElementsFilled :
                 Good(mBuffer[Slot(mHead, i, mBufferSize)], mPktSize)
  <1>1. mTail = Slot(mHead, mElementsFilled + 1, mBufferSize)
    <2>1. /\ mHead \in Nat /\ mElementsFilled \in Nat
          /\ mTail = (mHead + mElementsFilled) % mBufferSize
      BY IndexFacts, TailFollows
    <2>2. mHead + (mElementsFilled + 1) - 1 = mHead + mElementsFilled
      BY <2>1
    <2> QED
      BY <2>1, <2>2 DEF Slot
  <1>2. ShortPacketsEndBursts
    BY DEF IInv, RingOK
  <1>3. ASSUME NEW i \in 1..mElementsFilled
        PROVE  Good(mBuffer[Slot(mHead, i, mBufferSize)], mPktSize)
    <2>1. Good(Nth(i), mPktSize)
      BY <1>2, <1>3, Zenon DEF ShortPacketsEndBursts, Good
    <2> QED
      BY <2>1, Zenon DEF Nth, Slot
  <1> QED
    BY <1>1, <1>3

LEMMA SlotsEnough ==
    ASSUME mBufferSize' \in Nat, mHead' \in Nat, mElementsFilled' \in 0..mBufferSize',
           mTail' = Slot(mHead', mElementsFilled' + 1, mBufferSize'),
           \A i \in 1..mElementsFilled' :
                 Good(mBuffer'[Slot(mHead', i, mBufferSize')], mPktSize')
    PROVE  IndicesAgree' /\ ShortPacketsEndBursts'
  BY DEF IndicesAgree, ShortPacketsEndBursts, Nth, Slot, Good

\* A packet p enters at the tail, with a free slot to take or at the oldest
\* packet's expense; or the open slot is written and stays open.
LEMMA EnterRing ==
    ASSUME IInv, NEW p \in Packet, mElementsFilled < mBufferSize,
           mBuffer' = [mBuffer EXCEPT ![mTail] = p],
           UNCHANGED <<mPktSize, mBufferSize, mHead>>
    PROVE  /\ mBuffer' \in [0..(mBufferSize - 1) -> Packet]
           /\ mBuffer'[mTail] = p
           /\ \A i \in 1..mElementsFilled :
                 mBuffer'[Slot(mHead, i, mBufferSize)] = mBuffer[Slot(mHead, i, mBufferSize)]
           /\ Next1(mTail) \in 0..(mBufferSize - 1)
           /\ Next1(mTail) = Slot(mHead, mElementsFilled + 2, mBufferSize)
           /\ mElementsFilled' = mElementsFilled /\ mTail' = mTail
                 => IndicesAgree' /\ ShortPacketsEndBursts'
           /\ mElementsFilled' = mElementsFilled + 1 /\ mTail' = Next1(mTail)
                 /\ Good(p, mPktSize)
                 => IndicesAgree' /\ ShortPacketsEndBursts'
  <1> DEFINE n == mBufferSize
             f == mElementsFilled
  <1>1. n \in Nat \ {0} /\ mHead \in 0..(n - 1) /\ f \in 0..(n - 1) /\ mTail \in 0..(n - 1)
    BY IndexFacts
  <1>2. mBuffer' \in [0..(n - 1) -> Packet] /\ mBuffer'[mTail] = p
    BY IndexFacts
  <1>3. mTail = Slot(mHead, f + 1, n) /\ \A i \in 1..f : Good(mBuffer[Slot(mHead, i, n)], mPktSize)
    BY Slots
  <1> HIDE DEF n, f
  <1>4. /\ (Slot(mHead, f + 1, n) + 1) % n = Slot(mHead, f + 2, n)
        /\ \A i \in 1..f : Slot(mHead, i, n) # Slot(mHead, f + 1, n)
    BY <1>1, TailSlot
  <1>5. \A i \in 1..f : Slot(mHead, i, n) \in 0..(n - 1)
    BY <1>1, SlotType
  <1>6. \A i \in 1..f : mBuffer'[Slot(mHead, i, n)] = mBuffer[Slot(mHead, i, n)]
    BY <1>3, <1>4, <1>5, IndexFacts DEF n
  <1>7. Next1(mTail) \in 0..(n - 1) /\ Next1(mTail) = Slot(mHead, f + 2, n)
    BY <1>1, <1>3, <1>4 DEF Next1, n
  <1>8. ASSUME mElementsFilled' = f, mTail' = mTail
        PROVE  IndicesAgree' /\ ShortPacketsEndBursts'
    BY <1>1, <1>3, <1>6, <1>8, SlotsEnough DEF n
  <1>9. ASSUME mElementsFilled' = f + 1, mTail' = Next1(mTail), Good(p, mPktSize)
        PROVE  IndicesAgree' /\ ShortPacketsEndBursts'
    <2>1. \A i \in 1..(f + 1) : Good(mBuffer'[Slot(mHead, i, n)], mPktSize)
      BY <1>1, <1>2, <1>3, <1>6, <1>9
    <2>2. (f + 1) + 1 = f + 2 /\ f + 1 \in 0..n
      BY <1>1
    <2> QED
      BY <1>1, <1>7, <1>9, <2>1, <2>2, SlotsEnough DEF n
  <1> QED
    BY <1>2, <1>6, <1>7, <1>8, <1>9 DEF n, f

\* A full ring: packet p takes the slot of the oldest one.
LEMMA DropRing ==
    ASSUME IInv, NEW p \in Packet, Good(p, mPktSize), mElementsFilled = mBufferSize,
           mBuffer' = [mBuffer EXCEPT ![mTail] = p],
           mHead' = Next1(mHead), mTail' = Next1(mTail),
           UNCHANGED <<mPktSize, mBufferSize, mElementsFilled>>
    PROVE  /\ mBuffer' \in [0..(mBufferSize - 1) -> Packet]
           /\ mHead' \in 0..(mBufferSize - 1)
           /\ mTail' = mHead'
           /\ IndicesAgree' /\ ShortPacketsEndBursts'
  <1> DEFINE n == mBufferSize
  <1>1. n \in Nat \ {0} /\ mHead \in 0..(n - 1)
    BY IndexFacts
  <1>2. mTail = Slot(mHead, n + 1, n) /\ \A i \in 1..n : Good(mBuffer[Slot(mHead, i, n)], mPktSize)
    BY Slots
  <1>3. mBuffer \in [0..(n - 1) -> Packet]
    BY IndexFacts
  <1>4. mHead' = (mHead + 1) % n /\ mTail' = (mTail + 1) % n
    BY DEF Next1
  <1> HIDE DEF n
  <1>5. /\ mHead' \in 0..(n - 1) /\ Slot(mHead, n + 1, n) = mHead
        /\ \A i \in 1..n : Slot(mHead', i, n) = Slot(mHead, i + 1, n)
        /\ \A i \in 2..n : Slot(mHead, i, n) # mHead
    BY <1>1, <1>4, HeadSlot
  <1>6. mTail = mHead /\ mTail' = mHead' /\ Slot(mHead', n + 1, n) = mHead'
    BY <1>1, <1>2, <1>4, <1>5, HeadSlot
  <1>7. ASSUME NEW i \in 1..n
        PROVE  Good(mBuffer'[Slot(mHead', i, n)], mPktSize)
    <2>1. CASE i = n
      BY <1>1, <1>3, <1>5, <1>6, <2>1
    <2>2. CASE i < n
      <3>1. i + 1 \in 2..n /\ i + 1 \in 1..n /\ i + 1 \in 1..(n + 1)
        BY <1>1, <2>2
      <3>2. Slot(mHead, i + 1, n) \in 0..(n - 1)
        BY <1>1, <3>1, SlotType
      <3>3. mBuffer'[Slot(mHead', i, n)] = mBuffer[Slot(mHead, i + 1, n)]
        BY <1>3, <1>5, <1>6, <3>1, <3>2
      <3> QED
        BY <1>2, <3>1, <3>3
    <2> QED
      BY <1>1, <2>1, <2>2
  <1>8. n \in Nat /\ mHead' \in Nat /\ n \in 0..n
    BY <1>1, <1>5
  <1> QED
    BY <1>3, <1>5, <1>6, <1>7, <1>8, SlotsEnough DEF n

\* The packet at the head leaves.
LEMMA LeaveRing ==
    ASSUME IInv, mElementsFilled > 0,
           mBuffer' = Vacate(mHead), mHead' = Next1(mHead),
           mElementsFilled' = mElementsFilled - 1, mFirst' = 0,
           UNCHANGED <<mPktSize, mBufferSize, mTail, mLast>>
    PROVE  /\ mBuffer' \in [0..(mBufferSize - 1) -> Packet]
           /\ mHead' \in 0..(mBufferSize - 1)
           /\ mElementsFilled' \in Nat
           /\ RingOK'
  <1> DEFINE n == mBufferSize
             f == mElementsFilled
  <1>1. n \in Nat \ {0} /\ mHead \in 0..(n - 1) /\ f \in 1..n
    BY IndexFacts
  <1>2. mTail = Slot(mHead, f + 1, n) /\ \A i \in 1..f : Good(mBuffer[Slot(mHead, i, n)], mPktSize)
    BY Slots
  <1>3. mBuffer \in [0..(n - 1) -> Packet] /\ mBuffer' = [mBuffer EXCEPT ![mHead] = EmptySlot]
    BY IndexFacts DEF Vacate
  <1>4. mBuffer' \in [0..(n - 1) -> Packet]
    <2>1. EmptySlot \in Packet
      BY DEF EmptySlot, Packet
    <2> QED
      BY <1>3, <2>1
  <1>5. mHead' = (mHead + 1) % n
    BY DEF Next1
  <1> HIDE DEF n, f
  <1>6. /\ mHead' \in 0..(n - 1)
        /\ \A i \in 1..n : Slot(mHead', i, n) = Slot(mHead, i + 1, n)
        /\ \A i \in 2..n : Slot(mHead, i, n) # mHead
    BY <1>1, <1>5, HeadSlot
  <1>7. ASSUME NEW i \in 1..(f - 1)
        PROVE  Good(mBuffer'[Slot(mHead', i, n)], mPktSize)
    <2>1. i + 1 \in 2..n /\ i + 1 \in 1..f /\ i + 1 \in 1..(n + 1) /\ i \in 1..n
      BY <1>1
    <2>2. Slot(mHead, i + 1, n) \in 0..(n - 1)
      BY <1>1, <2>1, SlotType
    <2> QED
      BY <1>2, <1>3, <1>6, <2>1, <2>2
  <1>8. mTail' = Slot(mHead', (f - 1) + 1, n)
    <2>1. (f - 1) + 1 = f /\ f \in 1..n
      BY <1>1
    <2> QED
      BY <1>2, <1>6, <2>1
  <1>9. IndicesAgree' /\ ShortPacketsEndBursts'
    <2>1. n \in Nat /\ mHead' \in Nat /\ f - 1 \in 0..n
      BY <1>1, <1>6
    <2> QED
      BY <1>7, <1>8, <2>1, SlotsEnough DEF n, f
  <1>10. PositionsInBounds'
    <2>1. mLast > 0 => f \in 1..(n - 1) /\ mLast = Len(mBuffer[mTail].data)
      BY <1>1 DEF IInv, RingOK, PositionsInBounds, n, f
    <2>2. f \in 1..(n - 1) => mTail # mHead
      <3>1. f \in 1..(n - 1) => f + 1 \in 2..n
        BY <1>1
      <3> QED
        BY <1>2, <1>6, <3>1
    <2>3. mLast > 0 => mBuffer'[mTail] = mBuffer[mTail]
      BY <1>3, <2>1, <2>2, IndexFacts DEF n
    <2>4. f \in 1..(n - 1) => f - 1 < n
      BY <1>1
    <2> QED
      BY <2>1, <2>3, <2>4, IndexFacts DEF PositionsInBounds, n, f
  <1> QED
    BY <1>1, <1>4, <1>6, <1>9, <1>10 DEF RingOK, n, f

LEMMA PushPacketIInv ==
    ASSUME IInv, QuietResize, NEW t \in PktPushers, PushPacket(t)
    PROVE  IInv'
  <1> DEFINE p == [timestamp |-> req[t].timestamp, flags |-> req[t].flags,
                   data |-> req[t].data]
  <1>1. /\ t \in Threads /\ SamplePushers = {}
        /\ pc[t] # "idle" /\ mLast = 0 /\ resizing = 0
    BY ThreadsAssumption
    DEF PushPacket, Running, Threads, IInv, DirectionsOK, ResizeOK, Idle
  <1>2. p \in Packet /\ Good(p, mPktSize)
    <2>1. req[t] \in Requests /\ Len(req[t].data) = mPktSize /\ mPktSize \in Nat \ {0}
      BY <1>1 DEF IInv, TypeOK, CallsOK
    <2> QED
      BY <2>1 DEF Requests, Packet, Good
  <1>3. /\ UNCHANGED <<mPktSize, mBufferSize, mLast, mUnderflow, req, resizing, clock>>
        /\ mBuffer' = [mBuffer EXCEPT ![mTail] = p]
        /\ mTail' = Next1(mTail)
        /\ lock' = Free
        /\ pc' = [pc EXCEPT ![t] = "notify"]
    BY DEF PushPacket, UnlockThenNotify
  <1> HIDE DEF p
  <1>4. /\ mBuffer' \in [0..(mBufferSize - 1) -> Packet]
        /\ mHead' \in 0..(mBufferSize - 1) /\ mTail' \in 0..(mBufferSize - 1)
        /\ mFirst' \in Nat /\ mElementsFilled' \in Nat /\ mOverflow' \in Nat
        /\ IndicesAgree' /\ ShortPacketsEndBursts' /\ PositionsInBounds'
        /\ SamplePoppers = {} => mFirst' = 0
    <2>1. CASE mElementsFilled < mBufferSize
      <3>1. /\ mHead' = mHead /\ mFirst' = mFirst
            /\ mElementsFilled' = mElementsFilled + 1 /\ mOverflow' = mOverflow
        BY <2>1, IndexFacts DEF PushPacket, UseFreeSlot
      <3>2. /\ mBuffer' \in [0..(mBufferSize - 1) -> Packet]
            /\ \A i \in 1..mElementsFilled :
                  mBuffer'[Slot(mHead, i, mBufferSize)] = mBuffer[Slot(mHead, i, mBufferSize)]
            /\ mTail' \in 0..(mBufferSize - 1)
            /\ IndicesAgree' /\ ShortPacketsEndBursts'
        BY <1>2, <1>3, <2>1, <3>1, EnterRing
      <3>3. Slot(mHead, 1, mBufferSize) = mHead
        BY IndexFacts, HeadSlot
      <3>4. mFirst > 0 => /\ mElementsFilled \in Nat \ {0}
                          /\ mFirst < Len(mBuffer[mHead].data)
        BY IndexFacts DEF IInv, RingOK, PositionsInBounds
      <3>5. mFirst > 0 => mBuffer'[mHead] = mBuffer[mHead]
        BY <3>2, <3>3, <3>4
      <3>6. PositionsInBounds'
        <4>1. mFirst > 0 => mElementsFilled' > 0 /\ mFirst < Len(mBuffer'[mHead].data)
          BY <3>1, <3>4, <3>5
        <4>2. mLast' = 0 /\ mPktSize' \in Nat \ {0}
          BY <1>1, <1>3, IndexFacts
        <4> QED
          BY <3>1, <4>1, <4>2 DEF PositionsInBounds
      <3> QED
        BY <3>1, <3>2, <3>6, IndexFacts DEF IInv, TypeOK, DirectionsOK
    <2>2. CASE mElementsFilled = mBufferSize
      <3>1. /\ mHead' = Next1(mHead) /\ mFirst' = 0
            /\ mElementsFilled' = mElementsFilled /\ mOverflow' = mOverflow + 1
        BY <2>2, IndexFacts DEF PushPacket, DropOldest
      <3>2. /\ mBuffer' \in [0..(mBufferSize - 1) -> Packet]
            /\ mHead' \in 0..(mBufferSize - 1) /\ mTail' = mHead'
            /\ IndicesAgree' /\ ShortPacketsEndBursts'
        BY <1>2, <1>3, <2>2, <3>1, DropRing
      <3>3. PositionsInBounds'
        BY <1>1, <1>3, <3>1, IndexFacts DEF PositionsInBounds
      <3>4. mElementsFilled' \in Nat /\ mOverflow' \in Nat /\ mFirst' \in Nat
        BY <3>1 DEF IInv, TypeOK
      <3> QED
        BY <3>1, <3>2, <3>3, <3>4
    <2>3. mElementsFilled \in 0..mBufferSize /\ mBufferSize \in Nat
      BY IndexFacts
    <2> QED
      BY <2>1, <2>2, <2>3
  <1>5. TypeOK'
    BY <1>1, <1>3, <1>4 DEF IInv, TypeOK, PC
  <1>6. CallsOK'
    BY <1>1, <1>3 DEF IInv, TypeOK, CallsOK
  <1>7. DirectionsOK' /\ ResizeOK' /\ CapacityOK'
    BY <1>1, <1>3, <1>4 DEF IInv, DirectionsOK, ResizeOK, CapacityOK
  <1> QED
    BY <1>4, <1>5, <1>6, <1>7 DEF IInv, RingOK

\* The open slot's samples followed by the next of the buffer.
LEMMA SlotDataLength ==
    ASSUME NEW a \in Seq(Nat), NEW b \in Seq(Nat), NEW m \in 0..Len(a),
           NEW d \in 0..Len(b), NEW c \in 0..(Len(b) - d)
    PROVE  /\ SubSeq(a, 1, m) \o SubSeq(b, d + 1, d + c) \in Seq(Nat)
           /\ Len(SubSeq(a, 1, m) \o SubSeq(b, d + 1, d + c)) = m + c
  <1>1. SubSeq(a, 1, m) \in Seq(Nat) /\ Len(SubSeq(a, 1, m)) = m
    BY SubSeqProperties
  <1>2. SubSeq(b, d + 1, d + c) \in Seq(Nat) /\ Len(SubSeq(b, d + 1, d + c)) = c
    BY SubSeqProperties
  <1> QED
    BY <1>1, <1>2, ConcatProperties

\* What one pass of push_samples puts into the open slot, and what becomes of
\* the slot.
LEMMA ChunkSlot ==
    ASSUME IInv, NEW t \in SamplePushers, PushChunk(t)
    PROVE  \E slot \in Packet, cnt \in Nat \ {0} :
              /\ slot.timestamp = SlotTimestamp(req[t])
              /\ slot.data = SlotData(req[t], cnt)
              /\ Len(slot.data) = mLast + cnt /\ mLast + cnt \in 1..mPktSize
              /\ req[t].done + cnt <= Len(req[t].data)
              /\ mBuffer' = [mBuffer EXCEPT ![mTail] = slot]
              /\ req' = [req EXCEPT ![t] = [req[t] EXCEPT !.done = req[t].done + cnt]]
              /\ clock' = req[t].timestamp + req[t].done + cnt
              /\ \/ /\ mLast + cnt = mPktSize \/ "END_BURST" \in slot.flags
                    /\ mElementsFilled' = mElementsFilled + 1
                    /\ mTail' = Next1(mTail) /\ mLast' = 0
                 \/ /\ mLast + cnt < mPktSize
                    /\ mElementsFilled' = mElementsFilled
                    /\ mTail' = mTail /\ mLast' = mLast + cnt
              /\ IF req[t].done + cnt < Len(req[t].data) THEN KeepLock(t)
                                                         ELSE UnlockThenNotify(t)
  <1> DEFINE r == req[t]
             rest == Len(r.data) - r.done
             room == mPktSize - mLast
             cnt == IF rest > room THEN room ELSE rest
             flags == IF rest > room THEN r.flags \cap {"SYNC_TIMESTAMP"} ELSE r.flags
             slot == [timestamp |-> SlotTimestamp(r), flags |-> flags,
                      data |-> SlotData(r, cnt)]
             complete == Complete(mLast + cnt, flags)
             sent == [r EXCEPT !.done = r.done + cnt]
  <1>1. t \in Threads /\ pc[t] \in {"run", "woken", "expired"}
    BY DEF PushChunk, Running, Threads
  <1>2. /\ r \in Requests /\ r.timestamp \in Nat /\ r.done \in Nat
        /\ r.data \in Seq(Nat) /\ r.done < Len(r.data)
        /\ r.flags \in SUBSET {"SYNC_TIMESTAMP", "END_BURST"}
    BY <1>1 DEF IInv, TypeOK, CallsOK, Requests
  <1>3. /\ mBuffer' = [mBuffer EXCEPT ![mTail] = slot]
        /\ mTail' = IF complete THEN Next1(mTail) ELSE mTail
        /\ mElementsFilled' = IF complete THEN mElementsFilled + 1
                                          ELSE mElementsFilled
        /\ mLast' = IF complete THEN 0 ELSE mLast + cnt
        /\ req' = [req EXCEPT ![t] = sent]
        /\ clock' = r.timestamp + r.done + cnt
        /\ IF r.done + cnt < Len(r.data) THEN KeepLock(t) ELSE UnlockThenNotify(t)
    BY DEF PushChunk
  <1>4. /\ cnt \in 1..room /\ cnt \in 1..rest /\ room \in Nat /\ rest \in Nat
        /\ flags \in SUBSET {"SYNC_TIMESTAMP", "END_BURST"}
    <2>1. Len(r.data) \in Nat
      BY <1>2
    <2>2. mPktSize \in Nat \ {0} /\ mLast \in 0..(mPktSize - 1)
      BY IndexFacts
    <2>3. room \in Nat \ {0} /\ rest \in Nat \ {0}
      BY <1>2, <2>1, <2>2
    <2> HIDE DEF room, rest
    <2>4. cnt \in 1..room /\ cnt \in 1..rest
      BY <2>3
    <2> QED
      BY <1>2, <2>3, <2>4
  <1>5. mBuffer[mTail].data \in Seq(Nat) /\ mLast \in 0..Len(mBuffer[mTail].data)
    <2>1. mBuffer[mTail].data \in Seq(Nat)
      BY IndexFacts DEF Packet
    <2>2. mLast > 0 => mLast = Len(mBuffer[mTail].data)
      BY DEF IInv, RingOK, PositionsInBounds
    <2> QED
      BY <2>1, <2>2, IndexFacts
  <1>6. slot.data \in Seq(Nat) /\ Len(slot.data) = mLast + cnt
    <2> HIDE DEF cnt
    <2>1. r.done \in 0..Len(r.data) /\ cnt \in 0..(Len(r.data) - r.done)
      BY <1>2, <1>4
    <2> QED
      BY <1>2, <1>5, <2>1, SlotDataLength DEF SlotData
  <1>7. /\ slot \in Packet /\ slot.flags = flags
        /\ slot.timestamp = SlotTimestamp(r) /\ slot.data = SlotData(r, cnt)
    <2>1. SlotTimestamp(r) \in Int
      <3>1. mLast \in Nat
        BY IndexFacts
      <3> QED
        BY <1>2, <3>1 DEF SlotTimestamp
    <2> HIDE DEF cnt
    <2> QED
      BY <1>4, <1>6, <2>1 DEF Packet
  <1>8. mLast + cnt \in 1..mPktSize /\ r.done + cnt <= Len(r.data)
    <2>1. mPktSize \in Nat \ {0} /\ mLast \in 0..(mPktSize - 1) /\ Len(r.data) \in Nat
      BY <1>2, IndexFacts
    <2> HIDE DEF cnt
    <2> QED
      BY <1>2, <1>4, <2>1
  <1>9. cnt \in Nat \ {0}
    <2> HIDE DEF cnt, room
    <2> QED
      BY <1>4
  <1> HIDE DEF slot, cnt, flags
  <1>10. \/ /\ mLast + cnt = mPktSize \/ "END_BURST" \in slot.flags
            /\ mElementsFilled' = mElementsFilled + 1
            /\ mTail' = Next1(mTail) /\ mLast' = 0
         \/ /\ mLast + cnt < mPktSize
            /\ mElementsFilled' = mElementsFilled
            /\ mTail' = mTail /\ mLast' = mLast + cnt
    BY <1>3, <1>7, <1>8, IndexFacts DEF Complete
  <1> QED
    BY <1>3, <1>6, <1>7, <1>8, <1>9, <1>10

LEMMA PushChunkIInv ==
    ASSUME IInv, QuietResize, NEW t \in SamplePushers, PushChunk(t)
    PROVE  IInv'
  <1> DEFINE r == req[t]
  <1>1. /\ t \in Threads /\ t \notin PktPushers /\ t \notin SamplePoppers
        /\ SamplePoppers = {}
        /\ pc[t] \in {"run", "woken", "expired"} /\ mFirst = 0 /\ resizing = 0
    BY ThreadsAssumption
    DEF PushChunk, Running, Threads, IInv, DirectionsOK, ResizeOK, Idle
  <1>2. /\ r \in Requests /\ r.timestamp \in Nat /\ r.done \in Nat
        /\ r.done < Len(r.data) /\ Len(r.data) \in Nat
    BY <1>1 DEF IInv, TypeOK, CallsOK, Requests
  <1>3. PICK slot \in Packet, cnt \in Nat \ {0} :
              /\ Len(slot.data) = mLast + cnt /\ mLast + cnt \in 1..mPktSize
              /\ mBuffer' = [mBuffer EXCEPT ![mTail] = slot]
              /\ req' = [req EXCEPT ![t] = [r EXCEPT !.done = r.done + cnt]]
              /\ clock' = r.timestamp + r.done + cnt
              /\ \/ /\ mLast + cnt = mPktSize \/ "END_BURST" \in slot.flags
                    /\ mElementsFilled' = mElementsFilled + 1
                    /\ mTail' = Next1(mTail) /\ mLast' = 0
                 \/ /\ mLast + cnt < mPktSize
                    /\ mElementsFilled' = mElementsFilled
                    /\ mTail' = mTail /\ mLast' = mLast + cnt
              /\ IF r.done + cnt < Len(r.data) THEN KeepLock(t) ELSE UnlockThenNotify(t)
    BY ChunkSlot
  <1>4. /\ mElementsFilled < mBufferSize
        /\ UNCHANGED <<mPktSize, mBufferSize, mHead, mFirst, counters, resizing>>
    BY DEF PushChunk
  <1> DEFINE sent == [r EXCEPT !.done = r.done + cnt]
  <1>5. /\ sent \in Requests /\ sent.done = r.done + cnt
        /\ sent.data = r.data /\ sent.timestamp = r.timestamp
        /\ req' = [req EXCEPT ![t] = sent]
    <2>1. r.done + cnt \in Nat
      BY <1>2
    <2>2. req' = [req EXCEPT ![t] = sent]
      BY <1>3
    <2> HIDE DEF r
    <2> QED
      BY <1>2, <2>1, <2>2 DEF Requests
  <1> HIDE DEF sent, r
  <1>6. /\ mBuffer' \in [0..(mBufferSize - 1) -> Packet]
        /\ mTail' \in 0..(mBufferSize - 1)
        /\ mElementsFilled' \in Nat /\ mLast' \in Nat
        /\ IndicesAgree' /\ ShortPacketsEndBursts' /\ PositionsInBounds'
    <2>1. mBuffer' \in [0..(mBufferSize - 1) -> Packet] /\ mBuffer'[mTail] = slot
      BY <1>3, IndexFacts
    <2>2. CASE /\ mLast + cnt = mPktSize \/ "END_BURST" \in slot.flags
               /\ mElementsFilled' = mElementsFilled + 1
               /\ mTail' = Next1(mTail) /\ mLast' = 0
      <3>1. Good(slot, mPktSize)
        BY <1>3, <2>2 DEF Good
      <3>2. mTail' \in 0..(mBufferSize - 1) /\ IndicesAgree' /\ ShortPacketsEndBursts'
        BY <1>3, <1>4, <2>2, <3>1, EnterRing
      <3>3. PositionsInBounds'
        BY <1>1, <1>4, <2>2, IndexFacts DEF PositionsInBounds
      <3> QED
        BY <2>1, <2>2, <3>2, <3>3, IndexFacts
    <2>3. CASE /\ mLast + cnt < mPktSize
               /\ mElementsFilled' = mElementsFilled
               /\ mTail' = mTail /\ mLast' = mLast + cnt
      <3>1. IndicesAgree' /\ ShortPacketsEndBursts'
        BY <1>3, <1>4, <2>3, EnterRing
      <3>2. PositionsInBounds'
        BY <1>1, <1>3, <1>4, <2>1, <2>3, IndexFacts DEF PositionsInBounds
      <3> QED
        BY <1>3, <2>1, <2>3, <3>1, <3>2, IndexFacts
    <2> QED
      BY <1>3, <2>2, <2>3
  <1>7. /\ lock' \in Threads \cup {Free}
        /\ pc' \in [Threads -> PC]
        /\ \A u \in Threads : u # t => pc'[u] = pc[u]
        /\ pc'[t] # "notify" => r.done + cnt < Len(r.data)
    BY <1>1, <1>3 DEF KeepLock, UnlockThenNotify, IInv, TypeOK, PC
  <1>8. clock' \in Nat
    BY <1>2, <1>3
  <1>9. TypeOK'
    BY <1>4, <1>5, <1>6, <1>7, <1>8, IndexFacts DEF IInv, TypeOK, counters
  <1>10. CallsOK'
    <2>1. ASSUME NEW u \in Threads, u # t
          PROVE  req'[u] = req[u] /\ pc'[u] = pc[u]
      BY <1>5, <1>7, <2>1 DEF IInv, TypeOK
    <2>2. req'[t] = sent
      BY <1>1, <1>5 DEF IInv, TypeOK
    <2> QED
      <3> SUFFICES ASSUME NEW u \in Threads, pc'[u] # "idle"
                   PROVE  /\ u \in PktPushers => Len(req'[u].data) = mPktSize
                          /\ u \in SamplePushers => req'[u].timestamp \in Nat
                          /\ u \in SamplePushers /\ pc'[u] # "notify"
                                => req'[u].done < Len(req'[u].data)
                          /\ u \in SamplePoppers /\ pc'[u] # "notify"
                                => Len(req'[u].data) < req'[u].count
        BY <1>4 DEF CallsOK
      <3>1. CASE u = t
        <4>1. /\ req'[t].timestamp = r.timestamp
              /\ req'[t].done = r.done + cnt /\ req'[t].data = r.data
          BY <1>5, <2>2
        <4>2. r.timestamp \in Nat
          BY <1>2
        <4>3. pc'[t] # "notify" => r.done + cnt < Len(r.data)
          BY <1>7
        <4>4. t \notin PktPushers /\ t \notin SamplePoppers
          BY <1>1
        <4> QED
          BY <3>1, <4>1, <4>2, <4>3, <4>4
      <3>2. CASE u # t
        BY <2>1, <3>2 DEF IInv, CallsOK
      <3> QED
        BY <3>1, <3>2
  <1>11. DirectionsOK' /\ ResizeOK' /\ CapacityOK'
    BY <1>1, <1>3, <1>4 DEF IInv, DirectionsOK, ResizeOK, CapacityOK
  <1> QED
    BY <1>6, <1>9, <1>10, <1>11 DEF IInv, RingOK

LEMMA PopPacketIInv ==
    ASSUME IInv, QuietResize, NEW t \in PktPoppers, PopPacket(t)
    PROVE  IInv'
  <1>1. /\ t \in Threads /\ t \notin PktPushers /\ t \notin SamplePoppers
        /\ t \notin SamplePushers /\ SamplePoppers = {}
        /\ pc[t] # "idle" /\ mFirst = 0 /\ resizing = 0
    BY ThreadsAssumption
    DEF PopPacket, Running, Threads, IInv, DirectionsOK, ResizeOK, Idle
  <1> DEFINE r == Request(mBuffer[mHead].timestamp, mBuffer[mHead].flags,
                          mBuffer[mHead].data, 0, TRUE)
  <1>2. /\ mElementsFilled > 0
        /\ req' = [req EXCEPT ![t] = r]
        /\ mBuffer' = Vacate(mHead) /\ mHead' = Next1(mHead)
        /\ mElementsFilled' = mElementsFilled - 1
        /\ lock' = Free /\ pc' = [pc EXCEPT ![t] = "notify"]
        /\ UNCHANGED <<mPktSize, mBufferSize, mTail, mFirst, mLast,
                       counters, resizing, clock>>
    BY DEF PopPacket, UnlockThenNotify
  <1>3. r \in Requests
    <2>1. mBuffer[mHead] \in Packet
      BY IndexFacts
    <2> QED
      BY <2>1 DEF Packet, Request, Requests
  <1>4. /\ mBuffer' \in [0..(mBufferSize - 1) -> Packet]
        /\ mHead' \in 0..(mBufferSize - 1) /\ mElementsFilled' \in Nat /\ RingOK'
    BY <1>1, <1>2, LeaveRing
  <1> HIDE DEF r
  <1>5. TypeOK'
    BY <1>1, <1>2, <1>3, <1>4 DEF IInv, TypeOK, PC, counters
  <1>6. CallsOK'
    BY <1>1, <1>2 DEF IInv, TypeOK, CallsOK
  <1>7. DirectionsOK' /\ ResizeOK' /\ CapacityOK'
    BY <1>1, <1>2 DEF IInv, DirectionsOK, ResizeOK, CapacityOK
  <1> QED
    BY <1>4, <1>5, <1>6, <1>7 DEF IInv

LEMMA PopChunkIInv ==
    ASSUME IInv, QuietResize, NEW t \in SamplePoppers, PopChunk(t)
    PROVE  IInv'
  <1> DEFINE r == req[t]
             head == mBuffer[mHead]
             want == r.count - Len(r.data)
             cntbuf == Len(head.data) - mFirst
             cnt == IF want > cntbuf THEN cntbuf ELSE want
             ts == IF r.data = <<>> THEN FirstTimestamp ELSE r.timestamp
             data == r.data \o SubSeq(head.data, mFirst + 1, mFirst + cnt)
             got == Request(ts, {}, data, r.count, r.patient)
  <1>1. /\ t \in Threads /\ t \notin PktPushers /\ t \notin SamplePushers
        /\ SamplePushers = {}
        /\ pc[t] \in {"run", "woken"} /\ mLast = 0 /\ resizing = 0
    BY ThreadsAssumption
    DEF PopChunk, Running, Threads, IInv, DirectionsOK, ResizeOK, Idle
  <1>2. /\ r \in Requests /\ r.timestamp \in Int /\ r.data \in Seq(Nat)
        /\ Len(r.data) < r.count /\ r.count \in Nat /\ Len(r.data) \in Nat
        /\ r.patient \in BOOLEAN
    <2>1. r \in Requests /\ Len(r.data) < r.count
      BY <1>1 DEF IInv, TypeOK, CallsOK
    <2> HIDE DEF r
    <2> QED
      BY <2>1 DEF Requests
  <1>3. /\ mElementsFilled > 0
        /\ req' = [req EXCEPT ![t] = got]
        /\ mBuffer' = IF cnt = cntbuf THEN Vacate(mHead) ELSE mBuffer
        /\ mHead' = IF cnt = cntbuf THEN Next1(mHead) ELSE mHead
        /\ mFirst' = IF cnt = cntbuf THEN 0 ELSE mFirst + cnt
        /\ mElementsFilled' = IF cnt = cntbuf THEN mElementsFilled - 1
                                              ELSE mElementsFilled
        /\ IF cnt < want THEN KeepLock(t) ELSE UnlockThenNotify(t)
        /\ UNCHANGED <<mPktSize, mBufferSize, mTail, mLast, counters, resizing,
                       clock>>
    BY DEF PopChunk
  <1>4. head \in Packet /\ head.data \in Seq(Nat) /\ Len(head.data) \in Nat /\ cntbuf \in Nat \ {0}
        /\ mFirst \in Nat
    <2>1. Slot(mHead, 1, mBufferSize) = mHead /\ mElementsFilled \in Nat
      BY IndexFacts, HeadSlot
    <2>2. Good(head, mPktSize) /\ mPktSize \in Nat
      <3> HIDE DEF got, data, ts, cnt
      <3>1. 1 \in 1..mElementsFilled
        BY <1>3, <2>1
      <3>2. Good(mBuffer[Slot(mHead, 1, mBufferSize)], mPktSize)
        BY <3>1, Slots
      <3> QED
        BY <2>1, <3>2, IndexFacts
    <2>3. head \in Packet /\ head.data \in Seq(Nat)
      BY IndexFacts DEF Packet
    <2>4. mFirst \in Nat /\ (mFirst > 0 => mFirst < Len(head.data))
      BY IndexFacts DEF IInv, RingOK, PositionsInBounds
    <2> QED
      <3>1. Len(head.data) \in Nat \ {0}
        BY <2>2 DEF Good
      <3> HIDE DEF head
      <3> QED
        BY <2>3, <2>4, <3>1
  <1>5. want \in Nat \ {0} /\ cnt \in 1..cntbuf /\ cnt \in 1..want
    <2>1. want \in Nat \ {0}
      BY <1>2
    <2> HIDE DEF want, cntbuf
    <2> QED
      BY <1>4, <2>1
  <1>6. data \in Seq(Nat) /\ Len(data) = Len(r.data) + cnt
    <2> HIDE DEF cnt, head
    <2>1. mFirst + cnt \in 0..Len(head.data)
      BY <1>4, <1>5
    <2>2. /\ SubSeq(head.data, mFirst + 1, mFirst + cnt) \in Seq(Nat)
          /\ Len(SubSeq(head.data, mFirst + 1, mFirst + cnt)) = cnt
      BY <1>4, <1>5, <2>1, SubSeqProperties
    <2> QED
      BY <1>2, <2>2, ConcatProperties
  <1>7. got \in Requests /\ got.data = data /\ got.count = r.count
    <2>1. ts \in Int
      BY <1>2, <1>4 DEF FirstTimestamp, Packet
    <2> HIDE DEF ts, data, r
    <2> QED
      BY <1>2, <1>6, <2>1 DEF Request, Requests
  <1> HIDE DEF got, data, r, cnt, cntbuf, want, ts
  <1>8. /\ mBuffer' \in [0..(mBufferSize - 1) -> Packet]
        /\ mHead' \in 0..(mBufferSize - 1) /\ mElementsFilled' \in Nat
        /\ mFirst' \in Nat /\ RingOK'
    <2>1. CASE cnt = cntbuf
      BY <1>3, <2>1, LeaveRing
    <2>2. CASE cnt # cntbuf
      <3>1. mFirst' \in Nat /\ mFirst' < Len(head.data)
        BY <1>3, <1>4, <1>5, <2>2 DEF cntbuf
      <3>2. UNCHANGED <<mBuffer, mHead, mElementsFilled, mTail, mPktSize, mBufferSize, mLast>>
        BY <1>3, <2>2
      <3>3. IndicesAgree' /\ ShortPacketsEndBursts'
        BY <3>2 DEF IInv, RingOK, IndicesAgree, ShortPacketsEndBursts, Nth
      <3>4. PositionsInBounds'
        BY <1>1, <1>3, <3>1, <3>2, IndexFacts DEF PositionsInBounds
      <3> QED
        BY <3>1, <3>2, <3>3, <3>4, IndexFacts DEF RingOK
    <2> QED
      BY <2>1, <2>2
  <1>9. /\ lock' \in Threads \cup {Free}
        /\ pc' \in [Threads -> PC]
        /\ \A u \in Threads : u # t => pc'[u] = pc[u]
        /\ pc'[t] # "notify" => cnt < want
    BY <1>1, <1>3 DEF KeepLock, UnlockThenNotify, IInv, TypeOK, PC
  <1>10. TypeOK'
    BY <1>1, <1>3, <1>7, <1>8, <1>9 DEF IInv, TypeOK, counters
  <1>11. CallsOK'
    <2>1. ASSUME NEW u \in Threads, u # t
          PROVE  req'[u] = req[u] /\ pc'[u] = pc[u]
      BY <1>3, <1>9, <2>1 DEF IInv, TypeOK
    <2>2. req'[t] = got
      BY <1>1, <1>3 DEF IInv, TypeOK
    <2>3. pc'[t] # "notify" => Len(got.data) < got.count
      BY <1>2, <1>5, <1>6, <1>7, <1>9 DEF want
    <2> QED
      BY <1>1, <1>3, <2>1, <2>2, <2>3 DEF IInv, CallsOK
  <1>12. DirectionsOK' /\ ResizeOK' /\ CapacityOK'
    BY <1>1, <1>3 DEF IInv, DirectionsOK, ResizeOK, CapacityOK
  <1> QED
    BY <1>8, <1>10, <1>11, <1>12 DEF IInv

LEMMA GetInfoIInv ==
    ASSUME IInv, GetInfo
    PROVE  IInv'
  <1>1. UNCHANGED ring
    BY DEF GetInfo
  <1>2. TypeOK' /\ CallsOK' /\ ResizeOK'
    BY DEF IInv, TypeOK, CallsOK, ResizeOK, Idle, GetInfo, ring
  <1> QED
    BY <1>1, <1>2, RingUnchanged DEF IInv

\* Emptying the ring, by Clear or at the start of Resize.
LEMMA ClearIInv ==
    ASSUME IInv, QuietResize, Clear \/ ResizeClear
    PROVE  IInv'
  <1>1. ClearFields /\ UNCHANGED <<mPktSize, mBufferSize, lock, pc, req, clock>>
    BY DEF Clear, ResizeClear
  <1>2. TypeOK'
    <2>1. EmptySlot \in Packet
      BY DEF EmptySlot, Packet
    <2>2. (mBuffer \in [0..(mBufferSize - 1) -> Packet])'
      BY <1>1, <2>1 DEF ClearFields, Vacant
    <2>3. resizing' \in Nat
      BY SizesAssumption DEF Clear, ResizeClear, IInv, TypeOK
    <2> QED
      BY <1>1, <2>2, <2>3 DEF ClearFields, IInv, TypeOK
  <1>3. RingOK'
    BY <1>1, IndexFacts
    DEF ClearFields, RingOK, IndicesAgree, PositionsInBounds, ShortPacketsEndBursts
  <1>4. CallsOK' /\ DirectionsOK' /\ CapacityOK'
    BY <1>1 DEF ClearFields, IInv, CallsOK, DirectionsOK, CapacityOK
  <1>5. ResizeOK'
    <2>1. CASE Clear
      BY <2>1 DEF Clear, ResizeOK
    <2>2. CASE ResizeClear
      BY <1>1, <2>2 DEF ResizeClear, ClearFields, ResizeOK, Idle
    <2> QED
      BY <2>1, <2>2
  <1> QED
    BY <1>2, <1>3, <1>4, <1>5 DEF IInv

LEMMA ResizeAllocateIInv ==
    ASSUME IInv, ResizeAllocate
    PROVE  IInv'
  <1> DEFINE size == (mPktSize * mBufferSize) \div resizing
  <1>1. /\ resizing \in PktSizes /\ Idle
        /\ mHead = 0 /\ mTail = 0 /\ mFirst = 0 /\ mLast = 0 /\ mElementsFilled = 0
    BY DEF ResizeAllocate, IInv, ResizeOK
  <1>2. size \in Nat \ {0} /\ resizing * size >= CommonSize
    <2>1. PICK k \in 1..CommonSize : CommonSize = k * resizing
      BY <1>1, CapacityAssumption
    <2>2. mPktSize * mBufferSize \in Nat /\ mPktSize * mBufferSize >= CommonSize
      BY DEF IInv, TypeOK, CapacityOK
    <2>3. resizing \in Nat \ {0} /\ k \in Nat \ {0}
      BY <1>1, SizesAssumption
    <2> QED
      BY <2>1, <2>2, <2>3, CapacityKept
  <1>3. /\ mPktSize' = resizing /\ mBufferSize' = size
        /\ resizing' = 0 /\ clock' = 0
        /\ UNCHANGED <<mHead, mTail, mFirst, mLast, mElementsFilled, counters, lock, pc, req>>
    BY DEF ResizeAllocate
  <1>4. mBuffer' \in [0..(size - 1) -> Packet]
    <2>1. EmptySlot \in Packet
      BY DEF EmptySlot, Packet
    <2>2. Vacant(size) \in [0..(size - 1) -> Packet]
      BY <2>1 DEF Vacant
    <2>3. mBuffer' = IF size = mBufferSize /\ resizing = mPktSize THEN mBuffer ELSE Vacant(size)
      BY DEF ResizeAllocate
    <2> QED
      BY <2>2, <2>3 DEF IInv, TypeOK
  <1> HIDE DEF size
  <1>5. TypeOK'
    BY <1>1, <1>2, <1>3, <1>4, SizesAssumption DEF IInv, TypeOK, counters
  <1>6. RingOK'
    BY <1>1, <1>2, <1>3, SizesAssumption
    DEF RingOK, IndicesAgree, PositionsInBounds, ShortPacketsEndBursts
  <1>7. CallsOK' /\ DirectionsOK' /\ ResizeOK' /\ CapacityOK'
    BY <1>1, <1>2, <1>3 DEF IInv, CallsOK, DirectionsOK, ResizeOK, CapacityOK, Idle
  <1> QED
    BY <1>5, <1>6, <1>7 DEF IInv
-----------------------------------------------------------------------------
LEMMA NextIInv == QuietResize /\ IInv /\ [Next]_vars => IInv'
  <1> SUFFICES ASSUME QuietResize, IInv, [Next]_vars PROVE IInv'
    OBVIOUS
  <1>1. CASE \E t \in PktPushers : PushPacketCall(t) \/ PushPacketStep(t)
    BY <1>1, CallsIInv, PushPacketIInv, BookkeepingStep DEF PushPacketStep, Threads
  <1>2. CASE \E t \in SamplePushers : PushSamplesCall(t) \/ PushSamplesStep(t)
    BY <1>2, CallsIInv, PushChunkIInv, BookkeepingStep DEF PushSamplesStep, Threads
  <1>3. CASE \E t \in SamplePoppers : PopSamplesCall(t) \/ PopSamplesStep(t)
    BY <1>3, CallsIInv, PopChunkIInv, BookkeepingStep DEF PopSamplesStep, Threads
  <1>4. CASE \E t \in PktPoppers : PopPacketCall(t) \/ PopPacketStep(t)
    BY <1>4, CallsIInv, PopPacketIInv, BookkeepingStep DEF PopPacketStep, Threads
  <1>5. CASE \E t \in Threads : Expire(t)
    BY <1>5, BookkeepingStep
  <1>6. CASE GetInfo
    BY <1>6, GetInfoIInv
  <1>7. CASE Clear \/ ResizeClear
    BY <1>7, ClearIInv
  <1>8. CASE ResizeAllocate
    BY <1>8, ResizeAllocateIInv
  <1>9. CASE UNCHANGED vars
    <2>1. UNCHANGED ring
      BY <1>9 DEF vars
    <2>2. TypeOK' /\ CallsOK' /\ ResizeOK'
      BY <1>9 DEF vars, ring, counters, IInv, TypeOK, CallsOK, ResizeOK, Idle
    <2> QED
      BY <2>1, <2>2, RingUnchanged DEF IInv
  <1> QED
    BY <1>1, <1>2, <1>3, <1>4, <1>5, <1>6, <1>7, <1>8, <1>9 DEF Next

\* Every field keeps its type, for any threads, sizes and buffers: no index
\* leaves the slots fifo.h allocated.
THEOREM TypeCorrect == QuietResize => (Spec => []TypeOK)
  <1> SUFFICES ASSUME QuietResize PROVE Spec => []TypeOK
    OBVIOUS
  <1>1. Init => IInv
    BY InitIInv
  <1>2. IInv /\ [Next]_vars => IInv'
    BY NextIInv
  <1>3. IInv => TypeOK
    BY DEF IInv
  <1> QED
    BY <1>1, <1>2, <1>3, PTL DEF Spec

\* The indices agree, the partial positions stay inside their packets and short
\* packets end bursts, for any threads, sizes and buffers, while nobody resizes
\* the FIFO under a call.
THEOREM RingSafe == QuietResize => (Spec => []RingOK)
  <1> SUFFICES ASSUME QuietResize PROVE Spec => []RingOK
    OBVIOUS
  <1>1. Init => IInv
    BY InitIInv
  <1>2. IInv /\ [Next]_vars => IInv'
    BY NextIInv
  <1>3. IInv => RingOK
    BY DEF IInv
  <1> QED
    BY <1>1, <1>2, <1>3, PTL DEF Spec

-----------------------------------------------------------------------------
\* Where the packets of the ring go.

\* A packet that enters comes last, and the others stay.
LEMMA EnterMoves ==
    ASSUME IInv, NEW p \in Packet, NEW f \in Nat, mElementsFilled = f, f < mBufferSize,
           mBuffer' = [mBuffer EXCEPT ![mTail] = p],
           UNCHANGED <<mPktSize, mBufferSize, mHead>>
    PROVE  /\ \A i \in 1..f : Nth(i)' = Nth(i)
           /\ Nth(f + 1)' = p
  <1>1. mElementsFilled < mBufferSize
    OBVIOUS
  <1>2. /\ mBuffer'[mTail] = p
        /\ \A i \in 1..mElementsFilled :
              mBuffer'[Slot(mHead, i, mBufferSize)] = mBuffer[Slot(mHead, i, mBufferSize)]
    BY <1>1, EnterRing
  <1>3. mTail = Slot(mHead, f + 1, mBufferSize)
    BY Slots
  <1> QED
    BY <1>2, <1>3 DEF Nth, Slot

\* The packet that takes the oldest one's slot comes last, the others move up.
LEMMA DropMoves ==
    ASSUME IInv, NEW p \in Packet, NEW n \in Nat, mElementsFilled = n, mBufferSize = n,
           mBuffer' = [mBuffer EXCEPT ![mTail] = p],
           mHead' = Next1(mHead), UNCHANGED mBufferSize
    PROVE  /\ \A i \in 1..(n - 1) : Nth(i)' = Nth(i + 1)
           /\ Nth(n)' = p
  <1>1. /\ n \in Nat \ {0} /\ mHead \in 0..(n - 1) /\ mBuffer \in [0..(n - 1) -> Packet]
        /\ mHead' = (mHead + 1) % n
    BY IndexFacts DEF Next1
  <1>2. mTail = Slot(mHead, n + 1, n)
    BY Slots
  <1>3. /\ Slot(mHead, n + 1, n) = mHead
        /\ \A i \in 1..n : Slot(mHead', i, n) = Slot(mHead, i + 1, n)
        /\ \A i \in 2..n : Slot(mHead, i, n) # mHead
    BY <1>1, HeadSlot
  <1>4. \A i \in 1..(n - 1) : mBuffer'[Slot(mHead', i, n)] = mBuffer[Slot(mHead, i + 1, n)]
    <2> SUFFICES ASSUME NEW i \in 1..(n - 1)
                 PROVE  mBuffer'[Slot(mHead', i, n)] = mBuffer[Slot(mHead, i + 1, n)]
      OBVIOUS
    <2>1. i + 1 \in 2..n /\ i \in 1..n /\ i + 1 \in 1..(n + 1)
      BY <1>1
    <2>2. Slot(mHead, i + 1, n) \in 0..(n - 1)
      BY <1>1, <2>1, SlotType
    <2> QED
      BY <1>1, <1>2, <1>3, <2>1, <2>2
  <1>5. mBuffer'[Slot(mHead', n, n)] = p
    <2>1. n \in 1..n
      BY <1>1
    <2> QED
      BY <1>1, <1>2, <1>3, <2>1
  <1> QED
    <2>1. \A i \in 1..(n - 1) : (mHead + (i + 1)) - 1 = mHead + (i + 1) - 1
      BY <1>1
    <2>2. mBufferSize' = n
      OBVIOUS
    <2> QED
      BY <1>4, <1>5, <2>2 DEF Nth, Slot

\* The packet at the head leaves, the others move up, and the open slot stays.
LEMMA LeaveMoves ==
    ASSUME IInv, NEW f \in Nat \ {0}, mElementsFilled = f,
           mBuffer' = Vacate(mHead), mHead' = Next1(mHead),
           UNCHANGED <<mBufferSize, mTail, mLast>>
    PROVE  /\ \A i \in 1..(f - 1) : Nth(i)' = Nth(i + 1)
           /\ mLast > 0 => mBuffer'[mTail] = mBuffer[mTail]
  <1> DEFINE n == mBufferSize
  <1>1. n \in Nat \ {0} /\ mHead \in 0..(n - 1) /\ f \in 1..n /\ mHead' = (mHead + 1) % n
    BY IndexFacts DEF Next1
  <1>2. mTail = Slot(mHead, f + 1, n)
    BY Slots
  <1>3. mBuffer \in [0..(n - 1) -> Packet] /\ mBuffer' = [mBuffer EXCEPT ![mHead] = EmptySlot]
    BY IndexFacts DEF Vacate
  <1>4. mLast > 0 => f < n
    BY DEF IInv, RingOK, PositionsInBounds
  <1> HIDE DEF n
  <1>5. /\ \A i \in 1..n : Slot(mHead', i, n) = Slot(mHead, i + 1, n)
        /\ \A i \in 2..n : Slot(mHead, i, n) # mHead
    <2>1. n \in Nat \ {0} /\ mHead \in 0..(n - 1)
      BY <1>1
    <2>2. /\ \A i \in 1..n : Slot((mHead + 1) % n, i, n) = Slot(mHead, i + 1, n)
          /\ \A i \in 2..n : Slot(mHead, i, n) # mHead
      BY <2>1, HeadSlot
    <2> QED
      BY <1>1, <2>2
  <1>6. \A i \in 2..n : /\ Slot(mHead, i, n) \in 0..(n - 1)
                        /\ mBuffer'[Slot(mHead, i, n)] = mBuffer[Slot(mHead, i, n)]
    <2> SUFFICES ASSUME NEW i \in 2..n
                 PROVE  /\ Slot(mHead, i, n) \in 0..(n - 1)
                        /\ mBuffer'[Slot(mHead, i, n)] = mBuffer[Slot(mHead, i, n)]
      OBVIOUS
    <2>1. i \in 1..(n + 1)
      BY <1>1
    <2>2. Slot(mHead, i, n) \in 0..(n - 1)
      BY <1>1, <2>1, SlotType
    <2> QED
      BY <1>3, <1>5, <2>2
  <1>7. \A i \in 1..(f - 1) : mBuffer'[Slot(mHead', i, n)] = mBuffer[Slot(mHead, i + 1, n)]
    <2> SUFFICES ASSUME NEW i \in 1..(f - 1)
                 PROVE  mBuffer'[Slot(mHead', i, n)] = mBuffer[Slot(mHead, i + 1, n)]
      OBVIOUS
    <2>1. i \in 1..n /\ i + 1 \in 2..n
      BY <1>1
    <2> QED
      BY <1>5, <1>6, <2>1
  <1>8. mLast > 0 => mBuffer'[mTail] = mBuffer[mTail]
    <2> SUFFICES ASSUME mLast > 0 PROVE mBuffer'[mTail] = mBuffer[mTail]
      OBVIOUS
    <2>1. f + 1 \in 2..n
      BY <1>1, <1>4
    <2> QED
      BY <1>2, <1>6, <2>1
  <1> QED
    BY <1>7, <1>8 DEF Nth, Slot, n

\* The first packet is the head's, and has samples left.
LEMMA HeadPacket ==
    ASSUME IInv, mElementsFilled > 0
    PROVE  /\ Nth(1) = mBuffer[mHead] /\ 1 \in 1..mElementsFilled
           /\ mFirst < Len(mBuffer[mHead].data)
  <1>1. mElementsFilled \in Nat \ {0} /\ 1 \in 1..mElementsFilled
    BY IndexFacts
  <1>2. Slot(mHead, 1, mBufferSize) = mHead
    BY IndexFacts, HeadSlot
  <1>3. Nth(1) = mBuffer[mHead]
    BY <1>2 DEF Nth, Slot
  <1>4. mFirst \in Nat /\ (mFirst > 0 => mFirst < Len(mBuffer[mHead].data))
    BY IndexFacts DEF IInv, RingOK, PositionsInBounds
  <1>5. Len(Nth(1).data) \in 1..mPktSize
    BY <1>1 DEF IInv, RingOK, ShortPacketsEndBursts
  <1> QED
    BY <1>1, <1>3, <1>4, <1>5, IndexFacts

LEMMA PacketTypes ==
    ASSUME IInv, NEW i \in 1..(mElementsFilled + 1), i <= mBufferSize
    PROVE  Nth(i) \in Packet
  <1>1. mHead + i - 1 \in Nat /\ mBufferSize \in Nat \ {0}
    BY IndexFacts
  <1>2. (mHead + i - 1) % mBufferSize \in 0..(mBufferSize - 1)
    BY <1>1
  <1> QED
    BY <1>2, IndexFacts DEF Nth
-----------------------------------------------------------------------------
\* Runs of consecutive samples.

LEMMA RunOf ==
    ASSUME NEW a \in Nat, NEW n \in Nat
    PROVE  /\ Samples(a, n) \in Seq(Nat) /\ Len(Samples(a, n)) = n
           /\ \A i \in 1..n : Samples(a, n)[i] = a + i - 1
  BY DEF Samples

LEMMA RunOfRun ==
    ASSUME NEW a \in Nat, NEW n \in Nat, NEW i \in 0..n, NEW c \in 0..(n - i)
    PROVE  SubSeq(Samples(a, n), i + 1, i + c) = Samples(a + i, c)
  <1> DEFINE s == Samples(a, n)
             u == SubSeq(s, i + 1, i + c)
  <1>1. s \in Seq(Nat) /\ Len(s) = n /\ \A j \in 1..n : s[j] = a + j - 1
    BY RunOf
  <1> HIDE DEF s
  <1>2. \A j \in (i + 1)..(i + c) : s[j] \in Nat
    BY <1>1
  <1>3. /\ u \in Seq(Nat) /\ Len(u) = c
        /\ \A j \in 1..c : u[j] = s[i + j]
    <2>1. /\ u \in Seq(Nat) /\ Len(u) = IF i + 1 <= i + c THEN (i + c) - (i + 1) + 1 ELSE 0
          /\ \A j \in 1..((i + c) - (i + 1) + 1) : u[j] = s[(i + 1) + j - 1]
      BY <1>2, SubSeqProperties
    <2>2. (i + c) - (i + 1) + 1 = c /\ \A j \in 1..c : (i + 1) + j - 1 = i + j
      OBVIOUS
    <2> HIDE DEF u
    <2> QED
      BY <2>1, <2>2
  <1>4. /\ Samples(a + i, c) \in Seq(Nat) /\ Len(Samples(a + i, c)) = c
        /\ \A j \in 1..c : Samples(a + i, c)[j] = a + i + j - 1
    <2>1. a + i \in Nat /\ c \in Nat
      OBVIOUS
    <2> QED
      BY <2>1, RunOf
  <1> HIDE DEF u
  <1>5. \A j \in 1..c : u[j] = Samples(a + i, c)[j]
    BY <1>1, <1>3, <1>4
  <1> QED
    BY <1>3, <1>4, <1>5, SeqEqual DEF u, s

LEMMA RunsJoin ==
    ASSUME NEW a \in Nat, NEW n \in Nat, NEW c \in Nat
    PROVE  Samples(a, n) \o Samples(a + n, c) = Samples(a, n + c)
  <1> DEFINE s == Samples(a, n)
             u == Samples(a + n, c)
             v == Samples(a, n + c)
  <1>0. a + n \in Nat /\ n + c \in Nat
    OBVIOUS
  <1>1. /\ s \in Seq(Nat) /\ Len(s) = n /\ \A j \in 1..n : s[j] = a + j - 1
        /\ u \in Seq(Nat) /\ Len(u) = c /\ \A j \in 1..c : u[j] = a + n + j - 1
        /\ v \in Seq(Nat) /\ Len(v) = n + c /\ \A j \in 1..(n + c) : v[j] = a + j - 1
    BY <1>0, RunOf
  <1> HIDE DEF s, u, v
  <1> DEFINE w == s \o u
  <1>2. /\ w \in Seq(Nat) /\ Len(w) = n + c
        /\ \A j \in 1..(n + c) : w[j] = IF j <= n THEN s[j] ELSE u[j - n]
    <2>1. s \in Seq(Nat) /\ Len(s) = n /\ u \in Seq(Nat) /\ Len(u) = c
      BY <1>1
    <2>2. /\ w \in Seq(Nat) /\ Len(w) = Len(s) + Len(u)
          /\ \A j \in 1..(Len(s) + Len(u)) :
                w[j] = IF j <= Len(s) THEN s[j] ELSE u[j - Len(s)]
      BY <2>1, ConcatProperties
    <2> HIDE DEF w
    <2> QED
      BY <2>1, <2>2
  <1> HIDE DEF w
  <1>3. \A j \in 1..(n + c) : w[j] = v[j]
    <2> SUFFICES ASSUME NEW j \in 1..(n + c) PROVE w[j] = v[j]
      OBVIOUS
    <2>1. v[j] = a + j - 1
      BY <1>1
    <2>2. CASE j <= n
      BY <1>1, <1>2, <2>1, <2>2
    <2>3. CASE j > n
      <3>1. j - n \in 1..c
        BY <2>3
      <3>2. u[j - n] = a + n + (j - n) - 1
        BY <1>1, <3>1
      <3>3. ~(j <= n)
        BY <2>3
      <3>4. w[j] = u[j - n]
        BY <1>2, <3>3
      <3>5. a + n + (j - n) - 1 = a + j - 1
        OBVIOUS
      <3> QED
        BY <2>1, <3>2, <3>4, <3>5
    <2> QED
      BY <2>2, <2>3
  <1> QED
    BY <1>1, <1>2, <1>3, SeqEqual DEF s, u, v, w

-----------------------------------------------------------------------------
\* What a step does to the packets of the ring.

\* Steps that leave the ring alone.
LEMMA RingKept ==
    ASSUME UNCHANGED ring
    PROVE  /\ mElementsFilled' = mElementsFilled
           /\ \A i : Nth(i)' = Nth(i)
  BY DEF ring, Nth

\* The parsed packet of a receive stream's request.
Parsed(r) == [timestamp |-> r.timestamp, flags |-> r.flags, data |-> r.data]

\* push_packet, with a slot to spare and with none.
LEMMA PushPacketMoves ==
    ASSUME IInv, NEW t \in PktPushers, PushPacket(t)
    PROVE  \E p \in Packet, f \in Nat :
              /\ p = Parsed(req[t]) /\ f = mElementsFilled
              /\ Len(p.data) = mPktSize
              /\ mLast = 0
              /\ \/ /\ f < mBufferSize /\ mElementsFilled' = f + 1
                    /\ UNCHANGED <<mHead, mFirst>>
                    /\ \A i \in 1..f : Nth(i)' = Nth(i)
                    /\ Nth(f + 1)' = p
                 \/ /\ f = mBufferSize /\ mElementsFilled' = f /\ mFirst' = 0 /\ f > 0
                    /\ \A i \in 1..(f - 1) : Nth(i)' = Nth(i + 1)
                    /\ Nth(f)' = p
  <1> DEFINE p == Parsed(req[t])
  <1>1. t \in Threads /\ SamplePushers = {} /\ pc[t] # "idle" /\ mLast = 0
    BY ThreadsAssumption DEF PushPacket, Running, Threads, IInv, DirectionsOK
  <1>2. req[t] \in Requests /\ Len(req[t].data) = mPktSize
    BY <1>1 DEF IInv, TypeOK, CallsOK
  <1>3. p \in Packet /\ Len(p.data) = mPktSize
    BY <1>2 DEF Requests, Packet, Parsed
  <1>4. /\ mBuffer' = [mBuffer EXCEPT ![mTail] = p]
        /\ UNCHANGED <<mPktSize, mBufferSize>>
    BY DEF PushPacket, Parsed
  <1>5. PICK f \in Nat : f = mElementsFilled
    BY IndexFacts
  <1>6. f \in 0..mBufferSize /\ mBufferSize \in Nat \ {0}
    BY <1>5, IndexFacts
  <1> HIDE DEF p
  <1>7. CASE f < mBufferSize
    <2>1. /\ mElementsFilled' = f + 1 /\ UNCHANGED <<mHead, mFirst>>
      BY <1>5, <1>6, <1>7 DEF PushPacket, UseFreeSlot
    <2>2. /\ \A i \in 1..f : Nth(i)' = Nth(i)
          /\ Nth(f + 1)' = p
      BY <1>3, <1>4, <1>5, <1>7, <2>1, EnterMoves
    <2> QED
      BY <1>1, <1>3, <1>5, <1>7, <2>1, <2>2 DEF p
  <1>8. CASE f = mBufferSize
    <2>1. mElementsFilled' = f /\ mFirst' = 0 /\ mHead' = Next1(mHead)
      BY <1>5, <1>6, <1>8 DEF PushPacket, DropOldest
    <2>2. /\ \A i \in 1..(f - 1) : Nth(i)' = Nth(i + 1)
          /\ Nth(f)' = p
      BY <1>3, <1>4, <1>5, <1>8, <2>1, DropMoves
    <2> QED
      BY <1>1, <1>3, <1>5, <1>6, <1>8, <2>1, <2>2 DEF p
  <1> QED
    BY <1>6, <1>7, <1>8

\* One pass of push_samples: the open slot grows by cnt samples, and becomes
\* the last packet or stays open.
LEMMA PushChunkMoves ==
    ASSUME IInv, NEW t \in SamplePushers, PushChunk(t)
    PROVE  \E slot \in Packet, cnt \in Nat \ {0}, f \in Nat :
              /\ f = mElementsFilled /\ f < mBufferSize /\ mFirst = 0 /\ mFirst' = 0
              /\ slot.timestamp = SlotTimestamp(req[t])
              /\ slot.data = SlotData(req[t], cnt)
              /\ Len(slot.data) = mLast + cnt /\ mLast + cnt \in 1..mPktSize
              /\ req[t].done + cnt <= Len(req[t].data)
              /\ req' = [req EXCEPT ![t] = [req[t] EXCEPT !.done = req[t].done + cnt]]
              /\ clock' = req[t].timestamp + req[t].done + cnt
              /\ \A i \in 1..f : Nth(i)' = Nth(i)
              /\ \/ /\ mLast + cnt = mPktSize \/ "END_BURST" \in slot.flags
                    /\ mElementsFilled' = f + 1 /\ mLast' = 0
                    /\ Nth(f + 1)' = slot
                 \/ /\ mLast + cnt < mPktSize
                    /\ mElementsFilled' = f /\ mLast' = mLast + cnt
                    /\ mBuffer'[mTail'] = slot
              /\ UNCHANGED <<mPktSize, mBufferSize>>
  <1>1. PICK slot \in Packet, cnt \in Nat \ {0} :
              /\ slot.timestamp = SlotTimestamp(req[t])
              /\ slot.data = SlotData(req[t], cnt)
              /\ Len(slot.data) = mLast + cnt /\ mLast + cnt \in 1..mPktSize
              /\ req[t].done + cnt <= Len(req[t].data)
              /\ mBuffer' = [mBuffer EXCEPT ![mTail] = slot]
              /\ req' = [req EXCEPT ![t] = [req[t] EXCEPT !.done = req[t].done + cnt]]
              /\ clock' = req[t].timestamp + req[t].done + cnt
              /\ \/ /\ mLast + cnt = mPktSize \/ "END_BURST" \in slot.flags
                    /\ mElementsFilled' = mElementsFilled + 1
                    /\ mTail' = Next1(mTail) /\ mLast' = 0
                 \/ /\ mLast + cnt < mPktSize
                    /\ mElementsFilled' = mElementsFilled
                    /\ mTail' = mTail /\ mLast' = mLast + cnt
    BY ChunkSlot
  <1>2. PICK f \in Nat : f = mElementsFilled
    BY IndexFacts
  <1>3. /\ f < mBufferSize /\ mFirst = 0
        /\ UNCHANGED <<mPktSize, mBufferSize, mHead, mFirst>>
    BY <1>2, ThreadsAssumption DEF PushChunk, IInv, DirectionsOK
  <1>4. (\A i \in 1..f : Nth(i)' = Nth(i)) /\ Nth(f + 1)' = slot
    BY <1>1, <1>2, <1>3, EnterMoves
  <1>5. mBuffer'[mTail] = slot
    BY <1>1, IndexFacts
  <1> QED
    BY <1>1, <1>2, <1>3, <1>4, <1>5

\* The call of pop_packet takes the first packet.
LEMMA PopPacketMoves ==
    ASSUME IInv, NEW t \in PktPoppers, PopPacket(t)
    PROVE  \E f \in Nat \ {0} :
              /\ f = mElementsFilled /\ mElementsFilled' = f - 1
              /\ mFirst = 0 /\ mFirst' = 0
              /\ \A i \in 1..(f - 1) : Nth(i)' = Nth(i + 1)
              /\ mLast > 0 => mBuffer'[mTail] = mBuffer[mTail]
              /\ UNCHANGED <<mPktSize, mBufferSize, mTail, mLast, clock>>
  <1>1. /\ mElementsFilled > 0
        /\ mBuffer' = Vacate(mHead) /\ mHead' = Next1(mHead)
        /\ mElementsFilled' = mElementsFilled - 1
        /\ UNCHANGED <<mPktSize, mBufferSize, mTail, mFirst, mLast, clock>>
    BY DEF PopPacket
  <1>2. PICK f \in Nat \ {0} : f = mElementsFilled
    BY <1>1, IndexFacts
  <1>3. mFirst = 0
    BY ThreadsAssumption DEF IInv, DirectionsOK
  <1> QED
    BY <1>1, <1>2, <1>3, LeaveMoves

\* One pass of pop_samples takes the next n samples of the first packet, and
\* with the last of them the packet.
LEMMA PopChunkMoves ==
    ASSUME IInv, NEW t \in SamplePoppers, PopChunk(t)
    PROVE  \E n \in Nat \ {0}, f \in Nat \ {0} :
              /\ f = mElementsFilled
              /\ n <= Len(mBuffer[mHead].data) - mFirst
              /\ req' = [req EXCEPT ![t] =
                     Request(IF req[t].data = <<>> THEN FirstTimestamp
                                                   ELSE req[t].timestamp, {},
                             req[t].data \o SubSeq(mBuffer[mHead].data, mFirst + 1,
                                                   mFirst + n),
                             req[t].count, req[t].patient)]
              /\ mLast = 0
              /\ UNCHANGED <<mPktSize, mBufferSize, mLast>>
              /\ \/ /\ n = Len(mBuffer[mHead].data) - mFirst
                    /\ mElementsFilled' = f - 1 /\ mFirst' = 0
                    /\ \A i \in 1..(f - 1) : Nth(i)' = Nth(i + 1)
                 \/ /\ n < Len(mBuffer[mHead].data) - mFirst
                    /\ mFirst' = mFirst + n
                    /\ UNCHANGED <<mBuffer, mHead, mElementsFilled>>
  <1> DEFINE r == req[t]
             d == mBuffer[mHead].data
             want == r.count - Len(r.data)
             cntbuf == Len(d) - mFirst
             n == IF want > cntbuf THEN cntbuf ELSE want
  <1>1. t \in Threads /\ SamplePushers = {} /\ mLast = 0 /\ pc[t] # "idle" /\ pc[t] # "notify"
    BY ThreadsAssumption DEF PopChunk, Running, Threads, IInv, DirectionsOK
  <1>2. want \in Nat \ {0}
    <2>1. r \in Requests /\ Len(r.data) < r.count
      BY <1>1 DEF IInv, TypeOK, CallsOK
    <2> HIDE DEF r
    <2> QED
      BY <2>1 DEF Requests
  <1>3. mElementsFilled > 0
    BY DEF PopChunk
  <1>4. cntbuf \in Nat \ {0} /\ mFirst \in Nat
    <2>1. mBuffer[mHead] \in Packet /\ mFirst \in Nat /\ mFirst < Len(d)
      BY <1>3, IndexFacts, HeadPacket
    <2>2. Len(d) \in Nat
      BY <2>1 DEF Packet
    <2> HIDE DEF d
    <2> QED
      BY <2>1, <2>2
  <1>5. n \in Nat \ {0} /\ n <= cntbuf
    <2> HIDE DEF want, cntbuf
    <2> QED
      BY <1>2, <1>4
  <1>6. PICK f \in Nat \ {0} : f = mElementsFilled
    BY <1>3, IndexFacts
  <1>7. /\ req' = [req EXCEPT ![t] =
                     Request(IF r.data = <<>> THEN FirstTimestamp ELSE r.timestamp, {},
                             r.data \o SubSeq(d, mFirst + 1, mFirst + n),
                             r.count, r.patient)]
        /\ mBuffer' = IF n = cntbuf THEN Vacate(mHead) ELSE mBuffer
        /\ mHead' = IF n = cntbuf THEN Next1(mHead) ELSE mHead
        /\ mFirst' = IF n = cntbuf THEN 0 ELSE mFirst + n
        /\ mElementsFilled' = IF n = cntbuf THEN mElementsFilled - 1 ELSE mElementsFilled
        /\ UNCHANGED <<mPktSize, mBufferSize, mTail, mLast>>
    BY DEF PopChunk
  <1> HIDE DEF n, r
  <1>8. CASE n = cntbuf
    <2>1. \A i \in 1..(f - 1) : Nth(i)' = Nth(i + 1)
      BY <1>6, <1>7, <1>8, LeaveMoves
    <2> QED
      BY <1>1, <1>5, <1>6, <1>7, <1>8, <2>1 DEF r
  <1>9. CASE n # cntbuf
    <2>1. n < cntbuf
      <3> HIDE DEF cntbuf
      <3> QED
        BY <1>4, <1>5, <1>9
    <2> QED
      BY <1>1, <1>5, <1>6, <1>7, <1>9, <2>1 DEF r
  <1> QED
    BY <1>8, <1>9

-----------------------------------------------------------------------------
\* ReadTimestampIsFirstSample.

\* Data that starts at time ts and goes on without a hole.
Consecutive(ts, data) == ts \in Nat /\ data = Samples(ts, Len(data))

Runs == {p \in Packet : Consecutive(p.timestamp, p.data)}

\* Every packet of a receive FIFO is a run of samples, also the one on its way
\* in, and what a reader has collected is stamped with its first sample.
ReadOK == /\ \A i \in 1..mElementsFilled : Nth(i) \in Runs
          /\ \A t \in PktPushers : pc[t] # "idle" => Parsed(req[t]) \in Runs
          /\ ReadTimestampIsFirstSample

LEMMA ReadOKInit == Init => ReadOK
  BY DEF Init, ReadOK, ReadTimestampIsFirstSample, Threads, NoCall, Request

\* A step that leaves the ring alone and ends a call or keeps its request.
LEMMA ReadOKKept ==
    ASSUME IInv, ReadOK, UNCHANGED ring,
           \A t \in Threads : \/ req'[t] = NoCall /\ pc'[t] = "idle"
                              \/ req'[t] = req[t] /\ (pc[t] = "idle" => pc'[t] = "idle")
    PROVE  ReadOK'
  <1>1. \A i \in 1..mElementsFilled' : Nth(i)' \in Runs
    BY RingKept DEF ReadOK
  <1>2. \A t \in PktPushers : pc'[t] # "idle" => Parsed(req'[t]) \in Runs
    BY DEF ReadOK, Threads
  <1>3. ReadTimestampIsFirstSample'
    BY DEF ReadOK, ReadTimestampIsFirstSample, Threads, NoCall, Request
  <1> QED
    BY <1>1, <1>2, <1>3 DEF ReadOK

\* A call begins, with a run to push or nothing collected yet.
LEMMA ReadOKCall ==
    ASSUME IInv, ReadOK, NEW t \in Threads, NEW r \in Requests, Call(t, r),
           \/ t \in PktPushers /\ Parsed(r) \in Runs
           \/ t \notin PktPushers /\ t \notin SamplePoppers
           \/ t \notin PktPushers /\ r.data = <<>>
    PROVE  ReadOK'
  <1>1. /\ UNCHANGED ring
        /\ req' = [req EXCEPT ![t] = r] /\ pc' = [pc EXCEPT ![t] = "run"]
        /\ req \in [Threads -> Requests] /\ pc \in [Threads -> PC]
    BY DEF Call, IInv, TypeOK
  <1>2. \A i \in 1..mElementsFilled' : Nth(i)' \in Runs
    BY <1>1, RingKept DEF ReadOK
  <1>3. \A u \in PktPushers : pc'[u] # "idle" => Parsed(req'[u]) \in Runs
    BY <1>1 DEF ReadOK, Threads
  <1>4. ReadTimestampIsFirstSample'
    BY <1>1, ThreadsAssumption DEF ReadOK, ReadTimestampIsFirstSample, Threads
  <1> QED
    BY <1>2, <1>3, <1>4 DEF ReadOK

\* The head of what a reader collects is the head of its first portion.
LEMMA HeadOfConcat ==
    ASSUME NEW a \in Seq(Nat), NEW b \in Seq(Nat), a # <<>>
    PROVE  Head(a \o b) = Head(a)
  <1>1. Len(a) \in Nat \ {0} /\ Len(b) \in Nat
    BY EmptySeq
  <1>2. /\ Len(a \o b) = Len(a) + Len(b) /\ a \o b \in Seq(Nat)
        /\ \A i \in 1..(Len(a) + Len(b)) :
              (a \o b)[i] = IF i <= Len(a) THEN a[i] ELSE b[i - Len(a)]
    BY ConcatProperties
  <1>3. (a \o b)[1] = a[1]
    BY <1>1, <1>2
  <1>4. a \o b # <<>>
    BY <1>1, <1>2
  <1> QED
    BY <1>2, <1>3, <1>4, HeadTailProperties

LEMMA HeadOfRun ==
    ASSUME NEW a \in Nat, NEW n \in Nat \ {0}
    PROVE  Head(Samples(a, n)) = a
  <1>1. /\ Samples(a, n) \in Seq(Nat) /\ Len(Samples(a, n)) = n
        /\ Samples(a, n)[1] = a
    BY RunOf
  <1> QED
    BY <1>1, HeadTailProperties

LEMMA ReadOKPushPacket ==
    ASSUME IInv, ReadOK, NEW t \in PktPushers, PushPacket(t)
    PROVE  ReadOK'
  <1>1. pc[t] # "idle" /\ pc' = [pc EXCEPT ![t] = "notify"] /\ UNCHANGED req
    BY DEF PushPacket, Running, UnlockThenNotify
  <1>2. Parsed(req[t]) \in Runs
    BY <1>1 DEF ReadOK
  <1>3. PICK f \in Nat :
              /\ f = mElementsFilled
              /\ \/ /\ f < mBufferSize /\ mElementsFilled' = f + 1
                    /\ \A i \in 1..f : Nth(i)' = Nth(i)
                    /\ Nth(f + 1)' = Parsed(req[t])
                 \/ /\ f = mBufferSize /\ mElementsFilled' = f /\ f > 0
                    /\ \A i \in 1..(f - 1) : Nth(i)' = Nth(i + 1)
                    /\ Nth(f)' = Parsed(req[t])
    BY PushPacketMoves
  <1>4. \A i \in 1..mElementsFilled' : Nth(i)' \in Runs
    <2> SUFFICES ASSUME NEW i \in 1..mElementsFilled' PROVE Nth(i)' \in Runs
      OBVIOUS
    <2>1. CASE i = mElementsFilled'
      BY <1>2, <1>3, <2>1
    <2>2. CASE i # mElementsFilled' /\ mElementsFilled' = f + 1
      <3>1. i \in 1..f
        BY <1>3, <2>2
      <3>2. Nth(i)' = Nth(i)
        BY <1>3, <2>2, <3>1
      <3> QED
        BY <1>3, <3>1, <3>2 DEF ReadOK
    <2>3. CASE i # mElementsFilled' /\ mElementsFilled' = f
      <3>1. i \in 1..(f - 1) /\ i + 1 \in 1..f
        BY <1>3, <2>3
      <3>2. Nth(i)' = Nth(i + 1)
        BY <1>3, <2>3, <3>1
      <3> QED
        BY <1>3, <3>1, <3>2 DEF ReadOK
    <2> QED
      BY <1>3, <2>1, <2>2, <2>3
  <1>5. \A u \in PktPushers : pc'[u] # "idle" => Parsed(req'[u]) \in Runs
    BY <1>1 DEF ReadOK, IInv, TypeOK, Threads
  <1>6. ReadTimestampIsFirstSample'
    BY <1>1 DEF ReadOK, ReadTimestampIsFirstSample
  <1> QED
    BY <1>4, <1>5, <1>6 DEF ReadOK

\* The oldest packet leaves for thread t, which pushes nothing.
LEMMA ReadOKLeave ==
    ASSUME IInv, ReadOK, NEW f \in Nat \ {0}, f = mElementsFilled, mElementsFilled' = f - 1,
           \A i \in 1..(f - 1) : Nth(i)' = Nth(i + 1)
    PROVE  \A i \in 1..mElementsFilled' : Nth(i)' \in Runs
  <1> SUFFICES ASSUME NEW i \in 1..(f - 1) PROVE Nth(i)' \in Runs
    OBVIOUS
  <1>1. i + 1 \in 1..f
    OBVIOUS
  <1> QED
    BY <1>1 DEF ReadOK

LEMMA ReadOKPopPacket ==
    ASSUME IInv, ReadOK, NEW t \in PktPoppers, PopPacket(t)
    PROVE  ReadOK'
  <1>1. \A i \in 1..mElementsFilled' : Nth(i)' \in Runs
    BY PopPacketMoves, ReadOKLeave
  <1>2. PktPushers = {} /\ SamplePoppers = {}
    BY ThreadsAssumption
  <1> QED
    BY <1>1, <1>2 DEF ReadOK, ReadTimestampIsFirstSample

LEMMA ReadOKPopChunk ==
    ASSUME IInv, ReadOK, NEW t \in SamplePoppers, PopChunk(t)
    PROVE  ReadOK'
  <1> DEFINE r == req[t]
             head == mBuffer[mHead]
  <1>1. PICK n \in Nat \ {0}, f \in Nat \ {0} :
              /\ f = mElementsFilled
              /\ n <= Len(head.data) - mFirst
              /\ req' = [req EXCEPT ![t] =
                     Request(IF r.data = <<>> THEN FirstTimestamp ELSE r.timestamp, {},
                             r.data \o SubSeq(head.data, mFirst + 1, mFirst + n),
                             r.count, r.patient)]
              /\ \/ /\ mElementsFilled' = f - 1
                    /\ \A i \in 1..(f - 1) : Nth(i)' = Nth(i + 1)
                 \/ UNCHANGED <<mBuffer, mHead, mElementsFilled, mBufferSize>>
    BY PopChunkMoves
  <1>2. t \in Threads /\ t \notin PktPushers /\ r \in Requests
    BY ThreadsAssumption DEF Threads, IInv, TypeOK
  <1>3. head \in Runs /\ mFirst \in Nat /\ mFirst < Len(head.data)
    <2>1. mElementsFilled > 0
      BY <1>1
    <2>2. Nth(1) = head /\ 1 \in 1..mElementsFilled /\ mFirst < Len(head.data)
      BY <2>1, HeadPacket
    <2>3. Nth(1) \in Runs
      BY <2>2 DEF ReadOK
    <2> QED
      BY <2>2, <2>3, IndexFacts
  <1>4. \A i \in 1..mElementsFilled' : Nth(i)' \in Runs
    <2>1. CASE mElementsFilled' = f - 1 /\ \A i \in 1..(f - 1) : Nth(i)' = Nth(i + 1)
      BY <1>1, <2>1, ReadOKLeave
    <2>2. CASE UNCHANGED <<mBuffer, mHead, mElementsFilled, mBufferSize>>
      BY <2>2 DEF ReadOK, Nth
    <2> QED
      BY <1>1, <2>1, <2>2
  <1>5. \A u \in PktPushers : pc'[u] # "idle" => Parsed(req'[u]) \in Runs
    <2> SUFFICES ASSUME NEW u \in PktPushers, pc'[u] # "idle"
                 PROVE  Parsed(req'[u]) \in Runs
      OBVIOUS
    <2>1. u \in Threads /\ u # t
      BY <1>2 DEF Threads
    <2>2. req'[u] = req[u]
      BY <1>1, <2>1 DEF IInv, TypeOK
    <2>3. pc'[u] = pc[u]
      BY <2>1 DEF PopChunk, KeepLock, UnlockThenNotify, IInv, TypeOK
    <2> QED
      BY <2>2, <2>3 DEF ReadOK
  <1>6. ReadTimestampIsFirstSample'
    <2> DEFINE part == SubSeq(head.data, mFirst + 1, mFirst + n)
    <2>1. part = Samples(FirstTimestamp, n) /\ FirstTimestamp \in Nat
      <3> DEFINE len == Len(head.data)
      <3>1. /\ head.timestamp \in Nat /\ head.data = Samples(head.timestamp, len)
            /\ len \in Nat
        BY <1>3 DEF Runs, Consecutive, Packet
      <3>2. mFirst \in 0..len /\ n \in 0..(len - mFirst)
        BY <1>1, <1>3, <3>1
      <3> HIDE DEF len
      <3>3. SubSeq(Samples(head.timestamp, len), mFirst + 1, mFirst + n)
              = Samples(head.timestamp + mFirst, n)
        BY <3>1, <3>2, RunOfRun
      <3> QED
        BY <1>3, <3>1, <3>3 DEF FirstTimestamp
    <2>2. part \in Seq(Nat) /\ part # <<>> /\ Head(part) = FirstTimestamp
      <3>1. Samples(FirstTimestamp, n) \in Seq(Nat) /\ Len(Samples(FirstTimestamp, n)) = n
        BY <2>1, RunOf
      <3>2. Samples(FirstTimestamp, n) # <<>>
        BY <3>1
      <3> HIDE DEF part
      <3> QED
        BY <2>1, <3>1, <3>2, HeadOfRun
    <2>3. r.data \in Seq(Nat)
      BY <1>2 DEF Requests
    <2>4. r.data # <<>> => r.timestamp = Head(r.data)
      BY DEF ReadOK, ReadTimestampIsFirstSample
    <2>5. /\ req'[t].timestamp = IF r.data = <<>> THEN FirstTimestamp ELSE r.timestamp
          /\ req'[t].data = r.data \o part
      BY <1>1, <1>2 DEF Request, IInv, TypeOK
    <2> HIDE DEF part, r
    <2>6. Head(r.data \o part) = IF r.data = <<>> THEN Head(part) ELSE Head(r.data)
      <3>1. CASE r.data = <<>>
        BY <2>2, <3>1, ConcatEmptySeq
      <3>2. CASE r.data # <<>>
        BY <2>2, <2>3, <3>2, HeadOfConcat
      <3> QED
        BY <3>1, <3>2
    <2>7. req'[t].timestamp = Head(req'[t].data)
      BY <2>2, <2>4, <2>5, <2>6
    <2>8. \A u \in SamplePoppers : u # t => req'[u] = req[u]
      BY <1>1 DEF IInv, TypeOK, Threads
    <2> QED
      BY <2>7, <2>8 DEF ReadOK, ReadTimestampIsFirstSample
  <1> QED
    BY <1>4, <1>5, <1>6 DEF ReadOK

\* The calls begin with consecutive samples to push, or nothing collected.
LEMMA SubmittedRuns ==
    ASSUME IInv, NEW n \in Nat, NEW g \in Gaps
    PROVE  /\ clock + g * mPktSize \in Nat
           /\ \A f \in SUBSET {"SYNC_TIMESTAMP", "END_BURST"}, p \in BOOLEAN :
                 LET r == Request(clock + g * mPktSize, f, Samples(clock + g * mPktSize, n), 0, p)
                 IN  r \in Requests /\ Parsed(r) \in Runs
  <1>1. clock \in Nat /\ mPktSize \in Nat /\ g \in Nat
    BY SizesAssumption DEF IInv, TypeOK
  <1>2. PICK ts \in Nat : ts = clock + g * mPktSize
    BY <1>1
  <1>3. Samples(ts, n) \in Seq(Nat) /\ Len(Samples(ts, n)) = n
    BY RunOf
  <1> QED
    BY <1>2, <1>3 DEF Request, Requests, Parsed, Runs, Consecutive, Packet

LEMMA ReadOKCalls ==
    ASSUME IInv, ReadOK, SamplePushers = {}, NEW t \in Threads,
           \/ t \in PktPushers /\ PushPacketCall(t)
           \/ t \in SamplePoppers /\ PopSamplesCall(t)
           \/ t \in PktPoppers /\ PopPacketCall(t)
    PROVE  ReadOK'
  <1>1. CASE t \in PktPushers /\ PushPacketCall(t)
    <2>1. PICK g \in Gaps :
            Call(t, Request(clock + g * mPktSize, {}, Samples(clock + g * mPktSize, mPktSize), 0, TRUE))
      BY <1>1 DEF PushPacketCall
    <2> DEFINE r == Request(clock + g * mPktSize, {}, Samples(clock + g * mPktSize, mPktSize), 0, TRUE)
    <2>2. r \in Requests /\ Parsed(r) \in Runs
      BY SubmittedRuns, IndexFacts
    <2> HIDE DEF r
    <2> QED
      BY <1>1, <2>1, <2>2, ReadOKCall DEF r
  <1>2. CASE t \in SamplePoppers /\ PopSamplesCall(t)
    <2>1. PICK n \in Counts, p \in BOOLEAN : Call(t, Request(0, {}, <<>>, n, p))
      BY <1>2 DEF PopSamplesCall
    <2>2. Request(0, {}, <<>>, n, p) \in Requests /\ Request(0, {}, <<>>, n, p).data = <<>>
      BY SizesAssumption DEF Request, Requests
    <2>3. t \notin PktPushers
      BY <1>2, ThreadsAssumption
    <2> QED
      BY <2>1, <2>2, <2>3, ReadOKCall
  <1>3. CASE t \in PktPoppers /\ PopPacketCall(t)
    <2>1. t \notin PktPushers /\ t \notin SamplePoppers
      BY <1>3, ThreadsAssumption
    <2> QED
      BY <1>3, <2>1, ReadOKCall, NoCallType DEF PopPacketCall
  <1> QED
    BY <1>1, <1>2, <1>3

LEMMA ReadOKBookkeeping ==
    ASSUME IInv, ReadOK, NEW t \in Threads,
           \/ NotifyOne(t) \/ Expire(t)
           \/ PopWait(t) \/ PopTimeout(t)
    PROVE  ReadOK'
  <1>1. UNCHANGED ring
    BY DEF NotifyOne, Expire, PopWait, PopTimeout, WaitFor
  <1>2. pc \in [Threads -> PC] /\ req \in [Threads -> Requests]
    BY DEF IInv, TypeOK
  <1>3. \A u \in Threads : \/ req'[u] = NoCall /\ pc'[u] = "idle"
                           \/ req'[u] = req[u] /\ (pc[u] = "idle" => pc'[u] = "idle")
    <2>1. CASE NotifyOne(t)
      BY <1>2, <2>1 DEF NotifyOne
    <2>2. CASE Expire(t)
      BY <1>2, <2>2 DEF Expire
    <2>3. CASE PopWait(t)
      BY <1>2, <2>3 DEF PopWait, WaitFor, Running
    <2>4. CASE PopTimeout(t)
      BY <1>2, <2>4 DEF PopTimeout, Leave
    <2> QED
      BY <2>1, <2>2, <2>3, <2>4
  <1> QED
    BY <1>1, <1>3, ReadOKKept

LEMMA ReadOKNext ==
    ASSUME IInv, ReadOK, SamplePushers = {}, [Next]_vars
    PROVE  ReadOK'
  <1>1. CASE \E t \in PktPushers : PushPacketCall(t) \/ PushPacketStep(t)
    BY <1>1, ReadOKCalls, ReadOKPushPacket, ReadOKBookkeeping DEF PushPacketStep, Threads
  <1>2. CASE \E t \in SamplePoppers : PopSamplesCall(t) \/ PopSamplesStep(t)
    BY <1>2, ReadOKCalls, ReadOKPopChunk, ReadOKBookkeeping DEF PopSamplesStep, Threads
  <1>3. CASE \E t \in PktPoppers : PopPacketCall(t) \/ PopPacketStep(t)
    BY <1>3, ReadOKCalls, ReadOKPopPacket, ReadOKBookkeeping DEF PopPacketStep, Threads
  <1>4. CASE \E t \in Threads : Expire(t)
    BY <1>4, ReadOKBookkeeping
  <1>5. CASE GetInfo \/ UNCHANGED vars
    <2>1. UNCHANGED <<ring, req, pc>>
      BY <1>5 DEF GetInfo, vars
    <2> QED
      BY <2>1, ReadOKKept
  <1>6. CASE Clear \/ ResizeClear \/ ResizeAllocate
    <2>1. mElementsFilled' = 0 /\ UNCHANGED <<req, pc>>
      BY <1>6 DEF Clear, ResizeClear, ResizeAllocate, ClearFields, IInv, ResizeOK
    <2>2. \A i \in 1..mElementsFilled' : Nth(i)' \in Runs
      BY <2>1
    <2> QED
      BY <2>1, <2>2 DEF ReadOK, ReadTimestampIsFirstSample
  <1> QED
    BY <1>1, <1>2, <1>3, <1>4, <1>5, <1>6 DEF Next

\* Read reports the time of the first sample it returns: for any number of
\* readers and of threads that push, any sizes, wherever the packets were cut,
\* whatever was dropped or waited for, while nobody resizes the FIFO under a call.
THEOREM ReadStamped == QuietResize => (Spec => []ReadTimestampIsFirstSample)
  <1> SUFFICES ASSUME QuietResize PROVE Spec => []ReadTimestampIsFirstSample
    OBVIOUS
  <1> DEFINE Inv == IInv /\ (SamplePushers = {} => ReadOK)
  <1>1. Init => Inv
    BY InitIInv, ReadOKInit
  <1>2. Inv /\ [Next]_vars => Inv'
    BY NextIInv, ReadOKNext
  <1>3. Inv => ReadTimestampIsFirstSample
    BY ThreadsAssumption DEF ReadOK, ReadTimestampIsFirstSample
  <1> QED
    BY <1>1, <1>2, <1>3, PTL DEF Spec

-----------------------------------------------------------------------------
\* The refinement of PacketQueue.

\* A packet without its first m samples.
From(p, m) == [timestamp |-> p.timestamp + m, flags |-> p.flags,
               data |-> SubSeq(p.data, m + 1, Len(p.data))]

LEMMA FromType ==
    ASSUME NEW p \in Packet, NEW m \in 0..Len(p.data)
    PROVE  /\ From(p, m) \in Packet
           /\ Len(From(p, m).data) = Len(p.data) - m
           /\ m = 0 => From(p, m) = p
  <1>1. /\ p.timestamp \in Int /\ p.data \in Seq(Nat) /\ Len(p.data) \in Nat
        /\ p.flags \in SUBSET {"SYNC_TIMESTAMP", "END_BURST"}
        /\ p = [timestamp |-> p.timestamp, flags |-> p.flags, data |-> p.data]
    BY DEF Packet
  <1>2. PICK d \in Seq(Nat) : d = p.data
    BY <1>1
  <1>3. /\ SubSeq(d, m + 1, Len(d)) \in Seq(Nat)
        /\ Len(SubSeq(d, m + 1, Len(d))) = Len(d) - m
    <2>1. m + 1 \in Int /\ Len(d) \in Int /\ \A i \in (m + 1)..Len(d) : d[i] \in Nat
      BY <1>2
    <2>2. /\ SubSeq(d, m + 1, Len(d)) \in Seq(Nat)
          /\ Len(SubSeq(d, m + 1, Len(d))) = IF m + 1 <= Len(d) THEN Len(d) - (m + 1) + 1 ELSE 0
      BY <2>1, SubSeqProperties
    <2> QED
      BY <1>2, <2>2
  <1>4. From(p, m) \in Packet /\ Len(From(p, m).data) = Len(p.data) - m
    BY <1>1, <1>2, <1>3 DEF From, Packet
  <1>5. m = 0 => From(p, m) = p
    <2>1. SubSeq(d, 1, Len(d)) = d
      BY SubSeqFull
    <2>2. m = 0 => p.timestamp + m = p.timestamp /\ m + 1 = 1
      BY <1>1
    <2> QED
      BY <1>1, <1>2, <2>1, <2>2 DEF From
  <1> QED
    BY <1>4, <1>5

\* Taking n more samples of a packet that has lost m.
LEMMA FromFrom ==
    ASSUME NEW p \in Packet, NEW m \in Nat, NEW n \in Nat, m + n < Len(p.data)
    PROVE  From(p, m + n) = [timestamp |-> From(p, m).timestamp + n,
                             flags |-> From(p, m).flags,
                             data |-> SubSeq(From(p, m).data, n + 1, Len(From(p, m).data))]
  <1>1. p.timestamp \in Int /\ p.data \in Seq(Nat) /\ Len(p.data) \in Nat
    BY DEF Packet
  <1>2. PICK d \in Seq(Nat) : d = p.data
    BY <1>1
  <1>3. PICK l \in Nat : l = Len(d)
    BY <1>1, <1>2
  <1>4. m \in 0..l
    BY <1>2, <1>3
  <1>5. Len(From(p, m).data) = l - m /\ From(p, m).data = SubSeq(d, m + 1, l)
    BY <1>2, <1>3, <1>4, FromType DEF From
  <1>6. SubSeq(SubSeq(d, m + 1, l), n + 1, l - m) = SubSeq(d, m + n + 1, l)
    <2>1. /\ m + 1 \in 1..l /\ l \in 1..l
          /\ n + 1 \in 1..(l - (m + 1) + 1) /\ l - m \in 1..(l - (m + 1) + 1)
      BY <1>2, <1>3
    <2>2. SubSeq(SubSeq(d, m + 1, l), n + 1, l - m)
            = SubSeq(d, (m + 1) + (n + 1) - 1, (m + 1) + (l - m) - 1)
      BY <1>3, <2>1, SubSeqOfSubSeq
    <2>3. (m + 1) + (n + 1) - 1 = m + n + 1 /\ (m + 1) + (l - m) - 1 = l
      BY <1>3
    <2> QED
      BY <2>2, <2>3
  <1>7. p.timestamp + (m + n) = (p.timestamp + m) + n /\ (m + n) + 1 = m + n + 1
    BY <1>1
  <1> QED
    BY <1>2, <1>3, <1>5, <1>6, <1>7 DEF From

\* The queue's packets are the ring's, the first without what was read of it.
ContentsOK ==
    /\ Contents \in Seq(Packet)
    /\ Len(Contents) = mElementsFilled
    /\ \A i \in 1..mElementsFilled :
          Contents[i] = IF i = 1 THEN From(Nth(1), mFirst) ELSE Nth(i)
    /\ mFirst = 0 => \A i \in 1..mElementsFilled : Contents[i] = Nth(i)

LEMMA ContentsIs == IInv => ContentsOK
  <1> SUFFICES ASSUME IInv PROVE ContentsOK
    OBVIOUS
  <1>1. PICK f \in Nat : f = mElementsFilled /\ f <= mBufferSize
    BY IndexFacts
  <1>2. \A i \in 1..f : Nth(i) \in Packet
    <2> SUFFICES ASSUME NEW i \in 1..f PROVE Nth(i) \in Packet
      OBVIOUS
    <2>1. i \in 1..(f + 1) /\ i <= mBufferSize
      BY <1>1, IndexFacts
    <2> QED
      BY <1>1, <2>1, PacketTypes
  <1>3. f > 0 => Nth(1) = mBuffer[mHead] /\ mFirst \in 0..Len(Nth(1).data)
    <2> SUFFICES ASSUME f > 0 PROVE Nth(1) = mBuffer[mHead] /\ mFirst \in 0..Len(Nth(1).data)
      OBVIOUS
    <2>1. Nth(1) = mBuffer[mHead] /\ mFirst < Len(mBuffer[mHead].data) /\ mFirst \in Nat
      BY <1>1, HeadPacket, IndexFacts
    <2>2. Len(mBuffer[mHead].data) \in Nat
      BY IndexFacts DEF Packet
    <2> QED
      BY <2>1, <2>2
  <1>4. Contents = [i \in 1..f |-> IF i = 1 THEN From(mBuffer[mHead], mFirst) ELSE Nth(i)]
    BY <1>1 DEF Contents, From, FirstTimestamp, Nth
  <1>5. \A i \in 1..f : /\ Contents[i] = IF i = 1 THEN From(Nth(1), mFirst) ELSE Nth(i)
                        /\ Contents[i] \in Packet
                        /\ mFirst = 0 => Contents[i] = Nth(i)
    <2> SUFFICES ASSUME NEW i \in 1..f
                 PROVE  /\ Contents[i] = IF i = 1 THEN From(Nth(1), mFirst) ELSE Nth(i)
                        /\ Contents[i] \in Packet
                        /\ mFirst = 0 => Contents[i] = Nth(i)
      OBVIOUS
    <2>1. f > 0 /\ 1 \in 1..f
      OBVIOUS
    <2>2. From(Nth(1), mFirst) \in Packet /\ (mFirst = 0 => From(Nth(1), mFirst) = Nth(1))
      BY <1>2, <1>3, <2>1, FromType
    <2>3. Contents[i] = IF i = 1 THEN From(Nth(1), mFirst) ELSE Nth(i)
      BY <1>3, <1>4, <2>1
    <2> QED
      BY <1>2, <2>2, <2>3
  <1>6. Contents \in Seq(Packet) /\ Len(Contents) = f
    BY <1>4, <1>5
  <1> QED
    BY <1>1, <1>5, <1>6 DEF ContentsOK

\* The queue grows at its back.
LEMMA AppendIs ==
    ASSUME NEW S, NEW s \in Seq(S), NEW u \in Seq(S), NEW e \in S,
           Len(u) = Len(s) + 1, \A i \in 1..Len(s) : u[i] = s[i], u[Len(s) + 1] = e
    PROVE  u = Append(s, e) /\ u # <<>> /\ u[Len(u)] = e
  <1>1. /\ Append(s, e) \in Seq(S) /\ Len(Append(s, e)) = Len(s) + 1
        /\ \A i \in 1..(Len(s) + 1) : Append(s, e)[i] = IF i <= Len(s) THEN s[i] ELSE e
    BY AppendProperties
  <1>2. \A i \in 1..Len(u) : u[i] = Append(s, e)[i]
    OBVIOUS
  <1> QED
    BY <1>1, <1>2, SeqEqual, EmptySeq

LEMMA TailIs ==
    ASSUME NEW S, NEW s \in Seq(S), NEW u \in Seq(S), s # <<>>,
           Len(u) = Len(s) - 1, \A i \in 1..Len(u) : u[i] = s[i + 1]
    PROVE  u = Tail(s)
  <1>1. /\ Tail(s) \in Seq(S) /\ Len(Tail(s)) = Len(s) - 1
        /\ \A i \in 1..Len(Tail(s)) : Tail(s)[i] = s[i + 1]
    BY HeadTailProperties
  <1> QED
    BY <1>1, SeqEqual

LEMMA ContentsNext == IInv' => ContentsOK'
  BY ContentsIs, PTL

\* Steps that leave the ring alone stutter.
LEMMA QueueKept ==
    ASSUME UNCHANGED ring
    PROVE  UNCHANGED Queue!vars
  BY DEF ring, Queue!vars, Contents, OpenSamples, FirstTimestamp, Nth

LEMMA QueuePushPacket ==
    ASSUME IInv, IInv', NEW t \in PktPushers, PushPacket(t)
    PROVE  Queue!Next
  <1>1. ContentsOK /\ ContentsOK'
    BY ContentsIs, ContentsNext
  <1>2. PICK p \in Packet, f \in Nat :
              /\ f = mElementsFilled
              /\ Len(p.data) = mPktSize
              /\ mLast = 0
              /\ \/ /\ f < mBufferSize /\ mElementsFilled' = f + 1
                    /\ UNCHANGED <<mHead, mFirst>>
                    /\ \A i \in 1..f : Nth(i)' = Nth(i)
                    /\ Nth(f + 1)' = p
                 \/ /\ f = mBufferSize /\ mElementsFilled' = f /\ mFirst' = 0 /\ f > 0
                    /\ \A i \in 1..(f - 1) : Nth(i)' = Nth(i + 1)
                    /\ Nth(f)' = p
    BY PushPacketMoves
  <1>3. UNCHANGED <<mPktSize, mBufferSize, mLast>> /\ mLast = 0
    BY <1>2 DEF PushPacket
  <1>4. PICK q \in Seq(Packet) : q = Contents
    BY <1>1 DEF ContentsOK
  <1>5. PICK u \in Seq(Packet) : u = Contents'
    BY <1>1 DEF ContentsOK
  <1>6. Len(q) = f /\ mBufferSize \in Nat
    BY <1>1, <1>2, <1>4, IndexFacts DEF ContentsOK
  <1>7. u = Append(IF Len(q) = mBufferSize THEN Tail(q) ELSE q, p) /\ u # <<>> /\ u[Len(u)] = p
    <2>1. CASE f < mBufferSize
      <3>1. /\ Len(u) = f + 1 /\ UNCHANGED mFirst
            /\ \A i \in 1..f : Nth(i)' = Nth(i)
            /\ Nth(f + 1)' = p
        BY <1>1, <1>2, <1>5, <2>1 DEF ContentsOK
      <3>2. /\ \A i \in 1..f : q[i] = IF i = 1 THEN From(Nth(1), mFirst) ELSE Nth(i)
            /\ \A i \in 1..(f + 1) : u[i] = IF i = 1 THEN From(Nth(1)', mFirst) ELSE Nth(i)'
        BY <1>1, <1>2, <1>4, <1>5, <2>1, <3>1 DEF ContentsOK
      <3>3. \A i \in 1..f : u[i] = q[i]
        BY <3>1, <3>2
      <3>4. u[f + 1] = p
        <4>1. f = 0 => mFirst = 0
          BY <1>2, IndexFacts DEF IInv, RingOK, PositionsInBounds
        <4>2. Len(p.data) \in Nat /\ 0 \in 0..Len(p.data)
          BY DEF Packet
        <4>3. From(p, 0) = p
          BY <4>2, FromType
        <4>4. f + 1 \in 1..(f + 1) /\ (f + 1 = 1 => f = 0)
          OBVIOUS
        <4> QED
          BY <3>1, <3>2, <4>1, <4>3, <4>4
      <3>5. u = Append(q, p) /\ u # <<>> /\ u[Len(u)] = p
        BY <1>6, <3>1, <3>3, <3>4, AppendIs
      <3> QED
        BY <1>6, <2>1, <3>5
    <2>2. CASE f = mBufferSize
      <3>1. /\ Len(u) = f /\ mFirst' = 0 /\ f > 0
            /\ \A i \in 1..(f - 1) : Nth(i)' = Nth(i + 1)
            /\ Nth(f)' = p
        BY <1>1, <1>2, <1>5, <2>2 DEF ContentsOK
      <3>2. /\ \A i \in 1..f : q[i] = IF i = 1 THEN From(Nth(1), mFirst) ELSE Nth(i)
            /\ \A i \in 1..f : u[i] = Nth(i)'
        BY <1>1, <1>2, <1>4, <1>5, <2>2, <3>1 DEF ContentsOK
      <3>3. PICK v \in Seq(Packet) : v = Tail(q)
        <4>1. q # <<>>
          BY <1>6, <3>1
        <4>2. Tail(q) \in Seq(Packet)
          BY <4>1, HeadTailProperties
        <4> QED
          BY <4>2
      <3>4. Len(v) = f - 1 /\ \A i \in 1..(f - 1) : v[i] = q[i + 1]
        BY <1>6, <3>1, <3>3, HeadTailProperties, EmptySeq
      <3>5. \A i \in 1..(f - 1) : u[i] = v[i]
        <4> SUFFICES ASSUME NEW i \in 1..(f - 1) PROVE u[i] = v[i]
          OBVIOUS
        <4>1. i + 1 \in 1..f /\ i + 1 # 1 /\ i \in 1..f
          OBVIOUS
        <4> QED
          BY <3>1, <3>2, <3>4, <4>1
      <3>6. u[f] = p
        BY <3>1, <3>2
      <3>7. Len(u) = Len(v) + 1 /\ f = Len(v) + 1
        BY <3>1, <3>4
      <3>8. u = Append(v, p) /\ u # <<>> /\ u[Len(u)] = p
        BY <3>4, <3>5, <3>6, <3>7, AppendIs
      <3> QED
        BY <1>6, <2>2, <3>3, <3>8
    <2> QED
      BY <1>2, <2>1, <2>2
  <1>8. OpenSamples' = OpenSamples
    BY <1>3 DEF OpenSamples
  <1>9. /\ Contents' # <<>> /\ Contents'[Len(Contents')] = p
        /\ Contents' = Append(IF Len(Contents) = mBufferSize THEN Tail(Contents) ELSE Contents, p)
    BY <1>4, <1>5, <1>7
  <1>10. Queue!Put(p)
    BY <1>2, <1>3, <1>8, <1>9 DEF Queue!Put
  <1> QED
    BY <1>9, <1>10 DEF Queue!Next

\* The oldest packet leaves, and the open slot stays as it is.
LEMMA QueueLeave ==
    ASSUME IInv, IInv', NEW f \in Nat \ {0}, f = mElementsFilled, mElementsFilled' = f - 1,
           mFirst' = 0, \A i \in 1..(f - 1) : Nth(i)' = Nth(i + 1),
           OpenSamples' = OpenSamples, UNCHANGED <<mPktSize, mBufferSize>>
    PROVE  Queue!TakeAll
  <1>1. ContentsOK /\ ContentsOK'
    BY ContentsIs, ContentsNext
  <1>2. PICK q \in Seq(Packet) : q = Contents
    BY <1>1 DEF ContentsOK
  <1>3. PICK u \in Seq(Packet) : u = Contents'
    BY <1>1 DEF ContentsOK
  <1>4. /\ Len(q) = f /\ Len(u) = f - 1
        /\ \A i \in 1..f : q[i] = IF i = 1 THEN From(Nth(1), mFirst) ELSE Nth(i)
        /\ \A i \in 1..(f - 1) : u[i] = Nth(i)'
    BY <1>1, <1>2, <1>3 DEF ContentsOK
  <1>5. \A i \in 1..(f - 1) : u[i] = q[i + 1]
    <2> SUFFICES ASSUME NEW i \in 1..(f - 1) PROVE u[i] = q[i + 1]
      OBVIOUS
    <2>1. i + 1 \in 1..f /\ i + 1 # 1
      OBVIOUS
    <2> QED
      BY <1>4, <2>1
  <1>6. q # <<>>
    BY <1>4
  <1>7. u = Tail(q)
    BY <1>4, <1>5, <1>6, TailIs
  <1> QED
    BY <1>2, <1>3, <1>6, <1>7 DEF Queue!TakeAll

LEMMA QueuePopPacket ==
    ASSUME IInv, IInv', NEW t \in PktPoppers, PopPacket(t)
    PROVE  Queue!Next
  <1>1. PICK f \in Nat \ {0} :
              /\ f = mElementsFilled /\ mElementsFilled' = f - 1
              /\ mFirst' = 0
              /\ \A i \in 1..(f - 1) : Nth(i)' = Nth(i + 1)
              /\ mLast > 0 => mBuffer'[mTail] = mBuffer[mTail]
              /\ UNCHANGED <<mPktSize, mBufferSize, mTail, mLast, clock>>
    BY PopPacketMoves
  <1>2. OpenSamples' = OpenSamples
    BY <1>1, IndexFacts DEF OpenSamples
  <1>3. Queue!TakeAll
    BY <1>1, <1>2, QueueLeave
  <1> QED
    BY <1>3 DEF Queue!Next

LEMMA QueuePopChunk ==
    ASSUME IInv, IInv', NEW t \in SamplePoppers, PopChunk(t)
    PROVE  Queue!Next
  <1> DEFINE head == mBuffer[mHead]
  <1>1. PICK n \in Nat \ {0}, f \in Nat \ {0} :
              /\ f = mElementsFilled
              /\ mLast = 0
              /\ UNCHANGED <<mPktSize, mBufferSize, mLast>>
              /\ \/ /\ mElementsFilled' = f - 1 /\ mFirst' = 0
                    /\ \A i \in 1..(f - 1) : Nth(i)' = Nth(i + 1)
                 \/ /\ n < Len(head.data) - mFirst
                    /\ mFirst' = mFirst + n
                    /\ UNCHANGED <<mBuffer, mHead, mElementsFilled>>
    BY PopChunkMoves
  <1>2. OpenSamples' = OpenSamples
    BY <1>1 DEF OpenSamples
  <1>3. CASE mElementsFilled' = f - 1 /\ mFirst' = 0 /\ \A i \in 1..(f - 1) : Nth(i)' = Nth(i + 1)
    <2>1. Queue!TakeAll
      BY <1>1, <1>2, <1>3, QueueLeave
    <2> QED
      BY <2>1 DEF Queue!Next
  <1>4. CASE /\ n < Len(head.data) - mFirst /\ mFirst' = mFirst + n
             /\ UNCHANGED <<mBuffer, mHead, mElementsFilled>>
    <2>1. ContentsOK /\ ContentsOK'
      BY ContentsIs, ContentsNext
    <2>2. PICK q \in Seq(Packet) : q = Contents
      BY <2>1 DEF ContentsOK
    <2>3. PICK u \in Seq(Packet) : u = Contents'
      BY <2>1 DEF ContentsOK
    <2>4. PICK h \in Packet : h = head /\ h = Nth(1) /\ Len(h.data) \in 1..mPktSize
      <3>1. mElementsFilled > 0
        BY <1>1
      <3>2. Nth(1) = head /\ 1 \in 1..mElementsFilled
        BY <3>1, HeadPacket
      <3>3. Len(Nth(1).data) \in 1..mPktSize
        BY <3>2 DEF IInv, RingOK, ShortPacketsEndBursts
      <3> QED
        BY <3>2, <3>3, IndexFacts
    <2>5. \A i : Nth(i)' = Nth(i)
      BY <1>1, <1>4 DEF Nth
    <2>6. PICK m \in Nat : m = mFirst /\ m + n < Len(h.data) /\ m \in 0..Len(h.data)
      <3>1. mFirst \in Nat /\ Len(h.data) \in Nat /\ n < Len(h.data) - mFirst
        BY <1>4, <2>4, IndexFacts
      <3> QED
        BY <3>1
    <2>7. /\ Len(q) = f /\ Len(u) = f
          /\ \A i \in 1..f : q[i] = IF i = 1 THEN From(h, m) ELSE Nth(i)
          /\ \A i \in 1..f : u[i] = IF i = 1 THEN From(h, m + n) ELSE Nth(i)
      BY <1>1, <1>4, <2>1, <2>2, <2>3, <2>4, <2>5, <2>6 DEF ContentsOK
    <2> DEFINE e == [timestamp |-> q[1].timestamp + n, flags |-> q[1].flags,
                     data |-> SubSeq(q[1].data, n + 1, Len(q[1].data))]
               v == [q EXCEPT ![1] = e]
    <2>8. 1 \in 1..f /\ q[1] = From(h, m) /\ u[1] = e
      <3>1. 1 \in 1..f /\ q[1] = From(h, m) /\ u[1] = From(h, m + n)
        BY <2>7
      <3>2. From(h, m + n) = [timestamp |-> From(h, m).timestamp + n,
                              flags |-> From(h, m).flags,
                              data |-> SubSeq(From(h, m).data, n + 1, Len(From(h, m).data))]
        BY <2>6, FromFrom
      <3> QED
        BY <3>1, <3>2
    <2>9. e \in Packet
      <3>1. 1 \in 1..Len(u)
        BY <2>7, <2>8
      <3>2. u[1] \in Packet
        BY <3>1, ElementOfSeq
      <3> QED
        BY <2>8, <3>2
    <2> HIDE DEF e
    <2>10. /\ v \in Seq(Packet) /\ Len(v) = f
           /\ \A i \in 1..f : v[i] = IF i = 1 THEN e ELSE q[i]
      BY <2>7, <2>8, <2>9, ExceptSeq
    <2> HIDE DEF v
    <2>11. u = v
      <3>1. \A i \in 1..f : u[i] = v[i]
        BY <2>7, <2>8, <2>10
      <3> QED
        BY <2>7, <2>10, <3>1, SeqEqual
    <2>12. n \in 1..mPktSize /\ n < Len(Head(q).data) /\ q # <<>>
      <3>1. Len(From(h, m).data) = Len(h.data) - m
        BY <2>6, FromType
      <3>2. Head(q) = q[1] /\ q # <<>>
        BY <2>7
      <3>3. Len(h.data) \in 1..mPktSize /\ mPktSize \in Nat
        BY <2>4, IndexFacts
      <3> QED
        BY <2>6, <2>8, <3>1, <3>2, <3>3
    <2>13. Queue!Take(n)
      BY <1>1, <1>2, <2>2, <2>3, <2>11, <2>12 DEF Queue!Take, v, e
    <2> QED
      BY <2>12, <2>13 DEF Queue!Next
  <1> QED
    BY <1>1, <1>3, <1>4

LEMMA QueuePushChunk ==
    ASSUME IInv, IInv', NEW t \in SamplePushers, PushChunk(t)
    PROVE  Queue!Next
  <1>1. ContentsOK /\ ContentsOK'
    BY ContentsIs, ContentsNext
  <1>2. PICK slot \in Packet, cnt \in Nat \ {0}, f \in Nat :
              /\ f = mElementsFilled /\ f < mBufferSize /\ mFirst = 0 /\ mFirst' = 0
              /\ slot.data = SlotData(req[t], cnt)
              /\ Len(slot.data) = mLast + cnt /\ mLast + cnt \in 1..mPktSize
              /\ req[t].done + cnt <= Len(req[t].data)
              /\ \A i \in 1..f : Nth(i)' = Nth(i)
              /\ \/ /\ mLast + cnt = mPktSize \/ "END_BURST" \in slot.flags
                    /\ mElementsFilled' = f + 1 /\ mLast' = 0
                    /\ Nth(f + 1)' = slot
                 \/ /\ mLast + cnt < mPktSize
                    /\ mElementsFilled' = f /\ mLast' = mLast + cnt
                    /\ mBuffer'[mTail'] = slot
              /\ UNCHANGED <<mPktSize, mBufferSize>>
    BY PushChunkMoves
  <1>3. PICK q \in Seq(Packet) : q = Contents
    BY <1>1 DEF ContentsOK
  <1>4. PICK u \in Seq(Packet) : u = Contents'
    BY <1>1 DEF ContentsOK
  <1>5. PICK m \in Nat : m = mLast
    BY IndexFacts
  <1>6. PICK d \in Seq(Nat) : d = slot.data /\ Len(d) = m + cnt
    BY <1>2, <1>5 DEF Packet
  <1>7. PICK open \in Seq(Nat) :
           open = OpenSamples /\ Len(open) = m /\ SubSeq(d, 1, Len(open)) = open
    <2>1. CASE m = 0
      <3>1. OpenSamples = <<>> /\ <<>> \in Seq(Nat) /\ Len(<<>>) = 0
        BY <1>5, <2>1 DEF OpenSamples
      <3>2. SubSeq(d, 1, 0) = <<>>
        BY SubSeqEmpty
      <3> QED
        BY <2>1, <3>1, <3>2
    <2>2. CASE m > 0
      <3>1. PICK a \in Seq(Nat) : a = mBuffer[mTail].data
        BY IndexFacts DEF Packet
      <3>2. OpenSamples = a /\ Len(a) = m
        BY <1>5, <2>2, <3>1 DEF OpenSamples, IInv, RingOK, PositionsInBounds
      <3>3. PICK b \in Seq(Nat) :
               b = SubSeq(req[t].data, req[t].done + 1, req[t].done + cnt)
        <4>1. req[t] \in Requests
          BY DEF IInv, TypeOK, Threads
        <4>2. req[t].data \in Seq(Nat) /\ req[t].done \in Nat
          BY <4>1 DEF Requests
        <4>3. PICK s \in Seq(Nat), k \in Nat : s = req[t].data /\ k = req[t].done
          BY <4>2
        <4>4. \A i \in (k + 1)..(k + cnt) : s[i] \in Nat
          <5>1. k + cnt <= Len(s) /\ Len(s) \in Nat
            BY <1>2, <4>3
          <5>2. \A i \in (k + 1)..(k + cnt) : i \in 1..Len(s)
            BY <5>1
          <5> QED
            BY <5>2, ElementOfSeq
        <4>5. SubSeq(s, k + 1, k + cnt) \in Seq(Nat)
          BY <4>4, SubSeqProperties
        <4> QED
          BY <4>3, <4>5
      <3>4. SubSeq(a, 1, m) = a
        BY <3>2, SubSeqFull
      <3>5. d = a \o b
        BY <1>2, <1>5, <1>6, <3>1, <3>3, <3>4 DEF SlotData
      <3>6. 1 \in 1..Len(a) /\ m \in 1..Len(a)
        BY <2>2, <3>2
      <3>7. SubSeq(d, 1, m) = a
        BY <3>4, <3>5, <3>6, SubSeqOfConcat1
      <3> QED
        BY <3>2, <3>7
    <2> QED
      BY <2>1, <2>2
  <1>8. Len(q) = f /\ (\A i \in 1..f : q[i] = Nth(i))
    BY <1>1, <1>2, <1>3 DEF ContentsOK
  <1>9. Queue!Extends(slot.data)
    <2>1. Len(Contents) < mBufferSize
      BY <1>2, <1>3, <1>8
    <2>2. Len(slot.data) > Len(OpenSamples)
      BY <1>6, <1>7
    <2>3. SubSeq(slot.data, 1, Len(OpenSamples)) = OpenSamples
      BY <1>6, <1>7
    <2> QED
      BY <2>1, <2>2, <2>3 DEF Queue!Extends
  <1>10. CASE /\ mLast + cnt = mPktSize \/ "END_BURST" \in slot.flags
              /\ mElementsFilled' = f + 1 /\ mLast' = 0
              /\ Nth(f + 1)' = slot
    <2>1. Len(u) = f + 1 /\ \A i \in 1..(f + 1) : u[i] = Nth(i)'
      BY <1>1, <1>2, <1>4, <1>10 DEF ContentsOK
    <2>2. (\A i \in 1..f : u[i] = q[i]) /\ u[f + 1] = slot
      <3>1. \A i \in 1..f : Nth(i)' = Nth(i)
        BY <1>2
      <3>2. f + 1 \in 1..(f + 1) /\ \A i \in 1..f : i \in 1..(f + 1)
        OBVIOUS
      <3>3. u[f + 1] = slot
        BY <1>10, <2>1, <3>2
      <3> QED
        BY <1>8, <2>1, <3>1, <3>2, <3>3
    <2>3. u = Append(q, slot) /\ u # <<>> /\ u[Len(u)] = slot
      BY <1>8, <2>1, <2>2, AppendIs
    <2>4. OpenSamples' = <<>>
      BY <1>10 DEF OpenSamples
    <2>5. Len(slot.data) = mPktSize \/ "END_BURST" \in slot.flags
      BY <1>2, <1>10
    <2>6. Queue!Complete(slot)
      BY <1>2, <1>3, <1>4, <1>9, <2>3, <2>4, <2>5 DEF Queue!Complete
    <2>7. Contents' # <<>> /\ Contents'[Len(Contents')] = slot
      BY <1>4, <2>3
    <2> QED
      BY <2>6, <2>7 DEF Queue!Next
  <1>11. CASE /\ mLast + cnt < mPktSize
              /\ mElementsFilled' = f /\ mLast' = mLast + cnt
              /\ mBuffer'[mTail'] = slot
    <2>1. Len(u) = f /\ \A i \in 1..f : u[i] = Nth(i)'
      BY <1>1, <1>2, <1>4, <1>11 DEF ContentsOK
    <2>2. u = q
      <3>1. \A i \in 1..f : u[i] = q[i]
        BY <1>2, <1>8, <2>1
      <3> QED
        BY <1>8, <2>1, <3>1, SeqEqual
    <2>3. OpenSamples' = slot.data
      <3>1. mLast' # 0
        BY <1>5, <1>11
      <3> QED
        BY <1>11, <3>1 DEF OpenSamples
    <2>4. Len(slot.data) < mPktSize
      BY <1>2, <1>11
    <2>5. Queue!Compose(OpenSamples')
      BY <1>2, <1>3, <1>4, <1>9, <2>2, <2>3, <2>4 DEF Queue!Compose
    <2> QED
      BY <2>5 DEF Queue!Next
  <1> QED
    BY <1>2, <1>10, <1>11

\* Emptying the ring, and allocating its slots anew while it is empty.
LEMMA QueueReset ==
    ASSUME IInv, IInv', Clear \/ ResizeClear \/ ResizeAllocate
    PROVE  Queue!Next
  <1>1. mElementsFilled' = 0 /\ mLast' = 0
    BY DEF Clear, ResizeClear, ResizeAllocate, ClearFields, IInv, ResizeOK
  <1>2. ContentsOK'
    BY ContentsNext
  <1>3. Contents' = <<>> /\ OpenSamples' = <<>>
    BY <1>1, <1>2, EmptySeq DEF ContentsOK, OpenSamples
  <1>4. mPktSize' \in Nat /\ mBufferSize' \in Nat
    BY DEF IInv, TypeOK
  <1> QED
    BY <1>3, <1>4 DEF Queue!Next, Queue!Reset

LEMMA QueueInit == Init => Queue!Init
  <1> SUFFICES ASSUME Init PROVE Queue!Init
    OBVIOUS
  <1>1. ContentsOK
    BY InitIInv, ContentsIs
  <1>2. mElementsFilled = 0 /\ mLast = 0 /\ mPktSize = InitPktSize /\ mBufferSize = InitBufSize
    BY DEF Init
  <1>3. Contents = <<>> /\ OpenSamples = <<>>
    BY <1>1, <1>2, EmptySeq DEF ContentsOK, OpenSamples
  <1> QED
    BY <1>2, <1>3 DEF Queue!Init

LEMMA QueueBookkeeping ==
    ASSUME IInv, NEW t \in Threads,
           \/ PushPacketCall(t) \/ PushSamplesCall(t) \/ PopSamplesCall(t) \/ PopPacketCall(t)
           \/ NotifyOne(t) \/ Expire(t)
           \/ PushWait(t) \/ PushTimeout(t)
           \/ PopWait(t) \/ PopTimeout(t)
    PROVE  UNCHANGED Queue!vars
  <1>1. UNCHANGED ring
    BY DEF PushPacketCall, PushSamplesCall, PopSamplesCall, PopPacketCall, Call,
           NotifyOne, Expire, PushWait, PushTimeout, PopWait, PopTimeout, WaitFor
  <1> QED
    BY <1>1, QueueKept

LEMMA QueueNext ==
    ASSUME IInv, IInv', [Next]_vars
    PROVE  [Queue!Next]_(Queue!vars)
  <1>1. CASE \E t \in PktPushers : PushPacketCall(t) \/ PushPacketStep(t)
    BY <1>1, QueueBookkeeping, QueuePushPacket DEF PushPacketStep, Threads
  <1>2. CASE \E t \in SamplePushers : PushSamplesCall(t) \/ PushSamplesStep(t)
    BY <1>2, QueueBookkeeping, QueuePushChunk DEF PushSamplesStep, Threads
  <1>3. CASE \E t \in SamplePoppers : PopSamplesCall(t) \/ PopSamplesStep(t)
    BY <1>3, QueueBookkeeping, QueuePopChunk DEF PopSamplesStep, Threads
  <1>4. CASE \E t \in PktPoppers : PopPacketCall(t) \/ PopPacketStep(t)
    BY <1>4, QueueBookkeeping, QueuePopPacket DEF PopPacketStep, Threads
  <1>5. CASE \E t \in Threads : Expire(t)
    BY <1>5, QueueBookkeeping
  <1>6. CASE GetInfo \/ UNCHANGED vars
    <2>1. UNCHANGED ring
      BY <1>6 DEF GetInfo, vars
    <2> QED
      BY <2>1, QueueKept
  <1>7. CASE Clear \/ ResizeClear \/ ResizeAllocate
    BY <1>7, QueueReset
  <1> QED
    BY <1>1, <1>2, <1>3, <1>4, <1>5, <1>6, <1>7 DEF Next

\* The ring, its indices, its waits and its partial positions implement the
\* bounded queue of packets, for any threads, sizes and buffers, while nobody
\* resizes the FIFO under a call: every step is a step of the queue or none.
THEOREM RefinesQueue == QuietResize => (Spec => ImplementsPacketQueue)
  <1> SUFFICES ASSUME QuietResize PROVE Spec => ImplementsPacketQueue
    OBVIOUS
  <1>1. Init => IInv /\ Queue!Init
    BY InitIInv, QueueInit
  <1>2. IInv /\ [Next]_vars => IInv'
    BY NextIInv
  <1>3. IInv /\ IInv' /\ [Next]_vars => [Queue!Next]_(Queue!vars)
    BY QueueNext
  <1> QED
    BY <1>1, <1>2, <1>3, PTL DEF Spec, Queue!Spec, ImplementsPacketQueue

-----------------------------------------------------------------------------
\* AcceptedIsQueued.

\* The packets are runs, each due a whole number of packets after the last.
QueuedOK ==
    /\ \A i \in 1..mElementsFilled : Nth(i) \in Runs
    /\ \A i \in 1..(mElementsFilled - 1) : \E g \in Gaps :
          Nth(i + 1).timestamp = Nth(i).timestamp + Len(Nth(i).data) + g * mPktSize

\* The open slot ends at the application's time and follows the last packet;
\* without one the last packet ends there.
OpenOK ==
    /\ mLast > 0 => /\ mBuffer[mTail] \in Runs
                    /\ mBuffer[mTail].timestamp + mLast = clock
    /\ \A i \in 1..mElementsFilled : i = mElementsFilled =>
          /\ mLast = 0 => Nth(i).timestamp + Len(Nth(i).data) = clock
          /\ mLast > 0 => \E g \in Gaps :
                mBuffer[mTail].timestamp
                   = Nth(i).timestamp + Len(Nth(i).data) + g * mPktSize

\* What is left of a Write goes on at the application's time, or after a jump
\* if it has not begun and no sample is left over.
WriterOK ==
    \A t \in SamplePushers : pc[t] \notin {"idle", "notify"} =>
        /\ Consecutive(req[t].timestamp, req[t].data)
        /\ \E g \in Gaps : /\ req[t].timestamp + req[t].done = clock + g * mPktSize
                           /\ g > 0 => mLast = 0

AcceptedOK == QueuedOK /\ OpenOK /\ WriterOK

LEMMA AcceptedOKInit == Init => AcceptedOK
  BY DEF Init, AcceptedOK, QueuedOK, OpenOK, WriterOK, Threads

LEMMA AcceptedOKEnough == IInv /\ AcceptedOK => AcceptedIsQueued
  <1> SUFFICES ASSUME IInv, AcceptedOK PROVE AcceptedIsQueued
    OBVIOUS
  <1>1. PICK n \in Nat : n = mElementsFilled
    BY IndexFacts
  <1>2. \A i \in 1..n : Nth(i).data = Samples(Nth(i).timestamp, Len(Nth(i).data))
    BY <1>1 DEF AcceptedOK, QueuedOK, Runs, Consecutive
  <1>3. \A i \in 1..(n - 1) : \E g \in Gaps :
           Nth(i + 1).timestamp = Nth(i).timestamp + Len(Nth(i).data) + g * mPktSize
    BY <1>1 DEF AcceptedOK, QueuedOK
  <1>4. mLast > 0 => mBuffer[mTail].timestamp + mLast = clock
    BY DEF AcceptedOK, OpenOK
  <1>5. mLast = 0 /\ n > 0 => Nth(n).timestamp + Len(Nth(n).data) = clock
    BY <1>1 DEF AcceptedOK, OpenOK
  <1> QED
    BY <1>1, <1>2, <1>3, <1>4, <1>5 DEF AcceptedIsQueued

\* Steps that leave the ring and the application's time alone, and every Write
\* as it is or at its end.
LEMMA AcceptedOKKept ==
    ASSUME AcceptedOK, UNCHANGED <<ring, clock>>,
           \A t \in SamplePushers : pc'[t] \notin {"idle", "notify"} =>
              req'[t] = req[t] /\ pc[t] \notin {"idle", "notify"}
    PROVE  AcceptedOK'
  <1>1. /\ UNCHANGED <<mElementsFilled, mPktSize, mLast, mBuffer, mTail, clock>>
        /\ \A i : Nth(i)' = Nth(i)
    BY RingKept DEF ring
  <1>2. QueuedOK'
    BY <1>1 DEF AcceptedOK, QueuedOK
  <1>3. OpenOK'
    BY <1>1 DEF AcceptedOK, OpenOK
  <1>4. WriterOK'
    BY <1>1 DEF AcceptedOK, WriterOK
  <1> QED
    BY <1>2, <1>3, <1>4 DEF AcceptedOK

LEMMA AcceptedOKBookkeeping ==
    ASSUME IInv, AcceptedOK, NEW t \in Threads,
           \/ t \in PktPoppers /\ PopPacketCall(t)
           \/ NotifyOne(t) \/ Expire(t)
           \/ PushWait(t) \/ PushTimeout(t)
           \/ PopWait(t) \/ PopTimeout(t)
    PROVE  AcceptedOK'
  <1>1. UNCHANGED <<ring, clock>>
    BY DEF PopPacketCall, Call, NotifyOne, Expire, PushWait, PushTimeout, PopWait,
           PopTimeout, WaitFor
  <1>2. pc \in [Threads -> PC] /\ req \in [Threads -> Requests]
    BY DEF IInv, TypeOK
  <1>3. \A u \in SamplePushers : pc'[u] \notin {"idle", "notify"} =>
           req'[u] = req[u] /\ pc[u] \notin {"idle", "notify"}
    <2> SUFFICES ASSUME NEW u \in SamplePushers, pc'[u] \notin {"idle", "notify"}
                 PROVE  req'[u] = req[u] /\ pc[u] \notin {"idle", "notify"}
      OBVIOUS
    <2>0. u \in Threads
      BY DEF Threads
    <2>1. CASE t \in PktPoppers /\ PopPacketCall(t)
      <3>1. u # t
        BY <2>1, ThreadsAssumption
      <3> QED
        BY <1>2, <2>0, <2>1, <3>1 DEF PopPacketCall, Call
    <2>2. CASE NotifyOne(t)
      BY <1>2, <2>0, <2>2 DEF NotifyOne
    <2>3. CASE Expire(t)
      BY <1>2, <2>0, <2>3 DEF Expire
    <2>4. CASE PushWait(t) \/ PopWait(t)
      BY <1>2, <2>0, <2>4 DEF PushWait, PopWait, WaitFor, Running
    <2>5. CASE PushTimeout(t) \/ PopTimeout(t)
      BY <1>2, <2>0, <2>5 DEF PushTimeout, PopTimeout, Leave
    <2> QED
      BY <2>1, <2>2, <2>3, <2>4, <2>5
  <1> QED
    BY <1>1, <1>3, AcceptedOKKept

\* The application submits a buffer that goes on where it stands, or jumps.
LEMMA AcceptedOKCall ==
    ASSUME IInv, AcceptedOK, NEW t \in SamplePushers, PushSamplesCall(t)
    PROVE  AcceptedOK'
  <1>1. PICK n \in Counts, f \in FlagSets, p \in BOOLEAN, g \in Gaps :
           /\ g > 0 => mLast = 0
           /\ Call(t, Request(clock + g * mPktSize, f, Samples(clock + g * mPktSize, n), 0, p))
    BY DEF PushSamplesCall
  <1> DEFINE ts == clock + g * mPktSize
  <1>2. ts \in Nat /\ clock' = clock /\ n \in Nat
    <2>1. clock \in Nat /\ g \in Nat /\ mPktSize \in Nat /\ n \in Nat
      BY SizesAssumption DEF IInv, TypeOK
    <2> QED
      BY <2>1 DEF PushSamplesCall
  <1> DEFINE r == Request(ts, f, Samples(ts, n), 0, p)
  <1>3. /\ UNCHANGED ring /\ req' = [req EXCEPT ![t] = r] /\ pc' = [pc EXCEPT ![t] = "run"]
        /\ req \in [Threads -> Requests] /\ pc \in [Threads -> PC] /\ t \in Threads
    BY <1>1 DEF Call, IInv, TypeOK, Threads
  <1>4. /\ UNCHANGED <<mElementsFilled, mPktSize, mLast, mBuffer, mTail, clock>>
        /\ \A i : Nth(i)' = Nth(i)
    BY <1>2, <1>3, RingKept DEF ring
  <1>5. QueuedOK' /\ OpenOK'
    BY <1>4 DEF AcceptedOK, QueuedOK, OpenOK
  <1>6. WriterOK'
    <2>1. Consecutive(r.timestamp, r.data) /\ r.timestamp + r.done = ts
      <3> HIDE DEF ts
      <3> QED
        BY <1>2, RunOf DEF Request, Consecutive
    <2>2. ASSUME NEW u \in SamplePushers, pc'[u] \notin {"idle", "notify"}
          PROVE  /\ Consecutive(req'[u].timestamp, req'[u].data)
                 /\ \E h \in Gaps : /\ req'[u].timestamp + req'[u].done = clock' + h * mPktSize'
                                    /\ h > 0 => mLast' = 0
      <3>1. CASE u = t
        <4>1. req'[u] = r
          BY <1>3, <3>1
        <4> HIDE DEF r
        <4> QED
          BY <1>1, <1>4, <2>1, <4>1
      <3>2. CASE u # t
        <4>1. req'[u] = req[u] /\ pc'[u] = pc[u]
          BY <1>3, <3>2 DEF Threads
        <4> QED
          BY <1>4, <2>2, <4>1 DEF AcceptedOK, WriterOK
      <3> QED
        BY <3>1, <3>2
    <2> QED
      BY <2>2 DEF WriterOK
  <1> QED
    BY <1>5, <1>6 DEF AcceptedOK

LEMMA AcceptedOKPopPacket ==
    ASSUME IInv, AcceptedOK, NEW t \in PktPoppers, PopPacket(t)
    PROVE  AcceptedOK'
  <1>1. PICK f \in Nat \ {0} :
              /\ f = mElementsFilled /\ mElementsFilled' = f - 1
              /\ \A i \in 1..(f - 1) : Nth(i)' = Nth(i + 1)
              /\ mLast > 0 => mBuffer'[mTail] = mBuffer[mTail]
              /\ UNCHANGED <<mPktSize, mBufferSize, mTail, mLast, clock>>
    BY PopPacketMoves
  <1>2. QueuedOK'
    <2>1. \A i \in 1..(f - 1) : Nth(i)' \in Runs
      <3> SUFFICES ASSUME NEW i \in 1..(f - 1) PROVE Nth(i)' \in Runs
        OBVIOUS
      <3>1. i + 1 \in 1..f
        OBVIOUS
      <3> QED
        BY <1>1, <3>1 DEF AcceptedOK, QueuedOK
    <2>2. \A i \in 1..((f - 1) - 1) : \E g \in Gaps :
             Nth(i + 1)'.timestamp = Nth(i)'.timestamp + Len(Nth(i)'.data) + g * mPktSize
      <3> SUFFICES ASSUME NEW i \in 1..((f - 1) - 1)
                   PROVE  \E g \in Gaps :
                      Nth(i + 1)'.timestamp = Nth(i)'.timestamp + Len(Nth(i)'.data) + g * mPktSize
        OBVIOUS
      <3>1. i + 1 \in 1..(f - 1) /\ i \in 1..(f - 1)
        OBVIOUS
      <3>2. Nth(i)' = Nth(i + 1) /\ Nth(i + 1)' = Nth((i + 1) + 1)
        BY <1>1, <3>1
      <3>3. \E g \in Gaps : Nth((i + 1) + 1).timestamp
               = Nth(i + 1).timestamp + Len(Nth(i + 1).data) + g * mPktSize
        BY <1>1, <3>1 DEF AcceptedOK, QueuedOK
      <3> QED
        BY <3>2, <3>3
    <2> QED
      BY <1>1, <2>1, <2>2 DEF QueuedOK
  <1>3. OpenOK'
    <2>1. mLast > 0 => /\ mBuffer'[mTail'] \in Runs
                       /\ mBuffer'[mTail'].timestamp + mLast = clock
      BY <1>1 DEF AcceptedOK, OpenOK
    <2>2. ASSUME NEW i \in 1..(f - 1), i = f - 1
          PROVE  /\ mLast = 0 => Nth(i)'.timestamp + Len(Nth(i)'.data) = clock
                 /\ mLast > 0 => \E g \in Gaps :
                       mBuffer'[mTail'].timestamp
                          = Nth(i)'.timestamp + Len(Nth(i)'.data) + g * mPktSize
      <3>1. i + 1 = f /\ f \in 1..f /\ Nth(i)' = Nth(f)
        BY <1>1, <2>2
      <3> QED
        BY <1>1, <3>1 DEF AcceptedOK, OpenOK
    <2> QED
      BY <1>1, <2>1, <2>2 DEF OpenOK
  <1>4. WriterOK'
    <2>1. ASSUME NEW u \in SamplePushers
          PROVE  req'[u] = req[u] /\ pc'[u] = pc[u]
      <3>1. u # t /\ u \in Threads
        BY ThreadsAssumption DEF Threads
      <3> QED
        BY <3>1 DEF PopPacket, UnlockThenNotify, IInv, TypeOK
    <2> QED
      BY <1>1, <2>1 DEF AcceptedOK, WriterOK
  <1> QED
    BY <1>2, <1>3, <1>4 DEF AcceptedOK

\* The open slot's samples and the next cnt of the buffer are one run.
LEMMA SlotIsRun ==
    ASSUME IInv, AcceptedOK, NEW t \in SamplePushers, NEW slot \in Packet,
           NEW cnt \in Nat \ {0}, pc[t] \notin {"idle", "notify"},
           slot.timestamp = SlotTimestamp(req[t]), slot.data = SlotData(req[t], cnt),
           Len(slot.data) = mLast + cnt, req[t].done + cnt <= Len(req[t].data)
    PROVE  /\ slot \in Runs
           /\ slot.timestamp + Len(slot.data) = req[t].timestamp + req[t].done + cnt
           /\ mLast > 0 => slot.timestamp = mBuffer[mTail].timestamp
           /\ mLast = 0 => \E g \in Gaps : slot.timestamp = clock + g * mPktSize
  <1>1. PICK a \in Nat, d \in Nat, n \in Nat :
           /\ a = req[t].timestamp /\ d = req[t].done /\ n = Len(req[t].data)
           /\ req[t].data = Samples(a, n) /\ d + cnt <= n
    <2>1. req[t] \in Requests
      BY DEF IInv, TypeOK, Threads
    <2>2. Consecutive(req[t].timestamp, req[t].data)
      BY DEF AcceptedOK, WriterOK
    <2>3. req[t].done \in Nat /\ Len(req[t].data) \in Nat
      BY <2>1 DEF Requests
    <2> QED
      BY <2>2, <2>3 DEF Consecutive
  <1>2. PICK m \in Nat : m = mLast
    BY IndexFacts
  <1>3. PICK g \in Gaps : a + d = clock + g * mPktSize /\ (g > 0 => m = 0)
    BY <1>1, <1>2 DEF AcceptedOK, WriterOK
  <1>4. SubSeq(req[t].data, d + 1, d + cnt) = Samples(a + d, cnt)
    <2>1. d \in 0..n /\ cnt \in 0..(n - d)
      BY <1>1
    <2>2. SubSeq(Samples(a, n), d + 1, d + cnt) = Samples(a + d, cnt)
      BY <2>1, RunOfRun
    <2> QED
      BY <1>1, <2>2
  <1>5. slot.data = SubSeq(mBuffer[mTail].data, 1, m) \o Samples(a + d, cnt)
    BY <1>1, <1>2, <1>4 DEF SlotData
  <1>6. slot.timestamp = a + d - m
    BY <1>1, <1>2 DEF SlotTimestamp
  <1>7. Len(slot.data) = m + cnt
    BY <1>2
  <1>8. CASE m = 0
    <2>1. SubSeq(mBuffer[mTail].data, 1, m) = <<>>
      BY <1>8, SubSeqEmpty
    <2>2. Samples(a + d, cnt) \in Seq(Nat)
      <3>1. a + d \in Nat
        OBVIOUS
      <3> QED
        BY <3>1, RunOf
    <2>3. slot.data = Samples(a + d, cnt)
      BY <1>5, <2>1, <2>2, ConcatEmptySeq
    <2>4. slot.timestamp = a + d /\ a + d \in Nat /\ m + cnt = cnt
      BY <1>6, <1>8
    <2>5. slot \in Runs
      BY <1>7, <2>3, <2>4 DEF Runs, Consecutive
    <2> QED
      BY <1>1, <1>2, <1>3, <1>7, <1>8, <2>4, <2>5
  <1>9. CASE m > 0
    <2>1. PICK ts \in Nat :
             /\ ts = mBuffer[mTail].timestamp
             /\ mBuffer[mTail].data = Samples(ts, m)
             /\ ts + m = clock
      <3>1. mBuffer[mTail] \in Runs /\ mBuffer[mTail].timestamp + m = clock
        BY <1>2, <1>9 DEF AcceptedOK, OpenOK
      <3>2. Len(mBuffer[mTail].data) = m
        BY <1>2, <1>9 DEF IInv, RingOK, PositionsInBounds
      <3> QED
        BY <3>1, <3>2 DEF Runs, Consecutive
    <2>2. g = 0 /\ clock \in Nat /\ mPktSize \in Nat
      BY <1>3, <1>9, SizesAssumption DEF IInv, TypeOK
    <2>3. a + d = ts + m
      BY <1>3, <2>1, <2>2
    <2>4. SubSeq(mBuffer[mTail].data, 1, m) = Samples(ts, m)
      <3>1. Samples(ts, m) \in Seq(Nat) /\ Len(Samples(ts, m)) = m
        BY RunOf
      <3>2. SubSeq(Samples(ts, m), 1, m) = Samples(ts, m)
        BY <3>1, SubSeqFull
      <3> QED
        BY <2>1, <3>2
    <2>5. Samples(ts, m) \o Samples(ts + m, cnt) = Samples(ts, m + cnt)
      BY RunsJoin
    <2>6. slot.data = Samples(ts, m + cnt) /\ slot.timestamp = ts
      <3>1. slot.data = Samples(ts, m + cnt)
        BY <1>5, <2>3, <2>4, <2>5, Zenon
      <3>2. slot.timestamp = ts
        BY <1>6, <2>3
      <3> QED
        BY <3>1, <3>2
    <2>7. slot \in Runs
      BY <1>7, <2>6 DEF Runs, Consecutive
    <2> QED
      BY <1>1, <1>2, <1>7, <1>9, <2>1, <2>3, <2>6, <2>7
  <1> QED
    BY <1>8, <1>9

LEMMA AcceptedOKPushChunk ==
    ASSUME IInv, AcceptedOK, 0 \in Gaps, \A t, u \in SamplePushers : t = u,
           NEW t \in SamplePushers, PushChunk(t)
    PROVE  AcceptedOK'
  <1>1. PICK slot \in Packet, cnt \in Nat \ {0}, f \in Nat :
              /\ f = mElementsFilled
              /\ slot.timestamp = SlotTimestamp(req[t])
              /\ slot.data = SlotData(req[t], cnt)
              /\ Len(slot.data) = mLast + cnt
              /\ req[t].done + cnt <= Len(req[t].data)
              /\ req' = [req EXCEPT ![t] = [req[t] EXCEPT !.done = req[t].done + cnt]]
              /\ clock' = req[t].timestamp + req[t].done + cnt
              /\ \A i \in 1..f : Nth(i)' = Nth(i)
              /\ \/ /\ mElementsFilled' = f + 1 /\ mLast' = 0
                    /\ Nth(f + 1)' = slot
                 \/ /\ mElementsFilled' = f /\ mLast' = mLast + cnt
                    /\ mBuffer'[mTail'] = slot
              /\ UNCHANGED <<mPktSize, mBufferSize>>
    BY PushChunkMoves
  <1>2. pc[t] \notin {"idle", "notify"} /\ req[t] \in Requests /\ t \in Threads
    BY DEF PushChunk, Running, IInv, TypeOK, Threads
  <1>3. /\ slot \in Runs
        /\ slot.timestamp + Len(slot.data) = req[t].timestamp + req[t].done + cnt
        /\ mLast > 0 => slot.timestamp = mBuffer[mTail].timestamp
        /\ mLast = 0 => \E g \in Gaps : slot.timestamp = clock + g * mPktSize
    BY <1>1, <1>2, SlotIsRun
  <1>4. ASSUME f > 0
        PROVE  \E g \in Gaps :
                  slot.timestamp = Nth(f).timestamp + Len(Nth(f).data) + g * mPktSize
    <2>1. f \in 1..f
      BY <1>4
    <2>2. /\ mLast = 0 => Nth(f).timestamp + Len(Nth(f).data) = clock
          /\ mLast > 0 => \E g \in Gaps :
                mBuffer[mTail].timestamp
                   = Nth(f).timestamp + Len(Nth(f).data) + g * mPktSize
      BY <1>1, <2>1 DEF AcceptedOK, OpenOK
    <2>3. mLast = 0 \/ mLast > 0
      BY IndexFacts
    <2> QED
      BY <1>3, <2>2, <2>3
  <1>5. /\ \A i \in 1..f : Nth(i)' \in Runs
        /\ \A i \in 1..(f - 1) : \E g \in Gaps :
              Nth(i + 1)'.timestamp = Nth(i)'.timestamp + Len(Nth(i)'.data) + g * mPktSize
    <2>1. \A i \in 1..f : Nth(i)' \in Runs
      BY <1>1 DEF AcceptedOK, QueuedOK
    <2>2. ASSUME NEW i \in 1..(f - 1)
          PROVE  \E g \in Gaps :
              Nth(i + 1)'.timestamp = Nth(i)'.timestamp + Len(Nth(i)'.data) + g * mPktSize
      <3>1. i \in 1..f /\ i + 1 \in 1..f
        OBVIOUS
      <3>2. Nth(i)' = Nth(i) /\ Nth(i + 1)' = Nth(i + 1)
        BY <1>1, <3>1
      <3>3. \E g \in Gaps :
              Nth(i + 1).timestamp = Nth(i).timestamp + Len(Nth(i).data) + g * mPktSize
        BY <1>1 DEF AcceptedOK, QueuedOK
      <3> QED
        BY <3>2, <3>3
    <2> QED
      BY <2>1, <2>2
  <1>6. QueuedOK' /\ OpenOK'
    <2>1. CASE mElementsFilled' = f + 1 /\ mLast' = 0 /\ Nth(f + 1)' = slot
      <3>1. \A i \in 1..(f + 1) : Nth(i)' \in Runs
        <4> SUFFICES ASSUME NEW i \in 1..(f + 1) PROVE Nth(i)' \in Runs
          OBVIOUS
        <4>1. i \in 1..f \/ i = f + 1
          OBVIOUS
        <4> QED
          BY <1>3, <1>5, <2>1, <4>1
      <3>2. \A i \in 1..((f + 1) - 1) : \E g \in Gaps :
               Nth(i + 1)'.timestamp = Nth(i)'.timestamp + Len(Nth(i)'.data) + g * mPktSize
        <4> SUFFICES ASSUME NEW i \in 1..((f + 1) - 1)
                     PROVE  \E g \in Gaps :
               Nth(i + 1)'.timestamp = Nth(i)'.timestamp + Len(Nth(i)'.data) + g * mPktSize
          OBVIOUS
        <4>1. i \in 1..(f - 1) \/ (i = f /\ f > 0 /\ f \in 1..f)
          OBVIOUS
        <4>2. CASE i \in 1..(f - 1)
          BY <1>5, <4>2
        <4>3. CASE i = f /\ f > 0 /\ f \in 1..f
          BY <1>1, <1>4, <2>1, <4>3
        <4> QED
          BY <4>1, <4>2, <4>3
      <3>3. QueuedOK'
        BY <1>1, <2>1, <3>1, <3>2 DEF QueuedOK
      <3>4. ASSUME NEW i \in 1..(f + 1), i = f + 1
            PROVE  Nth(i)'.timestamp + Len(Nth(i)'.data) = clock'
        BY <1>1, <1>3, <2>1, <3>4
      <3>5. OpenOK'
        BY <2>1, <3>4 DEF OpenOK
      <3> QED
        BY <3>3, <3>5
    <2>2. CASE mElementsFilled' = f /\ mLast' = mLast + cnt /\ mBuffer'[mTail'] = slot
      <3>1. QueuedOK'
        BY <1>1, <1>5, <2>2 DEF QueuedOK
      <3>2. mLast' > 0 /\ mBuffer'[mTail'].timestamp + mLast' = clock'
        <4>1. mLast \in Nat /\ mLast + cnt > 0
          BY IndexFacts
        <4> QED
          BY <1>1, <1>3, <2>2, <4>1
      <3>3. ASSUME NEW i \in 1..f, i = f
            PROVE  \E g \in Gaps :
                     mBuffer'[mTail'].timestamp
                        = Nth(i)'.timestamp + Len(Nth(i)'.data) + g * mPktSize'
        <4>1. f > 0 /\ Nth(f)' = Nth(f)
          BY <1>1, <3>3
        <4> QED
          BY <1>1, <1>4, <2>2, <3>3, <4>1
      <3>4. OpenOK'
        BY <1>3, <2>2, <3>2, <3>3 DEF OpenOK
      <3> QED
        BY <3>1, <3>4
    <2> QED
      BY <1>1, <2>1, <2>2
  <1>7. WriterOK'
    <2> DEFINE sent == [req[t] EXCEPT !.done = req[t].done + cnt]
    <2>1. /\ sent.timestamp = req[t].timestamp /\ sent.data = req[t].data
          /\ sent.done = req[t].done + cnt
      BY <1>2 DEF Requests
    <2>2. req'[t] = sent
      BY <1>1, <1>2 DEF IInv, TypeOK
    <2> HIDE DEF sent
    <2>3. Consecutive(req[t].timestamp, req[t].data)
      BY <1>2 DEF AcceptedOK, WriterOK
    <2>4. req'[t].timestamp + req'[t].done = clock' + 0 * mPktSize'
      <3>1. req[t].timestamp \in Int /\ req[t].done \in Nat /\ mPktSize' \in Nat
        BY <1>1, <1>2, IndexFacts DEF Requests
      <3> QED
        BY <1>1, <2>1, <2>2, <3>1
    <2>5. \E g \in Gaps : /\ req'[t].timestamp + req'[t].done = clock' + g * mPktSize'
                          /\ g > 0 => mLast' = 0
      BY <2>4
    <2>6. \A u \in SamplePushers : u = t
      OBVIOUS
    <2> QED
      BY <2>1, <2>2, <2>3, <2>5, <2>6 DEF WriterOK
  <1> QED
    BY <1>6, <1>7 DEF AcceptedOK

LEMMA AcceptedOKReset ==
    ASSUME IInv, AcceptedOK, Clear \/ ResizeClear \/ ResizeAllocate
    PROVE  AcceptedOK'
  <1>1. mElementsFilled' = 0 /\ mLast' = 0 /\ UNCHANGED <<req, pc>>
    BY DEF Clear, ResizeClear, ResizeAllocate, ClearFields, IInv, ResizeOK
  <1>2. QueuedOK' /\ OpenOK'
    BY <1>1 DEF QueuedOK, OpenOK
  <1>3. WriterOK'
    <2>1. CASE Clear \/ ResizeClear
      <3>1. UNCHANGED <<clock, mPktSize>>
        BY <2>1 DEF Clear, ResizeClear
      <3> QED
        BY <1>1, <3>1 DEF AcceptedOK, WriterOK
    <2>2. CASE ResizeAllocate
      <3>1. \A u \in SamplePushers : pc[u] = "idle"
        BY <2>2 DEF ResizeAllocate, IInv, ResizeOK, Idle, Threads
      <3> QED
        BY <1>1, <3>1 DEF WriterOK
    <2> QED
      BY <2>1, <2>2
  <1> QED
    BY <1>2, <1>3 DEF AcceptedOK

LEMMA AcceptedOKNext ==
    ASSUME IInv, AcceptedOK, PktPushers \cup SamplePoppers = {}, 0 \in Gaps,
           \A t, u \in SamplePushers : t = u, [Next]_vars
    PROVE  AcceptedOK'
  <1>1. CASE \E t \in SamplePushers : PushSamplesCall(t) \/ PushSamplesStep(t)
    BY <1>1, AcceptedOKCall, AcceptedOKPushChunk, AcceptedOKBookkeeping
    DEF PushSamplesStep, Threads
  <1>2. CASE \E t \in PktPoppers : PopPacketCall(t) \/ PopPacketStep(t)
    BY <1>2, AcceptedOKPopPacket, AcceptedOKBookkeeping DEF PopPacketStep, Threads
  <1>3. CASE \E t \in Threads : Expire(t)
    BY <1>3, AcceptedOKBookkeeping
  <1>4. CASE GetInfo \/ UNCHANGED vars
    <2>1. UNCHANGED <<ring, clock, req, pc>>
      BY <1>4 DEF GetInfo, vars
    <2> QED
      BY <2>1, AcceptedOKKept
  <1>5. CASE Clear \/ ResizeClear \/ ResizeAllocate
    BY <1>5, AcceptedOKReset
  <1> QED
    BY <1>1, <1>2, <1>3, <1>4, <1>5 DEF Next

\* What the application's one writer has been told was accepted is queued: for
\* any sizes and buffers, any number of threads that send, wherever the buffers
\* were cut and the waits interrupted, while nobody resizes the FIFO under a
\* call.  That the application may go on without a jump is 0 \in Gaps.
THEOREM AcceptedQueued ==
    /\ QuietResize
    /\ PktPushers \cup SamplePoppers = {}
    /\ \A t, u \in SamplePushers : t = u
    /\ 0 \in Gaps
    => (Spec => []AcceptedIsQueued)
  <1> SUFFICES ASSUME QuietResize, PktPushers \cup SamplePoppers = {}, 0 \in Gaps,
                      \A t, u \in SamplePushers : t = u
               PROVE  Spec => []AcceptedIsQueued
    OBVIOUS
  <1>1. Init => IInv /\ AcceptedOK
    BY InitIInv, AcceptedOKInit
  <1>2. IInv /\ AcceptedOK /\ [Next]_vars => IInv' /\ AcceptedOK'
    BY NextIInv, AcceptedOKNext
  <1>3. IInv /\ AcceptedOK => AcceptedIsQueued
    BY AcceptedOKEnough
  <1> QED
    BY <1>1, <1>2, <1>3, PTL DEF Spec
=============================================================================
