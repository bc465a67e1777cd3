-------------------------- MODULE ReceiveLoop_proofs --------------------------
(***************************************************************************)
(* The receive loop for any number of buffers, any packets dropped and any *)
(* transfers failed or refused: buffers are exclusive, no context is lost  *)
(* to the pool, packets are parsed in order, and losses are counted.       *)
(***************************************************************************)
EXTENDS ReceiveLoop, SequenceTheorems, FiniteSetTheorems, TLAPS

-----------------------------------------------------------------------------
\* Types.

Places == {"fill", "top", "parse", "submit", "drain", "ended"}

TypeInv ==
    /\ used \in [Contexts -> BOOLEAN]
    /\ done \in [Contexts -> BOOLEAN]
    /\ bytesXfered \in [Contexts -> {0, 1}]
    /\ queue \in Seq(Contexts)
    /\ target \in [Contexts -> Buffers]
    /\ handles \in [Buffers -> Contexts \cup {-1}]
    /\ buffers \in [Buffers -> Int]
    /\ pc \in Places
    /\ bi \in Buffers
    /\ bytesReceived \in {0, 1}
    /\ prevTs \in Int /\ pktLost \in Int
    /\ received \in Seq(Int)
    /\ counter \in Int

-----------------------------------------------------------------------------
\* Whose each context is.

\* The buffers whose handle says what became of their last transfer: all but the one
\* that is being parsed, and in the beginning those that have not been submitted yet.
Settled == {b \in Buffers : \/ pc \in {"top", "drain", "ended"}
                            \/ pc = "fill" /\ b < bi
                            \/ pc \in {"parse", "submit"} /\ b # bi}

Running == pc \notin {"drain", "ended"}

\* A context in use is held by the buffer it was submitted for, and a buffer with a
\* handle has it in use.
HandlesOK ==
    /\ \A i \in Contexts : used[i] => handles[target[i]] = i /\ target[i] \in Settled
    /\ Running => \A b \in Settled :
          handles[b] # -1 => used[handles[b]] /\ target[handles[b]] = b

\* A transfer in flight is the only one of its context, and of its buffer.
FlightOK ==
    /\ \A j, k \in DOMAIN queue : queue[j] = queue[k] => j = k
    /\ \A k \in DOMAIN queue : /\ ~done[queue[k]]
                               /\ handles[target[queue[k]]] = queue[k]
                               /\ target[queue[k]] \in Settled
                               /\ Running => used[queue[k]]

\* Nothing is given back while it is in flight.
DrainOK == ~SlowCancel => \A k \in DOMAIN queue : used[queue[k]]

EndedOK == pc = "ended" => \A i \in Contexts : ~used[i]

Holding == HandlesOK /\ FlightOK

-----------------------------------------------------------------------------
\* The order of the packets.

\* How far a buffer is from its turn; the loop begins with the first.
Turn == [b \in Buffers |-> IF pc = "fill" THEN b
                          ELSE IF b >= bi THEN b - bi ELSE b - bi + buffersCount]

\* A packet has arrived in the buffer, and is not parsed yet.
Full == {b \in Buffers :
            \/ /\ b \in Settled /\ handles[b] # -1
               /\ done[handles[b]] /\ bytesXfered[handles[b]] = 1
            \/ pc = "parse" /\ b = bi /\ bytesReceived = 1}

\* Transfers are served in the turn of their buffers, and the packets that wait in
\* buffers came in that order, before any transfer that is still in flight.
TurnsOK ==
    Running =>
        /\ \A j, k \in DOMAIN queue : j < k => Turn[target[queue[j]]] < Turn[target[queue[k]]]
        /\ \A b \in Full, k \in DOMAIN queue : Turn[b] < Turn[target[queue[k]]]
        /\ \A a, b \in Full : Turn[a] < Turn[b] => buffers[a] < buffers[b]

\* What has been parsed came before what waits, and that before what is to come.
ArrivedOK ==
    /\ FirstCounter <= counter /\ dropped \subseteq FirstCounter..(counter - 1)
    /\ \A k \in DOMAIN received : received[k] \in FirstCounter..(counter - 1) \ dropped
    /\ Running => \A b \in Full :
          /\ buffers[b] \in FirstCounter..(counter - 1) \ dropped
          /\ \A k \in DOMAIN received : received[k] < buffers[b]

\* Where packets stay that have not been parsed: nothing will overwrite them.
Kept == IF Running THEN Full ELSE Buffers \ {target[queue[k]] : k \in DOMAIN queue}

\* Packets are parsed in order, and none is lost.
ParsedOK ==
    /\ \A j, k \in DOMAIN received : j < k => received[j] < received[k]
    /\ \A n \in Transferred :
          \/ \E k \in DOMAIN received : received[k] = n
          \/ \E b \in Kept : buffers[b] = n

IInv == TypeInv /\ Holding /\ DrainOK /\ EndedOK /\ TurnsOK /\ ArrivedOK /\ ParsedOK

-----------------------------------------------------------------------------
\* The count of losses, of a loop that begins with the board.

Parsed == {received[k] : k \in DOMAIN received}

\* What the counter has passed over, but for a first packet 0.
Missed == (1..(prevTs - 1)) \ Parsed

LossOK ==
    FirstCounter = 0 =>
        /\ prevTs = IF received = <<>> THEN 0 ELSE received[Len(received)]
        /\ Cardinality(Missed) = pktLost
        /\ Missed \subseteq dropped
-----------------------------------------------------------------------------
\* The ring of buffers, and the queue.

LEMMA Ring ==
    /\ buffersCount \in Nat \ {0}
    /\ 0 \in Buffers
    /\ \A b \in Buffers : b \in Nat /\ b < buffersCount
    /\ bi \in Buffers => NextBuffer = IF bi = buffersCount - 1 THEN 0 ELSE bi + 1
    /\ bi \in Buffers => NextBuffer \in Buffers
  <1>1. buffersCount \in {1, 2, 4, 8, 16}
    BY ReceiveAssumption
  <1>2. buffersCount \in Nat \ {0}
    BY <1>1
  <1>3. ASSUME bi \in Buffers
        PROVE  NextBuffer = IF bi = buffersCount - 1 THEN 0 ELSE bi + 1
    <2>1. CASE bi = buffersCount - 1
      BY <1>1, <2>1 DEF NextBuffer
    <2>2. CASE bi # buffersCount - 1
      <3>1. bi \in Nat /\ bi + 1 < buffersCount
        BY <1>2, <1>3, <2>2 DEF Buffers
      <3> QED
        BY <1>1, <2>2, <3>1 DEF NextBuffer
    <2> QED
      BY <2>1, <2>2
  <1> QED
    BY <1>2, <1>3 DEF Buffers

\* What is left of the queue when its k-th transfer ends.
LEMMA Left ==
    ASSUME TypeInv, NEW k \in DOMAIN queue, Leaves(k)
    PROVE  /\ queue' \in Seq(Contexts)
           /\ Len(queue') = Len(queue) - 1
           /\ Len(queue) \in Nat /\ DOMAIN queue = 1..Len(queue)
           /\ DOMAIN queue' = 1..(Len(queue) - 1)
           /\ \A j \in DOMAIN queue' : queue'[j] = IF j < k THEN queue[j] ELSE queue[j + 1]
  <1>1. /\ queue \in Seq(Contexts) /\ Len(queue) \in Nat /\ DOMAIN queue = 1..Len(queue)
        /\ k \in 1..Len(queue)
    BY LenProperties DEF TypeInv
  <1>2. /\ SubSeq(queue, 1, k - 1) \in Seq(Contexts) /\ Len(SubSeq(queue, 1, k - 1)) = k - 1
        /\ \A j \in 1..(k - 1) : SubSeq(queue, 1, k - 1)[j] = queue[j]
    BY <1>1
  <1>3. /\ SubSeq(queue, k + 1, Len(queue)) \in Seq(Contexts)
        /\ Len(SubSeq(queue, k + 1, Len(queue))) = Len(queue) - k
        /\ \A j \in 1..(Len(queue) - k) : SubSeq(queue, k + 1, Len(queue))[j] = queue[k + j]
    BY <1>1
  <1> DEFINE a == SubSeq(queue, 1, k - 1)
             b == SubSeq(queue, k + 1, Len(queue))
  <1>4. /\ a \o b \in Seq(Contexts) /\ Len(a \o b) = Len(a) + Len(b)
        /\ \A j \in 1..(Len(a) + Len(b)) :
              (a \o b)[j] = IF j <= Len(a) THEN a[j] ELSE b[j - Len(a)]
    BY <1>2, <1>3, ConcatProperties
  <1>5. queue' = a \o b
    BY DEF Leaves
  <1> HIDE DEF a, b
  <1>6. Len(a) = k - 1 /\ Len(b) = Len(queue) - k
    BY <1>2, <1>3 DEF a, b
  <1>7. DOMAIN (a \o b) = 1..(Len(queue) - 1)
    <2>1. DOMAIN (a \o b) = 1..Len(a \o b)
      BY <1>4, LenProperties
    <2>2. Len(a) + Len(b) = Len(queue) - 1
      BY <1>1, <1>6
    <2> QED
      BY <1>4, <2>1, <2>2
  <1>8. ASSUME NEW j \in 1..(Len(queue) - 1)
        PROVE  (a \o b)[j] = IF j < k THEN queue[j] ELSE queue[j + 1]
    <2>1. CASE j < k
      <3>1. a[j] = queue[j]
        BY <1>1, <1>2, <2>1 DEF a
      <3> QED
        BY <1>1, <1>4, <1>6, <2>1, <3>1
    <2>2. CASE ~(j < k)
      <3>1. j - (k - 1) \in 1..(Len(queue) - k) /\ k + (j - (k - 1)) = j + 1
        BY <1>1, <2>2
      <3>2. b[j - (k - 1)] = queue[j + 1]
        BY <1>3, <3>1 DEF b
      <3>3. j \in 1..(Len(a) + Len(b)) /\ ~(j <= Len(a))
        BY <1>1, <1>6, <2>2
      <3>4. (a \o b)[j] = b[j - Len(a)]
        BY <1>4, <3>3
      <3> QED
        BY <1>6, <2>2, <3>2, <3>4
    <2> QED
      BY <2>1, <2>2
  <1>9. Len(a \o b) = Len(queue) - 1
    BY <1>1, <1>4, <1>6
  <1> QED
    BY <1>1, <1>4, <1>5, <1>7, <1>8, <1>9

-----------------------------------------------------------------------------
\* Types.

LEMMA TypeInit == Init => TypeInv
  BY Ring DEF Init, TypeInv, Places, Contexts, Buffers, ReceiveAssumption

LEMMA TypeSubmit ==
    ASSUME TypeInv, NEW b \in Buffers, Submit(b)
    PROVE  /\ used' \in [Contexts -> BOOLEAN]
           /\ done' \in [Contexts -> BOOLEAN]
           /\ bytesXfered' \in [Contexts -> {0, 1}]
           /\ queue' \in Seq(Contexts)
           /\ target' \in [Contexts -> Buffers]
           /\ handles' \in [Buffers -> Contexts \cup {-1}]
  <1>1. CASE BeginDataReading(b)
    BY <1>1 DEF BeginDataReading, Submitted, TypeInv
  <1>2. CASE BeginFails(b)
    BY <1>2 DEF BeginFails, contexts, usb, TypeInv
  <1> QED
    BY <1>1, <1>2 DEF Submit

LEMMA TypeStep == TypeInv /\ [Next]_vars => TypeInv'
  <1> SUFFICES ASSUME TypeInv, [Next]_vars
               PROVE  TypeInv'
    OBVIOUS
  <1>q. /\ queue \in Seq(Contexts) /\ Len(queue) \in Nat /\ DOMAIN queue = 1..Len(queue)
        /\ \A k \in DOMAIN queue : queue[k] \in Contexts
        /\ queue # <<>> => 1 \in DOMAIN queue /\ Head(queue) = queue[1]
    BY LenProperties, ElementOfSeq, EmptySeq DEF TypeInv
  <1>1. CASE Arrive
    <2>1. 1 \in DOMAIN queue /\ queue'  \in Seq(Contexts)
      BY <1>1, <1>q, Left DEF Arrive
    <2> QED
      BY <1>1, <1>q, <2>1 DEF Arrive, Leaves, Callback, loopVars, TypeInv
  <1>2. CASE Drop
    BY <1>2 DEF Drop, contexts, usb, loopVars, TypeInv
  <1>3. CASE TransferError
    <2>1. 1 \in DOMAIN queue /\ queue'  \in Seq(Contexts)
      BY <1>3, <1>q, Left DEF TransferError
    <2> QED
      BY <1>3, <1>q, <2>1 DEF TransferError, Leaves, Callback, loopVars, board, TypeInv
  <1>4. CASE TransferSilent
    <2>1. 1 \in DOMAIN queue /\ queue'  \in Seq(Contexts)
      BY <1>4, <1>q, Left DEF TransferSilent
    <2> QED
      BY <1>4, <1>q, <2>1 DEF TransferSilent, Leaves, contexts, loopVars, board, TypeInv
  <1>5. ASSUME NEW i \in Contexts, CancelCompletes(i)
        PROVE  TypeInv'
    <2>1. queue'  \in Seq(Contexts)
      BY <1>5, <1>q, Left DEF CancelCompletes
    <2> QED
      BY <1>5, <2>1 DEF CancelCompletes, Leaves, Callback, loopVars, board, TypeInv
  <1>6. CASE Terminate
    BY <1>6 DEF Terminate, contexts, usb, loopVars, board, TypeInv
  <1>7. CASE Fill \/ Resubmit
    <2>1. Submit(bi) /\ bi \in Buffers
      BY <1>7 DEF Fill, Resubmit, TypeInv
    <2> QED
      BY <1>7, <2>1, TypeSubmit, Ring DEF Fill, Resubmit, board, TypeInv, Places
  <1>8. CASE Take
    <2>1. handles[bi] \in Contexts
      BY <1>8, Ring DEF Take, TypeInv
    <2>2. bytesReceived' \in {0, 1}
      BY <1>8, <2>1 DEF Take, TypeInv
    <2> QED
      BY <1>8, <2>2 DEF Take, FinishDataReading, usb, board, TypeInv, Places
  <1>8a. CASE TakeNothing
    BY <1>8a DEF TakeNothing, contexts, usb, board, TypeInv, Places
  <1>9. CASE Parse
    <2>1. buffers[bi] \in Int
      BY DEF TypeInv
    <2>2. PacketLoss(buffers[bi], prevTs) \in Int
      BY <2>1 DEF PacketLoss, TypeInv
    <2>3. Append(received, buffers[bi]) \in Seq(Int)
      BY <2>1 DEF TypeInv
    <2>4. received' \in Seq(Int) /\ prevTs' \in Int /\ pktLost' \in Int
      <3>1. CASE bytesReceived = 1
        <4>1. /\ received' = Append(received, buffers[bi]) /\ prevTs' = buffers[bi]
              /\ pktLost' = pktLost + PacketLoss(buffers[bi], prevTs)
          BY <1>9, <3>1 DEF Parse
        <4>2. pktLost \in Int
          BY DEF TypeInv
        <4> QED
          BY <2>1, <2>2, <2>3, <4>1, <4>2
      <3>2. CASE bytesReceived # 1
        BY <1>9, <3>2 DEF Parse, TypeInv
      <3> QED
        BY <3>1, <3>2
    <2> QED
      BY <1>9, <2>4 DEF Parse, contexts, usb, board, TypeInv, Places
  <1>10. CASE CancelAll \/ End
    BY <1>10 DEF CancelAll, End, contexts, usb, board, TypeInv, Places
  <1>11. CASE Drain
    BY <1>11 DEF Drain, FinishDataReading, usb, loopVars, board, TypeInv
  <1>12. CASE UNCHANGED vars
    BY <1>12 DEF vars, contexts, usb, loopVars, board, TypeInv
  <1> QED
    BY <1>1, <1>2, <1>3, <1>4, <1>5, <1>6, <1>7, <1>8, <1>8a, <1>9, <1>10,
       <1>11, <1>12
    DEF Next, LoopStep

-----------------------------------------------------------------------------
\* Whose each context is.

LEMMA HoldingInit == Init => Holding /\ DrainOK /\ EndedOK
  <1> SUFFICES ASSUME Init PROVE Holding /\ DrainOK /\ EndedOK
    OBVIOUS
  <1>1. DOMAIN queue = {}
    BY DEF Init
  <1>2. Settled = {}
    BY Ring DEF Init, Settled
  <1> QED
    BY <1>1, <1>2 DEF Init, Holding, HandlesOK, FlightOK, DrainOK, EndedOK

LEMMA HoldingLeaves ==
    ASSUME TypeInv, Holding, NEW k \in DOMAIN queue, Leaves(k),
           UNCHANGED <<used, handles, pc, bi>>,
           \A i \in Contexts : i # queue[k] => done'[i] = done[i]
    PROVE  Holding'
  <1>1. /\ DOMAIN queue' = 1..(Len(queue) - 1) /\ DOMAIN queue = 1..Len(queue)
        /\ Len(queue) \in Nat /\ k \in 1..Len(queue)
        /\ \A j \in DOMAIN queue' : queue'[j] = IF j < k THEN queue[j] ELSE queue[j + 1]
    BY Left
  <1>2. target' = target
    BY DEF Leaves
  <1>3. Settled' = Settled
    BY DEF Settled
  <1>4. Running' <=> Running
    BY DEF Running
  <1>5. HandlesOK'
    BY <1>2, <1>3, <1>4 DEF Holding, HandlesOK, TypeInv
  <1>6. ASSUME NEW j \in DOMAIN queue'
        PROVE  \E l \in DOMAIN queue : l # k /\ queue'[j] = queue[l]
                                       /\ l = IF j < k THEN j ELSE j + 1
    BY <1>1
  <1>7. ASSUME NEW i \in DOMAIN queue', NEW j \in DOMAIN queue', queue'[i] = queue'[j]
        PROVE  i = j
    <2>1. PICK l \in DOMAIN queue : /\ queue'[i] = queue[l]
                                    /\ l = IF i < k THEN i ELSE i + 1
      BY <1>6
    <2>2. PICK m \in DOMAIN queue : /\ queue'[j] = queue[m]
                                    /\ m = IF j < k THEN j ELSE j + 1
      BY <1>6
    <2>3. queue[l] = queue[m]
      BY <1>7, <2>1, <2>2
    <2>4. \A n, o \in DOMAIN queue : queue[n] = queue[o] => n = o
      BY DEF Holding, FlightOK
    <2>5. l = m
      BY <2>3, <2>4
    <2>6. i \in 1..(Len(queue) - 1) /\ j \in 1..(Len(queue) - 1)
      BY <1>1
    <2> QED
      BY <1>1, <2>1, <2>2, <2>5, <2>6
  <1>8. ASSUME NEW j \in DOMAIN queue'
        PROVE  /\ ~done'[queue'[j]]
               /\ handles'[target'[queue'[j]]] = queue'[j]
               /\ target'[queue'[j]] \in Settled'
               /\ Running' => used'[queue'[j]]
    <2>1. PICK l \in DOMAIN queue : l # k /\ queue'[j] = queue[l]
      BY <1>6
    <2>2. queue[l] # queue[k] /\ queue[l] \in Contexts
      BY <2>1, ElementOfSeq, <1>1 DEF Holding, FlightOK, TypeInv
    <2>3. target[queue[l]] \in Buffers
      BY <2>2 DEF TypeInv
    <2> QED
      BY <1>2, <1>3, <1>4, <2>1, <2>2, <2>3 DEF Holding, FlightOK
  <1> QED
    BY <1>5, <1>7, <1>8 DEF Holding, FlightOK

\* A buffer's transfer has been submitted, or not: the buffer is settled.
LEMMA Settles ==
    ASSUME TypeInv, Fill \/ Resubmit
    PROVE  /\ bi \in Buffers /\ Submit(bi)
           /\ Running /\ Running'
           /\ bi \notin Settled
           /\ Settled' = Settled \cup {bi}
  <1>1. bi \in Buffers /\ Submit(bi)
    BY DEF TypeInv, Fill, Resubmit
  <1>2. CASE Fill
    <2>1. pc = "fill" /\ bi' = NextBuffer /\ pc' = IF bi = buffersCount - 1 THEN "top" ELSE "fill"
      BY <1>2 DEF Fill
    <2>2. Settled = {b \in Buffers : b < bi}
      BY <2>1 DEF Settled
    <2>3. Settled' = {b \in Buffers : b < bi + 1}
      <3>1. CASE bi = buffersCount - 1
        <4>1. Settled' = Buffers
          BY <2>1, <3>1 DEF Settled
        <4>2. \A b \in Buffers : b < bi + 1
          BY <1>1, <3>1, Ring
        <4> QED
          BY <4>1, <4>2
      <3>2. CASE bi # buffersCount - 1
        BY <1>1, <2>1, <3>2, Ring DEF Settled
      <3> QED
        BY <3>1, <3>2
    <2>4. Running /\ Running'
      BY <2>1 DEF Running
    <2> QED
      BY <1>1, <2>2, <2>3, <2>4, Ring
  <1>3. CASE Resubmit
    <2>1. pc = "submit" /\ pc' = "top"
      BY <1>3 DEF Resubmit
    <2> QED
      BY <1>1, <2>1 DEF Settled, Running
  <1> QED
    BY <1>2, <1>3

LEMMA HoldingSubmit ==
    ASSUME TypeInv, Holding, Fill \/ Resubmit
    PROVE  Holding'
  <1>1. /\ bi \in Buffers /\ Submit(bi)
        /\ Running /\ Running'
        /\ bi \notin Settled
        /\ Settled' = Settled \cup {bi}
    BY Settles
  <1>q. /\ queue \in Seq(Contexts) /\ Len(queue) \in Nat /\ DOMAIN queue = 1..Len(queue)
        /\ \A k \in DOMAIN queue : queue[k] \in Contexts
    BY LenProperties, ElementOfSeq DEF TypeInv
  <1>2. CASE BeginDataReading(bi)
    <2>1. PICK i \in Contexts :
             /\ ~used[i] /\ Submitted(i)
             /\ queue' = Append(queue, i)
             /\ target' = [target EXCEPT ![i] = bi]
             /\ handles' = [handles EXCEPT ![bi] = i]
      BY <1>2 DEF BeginDataReading, FirstFree
    <2>2. /\ used' = [used EXCEPT ![i] = TRUE] /\ done' = [done EXCEPT ![i] = FALSE]
      BY <2>1 DEF Submitted
    <2>3. ASSUME NEW j \in Contexts, used'[j]
          PROVE  handles'[target'[j]] = j /\ target'[j] \in Settled'
      <3>1. CASE j = i
        BY <1>1, <2>1, <3>1 DEF TypeInv
      <3>2. CASE j # i
        <4>1. used[j] /\ target'[j] = target[j] /\ target[j] \in Buffers
          BY <2>1, <2>2, <2>3, <3>2 DEF TypeInv
        <4>2. handles[target[j]] = j /\ target[j] \in Settled /\ target[j] # bi
          BY <1>1, <4>1 DEF Holding, HandlesOK
        <4> QED
          BY <1>1, <2>1, <4>1, <4>2 DEF TypeInv
      <3> QED
        BY <3>1, <3>2
    <2>4. ASSUME NEW b \in Settled', handles'[b] # -1
          PROVE  used'[handles'[b]] /\ target'[handles'[b]] = b
      <3>1. CASE b = bi
        BY <2>1, <2>2, <3>1 DEF TypeInv
      <3>2. CASE b # bi
        <4>0. b \in Settled /\ b \in Buffers
          BY <1>1, <2>4, <3>2 DEF Settled
        <4>1. handles'[b] = handles[b] /\ handles[b] \in Contexts /\ b \in Settled
          BY <2>1, <2>4, <3>2, <4>0 DEF TypeInv
        <4>2. used[handles[b]] /\ target[handles[b]] = b
          BY <1>1, <2>4, <4>1 DEF Holding, HandlesOK
        <4> QED
          BY <2>1, <2>2, <4>1, <4>2 DEF TypeInv
      <3> QED
        BY <3>1, <3>2
    <2>5. /\ DOMAIN queue' = 1..(Len(queue) + 1)
          /\ queue'[Len(queue) + 1] = i
          /\ \A k \in DOMAIN queue : queue'[k] = queue[k] /\ queue[k] # i
      BY <1>1, <1>q, <2>1, AppendProperties, LenProperties DEF Holding, FlightOK
    <2>6. ASSUME NEW k \in DOMAIN queue'
          PROVE  /\ ~done'[queue'[k]]
                 /\ handles'[target'[queue'[k]]] = queue'[k]
                 /\ target'[queue'[k]] \in Settled'
                 /\ used'[queue'[k]]
      <3>1. CASE k \in DOMAIN queue
        <4>1. /\ queue'[k] \in Contexts /\ queue'[k] # i
              /\ ~done[queue'[k]] /\ used[queue'[k]]
          BY <1>1, <1>q, <2>5, <3>1 DEF Holding, FlightOK
        <4>2. used'[queue'[k]] /\ ~done'[queue'[k]]
          BY <2>2, <4>1 DEF TypeInv
        <4> QED
          BY <2>3, <4>1, <4>2
      <3>2. CASE k \notin DOMAIN queue
        <4>1. queue'[k] = i
          BY <1>q, <2>5, <3>2
        <4>2. used'[i] /\ ~done'[i]
          BY <2>2 DEF TypeInv
        <4> QED
          BY <2>3, <4>1, <4>2
      <3> QED
        BY <3>1, <3>2
    <2>7. \A j, k \in DOMAIN queue' : queue'[j] = queue'[k] => j = k
      BY <1>q, <2>5 DEF Holding, FlightOK
    <2> QED
      BY <2>3, <2>4, <2>6, <2>7 DEF Holding, HandlesOK, FlightOK
  <1>3. CASE BeginFails(bi)
    <2>1. /\ queue' = queue /\ target' = target /\ used' = used
          /\ handles' = [handles EXCEPT ![bi] = -1]
          /\ \A i \in Contexts : used[i] => done'[i] = done[i]
      BY <1>3 DEF BeginFails, FirstFree, contexts, usb, TypeInv
    <2>2. ASSUME NEW j \in Contexts, used[j]
          PROVE  handles'[target[j]] = j /\ target[j] \in Settled'
      <3>1. handles[target[j]] = j /\ target[j] \in Settled /\ target[j] # bi /\ target[j] \in Buffers
        BY <1>1, <2>2 DEF Holding, HandlesOK, TypeInv
      <3> QED
        BY <1>1, <2>1, <3>1 DEF TypeInv
    <2>3. ASSUME NEW b \in Settled', handles'[b] # -1
          PROVE  used[handles'[b]] /\ target[handles'[b]] = b
      <3>1. b # bi /\ b \in Settled /\ handles'[b] = handles[b]
        BY <1>1, <2>1, <2>3 DEF TypeInv
      <3> QED
        BY <1>1, <2>3, <3>1 DEF Holding, HandlesOK
    <2>4. ASSUME NEW k \in DOMAIN queue
          PROVE  /\ ~done'[queue[k]] /\ used[queue[k]]
                 /\ handles'[target[queue[k]]] = queue[k]
                 /\ target[queue[k]] \in Settled'
      <3>1. queue[k] \in Contexts /\ ~done[queue[k]] /\ used[queue[k]]
        BY <1>1, <1>q DEF Holding, FlightOK
      <3> QED
        BY <2>1, <2>2, <3>1
    <2> QED
      BY <2>1, <2>2, <2>3, <2>4 DEF Holding, HandlesOK, FlightOK
  <1> QED
    BY <1>1, <1>2, <1>3 DEF Submit

\* What is taken is over, and nothing else holds the context.
LEMMA Taken ==
    ASSUME TypeInv, Holding, Take
    PROVE  /\ handles[bi] \in Contexts /\ used[handles[bi]] /\ done[handles[bi]]
           /\ target[handles[bi]] = bi
           /\ \A k \in DOMAIN queue : queue[k] # handles[bi]
           /\ bytesReceived' = bytesXfered[handles[bi]]
           /\ used' = [used EXCEPT ![handles[bi]] = FALSE]
           /\ pc = "top" /\ pc' = "parse"
           /\ UNCHANGED <<done, bytesXfered, queue, target, buffers, handles, bi, prevTs, pktLost,
                          received, counter, dropped>>
  <1>1. pc = "top" /\ bi \in Buffers /\ handles[bi] \in Contexts
    BY Ring DEF Take, TypeInv
  <1>2. used[handles[bi]] /\ target[handles[bi]] = bi
    BY <1>1, Ring DEF Holding, HandlesOK, Settled, Running, Contexts
  <1> QED
    BY <1>1, <1>2 DEF Take, FinishDataReading, usb, board, Holding, FlightOK

LEMMA HoldingTake == TypeInv /\ Holding /\ Take => Holding'
  <1> SUFFICES ASSUME TypeInv, Holding, Take
               PROVE  Holding'
    OBVIOUS
  <1> DEFINE h == handles[bi]
  <1>1. /\ h \in Contexts /\ used[h] /\ done[h] /\ target[h] = bi
        /\ \A k \in DOMAIN queue : queue[k] # h
        /\ used' = [used EXCEPT ![h] = FALSE]
        /\ pc = "top" /\ pc' = "parse"
        /\ UNCHANGED <<done, queue, target, handles, bi>>
    BY Taken
  <1>2. bi \in Buffers /\ Running /\ Running'
    BY <1>1 DEF TypeInv, Running
  <1>3. Settled = Buffers /\ Settled' = Buffers \ {bi}
    BY <1>1 DEF Settled
  <1>q. \A k \in DOMAIN queue : queue[k] \in Contexts
    BY ElementOfSeq, LenProperties DEF TypeInv
  <1>4. \A j \in Contexts : target[j] \in Buffers
    BY DEF TypeInv
  <1> HIDE DEF h
  <1>5. ASSUME NEW j \in Contexts, used'[j]
        PROVE  handles[target[j]] = j /\ target[j] # bi
    <2>1. j # h /\ used[j]
      BY <1>1, <1>5 DEF TypeInv
    <2> QED
      BY <2>1 DEF Holding, HandlesOK, h
  <1>6. ASSUME NEW b \in Buffers, b # bi, handles[b] # -1
        PROVE  used'[handles[b]] /\ target[handles[b]] = b
    <2>1. used[handles[b]] /\ target[handles[b]] = b /\ handles[b] \in Contexts
      BY <1>2, <1>3, <1>6 DEF Holding, HandlesOK, TypeInv
    <2> QED
      BY <1>1, <1>6, <2>1 DEF TypeInv
  <1>7. ASSUME NEW k \in DOMAIN queue
        PROVE  used'[queue[k]] /\ ~done[queue[k]]
    BY <1>1, <1>2, <1>q DEF Holding, FlightOK, TypeInv
  <1> QED
    BY <1>1, <1>2, <1>3, <1>4, <1>5, <1>6, <1>7, <1>q DEF Holding, HandlesOK, FlightOK

LEMMA HoldingStep == TypeInv /\ Holding /\ [Next]_vars => Holding'
  <1> SUFFICES ASSUME TypeInv, Holding, [Next]_vars
               PROVE  Holding'
    OBVIOUS
  <1>q. /\ queue # <<>> => 1 \in DOMAIN queue /\ Head(queue) = queue[1]
        /\ \A k \in DOMAIN queue : queue[k] \in Contexts
        /\ \A j \in Contexts : target[j] \in Buffers
    BY LenProperties, ElementOfSeq, EmptySeq DEF TypeInv
  <1>1. CASE Arrive \/ TransferError \/ TransferSilent
    <2>1. /\ 1 \in DOMAIN queue /\ Leaves(1)
          /\ UNCHANGED <<used, handles, pc, bi>>
          /\ \A i \in Contexts : i # queue[1] => done'[i] = done[i]
      BY <1>1, <1>q DEF Arrive, TransferError, TransferSilent, Callback, loopVars, contexts, TypeInv
    <2> QED
      BY <2>1, HoldingLeaves
  <1>2. ASSUME NEW i \in Contexts, CancelCompletes(i)
        PROVE  Holding'
    <2>1. PICK k \in DOMAIN queue : queue[k] = i /\ Leaves(k)
      BY <1>2 DEF CancelCompletes
    <2>2. /\ UNCHANGED <<used, handles, pc, bi>>
          /\ \A j \in Contexts : j # i => done'[j] = done[j]
      BY <1>2 DEF CancelCompletes, Callback, loopVars, TypeInv
    <2> QED
      BY <2>1, <2>2, HoldingLeaves
  <1>3. CASE Fill \/ Resubmit
    BY <1>3, HoldingSubmit
  <1>4. CASE Take
    BY <1>4, HoldingTake
  <1>5. CASE TakeNothing
    <2>1. /\ pc = "top" /\ pc' = "parse" /\ bi \in Buffers /\ handles[bi] = -1
          /\ UNCHANGED <<used, done, queue, target, handles, bi>>
      BY <1>5, Ring DEF TakeNothing, contexts, usb, TypeInv, Contexts
    <2>2. Settled = Buffers /\ Settled' = Buffers \ {bi}
      BY <2>1 DEF Settled
    <2>3. Running /\ Running'
      BY <2>1 DEF Running
    <2>4. -1 \notin Contexts
      BY Ring DEF Contexts
    <2> QED
      BY <1>q, <2>1, <2>2, <2>3, <2>4 DEF Holding, HandlesOK, FlightOK
  <1>6. CASE Parse \/ Drop \/ Terminate \/ UNCHANGED vars
    <2>1. /\ UNCHANGED <<used, done, queue, target, handles, bi>>
          /\ pc' = pc \/ (pc = "parse" /\ pc' = "submit")
      BY <1>6 DEF Parse, Drop, Terminate, vars, contexts, usb, loopVars
    <2>2. Settled' = Settled
      BY <2>1 DEF Settled
    <2>3. Running' <=> Running
      BY <2>1 DEF Running
    <2> QED
      BY <1>q, <2>1, <2>2, <2>3 DEF Holding, HandlesOK, FlightOK
  <1>7. CASE CancelAll \/ End
    <2>1. /\ UNCHANGED <<used, done, queue, target, handles, bi>>
          /\ pc' \in {"drain", "ended"}
      BY <1>7 DEF CancelAll, End, contexts, usb
    <2>2. Settled' = Buffers
      BY <2>1 DEF Settled
    <2>3. ~Running'
      BY <2>1 DEF Running
    <2> QED
      BY <1>q, <2>1, <2>2, <2>3 DEF Holding, HandlesOK, FlightOK
  <1>8. CASE Drain
    <2>1. /\ UNCHANGED <<done, queue, target, handles, bi, pc>> /\ pc = "drain"
          /\ \A i \in Contexts : used'[i] => used[i]
      BY <1>8 DEF Drain, FinishDataReading, usb, loopVars, TypeInv
    <2>2. Settled = Buffers /\ Settled' = Buffers
      BY <2>1 DEF Settled
    <2>3. ~Running /\ ~Running'
      BY <2>1 DEF Running
    <2> QED
      BY <1>q, <2>1, <2>2, <2>3 DEF Holding, HandlesOK, FlightOK
  <1> QED
    BY <1>1, <1>2, <1>3, <1>4, <1>5, <1>6, <1>7, <1>8 DEF Next, LoopStep

\* AbortReading gives nothing back that is in flight, unless the cancelled transfer is
\* slower than its wait.
LEMMA DrainStep ==
    TypeInv /\ Holding /\ DrainOK /\ EndedOK /\ [Next]_vars => DrainOK' /\ EndedOK'
  <1> SUFFICES ASSUME TypeInv, Holding, DrainOK, EndedOK, [Next]_vars
               PROVE  DrainOK' /\ EndedOK'
    OBVIOUS
  <1>q. /\ queue # <<>> => 1 \in DOMAIN queue
        /\ \A k \in DOMAIN queue : queue[k] \in Contexts
    BY LenProperties, ElementOfSeq, EmptySeq DEF TypeInv
  <1>1. CASE Running'
    BY <1>1, HoldingStep DEF Holding, FlightOK, Running, DrainOK, EndedOK
  <1>2. CASE Arrive \/ TransferError \/ TransferSilent \/ \E i \in Contexts : CancelCompletes(i)
    <2>1. /\ \E k \in DOMAIN queue : Leaves(k)
          /\ UNCHANGED <<used, pc>>
      BY <1>2, <1>q DEF Arrive, TransferError, TransferSilent, CancelCompletes, Callback, loopVars,
         contexts
    <2>2. PICK k \in DOMAIN queue : Leaves(k)
      BY <2>1
    <2>3. \A j \in DOMAIN queue' : \E l \in DOMAIN queue : queue'[j] = queue[l]
      <3>1. /\ DOMAIN queue' = 1..(Len(queue) - 1) /\ DOMAIN queue = 1..Len(queue)
            /\ Len(queue) \in Nat
            /\ \A j \in DOMAIN queue' : queue'[j] = IF j < k THEN queue[j] ELSE queue[j + 1]
        BY <2>2, Left
      <3> QED
        BY <3>1
    <2> QED
      BY <2>1, <2>3 DEF DrainOK, EndedOK
  <1>3. CASE Drop \/ Terminate \/ CancelAll \/ UNCHANGED vars
    BY <1>3 DEF Drop, Terminate, CancelAll, vars, contexts, usb, loopVars, DrainOK, EndedOK,
       Holding, FlightOK, Running
  <1>4. CASE Drain
    <2>1. PICK i \in Contexts :
             /\ used' = [used EXCEPT ![i] = FALSE]
             /\ done[i] \/ i \notin InFlight \/ SlowCancel
      BY <1>4 DEF Drain, FinishDataReading
    <2>2. ~SlowCancel => \A k \in DOMAIN queue : queue[k] # i
      BY <2>1, <1>q DEF InFlight, Holding, FlightOK
    <2> QED
      BY <1>4, <1>q, <2>1, <2>2 DEF Drain, usb, loopVars, DrainOK, EndedOK, TypeInv
  <1>5. CASE End
    BY <1>5 DEF End, contexts, usb, DrainOK, EndedOK
  <1>6. CASE Fill \/ Take \/ TakeNothing \/ Parse \/ Resubmit
    <2>1. Running'
      BY <1>6 DEF Fill, Take, TakeNothing, Parse, Resubmit, Running
    <2> QED
      BY <1>1, <2>1
  <1> QED
    BY <1>2, <1>3, <1>4, <1>5, <1>6 DEF Next, LoopStep

-----------------------------------------------------------------------------
\* What each step does to the turns of the buffers, and to those that are full.

\* A transfer that brings nothing.
LEMMA NothingArrives ==
    ASSUME TypeInv, Holding, NEW k \in DOMAIN queue, Leaves(k),
           UNCHANGED <<handles, pc, bi, bytesReceived>>,
           done' \in [Contexts -> BOOLEAN],
           \A i \in Contexts : i # queue[k] => done'[i] = done[i] /\ bytesXfered'[i] = bytesXfered[i],
           done'[queue[k]] => bytesXfered'[queue[k]] = 0
    PROVE  Turn' = Turn /\ Full' = Full
  <1>1. Turn' = Turn /\ Settled' = Settled
    BY DEF Turn, Settled
  <1>2. queue[k] \in Contexts /\ ~done[queue[k]]
    BY ElementOfSeq, LenProperties DEF TypeInv, Holding, FlightOK
  <1>3. ASSUME NEW b \in Buffers, handles[b] # -1
        PROVE  done'[handles[b]] /\ bytesXfered'[handles[b]] = 1
                  <=> done[handles[b]] /\ bytesXfered[handles[b]] = 1
    <2>1. handles[b] \in Contexts
      BY <1>3 DEF TypeInv
    <2> QED
      BY <1>2, <2>1
  <1>4. Full' = Full
    BY <1>1, <1>3 DEF Full
  <1> QED
    BY <1>1, <1>4

\* The oldest transfer brings a packet.
LEMMA PacketArrives ==
    ASSUME TypeInv, Holding, Arrive
    PROVE  /\ 1 \in DOMAIN queue /\ Leaves(1)
           /\ target[queue[1]] \in Buffers \ Full
           /\ target[queue[1]] \in Settled
           /\ Turn' = Turn
           /\ Running => Full' = Full \cup {target[queue[1]]}
           /\ buffers' = [buffers EXCEPT ![target[queue[1]]] = counter]
           /\ counter' = counter + 1
           /\ UNCHANGED <<dropped, received, prevTs, pktLost, pc, target>>
  <1>1. 1 \in DOMAIN queue /\ Head(queue) = queue[1] /\ queue[1] \in Contexts
    BY LenProperties, ElementOfSeq, EmptySeq DEF TypeInv, Arrive
  <1> DEFINE h == queue[1]
             t == target[queue[1]]
  <1>2. /\ Leaves(1)
        /\ buffers' = [buffers EXCEPT ![t] = counter]
        /\ counter' = counter + 1
        /\ done' = [done EXCEPT ![h] = TRUE]
        /\ bytesXfered' = [bytesXfered EXCEPT ![h] = 1]
        /\ UNCHANGED <<dropped, handles, pc, bi, bytesReceived, received, prevTs, pktLost, target>>
    BY <1>1 DEF Arrive, Callback, Leaves, loopVars
  <1>3. t \in Buffers /\ ~done[h] /\ handles[t] = h /\ t \in Settled
    BY <1>1 DEF TypeInv, Holding, FlightOK
  <1>4. Turn' = Turn /\ Settled' = Settled
    BY <1>2 DEF Turn, Settled
  <1>5. h # -1
    BY <1>1, Ring DEF Contexts
  <1>6. pc = "parse" => bi \notin Settled
    BY DEF Settled
  <1> HIDE DEF h, t
  <1>7. t \notin Full
    BY <1>3, <1>5, <1>6 DEF Full
  <1>8. ASSUME NEW b \in Buffers, b # t, handles[b] # -1
        PROVE  done'[handles[b]] /\ bytesXfered'[handles[b]] = 1
                  <=> (done[handles[b]] /\ bytesXfered[handles[b]] = 1) \/ handles[b] = h
    BY <1>1, <1>2, <1>8 DEF TypeInv, h
  <1>9. ASSUME NEW b \in Settled, b # t, handles[b] = h
        PROVE  ~Running
    BY <1>1, <1>3, <1>5, <1>9 DEF Holding, HandlesOK, h, t
  <1>10. ASSUME Running
         PROVE  Full' = Full \cup {t}
    <2>1. ASSUME NEW b \in Buffers, b # t
          PROVE  b \in Full' <=> b \in Full
      BY <1>2, <1>4, <1>8, <1>9, <1>10, <2>1 DEF Full
    <2>2. t \in Full'
      <3>1. done'[h] /\ bytesXfered'[h] = 1
        BY <1>1, <1>2 DEF TypeInv, h
      <3> QED
        BY <1>2, <1>3, <1>4, <1>5, <3>1 DEF Full
    <2>3. Full \subseteq Buffers /\ Full' \subseteq Buffers
      BY DEF Full
    <2> QED
      BY <1>3, <2>1, <2>2, <2>3
  <1> QED
    BY <1>1, <1>2, <1>3, <1>4, <1>7, <1>10 DEF h, t

\* The loop submits a transfer for the buffer it is at, or fails to: the buffer has
\* nothing in it, and its turn is after that of every other with a transfer.
LEMMA SubmitsLast ==
    ASSUME TypeInv, Holding, Fill \/ Resubmit
    PROVE  /\ Full' = Full
           /\ Full \subseteq Settled /\ bi \notin Settled
           /\ \A a, b \in Settled : Turn'[a] < Turn'[b] <=> Turn[a] < Turn[b]
           /\ \A a \in Settled : Turn'[a] < Turn'[bi]
  <1>1. /\ bi \in Buffers /\ Submit(bi)
        /\ Running /\ bi \notin Settled
        /\ Settled' = Settled \cup {bi}
    BY Settles
  <1>2. pc # "parse" /\ pc' # "parse"
    BY DEF Fill, Resubmit
  <1>3. Settled \subseteq Buffers
    BY DEF Settled
  <1>4. ASSUME NEW b \in Settled
        PROVE  b \in Full' <=> b \in Full
    <2>1. handles'[b] = handles[b]
      BY <1>1, <1>3 DEF Submit, BeginDataReading, BeginFails, TypeInv
    <2>2. CASE handles[b] = -1
      BY <1>2, <1>3, <2>1, <2>2 DEF Full
    <2>3. CASE handles[b] # -1
      <3>1. used[handles[b]] /\ handles[b] \in Contexts
        BY <1>1, <1>3, <2>3 DEF Holding, HandlesOK, TypeInv
      <3>2. \A i \in Contexts : used[i] => done'[i] = done[i] /\ bytesXfered'[i] = bytesXfered[i]
        BY <1>1 DEF Submit, BeginDataReading, BeginFails, FirstFree, Submitted, contexts, TypeInv
      <3> QED
        BY <1>1, <1>2, <1>3, <2>1, <3>1, <3>2 DEF Full
    <2> QED
      BY <2>2, <2>3
  <1>5. bi \notin Full'
    <2>1. CASE BeginDataReading(bi)
      <3>1. PICK i \in Contexts : Submitted(i) /\ handles' = [handles EXCEPT ![bi] = i]
        BY <2>1 DEF BeginDataReading
      <3>2. handles'[bi] = i /\ ~done'[i]
        BY <1>1, <3>1 DEF Submitted, TypeInv
      <3> QED
        BY <1>2, <3>2 DEF Full
    <2>2. CASE BeginFails(bi)
      <3>1. handles'[bi] = -1
        BY <1>1, <2>2 DEF BeginFails, TypeInv
      <3> QED
        BY <1>2, <3>1 DEF Full
    <2> QED
      BY <1>1, <2>1, <2>2 DEF Submit
  <1>6. Full \subseteq Settled /\ Full' \subseteq Settled'
    BY <1>2 DEF Full
  <1>7. Full' = Full
    BY <1>1, <1>4, <1>5, <1>6
  <1>8. \A b \in Buffers : b \in Nat /\ b < buffersCount
    BY Ring
  <1>9. CASE Fill
    <2>1. /\ pc = "fill" /\ bi' = NextBuffer
          /\ pc' = IF bi = buffersCount - 1 THEN "top" ELSE "fill"
      BY <1>9 DEF Fill
    <2>2. \A b \in Buffers : Turn[b] = b /\ Turn'[b] = b
      <3>1. CASE bi = buffersCount - 1
        BY <1>1, <1>8, <2>1, <3>1, Ring DEF Turn
      <3>2. CASE bi # buffersCount - 1
        BY <2>1, <3>2 DEF Turn
      <3> QED
        BY <3>1, <3>2
    <2>3. \A b \in Settled : b < bi
      BY <2>1 DEF Settled
    <2> QED
      BY <1>1, <1>3, <1>6, <1>7, <2>2, <2>3
  <1>10. CASE Resubmit
    <2>1. pc = "submit" /\ pc' = "top" /\ bi' = IF bi = buffersCount - 1 THEN 0 ELSE bi + 1
      BY <1>1, <1>10, Ring DEF Resubmit
    <2>2. bi \in Nat /\ bi < buffersCount /\ buffersCount \in Nat
      BY <1>1, <1>8, Ring
    <2>3. \A b \in Buffers : b # bi => Turn'[b] = Turn[b] - 1 /\ Turn[b] \in Int
                                       /\ Turn[b] < buffersCount
      BY <1>8, <2>1, <2>2 DEF Turn
    <2>4. Turn'[bi] = buffersCount - 1
      BY <1>1, <2>1, <2>2 DEF Turn
    <2> QED
      BY <1>1, <1>3, <1>6, <1>7, <2>2, <2>3, <2>4
  <1> QED
    BY <1>9, <1>10

\* What is taken is what has arrived.
LEMMA TakesWhatArrived ==
    ASSUME TypeInv, Holding, Take \/ TakeNothing
    PROVE  Turn' = Turn /\ Full' = Full
  <1>1. /\ pc = "top" /\ pc' = "parse" /\ bi \in Buffers
        /\ UNCHANGED <<done, bytesXfered, handles, bi>>
    BY Taken DEF TakeNothing, contexts, TypeInv
  <1>2. Turn' = Turn /\ Settled = Buffers /\ Settled' = Buffers \ {bi}
    BY <1>1 DEF Turn, Settled
  <1>3. bytesReceived' = 1 <=> /\ handles[bi] # -1 /\ done[handles[bi]]
                              /\ bytesXfered[handles[bi]] = 1
    <2>1. CASE Take
      BY <2>1, Taken, Ring DEF Contexts
    <2>2. CASE TakeNothing
      <3>1. handles[bi] < 0 /\ bytesReceived' = 0
        BY <2>2 DEF TakeNothing
      <3>2. handles[bi] = -1
        BY <1>1, <3>1, Ring DEF TypeInv, Contexts
      <3> QED
        BY <3>1, <3>2
    <2> QED
      BY <2>1, <2>2
  <1>4. ASSUME NEW b \in Buffers
        PROVE  b \in Full' <=> b \in Full
    <2>1. CASE b = bi
      BY <1>1, <1>2, <1>3, <2>1 DEF Full
    <2>2. CASE b # bi
      BY <1>1, <1>2, <2>2 DEF Full
    <2> QED
      BY <2>1, <2>2
  <1>5. Full \subseteq Buffers /\ Full' \subseteq Buffers
    BY DEF Full
  <1> QED
    BY <1>2, <1>4, <1>5

\* What is parsed is what has arrived in the buffer whose turn it is.
LEMMA ParsesInTurn ==
    ASSUME TypeInv, Parse
    PROVE  /\ Turn' = Turn /\ Full' = Full \ {bi} /\ Running /\ Running'
           /\ bi \in Buffers /\ (bytesReceived = 1 <=> bi \in Full)
           /\ \A b \in Buffers \ {bi} : Turn[bi] < Turn[b]
           /\ UNCHANGED <<queue, target, buffers, counter, dropped>>
  <1>1. /\ pc = "parse" /\ pc' = "submit" /\ bi \in Buffers
        /\ UNCHANGED <<done, bytesXfered, handles, bi, queue, target, buffers, counter, dropped>>
    BY DEF Parse, contexts, usb, board, TypeInv
  <1>2. Turn' = Turn /\ Settled' = Settled /\ bi \notin Settled
    BY <1>1 DEF Turn, Settled
  <1>3. \A b \in Buffers : b \in Nat /\ b < buffersCount
    BY Ring
  <1>4. \A b \in Buffers \ {bi} : Turn[bi] < Turn[b]
    BY <1>1, <1>3, Ring DEF Turn
  <1>5. bytesReceived = 1 <=> bi \in Full
    BY <1>1, <1>2 DEF Full
  <1>6. Full' = Full \ {bi}
    BY <1>1, <1>2 DEF Full
  <1> QED
    BY <1>1, <1>2, <1>4, <1>5, <1>6 DEF Running

\* What is left of the queue is in the order it was.
LEMMA LeftInOrder ==
    ASSUME TypeInv, NEW k \in DOMAIN queue, Leaves(k)
    PROVE  /\ \A j \in DOMAIN queue' :
                 \E m \in DOMAIN queue : queue'[j] = queue[m] /\ m # k
           /\ \A i, j \in DOMAIN queue' : i < j =>
                 \E l, m \in DOMAIN queue : /\ l < m /\ queue'[i] = queue[l] /\ queue'[j] = queue[m]
                                            /\ l # k /\ m # k
           /\ \A m \in DOMAIN queue : m # k => \E j \in DOMAIN queue' : queue'[j] = queue[m]
  <1>1. /\ DOMAIN queue' = 1..(Len(queue) - 1) /\ DOMAIN queue = 1..Len(queue)
        /\ Len(queue) \in Nat /\ k \in 1..Len(queue)
        /\ \A j \in DOMAIN queue' : queue'[j] = IF j < k THEN queue[j] ELSE queue[j + 1]
    BY Left
  <1>2. ASSUME NEW j \in DOMAIN queue'
        PROVE  /\ (IF j < k THEN j ELSE j + 1) \in DOMAIN queue
               /\ queue'[j] = queue[IF j < k THEN j ELSE j + 1]
               /\ (IF j < k THEN j ELSE j + 1) # k
    BY <1>1
  <1>3. ASSUME NEW i \in DOMAIN queue', NEW j \in DOMAIN queue', i < j
        PROVE  (IF i < k THEN i ELSE i + 1) < (IF j < k THEN j ELSE j + 1)
    BY <1>1, <1>3
  <1>4. ASSUME NEW m \in DOMAIN queue, m # k
        PROVE  \E j \in DOMAIN queue' : queue'[j] = queue[m]
    <2>1. CASE m < k
      BY <1>1, <1>4, <2>1
    <2>2. CASE m > k
      <3>1. m - 1 \in DOMAIN queue' /\ ~(m - 1 < k) /\ (m - 1) + 1 = m
        BY <1>1, <1>4, <2>2
      <3> QED
        BY <1>1, <3>1
    <2> QED
      BY <1>1, <1>4, <2>1, <2>2
  <1> QED
    BY <1>2, <1>3, <1>4

-----------------------------------------------------------------------------
\* The turns are kept.

\* What each kind of step does to the queue, to the full buffers and to what is parsed.
Quiet == /\ UNCHANGED <<buffers, counter, dropped, received, prevTs, pktLost, target>>
         /\ Turn' = Turn /\ Full' = Full
         /\ \/ queue' = queue
            \/ \E k \in DOMAIN queue : Leaves(k)

\* Every step but the arrival of a packet, a submission, the parsing of one, and the
\* board's dropping one.
LEMMA QuietSteps ==
    TypeInv /\ Holding /\ [Next]_vars
        => \/ Arrive \/ Drop \/ Fill \/ Resubmit \/ Parse
           \/ Quiet /\ (Running \/ ~Running')
  <1> SUFFICES ASSUME TypeInv, Holding, [Next]_vars
               PROVE  \/ Arrive \/ Drop \/ Fill \/ Resubmit \/ Parse
                      \/ Quiet /\ (Running \/ ~Running')
    OBVIOUS
  <1>t. TypeInv'
    BY TypeStep
  <1>q. queue # <<>> => 1 \in DOMAIN queue /\ Head(queue) = queue[1] /\ queue[1] \in Contexts
    BY LenProperties, ElementOfSeq, EmptySeq DEF TypeInv
  <1>1. CASE TransferError \/ TransferSilent
    <2>1. /\ 1 \in DOMAIN queue /\ Leaves(1) /\ queue[1] \in Contexts
          /\ UNCHANGED <<handles, pc, bi, bytesReceived, buffers, counter, dropped, received,
                         prevTs, pktLost, target>>
      BY <1>1, <1>q DEF TransferError, TransferSilent, Leaves, loopVars, board
    <2>2. /\ \A i \in Contexts :
                i # queue[1] => done'[i] = done[i] /\ bytesXfered'[i] = bytesXfered[i]
          /\ done'[queue[1]] => bytesXfered'[queue[1]] = 0
      <3>1. CASE TransferError
        BY <1>q, <2>1, <3>1 DEF TransferError, Callback, TypeInv
      <3>2. CASE TransferSilent
        <4>1. ~done[queue[1]] /\ UNCHANGED <<done, bytesXfered>>
          BY <2>1, <3>2 DEF TransferSilent, contexts, Holding, FlightOK
        <4> QED
          BY <2>1, <4>1
      <3> QED
        BY <1>1, <3>1, <3>2
    <2>3. done' \in [Contexts -> BOOLEAN]
      BY <1>t DEF TypeInv
    <2>4. Turn' = Turn /\ Full' = Full
      BY <2>1, <2>2, <2>3, NothingArrives
    <2> QED
      BY <2>1, <2>4 DEF Quiet, Running
  <1>2. ASSUME NEW i \in Contexts, CancelCompletes(i)
        PROVE  Quiet /\ (Running \/ ~Running')
    <2>1. PICK k \in DOMAIN queue : queue[k] = i /\ Leaves(k)
      BY <1>2 DEF CancelCompletes
    <2>2. UNCHANGED <<handles, pc, bi, bytesReceived, buffers, counter, dropped, received,
                      prevTs, pktLost, target>>
      BY <1>2, <2>1 DEF CancelCompletes, Leaves, loopVars, board
    <2>3. /\ done' \in [Contexts -> BOOLEAN] /\ bytesXfered'[i] = 0
          /\ \A j \in Contexts :
                j # i => done'[j] = done[j] /\ bytesXfered'[j] = bytesXfered[j]
      BY <1>t, <1>2 DEF CancelCompletes, Callback, TypeInv
    <2>4. Turn' = Turn /\ Full' = Full
      BY <2>1, <2>2, <2>3, NothingArrives
    <2> QED
      BY <2>1, <2>2, <2>4 DEF Quiet, Running
  <1>3. CASE Take \/ TakeNothing
    <2>1. Turn' = Turn /\ Full' = Full
      BY <1>3, TakesWhatArrived
    <2>2. /\ UNCHANGED <<buffers, counter, dropped, received, prevTs, pktLost, target, queue>>
          /\ pc = "top"
      BY <1>3 DEF Take, TakeNothing, usb, board
    <2> QED
      BY <2>1, <2>2 DEF Quiet, Running
  <1>4. CASE Terminate \/ CancelAll \/ Drain \/ End \/ UNCHANGED vars
    <2>1. /\ UNCHANGED <<buffers, counter, dropped, received, prevTs, pktLost, target, queue,
                         done, bytesXfered, handles, bi, bytesReceived>>
          /\ \/ pc' = pc
             \/ pc \in {"top", "drain"} /\ pc' \in {"drain", "ended"}
      BY <1>4 DEF Terminate, CancelAll, Drain, FinishDataReading, End, vars, contexts, usb, board,
         loopVars
    <2>2. Settled' = Settled
      BY <2>1 DEF Settled
    <2>3. Turn' = Turn /\ Full' = Full
      BY <2>1, <2>2 DEF Turn, Full
    <2> QED
      BY <2>1, <2>3 DEF Quiet, Running
  <1> QED
    BY <1>1, <1>2, <1>3, <1>4 DEF Next, LoopStep

LEMMA TurnsStep ==
    TypeInv /\ Holding /\ TurnsOK /\ ArrivedOK /\ [Next]_vars => TurnsOK'
  <1> SUFFICES ASSUME TypeInv, Holding, TurnsOK, ArrivedOK, [Next]_vars, Running'
               PROVE  TurnsOK'
    BY DEF TurnsOK
  <1>q. /\ Len(queue) \in Nat /\ DOMAIN queue = 1..Len(queue)
        /\ \A k \in DOMAIN queue : queue[k] \in Contexts /\ target[queue[k]] \in Buffers
    BY LenProperties, ElementOfSeq DEF TypeInv
  <1>b. Full \subseteq Buffers /\ Full' \subseteq Buffers
    BY DEF Full
  <1>n. \A b \in Buffers : Turn[b] \in Int
    BY Ring DEF Turn, TypeInv
  <1>1. CASE Arrive
    <2> DEFINE t == target[queue[1]]
    <2>1. /\ 1 \in DOMAIN queue /\ Leaves(1)
          /\ t \in Buffers \ Full
          /\ Turn' = Turn
          /\ Running => Full' = Full \cup {t}
          /\ buffers' = [buffers EXCEPT ![t] = counter]
          /\ UNCHANGED <<pc, target>>
      BY <1>1, PacketArrives
    <2>2. Running /\ Full' = Full \cup {t}
      BY <2>1 DEF Running
    <2>3. /\ \A j \in DOMAIN queue' :
                 \E m \in DOMAIN queue : queue'[j] = queue[m] /\ m # 1
          /\ \A i, j \in DOMAIN queue' : i < j =>
                 \E l, m \in DOMAIN queue : l < m /\ queue'[i] = queue[l] /\ queue'[j] = queue[m]
      BY <2>1, LeftInOrder
    <2>4. \A m \in DOMAIN queue : m # 1 => Turn[t] < Turn[target[queue[m]]]
      BY <1>q, <2>1, <2>2 DEF TurnsOK
    <2>5. \A b \in Full : Turn[b] < Turn[t] /\ buffers[b] < counter
      <3>1. \A b \in Full : buffers[b] \in FirstCounter..(counter - 1)
        BY <2>2 DEF ArrivedOK
      <3>2. counter \in Int /\ FirstCounter \in Nat
        BY ReceiveAssumption DEF TypeInv
      <3> QED
        BY <2>1, <2>2, <3>1, <3>2 DEF TurnsOK
    <2>6. \A j, k \in DOMAIN queue' : j < k => Turn'[target'[queue'[j]]] < Turn'[target'[queue'[k]]]
      BY <2>1, <2>2, <2>3 DEF TurnsOK
    <2>7. \A b \in Full', k \in DOMAIN queue' : Turn'[b] < Turn'[target'[queue'[k]]]
      BY <2>1, <2>2, <2>3, <2>4 DEF TurnsOK
    <2>8. ASSUME NEW a \in Full', NEW b \in Full', Turn'[a] < Turn'[b]
          PROVE  buffers'[a] < buffers'[b]
      <3>1. Turn[a] < Turn[b] /\ a \in Buffers /\ b \in Buffers
        BY <1>b, <2>1, <2>8
      <3>2. CASE a = t
        <4>1. b = t \/ Turn[b] < Turn[a]
          BY <2>2, <2>5, <3>2
        <4> QED
          BY <1>n, <3>1, <3>2, <4>1
      <3>3. CASE a # t /\ b = t
        BY <2>1, <2>2, <2>5, <3>1, <3>3 DEF TypeInv
      <3>4. CASE a # t /\ b # t
        BY <2>1, <2>2, <3>1, <3>4 DEF TypeInv, TurnsOK
      <3> QED
        BY <3>2, <3>3, <3>4
    <2> QED
      BY <2>6, <2>7, <2>8 DEF TurnsOK
  <1>2. CASE Drop
    <2>1. /\ UNCHANGED <<queue, target, buffers, pc, bi, handles, done, bytesXfered, bytesReceived>>
      BY <1>2 DEF Drop, contexts, usb, loopVars
    <2>2. Turn' = Turn /\ Settled' = Settled /\ Running
      BY <2>1 DEF Turn, Settled, Running
    <2>3. Full' = Full
      BY <2>1, <2>2 DEF Full
    <2> QED
      BY <2>1, <2>2, <2>3 DEF TurnsOK
  <1>3. CASE Fill \/ Resubmit
    <2>1. /\ bi \in Buffers /\ Submit(bi) /\ Running
      BY <1>3, Settles
    <2>2. /\ Full' = Full
          /\ Full \subseteq Settled /\ bi \notin Settled
          /\ \A a, b \in Settled : Turn'[a] < Turn'[b] <=> Turn[a] < Turn[b]
          /\ \A a \in Settled : Turn'[a] < Turn'[bi]
      BY <1>3, SubmitsLast
    <2>3. buffers' = buffers
      BY <1>3 DEF Fill, Resubmit
    <2>4. \A k \in DOMAIN queue : target[queue[k]] \in Settled
      BY DEF Holding, FlightOK
    <2>5. \A a, b \in Full' : Turn'[a] < Turn'[b] => buffers'[a] < buffers'[b]
      BY <2>1, <2>2, <2>3 DEF TurnsOK
    <2>6. CASE BeginDataReading(bi)
      <3>1. PICK i \in Contexts :
               /\ ~used[i]
               /\ queue' = Append(queue, i)
               /\ target' = [target EXCEPT ![i] = bi]
        BY <2>6 DEF BeginDataReading, FirstFree
      <3>2. target'[i] = bi /\ \A j \in Contexts : j # i => target'[j] = target[j]
        BY <3>1 DEF TypeInv
      <3>3. /\ DOMAIN queue' = 1..(Len(queue) + 1)
            /\ queue'[Len(queue) + 1] = i
            /\ \A k \in DOMAIN queue : queue'[k] = queue[k] /\ queue[k] # i
        BY <1>q, <2>1, <3>1, AppendProperties, LenProperties DEF TypeInv, Holding, FlightOK
      <3>4. /\ \A k \in DOMAIN queue : target'[queue'[k]] = target[queue[k]]
            /\ target'[queue'[Len(queue) + 1]] = bi
        BY <1>q, <3>2, <3>3
      <3>5. \A j, k \in DOMAIN queue' :
                j < k => Turn'[target'[queue'[j]]] < Turn'[target'[queue'[k]]]
        <4>1. \A j, k \in DOMAIN queue :
                  j < k => Turn'[target'[queue'[j]]] < Turn'[target'[queue'[k]]]
          BY <2>1, <2>2, <2>4, <3>4 DEF TurnsOK
        <4>2. \A j \in DOMAIN queue :
                  Turn'[target'[queue'[j]]] < Turn'[target'[queue'[Len(queue) + 1]]]
          BY <2>2, <2>4, <3>4
        <4> QED
          BY <1>q, <3>3, <4>1, <4>2
      <3>6. \A b \in Full', k \in DOMAIN queue' : Turn'[b] < Turn'[target'[queue'[k]]]
        <4>1. \A b \in Full, k \in DOMAIN queue : Turn'[b] < Turn'[target'[queue'[k]]]
          BY <2>1, <2>2, <2>4, <3>4 DEF TurnsOK
        <4>2. \A b \in Full : Turn'[b] < Turn'[target'[queue'[Len(queue) + 1]]]
          BY <2>2, <3>4
        <4> QED
          BY <1>q, <2>2, <3>3, <4>1, <4>2
      <3> QED
        BY <2>5, <3>5, <3>6 DEF TurnsOK
    <2>7. CASE BeginFails(bi)
      <3>1. queue' = queue /\ target' = target
        BY <2>7 DEF BeginFails, usb
      <3>2. \A j, k \in DOMAIN queue :
                j < k => Turn'[target[queue[j]]] < Turn'[target[queue[k]]]
        BY <2>1, <2>2, <2>4 DEF TurnsOK
      <3>3. \A b \in Full, k \in DOMAIN queue : Turn'[b] < Turn'[target[queue[k]]]
        BY <2>1, <2>2, <2>4 DEF TurnsOK
      <3> QED
        BY <2>2, <2>5, <3>1, <3>2, <3>3 DEF TurnsOK
    <2> QED
      BY <2>1, <2>6, <2>7 DEF Submit
  <1>4. CASE Parse
    <2>1. /\ Turn' = Turn /\ Full' = Full \ {bi} /\ Running
          /\ UNCHANGED <<queue, target, buffers>>
      BY <1>4, ParsesInTurn
    <2> QED
      BY <2>1 DEF TurnsOK
  <1>5. CASE Quiet /\ (Running \/ ~Running')
    <2>1. /\ Turn' = Turn /\ Full' = Full /\ Running
          /\ UNCHANGED <<buffers, target>>
      BY <1>5 DEF Quiet
    <2>2. CASE queue' = queue
      BY <2>1, <2>2 DEF TurnsOK
    <2>3. CASE \E k \in DOMAIN queue : Leaves(k)
      <3>1. /\ \A j \in DOMAIN queue' : \E m \in DOMAIN queue : queue'[j] = queue[m]
            /\ \A i, j \in DOMAIN queue' : i < j =>
                 \E l, m \in DOMAIN queue : l < m /\ queue'[i] = queue[l] /\ queue'[j] = queue[m]
        BY <2>3, LeftInOrder
      <3> QED
        BY <2>1, <3>1 DEF TurnsOK
    <2> QED
      BY <1>5, <2>2, <2>3 DEF Quiet
  <1> QED
    BY <1>1, <1>2, <1>3, <1>4, <1>5, QuietSteps

-----------------------------------------------------------------------------
\* Packets are parsed in order, and none is lost.

LEMMA ArrivedStep ==
    TypeInv /\ Holding /\ TurnsOK /\ ArrivedOK /\ [Next]_vars => ArrivedOK'
  <1> SUFFICES ASSUME TypeInv, Holding, TurnsOK, ArrivedOK, [Next]_vars
               PROVE  ArrivedOK'
    OBVIOUS
  <1>n. counter \in Int /\ FirstCounter \in Nat
    BY ReceiveAssumption DEF TypeInv
  <1>b. Full \subseteq Buffers /\ \A b \in Buffers : buffers[b] \in Int
    BY DEF Full, TypeInv
  <1>r. received \in Seq(Int) /\ \A k \in DOMAIN received : received[k] \in Int
    BY ElementOfSeq, LenProperties DEF TypeInv
  <1>1. CASE Arrive
    <2> DEFINE t == target[queue[1]]
    <2>1. /\ t \in Buffers \ Full
          /\ Running => Full' = Full \cup {t}
          /\ buffers' = [buffers EXCEPT ![t] = counter] /\ counter' = counter + 1
          /\ UNCHANGED <<dropped, received, pc>>
      BY <1>1, PacketArrives
    <2>2. /\ FirstCounter..(counter - 1) \subseteq FirstCounter..(counter' - 1)
          /\ FirstCounter <= counter'
          /\ counter \in FirstCounter..(counter' - 1) \ dropped
      BY <1>n, <2>1 DEF ArrivedOK
    <2>3. buffers'[t] = counter /\ \A b \in Full : buffers'[b] = buffers[b]
      BY <1>b, <2>1 DEF TypeInv
    <2>4. Running' <=> Running
      BY <2>1 DEF Running
    <2>5. \A k \in DOMAIN received : received[k] < counter
      BY <1>n, <1>r DEF ArrivedOK
    <2> HIDE DEF t
    <2> QED
      BY <2>1, <2>2, <2>3, <2>4, <2>5 DEF ArrivedOK
  <1>2. CASE Drop
    <2>1. /\ UNCHANGED <<buffers, pc, bi, handles, done, bytesXfered, bytesReceived, received>>
          /\ dropped' = dropped \cup {counter} /\ counter' = counter + 1
      BY <1>2 DEF Drop, contexts, loopVars
    <2>2. Running' = Running /\ Settled' = Settled
      BY <2>1 DEF Settled, Running
    <2>3. Full' = Full
      BY <2>1, <2>2 DEF Full
    <2>4. /\ FirstCounter <= counter' /\ dropped' \subseteq FirstCounter..(counter' - 1)
          /\ FirstCounter..(counter' - 1) \ dropped' = FirstCounter..(counter - 1) \ dropped
      BY <1>n, <2>1 DEF ArrivedOK
    <2> QED
      BY <2>1, <2>2, <2>3, <2>4 DEF ArrivedOK
  <1>3. CASE Fill \/ Resubmit
    <2>1. Running /\ Full' = Full
      BY <1>3, Settles, SubmitsLast
    <2>2. UNCHANGED <<buffers, counter, dropped, received>>
      BY <1>3 DEF Fill, Resubmit, board
    <2> QED
      BY <2>1, <2>2 DEF ArrivedOK
  <1>4. CASE Parse
    <2>1. /\ Full' = Full \ {bi} /\ Running
          /\ bi \in Buffers /\ (bytesReceived = 1 <=> bi \in Full)
          /\ \A b \in Buffers \ {bi} : Turn[bi] < Turn[b]
          /\ UNCHANGED <<buffers, counter, dropped>>
      BY <1>4, ParsesInTurn
    <2>2. CASE bytesReceived # 1
      <3>1. received' = received
        BY <1>4, <2>2 DEF Parse
      <3> QED
        BY <2>1, <3>1 DEF ArrivedOK
    <2>3. CASE bytesReceived = 1
      <3>1. received' = Append(received, buffers[bi])
        BY <1>4, <2>3 DEF Parse
      <3>2. /\ buffers[bi] \in FirstCounter..(counter - 1) \ dropped
            /\ \A b \in Full \ {bi} : buffers[bi] < buffers[b]
        BY <1>b, <2>1, <2>3 DEF ArrivedOK, TurnsOK
      <3>3. \A k \in DOMAIN received' : received'[k] = buffers[bi]
                                        \/ (k \in DOMAIN received /\ received'[k] = received[k])
        BY <1>b, <1>r, <2>1, <3>1, AppendProperties, LenProperties
      <3> QED
        BY <1>b, <2>1, <3>2, <3>3 DEF ArrivedOK
    <2> QED
      BY <2>2, <2>3
  <1>5. CASE Quiet /\ (Running \/ ~Running')
    BY <1>5 DEF Quiet, ArrivedOK
  <1> QED
    BY <1>1, <1>2, <1>3, <1>4, <1>5, QuietSteps

LEMMA ParsedStep ==
    TypeInv /\ Holding /\ TurnsOK /\ ArrivedOK /\ ParsedOK /\ [Next]_vars => ParsedOK'
  <1> SUFFICES ASSUME TypeInv, Holding, TurnsOK, ArrivedOK, ParsedOK, [Next]_vars
               PROVE  ParsedOK'
    OBVIOUS
  <1>n. counter \in Int /\ FirstCounter \in Nat
    BY ReceiveAssumption DEF TypeInv
  <1>b. /\ Full \subseteq Buffers /\ Kept \subseteq Buffers
        /\ \A b \in Buffers : buffers[b] \in Int
    BY DEF Full, Kept, TypeInv
  <1>r. /\ received \in Seq(Int) /\ Len(received) \in Nat
        /\ DOMAIN received = 1..Len(received)
        /\ \A k \in DOMAIN received : received[k] \in Int
    BY ElementOfSeq, LenProperties DEF TypeInv
  <1>q. \A k \in DOMAIN queue : queue[k] \in Contexts /\ target[queue[k]] \in Buffers
    BY LenProperties, ElementOfSeq DEF TypeInv
  <1>1. CASE Arrive
    <2> DEFINE t == target[queue[1]]
    <2>1. /\ 1 \in DOMAIN queue /\ Leaves(1)
          /\ t \in Buffers \ Full
          /\ Running => Full' = Full \cup {t}
          /\ buffers' = [buffers EXCEPT ![t] = counter] /\ counter' = counter + 1
          /\ UNCHANGED <<dropped, received, pc, target>>
      BY <1>1, PacketArrives
    <2>2. Running' = Running
      BY <2>1 DEF Running
    <2>3. t \in Kept' /\ t \notin Kept /\ Kept \subseteq Kept'
      <3>1. CASE Running
        BY <2>1, <2>2, <3>1 DEF Kept
      <3>2. CASE ~Running
        <4>1. \A j \in DOMAIN queue' : \E m \in DOMAIN queue : queue'[j] = queue[m] /\ m # 1
          BY <2>1, LeftInOrder
        <4>2. \A m \in DOMAIN queue : m # 1 => target[queue[m]] # t
          BY <2>1 DEF Holding, FlightOK
        <4>3. \A j \in DOMAIN queue' :
                 /\ target[queue'[j]] # t
                 /\ \E m \in DOMAIN queue : target[queue'[j]] = target[queue[m]]
          BY <4>1, <4>2
        <4>4. t \in Kept'
          BY <2>1, <2>2, <3>2, <4>3 DEF Kept
        <4>5. Kept \subseteq Kept'
          BY <2>1, <2>2, <3>2, <4>3 DEF Kept
        <4>6. t \notin Kept
          BY <2>1, <3>2 DEF Kept
        <4> QED
          BY <4>4, <4>5, <4>6
      <3> QED
        BY <3>1, <3>2
    <2>4. buffers'[t] = counter /\ \A b \in Kept : buffers'[b] = buffers[b]
      BY <1>b, <2>1, <2>3 DEF TypeInv
    <2>5. Transferred' \subseteq Transferred \cup {counter}
      BY <1>n, <2>1 DEF Transferred
    <2> HIDE DEF t
    <2>6. ASSUME NEW n \in Transferred'
          PROVE  \/ \E k \in DOMAIN received' : received'[k] = n
                 \/ \E b \in Kept' : buffers'[b] = n
      BY <2>1, <2>3, <2>4, <2>5, <2>6 DEF ParsedOK
    <2> QED
      BY <2>1, <2>6 DEF ParsedOK
  <1>2. CASE Drop
    <2>1. /\ UNCHANGED <<buffers, pc, bi, handles, done, bytesXfered, bytesReceived, received,
                         queue, target>>
          /\ dropped' = dropped \cup {counter} /\ counter' = counter + 1
      BY <1>2 DEF Drop, contexts, loopVars, usb
    <2>2. Running' = Running /\ Settled' = Settled
      BY <2>1 DEF Settled, Running
    <2>3. Full' = Full
      BY <2>1, <2>2 DEF Full
    <2>4. Kept' = Kept
      BY <2>1, <2>2, <2>3 DEF Kept
    <2>5. Transferred' \subseteq Transferred
      BY <1>n, <2>1 DEF Transferred
    <2> QED
      BY <2>1, <2>4, <2>5 DEF ParsedOK
  <1>3. CASE Fill \/ Resubmit
    <2>1. Running /\ Running' /\ Full' = Full
      BY <1>3, Settles, SubmitsLast
    <2>2. UNCHANGED <<buffers, counter, dropped, received>>
      BY <1>3 DEF Fill, Resubmit, board
    <2>3. Kept' = Kept /\ Transferred' = Transferred
      BY <2>1, <2>2 DEF Kept, Transferred
    <2> QED
      BY <2>2, <2>3 DEF ParsedOK
  <1>4. CASE Parse
    <2>1. /\ Full' = Full \ {bi} /\ Running /\ Running'
          /\ bi \in Buffers /\ (bytesReceived = 1 <=> bi \in Full)
          /\ UNCHANGED <<buffers, counter, dropped>>
      BY <1>4, ParsesInTurn
    <2>2. Kept' = Kept \ {bi} /\ Kept = Full /\ Transferred' = Transferred
      BY <2>1 DEF Kept, Transferred
    <2>3. CASE bytesReceived # 1
      <3>1. received' = received /\ Kept' = Kept
        BY <1>4, <2>1, <2>2, <2>3 DEF Parse
      <3> QED
        BY <2>1, <2>2, <3>1 DEF ParsedOK
    <2>4. CASE bytesReceived = 1
      <3>1. received' = Append(received, buffers[bi])
        BY <1>4, <2>4 DEF Parse
      <3>2. /\ DOMAIN received' = 1..(Len(received) + 1)
            /\ received'[Len(received) + 1] = buffers[bi]
            /\ \A k \in DOMAIN received : received'[k] = received[k]
        BY <1>b, <1>r, <2>1, <3>1, AppendProperties, LenProperties
      <3>3. \A k \in DOMAIN received : received[k] < buffers[bi]
        BY <2>1, <2>4 DEF ArrivedOK
      <3>4. ASSUME NEW j \in DOMAIN received', NEW k \in DOMAIN received', j < k
            PROVE  received'[j] < received'[k]
        <4>1. j \in DOMAIN received
          BY <1>r, <3>2, <3>4
        <4>2. k \in DOMAIN received \/ k = Len(received) + 1
          BY <1>r, <3>2
        <4> QED
          BY <3>2, <3>3, <3>4, <4>1, <4>2 DEF ParsedOK
      <3>5. ASSUME NEW n \in Transferred
            PROVE  \/ \E k \in DOMAIN received' : received'[k] = n
                   \/ \E b \in Kept' : buffers[b] = n
        <4>1. CASE \E k \in DOMAIN received : received[k] = n
          BY <1>r, <3>2, <4>1
        <4>2. CASE \E b \in Kept : buffers[b] = n
          BY <1>r, <2>2, <3>2, <4>2
        <4> QED
          BY <4>1, <4>2 DEF ParsedOK
      <3> QED
        BY <2>1, <2>2, <3>4, <3>5 DEF ParsedOK
    <2> QED
      BY <2>3, <2>4
  <1>5. CASE Quiet /\ (Running \/ ~Running')
    <2>1. /\ Turn' = Turn /\ Full' = Full
          /\ UNCHANGED <<buffers, counter, dropped, received, target>>
      BY <1>5 DEF Quiet
    <2>2. Transferred' = Transferred
      BY <2>1 DEF Transferred
    <2>3. \A j \in DOMAIN queue' : \E m \in DOMAIN queue : queue'[j] = queue[m]
      <3>1. CASE queue' = queue
        BY <3>1
      <3>2. CASE \E k \in DOMAIN queue : Leaves(k)
        BY <3>2, LeftInOrder
      <3> QED
        BY <1>5, <3>1, <3>2 DEF Quiet
    <2>4. Kept \subseteq Kept'
      <3>1. CASE Running'
        BY <1>5, <2>1, <3>1 DEF Kept
      <3>2. CASE ~Running' /\ ~Running
        BY <2>1, <2>3, <3>2 DEF Kept
      <3>3. CASE ~Running' /\ Running
        <4>1. \A b \in Buffers : Turn[b] \in Int
          BY Ring DEF Turn, TypeInv
        <4>2. \A b \in Full, k \in DOMAIN queue : target[queue[k]] # b
          <5>1. \A b \in Full, k \in DOMAIN queue : Turn[b] < Turn[target[queue[k]]]
            BY <3>3 DEF TurnsOK
          <5> QED
            BY <1>b, <4>1, <5>1
        <4> QED
          BY <1>b, <2>1, <2>3, <3>3, <4>2 DEF Kept
      <3> QED
        BY <3>1, <3>2, <3>3
    <2> QED
      BY <2>1, <2>2, <2>4 DEF ParsedOK
  <1> QED
    BY <1>1, <1>2, <1>3, <1>4, <1>5, QuietSteps

-----------------------------------------------------------------------------
\* The count of losses.

LEMMA LossInit == Init => LossOK
  <1> SUFFICES ASSUME Init, FirstCounter = 0
               PROVE  LossOK
    BY DEF LossOK
  <1>1. received = <<>> /\ prevTs = 0 /\ pktLost = 0
    BY DEF Init
  <1>2. Missed = {}
    BY <1>1 DEF Missed
  <1> QED
    BY <1>1, <1>2, FS_EmptySet DEF LossOK

\* A packet is parsed that came after those that were: all between was dropped.
LEMMA LossParse ==
    ASSUME IInv, LossOK, FirstCounter = 0, Parse, bytesReceived = 1
    PROVE  /\ prevTs' = received'[Len(received')] /\ received' # <<>>
           /\ Cardinality(Missed') = pktLost'
           /\ Missed' \subseteq dropped'
  <1> DEFINE p == buffers[bi]
             Between == (prevTs + 1)..(p - 1)
  <1>1. /\ Running /\ bi \in Full /\ bi \in Buffers
        /\ \A b \in Buffers \ {bi} : Turn[bi] < Turn[b]
        /\ UNCHANGED <<dropped, counter>>
    BY ParsesInTurn DEF IInv
  <1>2. /\ received' = Append(received, p) /\ prevTs' = p
        /\ pktLost' = pktLost + PacketLoss(p, prevTs)
    BY DEF Parse
  <1>3. /\ received \in Seq(Int) /\ Len(received) \in Nat
        /\ DOMAIN received = 1..Len(received)
        /\ \A k \in DOMAIN received : received[k] \in Int
        /\ p \in Int /\ prevTs \in Int /\ pktLost \in Int /\ counter \in Int
    BY <1>1, ElementOfSeq, LenProperties DEF IInv, TypeInv
  <1>4. /\ Len(received') = Len(received) + 1 /\ DOMAIN received' = 1..(Len(received) + 1)
        /\ received'[Len(received) + 1] = p
        /\ \A k \in DOMAIN received : received'[k] = received[k]
    BY <1>2, <1>3, AppendProperties, LenProperties
  <1>5. p \in 0..(counter - 1) /\ \A m \in Parsed : m < p
    BY <1>1 DEF IInv, ArrivedOK, Parsed
  <1>6. /\ prevTs = 0 \/ prevTs \in Parsed
        /\ \A m \in Parsed : m <= prevTs /\ m \in Int
        /\ 0 <= prevTs /\ prevTs <= p /\ (prevTs = p => p = 0)
    <2>1. CASE received = <<>>
      <3>1. Parsed = {} /\ prevTs = 0
        BY <2>1 DEF Parsed, LossOK
      <3> QED
        BY <1>3, <1>5, <3>1
    <2>2. CASE received # <<>>
      <3>1. Len(received) \in DOMAIN received /\ prevTs = received[Len(received)]
        BY <1>3, <2>2, EmptySeq DEF LossOK
      <3>2. \A k \in DOMAIN received : received[k] <= prevTs /\ received[k] \in 0..(counter - 1)
        BY <1>3, <3>1 DEF IInv, ParsedOK, ArrivedOK
      <3>3. prevTs \in Parsed /\ prevTs < p /\ 0 <= prevTs
        BY <1>3, <1>5, <3>1, <3>2 DEF Parsed
      <3>4. \A m \in Parsed : m <= prevTs /\ m \in Int
        BY <1>3, <3>2 DEF Parsed
      <3> QED
        BY <1>3, <3>3, <3>4
    <2> QED
      BY <2>1, <2>2
  <1>7. Parsed' = Parsed \cup {p}
    BY <1>3, <1>4 DEF Parsed
  <1> HIDE DEF p
  <1>8. Missed' = Missed \cup Between /\ Missed \cap Between = {}
    <2>1. Missed' = (1..(p - 1)) \ (Parsed \cup {p})
      BY <1>2, <1>7 DEF Missed
    <2>2. ASSUME NEW n \in Int
          PROVE  n \in Missed' <=> n \in Missed \/ n \in Between
      BY <1>3, <1>5, <1>6, <2>1 DEF Missed
    <2>3. Missed' \subseteq Int /\ Missed \subseteq Int /\ Between \subseteq Int
      BY <2>1 DEF Missed
    <2> QED
      BY <1>3, <2>2, <2>3 DEF Missed
  <1>9. Cardinality(Missed') = pktLost'
    <2>1. IsFiniteSet(Missed)
      <3>1. 1 \in Int /\ prevTs - 1 \in Int
        BY <1>3
      <3>2. IsFiniteSet(1..(prevTs - 1))
        BY <3>1, FS_Interval
      <3> QED
        BY <3>2, FS_Difference DEF Missed
    <2>2. /\ IsFiniteSet(Between)
          /\ Cardinality(Between) = IF p > prevTs THEN p - prevTs - 1 ELSE 0
      <3>1. prevTs + 1 \in Int /\ p - 1 \in Int
        BY <1>3
      <3>2. /\ IsFiniteSet(Between)
            /\ Cardinality(Between) = IF prevTs + 1 > p - 1 THEN 0 ELSE (p - 1) - (prevTs + 1) + 1
        BY <3>1, FS_Interval
      <3> QED
        BY <1>3, <1>6, <3>2
    <2>3. Cardinality(Missed') = Cardinality(Missed) + Cardinality(Between)
                                                     - Cardinality(Missed \cap Between)
      BY <1>8, <2>1, <2>2, FS_Union
    <2>4. Cardinality(Missed \cap Between) = 0
      BY <1>8, FS_EmptySet
    <2>5. PacketLoss(p, prevTs) = IF p > prevTs THEN p - prevTs - 1 ELSE 0
      BY <1>3, <1>6 DEF PacketLoss
    <2>6. Cardinality(Missed) = pktLost
      BY DEF LossOK
    <2> HIDE DEF Between
    <2> QED
      BY <1>2, <1>3, <2>2, <2>3, <2>4, <2>5, <2>6
  <1>10. ASSUME NEW n \in Between
         PROVE  n \in dropped
    <2>1. n \in FirstCounter..(counter - 1) /\ prevTs < n /\ n < p /\ n \in Int
      BY <1>3, <1>5, <1>6
    <2>2. n \notin Parsed
      BY <1>3, <1>6, <2>1
    <2>3. ASSUME NEW b \in Kept
          PROVE  buffers[b] # n
      <3>1. b \in Full /\ b \in Buffers
        BY <1>1 DEF Kept, Full
      <3>2. b = bi \/ Turn[bi] < Turn[b]
        BY <1>1, <3>1
      <3>3. b = bi \/ p < buffers[b]
        BY <1>1, <3>1, <3>2 DEF IInv, TurnsOK, p
      <3>4. buffers[b] \in Int
        BY <3>1 DEF IInv, TypeInv
      <3> QED
        BY <1>3, <2>1, <3>3, <3>4 DEF p
    <2>4. n \notin Transferred
      BY <2>2, <2>3 DEF IInv, ParsedOK, Parsed
    <2> QED
      BY <2>1, <2>4 DEF Transferred
  <1> QED
    <2>1. prevTs' = received'[Len(received')] /\ received' # <<>>
      BY <1>2, <1>3, <1>4, EmptySeq DEF p
    <2>2. Missed' \subseteq dropped'
      BY <1>1, <1>8, <1>10 DEF LossOK
    <2> QED
      BY <1>9, <2>1, <2>2

LEMMA LossStep == IInv /\ LossOK /\ [Next]_vars => LossOK'
  <1> SUFFICES ASSUME IInv, LossOK, [Next]_vars, FirstCounter = 0
               PROVE  LossOK'
    BY DEF LossOK
  <1>1. CASE Parse /\ bytesReceived = 1
    BY <1>1, LossParse DEF LossOK
  <1>2. CASE ~(Parse /\ bytesReceived = 1)
    <2>1. UNCHANGED <<received, prevTs, pktLost>> /\ dropped \subseteq dropped'
      BY <1>2 DEF Next, LoopStep, Arrive, Drop, TransferError, TransferSilent, CancelCompletes,
         Terminate, Fill, Take, TakeNothing, Parse, Resubmit, CancelAll, Drain, End, loopVars, board,
         vars, IInv, TypeInv
    <2>2. Missed' = Missed
      BY <2>1 DEF Missed, Parsed
    <2> QED
      BY <2>1, <2>2 DEF LossOK
  <1> QED
    BY <1>1, <1>2

LEMMA LossCount == IInv /\ LossOK /\ FirstCounter = 0 => LossIsCounted
  <1> SUFFICES ASSUME IInv, LossOK, FirstCounter = 0
               PROVE  LossIsCounted
    OBVIOUS
  <1> DEFINE Between == {n \in dropped : received # <<>> /\ received[1] < n /\ n < prevTs}
  <1>1. prevTs \in Int /\ counter \in Int /\ FirstCounter \in Nat
    BY ReceiveAssumption DEF IInv, TypeInv
  <1>2. IsFiniteSet(Missed) /\ IsFiniteSet(dropped)
    <2>1. IsFiniteSet(1..(prevTs - 1)) /\ IsFiniteSet(FirstCounter..(counter - 1))
      BY <1>1, FS_Interval
    <2> QED
      BY <2>1, FS_Difference, FS_Subset DEF Missed, IInv, ArrivedOK
  <1>3. Between \subseteq Missed
    <2>1. ASSUME NEW n \in Between
          PROVE  n \in Missed
      <3>1. /\ n \in dropped /\ received # <<>> /\ received[1] < n /\ n < prevTs
            /\ n \in FirstCounter..(counter - 1)
        BY DEF IInv, ArrivedOK
      <3>2. 1 \in DOMAIN received
        BY <3>1, LenProperties, EmptySeq DEF IInv, TypeInv
      <3>3. received[1] \in FirstCounter..(counter - 1)
        BY <3>2 DEF IInv, ArrivedOK
      <3>4. n \notin Parsed
        BY <3>1 DEF IInv, ArrivedOK, Parsed
      <3> QED
        BY <1>1, <3>1, <3>3, <3>4 DEF Missed
    <2> QED
      BY <2>1
  <1>4. Cardinality(Missed) = pktLost /\ Missed \subseteq dropped
    BY DEF LossOK
  <1>5. Cardinality(Between) <= Cardinality(Missed)
    BY <1>2, <1>3, FS_Subset
  <1>6. Cardinality(Missed) <= Cardinality(dropped)
    BY <1>2, <1>4, FS_Subset
  <1> QED
    BY <1>4, <1>5, <1>6 DEF LossIsCounted

-----------------------------------------------------------------------------
\* The theorems.

LEMMA IInvInit == Init => IInv
  <1> SUFFICES ASSUME Init PROVE IInv
    OBVIOUS
  <1>1. TypeInv /\ Holding /\ DrainOK /\ EndedOK
    BY TypeInit, HoldingInit
  <1>2. /\ queue = <<>> /\ pc = "fill" /\ bi = 0 /\ received = <<>>
        /\ counter = FirstCounter /\ dropped = {} /\ FirstCounter \in Nat
    BY ReceiveAssumption DEF Init
  <1>3. Full = {}
    BY <1>2, Ring DEF Full, Settled
  <1>4. Transferred = {}
    BY <1>2 DEF Transferred
  <1> QED
    BY <1>1, <1>2, <1>3, <1>4 DEF IInv, TurnsOK, ArrivedOK, ParsedOK

LEMMA IInvStep == IInv /\ [Next]_vars => IInv'
  BY TypeStep, HoldingStep, DrainStep, TurnsStep, ArrivedStep, ParsedStep DEF IInv

\* What every reachable state of the loop is like, whatever transfers fail, are refused or
\* end without a word, and whenever it is stopped (ReceivePacketsLoop).
THEOREM LoopInvariant == Spec => []IInv
  BY IInvInit, IInvStep, PTL DEF Spec

\* No context is lost to the pool (BeginDataReading, FinishDataReading): one that is in
\* use is held by the buffer it was submitted for.
THEOREM ContextsHeld == Spec => []ContextsAreHeld
  <1>1. IInv => ContextsAreHeld
    BY DEF IInv, TypeInv, Holding, HandlesOK, ContextsAreHeld
  <1> QED
    BY <1>1, LoopInvariant, PTL

\* While a packet is parsed no transfer is in flight for its buffer, no buffer ever has
\* two, and when AbortReading's waits are long enough none is left when the loop ends.
THEOREM BuffersExclusive == ~SlowCancel => (Spec => []BuffersAreExclusive)
  <1> SUFFICES ASSUME ~SlowCancel
               PROVE  Spec => []BuffersAreExclusive
    OBVIOUS
  <1>1. IInv => BuffersAreExclusive
    <2> SUFFICES ASSUME IInv PROVE BuffersAreExclusive
      OBVIOUS
    <2>1. \A i \in InFlight : \E k \in DOMAIN queue : i = queue[k]
      BY DEF InFlight
    <2>2. pc \in {"parse", "submit"} => bi \notin Settled
      BY DEF Settled
    <2>3. pc \in {"parse", "submit"} => \A i \in InFlight : target[i] # bi
      BY <2>1, <2>2 DEF IInv, Holding, FlightOK
    <2>4. \A i, k \in InFlight : target[i] = target[k] => i = k
      BY <2>1 DEF IInv, Holding, FlightOK
    <2>5. ASSUME pc = "ended"
          PROVE  InFlight = {}
      <3>1. \A k \in DOMAIN queue : queue[k] \in Contexts
        BY ElementOfSeq, LenProperties DEF IInv, TypeInv
      <3> QED
        BY <2>1, <2>5, <3>1 DEF IInv, DrainOK, EndedOK
    <2> QED
      BY <2>3, <2>4, <2>5 DEF BuffersAreExclusive
  <1> QED
    BY <1>1, LoopInvariant, PTL

\* Packets are parsed in the order the board sent them, each once, and what has been
\* transferred and not parsed is still in a buffer.
THEOREM PacketsInOrder == Spec => []ParsedInOrder
  <1>1. IInv => ParsedInOrder
    <2> SUFFICES ASSUME IInv PROVE ParsedInOrder
      OBVIOUS
    <2>1. Len(received) \in Nat /\ DOMAIN received = 1..Len(received)
      BY LenProperties DEF IInv, TypeInv
    <2>2. \A k \in 1..(Len(received) - 1) : received[k] < received[k + 1]
      BY <2>1 DEF IInv, ParsedOK
    <2>3. Kept \subseteq Buffers
      BY DEF Kept, Full
    <2> QED
      BY <2>2, <2>3 DEF IInv, ParsedOK, ParsedInOrder
  <1> QED
    BY <1>1, LoopInvariant, PTL

\* The losses the loop reports are at least the packets dropped between those it parsed,
\* and at most all that were dropped, when the board's counter begins with the loop.
THEOREM LossCounted == FirstCounter = 0 => (Spec => []LossIsCounted)
  <1> SUFFICES ASSUME FirstCounter = 0
               PROVE  Spec => []LossIsCounted
    OBVIOUS
  <1>1. IInv /\ LossOK => LossIsCounted
    BY LossCount
  <1> QED
    BY <1>1, LossInit, LossStep, LoopInvariant, PTL DEF Spec
=============================================================================
