------------------------------ MODULE ReceiveLoop ------------------------------
(***************************************************************************)
(* Streamer::ReceivePacketsLoop (src/src/protocols/Streamer.cpp) on the    *)
(* asynchronous transfers of ConnectionFX3 (src/src/ConnectionFX3): the    *)
(* loop keeps a transfer submitted for each of its buffers, goes round     *)
(* them, and submits each again once it has parsed what arrived.  A        *)
(* transfer is done in a context taken from a pool; the callback that      *)
(* marks it done runs on the USB event thread.                             *)
(*                                                                         *)
(* libusb and the board are external: transfers are served in the order    *)
(* they were submitted, a transfer brings one packet, and packets are      *)
(* numbered by the board's sample counter, counted in packets.             *)
(***************************************************************************)
EXTENDS Integers, Sequences, FiniteSets

CONSTANTS buffersCount,      \* buffers of the loop; the pool has as many contexts
          FirstCounter,      \* the board's counter when the loop begins
          MaxCounter,        \* bound: no packet is produced from this counter on
          MaxFailures,       \* bound: transfers that fail or are refused
          SlowCancel         \* TRUE: a cancelled transfer may outlast AbortReading

ASSUME ReceiveAssumption ==
    /\ buffersCount \in {1, 2, 4, 8, 16}
    /\ FirstCounter \in Nat /\ MaxCounter \in Nat
    /\ MaxFailures \in Nat
    /\ SlowCancel \in BOOLEAN

VARIABLES used, done, bytesXfered,  \* USBTransferContext's fields
          queue,        \* libusb: the contexts whose transfers are in flight
          cancelled,    \* libusb: transfers that were asked to end
          target,       \* the buffer each context's transfer was submitted for
          handles,      \* the context of each buffer, or -1
          buffers,      \* the counter of the packet each buffer holds
          pc, bi,       \* where the loop stands; the buffer it is at
          bytesReceived,
          prevTs, pktLost,
          received,     \* the packets parsed, in order
          counter,      \* the board: the next packet
          dropped,      \* the board: packets that were never transferred
          failures, terminate

contexts == <<used, done, bytesXfered>>
usb == <<queue, cancelled, target>>
board == <<counter, dropped>>
loopVars == <<handles, pc, bi, bytesReceived, prevTs, pktLost, received>>
vars == <<contexts, usb, buffers, loopVars, board, failures, terminate>>

Contexts == 0..(buffersCount - 1)
Buffers == 0..(buffersCount - 1)
InFlight == {queue[k] : k \in DOMAIN queue}

Init == /\ used = [i \in Contexts |-> FALSE]
        /\ done = [i \in Contexts |-> FALSE]
        /\ bytesXfered = [i \in Contexts |-> 0]
        /\ queue = <<>> /\ cancelled = {}
        /\ target = [i \in Contexts |-> 0]
        /\ handles = [b \in Buffers |-> 0]
        /\ buffers = [b \in Buffers |-> -1]   \* no packet yet
        /\ pc = "fill" /\ bi = 0
        /\ bytesReceived = 0
        /\ prevTs = 0 /\ pktLost = 0
        /\ received = <<>>
        /\ counter = FirstCounter /\ dropped = {}
        /\ failures = 0 /\ terminate = FALSE

-----------------------------------------------------------------------------
\* The board and libusb.

\* The transfer in the k-th place of the queue ends.
Leaves(k) == /\ queue' = SubSeq(queue, 1, k - 1) \o SubSeq(queue, k + 1, Len(queue))
             /\ cancelled' = cancelled \ {queue[k]}
             /\ UNCHANGED target

\* callback_libusbtransfer for COMPLETED, CANCELLED, ERROR, TIMED_OUT.
Callback(i, bytes) == /\ done' = [done EXCEPT ![i] = TRUE]
                      /\ bytesXfered' = [bytesXfered EXCEPT ![i] = bytes]
                      /\ UNCHANGED used

\* A packet arrives in the buffer of the oldest transfer.
Arrive ==
    /\ queue # <<>> /\ counter < MaxCounter
    /\ buffers' = [buffers EXCEPT ![target[Head(queue)]] = counter]
    /\ counter' = counter + 1
    /\ Leaves(1)
    /\ Callback(Head(queue), 1)
    /\ UNCHANGED <<loopVars, dropped, failures, terminate>>

\* The board's own buffer was full: the packet is gone.
Drop == /\ counter < MaxCounter
        /\ dropped' = dropped \cup {counter}
        /\ counter' = counter + 1
        /\ UNCHANGED <<contexts, usb, buffers, loopVars, failures, terminate>>

CanFail == failures < MaxFailures
Failed == failures' = failures + 1

\* The oldest transfer ends with an error and without data.
TransferError ==
    /\ queue # <<>> /\ CanFail /\ Failed
    /\ Leaves(1)
    /\ Callback(Head(queue), 0)
    /\ UNCHANGED <<buffers, loopVars, board, terminate>>

\* OVERFLOW, STALL, NO_DEVICE: the callback does not mark the transfer done.
TransferSilent ==
    /\ queue # <<>> /\ CanFail /\ Failed
    /\ Leaves(1)
    /\ UNCHANGED <<contexts, buffers, loopVars, board, terminate>>

\* A cancelled transfer ends.
CancelCompletes(i) ==
    /\ i \in cancelled
    /\ \E k \in DOMAIN queue : queue[k] = i /\ Leaves(k)
    /\ Callback(i, 0)
    /\ UNCHANGED <<buffers, loopVars, board, failures, terminate>>

Terminate == /\ ~terminate
             /\ terminate' = TRUE
             /\ UNCHANGED <<contexts, usb, buffers, loopVars, board, failures>>

-----------------------------------------------------------------------------
\* BeginDataReading.

\* Mutant: the context keeps the mark of its last transfer.
SubmittedStillDone(i) == /\ used' = [used EXCEPT ![i] = TRUE]
                         /\ UNCHANGED <<done, bytesXfered>>

Submitted(i) == /\ used' = [used EXCEPT ![i] = TRUE]
                /\ done' = [done EXCEPT ![i] = FALSE]
                /\ bytesXfered' = [bytesXfered EXCEPT ![i] = 0]

FirstFree(i) == ~used[i] /\ \A k \in 0..(i - 1) : used[k]

\* The first unused context is taken and its transfer submitted for buffer b ...
BeginDataReading(b) ==
    /\ \E i \in Contexts :
          /\ FirstFree(i)
          /\ Submitted(i)
          /\ queue' = Append(queue, i)
          /\ target' = [target EXCEPT ![i] = b]
          /\ handles' = [handles EXCEPT ![b] = i]
    /\ UNCHANGED <<cancelled, failures>>

\* Mutant: a refused context is not given back.
BeginFailsKeepsContext(b) ==
    /\ CanFail /\ Failed
    /\ \E i \in Contexts : FirstFree(i) /\ Submitted(i)
    /\ handles' = [handles EXCEPT ![b] = -1]
    /\ UNCHANGED usb

\* ... or there is none, or libusb refuses it.
BeginFails(b) ==
    /\ IF \A i \in Contexts : used[i] THEN UNCHANGED <<contexts, failures>>
       ELSE /\ CanFail /\ Failed
            /\ \E i \in Contexts :
                  /\ FirstFree(i)
                  /\ done' = [done EXCEPT ![i] = FALSE]
                  /\ bytesXfered' = [bytesXfered EXCEPT ![i] = 0]
            /\ UNCHANGED used
    /\ handles' = [handles EXCEPT ![b] = -1]
    /\ UNCHANGED usb

Submit(b) == BeginDataReading(b) \/ BeginFails(b)

-----------------------------------------------------------------------------
\* The loop.

NextBuffer == (bi + 1) % buffersCount

\* A transfer for each buffer, before the loop proper.
Fill == /\ pc = "fill"
        /\ Submit(bi)
        /\ bi' = NextBuffer
        /\ pc' = IF bi = buffersCount - 1 THEN "top" ELSE "fill"
        /\ UNCHANGED <<buffers, bytesReceived, prevTs, pktLost, received, board, terminate>>

\* FinishDataReading: the context goes back to the pool.
FinishDataReading(i) == /\ used' = [used EXCEPT ![i] = FALSE]
                        /\ UNCHANGED <<done, bytesXfered>>

\* Mutant: only a transfer that brought data ends the wait.
TakeFull ==
    LET h == handles[bi]
    IN  /\ pc = "top" /\ ~terminate
        /\ h >= 0 /\ bytesXfered[h] > 0
        /\ bytesReceived' = bytesXfered[h]
        /\ FinishDataReading(h)
        /\ pc' = "parse"
        /\ UNCHANGED <<usb, buffers, handles, bi, prevTs, pktLost, received, board,
                       failures, terminate>>

\* WaitForReading is true: the transfer of the buffer is over.  While it is false
\* the loop goes round to its condition and comes back.
Take ==
    LET h == handles[bi]
    IN  /\ pc = "top" /\ ~terminate
        /\ h >= 0 /\ (used[h] => done[h])
        /\ bytesReceived' = IF used[h] THEN bytesXfered[h] ELSE 0
        /\ FinishDataReading(h)
        /\ pc' = "parse"
        /\ UNCHANGED <<usb, buffers, handles, bi, prevTs, pktLost, received, board,
                       failures, terminate>>

\* The buffer has no transfer: it gets another chance.
TakeNothing ==
    /\ pc = "top" /\ ~terminate
    /\ handles[bi] < 0
    /\ bytesReceived' = 0
    /\ pc' = "parse"
    /\ UNCHANGED <<contexts, usb, buffers, handles, bi, prevTs, pktLost, received, board,
                   failures, terminate>>

\* Mutant: the difference is taken for the number of packets between.
PacketLossOffByOne(now, prev) == IF now - prev # 1 /\ now # prev THEN now - prev ELSE 0

\* The packets the counter says are missing.
PacketLoss(now, prev) == IF now - prev # 1 /\ now # prev THEN now - prev - 1 ELSE 0

\* The packet in the buffer goes to the channels, and what is missing is counted.
Parse ==
    /\ pc = "parse"
    /\ IF bytesReceived = 1
       THEN /\ received' = Append(received, buffers[bi])
            /\ pktLost' = pktLost + PacketLoss(buffers[bi], prevTs)
            /\ prevTs' = buffers[bi]
       ELSE UNCHANGED <<received, pktLost, prevTs>>
    /\ pc' = "submit"
    /\ UNCHANGED <<contexts, usb, buffers, handles, bi, bytesReceived, board, failures,
                   terminate>>

Resubmit ==
    /\ pc = "submit"
    /\ Submit(bi)
    /\ bi' = NextBuffer
    /\ pc' = "top"
    /\ UNCHANGED <<buffers, bytesReceived, prevTs, pktLost, received, board, terminate>>

-----------------------------------------------------------------------------
\* AbortReading, when the loop condition fails.

\* Mutant: nothing is cancelled.
CancelNothing ==
    /\ pc = "top" /\ terminate
    /\ pc' = "drain"
    /\ UNCHANGED <<contexts, usb, buffers, handles, bi, bytesReceived, prevTs, pktLost,
                   received, board, failures, terminate>>

\* libusb_cancel_transfer for every context in use.
CancelAll ==
    /\ pc = "top" /\ terminate
    /\ cancelled' = {i \in InFlight : used[i]}
    /\ pc' = "drain"
    /\ UNCHANGED <<contexts, queue, target, buffers, handles, bi, bytesReceived, prevTs,
                   pktLost, received, board, failures, terminate>>

\* Mutant: nothing is waited for.
DrainAtOnce == /\ pc = "drain"
               /\ \E i \in Contexts : used[i] /\ FinishDataReading(i)
               /\ UNCHANGED <<usb, buffers, loopVars, board, failures, terminate>>

\* Each is waited for, for 250 ms, and given back whatever the wait said.
Drain == /\ pc = "drain"
         /\ \E i \in Contexts :
               /\ used[i] /\ \A k \in 0..(i - 1) : ~used[k]
               /\ done[i] \/ i \notin InFlight \/ SlowCancel
               /\ FinishDataReading(i)
         /\ UNCHANGED <<usb, buffers, loopVars, board, failures, terminate>>

\* The loop returns and its buffers are freed.
End == /\ pc = "drain"
       /\ \A i \in Contexts : ~used[i]
       /\ pc' = "ended"
       /\ UNCHANGED <<contexts, usb, buffers, handles, bi, bytesReceived, prevTs, pktLost,
                      received, board, failures, terminate>>

LoopStep == \/ Fill \/ Take \/ TakeNothing \/ Parse \/ Resubmit
            \/ CancelAll \/ Drain \/ End

Next == \/ Arrive \/ Drop
        \/ TransferError \/ TransferSilent
        \/ \E i \in Contexts : CancelCompletes(i)
        \/ Terminate
        \/ LoopStep

Spec == Init /\ [][Next]_vars

\* The loop's thread runs; libusb ends what it was asked to end.
Fairness == WF_vars(LoopStep) /\ \A i \in Contexts : WF_vars(CancelCompletes(i))

FairSpec == Spec /\ Fairness

-----------------------------------------------------------------------------
\* Properties.

\* The packets the board has transferred.
Transferred == (FirstCounter..(counter - 1)) \ dropped

\* Whatever transfers fail or are refused, and whichever contexts the buffers then
\* share out, packets are parsed in the order the board sent them, each once, and
\* what has been transferred and not parsed is still in a buffer.
ParsedInOrder ==
    /\ \A k \in 1..(Len(received) - 1) : received[k] < received[k + 1]
    /\ \A n \in Transferred :
          \/ \E k \in DOMAIN received : received[k] = n
          \/ \E b \in Buffers : buffers[b] = n

\* No transfer writes into a buffer that is being parsed, or into one that has
\* another transfer (Streamer.cpp:854, 896), and AbortReading leaves none behind
\* when the loop goes on to free the buffers.
BuffersAreExclusive ==
    /\ pc \in {"parse", "submit"} => \A i \in InFlight : target[i] # bi
    /\ \A i, k \in InFlight : target[i] = target[k] => i = k
    /\ pc = "ended" => InFlight = {}

\* No context is lost to the pool: one that is in use is some buffer's.
ContextsAreHeld ==
    \A i \in Contexts : used[i] => \E b \in Buffers : handles[b] = i /\ target[i] = b

\* The loop counts the packets the board dropped between those it received, and
\* no packet that was not dropped ("Number of dropped packets by HW",
\* LimeSuite.h:1129).
LossIsCounted ==
    LET Between == {n \in dropped : received # <<>> /\ received[1] < n /\ n < prevTs}
    IN  Cardinality(Between) <= pktLost /\ pktLost <= Cardinality(dropped)

\* A transfer that ended without the callback marking it done: the loop waits for
\* it until it is told to terminate.
Silent == \E i \in Contexts : used[i] /\ ~done[i] /\ i \notin InFlight

\* What has been transferred is parsed, unless the loop is stopped or stuck.
TransferredIsParsed ==
    \A n \in FirstCounter..(MaxCounter - 1) :
        n \in Transferred ~> \/ \E k \in DOMAIN received : received[k] = n
                             \/ terminate \/ Silent

\* Told to terminate, the loop ends, also when it is stuck.
LoopEnds == terminate ~> pc = "ended"
=============================================================================
