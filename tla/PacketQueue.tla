---------------------------- MODULE PacketQueue -----------------------------
(***************************************************************************)
(* What a stream's FIFO promises, without slots, indices, lock or threads: *)
(* a bounded queue of packets.  A packet enters at the back; when there is *)
(* no room the oldest one is given up, whole or what is left of it.  The   *)
(* packet being composed enters once it is full or ends a burst.  Samples  *)
(* leave at the front, some of a packet or all of it.                      *)
(***************************************************************************)
EXTENDS Integers, Sequences

CONSTANTS InitPktSize, InitCapacity

VARIABLES queue,     \* the complete packets, oldest first
          open,      \* the samples of the packet being composed
          pktSize,   \* the most samples a packet may hold
          capacity   \* the most packets the queue may hold

vars == <<queue, open, pktSize, capacity>>

Init == /\ queue = <<>>
        /\ open = <<>>
        /\ pktSize = InitPktSize
        /\ capacity = InitCapacity

\* A full-size packet p enters.  A full queue, and only a full one, loses its
\* front.
Put(p) == /\ Len(p.data) = pktSize
          /\ queue' = Append(IF Len(queue) = capacity THEN Tail(queue) ELSE queue, p)
          /\ UNCHANGED <<open, pktSize, capacity>>

Extends(data) == /\ Len(queue) < capacity
                 /\ Len(data) > Len(open)
                 /\ SubSeq(data, 1, Len(open)) = open

\* The open packet grows, and stays open while it is short of a full one.
Compose(data) == /\ Extends(data)
                 /\ Len(data) < pktSize
                 /\ open' = data
                 /\ UNCHANGED <<queue, pktSize, capacity>>

\* The open packet grows a last time and enters: full, or the end of a burst.
Complete(p) == /\ Extends(p.data)
               /\ Len(p.data) = pktSize \/ "END_BURST" \in p.flags
               /\ queue' = Append(queue, p)
               /\ open' = <<>>
               /\ UNCHANGED <<pktSize, capacity>>

\* The first n samples of the oldest packet leave; what remains is due n later.
Take(n) == /\ queue # <<>>
           /\ n < Len(Head(queue).data)
           /\ queue' = [queue EXCEPT ![1] = [timestamp |-> @.timestamp + n,
                                            flags |-> @.flags,
                                            data |-> SubSeq(@.data, n + 1, Len(@.data))]]
           /\ UNCHANGED <<open, pktSize, capacity>>

TakeAll == /\ queue # <<>>
           /\ queue' = Tail(queue)
           /\ UNCHANGED <<open, pktSize, capacity>>

\* Everything is dropped, and the sizes may change.
Reset == /\ queue' = <<>>
         /\ open' = <<>>
         /\ pktSize' \in Nat
         /\ capacity' \in Nat

\* What enters can be read off the next state.
Next == \/ queue' # <<>> /\ Put(queue'[Len(queue')])
        \/ queue' # <<>> /\ Complete(queue'[Len(queue')])
        \/ Compose(open')
        \/ \E n \in 1..pktSize : Take(n)
        \/ TakeAll
        \/ Reset

Spec == Init /\ [][Next]_vars
=============================================================================
