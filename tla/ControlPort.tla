------------------------------ MODULE ControlPort ------------------------------
(***************************************************************************)
(* LMS64CProtocol::TransferPacket (src/src/protocols/LMS64CProtocol.cpp):  *)
(* a request of any length is cut into packets of 64 bytes; each is        *)
(* written to the board and answered before the next one; the answers are  *)
(* laid one behind the other, and the caller finds its values by their     *)
(* place.  One lock covers a whole request.  Nothing in a packet says      *)
(* which request it belongs to.                                            *)
(*                                                                         *)
(* A packet is the range of the request's blocks it carries (a block is a  *)
(* register with or without its value, or a parameter's number).  The      *)
(* board and the link are external: packets are executed in order, may be  *)
(* lost, and may be refused by their status.                               *)
(***************************************************************************)
EXTENDS Integers, Sequences, FiniteSets

CONSTANTS Threads, Free,
          Requests,     \* what is asked for: [cmd, blocks]
          Refusable,    \* the requests the board may refuse a packet of
          LateAnswers   \* TRUE: an answer may come after Read has given up on it

Commands == {"CMD_LMS7002_WR", "CMD_LMS7002_RD", "CMD_ANALOG_VAL_RD", "CMD_ADF4002_WR"}

ASSUME ControlAssumption ==
    /\ Free \notin Threads
    /\ Requests \subseteq [cmd : Commands, blocks : Nat \ {0}]
    /\ Refusable \subseteq Requests
    /\ LateAnswers \in BOOLEAN

VARIABLES lock,      \* mControlPortLock: the thread that holds it, or Free
          pc, req,   \* where each thread stands, and its request
          sent,      \* packets of the request written
          inBuffer,  \* the answers it has read
          status,    \* 0, or -1 after a failed Write or Read
          result,    \* what TransferPacket returned
          outgoing,  \* packets on their way to the board
          answers,   \* answers that nobody has read yet
          executed   \* the packets of the request that the board has executed

calls == <<pc, req, sent, inBuffer, status, result>>
vars == <<lock, calls, outgoing, answers, executed>>

-----------------------------------------------------------------------------
\* PreparePacket.

pktDataLength == 56

ByteBlockRatio(cmd) == CASE cmd = "CMD_LMS7002_RD" -> 2
                         [] cmd = "CMD_ADF4002_WR" -> 3
                         [] cmd = "CMD_LMS7002_WR" -> 4
                         [] OTHER -> 1

\* Mutant: packets of a read are filled like any others.
MaxDataLengthAlways(cmd) == pktDataLength

\* Answers take more room than what is asked for.
MaxDataLength(cmd) == CASE cmd = "CMD_LMS7002_RD" -> pktDataLength \div 2
                        [] cmd = "CMD_ANALOG_VAL_RD" -> pktDataLength \div 4
                        [] OTHER -> pktDataLength

BlocksInPacket(cmd) == MaxDataLength(cmd) \div ByteBlockRatio(cmd)

\* Mutant: an incomplete packet is not counted.
PacketCountRoundedDown(r) == r.blocks \div BlocksInPacket(r.cmd)

PacketCount(r) ==
    LET most == BlocksInPacket(r.cmd)
    IN  (r.blocks \div most) + (IF (r.blocks % most) # 0 THEN 1 ELSE 0)

\* The k-th packet: its first block and how many it carries.
PacketOf(r, k) ==
    LET most == BlocksInPacket(r.cmd)
        left == r.blocks - (k - 1) * most
    IN  [first |-> (k - 1) * most, count |-> IF left > most THEN most ELSE left]

-----------------------------------------------------------------------------
Init == /\ lock = Free
        /\ pc = [t \in Threads |-> "idle"]
        /\ req \in [Threads -> Requests]
        /\ sent = [t \in Threads |-> 0]
        /\ inBuffer = [t \in Threads |-> <<>>]
        /\ status = [t \in Threads |-> 0]
        /\ result = [t \in Threads |-> 0]
        /\ outgoing = <<>> /\ answers = <<>>
        /\ executed = [t \in Threads |-> <<>>]

GoTo(t, place) == pc' = [pc EXCEPT ![t] = place]

Call(t) == /\ pc[t] = "idle"
           /\ \E r \in Requests : req' = [req EXCEPT ![t] = r]
           /\ GoTo(t, "lock")
           /\ sent' = [sent EXCEPT ![t] = 0]
           /\ inBuffer' = [inBuffer EXCEPT ![t] = <<>>]
           /\ status' = [status EXCEPT ![t] = 0]
           /\ result' = [result EXCEPT ![t] = 0]
           /\ executed' = [executed EXCEPT ![t] = <<>>]
           /\ UNCHANGED <<lock, outgoing, answers>>

\* Mutant: requests are not kept apart.
LockAnyway(t) == /\ pc[t] = "lock"
                 /\ lock' = t
                 /\ GoTo(t, "write")
                 /\ UNCHANGED <<req, sent, inBuffer, status, result, outgoing, answers,
                                executed>>

\* std::lock_guard
Lock(t) == /\ pc[t] = "lock" /\ lock = Free
           /\ lock' = t
           /\ GoTo(t, "write")
           /\ UNCHANGED <<req, sent, inBuffer, status, result, outgoing, answers, executed>>

\* Mutant: one packet too many.
MorePacketsOrEqual(t) == sent[t] <= PacketCount(req[t])

MorePackets(t) == sent[t] < PacketCount(req[t])

Write(t) ==
    /\ pc[t] = "write" /\ MorePackets(t)
    /\ outgoing' = Append(outgoing, [to |-> t, packet |-> PacketOf(req[t], sent[t] + 1)])
    /\ sent' = [sent EXCEPT ![t] = @ + 1]
    /\ GoTo(t, "read")
    /\ UNCHANGED <<lock, req, inBuffer, status, result, answers, executed>>

\* "TransferPacket: Write failed", "Read failed": the rest is given up.
Fail(t) == /\ status' = [status EXCEPT ![t] = -1]
           /\ GoTo(t, "finish")

WriteFails(t) ==
    /\ pc[t] = "write" /\ MorePackets(t)
    /\ Fail(t)
    /\ UNCHANGED <<lock, req, sent, inBuffer, result, outgoing, answers, executed>>

\* The next answer is taken, whosoever it is.
Read(t) ==
    /\ pc[t] = "read" /\ answers # <<>>
    /\ inBuffer' = [inBuffer EXCEPT ![t] = Append(@, Head(answers))]
    /\ answers' = Tail(answers)
    /\ GoTo(t, "write")
    /\ UNCHANGED <<lock, req, sent, status, result, outgoing, executed>>

\* Read comes back short, having used the answer up.
ReadShort(t) ==
    /\ pc[t] = "read" /\ answers # <<>>
    /\ answers' = Tail(answers)
    /\ Fail(t)
    /\ UNCHANGED <<lock, req, sent, inBuffer, result, outgoing, executed>>

\* Mutant: after a time-out the next packet is tried.
ReadGoesOn(t) ==
    /\ pc[t] = "read" /\ answers = <<>>
    /\ outgoing = <<>> \/ LateAnswers
    /\ GoTo(t, "write")
    /\ UNCHANGED <<lock, req, sent, inBuffer, status, result, outgoing, answers, executed>>

\* Mutant: the packet is sent again, as often as it takes.
ReadTriesAgain(t) ==
    /\ pc[t] = "read" /\ answers = <<>>
    /\ outgoing = <<>> \/ LateAnswers
    /\ sent' = [sent EXCEPT ![t] = @ - 1]
    /\ GoTo(t, "write")
    /\ UNCHANGED <<lock, req, inBuffer, status, result, outgoing, answers, executed>>

ReadTimesOut(t) ==
    /\ pc[t] = "read" /\ answers = <<>>
    /\ outgoing = <<>> \/ LateAnswers
    /\ Fail(t)
    /\ UNCHANGED <<lock, req, sent, inBuffer, result, outgoing, answers, executed>>

\* ParsePacket and convertStatus: the status is that of the last answer.
LastStatus(t) == IF inBuffer[t] = <<>> THEN "STATUS_UNDEFINED"
                 ELSE inBuffer[t][Len(inBuffer[t])].status

Finish(t) ==
    /\ \/ pc[t] = "finish"
       \/ pc[t] = "write" /\ ~MorePackets(t)
    /\ result' = [result EXCEPT ![t] =
                    IF status[t] = 0 /\ LastStatus(t) = "STATUS_COMPLETED_CMD" THEN 0 ELSE -1]
    /\ lock' = Free
    /\ GoTo(t, "done")
    /\ UNCHANGED <<req, sent, inBuffer, status, outgoing, answers, executed>>

Return(t) == /\ pc[t] = "done"
             /\ GoTo(t, "idle")
             /\ UNCHANGED <<lock, req, sent, inBuffer, status, result, outgoing, answers, executed>>

-----------------------------------------------------------------------------
\* The board.

Answer(o, s) == answers' = Append(answers, [to |-> o.to, packet |-> o.packet, status |-> s])

Execute ==
    LET o == Head(outgoing)
    IN  /\ outgoing # <<>>
        /\ outgoing' = Tail(outgoing)
        /\ executed' = [executed EXCEPT ![o.to] = Append(@, o.packet)]
        /\ Answer(o, "STATUS_COMPLETED_CMD")
        /\ UNCHANGED <<lock, calls>>

Refuse ==
    LET o == Head(outgoing)
    IN  /\ outgoing # <<>> /\ req[o.to] \in Refusable
        /\ outgoing' = Tail(outgoing)
        /\ Answer(o, "STATUS_BUSY_CMD")
        /\ UNCHANGED <<lock, calls, executed>>

Lose == /\ outgoing # <<>>
        /\ outgoing' = Tail(outgoing)
        /\ UNCHANGED <<lock, calls, answers, executed>>

Board == Execute \/ Refuse \/ Lose

CallStep(t) == \/ Lock(t) \/ Write(t) \/ WriteFails(t)
               \/ Read(t) \/ ReadShort(t) \/ ReadTimesOut(t)
               \/ Finish(t) \/ Return(t)

Next == (\E t \in Threads : Call(t) \/ CallStep(t)) \/ Board

Spec == Init /\ [][Next]_vars

\* Threads run, the mutex is not handed out in order, and a packet the board does
\* not answer is given up by a time-out.
FairSpec == Spec /\ (\A t \in Threads : SF_vars(CallStep(t))) /\ WF_vars(Board)

-----------------------------------------------------------------------------
\* Properties.

\* Type invariant.
TypeOK ==
    LET Packets == [first : Nat, count : Nat \ {0}]
    IN  /\ lock \in Threads \cup {Free}
        /\ pc \in [Threads -> {"idle", "lock", "write", "read", "finish", "done"}]
        /\ req \in [Threads -> Requests]
        /\ \A t \in Threads : sent[t] \in 0..PacketCount(req[t])
        /\ status \in [Threads -> {0, -1}] /\ result \in [Threads -> {0, -1}]
        /\ \A t \in Threads : \A k \in DOMAIN executed[t] : executed[t][k] \in Packets

\* Every answer that a request has taken is the answer to its own packet of that
\* number: threads that share the port, lost packets and failed requests never
\* leave an answer for somebody else.
AnswersMatch ==
    \A t \in Threads : \A k \in DOMAIN inBuffer[t] :
        /\ inBuffer[t][k].to = t
        /\ inBuffer[t][k].packet = PacketOf(req[t], k)

\* The blocks the board has executed.
Blocks(packets) == UNION {p.first..(p.first + p.count - 1) : p \in {packets[k] : k \in DOMAIN packets}}

\* TransferPacket returns 0 only when the board has executed the whole request
\* ("0: success, other: failure", LMS64CProtocol.cpp:361).
SuccessMeansDone ==
    \A t \in Threads : pc[t] = "done" /\ result[t] = 0 =>
        Blocks(executed[t]) = 0..(req[t].blocks - 1)

\* A request that failed has been executed up to some block and not beyond.
FailureLeavesPrefix ==
    \A t \in Threads : pc[t] = "done" =>
        \E n \in 0..req[t].blocks : Blocks(executed[t]) = 0..(n - 1)

\* A caller looks for the answer to block i in the 4 bytes at 4 * i of all the
\* answers, and finds it there, whatever the packets were cut into.
ReadDataInPlace ==
    \A t \in Threads :
        pc[t] = "done" /\ result[t] = 0 /\ req[t].cmd \in {"CMD_LMS7002_RD", "CMD_ANALOG_VAL_RD"} =>
            \A i \in 0..(req[t].blocks - 1) :
                LET k == (4 * i) \div pktDataLength + 1
                    place == (4 * i) % pktDataLength
                IN  /\ k <= Len(inBuffer[t])
                    /\ inBuffer[t][k].packet.first + place \div 4 = i

\* Every request is answered or given up, though others use the port all the time.
CallsReturn == \A t \in Threads : pc[t] = "lock" ~> pc[t] = "done"
=============================================================================
