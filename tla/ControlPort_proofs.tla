------------------------- MODULE ControlPort_proofs -------------------------
(***************************************************************************)
(* The control port for any number of threads and requests of any length:  *)
(* every answer is taken by the request it answers, a caller finds every   *)
(* value at its place, and what it is told of the board is what the board  *)
(* has done, as long as no answer comes after a time-out.                  *)
(***************************************************************************)
EXTENDS ControlPort, SequenceTheorems, TLAPS

-----------------------------------------------------------------------------
\* Packets.

\* What a packet holds, for each command of the model.
LEMMA Sizes ==
    ASSUME NEW cmd \in Commands
    PROVE  BlocksInPacket(cmd) \in {14, 18, 56}
  BY DEF Commands, BlocksInPacket, MaxDataLength, ByteBlockRatio, pktDataLength

\* Commands that are answered with 4 bytes for a block have 14 to a packet.
LEMMA ReadSizes ==
    ASSUME NEW cmd \in {"CMD_LMS7002_RD", "CMD_ANALOG_VAL_RD"}
    PROVE  BlocksInPacket(cmd) = 14
  BY DEF BlocksInPacket, MaxDataLength, ByteBlockRatio, pktDataLength

\* A request is cut into as many packets as it needs, none of them empty.
LEMMA Packets ==
    ASSUME NEW r \in Requests
    PROVE  /\ PacketCount(r) \in Nat \ {0}
           /\ \A k \in 1..PacketCount(r) :
                 PacketOf(r, k) \in [first : Nat, count : Nat \ {0}]
  <1> DEFINE most == BlocksInPacket(r.cmd)
             q == r.blocks \div most
             m == r.blocks % most
  <1>1. r.cmd \in Commands /\ r.blocks \in Nat \ {0}
    BY ControlAssumption
  <1>2. most \in {14, 18, 56}
    BY <1>1, Sizes
  <1>3. q \in Nat /\ m \in 0..(most - 1) /\ r.blocks = most * q + m
    BY <1>1, <1>2
  <1>4. PacketCount(r) = q + (IF m # 0 THEN 1 ELSE 0)
    BY DEF PacketCount
  <1>5. PacketCount(r) \in Nat \ {0}
    BY <1>1, <1>2, <1>3, <1>4
  <1>6. ASSUME NEW k \in 1..PacketCount(r)
        PROVE  PacketOf(r, k) \in [first : Nat, count : Nat \ {0}]
    <2>1. (k - 1) * most \in Nat /\ (k - 1) * most < r.blocks
      BY <1>2, <1>3, <1>4, <1>5
    <2>2. PacketOf(r, k) = [first |-> (k - 1) * most,
                            count |-> IF r.blocks - (k - 1) * most > most THEN most
                                      ELSE r.blocks - (k - 1) * most]
      BY DEF PacketOf
    <2> QED
      BY <1>1, <1>2, <2>1, <2>2
  <1> QED
    BY <1>5, <1>6

LEMMA OneElement ==
    ASSUME NEW S, NEW s \in Seq(S), Len(s) = 1
    PROVE  s[1] \in S /\ Head(s) = s[1] /\ Tail(s) = <<>>
  <1>1. s[1] \in S
    BY ElementOfSeq
  <1>2. s = <<s[1]>>
    OBVIOUS
  <1>3. Head(s) = s[1] /\ Tail(s) = <<>>
    <2>1. PICK x : s = <<x>>
      BY <1>2
    <2> QED
      BY <2>1
  <1> QED
    BY <1>1, <1>3

-----------------------------------------------------------------------------
\* The inductive invariant.

Answered == [to : Threads, packet : [first : Nat, count : Nat \ {0}],
             status : {"STATUS_COMPLETED_CMD", "STATUS_BUSY_CMD"}]

Holds(t) == pc[t] \in {"write", "read", "finish"}

Types == /\ TypeOK
         /\ sent \in [Threads -> Nat]
         /\ inBuffer \in [Threads -> Seq(Answered)]
         /\ executed \in [Threads -> Seq([first : Nat, count : Nat \ {0}])]
         /\ outgoing \in Seq([to : Threads, packet : [first : Nat, count : Nat \ {0}]])
         /\ answers \in Seq(Answered)

\* The thread inside its request has the lock, and only that one.
LockOK == \A t \in Threads : Holds(t) <=> lock = t

\* Between packets the link is silent; while an answer is waited for, there is the
\* packet sent last, or its answer, or neither.
LinkOK ==
    LET Silent == outgoing = <<>> /\ answers = <<>>
    IN  \/ Silent
        \/ \E t \in Threads :
              LET last == PacketOf(req[t], sent[t])
              IN  /\ pc[t] = "read"
                  /\ \/ /\ outgoing = <<[to |-> t, packet |-> last]>>
                        /\ answers = <<>>
                     \/ /\ outgoing = <<>>
                        /\ Len(answers) = 1
                        /\ answers[1].to = t /\ answers[1].packet = last

\* A call that goes on has an answer to every packet but the one under way.
ProgressOK ==
    \A t \in Threads :
        /\ pc[t] = "write" => Len(inBuffer[t]) = sent[t] /\ status[t] = 0
        /\ pc[t] = "read" => Len(inBuffer[t]) + 1 = sent[t] /\ status[t] = 0
        /\ pc[t] = "finish" => status[t] = -1
        /\ pc[t] = "lock" => sent[t] = 0 /\ inBuffer[t] = <<>> /\ status[t] = 0
        /\ pc[t] = "done" /\ result[t] = 0 => Len(inBuffer[t]) = PacketCount(req[t])

IInv == Types /\ LockOK /\ LinkOK /\ ProgressOK /\ AnswersMatch

LEMMA InitIInv == Init => IInv
  <1> SUFFICES ASSUME Init PROVE IInv
    OBVIOUS
  <1>1. \A t \in Threads : PacketCount(req[t]) \in Nat
    BY Packets DEF Init
  <1>2. Types
    BY <1>1 DEF Init, Types, TypeOK
  <1>3. LockOK /\ LinkOK /\ ProgressOK /\ AnswersMatch
    BY ControlAssumption DEF Init, LockOK, Holds, LinkOK, ProgressOK, AnswersMatch
  <1> QED
    BY <1>2, <1>3 DEF IInv

-----------------------------------------------------------------------------
\* Steps of a call.

LEMMA CallIInv ==
    ASSUME IInv, NEW t \in Threads, Call(t)
    PROVE  IInv'
  <1> PICK r \in Requests : req' = [req EXCEPT ![t] = r]
    BY DEF Call
  <1>1. \A u \in Threads : PacketCount(req'[u]) \in Nat
    BY Packets DEF IInv, Types, TypeOK
  <1>2. Types'
    <2>1. TypeOK'
      <3>1. /\ lock' \in Threads \cup {Free}
            /\ pc' \in [Threads -> {"idle", "lock", "write", "read", "finish", "done"}]
            /\ req' \in [Threads -> Requests]
            /\ status' \in [Threads -> {0, -1}] /\ result' \in [Threads -> {0, -1}]
        BY DEF IInv, Types, TypeOK, Call, GoTo
      <3>2. /\ sent \in [Threads -> Nat] /\ sent' = [sent EXCEPT ![t] = 0]
            /\ req \in [Threads -> Requests]
            /\ DOMAIN executed = Threads /\ executed' = [executed EXCEPT ![t] = <<>>]
            /\ \A u \in Threads : sent[u] \in 0..PacketCount(req[u])
        BY DEF IInv, Types, TypeOK, Call
      <3>3. ASSUME NEW u \in Threads
            PROVE  sent'[u] \in 0..PacketCount(req'[u])
        <4>1. CASE u = t
          <5>1. sent'[u] = 0 /\ PacketCount(req'[u]) \in Nat
            BY <1>1, <3>2, <4>1
          <5> QED
            BY <5>1
        <4>2. CASE u # t
          <5>1. sent'[u] = sent[u] /\ req'[u] = req[u]
            BY <3>2, <4>2
          <5> QED
            BY <3>2, <5>1
        <4> QED
          BY <4>1, <4>2
      <3>4. \A u \in Threads : executed'[u] = executed[u] \/ executed'[u] = <<>>
        BY <3>2
      <3>5. \A u \in Threads : \A k \in DOMAIN executed'[u] :
               executed'[u][k] \in [first : Nat, count : Nat \ {0}]
        <4>1. \A u \in Threads : \A k \in DOMAIN executed[u] :
                 executed[u][k] \in [first : Nat, count : Nat \ {0}]
          BY DEF IInv, Types, TypeOK
        <4>2. \A k \in DOMAIN <<>> : FALSE
          OBVIOUS
        <4> QED
          BY <3>4, <4>1, <4>2, Zenon
      <3> QED
        BY <3>1, <3>3, <3>5 DEF TypeOK
    <2> QED
      BY <1>1, <2>1 DEF IInv, Types, Call
  <1>3. LockOK'
    BY DEF IInv, Types, TypeOK, LockOK, Holds, Call, GoTo
  <1>4. LinkOK'
    BY DEF IInv, Types, TypeOK, LinkOK, Call, GoTo
  <1>5. ProgressOK'
    BY DEF IInv, Types, TypeOK, ProgressOK, Call, GoTo
  <1>6. AnswersMatch'
    BY DEF IInv, Types, TypeOK, AnswersMatch, Call, GoTo
  <1> QED
    BY <1>2, <1>3, <1>4, <1>5, <1>6 DEF IInv

\* With the lock free the link is silent, and with the lock held by t whatever is
\* on the link is t's.
LEMMA LinkIsHolders ==
    ASSUME IInv
    PROVE  /\ lock = Free => outgoing = <<>> /\ answers = <<>>
           /\ \A t \in Threads : Holds(t) /\ pc[t] # "read" => outgoing = <<>> /\ answers = <<>>
           /\ \A t \in Threads : pc[t] = "read" =>
                 LET last == PacketOf(req[t], sent[t])
                 IN  \/ outgoing = <<>> /\ answers = <<>>
                     \/ outgoing = <<[to |-> t, packet |-> last]>> /\ answers = <<>>
                     \/ /\ outgoing = <<>>
                        /\ Len(answers) = 1
                        /\ answers[1].to = t /\ answers[1].packet = last
  BY ControlAssumption DEF IInv, LockOK, LinkOK, Holds

LEMMA LockIInv ==
    ASSUME IInv, NEW t \in Threads, Lock(t)
    PROVE  IInv'
  <1>1. Types'
    BY DEF IInv, Types, TypeOK, Lock, GoTo
  <1>2. LockOK'
    BY ControlAssumption DEF IInv, Types, TypeOK, LockOK, Holds, Lock, GoTo
  <1>3. LinkOK'
    BY LinkIsHolders DEF LinkOK, Lock
  <1>4. ProgressOK'
    BY DEF IInv, Types, TypeOK, ProgressOK, Lock, GoTo
  <1>5. AnswersMatch'
    BY DEF IInv, AnswersMatch, Lock
  <1> QED
    BY <1>1, <1>2, <1>3, <1>4, <1>5 DEF IInv

LEMMA WriteIInv ==
    ASSUME IInv, NEW t \in Threads, Write(t)
    PROVE  IInv'
  <1> DEFINE next == PacketOf(req[t], sent[t] + 1)
  <1>1. /\ outgoing = <<>> /\ answers = <<>>
        /\ outgoing' = <<[to |-> t, packet |-> next]>> /\ answers' = <<>>
    <2>1. outgoing = <<>> /\ answers = <<>>
      BY LinkIsHolders DEF Holds, Write
    <2>2. outgoing' = Append(<<>>, [to |-> t, packet |-> next]) /\ answers' = <<>>
      BY <2>1 DEF Write
    <2> QED
      BY <2>1, <2>2
  <1>2. PacketCount(req[t]) \in Nat /\ next \in [first : Nat, count : Nat \ {0}]
    BY Packets DEF IInv, Types, TypeOK, Write, MorePackets
  <1>3. Types'
    <2>1. outgoing' \in Seq([to : Threads, packet : [first : Nat, count : Nat \ {0}]])
      BY <1>1, <1>2
    <2>2. \A u \in Threads : sent'[u] \in 0..PacketCount(req'[u])
      BY <1>2 DEF IInv, Types, TypeOK, Write, MorePackets
    <2> HIDE DEF next
    <2> QED
      BY <2>1, <2>2 DEF IInv, Types, TypeOK, Write, GoTo
  <1>4. LockOK'
    BY DEF IInv, Types, TypeOK, LockOK, Holds, Write, GoTo
  <1>5. LinkOK'
    BY <1>1 DEF IInv, Types, TypeOK, LinkOK, Write, GoTo
  <1>6. ProgressOK'
    BY DEF IInv, Types, TypeOK, ProgressOK, Write, GoTo
  <1>7. AnswersMatch'
    BY DEF IInv, AnswersMatch, Write
  <1> QED
    BY <1>3, <1>4, <1>5, <1>6, <1>7 DEF IInv

\* A call that gives up has left nothing on the link.
LEMMA FailIInv ==
    ASSUME IInv, NEW t \in Threads, Holds(t), Fail(t), lock' = lock,
           outgoing' = <<>>, answers' = <<>>,
           UNCHANGED <<req, sent, inBuffer, result, executed>>
    PROVE  IInv'
  <1>1. Types'
    BY DEF IInv, Types, TypeOK, Fail, GoTo
  <1>2. LockOK'
    BY DEF IInv, Types, TypeOK, LockOK, Holds, Fail, GoTo
  <1>3. LinkOK'
    BY DEF LinkOK
  <1>4. ProgressOK'
    BY DEF IInv, Types, TypeOK, ProgressOK, Holds, Fail, GoTo
  <1>5. AnswersMatch'
    BY DEF IInv, AnswersMatch
  <1> QED
    BY <1>1, <1>2, <1>3, <1>4, <1>5 DEF IInv

LEMMA ReadIInv ==
    ASSUME IInv, NEW t \in Threads, Read(t)
    PROVE  IInv'
  <1> DEFINE a == answers[1]
             n == Len(inBuffer[t])
  <1>1. /\ outgoing = <<>> /\ Len(answers) = 1
        /\ a.to = t /\ a.packet = PacketOf(req[t], sent[t])
    BY LinkIsHolders DEF IInv, Types, Read
  <1>2. /\ a \in Answered /\ inBuffer[t] \in Seq(Answered)
        /\ inBuffer' = [inBuffer EXCEPT ![t] = Append(inBuffer[t], a)]
        /\ outgoing' = <<>> /\ answers' = <<>>
    <2>1. /\ answers \in Seq(Answered) /\ inBuffer \in [Threads -> Seq(Answered)]
          /\ outgoing' = outgoing /\ answers' = Tail(answers)
          /\ inBuffer' = [inBuffer EXCEPT ![t] = Append(@, Head(answers))]
      BY DEF IInv, Types, Read
    <2>2. Head(answers) = a /\ a \in Answered /\ Tail(answers) = <<>>
      BY <1>1, <2>1, OneElement
    <2> QED
      BY <1>1, <2>1, <2>2
  <1>3. /\ inBuffer'[t] \in Seq(Answered)
        /\ Len(inBuffer'[t]) = n + 1
        /\ \A k \in 1..n : inBuffer'[t][k] = inBuffer[t][k]
        /\ inBuffer'[t][n + 1] = a
        /\ \A u \in Threads : u # t => inBuffer'[u] = inBuffer[u]
    BY <1>2 DEF IInv, Types
  <1>4. n + 1 = sent[t] /\ status[t] = 0
    BY DEF IInv, ProgressOK, Read
  <1> HIDE DEF a, n
  <1>5. Types'
    BY <1>2, <1>3 DEF IInv, Types, TypeOK, Read, GoTo
  <1>6. LockOK'
    BY DEF IInv, Types, TypeOK, LockOK, Holds, Read, GoTo
  <1>7. LinkOK'
    BY <1>2 DEF LinkOK
  <1>8. ProgressOK'
    BY <1>3, <1>4 DEF IInv, Types, TypeOK, ProgressOK, Read, GoTo
  <1>9. AnswersMatch'
    <2>1. SUFFICES ASSUME NEW u \in Threads, NEW k \in DOMAIN inBuffer'[u]
                   PROVE  /\ inBuffer'[u][k].to = u
                          /\ inBuffer'[u][k].packet = PacketOf(req'[u], k)
      BY DEF AnswersMatch
    <2>2. req' = req
      BY DEF Read
    <2>3. CASE u # t
      BY <1>3, <2>2, <2>3 DEF IInv, AnswersMatch
    <2>4. CASE u = t
      <3>1. k \in 1..(n + 1) /\ n \in Nat
        BY <1>2, <1>3, <2>4 DEF n
      <3>2. CASE k = n + 1
        BY <1>1, <1>3, <1>4, <2>2, <2>4, <3>2
      <3>3. CASE k \in 1..n
        <4>1. k \in DOMAIN inBuffer[t]
          BY <1>2, <3>3 DEF n
        <4> QED
          BY <1>3, <2>2, <2>4, <3>3, <4>1 DEF IInv, AnswersMatch
      <3> QED
        BY <3>1, <3>2, <3>3
    <2> QED
      BY <2>3, <2>4
  <1> QED
    BY <1>5, <1>6, <1>7, <1>8, <1>9 DEF IInv

LEMMA FinishIInv ==
    ASSUME IInv, NEW t \in Threads, Finish(t)
    PROVE  IInv'
  <1>1. Holds(t) /\ outgoing = <<>> /\ answers = <<>>
    BY LinkIsHolders DEF Holds, Finish
  <1>2. Types'
    BY DEF IInv, Types, TypeOK, Finish, GoTo
  <1>3. LockOK'
    BY <1>1, ControlAssumption DEF IInv, Types, TypeOK, LockOK, Holds, Finish, GoTo
  <1>4. LinkOK'
    BY <1>1 DEF LinkOK, Finish
  <1>5. ProgressOK'
    <2>1. PacketCount(req[t]) \in Nat
      BY Packets DEF IInv, Types, TypeOK
    <2>2. result'[t] = 0 => Len(inBuffer[t]) = PacketCount(req[t])
      BY <2>1 DEF IInv, Types, TypeOK, ProgressOK, Finish, MorePackets
    <2> QED
      BY <2>2 DEF IInv, Types, TypeOK, ProgressOK, Finish, GoTo
  <1>6. AnswersMatch'
    BY DEF IInv, AnswersMatch, Finish
  <1> QED
    BY <1>2, <1>3, <1>4, <1>5, <1>6 DEF IInv

LEMMA ReturnIInv ==
    ASSUME IInv, NEW t \in Threads, Return(t)
    PROVE  IInv'
  <1>1. Types'
    BY DEF IInv, Types, TypeOK, Return, GoTo
  <1>2. LockOK' /\ ProgressOK' /\ AnswersMatch'
    BY DEF IInv, Types, TypeOK, LockOK, Holds, ProgressOK, AnswersMatch, Return, GoTo
  <1>3. LinkOK'
    BY DEF IInv, Types, TypeOK, LinkOK, Return, GoTo
  <1> QED
    BY <1>1, <1>2, <1>3 DEF IInv

-----------------------------------------------------------------------------
\* Steps of the board.

LEMMA BoardIInv ==
    ASSUME IInv, Board
    PROVE  IInv'
  <1>1. PICK t \in Threads : /\ pc[t] = "read"
                             /\ outgoing = <<[to |-> t, packet |-> PacketOf(req[t], sent[t])]>>
                             /\ answers = <<>>
    BY DEF IInv, LinkOK, Board, Execute, Refuse, Lose
  <1> DEFINE o == [to |-> t, packet |-> PacketOf(req[t], sent[t])]
  <1>2. o \in [to : Threads, packet : [first : Nat, count : Nat \ {0}]]
    <2>1. PacketOf(req[t], sent[t]) \in [first : Nat, count : Nat \ {0}]
      <3>1. outgoing \in Seq([to : Threads, packet : [first : Nat, count : Nat \ {0}]])
        BY DEF IInv, Types
      <3>2. Len(outgoing) = 1 /\ outgoing[1].packet = PacketOf(req[t], sent[t])
        BY <1>1
      <3>3. outgoing[1] \in [to : Threads, packet : [first : Nat, count : Nat \ {0}]]
        BY <3>1, <3>2, OneElement
      <3> QED
        BY <3>2, <3>3
    <2> QED
      BY <2>1
  <1>3. Head(outgoing) = o /\ outgoing' = <<>> /\ UNCHANGED <<lock, calls>>
    BY <1>1 DEF Board, Execute, Refuse, Lose
  <1>4. executed' \in [Threads -> Seq([first : Nat, count : Nat \ {0}])]
    <2>1. CASE Execute
      <3>1. executed' = [executed EXCEPT ![t] = Append(@, o.packet)]
        <4>1. Head(outgoing).to = t /\ Head(outgoing).packet = o.packet
          BY <1>3
        <4> QED
          BY <4>1, <2>1 DEF Execute
      <3> HIDE DEF o
      <3>2. o.packet \in [first : Nat, count : Nat \ {0}]
        BY <1>2
      <3> QED
        BY <3>1, <3>2 DEF IInv, Types
    <2>2. CASE Refuse \/ Lose
      BY <2>2 DEF IInv, Types, Refuse, Lose
    <2> QED
      BY <2>1, <2>2 DEF Board
  <1>5. \/ answers' = <<>>
        \/ /\ Len(answers') = 1 /\ answers'[1].to = t
           /\ answers'[1].packet = PacketOf(req[t], sent[t])
           /\ answers' \in Seq(Answered)
    <2>1. CASE Lose
      BY <1>1, <2>1 DEF Lose
    <2>2. CASE Execute \/ Refuse
      <3>1. PICK s \in {"STATUS_COMPLETED_CMD", "STATUS_BUSY_CMD"} :
              answers' = <<[to |-> t, packet |-> PacketOf(req[t], sent[t]), status |-> s]>>
        BY <1>1, <1>3, <2>2 DEF Execute, Refuse, Answer
      <3> QED
        BY <1>2, <3>1 DEF Answered
    <2> QED
      BY <2>1, <2>2 DEF Board
  <1>6. Types'
    <2>1. outgoing' \in Seq([to : Threads, packet : [first : Nat, count : Nat \ {0}]])
      BY <1>3
    <2>2. answers' \in Seq(Answered)
      <3>1. <<>> \in Seq(Answered)
        OBVIOUS
      <3> QED
        BY <1>5, <3>1
    <2>3. TypeOK'
      <3>1. \A u \in Threads : \A k \in DOMAIN executed'[u] :
              executed'[u][k] \in [first : Nat, count : Nat \ {0}]
        <4> DEFINE P == [first : Nat, count : Nat \ {0}]
        <4>1. SUFFICES ASSUME NEW u \in Threads, NEW k \in DOMAIN executed'[u]
                       PROVE  executed'[u][k] \in P
          OBVIOUS
        <4>2. executed' \in [Threads -> Seq(P)]
          BY <1>4
        <4> HIDE DEF P
        <4>3. executed'[u] \in Seq(P)
          BY <4>2
        <4>4. k \in 1..Len(executed'[u])
          BY <4>3, LenProperties
        <4> QED
          BY <4>3, <4>4, ElementOfSeq
      <3> QED
        BY <1>3, <3>1 DEF IInv, Types, TypeOK, calls
    <2> QED
      BY <1>3, <1>4, <2>1, <2>2, <2>3 DEF IInv, Types, calls
  <1>7. LinkOK'
    BY <1>1, <1>3, <1>5 DEF LinkOK, calls
  <1>8. LockOK' /\ ProgressOK' /\ AnswersMatch'
    BY <1>3 DEF IInv, LockOK, Holds, ProgressOK, AnswersMatch, calls
  <1> QED
    BY <1>6, <1>7, <1>8 DEF IInv

-----------------------------------------------------------------------------
LEMMA NextIInv ==
    ASSUME ~LateAnswers, IInv, [Next]_vars
    PROVE  IInv'
  <1>1. CASE \E t \in Threads : Call(t)
    BY <1>1, CallIInv
  <1>2. ASSUME NEW t \in Threads, CallStep(t)
        PROVE  IInv'
    <2>1. CASE Lock(t)
      BY <2>1, LockIInv
    <2>2. CASE Write(t)
      BY <2>2, WriteIInv
    <2>3. CASE WriteFails(t)
      BY <2>3, LinkIsHolders, FailIInv DEF WriteFails, Holds
    <2>4. CASE Read(t)
      BY <2>4, ReadIInv
    <2>5. CASE ReadShort(t)
      <3>1. outgoing = <<>> /\ Len(answers) = 1
        BY <2>5, LinkIsHolders DEF ReadShort
      <3>2. answers' = <<>> /\ outgoing' = <<>>
        <4>1. answers \in Seq(Answered)
          BY DEF IInv, Types
        <4>2. answers' = Tail(answers) /\ outgoing' = outgoing
          BY <2>5 DEF ReadShort
        <4>3. Tail(answers) \in Seq(Answered) /\ Len(Tail(answers)) = 0
          BY <3>1, <4>1
        <4> HIDE DEF Answered
        <4> QED
          BY <3>1, <4>2, <4>3
      <3> QED
        BY <2>5, <3>2, FailIInv DEF ReadShort, Holds
    <2>6. CASE ReadTimesOut(t)
      BY <2>6, FailIInv DEF ReadTimesOut, Holds
    <2>7. CASE Finish(t)
      BY <2>7, FinishIInv
    <2>8. CASE Return(t)
      BY <2>8, ReturnIInv
    <2> QED
      BY <1>2, <2>1, <2>2, <2>3, <2>4, <2>5, <2>6, <2>7, <2>8 DEF CallStep
  <1>3. CASE Board
    BY <1>3, BoardIInv
  <1>4. CASE UNCHANGED vars
    BY <1>4 DEF vars, calls, IInv, Types, TypeOK, LockOK, Holds, LinkOK, ProgressOK, AnswersMatch
  <1> QED
    BY <1>1, <1>2, <1>3, <1>4 DEF Next

-----------------------------------------------------------------------------
\* The answers to a request that asks for 4 bytes a block follow one another
\* without a gap, wherever the request was cut.
LEMMA Places ==
    ASSUME NEW r \in Requests, r.cmd \in {"CMD_LMS7002_RD", "CMD_ANALOG_VAL_RD"},
           NEW i \in 0..(r.blocks - 1)
    PROVE  LET k == (4 * i) \div pktDataLength + 1
           IN  /\ k \in 1..PacketCount(r)
               /\ PacketOf(r, k).first + ((4 * i) % pktDataLength) \div 4 = i
  <1> DEFINE k == (4 * i) \div 56 + 1
  <1>1. r.blocks \in Nat \ {0} /\ BlocksInPacket(r.cmd) = 14
    BY ControlAssumption, ReadSizes
  <1>2. PacketCount(r) = r.blocks \div 14 + (IF r.blocks % 14 # 0 THEN 1 ELSE 0)
    BY <1>1 DEF PacketCount
  <1>3. PacketOf(r, k).first = (k - 1) * 14
    BY <1>1 DEF PacketOf
  <1>4. i \in Nat /\ i < r.blocks
    BY <1>1
  <1>5. k = i \div 14 + 1 /\ ((4 * i) % 56) \div 4 = i % 14
    BY <1>4
  <1>6. k \in 1..PacketCount(r)
    BY <1>1, <1>2, <1>4, <1>5
  <1>7. PacketOf(r, k).first + ((4 * i) % 56) \div 4 = i
    BY <1>3, <1>4, <1>5
  <1> QED
    BY <1>6, <1>7 DEF pktDataLength

-----------------------------------------------------------------------------
\* No packet is counted that is not there, none is empty, and no field leaves its
\* type, for any threads and requests (PreparePacket's arithmetic included).
THEOREM TypeCorrect == ~LateAnswers => (Spec => []TypeOK)
  <1> SUFFICES ASSUME ~LateAnswers PROVE Spec => []TypeOK
    OBVIOUS
  <1>1. Init => IInv
    BY InitIInv
  <1>2. IInv /\ [Next]_vars => IInv'
    BY NextIInv
  <1>3. IInv => TypeOK
    BY DEF IInv, Types
  <1> QED
    BY <1>1, <1>2, <1>3, PTL DEF Spec

\* Threads that share the port never take one another's answers, nor a request
\* that of its own packet before, whatever is lost, refused or cut short.
THEOREM AnswersAreOwn == ~LateAnswers => (Spec => []AnswersMatch)
  <1> SUFFICES ASSUME ~LateAnswers PROVE Spec => []AnswersMatch
    OBVIOUS
  <1>1. Init => IInv
    BY InitIInv
  <1>2. IInv /\ [Next]_vars => IInv'
    BY NextIInv
  <1>3. IInv => AnswersMatch
    BY DEF IInv
  <1> QED
    BY <1>1, <1>2, <1>3, PTL DEF Spec

\* A caller that was told of success finds the answer to each block at its place,
\* for requests of any length.
THEOREM ReadDataFound == ~LateAnswers => (Spec => []ReadDataInPlace)
  <1> SUFFICES ASSUME ~LateAnswers PROVE Spec => []ReadDataInPlace
    OBVIOUS
  <1>1. Init => IInv
    BY InitIInv
  <1>2. IInv /\ [Next]_vars => IInv'
    BY NextIInv
  <1>3. IInv => ReadDataInPlace
    <2> SUFFICES ASSUME IInv, NEW t \in Threads, pc[t] = "done", result[t] = 0,
                        req[t].cmd \in {"CMD_LMS7002_RD", "CMD_ANALOG_VAL_RD"},
                        NEW i \in 0..(req[t].blocks - 1)
                 PROVE  LET k == (4 * i) \div pktDataLength + 1
                            place == (4 * i) % pktDataLength
                        IN  /\ k <= Len(inBuffer[t])
                            /\ inBuffer[t][k].packet.first + place \div 4 = i
      BY DEF ReadDataInPlace
    <2> DEFINE k == (4 * i) \div pktDataLength + 1
    <2>1. req[t] \in Requests /\ inBuffer[t] \in Seq(Answered)
      BY DEF IInv, Types, TypeOK
    <2>2. /\ k \in 1..PacketCount(req[t])
          /\ PacketOf(req[t], k).first + ((4 * i) % pktDataLength) \div 4 = i
      BY <2>1, Places
    <2>3. Len(inBuffer[t]) = PacketCount(req[t])
      BY DEF IInv, ProgressOK
    <2> HIDE DEF k
    <2>4. k \in DOMAIN inBuffer[t] /\ k <= Len(inBuffer[t])
      BY <2>1, <2>2, <2>3
    <2>5. inBuffer[t][k].packet = PacketOf(req[t], k)
      BY <2>4 DEF IInv, AnswersMatch
    <2> QED
      BY <2>2, <2>4, <2>5 DEF k
  <1> QED
    BY <1>1, <1>2, <1>3, PTL DEF Spec

-----------------------------------------------------------------------------
\* What the board has executed of a request.

\* The board refuses requests of one packet only.
OnePacketRefusals == \A r \in Refusable : PacketCount(r) = 1

\* A request of one packet that the board has refused, in the answer a.
IsRefusal(t, a) == /\ sent[t] = 1 /\ PacketCount(req[t]) = 1 /\ Len(executed[t]) = 0
                   /\ a.status # "STATUS_COMPLETED_CMD"

\* What is executed are the first packets of the request: all that were sent, but for
\* the one under way and for a refused one.
ExecutedSoFar(t) ==
    /\ Len(executed[t]) <= PacketCount(req[t])
    /\ \A k \in DOMAIN executed[t] : executed[t][k] = PacketOf(req[t], k)
    /\ pc[t] = "lock" => Len(executed[t]) = 0
    /\ pc[t] = "write" => Len(executed[t]) = sent[t] \/ IsRefusal(t, inBuffer[t][1])
    /\ pc[t] = "read" =>
          /\ outgoing # <<>> => Len(executed[t]) + 1 = sent[t]
          /\ answers # <<>> => Len(executed[t]) = sent[t] \/ IsRefusal(t, answers[1])
    /\ pc[t] = "done" /\ result[t] = 0 => Len(executed[t]) = PacketCount(req[t])

ExecutedOK == \A t \in Threads : ExecutedSoFar(t)

LEMMA InitExecuted == Init => ExecutedOK
  <1> SUFFICES ASSUME Init, NEW t \in Threads
               PROVE  ExecutedSoFar(t)
    BY DEF ExecutedOK
  <1>1. PacketCount(req[t]) \in Nat
    BY Packets DEF Init
  <1>2. pc[t] = "idle" /\ executed[t] = <<>> /\ Len(<<>>) = 0
    BY DEF Init
  <1> QED
    BY <1>1, <1>2 DEF ExecutedSoFar

\* Other threads do not notice, since the one that uses the link has the lock.
LEMMA OthersExecuted ==
    ASSUME IInv, ExecutedOK, NEW t \in Threads, NEW u \in Threads, u # t,
           Holds(t) \/ UNCHANGED <<outgoing, answers>>,
           pc'[u] = pc[u], req'[u] = req[u], sent'[u] = sent[u], inBuffer'[u] = inBuffer[u],
           result'[u] = result[u], executed'[u] = executed[u]
    PROVE  ExecutedSoFar(u)'
  <1>1. CASE Holds(t)
    <2>1. pc[u] # "read"
      BY <1>1 DEF IInv, LockOK, Holds
    <2> QED
      BY <2>1 DEF ExecutedOK, ExecutedSoFar, IsRefusal
  <1>2. CASE UNCHANGED <<outgoing, answers>>
    BY <1>2 DEF ExecutedOK, ExecutedSoFar, IsRefusal
  <1> QED
    BY <1>1, <1>2

LEMMA CallExecuted ==
    ASSUME IInv, ExecutedOK, NEW t \in Threads, Call(t)
    PROVE  ExecutedOK'
  <1>1. PICK r \in Requests :
           /\ req' = [req EXCEPT ![t] = r] /\ pc' = [pc EXCEPT ![t] = "lock"]
           /\ sent' = [sent EXCEPT ![t] = 0] /\ inBuffer' = [inBuffer EXCEPT ![t] = <<>>]
           /\ result' = [result EXCEPT ![t] = 0] /\ executed' = [executed EXCEPT ![t] = <<>>]
           /\ UNCHANGED <<outgoing, answers>>
    BY DEF Call, GoTo
  <1>2. ExecutedSoFar(t)'
    <2>1. /\ executed'[t] = <<>> /\ Len(<<>>) = 0 /\ req'[t] = r /\ pc'[t] = "lock"
      BY <1>1 DEF IInv, Types, TypeOK
    <2>2. PacketCount(r) \in Nat
      BY Packets
    <2>3. DOMAIN executed'[t] = {}
      BY <2>1
    <2> QED
      BY <2>1, <2>2, <2>3 DEF ExecutedSoFar
  <1>3. ASSUME NEW u \in Threads, u # t
        PROVE  ExecutedSoFar(u)'
    BY <1>1, <1>3, OthersExecuted DEF IInv, Types, TypeOK
  <1> QED
    BY <1>2, <1>3 DEF ExecutedOK

LEMMA StepExecuted ==
    ASSUME IInv, ExecutedOK, NEW t \in Threads, CallStep(t)
    PROVE  ExecutedOK'
  <1>1. /\ req' = req /\ executed' = executed
        /\ \A u \in Threads : u # t => /\ pc'[u] = pc[u] /\ sent'[u] = sent[u]
                                       /\ inBuffer'[u] = inBuffer[u] /\ result'[u] = result[u]
        /\ Holds(t) \/ UNCHANGED <<outgoing, answers>>
    BY DEF CallStep, Lock, Write, WriteFails, Read, ReadShort, ReadTimesOut, Finish, Return, Fail,
       GoTo, Holds, IInv, Types, TypeOK
  <1>2. ASSUME NEW u \in Threads, u # t
        PROVE  ExecutedSoFar(u)'
    BY <1>1, <1>2, OthersExecuted
  <1>3. /\ Len(executed[t]) <= PacketCount(req[t])
        /\ \A k \in DOMAIN executed[t] : executed[t][k] = PacketOf(req[t], k)
    BY DEF ExecutedOK, ExecutedSoFar
  <1>4. /\ pc \in [Threads -> {"idle", "lock", "write", "read", "finish", "done"}]
        /\ sent \in [Threads -> Nat] /\ status \in [Threads -> {0, -1}]
        /\ result \in [Threads -> {0, -1}]
        /\ sent[t] <= PacketCount(req[t]) /\ PacketCount(req[t]) \in Nat
        /\ inBuffer[t] \in Seq(Answered) /\ Len(executed[t]) \in Nat
    BY Packets, LenProperties DEF IInv, Types, TypeOK
  <1>5. CASE Lock(t)
    <2>1. pc[t] = "lock" /\ pc'[t] = "write" /\ sent' = sent
      BY <1>4, <1>5 DEF Lock, GoTo
    <2>2. sent[t] = 0 /\ Len(executed[t]) = 0
      BY <2>1 DEF IInv, ProgressOK, ExecutedOK, ExecutedSoFar
    <2> QED
      BY <1>1, <1>2, <1>3, <2>1, <2>2 DEF ExecutedOK, ExecutedSoFar
  <1>6. CASE Write(t)
    <2>1. /\ pc[t] = "write" /\ pc'[t] = "read" /\ sent'[t] = sent[t] + 1
          /\ answers' = answers /\ sent[t] < PacketCount(req[t])
      BY <1>4, <1>6 DEF Write, GoTo, MorePackets
    <2>2. answers = <<>>
      BY <2>1, LinkIsHolders DEF Holds
    <2>3. Len(executed[t]) = sent[t]
      BY <1>4, <2>1 DEF ExecutedOK, ExecutedSoFar, IsRefusal
    <2> QED
      BY <1>1, <1>2, <1>3, <2>1, <2>2, <2>3 DEF ExecutedOK, ExecutedSoFar
  <1>7. CASE WriteFails(t) \/ ReadShort(t) \/ ReadTimesOut(t)
    <2>1. pc'[t] = "finish"
      BY <1>4, <1>7 DEF WriteFails, ReadShort, ReadTimesOut, Fail, GoTo
    <2> QED
      BY <1>1, <1>2, <1>3, <2>1 DEF ExecutedOK, ExecutedSoFar
  <1>8. CASE Read(t)
    <2>1. /\ pc[t] = "read" /\ pc'[t] = "write" /\ sent' = sent /\ answers # <<>>
          /\ inBuffer'[t] = Append(inBuffer[t], Head(answers))
      BY <1>4, <1>8 DEF Read, GoTo, IInv, Types
    <2>2. Len(answers) = 1 /\ answers \in Seq(Answered)
      BY <2>1, LinkIsHolders DEF IInv, Types
    <2>3. Head(answers) = answers[1]
      BY <2>2, OneElement
    <2>4. sent[t] = 1 => inBuffer'[t][1] = answers[1]
      <3>1. Len(inBuffer[t]) + 1 = sent[t]
        BY <2>1 DEF IInv, ProgressOK
      <3>2. Len(inBuffer[t]) \in Nat
        BY <1>4, LenProperties
      <3>3. Append(inBuffer[t], answers[1])[Len(inBuffer[t]) + 1] = answers[1]
        BY <1>4, <2>2, AppendProperties, OneElement
      <3> QED
        BY <2>1, <2>3, <3>1, <3>2, <3>3
    <2>5. Len(executed[t]) = sent[t] \/ IsRefusal(t, answers[1])
      BY <2>1 DEF ExecutedOK, ExecutedSoFar
    <2> QED
      BY <1>1, <1>2, <1>3, <2>1, <2>4, <2>5 DEF ExecutedOK, ExecutedSoFar, IsRefusal
  <1>9. CASE Finish(t)
    <2>1. /\ pc'[t] = "done"
          /\ \/ pc[t] = "finish"
             \/ pc[t] = "write" /\ sent[t] = PacketCount(req[t])
          /\ result'[t] = IF status[t] = 0 /\ LastStatus(t) = "STATUS_COMPLETED_CMD"
                          THEN 0 ELSE -1
      BY <1>4, <1>9 DEF Finish, GoTo, MorePackets
    <2>2. ASSUME result'[t] = 0
          PROVE  Len(executed[t]) = PacketCount(req[t])
      <3>1. status[t] = 0 /\ LastStatus(t) = "STATUS_COMPLETED_CMD"
        BY <2>1, <2>2
      <3>2. pc[t] = "write" /\ sent[t] = PacketCount(req[t]) /\ Len(inBuffer[t]) = sent[t]
        BY <2>1, <3>1 DEF IInv, ProgressOK
      <3>3. ~IsRefusal(t, inBuffer[t][1])
        <4>1. sent[t] = 1 => LastStatus(t) = inBuffer[t][1].status
          <5>1. Len(<<>>) = 0
            OBVIOUS
          <5> QED
            BY <3>2, <5>1 DEF LastStatus
        <4> QED
          BY <3>1, <4>1 DEF IsRefusal
      <3> QED
        BY <3>2, <3>3 DEF ExecutedOK, ExecutedSoFar
    <2> QED
      BY <1>1, <1>2, <1>3, <2>1, <2>2 DEF ExecutedOK, ExecutedSoFar
  <1>10. CASE Return(t)
    <2>1. pc'[t] = "idle"
      BY <1>4, <1>10 DEF Return, GoTo
    <2> QED
      BY <1>1, <1>2, <1>3, <2>1 DEF ExecutedOK, ExecutedSoFar
  <1> QED
    BY <1>5, <1>6, <1>7, <1>8, <1>9, <1>10 DEF CallStep

LEMMA BoardExecuted ==
    ASSUME OnePacketRefusals, IInv, ExecutedOK, Board
    PROVE  ExecutedOK'
  <1>1. PICK t \in Threads : /\ pc[t] = "read"
                             /\ outgoing = <<[to |-> t, packet |-> PacketOf(req[t], sent[t])]>>
                             /\ answers = <<>>
    BY DEF IInv, LinkOK, Board, Execute, Refuse, Lose
  <1> DEFINE o == [to |-> t, packet |-> PacketOf(req[t], sent[t])]
             n == Len(executed[t])
  <1>2. /\ Head(outgoing) = o /\ outgoing' = <<>> /\ UNCHANGED <<lock, calls>>
        /\ o.to = t /\ o.packet = PacketOf(req[t], sent[t])
        /\ outgoing # <<>>
    BY <1>1 DEF Board, Execute, Refuse, Lose
  <1>3. /\ n \in Nat /\ n + 1 = sent[t] /\ sent[t] <= PacketCount(req[t])
        /\ executed \in [Threads -> Seq([first : Nat, count : Nat \ {0}])]
        /\ DOMAIN executed[t] = 1..n
        /\ PacketCount(req[t]) \in Nat
    BY <1>1, <1>2, Packets, LenProperties DEF ExecutedOK, ExecutedSoFar, IInv, Types, TypeOK
  <1>4. \A k \in 1..n : executed[t][k] = PacketOf(req[t], k)
    BY <1>3 DEF ExecutedOK, ExecutedSoFar
  <1>5. Holds(t)
    BY <1>1 DEF Holds
  <1> HIDE DEF o, n
  <1>6. CASE Execute
    <2>1. /\ executed' = [executed EXCEPT ![t] = Append(executed[t], PacketOf(req[t], sent[t]))]
          /\ answers' = Append(answers, [to |-> o.to, packet |-> o.packet,
                                         status |-> "STATUS_COMPLETED_CMD"])
      BY <1>2, <1>6 DEF Execute, Answer
    <2>2. PacketOf(req[t], sent[t]) \in [first : Nat, count : Nat \ {0}]
      <3>1. sent[t] \in 1..PacketCount(req[t])
        BY <1>3
      <3> QED
        BY <3>1, Packets DEF IInv, Types, TypeOK
    <2>3. /\ executed'[t] = Append(executed[t], PacketOf(req[t], sent[t]))
          /\ \A u \in Threads : u # t => executed'[u] = executed[u]
      BY <1>3, <2>1
    <2>4. /\ Len(executed'[t]) = n + 1 /\ DOMAIN executed'[t] = 1..(n + 1)
          /\ executed'[t][n + 1] = PacketOf(req[t], sent[t])
          /\ \A k \in 1..n : executed'[t][k] = executed[t][k]
      BY <1>3, <2>2, <2>3, AppendProperties, LenProperties DEF n
    <2>5. \A k \in 1..(n + 1) : executed'[t][k] = PacketOf(req[t], k)
      <3>1. \A k \in 1..(n + 1) : k \in 1..n \/ k = n + 1
        BY <1>3
      <3> QED
        BY <1>3, <1>4, <2>4, <3>1
    <2>6. ExecutedSoFar(t)'
      BY <1>1, <1>2, <1>3, <2>4, <2>5 DEF ExecutedSoFar, calls
    <2>7. ASSUME NEW u \in Threads, u # t
          PROVE  ExecutedSoFar(u)'
      BY <1>2, <1>5, <2>3, <2>7, OthersExecuted DEF calls
    <2> QED
      BY <2>6, <2>7 DEF ExecutedOK
  <1>7. CASE Refuse \/ Lose
    <2>1. executed' = executed
      BY <1>7 DEF Refuse, Lose
    <2>2. answers' # <<>> => IsRefusal(t, answers[1])'
      <3>1. CASE Lose
        BY <1>1, <3>1 DEF Lose
      <3>2. CASE Refuse
        <4>1. /\ req[t] \in Refusable
              /\ answers' = Append(<<>>, [to |-> o.to, packet |-> o.packet,
                                          status |-> "STATUS_BUSY_CMD"])
          BY <1>1, <1>2, <3>2 DEF Refuse, Answer
        <4>2. answers'[1].status = "STATUS_BUSY_CMD"
          BY <4>1
        <4>3. PacketCount(req[t]) = 1
          BY <4>1 DEF OnePacketRefusals
        <4>4. sent[t] = 1 /\ n = 0
          BY <1>3, <4>3
        <4> QED
          BY <1>2, <2>1, <4>2, <4>3, <4>4 DEF IsRefusal, calls, n
      <3> QED
        BY <1>7, <3>1, <3>2
    <2>3. ExecutedSoFar(t)'
      BY <1>1, <1>2, <2>1, <2>2 DEF ExecutedOK, ExecutedSoFar, calls
    <2>4. ASSUME NEW u \in Threads, u # t
          PROVE  ExecutedSoFar(u)'
      BY <1>2, <1>5, <2>1, <2>4, OthersExecuted DEF calls
    <2> QED
      BY <2>3, <2>4 DEF ExecutedOK
  <1> QED
    BY <1>6, <1>7 DEF Board

LEMMA NextExecuted ==
    ASSUME OnePacketRefusals, IInv, ExecutedOK, [Next]_vars
    PROVE  ExecutedOK'
  <1>1. CASE UNCHANGED vars
    BY <1>1 DEF vars, calls, ExecutedOK, ExecutedSoFar, IsRefusal
  <1> QED
    BY <1>1, CallExecuted, StepExecuted, BoardExecuted DEF Next
-----------------------------------------------------------------------------
\* The first packets of a request are its first blocks, without a gap.
LEMMA BlocksOf ==
    ASSUME NEW r \in Requests, NEW s, NEW m \in Nat, m <= PacketCount(r),
           DOMAIN s = 1..m, \A k \in 1..m : s[k] = PacketOf(r, k)
    PROVE  \E n \in 0..r.blocks : /\ Blocks(s) = 0..(n - 1)
                                  /\ m = PacketCount(r) => n = r.blocks
  <1> DEFINE most == BlocksInPacket(r.cmd)
             n == IF m = PacketCount(r) THEN r.blocks ELSE m * most
  <1>1. r.cmd \in Commands /\ r.blocks \in Nat \ {0}
    BY ControlAssumption
  <1>2. most \in {14, 18, 56}
    BY <1>1, Sizes
  <1>3. PacketCount(r) = (r.blocks \div most) + (IF (r.blocks % most) # 0 THEN 1 ELSE 0)
    BY DEF PacketCount
  <1>4. \A k : /\ PacketOf(r, k).first = (k - 1) * most
               /\ PacketOf(r, k).count = IF r.blocks - (k - 1) * most > most THEN most
                                         ELSE r.blocks - (k - 1) * most
    BY DEF PacketOf
  <1> HIDE DEF most
  <1>5. /\ PacketCount(r) \in Nat /\ PacketCount(r) * most >= r.blocks
        /\ (PacketCount(r) - 1) * most < r.blocks
    BY <1>1, <1>2, <1>3
  <1>6. n \in 0..r.blocks
    BY <1>1, <1>2, <1>5
  <1>7. ASSUME NEW k \in 1..m
        PROVE  /\ s[k].first = (k - 1) * most /\ s[k].first \in Nat /\ s[k].count \in Int
               /\ s[k].first + s[k].count \in Nat /\ s[k].first + s[k].count <= n
               /\ s[k].first + s[k].count = IF k * most < r.blocks THEN k * most ELSE r.blocks
    <2>1. /\ s[k].first = (k - 1) * most
          /\ s[k].count = IF r.blocks - (k - 1) * most > most THEN most
                          ELSE r.blocks - (k - 1) * most
      BY <1>4
    <2> HIDE DEF n
    <2>2. n \in Nat /\ n <= r.blocks /\ (m = PacketCount(r) => n = r.blocks)
          /\ (m # PacketCount(r) => n = m * most)
      BY <1>1, <1>6 DEF n
    <2> DEFINE x == (k - 1) * most
               y == k * most
    <2>3. /\ x \in Nat /\ x < r.blocks /\ y = x + most
          /\ m # PacketCount(r) => y <= n /\ y < r.blocks
      <3>1. k \in Nat /\ k >= 1 /\ k <= m /\ k <= PacketCount(r)
        BY <1>5
      <3>2. CASE most = 14
        BY <1>1, <1>5, <2>2, <3>1, <3>2
      <3>3. CASE most = 18
        BY <1>1, <1>5, <2>2, <3>1, <3>3
      <3>4. CASE most = 56
        BY <1>1, <1>5, <2>2, <3>1, <3>4
      <3> QED
        BY <1>2, <3>2, <3>3, <3>4
    <2>4. most \in Nat
      BY <1>2
    <2> HIDE DEF x, y
    <2>5. /\ s[k].first = x
          /\ s[k].count = IF r.blocks - x > most THEN most ELSE r.blocks - x
      BY <2>1 DEF x
    <2>6. /\ s[k].first \in Nat /\ s[k].count \in Int
          /\ s[k].first + s[k].count = IF y < r.blocks THEN y ELSE r.blocks
      BY <1>1, <2>3, <2>4, <2>5
    <2>7. s[k].first + s[k].count \in Nat /\ s[k].first + s[k].count <= n
      BY <1>1, <2>2, <2>3, <2>4, <2>6
    <2> QED
      BY <2>5, <2>6, <2>7 DEF x, y
  <1>0. \A i : i \in Blocks(s) <=>
                \E k \in 1..m : i \in s[k].first..(s[k].first + s[k].count - 1)
    BY DEF Blocks
  <1>8. ASSUME NEW i \in Blocks(s)
        PROVE  i \in 0..(n - 1)
    <2> HIDE DEF n
    <2>1. PICK k \in 1..m : i \in s[k].first..(s[k].first + s[k].count - 1)
      BY <1>0
    <2> DEFINE a == s[k].first
               b == s[k].first + s[k].count
    <2>2. a \in Nat /\ b \in Nat /\ b <= n /\ i \in a..(b - 1)
      <3>1. a \in Nat /\ b \in Nat /\ b <= n
        BY <1>7
      <3>2. i \in a..(b - 1)
        BY <1>7, <2>1
      <3> QED
        BY <3>1, <3>2
    <2> HIDE DEF a, b
    <2>3. n \in Nat
      BY <1>1, <1>6
    <2> QED
      BY <2>2, <2>3
  <1>9. ASSUME NEW i \in 0..(n - 1)
        PROVE  i \in Blocks(s)
    <2> DEFINE k == (i \div most) + 1
    <2> HIDE DEF n
    <2>1. i \in Nat /\ i < n /\ i < r.blocks /\ (m # PacketCount(r) => n = m * most)
      BY <1>1, <1>6 DEF n
    <2>2. k \in Nat /\ k >= 1 /\ (k - 1) * most <= i /\ i < k * most
      BY <1>2, <2>1
    <2> HIDE DEF k
    <2>3. k <= m
      <3>1. CASE most = 14
        BY <1>1, <1>5, <2>1, <2>2, <3>1
      <3>2. CASE most = 18
        BY <1>1, <1>5, <2>1, <2>2, <3>2
      <3>3. CASE most = 56
        BY <1>1, <1>5, <2>1, <2>2, <3>3
      <3> QED
        BY <1>2, <3>1, <3>2, <3>3
    <2>4. k \in 1..m
      BY <2>2, <2>3
    <2> DEFINE a == s[k].first
               b == s[k].first + s[k].count
    <2>5. /\ a = (k - 1) * most /\ a \in Nat /\ b \in Nat
          /\ b = IF k * most < r.blocks THEN k * most ELSE r.blocks
      BY <1>7, <2>4
    <2> HIDE DEF a, b
    <2>6. i \in a..(b - 1)
      BY <2>1, <2>2, <2>5
    <2> QED
      <3>1. i \in s[k].first..(s[k].first + s[k].count - 1)
        BY <1>7, <2>4, <2>6 DEF a, b
      <3> HIDE DEF n
      <3> QED
        BY <1>0, <2>4, <3>1
  <1> HIDE DEF n
  <1>10. Blocks(s) = 0..(n - 1)
    BY <1>8, <1>9
  <1>11. m = PacketCount(r) => n = r.blocks
    BY DEF n
  <1> QED
    BY <1>6, <1>10, <1>11

LEMMA ExecutedPrefix ==
    ASSUME IInv, ExecutedOK, NEW t \in Threads
    PROVE  \E n \in 0..req[t].blocks :
              /\ Blocks(executed[t]) = 0..(n - 1)
              /\ Len(executed[t]) = PacketCount(req[t]) => n = req[t].blocks
  <1>1. req[t] \in Requests /\ executed[t] \in Seq([first : Nat, count : Nat \ {0}])
    BY DEF IInv, Types, TypeOK
  <1>2. Len(executed[t]) \in Nat /\ DOMAIN executed[t] = 1..Len(executed[t])
    BY <1>1, LenProperties
  <1>3. /\ Len(executed[t]) <= PacketCount(req[t])
        /\ \A k \in 1..Len(executed[t]) : executed[t][k] = PacketOf(req[t], k)
    BY <1>2 DEF ExecutedOK, ExecutedSoFar
  <1> QED
    BY <1>1, <1>2, <1>3, BlocksOf

\* TransferPacket returns 0 only when the board has executed the whole request, when
\* what the board may refuse has one packet: the status is that of the last answer.
THEOREM SuccessIsDone ==
    ~LateAnswers /\ OnePacketRefusals => (Spec => []SuccessMeansDone)
  <1> SUFFICES ASSUME ~LateAnswers, OnePacketRefusals PROVE Spec => []SuccessMeansDone
    OBVIOUS
  <1>1. Init => IInv /\ ExecutedOK
    BY InitIInv, InitExecuted
  <1>2. IInv /\ ExecutedOK /\ [Next]_vars => IInv' /\ ExecutedOK'
    BY NextIInv, NextExecuted
  <1>3. IInv /\ ExecutedOK => SuccessMeansDone
    <2> SUFFICES ASSUME IInv, ExecutedOK, NEW t \in Threads, pc[t] = "done", result[t] = 0
                 PROVE  Blocks(executed[t]) = 0..(req[t].blocks - 1)
      BY DEF SuccessMeansDone
    <2>1. Len(executed[t]) = PacketCount(req[t])
      BY DEF ExecutedOK, ExecutedSoFar
    <2> QED
      BY <2>1, ExecutedPrefix
  <1> QED
    BY <1>1, <1>2, <1>3, PTL DEF Spec

\* A request that failed has been executed up to some block and not beyond, under the
\* same conditions.
THEOREM FailureIsPrefix ==
    ~LateAnswers /\ OnePacketRefusals => (Spec => []FailureLeavesPrefix)
  <1> SUFFICES ASSUME ~LateAnswers, OnePacketRefusals PROVE Spec => []FailureLeavesPrefix
    OBVIOUS
  <1>1. Init => IInv /\ ExecutedOK
    BY InitIInv, InitExecuted
  <1>2. IInv /\ ExecutedOK /\ [Next]_vars => IInv' /\ ExecutedOK'
    BY NextIInv, NextExecuted
  <1>3. IInv /\ ExecutedOK => FailureLeavesPrefix
    BY ExecutedPrefix DEF FailureLeavesPrefix
  <1> QED
    BY <1>1, <1>2, <1>3, PTL DEF Spec
=============================================================================
