--------------------------- MODULE SoapyRead_proofs ----------------------------
(***************************************************************************)
(* readStream for any number of channels, any sizes of packets, FIFOs and  *)
(* buffers, any commands and any packets lost on the way: the channels are *)
(* returned aligned as long as only the FIFO that is read last overflows   *)
(* and no time misleads, and bursts end where they should.                 *)
(***************************************************************************)
EXTENDS SoapyRead, SequenceTheorems, FiniteSetTheorems, TLAPS

-----------------------------------------------------------------------------
\* Sequences of samples.

\* The samples from time t on.
Runs(s, t) == \A k \in 1..Len(s) : s[k] = t + k - 1

\* The times in s, and that they grow.
In(s) == {s[k] : k \in 1..Len(s)}
Rising(s) == \A k, l \in 1..Len(s) : k < l => s[k] < s[l]

\* A sequence without its first n samples, of later times than these.
LEMMA Dropped ==
    ASSUME NEW s \in Seq(Nat), NEW n \in 0..Len(s)
    PROVE  /\ DropFirst(s, n) \in Seq(Nat)
           /\ Len(DropFirst(s, n)) = Len(s) - n
           /\ \A k \in 1..(Len(s) - n) : DropFirst(s, n)[k] = s[n + k]
           /\ In(DropFirst(s, n)) \subseteq In(s)
           /\ Rising(s) => Rising(DropFirst(s, n))
           /\ \A t \in Int : Runs(s, t) => Runs(DropFirst(s, n), t + n)
  <1> DEFINE d == DropFirst(s, n)
  <1>1. Len(s) \in Nat
    BY LenProperties
  <1>2. /\ d \in Seq(Nat) /\ Len(d) = Len(s) - n
        /\ \A k \in 1..Len(d) : d[k] = s[n + k]
    <2>1. n + 1 \in 1..(Len(s) + 1) /\ Len(s) \in (n + 1 - 1)..Len(s)
      BY <1>1
    <2>2. \A k \in 1..(Len(s) - n) : d[k] = s[n + 1 + k - 1]
      BY <1>1, <2>1 DEF DropFirst
    <2> QED
      BY <1>1, <2>1, <2>2 DEF DropFirst
  <1> HIDE DEF d
  <1>3. \A k \in 1..Len(d) : n + k \in 1..Len(s)
    BY <1>1, <1>2
  <1>4. ASSUME NEW t \in Int, Runs(s, t)
        PROVE  Runs(d, t + n)
    <2> SUFFICES ASSUME NEW k \in 1..Len(d)
                 PROVE  d[k] = (t + n) + k - 1
      BY DEF Runs
    <2>1. s[n + k] = t + (n + k) - 1
      BY <1>3, <1>4 DEF Runs
    <2> QED
      BY <1>1, <1>2, <2>1
  <1>5. In(d) \subseteq In(s)
    BY <1>2, <1>3 DEF In
  <1>6. ASSUME Rising(s)
        PROVE  Rising(d)
    <2> SUFFICES ASSUME NEW k \in 1..Len(d), NEW l \in 1..Len(d), k < l
                 PROVE  d[k] < d[l]
      BY DEF Rising
    <2>1. n + k < n + l /\ n + k \in 1..Len(s) /\ n + l \in 1..Len(s)
      BY <1>1, <1>3
    <2>2. s[n + k] < s[n + l]
      BY <1>6, <2>1 DEF Rising
    <2> QED
      BY <1>2, <2>2
  <1> QED
    BY <1>2, <1>4, <1>5, <1>6 DEF d

\* The first n samples, and what they leave.
LEMMA Taken ==
    ASSUME NEW s \in Seq(Nat), NEW n \in 1..Len(s)
    PROVE  LET t == SubSeq(s, 1, n)
               d == DropFirst(s, n)
           IN  /\ t \in Seq(Nat) /\ Len(t) = n /\ t[1] = s[1]
               /\ In(s) = In(t) \cup In(d)
               /\ Rising(s) => Rising(t) /\ \A x \in In(t), y \in In(d) : x < y
  <1> DEFINE t == SubSeq(s, 1, n)
             d == DropFirst(s, n)
  <1>1. Len(s) \in Nat /\ n \in 0..Len(s)
    BY LenProperties
  <1>2. t \in Seq(Nat) /\ Len(t) = n /\ \A k \in 1..n : t[k] = s[k]
    BY <1>1
  <1>3. Len(d) = Len(s) - n /\ \A k \in 1..(Len(s) - n) : d[k] = s[n + k]
    BY <1>1, Dropped
  <1> HIDE DEF t, d
  <1>4. \A k \in 1..n : k \in 1..Len(s)
    BY <1>1
  <1>5. \A k \in 1..(Len(s) - n) : n + k \in 1..Len(s)
    BY <1>1
  <1>6. In(t) \subseteq In(s) /\ In(d) \subseteq In(s)
    <2>1. In(t) \subseteq In(s)
      BY <1>2, <1>4 DEF In
    <2>2. In(d) \subseteq In(s)
      BY <1>3, <1>5 DEF In
    <2> QED
      BY <2>1, <2>2
  <1>7. ASSUME NEW x \in In(s)
        PROVE  x \in In(t) \cup In(d)
    <2> PICK k \in 1..Len(s) : x = s[k]
      BY DEF In
    <2>1. CASE k <= n
      <3>1. k \in 1..Len(t) /\ x = t[k]
        BY <1>1, <1>2, <2>1
      <3> QED
        BY <3>1 DEF In
    <2>2. CASE k > n
      <3>1. k - n \in 1..Len(d) /\ n + (k - n) = k
        BY <1>1, <1>3, <2>2
      <3>2. x = d[k - n]
        BY <1>3, <3>1
      <3> QED
        BY <3>1, <3>2 DEF In
    <2> QED
      BY <1>1, <2>1, <2>2
  <1>8. ASSUME Rising(s)
        PROVE  Rising(t) /\ \A x \in In(t), y \in In(d) : x < y
    <2>1. Rising(t)
      BY <1>2, <1>4, <1>8 DEF Rising
    <2>2. ASSUME NEW x \in In(t), NEW y \in In(d)
          PROVE  x < y
      <3> PICK k \in 1..n : x = s[k]
        BY <1>2 DEF In
      <3> PICK l \in 1..(Len(s) - n) : y = s[n + l]
        BY <1>3 DEF In
      <3>1. k \in 1..Len(s) /\ n + l \in 1..Len(s) /\ k < n + l
        BY <1>1
      <3> QED
        BY <1>8, <3>1 DEF Rising
    <2> QED
      BY <2>1, <2>2
  <1>9. t[1] = s[1]
    BY <1>2
  <1> QED
    BY <1>2, <1>6, <1>7, <1>8, <1>9 DEF t, d

\* One sequence after the other.
LEMMA Joined ==
    ASSUME NEW a \in Seq(Nat), NEW b \in Seq(Nat)
    PROVE  /\ a \o b \in Seq(Nat)
           /\ Len(a \o b) = Len(a) + Len(b)
           /\ Len(a) > 0 => (a \o b)[1] = a[1]
           /\ In(a \o b) = In(a) \cup In(b)
           /\ Rising(a) /\ Rising(b) /\ (\A x \in In(a), y \in In(b) : x < y) => Rising(a \o b)
           /\ \A t \in Int : Runs(a, t) /\ Runs(b, t + Len(a)) => Runs(a \o b, t)
  <1> DEFINE j == a \o b
  <1>1. Len(a) \in Nat /\ Len(b) \in Nat
    BY LenProperties
  <1>2. /\ j \in Seq(Nat) /\ Len(j) = Len(a) + Len(b)
        /\ \A k \in 1..(Len(a) + Len(b)) :
              j[k] = IF k <= Len(a) THEN a[k] ELSE b[k - Len(a)]
    BY ConcatProperties
  <1> HIDE DEF j
  <1>3. /\ \A k \in 1..Len(a) : k \in 1..Len(j) /\ j[k] = a[k]
        /\ \A k \in 1..Len(b) : Len(a) + k \in 1..Len(j) /\ j[Len(a) + k] = b[k]
    <2>1. ASSUME NEW k \in 1..Len(a)
          PROVE  k \in 1..Len(j) /\ j[k] = a[k]
      <3>1. k \in Nat /\ k \in 1..(Len(a) + Len(b)) /\ k <= Len(a)
        BY <1>1
      <3> QED
        BY <1>2, <3>1
    <2>2. ASSUME NEW k \in 1..Len(b)
          PROVE  Len(a) + k \in 1..Len(j) /\ j[Len(a) + k] = b[k]
      <3>1. /\ Len(a) + k \in 1..(Len(a) + Len(b)) /\ ~(Len(a) + k <= Len(a))
            /\ (Len(a) + k) - Len(a) = k
        BY <1>1
      <3>2. j[Len(a) + k] = b[(Len(a) + k) - Len(a)]
        BY <1>2, <3>1
      <3> QED
        BY <1>2, <3>1, <3>2
    <2> QED
      BY <2>1, <2>2
  <1>4. ASSUME NEW k \in 1..Len(j)
        PROVE  \/ k \in 1..Len(a) /\ j[k] = a[k]
               \/ k - Len(a) \in 1..Len(b) /\ j[k] = b[k - Len(a)] /\ k > Len(a)
    <2>1. k \in 1..(Len(a) + Len(b)) /\ k \in Nat
      BY <1>1, <1>2
    <2>2. j[k] = IF k <= Len(a) THEN a[k] ELSE b[k - Len(a)]
      BY <1>2, <2>1
    <2>3. CASE k <= Len(a)
      BY <1>1, <2>1, <2>2, <2>3
    <2>4. CASE ~(k <= Len(a))
      <3>1. k > Len(a) /\ k - Len(a) \in 1..Len(b)
        BY <1>1, <2>1, <2>4
      <3> QED
        BY <2>2, <2>4, <3>1
    <2> QED
      BY <2>3, <2>4
  <1>5. ASSUME NEW t \in Int, Runs(a, t), Runs(b, t + Len(a))
        PROVE  Runs(j, t)
    <2> SUFFICES ASSUME NEW k \in 1..Len(j)
                 PROVE  j[k] = t + k - 1
      BY DEF Runs
    <2>1. CASE k \in 1..Len(a) /\ j[k] = a[k]
      BY <1>5, <2>1 DEF Runs
    <2>2. CASE k - Len(a) \in 1..Len(b) /\ j[k] = b[k - Len(a)]
      <3>1. b[k - Len(a)] = (t + Len(a)) + (k - Len(a)) - 1
        BY <1>5, <2>2 DEF Runs
      <3> QED
        BY <1>1, <1>2, <2>2, <3>1
    <2> QED
      BY <1>4, <2>1, <2>2
  <1>6. In(j) = In(a) \cup In(b)
    <2>1. In(j) \subseteq In(a) \cup In(b)
      BY <1>4 DEF In
    <2>2. In(a) \subseteq In(j)
      BY <1>3 DEF In
    <2>3. In(b) \subseteq In(j)
      BY <1>3 DEF In
    <2> QED
      BY <2>1, <2>2, <2>3
  <1>7. ASSUME Rising(a), Rising(b), \A x \in In(a), y \in In(b) : x < y
        PROVE  Rising(j)
    <2> SUFFICES ASSUME NEW k \in 1..Len(j), NEW l \in 1..Len(j), k < l
                 PROVE  j[k] < j[l]
      BY DEF Rising
    <2>1. CASE l \in 1..Len(a) /\ j[l] = a[l]
      <3>1. k \in 1..Len(a) /\ j[k] = a[k]
        BY <1>1, <1>2, <1>3, <2>1
      <3> QED
        BY <1>7, <2>1, <3>1 DEF Rising
    <2>2. CASE l - Len(a) \in 1..Len(b) /\ j[l] = b[l - Len(a)]
      <3>1. CASE k \in 1..Len(a) /\ j[k] = a[k]
        BY <1>7, <2>2, <3>1 DEF In
      <3>2. CASE k - Len(a) \in 1..Len(b) /\ j[k] = b[k - Len(a)]
        <4>1. k - Len(a) < l - Len(a)
          BY <1>1, <1>2
        <4> QED
          BY <1>7, <2>2, <3>2, <4>1 DEF Rising
      <3> QED
        BY <1>4, <3>1, <3>2
    <2> QED
      BY <1>4, <2>1, <2>2
  <1>8. Len(a) > 0 => j[1] = a[1]
    BY <1>1, <1>3
  <1> QED
    BY <1>2, <1>5, <1>6, <1>7, <1>8 DEF j

\* A buffer that has moved on to a later time begins there, or is empty.
LEMMA Forwards ==
    ASSUME NEW s \in Seq(Nat), NEW old \in Int, NEW new \in Int, new >= old
    PROVE  LET f == FastForward(s, old, new)
           IN  /\ f \in Seq(Nat)
               /\ Len(f) = IF new - old <= Len(s) THEN Len(s) - (new - old) ELSE 0
               /\ In(f) \subseteq In(s)
               /\ Runs(s, old) => Runs(f, new)
  <1> DEFINE n == Lesser(new - old, Len(s))
             f == FastForward(s, old, new)
  <1>1. Len(s) \in Nat
    BY LenProperties
  <1>2. n \in 0..Len(s) /\ (new - old <= Len(s) => n = new - old)
                        /\ (~(new - old <= Len(s)) => n = Len(s))
    BY <1>1 DEF Lesser
  <1>3. f = DropFirst(s, n)
    BY DEF FastForward
  <1>4. /\ f \in Seq(Nat) /\ Len(f) = Len(s) - n /\ In(f) \subseteq In(s)
        /\ Runs(s, old) => Runs(f, old + n)
    BY <1>2, <1>3, Dropped
  <1>5. Len(f) = IF new - old <= Len(s) THEN Len(s) - (new - old) ELSE 0
    BY <1>1, <1>2, <1>4
  <1>6. ASSUME Runs(s, old) PROVE Runs(f, new)
    <2>1. CASE new - old <= Len(s)
      <3>1. old + n = new
        BY <1>1, <1>2, <2>1
      <3> QED
        BY <1>4, <1>6, <3>1
    <2>2. CASE ~(new - old <= Len(s))
      <3>1. Len(f) = 0
        BY <1>5, <2>2
      <3> QED
        BY <3>1 DEF Runs
    <2> QED
      BY <2>1, <2>2
  <1> QED
    BY <1>4, <1>5, <1>6

LEMMA Least ==
    ASSUME NEW a \in Int, NEW b \in Int
    PROVE  /\ Lesser(a, b) <= a /\ Lesser(a, b) <= b
           /\ Lesser(a, b) = a \/ Lesser(a, b) = b
  BY DEF Lesser

-----------------------------------------------------------------------------
\* The basis of all results: types, the command and the active channels.

TypeInv ==
    /\ now \in Nat /\ next \in Chan
    /\ fifo \in [Chan -> Seq(Nat)]
    /\ active \in [Chan -> BOOLEAN]
    /\ hasCmd \in BOOLEAN /\ timed \in BOOLEAN /\ timeTicks \in Nat /\ burst \in Nat
    /\ pc \in {"idle", "start", "read", "done"}
    /\ i \in 1..(Channels + 1)
    /\ numElems \in Nat /\ requestTime \in Nat
    /\ buffs \in [Chan -> Seq(Nat)] /\ got \in Seq(Nat)
    /\ endBurst \in BOOLEAN /\ ret \in Int /\ misled \in BOOLEAN
    /\ command \in [timed : BOOLEAN, ticks : Nat, numElems : Nat] /\ returned \in Nat

\* What is left of the burst, and whether the time of the command is still to come.
CommandOK ==
    /\ command.numElems # 0 => returned <= command.numElems
    /\ hasCmd => /\ timeTicks = command.ticks
                 /\ timed <=> (command.timed /\ returned = 0)
                 /\ command.numElems = 0 => burst = 0
                 /\ command.numElems # 0 => burst > 0 /\ returned + burst = command.numElems

\* The channels start in order, and all have when readStream reads.
ActiveOK ==
    /\ pc = "start" => hasCmd /\ i \in Chan /\ \A c \in Chan : active[c] <=> c < i
    /\ pc = "read" => hasCmd /\ numElems > 0
    /\ hasCmd /\ pc # "start" => \A c \in Chan : active[c]
    /\ \A c, d \in Chan : c < d /\ active[d] => active[c]

Basis == TypeInv /\ CommandOK /\ ActiveOK

LEMMA BasisInit == Init => Basis
  <1> SUFFICES ASSUME Init PROVE Basis
    OBVIOUS
  <1>1. /\ Channels \in Nat \ {0} /\ FirstTime \in Nat
        /\ 1 \in Chan /\ 1 \in 1..(Channels + 1)
    BY SoapyAssumption DEF Chan
  <1>2. [c \in Chan |-> <<>>] \in [Chan -> Seq(Nat)]
    OBVIOUS
  <1>3. TypeInv
    <2>1. now \in Nat /\ next \in Chan /\ i \in 1..(Channels + 1)
      BY <1>1 DEF Init
    <2>2. fifo \in [Chan -> Seq(Nat)] /\ buffs \in [Chan -> Seq(Nat)]
          /\ active \in [Chan -> BOOLEAN]
      BY <1>2 DEF Init
    <2>3. command \in [timed : BOOLEAN, ticks : Nat, numElems : Nat] /\ returned \in Nat
      BY DEF Init
    <2>4. hasCmd \in BOOLEAN /\ timed \in BOOLEAN /\ timeTicks \in Nat /\ burst \in Nat
      BY DEF Init
    <2>5. /\ pc \in {"idle", "start", "read", "done"} /\ numElems \in Nat
          /\ requestTime \in Nat
      BY DEF Init
    <2>6. endBurst = FALSE /\ ret = 0 /\ misled = FALSE /\ got = <<>>
      BY DEF Init
    <2>7. endBurst \in BOOLEAN /\ misled \in BOOLEAN
      BY <2>6
    <2>8. ret \in Int /\ got \in Seq(Nat)
      BY <2>6
    <2> QED
      BY <2>1, <2>2, <2>3, <2>4, <2>5, <2>7, <2>8 DEF TypeInv
  <1>4. CommandOK /\ ActiveOK
    BY DEF Init, CommandOK, ActiveOK
  <1> QED
    BY <1>3, <1>4 DEF Basis

\* The time a channel's next packet will have, unless it is lost.
Upcoming(c) == IF c < next THEN now + PktSize ELSE now

\* What the types say of the constants, the channels and the sequences.
LEMMA TypeFacts ==
    ASSUME TypeInv
    PROVE  /\ Channels \in Nat \ {0} /\ PktSize \in Nat \ {0} /\ FirstTime \in Nat
           /\ now \in Nat /\ next \in Chan /\ next \in 1..Channels
           /\ fifo \in [Chan -> Seq(Nat)] /\ buffs \in [Chan -> Seq(Nat)]
           /\ got \in Seq(Nat) /\ Len(got) \in Nat
           /\ \A c \in Chan : /\ fifo[c] \in Seq(Nat) /\ Len(fifo[c]) \in Nat
                              /\ buffs[c] \in Seq(Nat) /\ Len(buffs[c]) \in Nat
                              /\ Upcoming(c) \in Nat
  <1>1. fifo \in [Chan -> Seq(Nat)] /\ buffs \in [Chan -> Seq(Nat)] /\ got \in Seq(Nat)
    BY DEF TypeInv
  <1>2. \A c \in Chan : fifo[c] \in Seq(Nat) /\ buffs[c] \in Seq(Nat)
    BY <1>1
  <1>3. Len(got) \in Nat /\ \A c \in Chan : Len(fifo[c]) \in Nat /\ Len(buffs[c]) \in Nat
    BY <1>1, <1>2, LenProperties
  <1>4. /\ Channels \in Nat \ {0} /\ PktSize \in Nat \ {0} /\ now \in Nat /\ next \in Chan
        /\ FirstTime \in Nat
    BY SoapyAssumption DEF TypeInv
  <1>5. \A c \in Chan : Upcoming(c) \in Nat
    BY <1>4 DEF Upcoming
  <1> QED
    BY <1>1, <1>2, <1>3, <1>4, <1>5 DEF Chan

-----------------------------------------------------------------------------
\* The basis holds: the steps of the board and of the start.

\* The loop goes round the channels, and a packet more is in the FIFO it has come to.
LEMMA ReceiveUpcoming ==
    ASSUME TypeInv, Receive \/ Drop
    PROVE  /\ now' \in Nat /\ next' \in Chan
           /\ Receive => /\ next' = IF next = Channels THEN 1 ELSE next + 1
                         /\ now' = IF next = Channels THEN now + PktSize ELSE now
           /\ Drop => next = 1 /\ next' = 1 /\ now' = now + PktSize
  <1>1. /\ Channels \in Nat \ {0} /\ PktSize \in Nat \ {0} /\ now \in Nat
        /\ next \in 1..Channels
    BY TypeFacts
  <1>2. /\ next = Channels => next % Channels = 0
        /\ next < Channels => next % Channels = next
    BY <1>1
  <1>3. ASSUME Receive
        PROVE  /\ next' = IF next = Channels THEN 1 ELSE next + 1
               /\ now' = IF next = Channels THEN now + PktSize ELSE now
    BY <1>1, <1>2, <1>3 DEF Receive
  <1>4. Drop => next = 1 /\ next' = 1 /\ now' = now + PktSize
    BY DEF Drop
  <1> QED
    BY <1>1, <1>3, <1>4 DEF Chan

\* The samples of the packet that is being received.
Packet == now..(now + PktSize - 1)

\* What PushPacket leaves in a FIFO and what it adds.
LEMMA PushedPacket ==
    ASSUME TypeInv, NEW c \in Chan, PushPacket(c),
           \A x \in In(fifo[c]) : x < now
    PROVE  /\ fifo' \in [Chan -> Seq(Nat)]
           /\ \A d \in Chan : d # c => fifo'[d] = fifo[d]
           /\ In(fifo'[c]) \subseteq In(fifo[c]) \cup Packet
           /\ HasRoom(c) => In(fifo[c]) \subseteq In(fifo'[c])
           /\ Packet \subseteq In(fifo'[c])
           /\ Rising(fifo[c]) => Rising(fifo'[c])
  <1> DEFINE old == fifo[c]
             Oldest == {k \in DOMAIN old : PacketOf(old[k]) = PacketOf(Head(old))}
             kept == IF HasRoom(c) THEN old ELSE NotOfOldest(c)
             packet == [k \in 1..PktSize |-> now + k - 1]
  <1>1. /\ old \in Seq(Nat) /\ Len(old) \in Nat /\ DOMAIN old = 1..Len(old)
        /\ PktSize \in Nat /\ now \in Nat /\ fifo \in [Chan -> Seq(Nat)]
    BY TypeFacts
  <1>2. Cardinality(Oldest) \in 0..Len(old)
    <2>1. IsFiniteSet(1..Len(old)) /\ Cardinality(1..Len(old)) = Len(old)
      <3>1. \A m \in Nat : IsFiniteSet(1..m) /\ Cardinality(1..m) = m
        BY FS_Interval
      <3> QED
        BY <1>1, <3>1
    <2>2. Oldest \subseteq 1..Len(old)
      BY <1>1
    <2>3. IsFiniteSet(Oldest) /\ Cardinality(Oldest) <= Len(old)
      BY <2>1, <2>2, FS_Subset
    <2>4. Cardinality(Oldest) \in Nat
      BY <2>3, FS_CardinalityType
    <2> QED
      BY <1>1, <2>3, <2>4
  <1>3. /\ kept \in Seq(Nat) /\ In(kept) \subseteq In(old)
        /\ HasRoom(c) => kept = old
        /\ Rising(old) => Rising(kept)
    <2>1. CASE HasRoom(c)
      BY <1>1, <2>1
    <2>2. CASE ~HasRoom(c)
      <3>1. kept = DropFirst(old, Cardinality(Oldest))
        BY <2>2 DEF NotOfOldest, DropFirst
      <3> QED
        BY <1>1, <1>2, <2>2, <3>1, Dropped
    <2> QED
      BY <2>1, <2>2
  <1>4. /\ packet \in Seq(Nat) /\ Len(packet) = PktSize
        /\ \A k \in 1..PktSize : packet[k] = now + k - 1
    BY <1>1
  <1>5. fifo' = [fifo EXCEPT ![c] = kept \o packet]
    BY DEF PushPacket
  <1> HIDE DEF kept, packet
  <1>6. In(packet) = Packet
    <2>1. In(packet) \subseteq Packet
      BY <1>1, <1>4 DEF In, Packet
    <2>2. ASSUME NEW x \in Packet
          PROVE  x \in In(packet)
      <3>1. x - now + 1 \in 1..PktSize /\ now + (x - now + 1) - 1 = x
        BY <1>1 DEF Packet
      <3>2. packet[x - now + 1] = x
        BY <1>4, <3>1
      <3> QED
        BY <1>4, <3>1, <3>2 DEF In
    <2> QED
      BY <2>1, <2>2
  <1>7. Rising(packet)
    BY <1>1, <1>4 DEF Rising
  <1>8. \A x \in In(kept), y \in In(packet) : x < y
    <2> SUFFICES ASSUME NEW x \in In(kept), NEW y \in In(packet)
                 PROVE  x < y
      OBVIOUS
    <2>1. x < now /\ x \in Nat
      <3>1. x \in In(fifo[c])
        BY <1>3
      <3> PICK k \in 1..Len(fifo[c]) : x = fifo[c][k]
        BY <3>1 DEF In
      <3>2. fifo[c][k] \in Nat
        BY <1>1
      <3> QED
        BY <3>1, <3>2
    <2>2. y >= now /\ y \in Nat
      BY <1>1, <1>6 DEF Packet
    <2> QED
      BY <1>1, <2>1, <2>2
  <1>9. /\ kept \o packet \in Seq(Nat)
        /\ In(kept \o packet) = In(kept) \cup Packet
        /\ Rising(kept) => Rising(kept \o packet)
    BY <1>3, <1>4, <1>6, <1>7, <1>8, Joined
  <1>10. /\ fifo' \in [Chan -> Seq(Nat)] /\ fifo'[c] = kept \o packet
         /\ \A d \in Chan : d # c => fifo'[d] = fifo[d]
    BY <1>1, <1>5, <1>9
  <1> QED
    BY <1>3, <1>9, <1>10

LEMMA BoardBasis ==
    ASSUME Basis, Receive \/ Drop
    PROVE  Basis'
  <1>1. UNCHANGED <<active, stream, pc, local, answer, history>>
    BY DEF Receive, Drop
  <1>2. now' \in Nat /\ next' \in Chan
    BY ReceiveUpcoming DEF Basis
  <1>3. fifo' \in [Chan -> Seq(Nat)]
    <2>1. CASE UNCHANGED fifo
      BY <2>1 DEF Basis, TypeInv
    <2>2. CASE PushPacket(next)
      <3> PICK c \in Chan : c = next
        BY TypeFacts DEF Basis
      <3> DEFINE s == IF HasRoom(c) THEN fifo[c] ELSE NotOfOldest(c)
                 p == [k \in 1..PktSize |-> now + k - 1]
      <3>1. /\ fifo \in [Chan -> Seq(Nat)] /\ fifo[c] \in Seq(Nat)
            /\ PktSize \in Nat /\ now \in Nat
        BY TypeFacts DEF Basis
      <3>2. s \in Seq(Nat) /\ p \in Seq(Nat)
        <4>1. NotOfOldest(c) \in Seq(Nat)
          <5> DEFINE n == Cardinality({k \in DOMAIN fifo[c] :
                                         PacketOf(fifo[c][k]) = PacketOf(Head(fifo[c]))})
          <5>1. IsFiniteSet(1..Len(fifo[c])) /\ DOMAIN fifo[c] = 1..Len(fifo[c])
            BY <3>1, FS_Interval
          <5>2. n \in Nat
            BY <5>1, FS_Subset, FS_CardinalityType
          <5> HIDE DEF n
          <5>3. n + 1 \in Int /\ Len(fifo[c]) \in Int /\ \A k \in (n + 1)..Len(fifo[c]) : k \in 1..Len(fifo[c])
            BY <3>1, <5>2
          <5>4. SubSeq(fifo[c], n + 1, Len(fifo[c])) \in Seq(Nat)
            BY <3>1, <5>2, <5>3
          <5> QED
            BY <5>4 DEF NotOfOldest, n
        <4> QED
          BY <3>1, <4>1
      <3> HIDE DEF s, p
      <3>3. s \o p \in Seq(Nat)
        BY <3>2, Joined
      <3>4. fifo' = [fifo EXCEPT ![c] = s \o p]
        BY <2>2 DEF PushPacket, s, p
      <3> QED
        BY <3>1, <3>3, <3>4
    <2> QED
      BY <2>1, <2>2 DEF Receive, Drop
  <1>4. TypeInv'
    BY <1>1, <1>2, <1>3 DEF Basis, TypeInv, stream, local, answer, history
  <1>5. CommandOK' /\ ActiveOK'
    BY <1>1 DEF Basis, CommandOK, ActiveOK, stream, local, history
  <1> QED
    BY <1>4, <1>5 DEF Basis

LEMMA StartBasis ==
    ASSUME Basis, Start
    PROVE  Basis'
  <1>1. /\ pc = "start" /\ hasCmd
        /\ fifo' = [fifo EXCEPT ![i] = <<>>] /\ active' = [active EXCEPT ![i] = TRUE]
        /\ i' = i + 1 /\ pc' = IF i = Channels THEN "idle" ELSE "start"
        /\ UNCHANGED <<stream, numElems, requestTime, buffs, got, answer, history>>
    BY DEF Start, Basis, ActiveOK
  <1> PICK c \in Chan : c = i
    BY <1>1 DEF Basis, ActiveOK
  <1>2. /\ Channels \in Nat \ {0} /\ c \in 1..Channels /\ 1 \in Chan
        /\ fifo \in [Chan -> Seq(Nat)] /\ active \in [Chan -> BOOLEAN]
        /\ now \in Nat /\ next \in Chan /\ FirstTime \in Nat
    <2> TypeInv
      BY DEF Basis
    <2>1. Channels \in Nat \ {0} /\ FirstTime \in Nat
      BY TypeFacts
    <2>4. 1 \in Chan
      BY <2>1 DEF Chan
    <2>2. /\ fifo \in [Chan -> Seq(Nat)] /\ active \in [Chan -> BOOLEAN]
          /\ now \in Nat /\ next \in Chan
      BY DEF TypeInv
    <2>3. c \in 1..Channels
      BY DEF Chan
    <2> QED
      BY <2>1, <2>2, <2>3, <2>4
  <1>3. /\ fifo' \in [Chan -> Seq(Nat)]
        /\ active' \in [Chan -> BOOLEAN] /\ active'[c]
        /\ \A d \in Chan : d # c => active'[d] = active[d]
    <2>1. <<>> \in Seq(Nat)
      OBVIOUS
    <2> QED
      BY <1>1, <1>2, <2>1
  <1>4. i' \in 1..(Channels + 1) /\ pc' \in {"idle", "start"}
        /\ (pc' = "start" => i' \in Chan) /\ (pc' # "start" => c = Channels) /\ i' = c + 1
    BY <1>1, <1>2 DEF Chan
  <1>5. now' \in Nat /\ next' \in Chan
    BY <1>2 DEF Start, StartLoop
  <1>6. TypeInv'
    BY <1>1, <1>3, <1>4, <1>5 DEF Basis, TypeInv, stream, answer, history
  <1>7. CommandOK'
    BY <1>1 DEF Basis, CommandOK, stream, history
  <1>8. ActiveOK'
    <2>1. \A d \in Chan : active[d] <=> d < c
      BY <1>1 DEF Basis, ActiveOK
    <2>2. \A d \in Chan : active'[d] <=> d < c + 1
      <3> SUFFICES ASSUME NEW d \in Chan
                   PROVE  active'[d] <=> d < c + 1
        OBVIOUS
      <3>1. CASE d = c
        BY <1>2, <1>3, <3>1
      <3>2. CASE d # c
        <4>1. d < c <=> d < c + 1
          BY <1>2, <3>2 DEF Chan
        <4> QED
          BY <1>3, <2>1, <3>2, <4>1
      <3> QED
        BY <3>1, <3>2
    <2>3. c = Channels => \A d \in Chan : d < c + 1
      BY <1>2 DEF Chan
    <2>4. hasCmd' /\ pc' # "read"
      BY <1>1, <1>4 DEF stream
    <2>5. \A d, e \in Chan : d < e /\ active'[e] => active'[d]
      <3> SUFFICES ASSUME NEW d \in Chan, NEW e \in Chan, d < e, active'[e]
                   PROVE  active'[d]
        OBVIOUS
      <3>1. d < c + 1
        BY <1>2, <2>2 DEF Chan
      <3> QED
        BY <2>2, <3>1
    <2> QED
      BY <1>4, <2>2, <2>3, <2>4, <2>5 DEF ActiveOK
  <1> QED
    BY <1>6, <1>7, <1>8 DEF Basis

\* Calls and ends of calls.
LEMMA ActivateBasis ==
    ASSUME Basis, NEW cmd \in Commands, Activate(cmd)
    PROVE  Basis'
  <1>1. cmd \in [timed : BOOLEAN, ticks : Nat, numElems : Nat]
    BY SoapyAssumption
  <1>2. Channels \in Nat \ {0} /\ 1 \in Chan /\ 1 \in 1..(Channels + 1)
    BY TypeFacts DEF Basis, Chan
  <1>3. TypeInv'
    BY <1>1, <1>2 DEF Basis, TypeInv, Activate, board, answer
  <1>4. CommandOK'
    BY <1>1 DEF CommandOK, Activate
  <1>5. ActiveOK'
    BY <1>2 DEF ActiveOK, Activate, Chan
  <1> QED
    BY <1>3, <1>4, <1>5 DEF Basis

LEMMA DeactivateBasis ==
    ASSUME Basis, Deactivate
    PROVE  Basis'
  <1>1. TypeInv'
    BY DEF Basis, TypeInv, Deactivate, board, local, answer, history
  <1>2. CommandOK' /\ ActiveOK'
    BY DEF Basis, CommandOK, ActiveOK, Deactivate, history
  <1> QED
    BY <1>1, <1>2 DEF Basis

LEMMA ReadStreamBasis ==
    ASSUME Basis, NEW count \in Counts, ReadStream(count)
    PROVE  Basis'
  <1>1. count \in Nat \ {0}
    BY SoapyAssumption
  <1>2. 1 \in 1..(Channels + 1)
    BY TypeFacts DEF Basis
  <1>3. TypeInv'
    <2>1. requestTime' \in Nat
      BY DEF ReadStream, Basis, TypeInv
    <2>2. buffs' \in [Chan -> Seq(Nat)]
      BY DEF ReadStream
    <2>3. endBurst' \in BOOLEAN
      BY SoapyAssumption DEF ReadStream
    <2> QED
      BY <1>1, <1>2, <2>1, <2>2, <2>3 DEF Basis, TypeInv, ReadStream, board, stream
  <1>4. CommandOK'
    BY DEF Basis, CommandOK, ReadStream, stream
  <1>5. ActiveOK'
    BY <1>1 DEF Basis, ActiveOK, ReadStream, stream
  <1> QED
    BY <1>3, <1>4, <1>5 DEF Basis

LEMMA SkipBasis ==
    ASSUME Basis, Skip
    PROVE  Basis'
  <1>1. i' \in 1..(Channels + 1)
    BY TypeFacts DEF Basis, TypeInv, Skip
  <1>2. TypeInv'
    BY <1>1 DEF Basis, TypeInv, Skip, board, stream, answer, history
  <1>3. CommandOK' /\ ActiveOK'
    BY DEF Basis, CommandOK, ActiveOK, Skip, stream, history
  <1> QED
    BY <1>2, <1>3 DEF Basis

\* A call that ends without samples.
LEMMA RefusalBasis ==
    ASSUME Basis, NoCommand \/ ReadNothing \/ RefuseTime
    PROVE  Basis'
  <1>1. /\ pc \in {"idle", "read"} /\ pc' = "done" /\ ret' \in Int /\ ret' < 0
        /\ hasCmd' \in BOOLEAN /\ (hasCmd' => hasCmd)
        /\ UNCHANGED <<board, active, timed, timeTicks, burst, local, endBurst, history>>
    <2>1. CASE NoCommand
      BY <2>1 DEF NoCommand, Basis, TypeInv, Timeout, stream
    <2>2. CASE ReadNothing
      BY <2>2 DEF ReadNothing, Wanting, Basis, TypeInv, Timeout, stream
    <2>3. CASE RefuseTime
      <3>1. /\ pc = "read" /\ pc' = "done" /\ timeTicks \in Nat /\ requestTime \in Nat
            /\ UNCHANGED <<board, active, timed, timeTicks, burst, local, endBurst, history>>
        BY <2>3 DEF RefuseTime, Aligned, Basis, TypeInv
      <3>2. hasCmd' \in BOOLEAN /\ hasCmd
        BY <2>3, <3>1 DEF RefuseTime, Basis, ActiveOK
      <3>3. ret' \in Int /\ ret' < 0
        BY <2>3 DEF RefuseTime, TimeError, StreamError
      <3> QED
        BY <3>1, <3>2, <3>3
    <2> QED
      BY <2>1, <2>2, <2>3
  <1>2. TypeInv'
    BY <1>1 DEF Basis, TypeInv, board, local, history
  <1>3. CommandOK' /\ ActiveOK'
    BY <1>1 DEF Basis, CommandOK, ActiveOK, history
  <1> QED
    BY <1>2, <1>3 DEF Basis

LEMMA LeaveBasis ==
    ASSUME Basis, Leave
    PROVE  Basis'
  <1>1. /\ pc = "done" /\ pc' = "idle" /\ i' = 1 /\ numElems' = 0 /\ requestTime' = 0
        /\ buffs' = [c \in Chan |-> <<>>] /\ endBurst' = FALSE /\ ret' = 0 /\ misled' = FALSE
        /\ UNCHANGED <<board, active, stream, got, command, returned>>
    BY DEF Leave
  <1>2. buffs' \in [Chan -> Seq(Nat)] /\ i' \in 1..(Channels + 1)
    BY <1>1, TypeFacts DEF Basis
  <1>3. /\ endBurst' \in BOOLEAN /\ misled' \in BOOLEAN
        /\ ret' \in Int /\ numElems' \in Nat /\ requestTime' \in Nat
        /\ pc' \in {"idle", "start", "read", "done"}
    <2>1. endBurst' = FALSE /\ misled' = FALSE /\ ret' = 0 /\ numElems' = 0
          /\ requestTime' = 0 /\ pc' = "idle"
      BY <1>1
    <2>2. endBurst' \in BOOLEAN /\ misled' \in BOOLEAN
      BY <2>1
    <2>3. ret' \in Int /\ numElems' \in Nat /\ requestTime' \in Nat
      BY <2>1
    <2> QED
      BY <2>1, <2>2, <2>3
  <1>4. TypeInv'
    BY <1>1, <1>2, <1>3 DEF Basis, TypeInv, board, stream
  <1>5. CommandOK' /\ ActiveOK'
    BY <1>1 DEF Basis, CommandOK, ActiveOK, stream
  <1> QED
    BY <1>4, <1>5 DEF Basis

LEMMA StutterBasis ==
    ASSUME Basis, UNCHANGED vars
    PROVE  Basis'
  <1>1. TypeInv'
    BY DEF Basis, TypeInv, vars, board, stream, local, answer, history
  <1>2. CommandOK' /\ ActiveOK'
    BY DEF Basis, CommandOK, ActiveOK, vars, stream, local, history
  <1> QED
    BY <1>1, <1>2 DEF Basis

-----------------------------------------------------------------------------
\* The steps that read.

LEMMA WantingFacts ==
    ASSUME Basis, Wanting
    PROVE  /\ i \in Chan /\ i \in Nat /\ Missing \in Nat \ {0} /\ \A c \in Chan : active[c]
           /\ pc = "read" /\ numElems \in Nat \ {0} /\ requestTime \in Nat /\ ret \in Int
           /\ Channels \in Nat \ {0} /\ buffs \in [Chan -> Seq(Nat)]
           /\ fifo \in [Chan -> Seq(Nat)] /\ got \in Seq(Nat) /\ misled \in BOOLEAN
  <1>1. /\ i \in 1..(Channels + 1) /\ i <= Channels /\ pc = "read"
        /\ numElems \in Nat \ {0} /\ requestTime \in Nat /\ ret \in Int
        /\ misled \in BOOLEAN /\ \A c \in Chan : active[c]
    BY DEF Wanting, Basis, TypeInv, ActiveOK
  <1>2. /\ Channels \in Nat \ {0} /\ buffs \in [Chan -> Seq(Nat)]
        /\ fifo \in [Chan -> Seq(Nat)] /\ got \in Seq(Nat)
    BY TypeFacts DEF Basis
  <1>3. i \in Chan /\ i \in Nat
    BY <1>1, <1>2 DEF Chan
  <1>4. Len(buffs[i]) \in Nat
    BY <1>3, TypeFacts DEF Basis
  <1>5. Missing \in Nat \ {0}
    BY <1>1, <1>4 DEF Wanting, Missing
  <1> QED
    BY <1>1, <1>2, <1>3, <1>5

\* Where the loop goes on.
LEMMA Advances ==
    ASSUME Channels \in Nat \ {0}, NEW c \in Chan, NEW b \in [Chan -> Seq(Nat)],
           NEW wanted \in Nat, Advance(c, b, wanted)
    PROVE  /\ buffs' = b /\ numElems' = wanted
           /\ i' \in 1..(Channels + 1)
           /\ \/ i' = c
              \/ i' = c + 1 /\ Len(b[c]) >= wanted
           /\ Len(b[c]) >= wanted => i' = c + 1
  BY DEF Advance, Chan

\* The basis but for what a reading step changes.
LEMMA ReadingKeeps ==
    ASSUME Basis, pc = "read", pc' \in {"read", "done"},
           fifo' \in [Chan -> Seq(Nat)], got' \in Seq(Nat), misled' \in BOOLEAN,
           buffs' \in [Chan -> Seq(Nat)], numElems' \in Nat \ {0},
           i' \in 1..(Channels + 1), requestTime' \in Nat, ret' \in Int,
           UNCHANGED <<now, next, active, stream, endBurst, command, returned>>
    PROVE  Basis'
  <1>1. TypeInv'
    BY DEF Basis, TypeInv, stream
  <1>2. CommandOK'
    BY DEF Basis, CommandOK, stream
  <1>3. ActiveOK'
    BY DEF Basis, ActiveOK, stream
  <1> QED
    BY <1>1, <1>2, <1>3 DEF Basis

\* What pop_samples moves from the FIFO to the buffer: its first n samples.
Pops(c, n) ==
    /\ n \in 1..Len(fifo[c]) /\ Len(got) + n <= Missing
    /\ got' = got \o SubSeq(fifo[c], 1, n)
    /\ fifo' \in [Chan -> Seq(Nat)] /\ fifo'[c] = DropFirst(fifo[c], n)
    /\ \A d \in Chan : d # c => fifo'[d] = fifo[d]

LEMMA PopFacts ==
    ASSUME Basis, PopSamples, NEW c \in Chan, c = i
    PROVE  \E n \in Nat \ {0} : Pops(c, n)
  <1> DEFINE lack == Missing - Len(got)
             have == Len(fifo[c])
             n == Lesser(lack, have)
  <1>1. Wanting /\ fifo[c] # <<>> /\ Len(got) < Missing
    BY DEF PopSamples
  <1>2. /\ Missing \in Nat /\ Len(got) \in Nat /\ have \in Nat /\ have # 0
        /\ fifo \in [Chan -> Seq(Nat)] /\ fifo[c] \in Seq(Nat)
    <2>1. Missing \in Nat
      BY <1>1, WantingFacts
    <2>2. /\ Len(got) \in Nat /\ have \in Nat
          /\ fifo \in [Chan -> Seq(Nat)] /\ fifo[c] \in Seq(Nat)
      BY TypeFacts DEF Basis
    <2> QED
      BY <1>1, <2>1, <2>2
  <1>3. lack \in Nat \ {0}
    BY <1>1, <1>2
  <1>4. got' = got \o SubSeq(fifo[c], 1, n) /\ fifo' = [fifo EXCEPT ![c] = DropFirst(@, n)]
    BY DEF PopSamples
  <1>5. n <= lack /\ n <= have /\ (n = lack \/ n = have)
    <2> HIDE DEF lack, have
    <2> QED
      BY <1>2, <1>3, Least
  <1>6. n \in 1..have /\ n \in 0..have /\ Len(got) + n <= Missing
    <2>1. n \in Nat \ {0}
      BY <1>2, <1>3, <1>5
    <2> HIDE DEF n
    <2> QED
      BY <1>2, <1>5, <2>1
  <1> HIDE DEF n
  <1>7. DropFirst(fifo[c], n) \in Seq(Nat)
    BY <1>2, <1>6, Dropped
  <1>8. /\ fifo' \in [Chan -> Seq(Nat)] /\ fifo'[c] = DropFirst(fifo[c], n)
        /\ \A d \in Chan : d # c => fifo'[d] = fifo[d]
    BY <1>2, <1>4, <1>7
  <1>9. n \in Nat \ {0}
    BY <1>2, <1>6
  <1>10. Pops(c, n)
    BY <1>4, <1>6, <1>8 DEF Pops
  <1> QED
    BY <1>9, <1>10

LEMMA PopBasis ==
    ASSUME Basis, PopSamples
    PROVE  Basis'
  <1>1. /\ Wanting /\ UNCHANGED <<now, next, active, stream, endBurst, command, returned>>
        /\ UNCHANGED <<pc, i, numElems, requestTime, buffs, ret, misled>>
    BY DEF PopSamples, answer, history
  <1> PICK c \in Chan : c = i
    BY <1>1, WantingFacts
  <1> PICK n \in Nat \ {0} : Pops(c, n)
    BY PopFacts
  <1>2. fifo' \in [Chan -> Seq(Nat)] /\ got' \in Seq(Nat)
    <2>1. fifo[c] \in Seq(Nat) /\ got \in Seq(Nat) /\ n \in 1..Len(fifo[c])
      BY TypeFacts DEF Basis, Pops
    <2>2. SubSeq(fifo[c], 1, n) \in Seq(Nat)
      BY <2>1, Taken
    <2>3. got \o SubSeq(fifo[c], 1, n) \in Seq(Nat)
      BY <2>1, <2>2, Joined
    <2> QED
      BY <2>3 DEF Pops
  <1>3. /\ i \in 1..(Channels + 1) /\ numElems \in Nat \ {0} /\ pc = "read"
        /\ requestTime \in Nat /\ ret \in Int /\ buffs \in [Chan -> Seq(Nat)] /\ misled \in BOOLEAN
    BY <1>1, WantingFacts DEF Basis, TypeInv
  <1> QED
    BY <1>1, <1>2, <1>3, ReadingKeeps

\* What a Read returns with.
LEMMA ReturnedFacts ==
    ASSUME Basis, Returned
    PROVE  /\ Wanting /\ got \in Seq(Nat) /\ Len(got) \in Nat \ {0} /\ Stamp \in Nat
           /\ Stamp \in In(got) /\ got' = <<>> /\ got' \in Seq(Nat)
           /\ InARow <=> Runs(got, Stamp)
  <1>1. Wanting /\ got # <<>> /\ got' = <<>>
    BY DEF Returned
  <1>2. got \in Seq(Nat) /\ Len(got) \in Nat
    BY TypeFacts DEF Basis
  <1>3. Len(got) # 0
    BY <1>1, <1>2
  <1>4. 1 \in 1..Len(got)
    BY <1>2, <1>3
  <1>5. Stamp \in Nat /\ Stamp \in In(got)
    BY <1>2, <1>4 DEF Stamp, In
  <1>6. DOMAIN got = 1..Len(got)
    BY <1>2
  <1>7. InARow <=> Runs(got, Stamp)
    BY <1>6 DEF InARow, Runs
  <1> QED
    BY <1>1, <1>2, <1>3, <1>5, <1>7

LEMMA ReadOnBasis ==
    ASSUME Basis, ReadOn \/ ReadHead
    PROVE  Basis'
  <1>1. /\ Returned /\ UNCHANGED <<now, next, fifo, active>>
        /\ UNCHANGED <<stream, pc, ret, endBurst, command, returned>>
        /\ misled' \in BOOLEAN /\ requestTime' \in {Stamp, requestTime}
    BY DEF ReadOn, ReadHead, board, answer
  <1>2. /\ Wanting /\ got \in Seq(Nat) /\ Len(got) \in Nat \ {0} /\ Stamp \in Nat
        /\ got' \in Seq(Nat)
    BY <1>1, ReturnedFacts
  <1>3. /\ pc = "read" /\ buffs \in [Chan -> Seq(Nat)] /\ numElems \in Nat \ {0}
        /\ requestTime \in Nat /\ ret \in Int /\ Channels \in Nat \ {0}
        /\ fifo \in [Chan -> Seq(Nat)] /\ i \in Chan
    BY <1>2, WantingFacts
  <1> PICK c \in Chan : c = i
    BY <1>3
  <1> DEFINE b == [buffs EXCEPT ![c] = @ \o got]
  <1>4. b \in [Chan -> Seq(Nat)]
    <2>1. buffs[c] \o got \in Seq(Nat)
      BY <1>2, <1>3, Joined
    <2> QED
      BY <1>3, <2>1
  <1>5. PICK wanted \in Nat \ {0} : Advance(c, b, wanted)
    BY <1>2, <1>3 DEF ReadOn, ReadHead
  <1> HIDE DEF b
  <1>6. buffs' \in [Chan -> Seq(Nat)] /\ numElems' \in Nat \ {0} /\ i' \in 1..(Channels + 1)
    BY <1>3, <1>4, <1>5, Advances
  <1>7. fifo' \in [Chan -> Seq(Nat)] /\ requestTime' \in Nat /\ pc' = "read" /\ ret' \in Int
    BY <1>1, <1>2, <1>3
  <1> QED
    BY <1>1, <1>2, <1>3, <1>6, <1>7, ReadingKeeps

\* The buffers after a late Read.
LEMMA ForwardedFacts ==
    ASSUME Basis, Wanting, got \in Seq(Nat), Stamp \in Nat, Stamp >= requestTime,
           NEW q \in Chan, q = i
    PROVE  /\ Forwarded \in [Chan -> Seq(Nat)]
           /\ Forwarded[q] = got
           /\ \A c \in Chan : /\ c < q => Forwarded[c] = FastForward(buffs[c], requestTime, Stamp)
                              /\ c > q => Forwarded[c] = buffs[c]
  <1>1. /\ buffs \in [Chan -> Seq(Nat)] /\ requestTime \in Nat /\ q \in Nat
    BY WantingFacts
  <1>2. \A c \in Chan : FastForward(buffs[c], requestTime, Stamp) \in Seq(Nat)
    <2> SUFFICES ASSUME NEW c \in Chan
                 PROVE  FastForward(buffs[c], requestTime, Stamp) \in Seq(Nat)
      OBVIOUS
    <2>1. buffs[c] \in Seq(Nat) /\ requestTime \in Int /\ Stamp \in Int
      BY <1>1
    <2> QED
      BY <2>1, Forwards
  <1>3. Forwarded \in [Chan -> Seq(Nat)]
    BY <1>1, <1>2 DEF Forwarded
  <1>4. \A c \in Chan : Forwarded[c] = IF c < i THEN FastForward(buffs[c], requestTime, Stamp)
                                       ELSE IF c = i THEN got ELSE buffs[c]
    BY DEF Forwarded
  <1>5. ~(q < q) /\ \A c \in Chan : (c > q => ~(c < q) /\ c # q)
    BY <1>1 DEF Chan
  <1> QED
    BY <1>3, <1>4, <1>5

LEMMA ReadLateBasis ==
    ASSUME Basis, ReadLate
    PROVE  Basis'
  <1>1. /\ Returned /\ UNCHANGED <<now, next, fifo, active>>
        /\ UNCHANGED <<stream, pc, ret, endBurst, command, returned>>
        /\ misled' \in BOOLEAN /\ requestTime' = Stamp
        /\ Advance(1, Forwarded, Len(got)) /\ Stamp > Expected
    BY DEF ReadLate, board, answer
  <1>2. /\ Wanting /\ got \in Seq(Nat) /\ Len(got) \in Nat \ {0} /\ Stamp \in Nat
        /\ got' \in Seq(Nat)
    BY <1>1, ReturnedFacts
  <1>3. /\ pc = "read" /\ buffs \in [Chan -> Seq(Nat)]
        /\ requestTime \in Nat /\ ret \in Int /\ Channels \in Nat \ {0}
        /\ fifo \in [Chan -> Seq(Nat)] /\ i \in Chan /\ 1 \in Chan
    BY <1>2, WantingFacts DEF Chan
  <1>4. Stamp >= requestTime
    <2>1. Len(buffs[i]) \in Nat
      BY <1>3, TypeFacts DEF Basis
    <2> QED
      BY <1>1, <1>2, <1>3, <2>1 DEF Expected
  <1>5. Forwarded \in [Chan -> Seq(Nat)]
    BY <1>2, <1>3, <1>4, ForwardedFacts
  <1>6. buffs' \in [Chan -> Seq(Nat)] /\ numElems' \in Nat \ {0} /\ i' \in 1..(Channels + 1)
    BY <1>1, <1>2, <1>3, <1>5, Advances
  <1>7. fifo' \in [Chan -> Seq(Nat)] /\ requestTime' \in Nat /\ pc' = "read" /\ ret' \in Int
    BY <1>1, <1>2, <1>3
  <1> QED
    BY <1>1, <1>2, <1>3, <1>6, <1>7, ReadingKeeps

\* An early Read: it gives up, or it forwards what it has read and goes on.
GivesUp == ret' = Corruption /\ pc' = "done" /\ UNCHANGED <<i, numElems, buffs>>
CatchesUp(c, left, wanted) ==
    /\ left = FastForward(got, Stamp, requestTime)
    /\ wanted = IF c = 1 /\ left # <<>> THEN Len(left) ELSE numElems
    /\ Advance(c, [buffs EXCEPT ![c] = left], wanted)
    /\ buffs[c] = <<>> /\ UNCHANGED <<ret, pc>>

LEMMA EarlyFacts ==
    ASSUME Basis, ReadEarly, NEW c \in Chan, c = i
    PROVE  \/ GivesUp
           \/ \E left \in Seq(Nat), wanted \in Nat \ {0} : CatchesUp(c, left, wanted)
  <1>1. Returned /\ requestTime # 0 /\ Stamp < requestTime + Len(buffs[c])
    BY DEF ReadEarly, Expected
  <1>2. Wanting /\ got \in Seq(Nat) /\ Len(got) \in Nat \ {0} /\ Stamp \in Nat
    BY <1>1, ReturnedFacts
  <1>3. numElems \in Nat \ {0} /\ requestTime \in Nat /\ buffs[c] \in Seq(Nat)
    BY <1>2, WantingFacts
  <1>4. CASE buffs[c] # <<>>
    BY <1>4 DEF ReadEarly, GivesUp
  <1>5. CASE buffs[c] = <<>>
    <2> DEFINE left == FastForward(got, Stamp, requestTime)
               wanted == IF c = 1 /\ left # <<>> THEN Len(left) ELSE numElems
    <2>1. requestTime >= Stamp /\ Stamp \in Int /\ requestTime \in Int
      BY <1>1, <1>2, <1>3, <1>5
    <2>2. left \in Seq(Nat)
      BY <1>2, <2>1, Forwards
    <2>3. Len(left) \in Nat /\ (left # <<>> => Len(left) # 0)
      BY <2>2
    <2>4. wanted \in Nat \ {0}
      BY <1>3, <2>3
    <2>5. Advance(c, [buffs EXCEPT ![c] = left], wanted) /\ UNCHANGED <<ret, pc>>
      BY <1>5 DEF ReadEarly
    <2>6. CatchesUp(c, left, wanted)
      BY <1>5, <2>5 DEF CatchesUp
    <2> QED
      BY <2>2, <2>4, <2>6
  <1> QED
    BY <1>4, <1>5

LEMMA ReadEarlyBasis ==
    ASSUME Basis, ReadEarly
    PROVE  Basis'
  <1>1. /\ Returned /\ UNCHANGED <<now, next, fifo, active>>
        /\ UNCHANGED <<stream, requestTime, endBurst, command, returned>>
        /\ misled' \in BOOLEAN
    BY DEF ReadEarly, board
  <1>2. Wanting /\ got' \in Seq(Nat)
    BY <1>1, ReturnedFacts
  <1>3. /\ pc = "read" /\ buffs \in [Chan -> Seq(Nat)] /\ numElems \in Nat \ {0}
        /\ requestTime \in Nat /\ ret \in Int /\ Channels \in Nat \ {0}
        /\ fifo \in [Chan -> Seq(Nat)] /\ i \in Chan
    BY <1>2, WantingFacts
  <1>4. fifo' \in [Chan -> Seq(Nat)] /\ requestTime' \in Nat
    BY <1>1, <1>3
  <1> PICK c \in Chan : c = i
    BY <1>3
  <1>5. CASE GivesUp
    <2>1. /\ pc' = "done" /\ ret' \in Int /\ i' \in 1..(Channels + 1)
          /\ numElems' \in Nat \ {0} /\ buffs' \in [Chan -> Seq(Nat)]
      BY <1>3, <1>5 DEF GivesUp, Corruption, Basis, TypeInv
    <2> QED
      BY <1>1, <1>2, <1>3, <1>4, <2>1, ReadingKeeps
  <1>6. CASE \E left \in Seq(Nat), wanted \in Nat \ {0} : CatchesUp(c, left, wanted)
    <2> PICK left \in Seq(Nat), wanted \in Nat \ {0} : CatchesUp(c, left, wanted)
      BY <1>6
    <2>1. Advance(c, [buffs EXCEPT ![c] = left], wanted) /\ UNCHANGED <<ret, pc>>
      BY DEF CatchesUp
    <2>2. [buffs EXCEPT ![c] = left] \in [Chan -> Seq(Nat)]
      BY <1>3
    <2>3. /\ buffs' \in [Chan -> Seq(Nat)] /\ numElems' \in Nat \ {0}
          /\ i' \in 1..(Channels + 1)
      BY <1>3, <2>1, <2>2, Advances
    <2> QED
      BY <1>1, <1>2, <1>3, <1>4, <2>1, <2>3, ReadingKeeps
  <1> QED
    BY <1>5, <1>6, EarlyFacts

\* What Return makes of the burst when it returns n samples.
Returning(n) ==
    /\ pc = "read" /\ pc' = "done" /\ hasCmd /\ i > Channels
    /\ ret' = n /\ returned' = returned + n
    /\ timed => timeTicks = requestTime
    /\ hasCmd' \in BOOLEAN /\ timed' = FALSE /\ burst' \in Nat
    /\ endBurst' \in BOOLEAN /\ (endBurst' <=> ~hasCmd' \/ endBurst)
    /\ burst = 0 => hasCmd' /\ burst' = 0
    /\ burst # 0 => n <= burst /\ burst' = burst - n /\ (hasCmd' <=> n # burst)
    /\ UNCHANGED <<board, active, timeTicks, local, command, misled>>

LEMMA ReturnFacts ==
    ASSUME Basis, Return
    PROVE  \E n \in 1..numElems : Returning(n)
  <1> DEFINE n == IF burst = 0 THEN numElems ELSE Lesser(numElems, burst)
  <1>1. /\ pc = "read" /\ pc' = "done" /\ hasCmd /\ i > Channels
        /\ numElems \in Nat \ {0} /\ burst \in Nat
    BY DEF Return, Aligned, Basis, TypeInv, ActiveOK
  <1>2. /\ n \in 1..numElems
        /\ burst # 0 => n <= burst
    <2>1. CASE burst = 0
      BY <1>1, <2>1
    <2>2. CASE burst # 0
      BY <1>1, <2>2 DEF Lesser
    <2> QED
      BY <2>1, <2>2
  <1>3. /\ timed' = FALSE /\ ret' = n /\ returned' = returned + n
        /\ burst' = IF burst = 0 THEN 0 ELSE burst - n
        /\ (timed => timeTicks = requestTime)
        /\ UNCHANGED <<board, active, timeTicks, local, command, misled>>
    BY DEF Return
  <1>4. /\ hasCmd' = ~(burst # 0 /\ n = burst)
        /\ endBurst' = ((burst # 0 /\ n = burst) \/ endBurst)
    BY DEF Return
  <1> HIDE DEF n
  <1>5. /\ burst = 0 => burst' = 0
        /\ burst # 0 => burst' = burst - n
        /\ burst' \in Nat
    BY <1>1, <1>2, <1>3
  <1>6. /\ hasCmd' \in BOOLEAN
        /\ burst = 0 => hasCmd'
        /\ burst # 0 => (hasCmd' <=> n # burst)
    BY <1>4
  <1>7. endBurst' \in BOOLEAN /\ (endBurst' <=> ~hasCmd' \/ endBurst)
    BY <1>4
  <1>8. Returning(n)
    BY <1>1, <1>2, <1>3, <1>5, <1>6, <1>7 DEF Returning
  <1> QED
    BY <1>2, <1>8

LEMMA ReturnBasis ==
    ASSUME Basis, Return
    PROVE  Basis'
  <1> PICK n \in 1..numElems : Returning(n)
    BY ReturnFacts
  <1>1. /\ returned \in Nat /\ numElems \in Nat /\ burst \in Nat /\ command.numElems \in Nat
        /\ n \in Nat \ {0}
    BY DEF Basis, TypeInv
  <1>2. /\ ret' = n /\ returned' = returned + n /\ pc = "read" /\ pc' = "done" /\ hasCmd
        /\ UNCHANGED <<board, active, timeTicks, local, command, misled>>
    BY DEF Returning
  <1>3. ret' \in Int /\ returned' \in Nat /\ returned' # 0
    BY <1>1, <1>2
  <1>5. TypeInv'
    BY <1>2, <1>3 DEF Basis, TypeInv, Returning, board, local
  <1>6. CommandOK'
    <2>1. timeTicks' = command.ticks /\ ~timed'
      BY DEF Basis, CommandOK, Returning
    <2>2. CASE command.numElems = 0
      <3>1. burst = 0 /\ burst' = 0
        BY <1>2, <2>2 DEF Basis, CommandOK, Returning
      <3> QED
        BY <1>2, <1>3, <2>1, <2>2, <3>1 DEF CommandOK
    <2>3. CASE command.numElems # 0
      <3>1. burst # 0 /\ returned + burst = command.numElems
        BY <1>1, <1>2, <2>3 DEF Basis, CommandOK
      <3>2. n <= burst /\ burst' = burst - n /\ (hasCmd' => n # burst)
        BY <3>1 DEF Returning
      <3>3. returned' <= command.numElems
        BY <1>1, <1>2, <3>1, <3>2
      <3>4. n # burst => burst' > 0 /\ returned' + burst' = command.numElems
        BY <1>1, <1>2, <3>1, <3>2
      <3> QED
        BY <1>2, <1>3, <2>1, <2>3, <3>2, <3>3, <3>4 DEF CommandOK
    <2> QED
      BY <2>2, <2>3
  <1>7. ActiveOK'
    BY <1>2 DEF Basis, ActiveOK
  <1> QED
    BY <1>5, <1>6, <1>7 DEF Basis

LEMMA BasisStep ==
    ASSUME Basis, [Next]_vars
    PROVE  Basis'
  <1>1. CASE Receive \/ Drop
    BY <1>1, BoardBasis
  <1>2. CASE \E cmd \in Commands : Activate(cmd)
    BY <1>2, ActivateBasis
  <1>3. CASE Start
    BY <1>3, StartBasis
  <1>4. CASE Deactivate
    BY <1>4, DeactivateBasis
  <1>5. CASE \E count \in Counts : ReadStream(count)
    BY <1>5, ReadStreamBasis
  <1>6. CASE Skip
    BY <1>6, SkipBasis
  <1>7. CASE ReadOn \/ ReadHead
    BY <1>7, ReadOnBasis
  <1>8. CASE ReadEarly
    BY <1>8, ReadEarlyBasis
  <1>9. CASE ReadLate
    BY <1>9, ReadLateBasis
  <1>10. CASE NoCommand \/ ReadNothing \/ RefuseTime
    BY <1>10, RefusalBasis
  <1>11. CASE Return
    BY <1>11, ReturnBasis
  <1>12. CASE Leave
    BY <1>12, LeaveBasis
  <1>13. CASE UNCHANGED vars
    BY <1>13, StutterBasis
  <1>14. CASE PopSamples
    BY <1>14, PopBasis
  <1> QED
    BY <1>1, <1>2, <1>3, <1>4, <1>5, <1>6, <1>7, <1>8, <1>9, <1>10, <1>11, <1>12, <1>13,
       <1>14
    DEF Next, CallStep

\* The types, the command and the order of the channels are always right.
THEOREM BasisHolds == Spec => []Basis
  <1>1. Init => Basis
    BY BasisInit
  <1>2. Basis /\ [Next]_vars => Basis'
    BY BasisStep
  <1> QED
    BY <1>1, <1>2, PTL DEF Spec


-----------------------------------------------------------------------------
\* Bursts.

BurstOK ==
    LET complete == command.numElems # 0 /\ returned = command.numElems
    IN  /\ pc = "read" => ~endBurst
        /\ pc = "done" /\ ret > 0 => (endBurst <=> complete)

LEMMA BurstStep ==
    ASSUME StackBits = {FALSE}, Basis, BurstOK, [Next]_vars
    PROVE  BurstOK'
  <1>1. CASE Receive \/ Drop \/ UNCHANGED vars
    BY <1>1 DEF Receive, Drop, vars, BurstOK, answer, history
  <1>2. CASE \/ \E cmd \in Commands : Activate(cmd)
             \/ Start \/ Deactivate \/ Leave
    <2>1. pc' \in {"start", "idle"}
      BY <1>2 DEF Activate, Start, Deactivate, Leave
    <2> QED
      BY <2>1 DEF BurstOK
  <1>3. CASE \E count \in Counts : ReadStream(count)
    BY <1>3 DEF ReadStream, BurstOK
  <1>4. CASE Skip \/ PopSamples \/ ReadOn \/ ReadHead \/ ReadLate
    <2>1. pc = "read" /\ pc' = "read" /\ endBurst' = endBurst
      BY <1>4 DEF Skip, PopSamples, ReadOn, ReadHead, ReadLate, Returned, Wanting, answer
    <2> QED
      BY <2>1 DEF BurstOK
  <1>5. CASE ReadEarly
    <2>1. /\ pc = "read" /\ endBurst' = endBurst
          /\ pc' = "read" \/ (pc' = "done" /\ ret' = -3)
      BY <1>5 DEF ReadEarly, Returned, Wanting, Corruption
    <2> QED
      BY <2>1 DEF BurstOK
  <1>6. CASE NoCommand \/ ReadNothing \/ RefuseTime
    <2>1. pc' = "done" /\ ret' \in {-1, -2, -4}
      BY <1>6 DEF NoCommand, ReadNothing, RefuseTime, Timeout, TimeError, StreamError
    <2> QED
      BY <2>1 DEF BurstOK
  <1>7. CASE Return
    <2> PICK n \in 1..numElems : Returning(n)
      BY <1>7, ReturnFacts
    <2>1. /\ returned \in Nat /\ burst \in Nat /\ command.numElems \in Nat /\ n \in Nat \ {0}
          /\ command.numElems = 0 => burst = 0
          /\ command.numElems # 0 => burst > 0 /\ returned + burst = command.numElems
      BY DEF Basis, TypeInv, CommandOK, Returning
    <2>2. returned' = returned + n /\ command' = command /\ pc' = "done"
      BY DEF Returning
    <2>3. endBurst' <=> ~hasCmd'
      BY DEF BurstOK, Returning
    <2>4. ~hasCmd' <=> (burst # 0 /\ n = burst)
      BY DEF Returning
    <2>5. (burst # 0 /\ n = burst) <=> (command.numElems # 0 /\ returned' = command.numElems)
      BY <2>1, <2>2
    <2> QED
      BY <2>2, <2>3, <2>4, <2>5 DEF BurstOK
  <1> QED
    BY <1>1, <1>2, <1>3, <1>4, <1>5, <1>6, <1>7 DEF Next, CallStep

\* Whatever the channels, sizes and commands are, a burst ends with its last sample, and
\* END_BURST is on that; if the flags begin cleared.
THEOREM BurstsEnd ==
    ASSUME StackBits = {FALSE}
    PROVE  Spec => []EndBurstOnLast
  <1>1. Init => BurstOK
    BY DEF Init, BurstOK
  <1>2. Basis /\ BurstOK /\ [Next]_vars => BurstOK'
    BY BurstStep
  <1>3. Basis /\ BurstOK => EndBurstOnLast
    BY DEF Basis, TypeInv, CommandOK, BurstOK, EndBurstOnLast
  <1> QED
    BY <1>1, <1>2, <1>3, BasisHolds, PTL DEF Spec

-----------------------------------------------------------------------------
\* What the FIFOs hold: later and later samples and, as long as none overflows but the
\* one that is read last, all that a channel after it has and has not been read of it.

\* A sample that channel a holds or is about to be given with the current packet.
IsCurrent(t) == next > 1 /\ t \in Packet
IsOwed(a, t) == t \in In(fifo[a]) \/ (IsCurrent(t) /\ next <= a)

\* A sample before all that channel a holds and will be given.
IsPast(a, t) == t < Upcoming(a) /\ \A x \in In(fifo[a]) : t < x

\* A sample that was sent to the channels, as far as those after a show.
IsBehind(a, t) == IsCurrent(t) \/ \E b \in Chan : b > a /\ active[b] /\ t \in In(fifo[b])

FifosRise ==
    \A c \in Chan : active[c] => Rising(fifo[c]) /\ \A x \in In(fifo[c]) : x < Upcoming(c)

FifosAgree ==
    \A a \in Chan : active[a] /\ a < Channels =>
        \A t \in Nat : IsBehind(a, t) => IsOwed(a, t) \/ IsPast(a, t)

\* What a Read has taken so far is in order too, and nothing is lost between it and the FIFO.
GotRises ==
    got # <<>> => /\ Wanting /\ Len(got) <= Missing /\ Rising(got)
                  /\ \A x \in In(got) : x < Upcoming(i) /\ \A y \in In(fifo[i]) : x < y

GotAgrees ==
    got # <<>> /\ i < Channels =>
        \A t \in Nat : IsBehind(i, t) => IsOwed(i, t) \/ t \in In(got) \/ t < got[1]

Order == FifosRise /\ FifosAgree /\ GotRises /\ GotAgrees

LEMMA InNat ==
    ASSUME NEW s \in Seq(Nat)
    PROVE  In(s) \subseteq Nat
  BY DEF In

LEMMA OrderInit == Init => Order
  <1> SUFFICES ASSUME Init PROVE Order
    OBVIOUS
  <1>1. got = <<>> /\ \A c \in Chan : ~active[c]
    BY DEF Init
  <1> QED
    BY <1>1 DEF Order, FifosRise, FifosAgree, GotRises, GotAgrees

\* What a step of the board may do to how channel a stands to sample t.
Keeps(a, t) ==
    /\ IsPast(a, t) => IsPast(a, t)'
    /\ a < Channels => /\ IsOwed(a, t) => IsOwed(a, t)'
                       /\ IsCurrent(t)' => IsCurrent(t) \/ IsOwed(a, t)'

\* What a packet, received or lost, does to one channel.
LEMMA BoardStep ==
    ASSUME MayOverflow \subseteq {Channels}, Basis, FifosRise, Receive \/ Drop,
           NEW a \in Chan, active[a]
    PROVE  /\ Upcoming(a)' >= Upcoming(a) /\ Upcoming(a)' \in Nat
           /\ Rising(fifo'[a]) /\ \A x \in In(fifo'[a]) : x < Upcoming(a)'
           /\ \A x \in In(fifo'[a]) : x \in In(fifo[a]) \/ x >= Upcoming(a)
           /\ a > 1 => \A x \in In(fifo'[a]) : x \in In(fifo[a]) \/ IsCurrent(x)
           /\ \A t \in Nat : Keeps(a, t)
  <1>1. /\ Channels \in Nat \ {0} /\ PktSize \in Nat \ {0} /\ now \in Nat /\ next \in 1..Channels
        /\ now' \in Nat /\ next' \in 1..Channels /\ a \in 1..Channels /\ next \in Chan
        /\ Upcoming(a) \in Nat /\ fifo[a] \in Seq(Nat) /\ active' = active
    BY TypeFacts, ReceiveUpcoming DEF Basis, Chan, Receive, Drop
  <1>2. Rising(fifo[a]) /\ \A x \in In(fifo[a]) : x < Upcoming(a) /\ x \in Nat
    BY <1>1, InNat DEF FifosRise
  <1>3. \A t \in Packet : t \in Nat /\ t >= now /\ t < now + PktSize
    BY <1>1 DEF Packet
  <1>4. CASE Drop
    <2>1. next = 1 /\ next' = 1 /\ now' = now + PktSize /\ fifo' = fifo
      BY <1>4, ReceiveUpcoming DEF Basis, Drop
    <2>2. Upcoming(a) = now /\ Upcoming(a)' = now + PktSize
      BY <1>1, <2>1 DEF Upcoming
    <2>3. \A t \in Nat : ~IsCurrent(t) /\ ~IsCurrent(t)'
      BY <2>1 DEF IsCurrent
    <2>4. \A t \in Nat : IsPast(a, t) => IsPast(a, t)'
      BY <1>1, <2>1, <2>2 DEF IsPast, In
    <2>5. ASSUME NEW x \in In(fifo'[a])
          PROVE  x < now + PktSize
      <3>1. x \in Nat /\ x < now
        BY <1>2, <2>1, <2>2
      <3> QED
        BY <1>1, <3>1
    <2>6. \A t \in Nat : IsOwed(a, t) => IsOwed(a, t)'
      BY <2>1, <2>3 DEF IsOwed, In
    <2>7. \A t \in Nat : Keeps(a, t)
      BY <2>3, <2>4, <2>6 DEF Keeps
    <2> QED
      BY <1>1, <1>2, <2>1, <2>2, <2>5, <2>7
  <1>5. CASE Receive
    <2>1. /\ next' = IF next = Channels THEN 1 ELSE next + 1
          /\ now' = IF next = Channels THEN now + PktSize ELSE now
      BY <1>5, ReceiveUpcoming DEF Basis
    <2>2. Upcoming(a)' = IF a = next THEN now + PktSize ELSE Upcoming(a)
      BY <1>1, <2>1 DEF Upcoming
    <2>3. a = next => Upcoming(a) = now
      BY <1>1 DEF Upcoming
    <2>4. CASE a = next
      <3>1. PushPacket(a) /\ (a < Channels => HasRoom(a))
        BY <1>1, <1>5, <2>4 DEF Receive
      <3>2. \A x \in In(fifo[a]) : x < now
        BY <1>2, <2>3, <2>4
      <3>3. /\ In(fifo'[a]) \subseteq In(fifo[a]) \cup Packet
            /\ HasRoom(a) => In(fifo[a]) \subseteq In(fifo'[a])
            /\ Packet \subseteq In(fifo'[a]) /\ Rising(fifo'[a])
        BY <1>2, <3>1, <3>2, PushedPacket DEF Basis
      <3>4. \A x \in In(fifo'[a]) : x < now + PktSize /\ (x \in In(fifo[a]) \/ x >= now)
        <4> SUFFICES ASSUME NEW x \in In(fifo'[a])
                     PROVE  x < now + PktSize /\ (x \in In(fifo[a]) \/ x >= now)
          OBVIOUS
        <4>1. CASE x \in In(fifo[a])
          <5>1. x < now /\ x \in Nat
            BY <1>2, <3>2, <4>1
          <5> QED
            BY <1>1, <4>1, <5>1
        <4>2. CASE x \in Packet
          BY <1>3, <4>2
        <4> QED
          BY <3>3, <4>1, <4>2
      <3>5. a > 1 => \A x \in In(fifo'[a]) : x \in In(fifo[a]) \/ IsCurrent(x)
        BY <2>4, <3>3 DEF IsCurrent
      <3>6. ASSUME NEW t \in Nat, IsPast(a, t)
            PROVE  IsPast(a, t)'
        <4>1. t < now /\ \A x \in In(fifo[a]) : t < x
          BY <2>3, <2>4, <3>6 DEF IsPast
        <4>2. \A x \in In(fifo'[a]) : t < x
          <5> SUFFICES ASSUME NEW x \in In(fifo'[a])
                       PROVE  t < x
            OBVIOUS
          <5>1. CASE x \in In(fifo[a])
            BY <4>1, <5>1
          <5>2. CASE x \in Packet
            BY <1>1, <1>3, <4>1, <5>2
          <5> QED
            BY <3>3, <5>1, <5>2
        <4>3. t < Upcoming(a)'
          BY <1>1, <2>2, <2>4, <4>1
        <4> QED
          BY <4>2, <4>3 DEF IsPast, In
      <3>7. ASSUME a < Channels, NEW t \in Nat
            PROVE  /\ IsOwed(a, t) => IsOwed(a, t)'
                   /\ IsCurrent(t)' => IsCurrent(t) \/ IsOwed(a, t)'
        <4>1. In(fifo[a]) \cup Packet \subseteq In(fifo'[a])
          BY <3>1, <3>3, <3>7
        <4>2. next # Channels /\ now' = now
          BY <1>1, <2>1, <2>4, <3>7
        <4>3. Packet' = Packet
          BY <4>2 DEF Packet
        <4> QED
          BY <4>1, <4>3 DEF IsOwed, IsCurrent, In
      <3>8. \A t \in Nat : Keeps(a, t)
        BY <3>6, <3>7 DEF Keeps
      <3> QED
        BY <1>1, <2>2, <2>3, <2>4, <3>3, <3>4, <3>5, <3>8
    <2>5. CASE a # next
      <3>1. fifo'[a] = fifo[a]
        <4>1. CASE active[next]
          <5>1. PushPacket(next) /\ fifo \in [Chan -> Seq(Nat)]
            BY <1>5, <4>1, TypeFacts DEF Receive, Basis
          <5> QED
            BY <1>1, <2>5, <5>1 DEF PushPacket
        <4>2. CASE ~active[next]
          BY <1>5, <4>2 DEF Receive
        <4> QED
          BY <4>1, <4>2
      <3>2. Upcoming(a)' = Upcoming(a)
        BY <2>2, <2>5
      <3>3. \A t \in Nat : IsPast(a, t) => IsPast(a, t)'
        BY <3>1, <3>2 DEF IsPast, In
      <3>4. ASSUME a < Channels, NEW t \in Nat
            PROVE  /\ IsOwed(a, t) => IsOwed(a, t)'
                   /\ IsCurrent(t)' => IsCurrent(t) \/ IsOwed(a, t)'
        <4>1. CASE next = Channels
          <5>1. ~(next <= a) /\ next' = 1
            BY <1>1, <2>1, <3>4, <4>1
          <5> QED
            BY <3>1, <5>1 DEF IsOwed, IsCurrent, In
        <4>2. CASE next # Channels
          <5>1. now' = now /\ next' = next + 1 /\ (next <= a => next' <= a)
            BY <1>1, <2>1, <2>5, <4>2
          <5>2. Packet' = Packet
            BY <5>1 DEF Packet
          <5>3. IsOwed(a, t) => IsOwed(a, t)'
            <6>1. CASE t \in In(fifo[a])
              BY <3>1, <6>1 DEF IsOwed, In
            <6>2. CASE next > 1 /\ t \in Packet /\ next <= a
              <7>1. next' > 1
                BY <1>1, <5>1, <6>2
              <7> QED
                BY <5>1, <5>2, <6>2, <7>1 DEF IsOwed, IsCurrent
            <6> QED
              BY <6>1, <6>2 DEF IsOwed, IsCurrent
          <5>4. IsCurrent(t)' => IsCurrent(t) \/ IsOwed(a, t)'
            <6>1. CASE next > 1
              BY <5>2, <6>1 DEF IsCurrent
            <6>2. CASE next = 1
              <7>1. next' <= a
                BY <1>1, <2>5, <5>1, <6>2
              <7> QED
                BY <7>1 DEF IsOwed, IsCurrent
            <6> QED
              BY <1>1, <6>1, <6>2
          <5> QED
            BY <5>3, <5>4
        <4> QED
          BY <4>1, <4>2
      <3>5. \A x \in In(fifo'[a]) : x \in In(fifo[a])
        BY <3>1
      <3>6. \A x \in In(fifo'[a]) : x < Upcoming(a)'
        BY <1>2, <3>1, <3>2
      <3>7. Rising(fifo'[a])
        BY <1>2, <3>1
      <3>8. \A t \in Nat : Keeps(a, t)
        BY <3>3, <3>4 DEF Keeps
      <3> QED
        BY <1>1, <3>2, <3>5, <3>6, <3>7, <3>8
    <2> QED
      BY <2>4, <2>5
  <1> QED
    BY <1>4, <1>5

\* What the channels after a show anew is what a is given too.
LEMMA BoardBehind ==
    ASSUME MayOverflow \subseteq {Channels}, Basis, FifosRise, Receive \/ Drop,
           NEW a \in Chan, active[a], a < Channels, NEW t \in Nat, IsBehind(a, t)'
    PROVE  IsBehind(a, t) \/ IsOwed(a, t)'
  <1>1. active' = active /\ Channels \in Nat
    BY TypeFacts DEF Basis, Receive, Drop
  <1>2. CASE IsCurrent(t)'
    <2>1. Keeps(a, t)
      BY BoardStep
    <2> QED
      BY <1>2, <2>1 DEF IsBehind, Keeps
  <1>3. CASE \E b \in Chan : b > a /\ active'[b] /\ t \in In(fifo'[b])
    <2> PICK b \in Chan : b > a /\ active'[b] /\ t \in In(fifo'[b])
      BY <1>3
    <2>1. b > 1 /\ active[b]
      BY <1>1 DEF Chan
    <2>2. t \in In(fifo[b]) \/ IsCurrent(t)
      BY <2>1, BoardStep
    <2> QED
      BY <2>1, <2>2 DEF IsBehind
  <1> QED
    BY <1>2, <1>3 DEF IsBehind, In

LEMMA BoardOrder ==
    ASSUME MayOverflow \subseteq {Channels}, Basis, Order, Receive \/ Drop
    PROVE  Order'
  <1>1. /\ active' = active /\ got' = got /\ i' = i /\ pc' = pc
        /\ buffs' = buffs /\ numElems' = numElems
    BY DEF Receive, Drop, local
  <1>2. FifosRise'
    BY <1>1, BoardStep DEF Order, FifosRise
  <1>3. FifosAgree'
    <2> SUFFICES ASSUME NEW a \in Chan, active[a], a < Channels, NEW t \in Nat, IsBehind(a, t)'
                 PROVE  IsOwed(a, t)' \/ IsPast(a, t)'
      BY <1>1 DEF FifosAgree
    <2>1. IsBehind(a, t) => IsOwed(a, t) \/ IsPast(a, t)
      BY DEF Order, FifosAgree
    <2>2. (IsOwed(a, t) => IsOwed(a, t)') /\ (IsPast(a, t) => IsPast(a, t)')
      <3>1. Keeps(a, t)
        BY BoardStep DEF Order
      <3> QED
        BY <3>1 DEF Keeps
    <2>3. IsBehind(a, t) \/ IsOwed(a, t)'
      BY BoardBehind DEF Order
    <2> QED
      BY <2>1, <2>2, <2>3
  <1>4. CASE got = <<>>
    BY <1>1, <1>2, <1>3, <1>4 DEF Order, GotRises, GotAgrees
  <1>5. CASE got # <<>>
    <2>1. /\ Wanting /\ Len(got) <= Missing /\ Rising(got)
          /\ \A x \in In(got) : x < Upcoming(i) /\ \A y \in In(fifo[i]) : x < y
      BY <1>5 DEF Order, GotRises
    <2>2. i \in Chan /\ active[i] /\ got \in Seq(Nat)
      BY <2>1, WantingFacts
    <2> PICK q \in Chan : q = i
      BY <2>2
    <2>3. /\ Upcoming(q)' >= Upcoming(q) /\ Upcoming(q)' \in Nat /\ Upcoming(q) \in Nat
          /\ \A x \in In(fifo'[q]) : x \in In(fifo[q]) \/ x >= Upcoming(q)
      BY <2>2, BoardStep, TypeFacts DEF Order, Basis
    <2>4. fifo'[q] \in Seq(Nat)
      BY BoardBasis, TypeFacts DEF Basis, TypeInv
    <2>5. ASSUME NEW x \in In(got)
          PROVE  x < Upcoming(q)' /\ \A y \in In(fifo'[q]) : x < y
      <3>1. x \in Nat /\ x < Upcoming(q) /\ \A y \in In(fifo[q]) : x < y
        BY <2>1, <2>2, InNat
      <3>2. x < Upcoming(q)'
        BY <2>3, <3>1
      <3>3. ASSUME NEW y \in In(fifo'[q]) PROVE x < y
        <4>1. y \in Nat
          BY <2>4, InNat
        <4>2. CASE y \in In(fifo[q])
          BY <3>1, <4>2
        <4>3. CASE y >= Upcoming(q)
          BY <2>3, <3>1, <4>1, <4>3
        <4> QED
          BY <2>3, <4>2, <4>3
      <3> QED
        BY <3>2, <3>3
    <2>6. Wanting' /\ Missing' = Missing
      BY <1>1, <2>1 DEF Wanting, Missing
    <2>7. GotRises'
      <3>1. \A x \in In(got') : x < Upcoming(i)' /\ \A y \in In(fifo'[i']) : x < y
        BY <1>1, <2>5
      <3> QED
        BY <1>1, <2>1, <2>5, <2>6 DEF GotRises, In, Rising, Upcoming
    <2>8. GotAgrees'
      <3> SUFFICES ASSUME q < Channels, NEW t \in Nat, IsBehind(q, t)'
                   PROVE  IsOwed(q, t)' \/ t \in In(got) \/ t < got[1]
        BY <1>1 DEF GotAgrees, IsBehind, IsOwed, IsCurrent, In
      <3>1. IsBehind(q, t) => IsOwed(q, t) \/ t \in In(got) \/ t < got[1]
        BY <1>5 DEF Order, GotAgrees
      <3>2. IsOwed(q, t) => IsOwed(q, t)'
        <4>1. Keeps(q, t)
          BY <2>2, BoardStep DEF Order
        <4> QED
          BY <4>1 DEF Keeps
      <3>3. IsBehind(q, t) \/ IsOwed(q, t)'
        BY <2>2, BoardBehind DEF Order
      <3> QED
        BY <3>1, <3>2, <3>3
    <2> QED
      BY <1>2, <1>3, <2>7, <2>8 DEF Order
  <1> QED
    BY <1>4, <1>5

\* The steps that touch no FIFO, between two Reads.
LEMMA OrderKept ==
    ASSUME Order, UNCHANGED <<now, next, fifo>>, \A c \in Chan : active'[c] => active[c],
           got' = <<>>
    PROVE  Order'
  <1>1. FifosRise'
    BY DEF Order, FifosRise, Upcoming, In
  <1>2. FifosAgree'
    <2> SUFFICES ASSUME NEW a \in Chan, active'[a], a < Channels, NEW t \in Nat, IsBehind(a, t)'
                 PROVE  IsOwed(a, t)' \/ IsPast(a, t)'
      BY DEF FifosAgree
    <2>1. IsBehind(a, t)
      BY DEF IsBehind, IsCurrent, Packet, In
    <2>2. IsOwed(a, t) \/ IsPast(a, t)
      BY <2>1 DEF Order, FifosAgree
    <2> QED
      BY <2>2 DEF IsOwed, IsPast, IsCurrent, Packet, Upcoming, In
  <1> QED
    BY <1>1, <1>2 DEF Order, GotRises, GotAgrees

\* A channel starts with an empty FIFO and is given what the channels after it will be.
LEMMA OrderStart ==
    ASSUME Basis, Order, Start
    PROVE  Order'
  <1>1. /\ pc = "start" /\ i \in Chan /\ \A c \in Chan : active[c] <=> c < i
        /\ fifo' = [fifo EXCEPT ![i] = <<>>] /\ active' = [active EXCEPT ![i] = TRUE]
        /\ got' = got
    BY DEF Start, Basis, ActiveOK
  <1> PICK q \in Chan : q = i
    BY <1>1
  <1>2. /\ Channels \in Nat \ {0} /\ PktSize \in Nat \ {0} /\ now \in Nat /\ q \in 1..Channels
        /\ next \in 1..Channels /\ fifo \in [Chan -> Seq(Nat)] /\ active \in [Chan -> BOOLEAN]
    BY TypeFacts DEF Basis, TypeInv, Chan
  <1>3. /\ fifo'[q] = <<>> /\ active'[q]
        /\ \A c \in Chan : c # q => fifo'[c] = fifo[c] /\ (active'[c] => c < q /\ active[c])
    BY <1>1, <1>2
  <1>4. In(fifo'[q]) = {}
    BY <1>3 DEF In
  <1>5. q = 1 => next' = 1
    BY DEF Start, StartLoop
  <1>6. q # 1 => now' = now /\ next' = next
    BY DEF Start
  <1>7. got = <<>>
    BY <1>1 DEF Order, GotRises, Wanting
  <1>8. FifosRise'
    <2> SUFFICES ASSUME NEW c \in Chan, active'[c]
                 PROVE  Rising(fifo'[c]) /\ \A x \in In(fifo'[c]) : x < Upcoming(c)'
      BY DEF FifosRise
    <2>1. CASE c = q
      <3>1. fifo'[c] = <<>> /\ In(fifo'[c]) = {}
        BY <1>3, <1>4, <2>1
      <3> QED
        BY <3>1 DEF Rising
    <2>2. CASE c # q
      <3>1. c < q /\ active[c] /\ fifo'[c] = fifo[c]
        BY <1>3, <2>2
      <3>2. now' = now /\ next' = next
        BY <1>2, <1>6, <3>1 DEF Chan
      <3>3. Upcoming(c)' = Upcoming(c)
        BY <3>2 DEF Upcoming
      <3> QED
        BY <3>1, <3>3 DEF Order, FifosRise
    <2> QED
      BY <2>1, <2>2
  <1>9. FifosAgree'
    <2> SUFFICES ASSUME NEW a \in Chan, active'[a], a < Channels, NEW t \in Nat, IsBehind(a, t)'
                 PROVE  IsOwed(a, t)' \/ IsPast(a, t)'
      BY DEF FifosAgree
    <2>1. a <= q /\ a \in Nat
      BY <1>2, <1>3 DEF Chan
    <2>2. CASE IsCurrent(t)'
      <3>1. q # 1 /\ next > 1 /\ t \in Packet /\ now' = now /\ next' = next
        BY <1>2, <1>5, <1>6, <2>2 DEF IsCurrent, Packet
      <3>2. IsCurrent(t)
        BY <3>1 DEF IsCurrent
      <3>3. CASE a = q
        <4>1. CASE next <= q
          BY <2>2, <3>1, <3>3, <4>1 DEF IsOwed
        <4>2. CASE ~(next <= q)
          <5>1. t < Upcoming(q)'
            <6>1. t < now + PktSize /\ t \in Nat
              BY <1>2, <3>1 DEF Packet
            <6>2. q < next
              BY <1>2, <4>2
            <6>3. Upcoming(q)' = now + PktSize
              BY <3>1, <6>2 DEF Upcoming
            <6> QED
              BY <6>1, <6>3
          <5>2. a = q /\ IsPast(q, t)'
            BY <1>4, <3>3, <5>1 DEF IsPast, In
          <5> QED
            BY <5>2
        <4> QED
          BY <4>1, <4>2
      <3>4. CASE a # q
        <4>1. active[a] /\ fifo'[a] = fifo[a]
          BY <1>3, <3>4
        <4>2. IsOwed(a, t) \/ IsPast(a, t)
          BY <3>2, <4>1 DEF Order, FifosAgree, IsBehind
        <4> QED
          BY <3>1, <4>1, <4>2 DEF IsOwed, IsPast, IsCurrent, Packet, Upcoming, In
      <3> QED
        BY <3>3, <3>4
    <2>3. CASE \E b \in Chan : b > a /\ active'[b] /\ t \in In(fifo'[b])
      <3> PICK b \in Chan : b > a /\ active'[b] /\ t \in In(fifo'[b])
        BY <2>3
      <3>1. b # q
        BY <1>4
      <3>2. b < q /\ active[b] /\ fifo'[b] = fifo[b]
        BY <1>3, <3>1
      <3>3. a # q /\ q # 1
        BY <1>2, <2>1, <3>2 DEF Chan
      <3>4. active[a] /\ fifo'[a] = fifo[a] /\ now' = now /\ next' = next
        BY <1>3, <1>6, <3>3
      <3>5. IsBehind(a, t)
        BY <3>2 DEF IsBehind
      <3>6. IsOwed(a, t) \/ IsPast(a, t)
        BY <3>4, <3>5 DEF Order, FifosAgree
      <3> QED
        BY <3>4, <3>6 DEF IsOwed, IsPast, IsCurrent, Packet, Upcoming, In
    <2> QED
      BY <2>2, <2>3 DEF IsBehind, In
  <1> QED
    BY <1>1, <1>7, <1>8, <1>9 DEF Order, GotRises, GotAgrees

\* What pop_samples moves: the samples are in what the Read has taken instead of in the
\* FIFO, in the same order.
Moves(c) ==
    /\ got' \in Seq(Nat) /\ Len(got') <= Missing /\ got' # <<>>
    /\ got # <<>> => got'[1] = got[1]
    /\ got = <<>> => got'[1] \in In(fifo[c])
    /\ In(got) \cup In(fifo[c]) = In(got') \cup In(fifo'[c])
    /\ In(got) \subseteq In(got') /\ In(fifo'[c]) \subseteq In(fifo[c])
    /\ Rising(fifo'[c]) /\ Rising(got') /\ \A x \in In(got'), y \in In(fifo'[c]) : x < y
    /\ \A d \in Chan : d # c => fifo'[d] = fifo[d]

LEMMA MovesFacts ==
    ASSUME Basis, Order, PopSamples, NEW c \in Chan, c = i
    PROVE  Moves(c)
  <1> PICK n \in Nat \ {0} : Pops(c, n)
    BY PopFacts
  <1> DEFINE tk == SubSeq(fifo[c], 1, n)
             rest == DropFirst(fifo[c], n)
  <1>1. /\ fifo[c] \in Seq(Nat) /\ got \in Seq(Nat) /\ n \in 1..Len(fifo[c])
        /\ n \in 0..Len(fifo[c]) /\ Missing \in Nat
        /\ got' = got \o tk /\ fifo'[c] = rest /\ Len(got) + n <= Missing
        /\ \A d \in Chan : d # c => fifo'[d] = fifo[d]
    <2>1. fifo[c] \in Seq(Nat) /\ got \in Seq(Nat) /\ n \in 1..Len(fifo[c])
      BY TypeFacts DEF Basis, Pops
    <2>2. n \in 0..Len(fifo[c])
      BY <2>1
    <2>3. Missing \in Nat
      BY WantingFacts DEF PopSamples
    <2>4. /\ got' = got \o tk /\ fifo'[c] = rest /\ Len(got) + n <= Missing
          /\ \A d \in Chan : d # c => fifo'[d] = fifo[d]
      BY DEF Pops
    <2> QED
      BY <2>1, <2>2, <2>3, <2>4
  <1>2. Rising(fifo[c])
    <2>1. active[c]
      BY WantingFacts DEF PopSamples
    <2> QED
      BY <2>1 DEF Order, FifosRise
  <1>3. /\ tk \in Seq(Nat) /\ Len(tk) = n /\ tk[1] = fifo[c][1]
        /\ In(fifo[c]) = In(tk) \cup In(rest)
        /\ Rising(tk) /\ \A x \in In(tk), y \in In(rest) : x < y
    BY <1>1, <1>2, Taken
  <1>4. Rising(rest)
    BY <1>1, <1>2, Dropped
  <1> HIDE DEF tk, rest
  <1>5. Rising(got) /\ \A x \in In(got), y \in In(fifo[c]) : x < y
    <2>1. CASE got = <<>>
      BY <2>1 DEF Rising, In
    <2>2. CASE got # <<>>
      BY <2>2 DEF Order, GotRises
    <2> QED
      BY <2>1, <2>2
  <1>6. \A x \in In(got), y \in In(tk) : x < y
    BY <1>3, <1>5
  <1>7. /\ got' \in Seq(Nat) /\ Len(got') = Len(got) + n
        /\ In(got') = In(got) \cup In(tk) /\ Rising(got')
        /\ Len(got) > 0 => got'[1] = got[1]
    BY <1>1, <1>3, <1>5, <1>6, Joined
  <1>8. got # <<>> => got'[1] = got[1]
    <2>1. got # <<>> => Len(got) > 0
      BY <1>1
    <2> QED
      BY <1>7, <2>1
  <1>9. got = <<>> => got'[1] \in In(fifo[c])
    <2> SUFFICES ASSUME got = <<>> PROVE got'[1] \in In(fifo[c])
      OBVIOUS
    <2>1. got' = tk
      BY <1>1, <1>3
    <2>2. 1 \in 1..Len(fifo[c])
      BY <1>1
    <2> QED
      BY <1>3, <2>1, <2>2 DEF In
  <1>10. Len(got') <= Missing /\ got' # <<>>
    <2>1. Len(got) \in Nat
      BY <1>1
    <2>2. Len(got') # 0
      BY <1>7, <2>1
    <2> QED
      BY <1>1, <1>7, <2>2
  <1>11. \A x \in In(got'), y \in In(rest) : x < y
    BY <1>3, <1>5, <1>7
  <1>12. In(got) \cup In(fifo[c]) = In(got') \cup In(rest)
    BY <1>3, <1>7
  <1>13. In(got) \subseteq In(got') /\ In(rest) \subseteq In(fifo[c])
    BY <1>3, <1>7
  <1> QED
    BY <1>1, <1>4, <1>7, <1>8, <1>9, <1>10, <1>11, <1>12, <1>13 DEF Moves

LEMMA OrderPop ==
    ASSUME Basis, Order, PopSamples
    PROVE  Order'
  <1>1. Wanting /\ UNCHANGED <<now, next, active, pc, i, numElems, buffs>>
    BY DEF PopSamples
  <1>2. /\ \A c \in Chan : active[c] /\ fifo[c] \in Seq(Nat) /\ Upcoming(c) \in Nat
        /\ got \in Seq(Nat)
    BY <1>1, WantingFacts, TypeFacts DEF Basis
  <1> PICK q \in Chan : q = i
    BY <1>1, WantingFacts
  <1>3. Moves(q)
    BY MovesFacts
  <1>4. \A c \in Chan : In(fifo'[c]) \subseteq In(fifo[c])
    BY <1>3 DEF Moves
  <1>5. \A c \in Chan : Rising(fifo[c]) /\ \A x \in In(fifo[c]) : x < Upcoming(c)
    BY <1>2 DEF Order, FifosRise
  <1>6. FifosRise'
    <2> SUFFICES ASSUME NEW c \in Chan
                 PROVE  Rising(fifo'[c]) /\ \A x \in In(fifo'[c]) : x < Upcoming(c)'
      BY DEF FifosRise
    <2>1. Rising(fifo'[c])
      BY <1>3, <1>5 DEF Moves
    <2>2. Upcoming(c)' = Upcoming(c)
      BY <1>1 DEF Upcoming
    <2> QED
      BY <1>4, <1>5, <2>1, <2>2
  <1>7. ASSUME NEW a \in Chan, NEW t \in Nat, IsBehind(a, t)'
        PROVE  IsBehind(a, t)
    BY <1>1, <1>4, <1>7 DEF IsBehind, IsCurrent, Packet, In
  <1>8. ASSUME NEW t \in Nat, t \in In(got')
        PROVE  IsPast(q, t)'
    <2>1. t \in In(got) \/ t \in In(fifo[q])
      BY <1>3, <1>8 DEF Moves
    <2>2. t < Upcoming(q)
      <3>1. CASE t \in In(got)
        <4>1. got # <<>>
          BY <3>1 DEF In
        <4> QED
          BY <3>1, <4>1 DEF Order, GotRises
      <3>2. CASE t \in In(fifo[q])
        BY <1>5, <3>2
      <3> QED
        BY <2>1, <3>1, <3>2
    <2>3. \A y \in In(fifo'[q]) : t < y
      BY <1>3, <1>8 DEF Moves
    <2> QED
      BY <1>1, <2>2, <2>3 DEF IsPast, Upcoming, In
  <1>9. ASSUME NEW t \in Nat, IsOwed(q, t)
        PROVE  IsOwed(q, t)' \/ t \in In(got')
    <2>1. CASE t \in In(fifo[q])
      <3>1. t \in In(got') \/ t \in In(fifo'[q])
        BY <1>3, <2>1 DEF Moves
      <3> QED
        BY <3>1 DEF IsOwed, In
    <2>2. CASE IsCurrent(t) /\ next <= q
      BY <1>1, <2>2 DEF IsOwed, IsCurrent, Packet, In
    <2> QED
      BY <1>9, <2>1, <2>2 DEF IsOwed
  <1>10. FifosAgree'
    <2> SUFFICES ASSUME NEW a \in Chan, a < Channels, NEW t \in Nat, IsBehind(a, t)'
                 PROVE  IsOwed(a, t)' \/ IsPast(a, t)'
      BY DEF FifosAgree
    <2>1. IsOwed(a, t) \/ IsPast(a, t)
      BY <1>2, <1>7 DEF Order, FifosAgree
    <2>2. CASE a # q
      <3>1. fifo'[a] = fifo[a]
        BY <1>3, <2>2 DEF Moves
      <3> QED
        BY <1>1, <2>1, <3>1 DEF IsOwed, IsPast, IsCurrent, Packet, Upcoming, In
    <2>3. CASE a = q
      <3>1. CASE IsOwed(q, t)
        BY <1>8, <1>9, <2>3, <3>1
      <3>2. CASE IsPast(q, t)
        BY <1>1, <1>4, <2>3, <3>2 DEF IsPast, Upcoming, In
      <3> QED
        BY <2>1, <2>3, <3>1, <3>2
    <2> QED
      BY <2>2, <2>3
  <1>11. GotRises'
    <2>1. Wanting' /\ Missing' = Missing /\ i' = i
      BY <1>1 DEF Wanting, Missing
    <2>2. Len(got') <= Missing /\ Rising(got') /\ \A x \in In(got'), y \in In(fifo'[q]) : x < y
      BY <1>3 DEF Moves
    <2>3. \A x \in In(got') : x < Upcoming(q)'
      <3> SUFFICES ASSUME NEW x \in In(got') PROVE x < Upcoming(q)'
        OBVIOUS
      <3>1. x \in Nat
        BY <1>3, InNat DEF Moves
      <3> QED
        BY <1>8, <3>1 DEF IsPast
    <2>4. /\ \A x \in In(got') : x < Upcoming(i)'
          /\ \A x \in In(got') : \A y \in In(fifo'[i']) : x < y
      BY <1>1, <2>2, <2>3 DEF Upcoming
    <2> QED
      BY <2>1, <2>2, <2>4 DEF GotRises, In, Upcoming, Rising
  <1>12. GotAgrees'
    <2> SUFFICES ASSUME q < Channels, NEW t \in Nat, IsBehind(q, t)'
                 PROVE  IsOwed(q, t)' \/ t \in In(got') \/ t < got'[1]
      BY <1>1 DEF GotAgrees, IsBehind, IsOwed, IsCurrent, Packet, In
    <2>1. IsBehind(q, t)
      BY <1>7
    <2>2. CASE IsOwed(q, t)
      BY <1>9, <2>2
    <2>3. CASE got = <<>>
      <3>1. IsOwed(q, t) \/ IsPast(q, t)
        BY <1>2, <2>1 DEF Order, FifosAgree
      <3>2. got'[1] \in In(fifo[q])
        BY <1>3, <2>3 DEF Moves
      <3> QED
        BY <2>2, <3>1, <3>2 DEF IsPast
    <2>4. CASE got # <<>>
      <3>1. IsOwed(q, t) \/ t \in In(got) \/ t < got[1]
        BY <2>1, <2>4 DEF Order, GotAgrees
      <3>2. got'[1] = got[1] /\ In(got) \subseteq In(got')
        BY <1>3, <2>4 DEF Moves
      <3> QED
        BY <2>2, <3>1, <3>2
    <2> QED
      BY <2>3, <2>4
  <1> QED
    BY <1>6, <1>10, <1>11, <1>12 DEF Order

LEMMA OrderStep ==
    ASSUME MayOverflow \subseteq {Channels}, Basis, Order, [Next]_vars
    PROVE  Order'
  <1>1. CASE Receive \/ Drop
    BY <1>1, BoardOrder
  <1>2. CASE Start
    BY <1>2, OrderStart
  <1>3. CASE PopSamples
    BY <1>3, OrderPop
  <1>4. CASE ReadHead \/ ReadOn \/ ReadEarly \/ ReadLate
    <2>1. got' = <<>> /\ UNCHANGED <<now, next, fifo, active>>
      BY <1>4 DEF ReadHead, ReadOn, ReadEarly, ReadLate, Returned, board
    <2> QED
      BY <2>1, OrderKept
  <1>5. CASE \/ \E cmd \in Commands : Activate(cmd)
             \/ \E count \in Counts : ReadStream(count)
             \/ Skip \/ NoCommand \/ ReadNothing \/ RefuseTime \/ Return \/ Leave
             \/ Deactivate
    <2>1. ~Wanting \/ got = <<>>
      <3>1. CASE Skip
        <4>1. Len(buffs[i]) >= numElems /\ i \in Chan
          BY <3>1, TypeFacts DEF Skip, Basis, TypeInv, Chan
        <4>2. Len(buffs[i]) \in Nat /\ numElems \in Nat
          BY <4>1, TypeFacts DEF Basis, TypeInv
        <4> QED
          BY <4>1, <4>2 DEF Wanting
      <3>2. CASE RefuseTime \/ Return
        <4>1. i > Channels /\ i \in Nat /\ Channels \in Nat
          BY <3>2, TypeFacts DEF RefuseTime, Return, Aligned, Basis, TypeInv
        <4> QED
          BY <4>1 DEF Wanting
      <3>3. CASE ReadNothing
        BY <3>3 DEF ReadNothing
      <3>4. CASE ~(Skip \/ RefuseTime \/ Return \/ ReadNothing)
        <4>1. pc # "read"
          BY <1>5, <3>4 DEF Activate, ReadStream, NoCommand, Leave, Deactivate
        <4> QED
          BY <4>1 DEF Wanting
      <3> QED
        BY <3>1, <3>2, <3>3, <3>4
    <2>2. got = <<>>
      BY <2>1 DEF Order, GotRises
    <2>3. got' = got /\ UNCHANGED <<now, next, fifo>>
      BY <1>5 DEF Activate, ReadStream, Skip, NoCommand, ReadNothing, RefuseTime, Return,
                  Leave, Deactivate, board, local
    <2>4. \A c \in Chan : active'[c] => active[c]
      <3>1. CASE Deactivate
        BY <3>1 DEF Deactivate
      <3>2. CASE ~Deactivate
        BY <1>5, <3>2 DEF Activate, ReadStream, Skip, NoCommand, ReadNothing, RefuseTime,
                          Return, Leave
      <3> QED
        BY <3>1, <3>2
    <2> QED
      BY <2>2, <2>3, <2>4, OrderKept
  <1>6. CASE UNCHANGED vars
    <2>1. /\ UNCHANGED <<now, next, fifo, active, got, pc, i, numElems, buffs>>
      BY <1>6 DEF vars, board, local
    <2>2. CASE got = <<>>
      BY <2>1, <2>2, OrderKept
    <2>3. CASE got # <<>>
      <3>1. FifosRise'
        BY <2>1 DEF Order, FifosRise, Upcoming
      <3>2. GotRises'
        BY <2>1 DEF Order, GotRises, Wanting, Missing, Upcoming
      <3>3. FifosAgree'
        BY <2>1 DEF Order, FifosAgree, IsBehind, IsOwed, IsPast, IsCurrent, Packet, Upcoming
      <3>4. GotAgrees'
        BY <2>1 DEF Order, GotAgrees, IsBehind, IsOwed, IsCurrent, Packet
      <3> QED
        BY <3>1, <3>2, <3>3, <3>4 DEF Order
    <2> QED
      BY <2>2, <2>3
  <1> QED
    BY <1>1, <1>2, <1>3, <1>4, <1>5, <1>6 DEF Next, CallStep

-----------------------------------------------------------------------------
\* What a readStream has in its buffers that no time has misled.

End(a) == requestTime + Len(buffs[a])

\* Channel a or one after it has something.
Touched(a) == \E c \in Chan : c >= a /\ buffs[c] # <<>>

\* A sample that was sent to the channels, as far as those after a, their buffers and
\* the Read under way show.
IsKnown(a, t) ==
    IsBehind(a, t) \/ \E b \in Chan : b > a /\ (t \in In(buffs[b]) \/ (b = i /\ t \in In(got)))

\* A sample that is still to be read into the buffer of channel a.
IsLeft(a, t) == IsOwed(a, t) \/ (a = i /\ t \in In(got))

\* A buffer has the samples from the request time on; those before this channel are
\* full; one after it has something only if one of those is full; and none has before
\* there is a request time.
FilledOK == \A c \in Chan : Runs(buffs[c], requestTime)
BeforeOK == \A c \in Chan : c < i => Len(buffs[c]) >= numElems
AfterOK == \A c \in Chan : c > i /\ buffs[c] # <<>> =>
               \E d \in Chan : d >= c /\ Len(buffs[d]) >= numElems
UnsetOK == requestTime = 0 => \A c \in Chan : c >= i => buffs[c] = <<>>

\* What a buffer still lacks can still be read, if the channels after it have it.
KnownOK == \A a \in Chan : a < Channels /\ Touched(a) =>
               \A t \in Nat : IsKnown(a, t) /\ t >= End(a) => IsLeft(a, t)

BuffersOK == FilledOK /\ BeforeOK /\ AfterOK /\ UnsetOK /\ KnownOK
ReadOK == pc = "read" /\ ~misled => BuffersOK

\* The board leaves the buffers alone, and what was left to be read.
LEMMA ReadOKBoard ==
    ASSUME MayOverflow \subseteq {Channels}, Basis, Order, ReadOK, Receive \/ Drop
    PROVE  ReadOK'
  <1> SUFFICES ASSUME pc = "read", ~misled, BuffersOK
               PROVE  BuffersOK'
    BY DEF ReadOK, Receive, Drop, history
  <1>1. UNCHANGED <<active, i, numElems, requestTime, buffs, got>>
    BY DEF Receive, Drop, local
  <1>2. FilledOK' /\ BeforeOK' /\ AfterOK' /\ UnsetOK'
    BY <1>1 DEF BuffersOK, FilledOK, BeforeOK, AfterOK, UnsetOK
  <1>3. KnownOK'
    <2> SUFFICES ASSUME NEW a \in Chan, a < Channels, Touched(a),
                        NEW t \in Nat, IsKnown(a, t)', t >= End(a)
                 PROVE  IsLeft(a, t)'
      BY <1>1 DEF KnownOK, Touched, End
    <2>1. active[a]
      BY DEF Basis, ActiveOK
    <2>2. Keeps(a, t)
      BY <2>1, BoardStep DEF Order
    <2>3. IsKnown(a, t) \/ IsOwed(a, t)'
      <3>1. CASE IsBehind(a, t)'
        <4>1. IsBehind(a, t) \/ IsOwed(a, t)'
          BY <2>1, <3>1, BoardBehind DEF Order
        <4> QED
          BY <4>1 DEF IsKnown
      <3>2. CASE ~IsBehind(a, t)'
        BY <1>1, <3>2 DEF IsKnown
      <3> QED
        BY <3>1, <3>2
    <2>4. IsKnown(a, t) => IsLeft(a, t)
      BY DEF BuffersOK, KnownOK
    <2>5. IsOwed(a, t) => IsOwed(a, t)'
      BY <2>2 DEF Keeps
    <2> QED
      BY <1>1, <2>3, <2>4, <2>5 DEF IsLeft
  <1> QED
    BY <1>2, <1>3 DEF BuffersOK

\* A call begins with nothing.
LEMMA ReadOKBegin ==
    ASSUME Basis, NEW count \in Counts, ReadStream(count)
    PROVE  BuffersOK'
  <1>1. \A c \in Chan : buffs'[c] = <<>> /\ ~(c < i')
    BY TypeFacts DEF ReadStream, Basis, Chan
  <1>2. FilledOK' /\ BeforeOK' /\ AfterOK' /\ UnsetOK'
    <2>1. \A c \in Chan : Runs(buffs'[c], requestTime')
      BY <1>1 DEF Runs
    <2> QED
      BY <1>1, <2>1 DEF FilledOK, BeforeOK, AfterOK, UnsetOK
  <1>3. KnownOK'
    BY <1>1 DEF KnownOK, Touched
  <1> QED
    BY <1>2, <1>3 DEF BuffersOK

LEMMA ReadOKSkip ==
    ASSUME Basis, Order, BuffersOK, Skip
    PROVE  BuffersOK'
  <1>1. /\ i' = i + 1 /\ i \in Chan /\ Len(buffs[i]) >= numElems
        /\ UNCHANGED <<now, next, fifo, active, numElems, requestTime, buffs, got>>
        /\ i \in Nat
    BY TypeFacts DEF Skip, board, Basis, TypeInv, Chan
  <1>2. Len(buffs[i]) \in Nat /\ numElems \in Nat
    BY <1>1, TypeFacts DEF Basis, TypeInv
  <1>3. got = <<>>
    BY <1>1, <1>2 DEF Order, GotRises, Wanting
  <1>4. \A c \in Chan : c \in Nat
    BY DEF Chan
  <1>5. FilledOK'
    BY <1>1 DEF BuffersOK, FilledOK
  <1>6. BeforeOK'
    <2> SUFFICES ASSUME NEW c \in Chan, c < i + 1 PROVE Len(buffs[c]) >= numElems
      BY <1>1 DEF BeforeOK
    <2>1. c < i \/ c = i
      BY <1>1, <1>4
    <2> QED
      BY <1>1, <2>1 DEF BuffersOK, BeforeOK
  <1>7. AfterOK'
    <2>1. \A c \in Chan : c > i + 1 => c > i
      BY <1>1, <1>4
    <2> QED
      BY <1>1, <2>1 DEF BuffersOK, AfterOK
  <1>8. UnsetOK'
    <2>1. \A c \in Chan : c >= i + 1 => c >= i
      BY <1>1, <1>4
    <2> QED
      BY <1>1, <2>1 DEF BuffersOK, UnsetOK
  <1>9. KnownOK'
    <2> SUFFICES ASSUME NEW a \in Chan, a < Channels, Touched(a)',
                        NEW t \in Nat, IsKnown(a, t)', (t >= End(a))'
                 PROVE  IsLeft(a, t)'
      BY DEF KnownOK
    <2>1. Touched(a) /\ t >= End(a)
      BY <1>1 DEF Touched, End
    <2>2. t \notin In(got)
      BY <1>3 DEF In
    <2>3. IsKnown(a, t)
      BY <1>1, <2>2 DEF IsKnown, IsBehind, IsCurrent, Packet, In
    <2>4. IsOwed(a, t)
      BY <2>1, <2>2, <2>3 DEF BuffersOK, KnownOK, IsLeft
    <2> QED
      BY <1>1, <2>4 DEF IsLeft, IsOwed, IsCurrent, Packet, In
  <1> QED
    BY <1>5, <1>6, <1>7, <1>8, <1>9 DEF BuffersOK

LEMMA ReadOKPop ==
    ASSUME Basis, Order, BuffersOK, PopSamples
    PROVE  BuffersOK'
  <1>1. Wanting /\ UNCHANGED <<now, next, active, i, numElems, requestTime, buffs>>
    BY DEF PopSamples
  <1> PICK q \in Chan : q = i
    BY <1>1, WantingFacts
  <1>2. Moves(q) /\ active[q]
    BY <1>1, MovesFacts, WantingFacts
  <1>3. FilledOK' /\ BeforeOK' /\ AfterOK' /\ UnsetOK'
    BY <1>1 DEF BuffersOK, FilledOK, BeforeOK, AfterOK, UnsetOK
  <1>4. KnownOK'
    <2> SUFFICES ASSUME NEW a \in Chan, a < Channels, Touched(a)',
                        NEW t \in Nat, IsKnown(a, t)', (t >= End(a))'
                 PROVE  IsLeft(a, t)'
      BY DEF KnownOK
    <2>1. Touched(a) /\ t >= End(a)
      BY <1>1 DEF Touched, End
    <2>2. IsKnown(a, t)
      <3>1. CASE IsCurrent(t)'
        BY <1>1, <3>1 DEF IsKnown, IsBehind, IsCurrent, Packet
      <3>2. CASE \E b \in Chan : b > a /\ active'[b] /\ t \in In(fifo'[b])
        <4> PICK b \in Chan : b > a /\ active'[b] /\ t \in In(fifo'[b])
          BY <3>2
        <4>1. t \in In(fifo[b])
          BY <1>2 DEF Moves
        <4> QED
          BY <1>1, <4>1 DEF IsKnown, IsBehind
      <3>3. CASE \E b \in Chan : b > a /\ (t \in In(buffs'[b]) \/ (b = i' /\ t \in In(got')))
        <4> PICK b \in Chan : b > a /\ (t \in In(buffs'[b]) \/ (b = i' /\ t \in In(got')))
          BY <3>3
        <4>1. CASE t \in In(buffs'[b])
          BY <1>1, <4>1 DEF IsKnown
        <4>2. CASE b = q /\ t \in In(got')
          <5>1. t \in In(got) \/ t \in In(fifo[q])
            BY <1>2, <4>2 DEF Moves
          <5> QED
            BY <1>2, <4>2, <5>1 DEF IsKnown, IsBehind
        <4> QED
          BY <1>1, <4>1, <4>2
      <3> QED
        BY <3>1, <3>2, <3>3 DEF IsKnown, IsBehind, In
    <2>3. IsOwed(a, t) \/ (a = i /\ t \in In(got))
      BY <2>1, <2>2 DEF BuffersOK, KnownOK, IsLeft
    <2>4. CASE t \in In(fifo[a])
      <3>1. CASE a = q
        <4>1. t \in In(got') \/ t \in In(fifo'[a])
          BY <1>2, <2>4, <3>1 DEF Moves
        <4> QED
          BY <1>1, <3>1, <4>1 DEF IsLeft, IsOwed, In
      <3>2. CASE a # q
        <4>1. fifo'[a] = fifo[a]
          BY <1>2, <3>2 DEF Moves
        <4> QED
          BY <2>4, <4>1 DEF IsLeft, IsOwed, In
      <3> QED
        BY <3>1, <3>2
    <2>5. CASE IsCurrent(t) /\ next <= a
      BY <1>1, <2>5 DEF IsLeft, IsOwed, IsCurrent, Packet
    <2>6. CASE a = i /\ t \in In(got)
      <3>1. t \in In(got')
        BY <1>2, <2>6 DEF Moves
      <3> QED
        BY <1>1, <2>6, <3>1 DEF IsLeft, In
    <2> QED
      BY <2>3, <2>4, <2>5, <2>6 DEF IsOwed
  <1> QED
    BY <1>3, <1>4 DEF BuffersOK

\* A Read that returns in order leaves nothing out, if it is appended to, or replaces, the
\* buffer of its channel, and no buffer's end moves back.
Replaces(q) ==
    /\ \A c \in Chan : c > q => buffs'[c] = buffs[c]
    /\ \A c \in Chan : c < q => In(buffs'[c]) \subseteq In(buffs[c])
    /\ In(buffs'[q]) \subseteq In(buffs[q]) \cup In(got)
    /\ \A c \in Chan : End(c)' >= End(c) /\ End(c)' \in Nat
    /\ End(q)' >= Stamp + Len(got)

LEMMA KnownKept ==
    ASSUME Basis, Order, BuffersOK, Returned, Runs(got, Stamp), UNCHANGED <<board, active>>,
           NEW q \in Chan, q = i, Replaces(q)
    PROVE  KnownOK'
  <1>1. /\ Wanting /\ got \in Seq(Nat) /\ Len(got) \in Nat \ {0} /\ Stamp \in Nat /\ got' = <<>>
        /\ UNCHANGED <<now, next, fifo, active>>
    BY ReturnedFacts DEF board
  <1>2. /\ q \in Nat /\ Channels \in Nat /\ numElems \in Nat \ {0} /\ \A c \in Chan : active[c]
        /\ \A c \in Chan : c \in Nat /\ buffs[c] \in Seq(Nat) /\ Len(buffs[c]) \in Nat
                           /\ End(c) \in Nat
    <2>1. \A c \in Chan : buffs[c] \in Seq(Nat) /\ Len(buffs[c]) \in Nat
      BY TypeFacts DEF Basis
    <2>2. requestTime \in Nat
      BY <1>1, WantingFacts
    <2>3. \A c \in Chan : End(c) \in Nat
      BY <2>1, <2>2 DEF End
    <2>4. /\ q \in Nat /\ Channels \in Nat /\ numElems \in Nat \ {0} /\ \A c \in Chan : active[c]
      BY <1>1, WantingFacts
    <2> QED
      BY <2>1, <2>3, <2>4 DEF Chan
  <1>3. \A t \in Nat : t \in In(got) => t < Stamp + Len(got)
    <2> SUFFICES ASSUME NEW k \in 1..Len(got) PROVE got[k] < Stamp + Len(got)
      BY DEF In
    <2>1. got[k] = Stamp + k - 1
      BY DEF Runs
    <2> QED
      BY <1>1, <2>1
  <1> SUFFICES ASSUME NEW a \in Chan, a < Channels, Touched(a)',
                      NEW t \in Nat, IsKnown(a, t)', (t >= End(a))'
               PROVE  IsOwed(a, t)
    <2>1. \A a \in Chan, t \in Nat : IsOwed(a, t) => IsLeft(a, t)'
      BY <1>1 DEF IsLeft, IsOwed, IsCurrent, Packet, In
    <2> QED
      BY <2>1 DEF KnownOK
  <1>4. /\ IsBehind(a, t) \/ \E b \in Chan : b > a /\ t \in In(buffs'[b])
        /\ t >= End(a)' /\ \E c \in Chan : c >= a /\ buffs'[c] # <<>>
    <2>1. IsBehind(a, t)' => IsBehind(a, t)
      BY <1>1 DEF IsBehind, IsCurrent, Packet, In
    <2>2. t \notin In(got')
      BY <1>1 DEF In
    <2> QED
      BY <2>1, <2>2 DEF IsKnown, Touched, In
  <1>5. t >= End(a)
    BY <1>2, <1>4 DEF Replaces
  <1>6. ASSUME Touched(a), IsKnown(a, t)
        PROVE  IsLeft(a, t)
    BY <1>5, <1>6 DEF BuffersOK, KnownOK
  <1>7. CASE a > q
    <2>1. Touched(a)
      <3> PICK c \in Chan : c >= a /\ buffs'[c] # <<>>
        BY <1>4
      <3>1. c > q
        BY <1>2, <1>7
      <3> QED
        BY <3>1 DEF Replaces, Touched
    <2>2. IsKnown(a, t)
      <3>1. CASE \E b \in Chan : b > a /\ t \in In(buffs'[b])
        <4> PICK b \in Chan : b > a /\ t \in In(buffs'[b])
          BY <3>1
        <4>1. b > q
          BY <1>2, <1>7
        <4> QED
          BY <4>1 DEF Replaces, IsKnown
      <3> QED
        BY <1>4, <3>1 DEF IsKnown
    <2>3. a # i
      BY <1>2, <1>7
    <2> QED
      BY <1>6, <2>1, <2>2, <2>3 DEF IsLeft
  <1>8. CASE a < q
    <2>1. Touched(a)
      <3>1. Len(buffs[a]) >= numElems
        BY <1>8 DEF BuffersOK, BeforeOK
      <3>2. Len(buffs[a]) # 0
        BY <1>2, <3>1
      <3>3. buffs[a] # <<>> /\ a >= a
        BY <1>2, <3>2
      <3> QED
        BY <3>3 DEF Touched
    <2>2. IsKnown(a, t)
      <3>1. CASE \E b \in Chan : b > a /\ t \in In(buffs'[b])
        <4> PICK b \in Chan : b > a /\ t \in In(buffs'[b])
          BY <3>1
        <4>1. t \in In(buffs[b]) \/ (b = q /\ t \in In(got))
          <5>1. b > q \/ b < q \/ b = q
            BY <1>2
          <5> QED
            BY <5>1 DEF Replaces
        <4> QED
          BY <4>1 DEF IsKnown
      <3> QED
        BY <1>4, <3>1 DEF IsKnown
    <2>3. a # i
      BY <1>2, <1>8
    <2> QED
      BY <1>6, <2>1, <2>2, <2>3 DEF IsLeft
  <1>9. CASE a = q
    <2>1. t >= Stamp + Len(got) /\ ~(t < Stamp)
      BY <1>1, <1>2, <1>4, <1>9 DEF Replaces
    <2>2. t \notin In(got)
      BY <1>1, <1>3, <2>1
    <2>3. CASE IsBehind(a, t)
      <3>1. got # <<>> /\ got[1] = Stamp
        BY <1>1 DEF Returned, Stamp
      <3>2. IsOwed(a, t) \/ t \in In(got) \/ t < Stamp
        BY <1>9, <2>3, <3>1 DEF Order, GotAgrees
      <3> QED
        BY <2>1, <2>2, <3>2
    <2>4. CASE \E b \in Chan : b > a /\ t \in In(buffs'[b])
      <3> PICK b \in Chan : b > a /\ t \in In(buffs'[b])
        BY <2>4
      <3>1. t \in In(buffs[b])
        BY <1>9 DEF Replaces
      <3>2. buffs[b] # <<>> /\ b >= a
        <4>1. buffs[b] # <<>>
          BY <3>1 DEF In
        <4>2. b >= a
          BY <1>2
        <4> QED
          BY <4>1, <4>2
      <3>3. Touched(a) /\ IsKnown(a, t)
        BY <3>1, <3>2 DEF Touched, IsKnown
      <3> QED
        BY <1>6, <2>2, <3>3 DEF IsLeft
    <2> QED
      BY <1>4, <2>3, <2>4
  <1> QED
    BY <1>2, <1>7, <1>8, <1>9

\* Where the loop goes on after a Read for channel q that replaces only its buffer.
LEMMA GoesOn ==
    ASSUME Basis, Wanting, BuffersOK, NEW q \in Chan, q = i,
           NEW s \in Seq(Nat), NEW wanted \in Nat, wanted <= numElems,
           NEW b, b = [buffs EXCEPT ![q] = s], Advance(q, b, wanted)
    PROVE  /\ buffs'[q] = s /\ \A c \in Chan : c # q => buffs'[c] = buffs[c]
           /\ BeforeOK' /\ AfterOK'
  <1>1. /\ q \in Nat /\ Channels \in Nat \ {0} /\ numElems \in Nat
        /\ buffs \in [Chan -> Seq(Nat)]
        /\ \A c \in Chan : c \in Nat /\ Len(buffs[c]) \in Nat
    <2>1. \A c \in Chan : Len(buffs[c]) \in Nat
      BY TypeFacts DEF Basis
    <2>2. /\ q \in Nat /\ Channels \in Nat \ {0} /\ numElems \in Nat
          /\ buffs \in [Chan -> Seq(Nat)]
      BY WantingFacts
    <2> QED
      BY <2>1, <2>2 DEF Chan
  <1>2. b \in [Chan -> Seq(Nat)]
    BY <1>1
  <1>3. /\ buffs' = b /\ numElems' = wanted
        /\ i' = q \/ (i' = q + 1 /\ Len(b[q]) >= wanted)
    BY <1>1, <1>2, Advances
  <1>4. buffs'[q] = s /\ \A c \in Chan : c # q => buffs'[c] = buffs[c]
    BY <1>1, <1>3
  <1>5. \A c \in Chan : Len(buffs[c]) >= numElems => Len(buffs[c]) >= wanted
    BY <1>1
  <1>6. BeforeOK'
    <2> SUFFICES ASSUME NEW c \in Chan, c < i' PROVE Len(buffs'[c]) >= wanted
      BY <1>3 DEF BeforeOK
    <2>1. CASE c < q
      BY <1>1, <1>4, <1>5, <2>1 DEF BuffersOK, BeforeOK
    <2>2. CASE ~(c < q)
      <3>1. c = q /\ i' = q + 1
        BY <1>1, <1>3, <2>2
      <3> QED
        BY <1>3, <3>1
    <2> QED
      BY <2>1, <2>2
  <1>7. AfterOK'
    <2> SUFFICES ASSUME NEW c \in Chan, c > i', buffs'[c] # <<>>
                 PROVE  \E d \in Chan : d >= c /\ Len(buffs'[d]) >= wanted
      BY <1>3 DEF AfterOK
    <2>1. c > q
      BY <1>1, <1>3
    <2> PICK d \in Chan : d >= c /\ Len(buffs[d]) >= numElems
      BY <1>1, <1>4, <2>1 DEF BuffersOK, AfterOK
    <2>2. d # q
      BY <1>1, <2>1
    <2> QED
      BY <1>4, <1>5, <2>2
  <1> QED
    BY <1>4, <1>6, <1>7

\* A Read takes no more than is wanted.
LEMMA TakesNoMore ==
    ASSUME Basis, Order, Returned
    PROVE  Len(got) <= numElems - Len(buffs[i]) /\ Len(got) <= numElems
  <1>1. Len(got) <= Missing
    BY DEF Order, GotRises, Returned
  <1>2. Len(got) \in Nat /\ Len(buffs[i]) \in Nat /\ numElems \in Nat
    BY WantingFacts, ReturnedFacts, TypeFacts DEF Basis
  <1> QED
    BY <1>1, <1>2 DEF Missing

LEMMA ReadOKHead ==
    ASSUME Basis, Order, BuffersOK, ReadHead, ~misled'
    PROVE  BuffersOK'
  <1>1. /\ Returned /\ requestTime = 0 /\ requestTime' = Stamp /\ InARow /\ (i = 1 \/ Stamp = 0)
        /\ Advance(i, [buffs EXCEPT ![i] = @ \o got], Len(got))
        /\ UNCHANGED <<board, active>>
    <2>1. InARow /\ ~(i > 1 /\ Stamp # 0)
      BY DEF ReadHead
    <2>2. i \in Nat \ {0}
      BY TypeFacts DEF Basis, TypeInv
    <2> QED
      BY <2>1, <2>2 DEF ReadHead
  <1>2. /\ Wanting /\ got \in Seq(Nat) /\ Len(got) \in Nat \ {0} /\ Stamp \in Nat
        /\ Runs(got, Stamp)
    BY <1>1, ReturnedFacts
  <1>3. /\ buffs \in [Chan -> Seq(Nat)] /\ numElems \in Nat \ {0} /\ i \in Chan
    BY <1>2, WantingFacts
  <1> PICK q \in Chan : q = i
    BY <1>3
  <1>4. \A c \in Chan : c \in Nat /\ (c >= q => buffs[c] = <<>>)
    BY <1>1 DEF BuffersOK, UnsetOK, Chan
  <1>5. buffs[q] = <<>> /\ buffs[q] \o got = got
    <2>1. q >= q
      BY <1>4
    <2>2. buffs[q] = <<>>
      BY <1>4, <2>1
    <2>3. <<>> \o got = got
      BY <1>2, ConcatProperties
    <2> QED
      BY <2>2, <2>3
  <1>6. Len(got) <= numElems
    BY <1>1, TakesNoMore
  <1>7. /\ buffs'[q] = got /\ \A c \in Chan : c # q => buffs'[c] = buffs[c]
        /\ BeforeOK' /\ AfterOK'
    <2>1. Advance(q, [buffs EXCEPT ![q] = got], Len(got))
      BY <1>1, <1>5
    <2> QED
      BY <1>2, <1>6, <2>1, GoesOn
  <1>8. FilledOK'
    <2> SUFFICES ASSUME NEW c \in Chan PROVE Runs(buffs'[c], Stamp)
      BY <1>1 DEF FilledOK
    <2>1. CASE c = q
      BY <1>2, <1>7, <2>1
    <2>2. CASE c > q
      <3>1. buffs'[c] = <<>>
        BY <1>4, <1>7, <2>2
      <3> QED
        BY <3>1 DEF Runs
    <2>3. CASE c < q
      <3>1. Stamp = requestTime /\ buffs'[c] = buffs[c]
        BY <1>1, <1>4, <1>7, <2>3 DEF Chan
      <3> QED
        BY <3>1 DEF BuffersOK, FilledOK
    <2> QED
      BY <1>4, <2>1, <2>2, <2>3
  <1>9. UnsetOK'
    <2>1. i' = q + 1
      <3>1. Len(([buffs EXCEPT ![q] = @ \o got])[q]) >= Len(got)
        BY <1>2, <1>3, <1>5
      <3> QED
        BY <1>1, <3>1 DEF Advance
    <2> SUFFICES ASSUME NEW c \in Chan, c >= q + 1 PROVE buffs'[c] = <<>>
      BY <2>1 DEF UnsetOK
    <2>2. c > q
      BY <1>4
    <2> QED
      BY <1>4, <1>7, <2>2
  <1>10. Replaces(q)
    <2>1. \A c \in Chan : Len(buffs[c]) \in Nat /\ Len(buffs'[c]) \in Nat
                          /\ Len(buffs'[c]) >= Len(buffs[c])
      <3> SUFFICES ASSUME NEW c \in Chan
                   PROVE  Len(buffs[c]) \in Nat /\ Len(buffs'[c]) \in Nat
                          /\ Len(buffs'[c]) >= Len(buffs[c])
        OBVIOUS
      <3>1. Len(buffs[c]) \in Nat
        BY TypeFacts DEF Basis
      <3>2. CASE c = q
        BY <1>2, <1>5, <1>7, <3>1, <3>2
      <3>3. CASE c # q
        BY <1>7, <3>1, <3>3
      <3> QED
        BY <3>2, <3>3
    <2>2. \A c \in Chan : End(c)' >= End(c) /\ End(c)' \in Nat
      BY <1>1, <1>2, <2>1 DEF End
    <2>3. End(q)' >= Stamp + Len(got)
      BY <1>1, <1>2, <1>7 DEF End
    <2>4. In(buffs'[q]) \subseteq In(buffs[q]) \cup In(got)
      BY <1>7
    <2>5. \A c \in Chan : c > q \/ c < q => buffs'[c] = buffs[c]
      BY <1>4, <1>7
    <2> QED
      BY <2>2, <2>3, <2>4, <2>5 DEF Replaces
  <1> QED
    BY <1>1, <1>2, <1>7, <1>8, <1>9, <1>10, KnownKept DEF BuffersOK

LEMMA ReadOKOn ==
    ASSUME Basis, Order, BuffersOK, ReadOn, ~misled'
    PROVE  BuffersOK'
  <1>1. /\ Returned /\ requestTime # 0 /\ requestTime' = requestTime /\ InARow
        /\ Stamp = requestTime + Len(buffs[i])
        /\ Advance(i, [buffs EXCEPT ![i] = @ \o got], numElems)
        /\ UNCHANGED <<board, active>>
    BY DEF ReadOn, Expected
  <1>2. /\ Wanting /\ got \in Seq(Nat) /\ Len(got) \in Nat \ {0} /\ Stamp \in Nat
        /\ Runs(got, Stamp)
    BY <1>1, ReturnedFacts
  <1>3. /\ buffs \in [Chan -> Seq(Nat)] /\ numElems \in Nat \ {0} /\ i \in Chan
        /\ requestTime \in Nat
    BY <1>2, WantingFacts
  <1> PICK q \in Chan : q = i
    BY <1>3
  <1>4. \A c \in Chan : c \in Nat /\ Len(buffs[c]) \in Nat /\ buffs[c] \in Seq(Nat)
    BY TypeFacts DEF Basis, Chan
  <1>5. Runs(buffs[q], requestTime)
    BY DEF BuffersOK, FilledOK
  <1>6. /\ buffs[q] \o got \in Seq(Nat) /\ Len(buffs[q] \o got) = Len(buffs[q]) + Len(got)
        /\ In(buffs[q] \o got) = In(buffs[q]) \cup In(got)
        /\ Runs(buffs[q] \o got, requestTime)
    <2>1. Runs(got, requestTime + Len(buffs[q])) /\ requestTime \in Int
      BY <1>1, <1>2, <1>3
    <2> QED
      BY <1>2, <1>4, <1>5, <2>1, Joined
  <1>7. /\ buffs'[q] = buffs[q] \o got /\ \A c \in Chan : c # q => buffs'[c] = buffs[c]
        /\ BeforeOK' /\ AfterOK'
    <2>1. Advance(q, [buffs EXCEPT ![q] = buffs[q] \o got], numElems)
      BY <1>1
    <2>2. numElems \in Nat /\ numElems <= numElems
      BY <1>3
    <2> QED
      BY <1>2, <1>6, <2>1, <2>2, GoesOn
  <1>8. FilledOK'
    BY <1>1, <1>6, <1>7 DEF BuffersOK, FilledOK
  <1>9. UnsetOK'
    BY <1>1 DEF UnsetOK
  <1>10. Replaces(q)
    <2>1. \A c \in Chan : Len(buffs'[c]) \in Nat /\ Len(buffs'[c]) >= Len(buffs[c])
      <3> SUFFICES ASSUME NEW c \in Chan
                   PROVE  Len(buffs'[c]) \in Nat /\ Len(buffs'[c]) >= Len(buffs[c])
        OBVIOUS
      <3>1. CASE c = q
        <4>1. Len(buffs'[c]) = Len(buffs[c]) + Len(got)
          BY <1>6, <1>7, <3>1
        <4> QED
          BY <1>2, <1>4, <4>1
      <3>2. CASE c # q
        BY <1>4, <1>7, <3>2
      <3> QED
        BY <3>1, <3>2
    <2>2. \A c \in Chan : End(c)' >= End(c) /\ End(c)' \in Nat
      BY <1>1, <1>3, <1>4, <2>1 DEF End
    <2>3. End(q)' >= Stamp + Len(got)
      <3>1. Len(buffs'[q]) = Len(buffs[q]) + Len(got)
        BY <1>6, <1>7
      <3> QED
        BY <1>1, <1>2, <1>3, <1>4, <3>1 DEF End
    <2>4. In(buffs'[q]) \subseteq In(buffs[q]) \cup In(got)
      BY <1>6, <1>7
    <2>5. \A c \in Chan : c > q \/ c < q => buffs'[c] = buffs[c]
      BY <1>4, <1>7
    <2> QED
      BY <2>2, <2>3, <2>4, <2>5 DEF Replaces
  <1> QED
    BY <1>1, <1>2, <1>7, <1>8, <1>9, <1>10, KnownKept DEF BuffersOK

LEMMA ReadOKEarly ==
    ASSUME Basis, Order, BuffersOK, ReadEarly, pc' = "read", ~misled'
    PROVE  BuffersOK'
  <1>1. /\ Returned /\ requestTime # 0 /\ requestTime' = requestTime /\ InARow
        /\ Stamp < requestTime + Len(buffs[i]) /\ UNCHANGED <<board, active>>
    BY DEF ReadEarly, Expected
  <1>2. /\ Wanting /\ got \in Seq(Nat) /\ Len(got) \in Nat \ {0} /\ Stamp \in Nat
        /\ Runs(got, Stamp)
    BY <1>1, ReturnedFacts
  <1>3. /\ buffs \in [Chan -> Seq(Nat)] /\ numElems \in Nat \ {0} /\ i \in Chan
        /\ requestTime \in Nat /\ Len(got) <= numElems
    BY <1>1, <1>2, WantingFacts, TakesNoMore
  <1> PICK q \in Chan : q = i
    BY <1>3
  <1>4. \A c \in Chan : c \in Nat /\ Len(buffs[c]) \in Nat
    BY TypeFacts DEF Basis, Chan
  <1>5. ~GivesUp
    BY DEF GivesUp
  <1> PICK left \in Seq(Nat), wanted \in Nat \ {0} : CatchesUp(q, left, wanted)
    BY <1>5, EarlyFacts
  <1>6. /\ buffs[q] = <<>> /\ left = FastForward(got, Stamp, requestTime)
        /\ wanted = IF q = 1 /\ left # <<>> THEN Len(left) ELSE numElems
        /\ Advance(q, [buffs EXCEPT ![q] = left], wanted)
    BY DEF CatchesUp
  <1>7. Stamp < requestTime /\ Stamp \in Int /\ requestTime \in Int /\ requestTime >= Stamp
    <2>1. Len(buffs[q]) = 0
      BY <1>6
    <2> QED
      BY <1>1, <1>2, <1>3, <2>1
  <1>8. /\ Len(left) = IF requestTime - Stamp <= Len(got) THEN Len(got) - (requestTime - Stamp)
                                                          ELSE 0
        /\ In(left) \subseteq In(got) /\ Runs(left, requestTime)
    BY <1>2, <1>6, <1>7, Forwards
  <1>9. Len(left) \in Nat /\ Len(left) <= Len(got) /\ requestTime + Len(left) >= Stamp + Len(got)
    <2>1. CASE requestTime - Stamp <= Len(got)
      <3>1. Len(left) = Len(got) - (requestTime - Stamp)
        BY <1>8, <2>1
      <3> QED
        BY <1>2, <1>3, <1>7, <2>1, <3>1
    <2>2. CASE ~(requestTime - Stamp <= Len(got))
      <3>1. Len(left) = 0
        BY <1>8, <2>2
      <3> QED
        BY <1>2, <1>3, <1>7, <2>2, <3>1
    <2> QED
      BY <2>1, <2>2
  <1>10. wanted <= numElems
    BY <1>2, <1>3, <1>6, <1>9
  <1>11. /\ buffs'[q] = left /\ \A c \in Chan : c # q => buffs'[c] = buffs[c]
         /\ BeforeOK' /\ AfterOK'
    BY <1>2, <1>6, <1>10, GoesOn
  <1>12. FilledOK'
    BY <1>1, <1>8, <1>11 DEF BuffersOK, FilledOK
  <1>13. UnsetOK'
    BY <1>1 DEF UnsetOK
  <1>14. Replaces(q)
    <2>1. \A c \in Chan : Len(buffs'[c]) \in Nat /\ Len(buffs'[c]) >= Len(buffs[c])
      <3> SUFFICES ASSUME NEW c \in Chan
                   PROVE  Len(buffs'[c]) \in Nat /\ Len(buffs'[c]) >= Len(buffs[c])
        OBVIOUS
      <3>1. CASE c = q
        <4>1. Len(buffs[c]) = 0
          BY <1>6, <3>1
        <4> QED
          BY <1>9, <1>11, <3>1, <4>1
      <3>2. CASE c # q
        BY <1>4, <1>11, <3>2
      <3> QED
        BY <3>1, <3>2
    <2>2. \A c \in Chan : End(c)' >= End(c) /\ End(c)' \in Nat
      BY <1>1, <1>3, <1>4, <2>1 DEF End
    <2>3. End(q)' >= Stamp + Len(got)
      BY <1>1, <1>9, <1>11 DEF End
    <2>4. In(buffs'[q]) \subseteq In(buffs[q]) \cup In(got)
      BY <1>8, <1>11
    <2>5. \A c \in Chan : c > q \/ c < q => buffs'[c] = buffs[c]
      BY <1>4, <1>11
    <2> QED
      BY <2>2, <2>3, <2>4, <2>5 DEF Replaces
  <1> QED
    BY <1>1, <1>2, <1>11, <1>12, <1>13, <1>14, KnownKept DEF BuffersOK

\* A late Read finds the channels after it empty: what one of them has beyond the end of
\* this one would still be here to be read.
LEMMA LateFindsNothing ==
    ASSUME Basis, Order, BuffersOK, Returned, Stamp > Expected, NEW q \in Chan, q = i,
           NEW c \in Chan, c > q
    PROVE  buffs[c] = <<>>
  <1>1. /\ Wanting /\ got \in Seq(Nat) /\ Len(got) \in Nat \ {0} /\ Stamp \in Nat
        /\ Stamp \in In(got) /\ got # <<>> /\ Rising(got)
        /\ \A x \in In(got) : x < Upcoming(i) /\ \A y \in In(fifo[i]) : x < y
    BY ReturnedFacts DEF Order, GotRises, Returned
  <1>2. /\ requestTime \in Nat /\ numElems \in Nat /\ Channels \in Nat /\ now \in Nat
        /\ next \in 1..Channels /\ PktSize \in Nat /\ q \in Nat
        /\ \A d \in Chan : d \in 1..Channels /\ Len(buffs[d]) \in Nat
    <2>1. requestTime \in Nat /\ numElems \in Nat /\ Channels \in Nat /\ q \in Nat
      BY <1>1, WantingFacts
    <2>2. /\ now \in Nat /\ next \in 1..Channels /\ PktSize \in Nat
          /\ \A d \in Chan : Len(buffs[d]) \in Nat
      BY TypeFacts DEF Basis
    <2> QED
      BY <2>1, <2>2 DEF Chan
  <1> SUFFICES ASSUME buffs[c] # <<>> PROVE FALSE
    OBVIOUS
  <1> PICK d \in Chan : d >= c /\ Len(buffs[d]) >= numElems
    BY DEF BuffersOK, AfterOK
  <1> DEFINE e == End(q)
  <1>3. e \in Nat /\ Stamp > e /\ e = requestTime + Len(buffs[q])
    BY <1>2 DEF Expected, End
  <1>4. d > q /\ q < Channels
    BY <1>2
  <1>5. e \in In(buffs[d])
    <2>1. Len(buffs[q]) + 1 \in 1..Len(buffs[d])
      <3>1. Len(buffs[q]) < numElems
        BY <1>1 DEF Wanting
      <3> QED
        BY <1>2, <3>1
    <2>2. buffs[d][Len(buffs[q]) + 1] = requestTime + (Len(buffs[q]) + 1) - 1
      BY <2>1 DEF BuffersOK, FilledOK, Runs
    <2>3. buffs[d][Len(buffs[q]) + 1] = e
      BY <1>2, <1>3, <2>2
    <2> QED
      BY <2>1, <2>3 DEF In
  <1>6. IsKnown(q, e)
    BY <1>4, <1>5 DEF IsKnown
  <1>7. Touched(q)
    <2>1. buffs[d] # <<>>
      BY <1>5 DEF In
    <2>2. d >= q
      BY <1>2, <1>4
    <2> QED
      BY <2>1, <2>2 DEF Touched
  <1>8. IsOwed(q, e) \/ e \in In(got)
    <2>1. e >= End(q)
      BY <1>3
    <2> HIDE DEF e
    <2> QED
      BY <1>3, <1>4, <1>6, <1>7, <2>1 DEF BuffersOK, KnownOK, IsLeft
  <1> HIDE DEF e
  <1>9. e \notin In(got)
    <2> SUFFICES ASSUME NEW k \in 1..Len(got), got[k] = e PROVE FALSE
      BY DEF In
    <2>1. got[1] <= got[k] /\ got[1] \in Nat
      <3>1. 1 \in 1..Len(got) /\ got[1] \in Nat
        BY <1>1
      <3>2. CASE k = 1
        BY <3>1, <3>2
      <3>3. CASE k # 1
        <4>1. 1 < k
          BY <3>3
        <4>2. got[1] < got[k] /\ got[k] \in Nat
          BY <1>1, <3>1, <4>1 DEF Rising
        <4> QED
          BY <3>1, <4>2
      <3> QED
        BY <3>2, <3>3
    <2> QED
      BY <1>3, <2>1 DEF Stamp
  <1>10. e \notin In(fifo[q])
    BY <1>1, <1>3
  <1>11. ~(IsCurrent(e) /\ next <= q)
    <2> SUFFICES ASSUME e \in Packet, next <= q PROVE FALSE
      BY DEF IsCurrent
    <2>1. Stamp < now
      BY <1>1, <1>2 DEF Upcoming
    <2>2. e >= now
      BY <1>2, <1>3 DEF Packet
    <2>3. e \in Nat /\ Stamp \in Nat /\ now \in Nat /\ e < Stamp
      BY <1>1, <1>2, <1>3
    <2> QED
      BY <2>1, <2>2, <2>3
  <1> QED
    BY <1>8, <1>9, <1>10, <1>11 DEF IsOwed

LEMMA ReadOKLate ==
    ASSUME Basis, Order, BuffersOK, ReadLate, ~misled'
    PROVE  BuffersOK'
  <1>1. /\ Returned /\ requestTime # 0 /\ requestTime' = Stamp /\ InARow /\ Stamp > Expected
        /\ Advance(1, Forwarded, Len(got)) /\ UNCHANGED <<board, active>>
    BY DEF ReadLate
  <1>2. /\ Wanting /\ got \in Seq(Nat) /\ Len(got) \in Nat \ {0} /\ Stamp \in Nat
        /\ Runs(got, Stamp)
    BY <1>1, ReturnedFacts
  <1>3. /\ buffs \in [Chan -> Seq(Nat)] /\ i \in Chan /\ Channels \in Nat \ {0}
        /\ requestTime \in Nat
    BY <1>2, WantingFacts
  <1> PICK q \in Chan : q = i
    BY <1>3
  <1>4. /\ \A c \in Chan : c \in 1..Channels /\ Len(buffs[c]) \in Nat /\ buffs[c] \in Seq(Nat)
        /\ 1 \in Chan
    BY TypeFacts DEF Basis, Chan
  <1>5. Stamp > requestTime + Len(buffs[q]) /\ Stamp > requestTime /\ Stamp >= requestTime
    <2>1. Stamp > requestTime + Len(buffs[q])
      BY <1>1 DEF Expected
    <2> QED
      BY <1>2, <1>3, <1>4, <2>1
  <1>6. /\ Forwarded \in [Chan -> Seq(Nat)] /\ Forwarded[q] = got
        /\ \A c \in Chan : /\ c < q => Forwarded[c] = FastForward(buffs[c], requestTime, Stamp)
                           /\ c > q => Forwarded[c] = buffs[c]
    BY <1>2, <1>5, ForwardedFacts
  <1>7. /\ buffs' = Forwarded /\ numElems' = Len(got)
        /\ i' = 1 \/ (i' = 2 /\ Len(Forwarded[1]) >= Len(got))
    <2>1. Len(got) \in Nat
      BY <1>2
    <2> PICK f \in [Chan -> Seq(Nat)] : f = Forwarded
      BY <1>6
    <2>2. Advance(1, f, Len(got))
      BY <1>1
    <2>3. /\ buffs' = f /\ numElems' = Len(got)
          /\ i' = 1 \/ (i' = 1 + 1 /\ Len(f[1]) >= Len(got))
      BY <1>3, <1>4, <2>1, <2>2, Advances
    <2> QED
      BY <2>3
  <1>8. buffs'[q] = got /\ \A c \in Chan : c > q => buffs'[c] = <<>> /\ buffs[c] = <<>>
    BY <1>1, <1>6, <1>7, LateFindsNothing
  <1>9. ASSUME NEW c \in Chan, c < q
        PROVE  /\ Runs(buffs'[c], Stamp) /\ In(buffs'[c]) \subseteq In(buffs[c])
               /\ Len(buffs'[c]) \in Nat /\ Stamp + Len(buffs'[c]) >= requestTime + Len(buffs[c])
    <2>1. buffs'[c] = FastForward(buffs[c], requestTime, Stamp)
      BY <1>6, <1>7, <1>9
    <2>2. Runs(buffs[c], requestTime) /\ requestTime \in Int /\ Stamp \in Int
      BY <1>2, <1>3 DEF BuffersOK, FilledOK
    <2> DEFINE f == FastForward(buffs[c], requestTime, Stamp)
    <2>5. buffs[c] \in Seq(Nat) /\ Stamp >= requestTime
      BY <1>4, <1>5
    <2>6. /\ Runs(f, Stamp) /\ In(f) \subseteq In(buffs[c])
          /\ Len(f) = IF Stamp - requestTime <= Len(buffs[c])
                      THEN Len(buffs[c]) - (Stamp - requestTime) ELSE 0
      BY <2>2, <2>5, Forwards
    <2> HIDE DEF f
    <2>7. buffs'[c] = f
      BY <2>1 DEF f
    <2>3. /\ Runs(buffs'[c], Stamp) /\ In(buffs'[c]) \subseteq In(buffs[c])
          /\ Len(buffs'[c]) = IF Stamp - requestTime <= Len(buffs[c])
                              THEN Len(buffs[c]) - (Stamp - requestTime) ELSE 0
      BY <2>6, <2>7
    <2>4. Len(buffs'[c]) \in Nat /\ Stamp + Len(buffs'[c]) >= requestTime + Len(buffs[c])
      <3>1. Len(buffs[c]) \in Nat
        BY <1>4
      <3>2. CASE Stamp - requestTime <= Len(buffs[c])
        <4>1. Len(buffs'[c]) = Len(buffs[c]) - (Stamp - requestTime)
          BY <2>3, <3>2
        <4> QED
          BY <1>2, <1>3, <3>1, <3>2, <4>1
      <3>3. CASE ~(Stamp - requestTime <= Len(buffs[c]))
        <4>1. Len(buffs'[c]) = 0
          BY <2>3, <3>3
        <4> QED
          BY <1>2, <1>3, <3>1, <3>3, <4>1
      <3> QED
        BY <3>2, <3>3
    <2> QED
      BY <2>3, <2>4
  <1>10. FilledOK'
    <2> SUFFICES ASSUME NEW c \in Chan PROVE Runs(buffs'[c], Stamp)
      BY <1>1 DEF FilledOK
    <2>1. CASE c = q
      BY <1>2, <1>8, <2>1
    <2>2. CASE c > q
      <3>1. buffs'[c] = <<>>
        BY <1>8, <2>2
      <3> QED
        BY <3>1 DEF Runs
    <2>3. CASE c < q
      BY <1>9, <2>3
    <2> QED
      BY <1>4, <2>1, <2>2, <2>3
  <1>11. BeforeOK'
    <2> SUFFICES ASSUME NEW c \in Chan, c < i' PROVE Len(buffs'[c]) >= Len(got)
      BY <1>7 DEF BeforeOK
    <2>1. c = 1 /\ i' = 2
      BY <1>4, <1>7
    <2> QED
      BY <1>7, <2>1
  <1>12. AfterOK'
    <2> SUFFICES ASSUME NEW c \in Chan, buffs'[c] # <<>>
                 PROVE  \E d \in Chan : d >= c /\ Len(buffs'[d]) >= Len(got)
      BY <1>7 DEF AfterOK
    <2>1. ~(c > q)
      BY <1>8
    <2>2. q >= c /\ Len(buffs'[q]) >= Len(got)
      BY <1>2, <1>4, <1>8, <2>1
    <2> QED
      BY <2>2
  <1>13. UnsetOK'
    BY <1>1, <1>2, <1>3, <1>5 DEF UnsetOK
  <1>14. Replaces(q)
    <2>1. \A c \in Chan : End(c)' >= End(c) /\ End(c)' \in Nat
      <3> SUFFICES ASSUME NEW c \in Chan
                   PROVE  /\ Stamp + Len(buffs'[c]) >= requestTime + Len(buffs[c])
                          /\ Len(buffs'[c]) \in Nat
        BY <1>1, <1>2 DEF End
      <3>1. CASE c = q
        BY <1>2, <1>3, <1>4, <1>5, <1>8, <3>1
      <3>2. CASE c > q
        <4>1. Len(buffs'[c]) = 0 /\ Len(buffs[c]) = 0
          BY <1>8, <3>2
        <4> QED
          BY <1>2, <1>3, <1>5, <4>1
      <3>3. CASE c < q
        BY <1>9, <3>3
      <3> QED
        BY <1>4, <3>1, <3>2, <3>3
    <2>2. End(q)' >= Stamp + Len(got)
      BY <1>1, <1>2, <1>8 DEF End
    <2>3. In(buffs'[q]) \subseteq In(buffs[q]) \cup In(got)
      BY <1>8
    <2>4. \A c \in Chan : c > q => buffs'[c] = buffs[c]
      BY <1>8
    <2>5. \A c \in Chan : c < q => In(buffs'[c]) \subseteq In(buffs[c])
      BY <1>9
    <2> QED
      BY <2>1, <2>2, <2>3, <2>4, <2>5 DEF Replaces
  <1> QED
    BY <1>1, <1>2, <1>10, <1>11, <1>12, <1>13, <1>14, KnownKept DEF BuffersOK

-----------------------------------------------------------------------------
\* What readStream answers.

AnswerOK ==
    pc = "done" /\ ret > 0 /\ ~misled =>
        /\ \A c \in Chan : ret <= Len(buffs[c]) /\ Runs(buffs[c], requestTime)
        /\ command.timed /\ returned = ret => requestTime = command.ticks

LEMMA ReadOKStep ==
    ASSUME MayOverflow \subseteq {Channels}, Basis, Order, ReadOK, [Next]_vars
    PROVE  ReadOK'
  <1>1. CASE Receive \/ Drop
    BY <1>1, ReadOKBoard
  <1>2. CASE \E count \in Counts : ReadStream(count)
    BY <1>2, ReadOKBegin DEF ReadOK
  <1>3. CASE Skip
    <2>1. pc = "read" /\ misled' = misled
      BY <1>3 DEF Skip, history
    <2> QED
      BY <1>3, <2>1, ReadOKSkip DEF ReadOK
  <1>4. CASE PopSamples
    <2>1. pc = "read" /\ misled' = misled
      BY <1>4 DEF PopSamples, Wanting, history
    <2> QED
      BY <1>4, <2>1, ReadOKPop DEF ReadOK
  <1>5. CASE ReadHead \/ ReadOn \/ ReadEarly \/ ReadLate
    <2>1. pc = "read" /\ (~misled' => ~misled)
      BY <1>5 DEF ReadHead, ReadOn, ReadEarly, ReadLate, Returned, Wanting
    <2> SUFFICES ASSUME pc' = "read", ~misled', BuffersOK PROVE BuffersOK'
      BY <2>1 DEF ReadOK
    <2> QED
      BY <1>5, ReadOKHead, ReadOKOn, ReadOKEarly, ReadOKLate
  <1>6. CASE \/ \E cmd \in Commands : Activate(cmd)
             \/ Start \/ NoCommand \/ ReadNothing \/ RefuseTime \/ Return \/ Leave \/ Deactivate
    <2>1. pc' # "read"
      BY <1>6 DEF Activate, Start, NoCommand, ReadNothing, RefuseTime, Return, Leave, Deactivate
    <2> QED
      BY <2>1 DEF ReadOK
  <1>7. CASE UNCHANGED vars
    <2>1. UNCHANGED <<now, next, fifo, active, pc, misled, i, numElems, requestTime, buffs, got>>
      BY <1>7 DEF vars, board, local, history
    <2>2. BuffersOK => FilledOK' /\ BeforeOK' /\ AfterOK' /\ UnsetOK'
      BY <2>1 DEF BuffersOK, FilledOK, BeforeOK, AfterOK, UnsetOK
    <2>3. BuffersOK => KnownOK'
      BY <2>1 DEF BuffersOK, KnownOK, Touched, End, IsKnown, IsLeft, IsBehind, IsOwed, IsCurrent,
                  Packet
    <2> QED
      BY <2>1, <2>2, <2>3 DEF ReadOK, BuffersOK
  <1> QED
    BY <1>1, <1>2, <1>3, <1>4, <1>5, <1>6, <1>7 DEF Next, CallStep

LEMMA AnswerStep ==
    ASSUME Basis, ReadOK, AnswerOK, [Next]_vars
    PROVE  AnswerOK'
  <1>1. CASE Receive \/ Drop \/ UNCHANGED vars
    BY <1>1 DEF Receive, Drop, vars, AnswerOK, local, answer, history
  <1>2. CASE \/ \E cmd \in Commands : Activate(cmd)
             \/ \E count \in Counts : ReadStream(count)
             \/ Start \/ Deactivate \/ Leave
    <2>1. pc' # "done"
      BY <1>2 DEF Activate, ReadStream, Start, Deactivate, Leave
    <2> QED
      BY <2>1 DEF AnswerOK
  <1>3. CASE Skip \/ PopSamples \/ ReadOn \/ ReadHead \/ ReadLate
    <2>1. pc' = "read"
      BY <1>3 DEF Skip, PopSamples, ReadOn, ReadHead, ReadLate, Returned, Wanting
    <2> QED
      BY <2>1 DEF AnswerOK
  <1>4. CASE ReadEarly
    <2>1. pc' = "read" \/ ret' = -3
      BY <1>4 DEF ReadEarly, Returned, Wanting, Corruption
    <2> QED
      BY <2>1 DEF AnswerOK
  <1>5. CASE NoCommand \/ ReadNothing \/ RefuseTime
    <2>1. ret' \in {-1, -2, -4}
      BY <1>5 DEF NoCommand, ReadNothing, RefuseTime, Timeout, TimeError, StreamError
    <2> QED
      BY <2>1 DEF AnswerOK
  <1>6. CASE Return
    <2> SUFFICES ASSUME ~misled'
                 PROVE  /\ \A c \in Chan : ret' <= Len(buffs'[c]) /\ Runs(buffs'[c], requestTime')
                        /\ command'.timed /\ returned' = ret' => requestTime' = command'.ticks
      BY DEF AnswerOK
    <2> PICK n \in 1..numElems : Returning(n)
      BY <1>6, ReturnFacts
    <2>1. /\ pc = "read" /\ hasCmd /\ i > Channels /\ ret' = n /\ returned' = returned + n
          /\ (timed => timeTicks = requestTime)
          /\ UNCHANGED <<buffs, requestTime, command, misled>>
      BY DEF Returning, local
    <2>2. /\ numElems \in Nat /\ returned \in Nat /\ i \in Nat /\ Channels \in Nat
          /\ \A c \in Chan : c \in 1..Channels /\ Len(buffs[c]) \in Nat
      BY TypeFacts DEF Basis, TypeInv, Chan
    <2>3. BuffersOK
      BY <2>1 DEF ReadOK
    <2>4. ASSUME NEW c \in Chan
          PROVE  ret' <= Len(buffs'[c]) /\ Runs(buffs'[c], requestTime')
      <3>1. c < i
        BY <2>1, <2>2
      <3>2. Len(buffs[c]) >= numElems
        BY <2>3, <3>1 DEF BuffersOK, BeforeOK
      <3>3. n <= Len(buffs[c])
        BY <2>2, <3>2
      <3>4. Runs(buffs[c], requestTime)
        BY <2>3 DEF BuffersOK, FilledOK
      <3> QED
        BY <2>1, <3>3, <3>4
    <2>5. ASSUME command'.timed, returned' = ret'
          PROVE  requestTime' = command'.ticks
      <3>1. returned = 0
        BY <2>1, <2>2, <2>5
      <3>2. timed /\ timeTicks = command.ticks
        BY <2>1, <2>5, <3>1 DEF Basis, CommandOK
      <3> QED
        BY <2>1, <3>2
    <2> QED
      BY <2>4, <2>5
  <1> QED
    BY <1>1, <1>2, <1>3, <1>4, <1>5, <1>6 DEF Next, CallStep

LEMMA AnswersHold ==
    ASSUME MayOverflow \subseteq {Channels}
    PROVE  Spec => [](Basis /\ AnswerOK)
  <1>1. Init => Basis /\ Order /\ ReadOK /\ AnswerOK
    <2>1. Init => ReadOK /\ AnswerOK
      BY DEF Init, ReadOK, AnswerOK
    <2> QED
      BY <2>1, BasisInit, OrderInit
  <1>2. Basis /\ Order /\ ReadOK /\ AnswerOK /\ [Next]_vars
            => Basis' /\ Order' /\ ReadOK' /\ AnswerOK'
    BY BasisStep, OrderStep, ReadOKStep, AnswerStep
  <1> QED
    BY <1>1, <1>2, PTL DEF Spec

\* However many channels there are, and whatever packets the board or the FIFO that is
\* read last loses: every sample returned is where its time says, unless a time has misled
\* the call.
THEOREM ChannelsAligned ==
    ASSUME MayOverflow \subseteq {Channels}
    PROVE  Spec => []SamplesAreWhereTheyBelong
  <1>1. Basis /\ AnswerOK => SamplesAreWhereTheyBelong
    <2> SUFFICES ASSUME Basis, AnswerOK, pc = "done", ret > 0, ~misled,
                        NEW c \in Chan, NEW k \in 1..ret
                 PROVE  buffs[c][k] = requestTime + k - 1
      BY DEF SamplesAreWhereTheyBelong
    <2>1. ret <= Len(buffs[c]) /\ Runs(buffs[c], requestTime)
      BY DEF AnswerOK
    <2>2. Len(buffs[c]) \in Nat /\ ret \in Int
      BY TypeFacts DEF Basis, TypeInv
    <2>3. k \in 1..Len(buffs[c])
      BY <2>1, <2>2
    <2> QED
      BY <2>1, <2>3 DEF Runs
  <1> QED
    BY <1>1, AnswersHold, PTL

\* And what a timed command returns first begins exactly at its time, in every channel.
THEOREM TimedOnTime ==
    ASSUME MayOverflow \subseteq {Channels}
    PROVE  Spec => []TimedStartsOnTime
  <1>1. Basis /\ AnswerOK => TimedStartsOnTime
    <2> SUFFICES ASSUME Basis, AnswerOK, pc = "done", ret > 0, ~misled, command.timed,
                        returned = ret, NEW c \in Chan
                 PROVE  buffs[c][1] = command.ticks
      BY DEF TimedStartsOnTime
    <2>1. /\ ret <= Len(buffs[c]) /\ Runs(buffs[c], requestTime)
          /\ requestTime = command.ticks
      BY DEF AnswerOK
    <2>2. Len(buffs[c]) \in Nat /\ ret \in Int /\ requestTime \in Nat
      BY TypeFacts DEF Basis, TypeInv
    <2>3. 1 \in 1..Len(buffs[c])
      BY <2>1, <2>2
    <2>4. buffs[c][1] = requestTime + 1 - 1
      BY <2>1, <2>3 DEF Runs
    <2> QED
      BY <2>1, <2>2, <2>4
  <1> QED
    BY <1>1, AnswersHold, PTL
=============================================================================
