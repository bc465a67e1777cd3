--------------------------- MODULE LMS7002M_proofs ----------------------------
(***************************************************************************)
(* The class LMS7002M, for every value of the constants: its registers and *)
(* their map (ChipRegisters), then its oscillators (VcoTuning).  The two   *)
(* modules share no name and no state; both are extended here.             *)
(*                                                                         *)
(* Registers.  If selecting a channel is reliable the map and the chip     *)
(* agree once UploadAll, DownloadAll, LoadConfig or a copy has returned    *)
(* without an error (SuccessIsSame), and a call that goes through both     *)
(* channels leaves both with the same one selected, the one that was       *)
(* unless it could not be read (ChannelIsRestored); reads, that of 0x0020  *)
(* among them, may fail. RegistersTest restores what it overwrites unless  *)
(* the link fails in it (TestIsRestored), if that or if those reads do not *)
(* fail.                                                                   *)
(*                                                                         *)
(* The argument is by position.  A call is a script, and Stage(op, n) says *)
(* what holds before its n-th step: which channel is selected in the chip  *)
(* and in the map, which places of the two agree already, and what the     *)
(* call remembers.  One lemma for each kind of step says what it does to   *)
(* chip and map, and one for each call takes Stage from a step to the      *)
(* next, through the failures that end the call early too.                 *)
(*                                                                         *)
(* Oscillators.  The searches of TuneVCO and TuneCGENVCO find a code that  *)
(* locks, in the middle of the interval of those that do or well inside it *)
(* (MiddleIsFound), and SetFrequencySX leaves a VCO that locks when it     *)
(* returns 0 (FrequencyIsLocked).                                          *)
(*                                                                         *)
(* A search is followed bit by bit.  Tried(r, t, b, s) says, of a half of  *)
(* the codes of an SX, that high is less than b below the last code that   *)
(* is not too high, and Near(r, m, code), of the CGEN, that less than m    *)
(* is left to a code that locks; each bit halves b, or m.  The attempts of *)
(* SetFrequencySX then only need what its scores say (AttemptOK).          *)
(***************************************************************************)
EXTENDS ChipRegisters, VcoTuning, SequenceTheorems, TLAPS

Places == {"MAC", "G", "A", "B"}

\* Maps of registers.
Map == {m \in [Places -> Macs \cup Values] :
           m["MAC"] \in Macs /\ \A p \in {"G", "A", "B"} : m[p] \in Values}

\* What a batch takes its values from.
Source == {m \in [Places -> Macs \cup Values] : \A p \in {"G", "A", "B"} : m[p] \in Values}

LEMMA DefaultsMap ==
    /\ Defaults \in Map
    /\ Defaults["MAC"] = "A"
    /\ \A p \in {"G", "A", "B"} : Defaults[p] = 0
  BY RegistersAssumption DEF Defaults, Map, Places, Macs, Channels

\* A batch is written with mac selected.
Selected(m, batch, mac) ==
    mac = IF batch # <<>> /\ batch[1].addr = "MAC" THEN batch[1].data ELSE m["MAC"]

\* What a write to each place leaves there.
LEMMA WrittenAt ==
    ASSUME NEW m \in Map, NEW batch, NEW mac, NEW p \in Places, NEW k \in DOMAIN batch,
           Selected(m, batch, mac),
           Place(batch[k].addr, mac) = p,
           \A j \in DOMAIN batch : Place(batch[j].addr, mac) = p => j = k
    PROVE  Written(m, batch)[p] = batch[k].data
  <1> DEFINE Sets(j) == Place(batch[j].addr, mac) = p
  <1>1. DOMAIN m = Places
    BY DEF Map
  <1>2. Written(m, batch)[p] = IF \E j \in DOMAIN batch : Sets(j)
                               THEN batch[CHOOSE j \in DOMAIN batch : Sets(j)].data
                               ELSE m[p]
    BY <1>1 DEF Written, Selected
  <1>3. Sets(k) /\ \A j \in DOMAIN batch : Sets(j) => j = k
    OBVIOUS
  <1> HIDE DEF Sets
  <1>4. (CHOOSE j \in DOMAIN batch : Sets(j)) = k
    BY <1>3
  <1> QED
    BY <1>2, <1>3, <1>4

LEMMA WrittenNot ==
    ASSUME NEW m \in Map, NEW batch, NEW mac, NEW p \in Places,
           Selected(m, batch, mac),
           \A j \in DOMAIN batch : Place(batch[j].addr, mac) # p
    PROVE  Written(m, batch)[p] = m[p]
  <1>1. DOMAIN m = Places
    BY DEF Map
  <1> QED
    BY <1>1 DEF Written, Selected

\* A batch leaves a map a map, and selects no other channel than it names.
LEMMA WrittenType ==
    ASSUME NEW m \in Map, NEW batch, NEW x \in Macs,
           batch = <<>> \/ 1 \in DOMAIN batch,
           \A k \in DOMAIN batch : \/ batch[k].addr = "MAC" /\ batch[k].data = x
                                   \/ batch[k].addr \in {"G", "M"} /\ batch[k].data \in Values
    PROVE  Written(m, batch) \in Map /\ Written(m, batch)["MAC"] \in {m["MAC"], x}
  <1> DEFINE mac == IF batch # <<>> /\ batch[1].addr = "MAC" THEN batch[1].data ELSE m["MAC"]
             Sets(k, p) == Place(batch[k].addr, mac) = p
             w == Written(m, batch)
  <1>1. DOMAIN m = Places /\ m["MAC"] \in Macs /\ \A p \in {"G", "A", "B"} : m[p] \in Values
    BY DEF Map
  <1>2. w = [p \in Places |-> IF \E k \in DOMAIN batch : Sets(k, p)
                              THEN batch[CHOOSE k \in DOMAIN batch : Sets(k, p)].data
                              ELSE m[p]]
    BY <1>1 DEF Written
  <1>3. mac \in Macs
    BY <1>1 DEF Macs, Channels
  <1>4. ASSUME NEW p \in Places
        PROVE  IF p = "MAC" THEN w[p] \in {m[p], x} ELSE w[p] \in Values
    <2>1. CASE \E k \in DOMAIN batch : Sets(k, p)
      <3>1. PICK k \in DOMAIN batch : Sets(k, p) /\ w[p] = batch[k].data
        <4> DEFINE j == CHOOSE k \in DOMAIN batch : Sets(k, p)
        <4>1. j \in DOMAIN batch /\ Sets(j, p)
          BY <2>1
        <4>2. w[p] = batch[j].data
          BY <1>2, <2>1
        <4> QED
          BY <4>1, <4>2
      <3> QED
        BY <1>3, <3>1 DEF Place, Places, Macs, Channels
    <2>2. CASE ~ \E k \in DOMAIN batch : Sets(k, p)
      <3>1. w[p] = m[p]
        BY <1>2, <2>2
      <3> QED
        BY <1>1, <3>1 DEF Places
    <2> QED
      BY <2>1, <2>2
  <1> HIDE DEF w
  <1>5. w["MAC"] \in Macs /\ w["MAC"] \in {m["MAC"], x}
    BY <1>1, <1>4 DEF Places
  <1>6. \A p \in {"G", "A", "B"} : w[p] \in Values
    BY <1>4 DEF Places
  <1>7. w \in [Places -> Macs \cup Values]
    BY <1>2, <1>4, <1>1 DEF Places, w
  <1> QED
    BY <1>5, <1>6, <1>7 DEF Map, w

-----------------------------------------------------------------------------
\* What the steps do to chip and map.

Synced == chip["MAC"] = cache["MAC"]
On(c) == chip["MAC"] = c /\ cache["MAC"] = c

\* Places that a batch of WritesOf(c, ...) writes when c is selected.
Of(c) == IF c = "A" THEN {"A", "G"} ELSE {"B"}

LEMMA Batches ==
    ASSUME NEW c \in Channels, NEW src \in Source
    PROVE  LET w == WritesOf(c, src)
           IN  /\ DOMAIN w = (IF c = "A" THEN {1, 2} ELSE {1}) /\ w # <<>>
               /\ c = "A" => /\ w[1].addr = "G" /\ w[1].data = src["G"]
                             /\ w[2].addr = "M" /\ w[2].data = src["A"]
               /\ c = "B" => w[1].addr = "M" /\ w[1].data = src["B"]
               /\ \A k \in DOMAIN w : w[k].addr \in {"G", "M"} /\ w[k].data \in Values
  <1> DEFINE w == WritesOf(c, src)
  <1>0. src["G"] \in Values /\ src["A"] \in Values /\ src["B"] \in Values
    BY DEF Source
  <1>1. CASE c = "A"
    <2>1. Registers(c) = <<"G", "M">>
      BY <1>1 DEF Registers
    <2>2. DOMAIN Registers(c) = {1, 2}
      BY <2>1
    <2>3. w = [k \in {1, 2} |-> [addr |-> Registers(c)[k], data |-> src[Place(Registers(c)[k], c)]]]
      BY <2>2 DEF WritesOf
    <2>4. w[1] = [addr |-> "G", data |-> src["G"]] /\ w[2] = [addr |-> "M", data |-> src["A"]]
      BY <1>1, <2>1, <2>3 DEF Place
    <2>5. DOMAIN w = {1, 2}
      BY <2>3
    <2> HIDE DEF w
    <2>6. w # <<>>
      <3>1. DOMAIN <<>> = {}
        OBVIOUS
      <3> QED
        BY <2>5, <3>1
    <2> QED
      BY <1>0, <1>1, <2>4, <2>5, <2>6 DEF w
  <1>2. CASE c = "B"
    <2>1. Registers(c) = <<"M">>
      BY <1>2 DEF Registers
    <2>2. DOMAIN Registers(c) = {1}
      BY <2>1
    <2>3. w = [k \in {1} |-> [addr |-> Registers(c)[k], data |-> src[Place(Registers(c)[k], c)]]]
      BY <2>2 DEF WritesOf
    <2>4. w[1] = [addr |-> "M", data |-> src["B"]]
      BY <1>2, <2>1, <2>3 DEF Place
    <2>5. DOMAIN w = {1}
      BY <2>3
    <2> HIDE DEF w
    <2>6. w # <<>>
      <3>1. DOMAIN <<>> = {}
        OBVIOUS
      <3> QED
        BY <2>5, <3>1
    <2> QED
      BY <1>0, <1>2, <2>4, <2>5, <2>6 DEF w
  <1> QED
    BY <1>1, <1>2 DEF Channels

\* WritesOf(c, src) written with c selected.
LEMMA WrittenWhole ==
    ASSUME NEW c \in Channels, NEW src \in Source, NEW m \in Map
    PROVE  LET w == Written(m, WritesOf(c, src))
           IN  /\ w \in Map /\ w["MAC"] = m["MAC"]
               /\ m["MAC"] = c => \A p \in {"G", "A", "B"} :
                     w[p] = IF p \in Of(c) THEN src[p] ELSE m[p]
  <1> DEFINE batch == WritesOf(c, src)
             w == Written(m, batch)
  <1>1. /\ DOMAIN batch = (IF c = "A" THEN {1, 2} ELSE {1}) /\ batch # <<>>
        /\ c = "A" => /\ batch[1].addr = "G" /\ batch[1].data = src["G"]
                      /\ batch[2].addr = "M" /\ batch[2].data = src["A"]
        /\ c = "B" => batch[1].addr = "M" /\ batch[1].data = src["B"]
        /\ \A k \in DOMAIN batch : batch[k].addr \in {"G", "M"} /\ batch[k].data \in Values
    BY Batches
  <1>2. m["MAC"] \in Macs
    BY DEF Map
  <1> HIDE DEF batch
  <1>3. w \in Map /\ w["MAC"] = m["MAC"]
    BY <1>1, <1>2, WrittenType DEF Channels
  <1>4. ASSUME m["MAC"] = c, NEW p \in {"G", "A", "B"}
        PROVE  w[p] = IF p \in Of(c) THEN src[p] ELSE m[p]
    <2>1. Selected(m, batch, c)
      BY <1>1, <1>4 DEF Channels, Selected
    <2>2. p \in Places
      BY DEF Places
    <2>3. CASE c = "A"
      <3>1. CASE p = "G"
        <4>1. Place(batch[1].addr, c) = p /\ Place(batch[2].addr, c) # p
          BY <1>1, <2>3, <3>1 DEF Place
        <4>2. 1 \in DOMAIN batch /\ \A j \in DOMAIN batch : Place(batch[j].addr, c) = p => j = 1
          BY <1>1, <2>3, <4>1
        <4>3. w[p] = batch[1].data
          BY <2>1, <2>2, <4>1, <4>2, WrittenAt
        <4> QED
          BY <1>1, <2>3, <3>1, <4>3 DEF Of
      <3>2. CASE p = "A"
        <4>1. Place(batch[2].addr, c) = p /\ Place(batch[1].addr, c) # p
          BY <1>1, <2>3, <3>2 DEF Place
        <4>2. 2 \in DOMAIN batch /\ \A j \in DOMAIN batch : Place(batch[j].addr, c) = p => j = 2
          BY <1>1, <2>3, <4>1
        <4>3. w[p] = batch[2].data
          BY <2>1, <2>2, <4>1, <4>2, WrittenAt
        <4> QED
          BY <1>1, <2>3, <3>2, <4>3 DEF Of
      <3>3. CASE p = "B"
        <4>1. Place(batch[2].addr, c) # p /\ Place(batch[1].addr, c) # p
          BY <1>1, <2>3, <3>3 DEF Place
        <4>2. \A j \in DOMAIN batch : Place(batch[j].addr, c) # p
          BY <1>1, <2>3, <4>1
        <4>3. w[p] = m[p]
          BY <2>1, <2>2, <4>2, WrittenNot
        <4> QED
          BY <2>3, <3>3, <4>3 DEF Of
      <3> QED
        BY <3>1, <3>2, <3>3
    <2>4. CASE c = "B"
      <3>1. CASE p = "B"
        <4>1. Place(batch[1].addr, c) = p
          BY <1>1, <2>4, <3>1 DEF Place
        <4>2. 1 \in DOMAIN batch /\ \A j \in DOMAIN batch : Place(batch[j].addr, c) = p => j = 1
          BY <1>1, <2>4
        <4>3. w[p] = batch[1].data
          <5> DEFINE k == 1
          <5>1. /\ k \in DOMAIN batch /\ Place(batch[k].addr, c) = p
                /\ \A j \in DOMAIN batch : Place(batch[j].addr, c) = p => j = k
            BY <4>1, <4>2
          <5> HIDE DEF k
          <5>2. w[p] = batch[k].data
            BY <2>1, <2>2, <5>1, WrittenAt
          <5> QED
            BY <5>2 DEF k
        <4> QED
          BY <1>1, <2>4, <3>1, <4>3 DEF Of
      <3>2. CASE p # "B"
        <4>1. Place(batch[1].addr, c) # p
          BY <1>1, <2>4, <3>2 DEF Place
        <4>2. \A j \in DOMAIN batch : Place(batch[j].addr, c) # p
          BY <1>1, <2>4, <4>1
        <4>3. w[p] = m[p]
          BY <2>1, <2>2, <4>2, WrittenNot
        <4> QED
          BY <2>4, <3>2, <4>3 DEF Of
      <3> QED
        BY <3>1, <3>2
    <2> QED
      BY <2>3, <2>4 DEF Channels
  <1> QED
    BY <1>3, <1>4 DEF batch

\* Batches that select no channel but x.
Writes == [addr : {"MAC", "G", "M"}, data : Macs \cup Values]
Entries(x) == {w \in Writes : \/ w.addr = "MAC" /\ w.data = x
                              \/ w.addr \in {"G", "M"} /\ w.data \in Values}

LEMMA EntriesWritten ==
    ASSUME NEW m \in Map, NEW x \in Macs, NEW batch \in Seq(Entries(x))
    PROVE  Written(m, batch) \in Map /\ Written(m, batch)["MAC"] \in {m["MAC"], x}
  <1>1. \A k \in DOMAIN batch : batch[k] \in Entries(x)
    BY ElementOfSeq, LenProperties
  <1>2. batch = <<>> \/ 1 \in DOMAIN batch
    <2>1. CASE Len(batch) = 0
      BY <2>1, EmptySeq
    <2>2. CASE Len(batch) # 0
      BY <2>2, LenProperties
    <2> QED
      BY <2>1, <2>2
  <1>3. \A k \in DOMAIN batch : \/ batch[k].addr = "MAC" /\ batch[k].data = x
                                \/ batch[k].addr \in {"G", "M"} /\ batch[k].data \in Values
    BY <1>1 DEF Entries
  <1> QED
    BY <1>2, <1>3, WrittenType

LEMMA MACEntries ==
    ASSUME NEW x \in Macs
    PROVE  /\ MACRegister(x) \in Seq(Entries(x)) /\ Len(MACRegister(x)) = 1
           /\ MACRegister(x)[1].addr = "MAC" /\ MACRegister(x)[1].data = x
  BY DEF MACRegister, Entries, Writes

LEMMA WritesEntries ==
    ASSUME NEW x \in Macs, NEW c \in Channels, NEW src \in Source
    PROVE  WritesOf(c, src) \in Seq(Entries(x))
  <1>0. src["G"] \in Values /\ src["A"] \in Values /\ src["B"] \in Values
    BY DEF Source
  <1> DEFINE n == IF c = "A" THEN 2 ELSE 1
  <1>1. /\ Registers(c) = IF c = "A" THEN <<"G", "M">> ELSE <<"M">>
        /\ DOMAIN Registers(c) = 1..n
    <2>1. DOMAIN <<"G", "M">> = 1..2 /\ DOMAIN <<"M">> = 1..1
      OBVIOUS
    <2> QED
      BY <2>1 DEF Registers
  <1>2. \A k \in 1..n : Registers(c)[k] \in {"G", "M"}
    BY <1>1
  <1>3. \A k \in 1..n : src[Place(Registers(c)[k], c)] \in Values
    BY <1>0, <1>2 DEF Place, Channels
  <1>4. WritesOf(c, src) = [k \in 1..n |->
             [addr |-> Registers(c)[k], data |-> src[Place(Registers(c)[k], c)]]]
    BY <1>1 DEF WritesOf
  <1>5. \A k \in 1..n : [addr |-> Registers(c)[k], data |-> src[Place(Registers(c)[k], c)]]
                           \in Entries(x)
    BY <1>2, <1>3 DEF Entries, Writes
  <1>6. n \in Nat
    OBVIOUS
  <1> QED
    BY <1>4, <1>5, <1>6

\* What the link does with a batch.
LEMMA BatchSent ==
    ASSUME NEW x \in Macs, NEW batch \in Seq(Entries(x)), NEW toChip \in BOOLEAN,
           NEW step, chip \in Map, cache \in Map,
           BatchWritten(batch, toChip) \/ BatchFails(batch, toChip, step)
    PROVE  /\ chip' \in Map /\ chip'["MAC"] \in {chip["MAC"], x}
           /\ cache' \in Map /\ cache'["MAC"] \in {cache["MAC"], x}
           /\ failed' \in {failed, TRUE}
           /\ BatchFails(batch, toChip, step) => failed' = TRUE /\ step \in Failing
  <1>1. ToSend(batch, toChip) \in Seq(Entries(x))
    BY DEF ToSend
  <1>2. \A n \in 0..Len(ToSend(batch, toChip)) :
           SubSeq(ToSend(batch, toChip), 1, n) \in Seq(Entries(x))
    BY <1>1, SubSeqProperties, LenProperties
  <1>3. cache' = Written(cache, batch)
    BY DEF BatchWritten, BatchFails
  <1>4. \E b \in Seq(Entries(x)) : chip' = Written(chip, b)
    BY <1>1, <1>2 DEF BatchWritten, BatchFails
  <1> QED
    BY <1>3, <1>4, EntriesWritten DEF BatchWritten, BatchFails

\* One write of 0x0020 changes nothing else.
LEMMA WrittenMAC ==
    ASSUME NEW m \in Map, NEW x \in Macs
    PROVE  LET w == Written(m, MACRegister(x))
           IN  /\ w \in Map /\ w["MAC"] = x
               /\ \A p \in {"G", "A", "B"} : w[p] = m[p]
  <1> DEFINE batch == MACRegister(x)
             w == Written(m, batch)
  <1>1. batch \in Seq(Entries(x)) /\ Len(batch) = 1 /\ batch[1].addr = "MAC" /\ batch[1].data = x
    BY MACEntries
  <1> HIDE DEF batch
  <1>2. DOMAIN batch = {1} /\ batch # <<>>
    BY <1>1, LenProperties, EmptySeq
  <1>3. w \in Map
    BY <1>1, EntriesWritten
  <1>4. Selected(m, batch, x)
    BY <1>1, <1>2 DEF Selected
  <1>5. \A j \in DOMAIN batch : Place(batch[j].addr, x) = "MAC"
    BY <1>1, <1>2 DEF Place
  <1>6. w["MAC"] = x
    <2> DEFINE k == 1
    <2>1. k \in DOMAIN batch /\ \A j \in DOMAIN batch : j = k
      BY <1>2
    <2>2. batch[k].data = x
      BY <1>1
    <2> HIDE DEF k
    <2> QED
      BY <1>4, <1>5, <2>1, <2>2, WrittenAt DEF Places
  <1>7. ASSUME NEW p \in {"G", "A", "B"}
        PROVE  w[p] = m[p]
    <2>1. \A j \in DOMAIN batch : Place(batch[j].addr, x) # p
      BY <1>5
    <2> QED
      BY <1>4, <2>1, WrittenNot DEF Places
  <1> QED
    BY <1>3, <1>6, <1>7 DEF batch

LEMMA CachedMAC ==
    ASSUME NEW x \in Macs, cache \in Map
    PROVE  Cached(MACRegister(x)) <=> cache["MAC"] = x
  <1>1. DOMAIN MACRegister(x) = {1} /\ "MAC" \in DOMAIN cache
    BY MACEntries, LenProperties DEF Map, Places
  <1> QED
    BY <1>1, MACEntries DEF Cached, Place

\* A channel is selected: always in the map, and in the chip if the two agreed before or
\* the map has to change, unless the link fails.  That there is none to select is not
\* noticed either, and nothing is done if 0x0020 cannot be read.
LEMMA Selecting ==
    ASSUME NEW c \in Macs, chip \in Map, cache \in Map, useCache \in BOOLEAN, Selects(c)
    PROVE  /\ chip' \in Map /\ cache' \in Map
           /\ failed' \in {failed, TRUE}
           /\ blind' = blind \/ (blind' = TRUE /\ "read" \in Failing)
           /\ c # "none" => cache'["MAC"] = c
           /\ "select" \notin Failing \/ ~failed' =>
                 /\ failed' = failed
                 /\ \A p \in {"G", "A", "B"} : chip'[p] = chip[p] /\ cache'[p] = cache[p]
                 /\ \/ cache'["MAC"] = c /\ (Synced \/ cache["MAC"] # c => chip'["MAC"] = c)
                    \/ chip' = chip /\ cache' = cache /\ c = "none" /\ blind' = TRUE
  <1>0. /\ chip["MAC"] \in Macs /\ cache["MAC"] \in Macs
        /\ DOMAIN cache = Places /\ DOMAIN chip = Places
    BY DEF Map
  <1> DEFINE r == MACRegister(c)
  <1>1. r \in Seq(Entries(c))
    BY MACEntries
  <1>2. CASE Active = c /\ cache' = [cache EXCEPT !["MAC"] = c] /\ UNCHANGED <<chip, failed, blind>>
    <2>1. cache' = [cache EXCEPT !["MAC"] = c] /\ chip' = chip /\ failed' = failed
      BY <1>2
    <2>2. cache' \in Map /\ cache'["MAC"] = c /\ \A p \in {"G", "A", "B"} : cache'[p] = cache[p]
      BY <1>0, <2>1 DEF Map, Places
    <2>3. Synced \/ cache["MAC"] # c => chip["MAC"] = c
      BY <1>2 DEF Active, Synced
    <2> QED
      BY <1>2, <2>1, <2>2, <2>3
  <1>3. ASSUME SelectSent(c), ~(useCache /\ cache["MAC"] = c)
        PROVE  /\ chip' \in Map /\ cache' \in Map /\ failed' \in {failed, TRUE}
               /\ cache'["MAC"] = c
               /\ "select" \notin Failing \/ ~failed' =>
                     /\ failed' = failed
                     /\ \A p \in {"G", "A", "B"} : chip'[p] = chip[p] /\ cache'[p] = cache[p]
                     /\ chip'["MAC"] = c
    <2>1. BatchWritten(r, FALSE) \/ BatchFails(r, FALSE, "select")
      BY <1>3 DEF SelectSent
    <2>2. cache' = Written(cache, r)
      BY <2>1 DEF BatchWritten, BatchFails
    <2>3. /\ chip' \in Map /\ cache' \in Map /\ failed' \in {failed, TRUE}
          /\ BatchFails(r, FALSE, "select") => failed' = TRUE /\ "select" \in Failing
      BY <1>1, <2>1, BatchSent
    <2>4. cache'["MAC"] = c /\ \A p \in {"G", "A", "B"} : cache'[p] = cache[p]
      BY <2>2, WrittenMAC
    <2>5. ASSUME BatchWritten(r, FALSE)
          PROVE  /\ failed' = failed /\ chip'["MAC"] = c
                 /\ \A p \in {"G", "A", "B"} : chip'[p] = chip[p]
      <3>1. chip' = Written(chip, ToSend(r, FALSE)) /\ failed' = failed
        BY <2>5 DEF BatchWritten
      <3>2. ToSend(r, FALSE) = r
        BY <1>3, CachedMAC DEF ToSend
      <3>3. chip' = Written(chip, MACRegister(c))
        BY <3>1, <3>2
      <3>4. chip'["MAC"] = c /\ \A p \in {"G", "A", "B"} : chip'[p] = chip[p]
        BY <3>3, WrittenMAC
      <3> QED
        BY <3>1, <3>4
    <2> QED
      BY <2>1, <2>3, <2>4, <2>5
  <1>4. CASE Active # c /\ SelectSent(c) /\ UNCHANGED blind
    <2>1. ~(useCache /\ cache["MAC"] = c)
      BY <1>4 DEF Active
    <2> QED
      BY <1>3, <1>4, <2>1
  <1>5. CASE MayMisread /\ blind' = TRUE /\ c = "none" /\ UNCHANGED <<maps, failed>>
    <2>1. chip' = chip /\ cache' = cache /\ failed' = failed /\ "read" \in Failing
      BY <1>5 DEF maps, MayMisread
    <2> QED
      BY <1>5, <2>1 DEF maps
  <1>6. CASE MayMisread /\ blind' = TRUE /\ SelectSent(c)
    <2>1. ~(useCache /\ cache["MAC"] = c) /\ "read" \in Failing
      BY <1>6 DEF MayMisread
    <2> QED
      BY <1>3, <1>6, <2>1
  <1> QED
    BY <1>2, <1>4, <1>5, <1>6 DEF Selects

\* A batch that is written as a whole.
LEMMA WholeSent ==
    ASSUME NEW c \in Channels, NEW src \in Source, chip \in Map, cache \in Map,
           BatchWritten(WritesOf(c, src), TRUE)
    PROVE  /\ chip' \in Map /\ cache' \in Map /\ failed' = failed
           /\ chip'["MAC"] = chip["MAC"] /\ cache'["MAC"] = cache["MAC"]
           /\ chip["MAC"] = c => \A p \in {"G", "A", "B"} :
                 chip'[p] = IF p \in Of(c) THEN src[p] ELSE chip[p]
           /\ cache["MAC"] = c => \A p \in {"G", "A", "B"} :
                 cache'[p] = IF p \in Of(c) THEN src[p] ELSE cache[p]
  <1>1. /\ chip' = Written(chip, WritesOf(c, src)) /\ cache' = Written(cache, WritesOf(c, src))
        /\ failed' = failed
    BY DEF BatchWritten, ToSend
  <1> QED
    BY <1>1, WrittenWhole

\* A batch that is written in part selects no channel.
LEMMA PartSent ==
    ASSUME NEW c \in Channels, NEW src \in Source, NEW step, chip \in Map, cache \in Map,
           BatchFails(WritesOf(c, src), TRUE, step)
    PROVE  /\ chip' \in Map /\ cache' \in Map /\ failed' = TRUE /\ step \in Failing
           /\ chip'["MAC"] = chip["MAC"] /\ cache'["MAC"] = cache["MAC"]
  <1>1. chip["MAC"] \in Macs /\ cache["MAC"] \in Macs
    BY DEF Map
  <1>2. /\ WritesOf(c, src) \in Seq(Entries(chip["MAC"]))
        /\ WritesOf(c, src) \in Seq(Entries(cache["MAC"]))
    BY <1>1, WritesEntries
  <1>3. /\ chip' \in Map /\ cache' \in Map /\ failed' = TRUE /\ step \in Failing
        /\ chip'["MAC"] \in {chip["MAC"], chip["MAC"]}
    BY <1>1, <1>2, BatchSent
  <1>4. cache'["MAC"] \in {cache["MAC"], cache["MAC"]}
    BY <1>1, <1>2, BatchSent
  <1> QED
    BY <1>3, <1>4

\* 0x0020 is written when map and chip agree on it.
LEMMA MACSent ==
    ASSUME NEW x \in Macs, chip \in Map, cache \in Map, useCache \in BOOLEAN,
           NEW toChip \in BOOLEAN, BatchWritten(MACRegister(x), toChip)
    PROVE  /\ chip' \in Map /\ cache' \in Map /\ failed' = failed
           /\ \A p \in {"G", "A", "B"} : chip'[p] = chip[p] /\ cache'[p] = cache[p]
           /\ Synced => On(x)'
  <1> DEFINE r == MACRegister(x)
  <1>1. cache' = Written(cache, r) /\ chip' = Written(chip, ToSend(r, toChip)) /\ failed' = failed
    BY DEF BatchWritten
  <1>2. /\ cache' \in Map /\ cache'["MAC"] = x
        /\ \A p \in {"G", "A", "B"} : cache'[p] = cache[p]
    BY <1>1, WrittenMAC
  <1>3. CASE ToSend(r, toChip) = r
    <2>1. chip' = Written(chip, r)
      BY <1>1, <1>3
    <2>2. /\ chip' \in Map /\ chip'["MAC"] = x
          /\ \A p \in {"G", "A", "B"} : chip'[p] = chip[p]
      BY <2>1, WrittenMAC
    <2> QED
      BY <1>1, <1>2, <2>2 DEF On
  <1>4. CASE ToSend(r, toChip) # r
    <2>1. cache["MAC"] = x /\ ToSend(r, toChip) = <<>>
      BY <1>4, CachedMAC DEF ToSend
    <2>2. \A j \in DOMAIN <<>> : FALSE
      OBVIOUS
    <2>3. chip["MAC"] \in Macs /\ <<>> \in Seq(Entries(chip["MAC"]))
      BY DEF Map
    <2>4. chip' \in Map
      BY <1>1, <2>1, <2>3, EntriesWritten
    <2>5. \A p \in Places : chip'[p] = chip[p]
      <3>1. Selected(chip, <<>>, chip["MAC"])
        BY DEF Selected
      <3> QED
        BY <1>1, <2>1, <2>2, <3>1, WrittenNot
    <2>6. Synced => chip["MAC"] = x
      BY <2>1 DEF Synced
    <2> QED
      BY <1>1, <1>2, <2>4, <2>5, <2>6 DEF On, Places
  <1> QED
    BY <1>3, <1>4

\* What RegistersTest writes back.
BackBatch(c) == (IF c = "A" THEN MACRegister(backup.MAC) ELSE <<>>) \o WritesOf(c, backup)

LEMMA MapIsSource == Map \subseteq Source
  BY DEF Map, Source

LEMMA BackEntries ==
    ASSUME NEW c \in Channels, backup \in Map
    PROVE  /\ BackBatch(c) \in Seq(Entries(backup["MAC"])) /\ backup["MAC"] \in Macs
           /\ c = "B" => BackBatch(c) = WritesOf(c, backup)
  <1>1. backup["MAC"] \in Macs /\ backup \in Source
    BY MapIsSource DEF Map
  <1>2. /\ WritesOf(c, backup) \in Seq(Entries(backup["MAC"]))
        /\ MACRegister(backup["MAC"]) \in Seq(Entries(backup["MAC"]))
    BY <1>1, WritesEntries, MACEntries
  <1>3. CASE c = "A"
    <2>1. BackBatch(c) = MACRegister(backup["MAC"]) \o WritesOf(c, backup)
      BY <1>3 DEF BackBatch
    <2> QED
      BY <1>1, <1>2, <1>3, <2>1, ConcatProperties
  <1>4. CASE c = "B"
    <2>1. BackBatch(c) = <<>> \o WritesOf(c, backup)
      BY <1>4 DEF BackBatch
    <2> QED
      BY <1>1, <1>2, <2>1, ConcatEmptySeq
  <1> QED
    BY <1>3, <1>4 DEF Channels

LEMMA BackWritten ==
    ASSUME NEW m \in Map, m["MAC"] = "A", backup \in Map, backup["MAC"] = "A"
    PROVE  LET w == Written(m, BackBatch("A"))
           IN  /\ w["MAC"] = "A" /\ w["B"] = m["B"]
               /\ w["A"] = backup["A"] /\ w["G"] = backup["G"]
  <1> DEFINE b1 == MACRegister("A")
             b2 == WritesOf("A", backup)
             batch == BackBatch("A")
             w == Written(m, batch)
  <1>1. batch = b1 \o b2
    BY DEF BackBatch
  <1>2. /\ b1 \in Seq(Entries("A")) /\ Len(b1) = 1 /\ b1[1].addr = "MAC" /\ b1[1].data = "A"
        /\ b2 \in Seq(Entries("A"))
    BY MACEntries, WritesEntries, MapIsSource DEF Macs, Channels
  <1>3. /\ DOMAIN b2 = {1, 2}
        /\ b2[1].addr = "G" /\ b2[1].data = backup["G"]
        /\ b2[2].addr = "M" /\ b2[2].data = backup["A"]
    BY Batches, MapIsSource DEF Channels
  <1> HIDE DEF b1, b2, batch
  <1>4. Len(b2) = 2
    BY <1>2, <1>3, LenProperties
  <1>5. /\ Len(batch) = 3 /\ batch \in Seq(Entries("A"))
        /\ \A i \in 1..3 : batch[i] = IF i <= 1 THEN b1[i] ELSE b2[i - 1]
    <2>1. /\ batch \in Seq(Entries("A")) /\ Len(batch) = Len(b1) + Len(b2)
          /\ \A i \in 1..(Len(b1) + Len(b2)) :
                batch[i] = IF i <= Len(b1) THEN b1[i] ELSE b2[i - Len(b1)]
      BY <1>1, <1>2, ConcatProperties
    <2>2. Len(b1) = 1 /\ Len(b2) = 2
      BY <1>2, <1>4
    <2> QED
      BY <2>1, <2>2
  <1>6. batch[1] = b1[1] /\ batch[2] = b2[1] /\ batch[3] = b2[2]
    BY <1>5
  <1>7. DOMAIN batch = {1, 2, 3} /\ batch # <<>>
    <2>1. Len(batch) = 3 /\ DOMAIN batch = 1..Len(batch)
      BY <1>5, LenProperties
    <2>2. DOMAIN batch = {1, 2, 3}
      BY <2>1
    <2>3. DOMAIN <<>> = {}
      OBVIOUS
    <2> QED
      BY <2>2, <2>3
  <1>8. Selected(m, batch, "A")
    BY <1>2, <1>6, <1>7 DEF Selected
  <1>9. /\ Place(batch[1].addr, "A") = "MAC" /\ batch[1].data = "A"
        /\ Place(batch[2].addr, "A") = "G" /\ batch[2].data = backup["G"]
        /\ Place(batch[3].addr, "A") = "A" /\ batch[3].data = backup["A"]
    BY <1>2, <1>3, <1>6 DEF Place
  <1>10. ASSUME NEW k \in {1, 2, 3}
         PROVE  w[Place(batch[k].addr, "A")] = batch[k].data
    <2>1. Place(batch[k].addr, "A") \in Places
      BY <1>9 DEF Places
    <2>2. \A j \in DOMAIN batch : Place(batch[j].addr, "A") = Place(batch[k].addr, "A") => j = k
      BY <1>7, <1>9
    <2>3. k \in DOMAIN batch
      BY <1>7
    <2> QED
      BY <1>8, <2>1, <2>2, <2>3, WrittenAt
  <1>11. w["B"] = m["B"]
    <2>1. \A j \in DOMAIN batch : Place(batch[j].addr, "A") # "B"
      BY <1>7, <1>9
    <2> QED
      BY <1>8, <2>1, WrittenNot DEF Places
  <1>12. w["MAC"] = "A" /\ w["G"] = backup["G"] /\ w["A"] = backup["A"]
    BY <1>9, <1>10
  <1> QED
    BY <1>11, <1>12 DEF batch

LEMMA BackSent ==
    ASSUME NEW c \in Channels, chip \in Map, cache \in Map, backup \in Map,
           BatchWritten(BackBatch(c), TRUE) \/ BatchFails(BackBatch(c), TRUE, "batch")
    PROVE  /\ chip' \in Map /\ cache' \in Map /\ failed' \in {failed, TRUE}
           /\ On(c) /\ (c = "A" => backup["MAC"] = "A") =>
                 /\ On(c)'
                 /\ ~failed' => \A p \in {"G", "A", "B"} :
                       chip'[p] = IF p \in Of(c) THEN backup[p] ELSE chip[p]
  <1>1. /\ chip' \in Map /\ cache' \in Map /\ failed' \in {failed, TRUE}
        /\ chip'["MAC"] \in {chip["MAC"], backup["MAC"]}
        /\ cache'["MAC"] \in {cache["MAC"], backup["MAC"]}
        /\ BatchFails(BackBatch(c), TRUE, "batch") => failed' = TRUE
    BY BackEntries, BatchSent
  <1> SUFFICES ASSUME On(c), c = "A" => backup["MAC"] = "A"
               PROVE  /\ On(c)'
                      /\ ~failed' => \A p \in {"G", "A", "B"} :
                            chip'[p] = IF p \in Of(c) THEN backup[p] ELSE chip[p]
    BY <1>1
  <1>2. chip["MAC"] = c /\ cache["MAC"] = c
    BY DEF On
  <1>3. CASE c = "A"
    <2>1. On(c)'
      BY <1>1, <1>2, <1>3 DEF On
    <2>2. ASSUME ~failed' PROVE BatchWritten(BackBatch(c), TRUE)
      BY <1>1, <2>2
    <2>3. ASSUME ~failed' PROVE chip' = Written(chip, BackBatch("A"))
      BY <1>3, <2>2, <2>3 DEF BatchWritten, ToSend
    <2>4. ASSUME ~failed'
          PROVE  chip'["B"] = chip["B"] /\ chip'["A"] = backup["A"] /\ chip'["G"] = backup["G"]
      BY <1>2, <1>3, <2>3, <2>4, BackWritten
    <2> QED
      BY <1>3, <2>1, <2>4 DEF Of
  <1>4. CASE c = "B"
    <2>1. BackBatch(c) = WritesOf(c, backup) /\ backup \in Source
      BY <1>4, BackEntries, MapIsSource
    <2>2. CASE BatchWritten(BackBatch(c), TRUE)
      BY <1>2, <2>1, <2>2, WholeSent DEF On
    <2>3. CASE BatchFails(BackBatch(c), TRUE, "batch")
      BY <1>2, <2>1, <2>3, PartSent DEF On
    <2> QED
      BY <2>2, <2>3
  <1> QED
    BY <1>3, <1>4 DEF Channels

-----------------------------------------------------------------------------
\* The calls' steps.

LongCalls == {"upload", "download", "isSynced", "copy", "save", "load", "test"}

InstructionOps == {"remember", "recall", "select", "restore", "upload", "write0020", "load",
                   "load0020", "resetLogic", "download", "compare", "copy", "save", "backup", "reset",
                   "test", "writeBack"}
Instructions == [op : InstructionOps, arg : Channels]

LEMMA UploadSteps ==
    /\ UploadAll \in Seq(Instructions) /\ Len(UploadAll) = 7
    /\ UploadAll[1] = Remember /\ UploadAll[2] = Select("A")
    /\ UploadAll[3] = Do("upload", "A") /\ UploadAll[4] = Do("write0020", "A")
    /\ UploadAll[5] = Select("B") /\ UploadAll[6] = Do("upload", "B") /\ UploadAll[7] = Restore
  BY DEF UploadAll, Remember, Select, Restore, Do, Instructions, InstructionOps, Channels

LEMMA TestSteps ==
    /\ RegistersTest \in Seq(Instructions) /\ Len(RegistersTest) = 15
    /\ RegistersTest[1] = Remember /\ RegistersTest[2] = Select("A")
    /\ RegistersTest[3] = Do("backup", "A") /\ RegistersTest[4] = Select("B")
    /\ RegistersTest[5] = Do("backup", "B") /\ RegistersTest[6] = Do("reset", "A")
    /\ RegistersTest[7] = Select("A") /\ RegistersTest[8] = Do("test", "A")
    /\ RegistersTest[9] = Select("B") /\ RegistersTest[10] = Do("test", "B")
    /\ RegistersTest[11] = Select("A") /\ RegistersTest[12] = Do("writeBack", "A")
    /\ RegistersTest[13] = Select("B") /\ RegistersTest[14] = Do("writeBack", "B")
    /\ RegistersTest[15] = Restore
  BY DEF RegistersTest, Remember, Select, Restore, Do, Instructions, InstructionOps, Channels

LEMMA DownloadSteps ==
    /\ DownloadAll \in Seq(Instructions) /\ Len(DownloadAll) = 6
    /\ DownloadAll[1] = Do("recall", "A") /\ DownloadAll[2] = Select("A")
    /\ DownloadAll[3] = Do("download", "A") /\ DownloadAll[4] = Select("B")
    /\ DownloadAll[5] = Do("download", "B") /\ DownloadAll[6] = Restore
  BY DEF DownloadAll, Select, Restore, Do, Instructions, InstructionOps, Channels

LEMMA IsSyncedSteps ==
    /\ IsSynced \in Seq(Instructions) /\ Len(IsSynced) = 6
    /\ IsSynced[1] = Remember /\ IsSynced[2] = Select("A")
    /\ IsSynced[3] = Do("compare", "A") /\ IsSynced[4] = Do("compare", "B")
    /\ IsSynced[5] = Select("B") /\ IsSynced[6] = Restore
  BY DEF IsSynced, Remember, Select, Restore, Do, Instructions, InstructionOps, Channels

LEMMA SaveSteps ==
    /\ SaveConfig \in Seq(Instructions) /\ Len(SaveConfig) = 6
    /\ SaveConfig[1] = Remember /\ SaveConfig[2] = Select("A")
    /\ SaveConfig[3] = Do("save", "A") /\ SaveConfig[4] = Select("B")
    /\ SaveConfig[5] = Do("save", "B") /\ SaveConfig[6] = Restore
  BY DEF SaveConfig, Remember, Select, Restore, Do, Instructions, InstructionOps, Channels

LEMMA LoadSteps ==
    /\ LoadConfig \in Seq(Instructions) /\ Len(LoadConfig) = 9
    /\ LoadConfig[1] = Remember /\ LoadConfig[2] = Select("A")
    /\ LoadConfig[3] = Do("load", "A") /\ LoadConfig[4] = Do("load0020", "A")
    /\ LoadConfig[5] = Select("B") /\ LoadConfig[6] = Do("load", "B")
    /\ LoadConfig[7] = Restore /\ LoadConfig[8] = Do("resetLogic", "A")
    /\ LoadConfig[9] = Select("A")
  BY DEF LoadConfig, Remember, Select, Restore, Do, Instructions, InstructionOps, Channels

LEMMA CopySteps ==
    /\ CopyChannelRegisters \in Seq(Instructions) /\ Len(CopyChannelRegisters) = 10
    /\ CopyChannelRegisters[1] = Remember /\ CopyChannelRegisters[2] = Do("copy", "A")
    /\ \A k \in 1..7 : CopyChannelRegisters[k + 2] = UploadAll[k]
    /\ CopyChannelRegisters[10] = Restore
  <1> DEFINE a == <<Remember, Do("copy", "A")>>
             u == UploadAll
             r == <<Restore>>
  <1>1. /\ a \in Seq(Instructions) /\ Len(a) = 2 /\ a[1] = Remember /\ a[2] = Do("copy", "A")
        /\ r \in Seq(Instructions) /\ Len(r) = 1 /\ r[1] = Restore
    BY DEF Remember, Restore, Do, Instructions, InstructionOps, Channels
  <1>2. u \in Seq(Instructions) /\ Len(u) = 7
    BY UploadSteps
  <1>3. CopyChannelRegisters = (a \o u) \o r
    BY DEF CopyChannelRegisters
  <1> HIDE DEF a, u, r
  <1> DEFINE b == a \o u
             c == b \o r
  <1>4. /\ b \in Seq(Instructions) /\ Len(b) = 9
        /\ \A i \in 1..9 : b[i] = IF i <= 2 THEN a[i] ELSE u[i - 2]
    <2>1. /\ b \in Seq(Instructions) /\ Len(b) = Len(a) + Len(u)
          /\ \A i \in 1..(Len(a) + Len(u)) :
                b[i] = IF i <= Len(a) THEN a[i] ELSE u[i - Len(a)]
      BY <1>1, <1>2, ConcatProperties
    <2> HIDE DEF b
    <2>2. Len(a) = 2 /\ Len(u) = 7
      BY <1>1, <1>2
    <2> QED
      BY <2>1, <2>2
  <1>6. CopyChannelRegisters = c
    BY <1>3
  <1> HIDE DEF b
  <1>5. /\ c \in Seq(Instructions) /\ Len(c) = 10
        /\ \A i \in 1..10 : c[i] = IF i <= 9 THEN b[i] ELSE r[i - 9]
    <2>1. /\ c \in Seq(Instructions) /\ Len(c) = Len(b) + Len(r)
          /\ \A i \in 1..(Len(b) + Len(r)) :
                c[i] = IF i <= Len(b) THEN b[i] ELSE r[i - Len(b)]
      BY <1>1, <1>4, ConcatProperties
    <2> HIDE DEF c
    <2>2. Len(b) = 9 /\ Len(r) = 1
      BY <1>1, <1>4
    <2> QED
      BY <2>1, <2>2
  <1> HIDE DEF c
  <1>7. c[1] = Remember /\ c[2] = Do("copy", "A") /\ c[10] = Restore
    BY <1>1, <1>4, <1>5
  <1>8. ASSUME NEW k \in 1..7 PROVE c[k + 2] = u[k]
    <2>1. k + 2 \in 1..9 /\ ~(k + 2 <= 2) /\ k + 2 - 2 = k
      OBVIOUS
    <2> QED
      BY <1>4, <1>5, <2>1
  <1> QED
    BY <1>5, <1>6, <1>7, <1>8 DEF u

\* What is left of a call, and what that is after a step.
Rest(s, n) == SubSeq(s, n, Len(s))

LEMMA Advance ==
    ASSUME NEW s \in Seq(Instructions), NEW n \in 1..Len(s)
    PROVE  /\ Rest(s, n) # <<>> /\ Head(Rest(s, n)) = s[n]
           /\ Tail(Rest(s, n)) = IF n = Len(s) THEN <<>> ELSE Rest(s, n + 1)
           /\ n = Len(s) => Rest(s, n) = <<s[n]>>
  <1>1. Len(s) \in Nat /\ DOMAIN s = 1..Len(s) /\ \A i \in 1..Len(s) : s[i] \in Instructions
    BY LenProperties, ElementOfSeq
  <1>2. Len(s) \in 1..Len(s) /\ Len(s) \in n..Len(s)
    BY <1>1
  <1>3. Head(Rest(s, n)) = s[n] /\ Tail(Rest(s, n)) = SubSeq(s, n + 1, Len(s))
    BY <1>2, HeadTailOfSubSeq DEF Rest
  <1>4. /\ Rest(s, n) \in Seq(Instructions) /\ Len(Rest(s, n)) = Len(s) - n + 1
        /\ \A i \in 1..(Len(s) - n + 1) : Rest(s, n)[i] = s[n + i - 1]
    <2>1. \A i \in n..Len(s) : s[i] \in Instructions
      BY <1>1
    <2> QED
      BY <1>1, <2>1, SubSeqProperties DEF Rest
  <1>5. Rest(s, n) # <<>>
    BY <1>1, <1>4, EmptySeq
  <1>6. n = Len(s) => SubSeq(s, n + 1, Len(s)) = <<>>
    BY <1>1, SubSeqEmpty
  <1>7. n = Len(s) => Rest(s, n) = <<s[n]>>
    <2> DEFINE t == Rest(s, n)
    <2> SUFFICES ASSUME n = Len(s) PROVE t = <<s[n]>>
      OBVIOUS
    <2>1. Len(t) = 1 /\ t[1] = s[n] /\ t \in Seq(Instructions)
      BY <1>1, <1>4
    <2> HIDE DEF t
    <2> QED
      BY <2>1
  <1> QED
    BY <1>3, <1>5, <1>6, <1>7 DEF Rest

\* What a step of a call is, by its name.
LEMMA OneStep ==
    ASSUME CallStep, script # <<>>, NEW o, NEW a, Head(script) = Do(o, a)
    PROVE  /\ arg = a
           /\ o = "remember" => RememberChannel
           /\ o = "recall" => RecallChannel
           /\ o = "select" => SelectChannel
           /\ o = "restore" => RestoreChannel
           /\ o = "upload" => Upload
           /\ o = "write0020" => Write0020
           /\ o = "load" => Load
           /\ o = "load0020" => Load0020
           /\ o = "resetLogic" => ResetLogicregisters
           /\ o = "download" => Download \/ ReadFails
           /\ o = "compare" => Compare
           /\ o = "copy" => Copy
           /\ o = "save" => Save
           /\ o = "backup" => Backup \/ ReadFails
           /\ o = "reset" => Reset
           /\ o = "test" => Test
           /\ o = "writeBack" => WriteBack
  <1>1. Head(script).op = o /\ Head(script).arg = a
    BY DEF Do
  <1> QED
    BY <1>1 DEF CallStep, At, arg, RememberChannel, RecallChannel, SelectChannel, RestoreChannel,
       Upload, Write0020, Load, Load0020, ResetLogicregisters, ReadFails, Download, Compare, Copy,
       Save, Backup, Reset, Test, WriteBack

-----------------------------------------------------------------------------
\* The invariant.

DCRecords == [chip : DCs, cache : DCs, backup : DCs]

\* Channels are selected reliably.
Reliable == {"select", "0020"} \cap Failing = {}

TypeInv ==
    /\ chip \in Map /\ cache \in Map /\ file \in Map /\ backup \in Map /\ before \in Map
    /\ useCache \in BOOLEAN /\ failed \in BOOLEAN
    /\ blind \in BOOLEAN /\ (blind => "read" \in Failing)
    /\ dc \in DCRecords
    /\ x0020 \in Macs /\ call.from \in Channels

SameA == chip["A"] = cache["A"] /\ chip["G"] = cache["G"]
SameDC == dc.chip = dc.cache
Twins == cache["A"] = cache["B"]
AsFile(p) == chip[p] = file[p] /\ cache[p] = file[p]
Saved(p) == file[p] = cache[p] /\ (~useCache => file[p] = chip[p])

\* What a call remembers is the channel before it, if that could be read.
Right(c) == blind \/ c = before["MAC"]

Fresh == chip["MAC"] = before["MAC"] /\ ch = <<>> /\ (Reliable => Synced)
Held == \E c \in Macs : ch = <<c>> /\ Right(c)
HeldTwice == \E c \in Macs, d \in Macs : ch = <<c, d>> /\ Right(c) /\ Right(d)

\* UploadAll with its first k - 1 steps done.
UploadPart(k) ==
    /\ k = 1 => chip["MAC"] = before["MAC"]
    /\ Reliable => /\ k \in {1, 2, 5} => Synced
                   /\ k \in {3, 4} => On("A")
                   /\ k = 6 => On("B")
                   /\ k \in 4..6 => SameA
                   /\ k \in 4..7 => SameDC
                   /\ k = 7 => chip = cache

UploadPos(n) ==
    /\ UploadPart(n)
    /\ IF n = 1 THEN Fresh ELSE Held

\* A copy, also one that UploadAll has given up on.
CopyPos(n) ==
    /\ n \in {1, 2} => chip["MAC"] = before["MAC"]
    /\ n \in 3..9 => UploadPart(n - 2)
    /\ Reliable => /\ n = 2 => Synced
                   /\ n \in 3..9 => Twins
                   /\ n = 10 => Synced /\ (~failed => chip = cache /\ SameDC /\ Twins)
    /\ n = 1 => Fresh
    /\ n \in {2, 3, 10} => Held
    /\ n \in 4..9 => HeldTwice

\* GetActiveChannel(false) of DownloadAll may ask the map.
DownloadPos(n) ==
    /\ n = 1 => Fresh
    /\ n > 1 => \E m \in Macs : ch = <<m>> /\ (Reliable => Right(m))
    /\ Reliable => /\ n \in {1, 2} => Synced
                   /\ n \in {3, 4} => On("A")
                   /\ n = 5 => On("B")
                   /\ n \in {4, 5} => SameA
                   /\ n \in 4..6 => SameDC
                   /\ n = 6 => chip = cache

\* IsSynced and SaveConfig.
LookPos(n) ==
    /\ IF n = 1 THEN Fresh ELSE Held
    /\ Reliable => /\ n > 1 => Synced
                   /\ n = 3 => On("A")

SavePos(n) ==
    /\ LookPos(n)
    /\ Reliable /\ n = 5 => On("B")
    /\ Reliable /\ ~blind => /\ n \in 4..6 => Saved("A") /\ Saved("G")
                             /\ n = 6 => Saved("B")

LoadPos(n) ==
    /\ n = 1 => Fresh
    /\ n \in 2..7 => Held
    /\ n \in {8, 9} => ch = <<>>
    /\ Reliable => /\ n \in {2, 5, 7, 8, 9} => Synced
                   /\ n \in {3, 4} => On("A")
                   /\ n = 6 => On("B")
                   /\ n \in 4..9 => AsFile("A") /\ AsFile("G") /\ SameDC /\ dc.chip = "write"
                   /\ n \in 7..9 => AsFile("B")

\* RegistersTest needs to be told of what is lost unless channels are selected reliably.
Trusted == Reliable \/ (~failed /\ ~blind)
Intact == Trusted /\ ~failed

\* RegistersTest. After a reset that failed the map has A selected and the chip B.
TestPos(n) ==
    /\ IF n = 1 THEN Fresh ELSE Held
    /\ Trusted => /\ n = 2 => Synced
                  /\ n \in {3, 4, 12, 13} => On("A")
                  /\ n \in {5, 6, 10, 11, 14, 15} => On("B")
                  /\ n \in 7..9 => cache["MAC"] = "A"
                  /\ n \in 4..12 => backup["MAC"] = "A"
    /\ Intact  => /\ n \in 1..6 => \A p \in {"G", "A", "B"} : chip[p] = before[p]
                  /\ n \in 4..13 => backup["A"] = before["A"] /\ backup["G"] = before["G"]
                  /\ n \in 6..14 => backup["B"] = before["B"]
                  /\ n = 7 => Synced
                  /\ n \in {8, 9} => On("A")
                  /\ n \in 13..15 => chip["A"] = before["A"] /\ chip["G"] = before["G"]
                  /\ n = 15 => chip["B"] = before["B"]

IdleOK == /\ ch = <<>>
          /\ Reliable => Synced /\ SuccessMeansSame /\ ChannelRestored
          /\ Reliable \/ ~blind => TestRestores

\* The call op has made its first n - 1 steps.
Stage(op, n) ==
    /\ call.op = op /\ n \in 1..Len(StepsOf(op)) /\ script = Rest(StepsOf(op), n)
    /\ op = "upload" => UploadPos(n)
    /\ op = "copy" => CopyPos(n)
    /\ op = "download" => DownloadPos(n)
    /\ op = "isSynced" => LookPos(n)
    /\ op = "save" => SavePos(n)
    /\ op = "load" => LoadPos(n)
    /\ op = "test" => TestPos(n)

Where == \/ script = <<>> /\ IdleOK
         \/ \E op \in LongCalls, n \in 1..15 : Stage(op, n)

IInv == TypeInv /\ Where

-----------------------------------------------------------------------------
\* What a step of a call does, by the instruction it makes.

LEMMA Answered ==
    ASSUME NEW c \in Channels, NEW m \in Map, chip \in Map
    PROVE  LET a == Answers(c, m)
           IN  /\ a \in Map
               /\ a["MAC"] = IF c = "A" THEN chip["MAC"] ELSE m["MAC"]
               /\ chip["MAC"] # "none" => a[c] = chip[chip["MAC"]]
               /\ c = "A" => a["G"] = chip["G"] /\ a["B"] = m["B"]
               /\ c = "B" => a["G"] = m["G"] /\ a["A"] = m["A"]
  <1>1. /\ DOMAIN m = Places /\ m["MAC"] \in Macs /\ chip["MAC"] \in Macs
        /\ \A p \in {"G", "A", "B"} : m[p] \in Values /\ chip[p] \in Values
    BY DEF Map
  <1> DEFINE v == IF chip["MAC"] = "none" THEN 0 ELSE chip[chip["MAC"]]
  <1>2. v \in Values
    BY <1>1, RegistersAssumption DEF Macs, Channels
  <1> DEFINE a == Answers(c, m)
  <1>3. a = [p \in Places |-> IF p = c THEN v
                              ELSE IF c = "A" /\ p \in {"MAC", "G"} THEN chip[p] ELSE m[p]]
    BY <1>1 DEF Answers
  <1>0. chip["MAC"] # "none" => v = chip[chip["MAC"]]
    OBVIOUS
  <1> HIDE DEF v
  <1>4. /\ a["MAC"] = IF c = "A" THEN chip["MAC"] ELSE m["MAC"]
        /\ a[c] = v
        /\ c = "A" => a["G"] = chip["G"] /\ a["B"] = m["B"]
        /\ c = "B" => a["G"] = m["G"] /\ a["A"] = m["A"]
    BY <1>3 DEF Places, Channels
  <1>5. a["MAC"] \in Macs /\ \A p \in {"G", "A", "B"} : a[p] \in Values
    BY <1>1, <1>2, <1>4 DEF Channels
  <1>6. a \in [Places -> Macs \cup Values]
    <2>1. DOMAIN a = Places /\ a = [p \in Places |-> a[p]]
      BY <1>3
    <2> HIDE DEF a
    <2>2. \A p \in Places : a[p] \in Macs \cup Values
      BY <1>5 DEF Places
    <2> QED
      BY <2>1, <2>2
  <1> QED
    BY <1>0, <1>4, <1>5, <1>6 DEF Map

\* Maps are the same if they are so at every place.
LEMMA SameMaps ==
    ASSUME NEW m \in Map, NEW w \in Map, m["MAC"] = w["MAC"],
           \A p \in {"G", "A", "B"} : m[p] = w[p]
    PROVE  m = w
  BY DEF Map, Places

\* One place of a map is changed.
LEMMA MapExcept ==
    ASSUME NEW m \in Map, NEW p \in Places, NEW v,
           IF p = "MAC" THEN v \in Macs ELSE v \in Values
    PROVE  LET w == [m EXCEPT ![p] = v]
           IN  w \in Map /\ w[p] = v /\ \A q \in Places \ {p} : w[q] = m[q]
  BY DEF Map, Places

LEMMA Remembered ==
    ASSUME NEW x \in Macs, NEW y \in Macs
    PROVE  /\ <<x>> \o <<>> = <<x>> /\ Head(<<x>>) = x /\ Tail(<<x>>) = <<>>
           /\ <<x>> \o <<y>> = <<x, y>> /\ Head(<<x, y>>) = x /\ Tail(<<x, y>>) = <<y>>
  <1>1. <<x>> \o <<>> = <<x>>
    BY ConcatEmptySeq
  <1>2. Head(<<x>>) = x /\ Head(<<x, y>>) = x
    OBVIOUS
  <1>3. Tail(<<x>>) = <<>>
    OBVIOUS
  <1>4. Tail(<<x, y>>) = <<y>>
    OBVIOUS
  <1>5. <<x>> \o <<y>> = <<x, y>>
    <2> DEFINE a == <<x>>
               b == <<y>>
               c == a \o b
    <2>1. /\ a \in Seq(Macs) /\ Len(a) = 1 /\ a[1] = x
          /\ b \in Seq(Macs) /\ Len(b) = 1 /\ b[1] = y
      OBVIOUS
    <2> HIDE DEF a, b
    <2>2. /\ c \in Seq(Macs) /\ Len(c) = Len(a) + Len(b)
          /\ \A i \in 1..(Len(a) + Len(b)) : c[i] = IF i <= Len(a) THEN a[i] ELSE b[i - Len(a)]
      BY <2>1, ConcatProperties
    <2>3. \A i \in 1..2 : c[i] = IF i <= 1 THEN a[i] ELSE b[i - 1]
      BY <2>1, <2>2
    <2> HIDE DEF c
    <2>4. c[1] = x /\ c[2] = y
      BY <2>1, <2>3
    <2>5. c = <<x, y>>
      BY <2>1, <2>2, <2>4
    <2> QED
      BY <2>5 DEF a, b, c
  <1> QED
    BY <1>1, <1>2, <1>3, <1>4, <1>5

LEMMA RememberStep ==
    ASSUME TypeInv, CallStep, script # <<>>, Head(script) = Remember
    PROVE  /\ Goes /\ UNCHANGED <<chip, dc, useCache, file, call, backup, before, failed>>
           /\ cache' \in Map /\ x0020' = cache'["MAC"]
           /\ \A p \in {"G", "A", "B"} : cache'[p] = cache[p]
           /\ blind' = blind \/ (blind' = TRUE /\ "read" \in Failing)
           /\ \E c \in Macs : ch' = <<c>> \o ch /\ (c = chip["MAC"] \/ blind' = TRUE)
           /\ cache'["MAC"] = chip["MAC"] \/ (cache' = cache /\ blind' = TRUE)
           /\ chip["MAC"] = cache["MAC"] => cache'["MAC"] = chip["MAC"]
  <1>1. RememberChannel
    BY OneStep DEF Remember
  <1>2. chip["MAC"] \in Macs /\ cache \in Map /\ "none" \in Macs
    BY DEF TypeInv, Map, Macs
  <1>3. /\ Goes /\ UNCHANGED <<chip, dc, useCache, file, call, backup, before, failed>>
        /\ x0020' = cache'["MAC"]
    BY <1>1 DEF RememberChannel
  <1>4. CASE /\ ch' = <<chip["MAC"]>> \o ch
             /\ cache' = [cache EXCEPT !["MAC"] = chip["MAC"]]
             /\ blind' = blind
    <2>1. /\ cache' \in Map /\ cache'["MAC"] = chip["MAC"]
          /\ \A p \in {"G", "A", "B"} : cache'[p] = cache[p]
      BY <1>2, <1>4 DEF Map, Places
    <2> QED
      BY <1>2, <1>3, <1>4, <2>1
  <1>5. CASE "read" \in Failing /\ ch' = <<"none">> \o ch /\ blind' = TRUE /\ cache' = cache
    BY <1>2, <1>3, <1>5
  <1> QED
    BY <1>1, <1>4, <1>5 DEF RememberChannel

\* The first step of most calls.
LEMMA Remembers ==
    ASSUME TypeInv, CallStep, script # <<>>, Head(script) = Remember, Fresh
    PROVE  /\ Goes /\ UNCHANGED <<chip, dc, useCache, file, call, backup, before, failed>>
           /\ Held' /\ (~blind' => Synced') /\ (Synced => Synced')
           /\ \A p \in {"G", "A", "B"} : cache'[p] = cache[p]
           /\ blind => blind'
  <1>1. /\ Goes /\ UNCHANGED <<chip, dc, useCache, file, call, backup, before, failed>>
        /\ \A p \in {"G", "A", "B"} : cache'[p] = cache[p]
        /\ blind' = blind \/ blind' = TRUE
        /\ \E c \in Macs : ch' = <<c>> \o ch /\ (c = chip["MAC"] \/ blind' = TRUE)
        /\ cache'["MAC"] = chip["MAC"] \/ blind' = TRUE
        /\ chip["MAC"] = cache["MAC"] => cache'["MAC"] = chip["MAC"]
    BY RememberStep
  <1>2. PICK c \in Macs : ch' = <<c>> \o ch /\ (c = chip["MAC"] \/ blind' = TRUE)
    BY <1>1
  <1>3. ch' = <<c>> /\ (c = before["MAC"] \/ blind' = TRUE)
    BY <1>2, Remembered DEF Fresh
  <1>4. Held'
    BY <1>1, <1>3 DEF Held, Right
  <1> QED
    BY <1>1, <1>4 DEF Synced

LEMMA SelectStep ==
    ASSUME TypeInv, CallStep, script # <<>>, NEW c \in Channels, Head(script) = Select(c)
    PROVE  /\ Goes /\ UNCHANGED <<dc, useCache, file, call, local, before>>
           /\ chip' \in Map /\ cache' \in Map /\ failed' \in {failed, TRUE}
           /\ blind' = blind \/ (blind' = TRUE /\ "read" \in Failing)
           /\ cache'["MAC"] = c
           /\ "select" \notin Failing \/ ~failed' =>
                 /\ failed' = failed
                 /\ \A p \in {"G", "A", "B"} : chip'[p] = chip[p] /\ cache'[p] = cache[p]
                 /\ Synced \/ cache["MAC"] # c => chip'["MAC"] = c
  <1>1. arg = c /\ SelectChannel
    BY OneStep DEF Select
  <1>2. Goes /\ Selects(c) /\ UNCHANGED <<dc, useCache, file, call, local, before>>
    BY <1>1 DEF SelectChannel
  <1>3. chip \in Map /\ cache \in Map /\ useCache \in BOOLEAN
    BY DEF TypeInv
  <1>4. c \in Macs /\ c # "none"
    BY DEF Channels, Macs
  <1> QED
    BY <1>2, <1>3, <1>4, Selecting

\* A call selects what it has remembered and returns, or goes on.
LEMMA RestoreStep ==
    ASSUME TypeInv, CallStep, script # <<>>, Head(script) = Restore,
           NEW c \in Macs, NEW t, Head(ch) = c, Tail(ch) = t
    PROVE  /\ Goes /\ UNCHANGED <<useCache, file, call, before>>
           /\ ch' = t /\ x0020' = "A" /\ backup' = Defaults
           /\ dc' = [dc EXCEPT !.backup = "plain"]
           /\ chip' \in Map /\ cache' \in Map /\ failed' \in {failed, TRUE}
           /\ blind' = blind \/ (blind' = TRUE /\ "read" \in Failing)
           /\ "select" \notin Failing \/ ~failed' =>
                 /\ failed' = failed
                 /\ \A p \in {"G", "A", "B"} : chip'[p] = chip[p] /\ cache'[p] = cache[p]
                 /\ \/ cache'["MAC"] = c /\ (Synced \/ cache["MAC"] # c => chip'["MAC"] = c)
                    \/ chip' = chip /\ cache' = cache /\ c = "none" /\ blind' = TRUE
  <1>1. RestoreChannel
    BY OneStep DEF Restore
  <1>2. /\ Goes /\ Selects(c) /\ UNCHANGED <<useCache, file, call, before>>
        /\ ch' = t /\ x0020' = "A" /\ backup' = Defaults
        /\ dc' = [dc EXCEPT !.backup = "plain"]
    BY <1>1 DEF RestoreChannel
  <1>3. chip \in Map /\ cache \in Map /\ useCache \in BOOLEAN
    BY DEF TypeInv
  <1> QED
    BY <1>2, <1>3, Selecting

\* The channel that is restored is the one before the call unless that could not be read.
LEMMA Restores ==
    ASSUME TypeInv, CallStep, script # <<>>, Head(script) = Restore,
           NEW c \in Macs, NEW t, Head(ch) = c, Tail(ch) = t
    PROVE  /\ Goes /\ UNCHANGED <<useCache, file, call, before>>
           /\ ch' = t /\ chip' \in Map /\ cache' \in Map
           /\ dc'.chip = dc.chip /\ dc'.cache = dc.cache
           /\ failed' \in {failed, TRUE} /\ (blind => blind')
           /\ "select" \notin Failing \/ ~failed' =>
                 /\ failed' = failed
                 /\ \A p \in {"G", "A", "B"} : chip'[p] = chip[p] /\ cache'[p] = cache[p]
                 /\ Synced => Synced' /\ (Right(c) => blind' \/ chip'["MAC"] = before["MAC"])
  <1>1. /\ Goes /\ UNCHANGED <<useCache, file, call, before>>
        /\ ch' = t /\ chip' \in Map /\ cache' \in Map
        /\ dc' = [dc EXCEPT !.backup = "plain"]
        /\ failed' \in {failed, TRUE} /\ (blind' = blind \/ blind' = TRUE)
        /\ "select" \notin Failing \/ ~failed' =>
                 /\ failed' = failed
                 /\ \A p \in {"G", "A", "B"} : chip'[p] = chip[p] /\ cache'[p] = cache[p]
                 /\ \/ cache'["MAC"] = c /\ (Synced \/ cache["MAC"] # c => chip'["MAC"] = c)
                    \/ chip' = chip /\ cache' = cache /\ blind' = TRUE
    BY RestoreStep
  <1>2. dc'.chip = dc.chip /\ dc'.cache = dc.cache
    BY <1>1 DEF TypeInv, DCRecords
  <1>3. "select" \notin Failing \/ ~failed' =>
           (Synced => Synced' /\ (Right(c) => blind' \/ chip'["MAC"] = before["MAC"]))
    BY <1>1 DEF Synced, Right
  <1>4. blind => blind'
    <2>1. blind' = blind \/ blind' = TRUE
      BY <1>1
    <2> QED
      BY <2>1
  <1>5. /\ Goes /\ UNCHANGED <<useCache, file, call, before>>
        /\ ch' = t /\ chip' \in Map /\ cache' \in Map /\ failed' \in {failed, TRUE}
        /\ "select" \notin Failing \/ ~failed' =>
              /\ failed' = failed
              /\ \A p \in {"G", "A", "B"} : chip'[p] = chip[p] /\ cache'[p] = cache[p]
    BY <1>1
  <1> QED
    BY <1>2, <1>3, <1>4, <1>5

\* 0x05C3-0x05CA in a batch.
Commands == {<<>>, <<"plain", "write">>} \cup {<<v>> : v \in DCs}

LEMMA DCStep ==
    ASSUME dc \in DCRecords, NEW values \in Commands, DCWritten(values) \/ DCFails(values)
    PROVE  /\ dc' \in DCRecords
           /\ values = <<>> => dc' = dc
           /\ DCWritten(values) /\ chip["MAC"] = "A" /\ values # <<>> =>
                 dc'.chip = values[Len(values)] /\ dc'.cache = values[Len(values)]
  <1>1. CASE values = <<>>
    BY <1>1 DEF DCWritten, DCFails
  <1>2. CASE values # <<>>
    <2> DEFINE last == values[Len(values)]
               all == {values[k] : k \in DOMAIN values}
    <2>1. last \in DCs /\ all \subseteq DCs
      <3>1. CASE values = <<"plain", "write">>
        <4>1. Len(values) = 2 /\ values[2] = "write" /\ values[1] = "plain" /\ DOMAIN values = {1, 2}
          BY <3>1
        <4> QED
          BY <4>1 DEF DCs
      <3>2. ASSUME NEW v \in DCs, values = <<v>> PROVE last \in DCs /\ all \subseteq DCs
        <4>1. Len(values) = 1 /\ values[1] = v /\ DOMAIN values = {1}
          BY <3>2
        <4> QED
          BY <4>1
      <3> QED
        BY <1>2, <3>1, <3>2 DEF Commands
    <2>2. \E v \in {dc.chip} \cup all \cup {last} :
             dc' = [dc EXCEPT !.cache = last, !.chip = IF chip["MAC"] = "A" THEN v ELSE @]
      BY <1>2 DEF DCWritten, DCFails
    <2>3. DCWritten(values) =>
             dc' = [dc EXCEPT !.cache = last, !.chip = IF chip["MAC"] = "A" THEN last ELSE @]
      BY <1>2 DEF DCWritten
    <2> HIDE DEF last, all
    <2>4. dc' \in DCRecords
      BY <2>1, <2>2 DEF DCRecords
    <2>5. DCWritten(values) /\ chip["MAC"] = "A" => dc'.chip = last /\ dc'.cache = last
      BY <2>3 DEF DCRecords
    <2> QED
      BY <1>2, <2>4, <2>5 DEF last
  <1> QED
    BY <1>1, <1>2

\* Registers of channel c are sent from src.
Sending(c, src, values) ==
    \/ BatchWritten(WritesOf(c, src), TRUE) /\ DCWritten(values) /\ Goes /\ UNCHANGED ch
    \/ /\ BatchFails(WritesOf(c, src), TRUE, "batch") /\ DCFails(values) /\ Abort
       /\ ch' = IF call.op = "copy" THEN Tail(ch) ELSE <<>>

\* Given up: nothing is selected, and the channels that were remembered are dropped.
GivenUp == /\ Abort
           /\ ch' = IF call.op = "copy" THEN Tail(ch) ELSE <<>>
           /\ chip' \in Map /\ cache' \in Map /\ dc' \in DCRecords /\ failed' = TRUE

LEMMA SendingStep ==
    ASSUME TypeInv, NEW c \in Channels, NEW src \in Map, NEW values \in Commands,
           Sending(c, src, values)
    PROVE  \/ /\ Goes /\ ch' = ch
              /\ chip' \in Map /\ cache' \in Map /\ dc' \in DCRecords /\ failed' = failed
              /\ chip'["MAC"] = chip["MAC"] /\ cache'["MAC"] = cache["MAC"]
              /\ On(c) => \A p \in {"G", "A", "B"} :
                    /\ chip'[p] = IF p \in Of(c) THEN src[p] ELSE chip[p]
                    /\ cache'[p] = IF p \in Of(c) THEN src[p] ELSE cache[p]
              /\ values = <<>> => dc' = dc
              /\ On("A") /\ values # <<>> =>
                    dc'.chip = values[Len(values)] /\ dc'.cache = values[Len(values)]
           \/ /\ GivenUp
              /\ chip'["MAC"] = chip["MAC"] /\ cache'["MAC"] = cache["MAC"]
  <1>1. chip \in Map /\ cache \in Map /\ src \in Source /\ dc \in DCRecords
    BY MapIsSource DEF TypeInv
  <1>2. CASE BatchWritten(WritesOf(c, src), TRUE) /\ DCWritten(values) /\ Goes /\ UNCHANGED ch
    <2>1. /\ chip' \in Map /\ cache' \in Map /\ failed' = failed
          /\ chip'["MAC"] = chip["MAC"] /\ cache'["MAC"] = cache["MAC"]
          /\ On(c) => \A p \in {"G", "A", "B"} :
                /\ chip'[p] = IF p \in Of(c) THEN src[p] ELSE chip[p]
                /\ cache'[p] = IF p \in Of(c) THEN src[p] ELSE cache[p]
      BY <1>1, <1>2, WholeSent DEF On
    <2>2. /\ dc' \in DCRecords
          /\ values = <<>> => dc' = dc
          /\ On("A") /\ values # <<>> =>
                dc'.chip = values[Len(values)] /\ dc'.cache = values[Len(values)]
      BY <1>1, <1>2, DCStep DEF On
    <2> QED
      BY <1>2, <2>1, <2>2
  <1>3. CASE /\ BatchFails(WritesOf(c, src), TRUE, "batch") /\ DCFails(values) /\ Abort
             /\ ch' = IF call.op = "copy" THEN Tail(ch) ELSE <<>>
    <2>1. dc' \in DCRecords
      BY <1>1, <1>3, DCStep
    <2> QED
      BY <1>1, <1>3, <2>1, PartSent DEF GivenUp
  <1> QED
    BY <1>2, <1>3 DEF Sending

\* Register 0x0020 is sent.
LEMMA SendingMAC ==
    ASSUME TypeInv, NEW x \in Macs, NEW toChip \in BOOLEAN,
           WriteOrAbort(MACRegister(x), <<>>, toChip, "0020")
    PROVE  \/ /\ Goes /\ ch' = ch /\ dc' = dc
              /\ chip' \in Map /\ cache' \in Map /\ failed' = failed
              /\ \A p \in {"G", "A", "B"} : chip'[p] = chip[p] /\ cache'[p] = cache[p]
              /\ Synced => Synced'
           \/ GivenUp /\ "0020" \in Failing
  <1>1. chip \in Map /\ cache \in Map /\ useCache \in BOOLEAN /\ dc \in DCRecords
    BY DEF TypeInv
  <1>2. CASE BatchWritten(MACRegister(x), toChip) /\ DCWritten(<<>>) /\ Goes /\ UNCHANGED ch
    <2>1. dc' = dc
      BY <1>2 DEF DCWritten
    <2>2. /\ chip' \in Map /\ cache' \in Map /\ failed' = failed
          /\ \A p \in {"G", "A", "B"} : chip'[p] = chip[p] /\ cache'[p] = cache[p]
          /\ Synced => On(x)'
      BY <1>1, <1>2, MACSent
    <2>3. On(x)' => Synced'
      BY DEF On, Synced
    <2> QED
      BY <1>2, <2>1, <2>2, <2>3
  <1>3. CASE /\ BatchFails(MACRegister(x), toChip, "0020") /\ DCFails(<<>>) /\ Abort
             /\ ch' = IF call.op = "copy" THEN Tail(ch) ELSE <<>>
    <2>1. MACRegister(x) \in Seq(Entries(x))
      BY MACEntries
    <2>2. chip' \in Map /\ cache' \in Map /\ failed' = TRUE /\ "0020" \in Failing
      BY <1>1, <1>3, <2>1, BatchSent
    <2>3. dc' = dc
      BY <1>3 DEF DCFails
    <2> QED
      BY <1>1, <1>3, <2>2, <2>3 DEF GivenUp
  <1> QED
    BY <1>2, <1>3 DEF WriteOrAbort

\* ResetLogicregisters, whose failures go unnoticed.
LEMMA ResetLogicStep ==
    ASSUME TypeInv, CallStep, script # <<>>, Head(script) = Do("resetLogic", "A")
    PROVE  /\ Goes /\ UNCHANGED <<dc, useCache, file, call, local, before>>
           /\ chip' \in Map /\ cache' \in Map /\ failed' \in {failed, TRUE}
           /\ blind' = blind \/ (blind' = TRUE /\ "read" \in Failing)
           /\ "0020" \notin Failing =>
                 /\ \A p \in {"G", "A", "B"} : chip'[p] = chip[p] /\ cache'[p] = cache[p]
                 /\ Synced => Synced'
  <1>1. ResetLogicregisters
    BY OneStep
  <1>2. /\ Goes /\ UNCHANGED <<dc, useCache, file, call, local, before>>
        /\ blind' = blind \/ (blind' = TRUE /\ "read" \in Failing)
    BY <1>1 DEF ResetLogicregisters, MayMisread
  <1>3. PICK x \in Macs, toChip \in BOOLEAN :
            \/ BatchWritten(MACRegister(x), toChip)
            \/ BatchFails(MACRegister(x), toChip, "0020")
    BY <1>1 DEF ResetLogicregisters
  <1>4. chip \in Map /\ cache \in Map /\ useCache \in BOOLEAN
    BY DEF TypeInv
  <1>5. CASE BatchWritten(MACRegister(x), toChip)
    <2>1. /\ chip' \in Map /\ cache' \in Map /\ failed' = failed
          /\ \A p \in {"G", "A", "B"} : chip'[p] = chip[p] /\ cache'[p] = cache[p]
          /\ Synced => On(x)'
      BY <1>4, <1>5, MACSent
    <2>2. On(x)' => Synced'
      BY DEF On, Synced
    <2> QED
      BY <1>2, <2>1, <2>2
  <1>6. CASE BatchFails(MACRegister(x), toChip, "0020")
    <2>1. MACRegister(x) \in Seq(Entries(x))
      BY MACEntries
    <2>2. chip' \in Map /\ cache' \in Map /\ failed' = TRUE /\ "0020" \in Failing
      BY <1>4, <1>6, <2>1, BatchSent
    <2> QED
      BY <1>2, <2>2
  <1> QED
    BY <1>3, <1>5, <1>6

ForA(c, values) == IF c = "A" THEN values ELSE <<>>

LEMMA ForACommands ==
    ASSUME TypeInv, NEW c \in Channels
    PROVE  /\ ForA(c, <<dc.cache>>) \in Commands /\ ForA(c, <<dc.backup>>) \in Commands
           /\ ForA(c, <<"plain", "write">>) \in Commands
  <1>1. dc.cache \in DCs /\ dc.backup \in DCs
    BY DEF TypeInv, DCRecords
  <1> QED
    BY <1>1 DEF ForA, Commands

\* Steps that need no lemma of their own.
LEMMA OtherSteps ==
    ASSUME TypeInv, CallStep, script # <<>>, NEW c \in Channels, NEW o, Head(script) = Do(o, c)
    PROVE  /\ o = "upload" => /\ Sending(c, cache, ForA(c, <<dc.cache>>))
                              /\ UNCHANGED <<useCache, file, call, x0020, backup, before, blind>>
           /\ o = "load" => /\ Sending(c, file, ForA(c, <<"plain", "write">>))
                            /\ UNCHANGED <<useCache, file, call, x0020, backup, before, blind>>
           /\ o = "write0020" =>
                 /\ WriteOrAbort(MACRegister(x0020), <<>>, FALSE, "0020")
                 /\ UNCHANGED <<useCache, file, call, x0020, backup, before, blind>>
           /\ o = "load0020" =>
                 /\ \E differs \in BOOLEAN :
                       WriteOrAbort(MACRegister(file["MAC"]), <<>>, differs, "0020")
                 /\ UNCHANGED <<useCache, file, call, x0020, backup, before, blind>>
           /\ o = "writeBack" =>
                 /\ Goes /\ UNCHANGED <<useCache, file, call, local, before, blind>>
                 /\ BatchWritten(BackBatch(c), TRUE) \/ BatchFails(BackBatch(c), TRUE, "batch")
                 /\ dc' \in DCRecords
  <1>1. /\ arg = c
        /\ o = "upload" => Upload
        /\ o = "load" => Load
        /\ o = "write0020" => Write0020
        /\ o = "load0020" => Load0020
        /\ o = "writeBack" => WriteBack
    BY OneStep
  <1>2. o = "upload" => /\ Sending(c, cache, ForA(c, <<dc.cache>>))
                        /\ UNCHANGED <<useCache, file, call, x0020, backup, before, blind>>
    BY <1>1 DEF Upload, WriteOrAbort, Sending, IfA, ForA
  <1>3. o = "load" => /\ Sending(c, file, ForA(c, <<"plain", "write">>))
                      /\ UNCHANGED <<useCache, file, call, x0020, backup, before, blind>>
    BY <1>1 DEF Load, WriteOrAbort, Sending, IfA, ForA
  <1>4. o = "write0020" => /\ WriteOrAbort(MACRegister(x0020), <<>>, FALSE, "0020")
                           /\ UNCHANGED <<useCache, file, call, x0020, backup, before, blind>>
    BY <1>1 DEF Write0020
  <1>5. o = "load0020" =>
           /\ \E differs \in BOOLEAN :
                 WriteOrAbort(MACRegister(file["MAC"]), <<>>, differs, "0020")
           /\ UNCHANGED <<useCache, file, call, x0020, backup, before, blind>>
    BY <1>1 DEF Load0020
  <1>6. ASSUME o = "writeBack"
        PROVE  /\ Goes /\ UNCHANGED <<useCache, file, call, local, before, blind>>
               /\ BatchWritten(BackBatch(c), TRUE) \/ BatchFails(BackBatch(c), TRUE, "batch")
               /\ dc' \in DCRecords
    <2> DEFINE values == ForA(c, <<dc.backup>>)
    <2>1. /\ Goes /\ UNCHANGED <<useCache, file, call, local, before, blind>>
          /\ \/ BatchWritten(BackBatch(c), TRUE) /\ DCWritten(values)
             \/ BatchFails(BackBatch(c), TRUE, "batch") /\ DCFails(values)
      BY <1>1, <1>6 DEF WriteBack, BackBatch, IfA, ForA
    <2>2. values \in Commands /\ dc \in DCRecords
      BY ForACommands DEF TypeInv
    <2> HIDE DEF values
    <2>3. dc' \in DCRecords
      BY <2>1, <2>2, DCStep
    <2> QED
      BY <2>1, <2>3
  <1> QED
    BY <1>2, <1>3, <1>4, <1>5, <1>6

-----------------------------------------------------------------------------
\* UploadAll.

\* What is remembered stays so while the call goes on.
Keeps == UNCHANGED before /\ (blind => blind')

LEMMA HeldKeeps ==
    ASSUME Keeps, ch' = ch
    PROVE  (Held => Held') /\ (HeldTwice => HeldTwice')
  BY DEF Keeps, Held, HeldTwice, Right

LEMMA UploadPartStep ==
    ASSUME TypeInv, CallStep, script # <<>>, NEW k \in 1..6, UploadPart(k),
           Head(script) = UploadAll[k]
    PROVE  /\ UNCHANGED <<file, call>> /\ Keeps
           /\ \/ /\ Goes /\ UploadPart(k + 1)'
                 /\ IF k = 1 THEN \E c \in Macs : ch' = <<c>> \o ch /\ Right(c)' ELSE ch' = ch
                 /\ Reliable => \A p \in {"G", "A", "B"} : cache'[p] = cache[p]
              \/ GivenUp /\ k \in {3, 4, 6} /\ (Reliable => Synced')
  <1>1. /\ chip \in Map /\ cache \in Map /\ before["MAC"] \in Macs /\ x0020 \in Macs
        /\ chip["MAC"] \in Macs /\ "A" \in Channels /\ "B" \in Channels
    BY DEF TypeInv, Map, Channels
  <1>2. ForA("A", <<dc.cache>>) \in Commands /\ ForA("B", <<dc.cache>>) \in Commands
    BY <1>1, ForACommands
  <1>3. CASE k = 1
    <2>1. Head(script) = Remember
      BY <1>3, UploadSteps
    <2>2. /\ Goes /\ UNCHANGED <<chip, useCache, file, call, before>>
          /\ \A p \in {"G", "A", "B"} : cache'[p] = cache[p]
          /\ blind' = blind \/ blind' = TRUE
          /\ \E c \in Macs : ch' = <<c>> \o ch /\ (c = chip["MAC"] \/ blind' = TRUE)
          /\ chip["MAC"] = cache["MAC"] => cache'["MAC"] = chip["MAC"]
      BY <2>1, RememberStep
    <2>3. chip["MAC"] = before["MAC"] /\ (Reliable => Synced)
      BY <1>3 DEF UploadPart
    <2>4. Reliable => Synced'
      BY <2>2, <2>3 DEF Synced
    <2>5. UploadPart(k + 1)'
      BY <1>3, <2>4 DEF UploadPart, Reliable
    <2>6. \E c \in Macs : ch' = <<c>> \o ch /\ Right(c)'
      BY <2>2, <2>3 DEF Right
    <2>7. Keeps
      BY <2>2 DEF Keeps
    <2> QED
      BY <1>3, <2>2, <2>5, <2>6, <2>7
  <1>4. CASE k \in {2, 5}
    <2> DEFINE c == IF k = 2 THEN "A" ELSE "B"
    <2>1. Head(script) = Select(c) /\ c \in Channels
      BY <1>1, <1>4, UploadSteps
    <2>2. (k = 2 => c = "A") /\ (k = 5 => c = "B")
      OBVIOUS
    <2> HIDE DEF c
    <2>3. /\ Goes /\ UNCHANGED <<dc, useCache, file, call, local, before>>
          /\ blind' = blind \/ blind' = TRUE
          /\ cache'["MAC"] = c
          /\ "select" \notin Failing \/ ~failed' =>
                 /\ \A p \in {"G", "A", "B"} : chip'[p] = chip[p] /\ cache'[p] = cache[p]
                 /\ Synced \/ cache["MAC"] # c => chip'["MAC"] = c
      BY <2>1, SelectStep
    <2>4. Reliable => Synced /\ (k = 5 => SameA /\ SameDC)
      BY <1>4 DEF UploadPart
    <2>5. /\ Reliable => On(c)'
          /\ Reliable /\ k = 5 => SameA' /\ SameDC'
      BY <2>3, <2>4 DEF On, Reliable, SameA, SameDC
    <2>6. UploadPart(k + 1)'
      BY <1>4, <2>2, <2>5 DEF UploadPart, Reliable
    <2>7. Keeps
      BY <2>3 DEF Keeps
    <2> QED
      BY <1>4, <2>3, <2>6, <2>7 DEF local, Reliable
  <1>5. CASE k = 3
    <2>1. Head(script) = Do("upload", "A")
      BY <1>5, UploadSteps
    <2>2. /\ Sending("A", cache, ForA("A", <<dc.cache>>))
          /\ UNCHANGED <<useCache, file, call, x0020, backup, before, blind>>
      BY <1>1, <2>1, OtherSteps
    <2>3. (Reliable => On("A")) /\ Keeps
      BY <1>5, <2>2 DEF UploadPart, Keeps
    <2>4. CASE /\ Goes /\ ch' = ch
               /\ chip'["MAC"] = chip["MAC"] /\ cache'["MAC"] = cache["MAC"]
               /\ On("A") => \A p \in {"G", "A", "B"} :
                    /\ chip'[p] = IF p \in Of("A") THEN cache[p] ELSE chip[p]
                    /\ cache'[p] = IF p \in Of("A") THEN cache[p] ELSE cache[p]
               /\ On("A") => dc'.chip = dc'.cache
      <3>1. UploadPart(k + 1)'
        BY <1>5, <2>2, <2>3, <2>4 DEF UploadPart, On, SameA, Of, SameDC
      <3> QED
        BY <1>5, <2>2, <2>3, <2>4, <3>1
    <2>5. CASE /\ GivenUp
               /\ chip'["MAC"] = chip["MAC"] /\ cache'["MAC"] = cache["MAC"]
      BY <1>5, <2>2, <2>3, <2>5 DEF Synced, On
    <2>6. ForA("A", <<dc.cache>>) # <<>>
      BY DEF ForA
    <2> QED
      BY <1>1, <1>2, <2>2, <2>4, <2>5, <2>6, SendingStep
  <1>6. CASE k = 4
    <2>1. Head(script) = Do("write0020", "A")
      BY <1>6, UploadSteps
    <2>2. /\ WriteOrAbort(MACRegister(x0020), <<>>, FALSE, "0020")
          /\ UNCHANGED <<useCache, file, call, x0020, backup, before, blind>>
      BY <1>1, <2>1, OtherSteps
    <2>3. (Reliable => Synced /\ SameA /\ SameDC) /\ Keeps
      BY <1>6, <2>2 DEF UploadPart, On, Synced, Keeps
    <2>4. CASE /\ Goes /\ ch' = ch /\ dc' = dc
               /\ \A p \in {"G", "A", "B"} : chip'[p] = chip[p] /\ cache'[p] = cache[p]
               /\ Synced => Synced'
      <3>1. UploadPart(k + 1)'
        BY <1>6, <2>2, <2>3, <2>4 DEF UploadPart, SameA, SameDC
      <3> QED
        BY <1>6, <2>2, <2>3, <2>4, <3>1
    <2>5. CASE GivenUp /\ "0020" \in Failing
      BY <1>6, <2>2, <2>3, <2>5 DEF Reliable
    <2>6. FALSE \in BOOLEAN
      OBVIOUS
    <2> QED
      BY <1>1, <2>2, <2>4, <2>5, <2>6, SendingMAC
  <1>7. CASE k = 6
    <2>1. Head(script) = Do("upload", "B")
      BY <1>7, UploadSteps
    <2>2. /\ Sending("B", cache, ForA("B", <<dc.cache>>))
          /\ UNCHANGED <<useCache, file, call, x0020, backup, before, blind>>
      BY <1>1, <2>1, OtherSteps
    <2>3. (Reliable => On("B") /\ SameA /\ SameDC) /\ Keeps
      BY <1>7, <2>2 DEF UploadPart, Keeps
    <2>4. CASE /\ Goes /\ ch' = ch /\ dc' = dc /\ chip' \in Map /\ cache' \in Map
               /\ chip'["MAC"] = chip["MAC"] /\ cache'["MAC"] = cache["MAC"]
               /\ On("B") => \A p \in {"G", "A", "B"} :
                    /\ chip'[p] = IF p \in Of("B") THEN cache[p] ELSE chip[p]
                    /\ cache'[p] = IF p \in Of("B") THEN cache[p] ELSE cache[p]
      <3>1. Reliable => chip' = cache'
        <4> SUFFICES ASSUME Reliable PROVE chip' = cache'
          OBVIOUS
        <4>1. chip'["MAC"] = cache'["MAC"] /\ \A p \in {"G", "A", "B"} : chip'[p] = cache'[p]
          BY <2>3, <2>4 DEF On, SameA, Of
        <4> QED
          BY <2>4, <4>1, SameMaps
      <3>2. UploadPart(k + 1)'
        BY <1>7, <2>3, <2>4, <3>1 DEF UploadPart, SameDC
      <3> QED
        BY <1>7, <2>2, <2>3, <2>4, <3>2
    <2>5. CASE /\ GivenUp
               /\ chip'["MAC"] = chip["MAC"] /\ cache'["MAC"] = cache["MAC"]
      BY <1>7, <2>2, <2>3, <2>5 DEF Synced, On
    <2>6. ForA("B", <<dc.cache>>) = <<>>
      BY DEF ForA
    <2> QED
      BY <1>1, <1>2, <2>2, <2>4, <2>5, <2>6, SendingStep
  <1>8. k = 1 \/ k \in {2, 5} \/ k = 3 \/ k = 4 \/ k = 6
    OBVIOUS
  <1> QED
    BY <1>3, <1>4, <1>5, <1>6, <1>7, <1>8

\* The script of a call, and what is left of it after a step.
LEMMA Stepping ==
    ASSUME NEW op \in LongCalls, NEW n, Stage(op, n)
    PROVE  /\ StepsOf(op) \in Seq(Instructions) /\ n \in 1..Len(StepsOf(op))
           /\ Len(StepsOf(op)) \in 1..15
           /\ script # <<>> /\ Head(script) = StepsOf(op)[n] /\ Head(script) \in Instructions
           /\ Goes => /\ result' = result
                      /\ n = Len(StepsOf(op)) => script' = <<>>
                      /\ n < Len(StepsOf(op)) => /\ n + 1 \in 1..Len(StepsOf(op))
                                                 /\ script' = Rest(StepsOf(op), n + 1)
  <1> DEFINE s == StepsOf(op)
  <1>1. s \in Seq(Instructions) /\ Len(s) \in 1..15
    BY UploadSteps, TestSteps, DownloadSteps, IsSyncedSteps, SaveSteps, LoadSteps, CopySteps
       DEF StepsOf, LongCalls
  <1>2. n \in 1..Len(s) /\ script = Rest(s, n)
    BY DEF Stage
  <1> HIDE DEF s
  <1>3. /\ Rest(s, n) # <<>> /\ Head(Rest(s, n)) = s[n]
        /\ Tail(Rest(s, n)) = IF n = Len(s) THEN <<>> ELSE Rest(s, n + 1)
    BY <1>1, <1>2, Advance
  <1>4. s[n] \in Instructions
    BY <1>1, <1>2, ElementOfSeq
  <1>5. Goes => script' = Tail(Rest(s, n)) /\ result' = result
    BY <1>2 DEF Goes
  <1>6. n < Len(s) => n + 1 \in 1..Len(s) /\ n # Len(s)
    BY <1>1, <1>2
  <1>7. Goes => /\ result' = result
                /\ n = Len(s) => script' = <<>>
                /\ n < Len(s) => n + 1 \in 1..Len(s) /\ script' = Rest(s, n + 1)
    BY <1>3, <1>5, <1>6
  <1>8. script # <<>> /\ Head(script) = s[n] /\ Head(script) \in Instructions
    BY <1>2, <1>3, <1>4
  <1> QED
    BY <1>1, <1>2, <1>7, <1>8 DEF s

\* A call with an error leaves nothing to be said of it.
LEMMA FailedCall ==
    ASSUME script' = <<>>, result' = -1, ch' = <<>>, Reliable => Synced'
    PROVE  Where'
  BY DEF Where, IdleOK, SuccessMeansSame, ChannelRestored, TestRestores, Succeeded

LEMMA UploadCall ==
    ASSUME TypeInv, CallStep, NEW n, Stage("upload", n)
    PROVE  Where'
  <1> DEFINE s == StepsOf("upload")
  <1>1. s = UploadAll /\ Len(s) = 7 /\ "upload" \in LongCalls
    BY UploadSteps DEF StepsOf, LongCalls
  <1>2. /\ n \in 1..7 /\ script # <<>> /\ Head(script) = UploadAll[n]
        /\ Goes => /\ result' = result
                   /\ n = 7 => script' = <<>>
                   /\ n < 7 => n + 1 \in 1..7 /\ script' = Rest(UploadAll, n + 1)
    BY <1>1, Stepping
  <1>3. UploadPart(n) /\ (IF n = 1 THEN Fresh ELSE Held) /\ call.op = "upload"
    BY DEF Stage, UploadPos
  <1>5. CASE n \in 1..6
    <2>1. /\ UNCHANGED <<file, call>> /\ Keeps
          /\ \/ /\ Goes /\ UploadPart(n + 1)'
                /\ IF n = 1 THEN \E c \in Macs : ch' = <<c>> \o ch /\ Right(c)' ELSE ch' = ch
             \/ GivenUp /\ (Reliable => Synced')
      BY <1>2, <1>3, <1>5, UploadPartStep
    <2>2. CASE /\ Goes /\ UploadPart(n + 1)'
               /\ IF n = 1 THEN \E c \in Macs : ch' = <<c>> \o ch /\ Right(c)' ELSE ch' = ch
      <3>1. Held'
        <4>1. CASE n = 1
          <5>1. ch = <<>>
            BY <1>3, <4>1 DEF Fresh
          <5>2. PICK c \in Macs : ch' = <<c>> \o <<>> /\ Right(c)'
            BY <2>2, <4>1, <5>1
          <5>3. ch' = <<c>>
            BY <5>2, Remembered
          <5> QED
            BY <5>2, <5>3 DEF Held
        <4>2. CASE n # 1
          BY <1>3, <2>1, <2>2, <4>2, HeldKeeps
        <4> QED
          BY <4>1, <4>2
      <3>2. n + 1 # 1
        BY <1>5
      <3>3. UploadPos(n + 1)'
        BY <2>2, <3>1, <3>2 DEF UploadPos
      <3>4. script' = Rest(UploadAll, n + 1) /\ n + 1 \in 1..7 /\ n + 1 \in 1..15
        BY <1>2, <1>5, <2>2
      <3>5. Stage("upload", n + 1)'
        BY <1>1, <1>3, <2>1, <3>3, <3>4 DEF Stage
      <3> QED
        BY <1>1, <3>4, <3>5 DEF Where
    <2>3. CASE GivenUp /\ (Reliable => Synced')
      BY <1>3, <2>1, <2>3, FailedCall DEF GivenUp, Abort
    <2> QED
      BY <2>1, <2>2, <2>3
  <1>6. CASE n = 7
    <2>1. PICK c \in Macs : ch = <<c>> /\ Right(c)
      BY <1>3, <1>6 DEF Held
    <2>2. Head(ch) = c /\ Tail(ch) = <<>>
      BY <2>1, Remembered
    <2>3. Head(script) = Restore /\ (Reliable => chip = cache /\ SameDC)
      BY <1>2, <1>3, <1>6, UploadSteps DEF UploadPart
    <2>4. /\ Goes /\ UNCHANGED <<useCache, file, call, before>>
          /\ ch' = <<>> /\ chip' \in Map /\ cache' \in Map
          /\ dc'.chip = dc.chip /\ dc'.cache = dc.cache
          /\ "select" \notin Failing =>
                 /\ \A p \in {"G", "A", "B"} : chip'[p] = chip[p] /\ cache'[p] = cache[p]
                 /\ Synced => Synced' /\ (Right(c) => blind' \/ chip'["MAC"] = before["MAC"])
      BY <1>2, <2>2, <2>3, Restores
    <2>5. ASSUME Reliable
          PROVE  chip' = cache' /\ (~blind' => chip'["MAC"] = before["MAC"])
      <3>1. /\ Synced' /\ (~blind' => chip'["MAC"] = before["MAC"])
            /\ \A p \in {"G", "A", "B"} : chip'[p] = cache'[p]
        BY <2>1, <2>3, <2>4, <2>5 DEF Reliable, Synced
      <3> QED
        BY <2>4, <3>1, SameMaps DEF Synced
    <2>6. Reliable => dc'.chip = dc'.cache
      BY <2>3, <2>4 DEF SameDC
    <2>7. IdleOK'
      BY <1>3, <2>4, <2>5, <2>6 DEF IdleOK, SuccessMeansSame, ChannelRestored, TestRestores,
         Succeeded, Synced, Reliable
    <2> QED
      BY <1>2, <1>6, <2>4, <2>7 DEF Where
  <1> QED
    BY <1>2, <1>5, <1>6

-----------------------------------------------------------------------------
\* CopyChannelRegisters.

LEMMA CopyCall ==
    ASSUME TypeInv, CallStep, NEW n, Stage("copy", n)
    PROVE  Where'
  <1> DEFINE s == CopyChannelRegisters
  <1>1. StepsOf("copy") = s /\ Len(s) = 10 /\ s \in Seq(Instructions) /\ "copy" \in LongCalls
    BY CopySteps DEF StepsOf, LongCalls
  <1>2. /\ n \in 1..10 /\ script # <<>> /\ Head(script) = s[n]
        /\ Goes => /\ n = 10 => script' = <<>>
                   /\ n < 10 => n + 1 \in 1..10 /\ script' = Rest(s, n + 1)
    BY <1>1, Stepping
  <1>3. CopyPos(n) /\ call.op = "copy"
    BY DEF Stage
  <1>4. chip \in Map /\ cache \in Map
    BY DEF TypeInv
  <1> HIDE DEF s
  <1>5. ASSUME NEW k \in 1..10, script' = Rest(s, k), CopyPos(k)', call' = call
        PROVE  Where'
    <2>1. k \in 1..Len(StepsOf("copy"))
      BY <1>1
    <2>2. k \in 1..15
      OBVIOUS
    <2>3. (call.op)' = "copy"
      BY <1>3, <1>5
    <2>4. Stage("copy", k)'
      BY <1>1, <1>5, <2>1, <2>3 DEF Stage
    <2> QED
      BY <1>1, <2>2, <2>4 DEF Where
  <1>6. CASE n = 1
    <2>1. Head(script) = Remember /\ Fresh
      BY <1>2, <1>3, <1>6, CopySteps DEF s, CopyPos
    <2>2. /\ Goes /\ UNCHANGED <<chip, call, before>>
          /\ Held' /\ (Synced => Synced')
      BY <1>2, <2>1, Remembers
    <2>3. chip["MAC"] = before["MAC"] /\ (Reliable => Synced)
      BY <2>1 DEF Fresh
    <2>4. (chip["MAC"] = before["MAC"])' /\ (Reliable => Synced)'
      BY <2>2, <2>3 DEF Reliable
    <2>5. CopyPos(2)' /\ script' = Rest(s, 2)
      BY <1>2, <1>6, <2>2, <2>4 DEF CopyPos
    <2> QED
      BY <1>5, <2>2, <2>5
  <1>7. CASE n = 2
    <2>1. Head(script) = Do("copy", "A")
      BY <1>2, <1>7, CopySteps DEF s
    <2>2. Copy
      BY <1>2, <2>1, OneStep
    <2>3. Goes /\ UNCHANGED <<chip, useCache, file, call, local, history>>
      BY <2>2 DEF Copy
    <2>4. Twins' /\ cache'["MAC"] = cache["MAC"]
      <3> DEFINE to == CHOOSE c \in Channels : c # call.from
      <3>1. to \in Channels /\ to # call.from
        BY DEF Channels
      <3> HIDE DEF to
      <3>2. cache' = [cache EXCEPT ![to] = cache[call.from]]
        BY <2>2 DEF Copy, to
      <3>3. call.from \in Channels /\ DOMAIN cache = Places
        BY DEF TypeInv, Map
      <3> QED
        BY <3>1, <3>2, <3>3 DEF Twins, Channels, Places
    <2>5. (Reliable => Synced)' /\ (chip["MAC"] = before["MAC"])'
      BY <1>3, <1>7, <2>3, <2>4 DEF CopyPos, Synced, Reliable, history
    <2>6. Keeps /\ ch' = ch
      BY <2>3 DEF Keeps, local, history
    <2>7. Held'
      BY <1>3, <1>7, <2>6, HeldKeeps DEF CopyPos
    <2>8. CopyPos(3)' /\ script' = Rest(s, 3)
      BY <1>2, <1>7, <2>3, <2>4, <2>5, <2>7 DEF CopyPos, UploadPart
    <2> QED
      BY <1>5, <2>3, <2>8
  <1>8. CASE n \in 3..8
    <2> DEFINE k == n - 2
    <2>1. k \in 1..6 /\ n = k + 2 /\ n - 2 = k /\ (n + 1) - 2 = k + 1 /\ n \in 3..9
      BY <1>8
    <2>2. s[n] = UploadAll[k] /\ UploadPart(k)
      <3>1. s[k + 2] = UploadAll[k]
        BY <2>1, CopySteps DEF s
      <3>2. UploadPart(n - 2)
        BY <1>3, <2>1 DEF CopyPos
      <3> QED
        BY <2>1, <3>1, <3>2
    <2> HIDE DEF k
    <2>3. /\ UNCHANGED <<file, call>> /\ Keeps
          /\ \/ /\ Goes /\ UploadPart(k + 1)'
                /\ IF k = 1 THEN \E c \in Macs : ch' = <<c>> \o ch /\ Right(c)' ELSE ch' = ch
                /\ Reliable => \A p \in {"G", "A", "B"} : cache'[p] = cache[p]
             \/ GivenUp /\ k \in {3, 4, 6} /\ (Reliable => Synced')
      BY <1>2, <2>1, <2>2, UploadPartStep
    <2>4. /\ n = 3 => Held
          /\ n \in 4..9 => HeldTwice
          /\ Reliable => Twins
      BY <1>3, <2>1 DEF CopyPos
    <2>5. CASE /\ Goes /\ UploadPart(k + 1)'
               /\ IF k = 1 THEN \E c \in Macs : ch' = <<c>> \o ch /\ Right(c)' ELSE ch' = ch
               /\ Reliable => \A p \in {"G", "A", "B"} : cache'[p] = cache[p]
      <3>1. HeldTwice'
        <4>1. CASE k = 1
          <5>1. PICK d \in Macs : ch = <<d>> /\ Right(d)
            BY <2>1, <2>4, <4>1 DEF Held
          <5>2. PICK c \in Macs : ch' = <<c>> \o ch /\ Right(c)'
            BY <2>5, <4>1
          <5>3. ch' = <<c, d>>
            BY <5>1, <5>2, Remembered
          <5>4. Right(d)'
            BY <2>3, <5>1 DEF Right, Keeps
          <5> QED
            BY <5>2, <5>3, <5>4 DEF HeldTwice
        <4>2. CASE k # 1
          <5>1. n \in 4..9 /\ ch' = ch
            BY <1>8, <2>1, <2>5, <4>2
          <5> QED
            BY <2>3, <2>4, <5>1, HeldKeeps
        <4> QED
          BY <4>1, <4>2
      <3>3. (Reliable => Twins)'
        BY <2>4, <2>5 DEF Twins, Reliable
      <3>4. UploadPart((n + 1) - 2)'
        <4>1. (n + 1) - 2 = k + 1
          BY <2>1
        <4> QED
          BY <2>5, <4>1
      <3>5. n + 1 \in 4..9
        BY <1>8
      <3>6. CopyPos(n + 1)'
        BY <3>1, <3>3, <3>4, <3>5 DEF CopyPos
      <3>7. script' = Rest(s, n + 1) /\ n + 1 \in 1..10
        BY <1>2, <1>8, <2>5
      <3> QED
        BY <1>5, <2>3, <3>6, <3>7
    <2>6. CASE GivenUp /\ k \in {3, 4, 6} /\ (Reliable => Synced')
      <3>1. script' = <<Restore>> /\ ch' = Tail(ch) /\ failed' = TRUE
        BY <1>3, <2>6 DEF GivenUp, Abort
      <3>2. PICK c \in Macs, d \in Macs : ch = <<c, d>> /\ Right(d)
        BY <2>1, <2>4, <2>6 DEF HeldTwice
      <3>3. ch' = <<d>> /\ Right(d)'
        BY <2>3, <3>1, <3>2, Remembered DEF Right, Keeps
      <3>4. script' = Rest(s, 10)
        <4>1. s[10] = Restore
          BY CopySteps DEF s
        <4> DEFINE m == 10
        <4>2. m \in 1..Len(s) /\ m = Len(s)
          BY <1>1
        <4> HIDE DEF m
        <4>3. Rest(s, m) = <<s[m]>>
          BY <1>1, <4>2, Advance
        <4> QED
          BY <3>1, <4>1, <4>3 DEF m
      <3>5. Held'
        BY <3>3 DEF Held
      <3>6. (Reliable => Synced /\ (~failed => chip = cache /\ SameDC /\ Twins))'
        BY <2>6, <3>1 DEF Reliable
      <3>7. CopyPos(10)'
        BY <3>5, <3>6 DEF CopyPos
      <3> QED
        BY <1>5, <2>3, <3>4, <3>7
    <2> QED
      BY <2>3, <2>5, <2>6
  <1>9. CASE n = 9
    <2>1. Head(script) = Restore
      BY <1>2, <1>9, CopySteps, UploadSteps DEF s
    <2>0. PICK c \in Macs, d \in Macs : ch = <<c, d>> /\ Right(d)
      BY <1>3, <1>9 DEF CopyPos, HeldTwice
    <2>2. Head(ch) = c /\ Tail(ch) = <<d>>
      BY <2>0, Remembered
    <2>3. Reliable => chip = cache /\ Twins /\ SameDC
      BY <1>3, <1>9 DEF CopyPos, UploadPart
    <2>4. /\ Goes /\ UNCHANGED <<useCache, file, call, before>>
          /\ ch' = <<d>> /\ chip' \in Map /\ cache' \in Map
          /\ dc'.chip = dc.chip /\ dc'.cache = dc.cache
          /\ blind => blind'
          /\ "select" \notin Failing =>
                 /\ \A p \in {"G", "A", "B"} : chip'[p] = chip[p] /\ cache'[p] = cache[p]
                 /\ Synced => Synced'
      BY <1>2, <2>1, <2>2, Restores
    <2>5. ASSUME Reliable
          PROVE  chip' = cache' /\ Synced' /\ Twins' /\ SameDC'
      <3>1. Synced' /\ \A p \in {"G", "A", "B"} : chip'[p] = cache'[p]
        BY <2>3, <2>4, <2>5 DEF Reliable, Synced
      <3> QED
        BY <2>3, <2>4, <2>5, <3>1, SameMaps DEF Synced, Twins, Reliable, SameDC
    <2>6. Held'
      BY <2>0, <2>4 DEF Held, Right
    <2>7. CopyPos(10)' /\ script' = Rest(s, 10)
      BY <1>2, <1>9, <2>4, <2>5, <2>6 DEF CopyPos, Reliable
    <2> QED
      BY <1>5, <2>4, <2>7
  <1>10. CASE n = 10
    <2>1. Head(script) = Restore
      BY <1>2, <1>10, CopySteps DEF s
    <2>0. PICK c \in Macs : ch = <<c>> /\ Right(c)
      BY <1>3, <1>10 DEF CopyPos, Held
    <2>2. Head(ch) = c /\ Tail(ch) = <<>>
      BY <2>0, Remembered
    <2>3. Reliable => Synced /\ (~failed => chip = cache /\ SameDC /\ Twins)
      BY <1>3, <1>10 DEF CopyPos
    <2>4. /\ Goes /\ UNCHANGED <<useCache, file, call, before>>
          /\ ch' = <<>> /\ chip' \in Map /\ cache' \in Map
          /\ dc'.chip = dc.chip /\ dc'.cache = dc.cache
          /\ "select" \notin Failing =>
                 /\ failed' = failed
                 /\ \A p \in {"G", "A", "B"} : chip'[p] = chip[p] /\ cache'[p] = cache[p]
                 /\ Synced => Synced' /\ (Right(c) => blind' \/ chip'["MAC"] = before["MAC"])
      BY <1>2, <2>1, <2>2, Restores
    <2>5. ASSUME Reliable
          PROVE  Synced' /\ (~blind' => chip'["MAC"] = before["MAC"])
      BY <2>0, <2>3, <2>4, <2>5 DEF Reliable
    <2>6. ASSUME Reliable, ~failed'
          PROVE  chip' = cache' /\ chip'["A"] = chip'["B"] /\ dc'.chip = dc'.cache
      <3>0. ~failed
        BY <2>4, <2>6 DEF Reliable
      <3>1. chip = cache /\ Twins /\ SameDC
        BY <2>3, <2>6, <3>0
      <3>2. \A p \in {"G", "A", "B"} : chip'[p] = cache'[p]
        BY <2>4, <2>6, <3>1 DEF Reliable
      <3>3. chip' = cache'
        BY <2>4, <2>5, <2>6, <3>2, SameMaps DEF Synced
      <3>4. chip'["A"] = chip'["B"] /\ dc'.chip = dc'.cache
        BY <2>4, <2>6, <3>1 DEF Reliable, Twins, SameDC
      <3> QED
        BY <3>3, <3>4
    <2>7. IdleOK'
      BY <1>3, <2>4, <2>5, <2>6 DEF IdleOK, SuccessMeansSame, ChannelRestored, TestRestores,
         Succeeded, Synced, Reliable
    <2> QED
      BY <1>2, <1>10, <2>4, <2>7 DEF Where
  <1> QED
    BY <1>2, <1>6, <1>7, <1>8, <1>9, <1>10

-----------------------------------------------------------------------------
\* DownloadAll.

LEMMA ReadStep ==
    ASSUME CallStep, script # <<>>, NEW c \in Channels, NEW o \in {"download", "backup"},
           Head(script) = Do(o, c)
    PROVE  \/ /\ Goes /\ cache' = Answers(c, cache)
              /\ UNCHANGED <<chip, useCache, file, call, ch, x0020, history>>
              /\ backup' = IF o = "backup" THEN Answers(c, backup) ELSE backup
           \/ /\ Abort /\ ch' = <<>>
              /\ UNCHANGED <<maps, useCache, file, call, before, blind>>
  <1>1. arg = c
    BY OneStep
  <1>2. CASE o = "download"
    <2>1. Download \/ ReadFails
      BY <1>2, OneStep
    <2> QED
      BY <1>1, <1>2, <2>1 DEF Download, ReadFails, local
  <1>3. CASE o = "backup"
    <2>1. Backup \/ ReadFails
      BY <1>3, OneStep
    <2> QED
      BY <1>1, <1>3, <2>1 DEF Backup, ReadFails
  <1> QED
    BY <1>2, <1>3

\* What is downloaded of 0x05C3-0x05CA.
LEMMA DCRead ==
    ASSUME TypeInv, CallStep, script # <<>>, NEW c \in Channels, Head(script) = Do("download", c)
    PROVE  \/ Abort
           \/ /\ c = "A" /\ chip["MAC"] = "A" => dc'.chip = dc'.cache
              /\ c = "B" => dc' = dc
  <1>1. arg = c /\ (Download \/ ReadFails)
    BY OneStep
  <1>2. CASE ReadFails
    BY <1>2 DEF ReadFails
  <1>3. CASE Download
    <2>1. dc' = [dc EXCEPT !.cache = IF c = "A" THEN DCAnswer ELSE @]
      BY <1>1, <1>3 DEF Download
    <2>2. dc \in DCRecords
      BY DEF TypeInv
    <2>3. c = "B" => dc' = dc
      BY <2>1, <2>2 DEF DCRecords
    <2>4. chip["MAC"] = "A" => DCAnswer = dc.chip
      BY DEF DCAnswer
    <2>5. c = "A" /\ chip["MAC"] = "A" => dc'.chip = dc'.cache
      BY <2>1, <2>2, <2>4 DEF DCRecords
    <2> QED
      BY <2>3, <2>5
  <1> QED
    BY <1>1, <1>2, <1>3

\* Before Restore.
Recalled == \E m \in Macs : ch = <<m>> /\ (Reliable => Right(m))

LEMMA DownloadCall ==
    ASSUME TypeInv, CallStep, NEW n, Stage("download", n)
    PROVE  Where'
  <1> DEFINE s == DownloadAll
  <1>1. StepsOf("download") = s /\ Len(s) = 6 /\ "download" \in LongCalls
    BY DownloadSteps DEF StepsOf, LongCalls
  <1>2. /\ n \in 1..6 /\ script # <<>> /\ Head(script) = s[n]
        /\ Goes => /\ result' = result
                   /\ n = 6 => script' = <<>>
                   /\ n < 6 => n + 1 \in 1..6 /\ script' = Rest(s, n + 1)
    BY <1>1, Stepping
  <1>3. DownloadPos(n) /\ call.op = "download"
    BY DEF Stage
  <1>4. /\ chip \in Map /\ cache \in Map /\ "none" \in Macs
        /\ chip["MAC"] \in Macs /\ cache["MAC"] \in Macs
    BY DEF TypeInv, Map, Macs
  <1> HIDE DEF s
  <1>5. ASSUME NEW k \in 1..6, script' = Rest(s, k), DownloadPos(k)', call' = call
        PROVE  Where'
    <2>1. k \in 1..Len(StepsOf("download"))
      BY <1>1
    <2>2. k \in 1..15
      OBVIOUS
    <2>3. (call.op)' = "download"
      BY <1>3, <1>5
    <2>4. Stage("download", k)'
      BY <1>1, <1>5, <2>1, <2>3 DEF Stage
    <2> QED
      BY <1>1, <2>2, <2>4 DEF Where
  <1>6. CASE n = 1
    <2>1. Head(script) = Do("recall", "A")
      BY <1>2, <1>6, DownloadSteps DEF s
    <2>2. RecallChannel
      BY <1>2, <2>1, OneStep
    <2>3. /\ Goes /\ UNCHANGED <<chip, call, before>>
          /\ \/ /\ ch' = <<Active>> \o ch /\ cache' = [cache EXCEPT !["MAC"] = Active]
                /\ blind' = blind
             \/ ch' = <<"none">> \o ch /\ cache' = cache /\ blind' = TRUE
      BY <2>2 DEF RecallChannel
    <2>4. Active \in Macs /\ Fresh /\ (Reliable => Active = before["MAC"])
      BY <1>3, <1>4, <1>6 DEF Active, DownloadPos, Fresh, Synced
    <2>5. CASE /\ ch' = <<Active>> \o ch /\ cache' = [cache EXCEPT !["MAC"] = Active]
               /\ blind' = blind
      <3>1. ch' = <<Active>>
        BY <2>4, <2>5, Remembered DEF Fresh
      <3>2. cache'["MAC"] = Active
        BY <1>4, <2>5 DEF Map, Places
      <3>3. Reliable => Synced'
        BY <2>3, <2>4, <3>2 DEF Synced, Fresh
      <3>4. Recalled'
        <4> DEFINE m == Active
        <4>1. m \in Macs /\ ch' = <<m>> /\ (Reliable => before["MAC"]' = m)
          BY <2>3, <2>4, <3>1
        <4> HIDE DEF m
        <4> QED
          BY <4>1 DEF Recalled, Right, Reliable
      <3>5. DownloadPos(2)' /\ script' = Rest(s, 2)
        BY <1>2, <1>6, <2>3, <3>3, <3>4 DEF DownloadPos, Reliable, Recalled
      <3> QED
        BY <1>5, <2>3, <3>5
    <2>6. CASE ch' = <<"none">> \o ch /\ cache' = cache /\ blind' = TRUE
      <3>1. ch' = <<"none">>
        BY <1>4, <2>4, <2>6, Remembered DEF Fresh
      <3>2. Recalled'
        BY <1>4, <2>6, <3>1 DEF Recalled, Right
      <3>3. (Reliable => Synced)'
        BY <2>3, <2>4, <2>6 DEF Fresh, Synced, Reliable
      <3>4. DownloadPos(2)' /\ script' = Rest(s, 2)
        BY <1>2, <1>6, <2>3, <3>2, <3>3 DEF DownloadPos, Recalled
      <3> QED
        BY <1>5, <2>3, <3>4
    <2> QED
      BY <2>3, <2>5, <2>6
  <1>7. n > 1 => Recalled
    BY <1>3 DEF DownloadPos, Recalled
  <1>8. n > 1 /\ ch' = ch /\ Keeps => Recalled'
    BY <1>7 DEF Reliable, Recalled, Right, Keeps
  <1>9. CASE n \in {2, 4}
    <2> DEFINE c == IF n = 2 THEN "A" ELSE "B"
    <2>1. c \in Channels /\ Head(script) = Select(c)
      BY <1>2, <1>9, DownloadSteps DEF s, Channels
    <2>0. (n = 2 => c = "A") /\ (n = 4 => c = "B")
      OBVIOUS
    <2> HIDE DEF c
    <2>2. /\ Goes /\ UNCHANGED <<dc, useCache, file, call, local, before>>
          /\ blind' = blind \/ blind' = TRUE
          /\ cache'["MAC"] = c
          /\ "select" \notin Failing \/ ~failed' =>
                 /\ \A p \in {"G", "A", "B"} : chip'[p] = chip[p] /\ cache'[p] = cache[p]
                 /\ Synced \/ cache["MAC"] # c => chip'["MAC"] = c
      BY <1>2, <2>1, SelectStep
    <2>3. Reliable => Synced /\ (n = 4 => SameA /\ SameDC)
      BY <1>3, <1>9 DEF DownloadPos, On, Synced
    <2>4. Reliable => On(c)' /\ (n = 4 => SameA' /\ SameDC')
      BY <2>2, <2>3 DEF On, SameA, Reliable, SameDC
    <2>5. Recalled'
      BY <1>8, <1>9, <2>2 DEF local, Keeps
    <2>6. DownloadPos(n + 1)'
      <3>1. CASE n = 2
        BY <2>0, <2>4, <2>5, <3>1 DEF DownloadPos, Recalled, Reliable
      <3>2. CASE n = 4
        BY <2>0, <2>4, <2>5, <3>2 DEF DownloadPos, Recalled, Reliable
      <3> QED
        BY <1>9, <3>1, <3>2
    <2>7. script' = Rest(s, n + 1) /\ n + 1 \in 1..6
      BY <1>2, <1>9, <2>2
    <2> QED
      BY <1>5, <2>2, <2>6, <2>7
  <1>10. CASE n \in {3, 5}
    <2> DEFINE c == IF n = 3 THEN "A" ELSE "B"
    <2>1. c \in Channels /\ Head(script) = Do("download", c)
      BY <1>2, <1>10, DownloadSteps DEF s, Channels
    <2>2. Reliable => On(c) /\ (n = 5 => SameA /\ SameDC)
      BY <1>3, <1>10 DEF DownloadPos
    <2>3. (n = 3 => c = "A") /\ (n = 5 => c = "B")
      OBVIOUS
    <2> HIDE DEF c
    <2>4. CASE /\ Goes /\ cache' = Answers(c, cache)
               /\ UNCHANGED <<chip, useCache, file, call, ch, x0020, history>>
      <3>0. Keeps /\ call' = call /\ chip' = chip /\ c # "none"
        BY <2>1, <2>4 DEF Keeps, history, Channels
      <3>1. /\ cache' \in Map
            /\ cache'["MAC"] = IF c = "A" THEN chip["MAC"] ELSE cache["MAC"]
            /\ chip["MAC"] # "none" => cache'[c] = chip[chip["MAC"]]
            /\ c = "A" => cache'["G"] = chip["G"]
            /\ c = "B" => cache'["G"] = cache["G"] /\ cache'["A"] = cache["A"]
        BY <1>4, <2>1, <2>4, Answered
      <3>2. Reliable => cache'["MAC"] = c /\ cache'[c] = chip'[c] /\ On(c)'
        BY <2>1, <2>2, <3>0, <3>1 DEF On
      <3>3. Reliable => SameA'
        BY <1>10, <2>2, <2>3, <3>0, <3>1, <3>2 DEF SameA
      <3>4. ASSUME Reliable, n = 5 PROVE chip' = cache'
        <4>1. \A p \in {"G", "A", "B"} : chip'[p] = cache'[p]
          BY <2>3, <3>2, <3>3, <3>4 DEF SameA
        <4>2. chip'["MAC"] = cache'["MAC"] /\ chip' \in Map
          BY <1>4, <3>0, <3>2, <3>4 DEF On
        <4> QED
          BY <3>1, <4>1, <4>2, SameMaps
      <3>5. Recalled'
        BY <1>8, <1>10, <2>4, <3>0
      <3>6. Reliable => SameDC'
        <4>1. Abort => script' = <<>>
          BY <1>3 DEF Abort
        <4>2. result' = result /\ script' = Tail(script)
          BY <2>4 DEF Goes
        <4>3. script' = Rest(s, n + 1) /\ n + 1 \in 1..6
          BY <1>2, <1>10, <2>4
        <4>4. Rest(s, n + 1) # <<>>
          BY <1>1, <4>3, Advance, DownloadSteps DEF s
        <4>5. /\ c = "A" /\ chip["MAC"] = "A" => dc'.chip = dc'.cache
              /\ c = "B" => dc' = dc
          BY <1>2, <2>1, <4>1, <4>3, <4>4, DCRead
        <4> QED
          BY <1>10, <2>2, <2>3, <4>5 DEF On, SameDC
      <3>7. DownloadPos(n + 1)'
        <4>1. CASE n = 3
          BY <2>3, <3>2, <3>3, <3>5, <3>6, <4>1 DEF DownloadPos, Recalled, Reliable
        <4>2. CASE n = 5
          BY <3>4, <3>5, <3>6, <4>2 DEF DownloadPos, Recalled, Reliable
        <4> QED
          BY <1>10, <4>1, <4>2
      <3>8. script' = Rest(s, n + 1) /\ n + 1 \in 1..6
        BY <1>2, <1>10, <2>4
      <3> QED
        BY <1>5, <3>0, <3>7, <3>8
    <2>5. CASE /\ Abort /\ ch' = <<>>
               /\ UNCHANGED <<maps, useCache, file, call, before, blind>>
      BY <1>3, <2>2, <2>5, FailedCall DEF Abort, Synced, On, maps
    <2>6. "download" \in {"download", "backup"}
      OBVIOUS
    <2> QED
      BY <1>2, <2>1, <2>4, <2>5, <2>6, ReadStep
  <1>11. CASE n = 6
    <2>1. PICK m \in Macs : ch = <<m>> /\ (Reliable => Right(m))
      BY <1>7, <1>11 DEF Recalled
    <2>2. Head(ch) = m /\ Tail(ch) = <<>>
      BY <2>1, Remembered
    <2>3. Head(script) = Restore
      BY <1>2, <1>11, DownloadSteps DEF s
    <2>4. Reliable => chip = cache /\ SameDC
      BY <1>3, <1>11 DEF DownloadPos
    <2>5. /\ Goes /\ UNCHANGED <<useCache, file, call, before>>
          /\ ch' = <<>> /\ chip' \in Map /\ cache' \in Map
          /\ dc'.chip = dc.chip /\ dc'.cache = dc.cache
          /\ "select" \notin Failing =>
                 /\ \A p \in {"G", "A", "B"} : chip'[p] = chip[p] /\ cache'[p] = cache[p]
                 /\ Synced => Synced' /\ (Right(m) => blind' \/ chip'["MAC"] = before["MAC"])
      BY <1>2, <2>1, <2>2, <2>3, Restores
    <2>6. ASSUME Reliable
          PROVE  /\ chip' = cache' /\ (~blind' => chip'["MAC"] = before["MAC"])
                 /\ dc'.chip = dc'.cache
      <3>1. /\ Synced' /\ (~blind' => chip'["MAC"] = before["MAC"]) /\ dc'.chip = dc'.cache
            /\ \A p \in {"G", "A", "B"} : chip'[p] = cache'[p]
        BY <2>1, <2>4, <2>5, <2>6 DEF Reliable, Synced, SameDC
      <3> QED
        BY <2>5, <3>1, SameMaps DEF Synced
    <2>7. IdleOK'
      BY <1>3, <2>5, <2>6 DEF IdleOK, SuccessMeansSame, ChannelRestored, TestRestores, Succeeded,
         Synced, Reliable
    <2> QED
      BY <1>2, <1>11, <2>5, <2>7 DEF Where
  <1> QED
    BY <1>2, <1>6, <1>9, <1>10, <1>11

-----------------------------------------------------------------------------
\* IsSynced and SaveConfig.

\* Their first step, and their selections.
LEMMA LookSteps ==
    ASSUME TypeInv, CallStep, script # <<>>, NEW n \in {1, 2, 4, 5}, LookPos(n),
           \/ n = 1 /\ Head(script) = Remember
           \/ n # 1 /\ \E c \in Channels : Head(script) = Select(c) /\ (n = 2 => c = "A")
    PROVE  /\ Goes /\ LookPos(n + 1)' /\ UNCHANGED <<file, call, useCache>> /\ (blind => blind')
           /\ Reliable /\ n # 1 =>
                 \A p \in {"G", "A", "B"} : chip'[p] = chip[p] /\ cache'[p] = cache[p]
  <1>1. CASE n = 1 /\ Head(script) = Remember
    <2>1. Fresh
      BY <1>1 DEF LookPos
    <2>2. /\ Goes /\ UNCHANGED <<file, call, useCache>>
          /\ Held' /\ (Synced => Synced') /\ (blind => blind')
      BY <1>1, <2>1, Remembers
    <2>3. (Reliable => Synced)'
      BY <2>1, <2>2 DEF Fresh, Reliable
    <2>4. LookPos(2)'
      BY <2>2, <2>3 DEF LookPos
    <2> QED
      BY <1>1, <2>2, <2>4
  <1>2. CASE n # 1 /\ \E c \in Channels : Head(script) = Select(c) /\ (n = 2 => c = "A")
    <2>1. PICK c \in Channels : Head(script) = Select(c) /\ (n = 2 => c = "A")
      BY <1>2
    <2>2. /\ Goes /\ UNCHANGED <<useCache, file, call, local, before>>
          /\ blind' = blind \/ blind' = TRUE
          /\ cache'["MAC"] = c
          /\ "select" \notin Failing \/ ~failed' =>
                 /\ \A p \in {"G", "A", "B"} : chip'[p] = chip[p] /\ cache'[p] = cache[p]
                 /\ (Synced \/ cache["MAC"] # c => chip'["MAC"] = c)
      BY <2>1, SelectStep
    <2>3. Held /\ (Reliable => Synced)
      BY <1>2 DEF LookPos
    <2>4. Reliable => On(c)' /\ Synced'
      BY <2>2, <2>3 DEF On, Synced, Reliable
    <2>5. blind => blind'
      BY <2>2
    <2>6. Held'
      BY <2>2, <2>3, <2>5, HeldKeeps DEF local, Keeps
    <2>7. LookPos(n + 1)'
      BY <1>2, <2>1, <2>4, <2>6 DEF LookPos, Reliable
    <2> QED
      BY <2>2, <2>5, <2>7 DEF Reliable
  <1> QED
    BY <1>1, <1>2

\* Their last step.
LEMMA LookEnds ==
    ASSUME TypeInv, CallStep, script # <<>>, Head(script) = Restore, LookPos(6)
    PROVE  /\ Goes /\ ch' = <<>> /\ UNCHANGED <<useCache, file, call>> /\ (blind => blind')
           /\ Reliable => /\ Synced' /\ (~blind' => chip'["MAC"] = before'["MAC"])
                          /\ \A p \in {"G", "A", "B"} : chip'[p] = chip[p] /\ cache'[p] = cache[p]
  <1>1. PICK c \in Macs : ch = <<c>> /\ Right(c)
    BY DEF LookPos, Held
  <1>2. Head(ch) = c /\ Tail(ch) = <<>> /\ (Reliable => Synced)
    BY <1>1, Remembered DEF LookPos
  <1>3. /\ Goes /\ UNCHANGED <<useCache, file, call, before>>
        /\ ch' = <<>> /\ (blind => blind')
        /\ "select" \notin Failing =>
              /\ \A p \in {"G", "A", "B"} : chip'[p] = chip[p] /\ cache'[p] = cache[p]
              /\ Synced => Synced' /\ (Right(c) => blind' \/ chip'["MAC"] = before["MAC"])
    BY <1>2, Restores
  <1> QED
    BY <1>1, <1>2, <1>3 DEF Reliable

LEMMA IsSyncedCall ==
    ASSUME TypeInv, CallStep, NEW n, Stage("isSynced", n)
    PROVE  Where'
  <1> DEFINE s == IsSynced
  <1>1. StepsOf("isSynced") = s /\ Len(s) = 6 /\ s \in Seq(Instructions) /\ "isSynced" \in LongCalls
    BY IsSyncedSteps DEF StepsOf, LongCalls
  <1>2. /\ n \in 1..6 /\ script # <<>> /\ Head(script) = s[n]
        /\ Goes => /\ n = 6 => script' = <<>>
                   /\ n < 6 => n + 1 \in 1..6 /\ script' = Rest(s, n + 1)
        /\ n < 6 => n + 1 \in 1..6 /\ Tail(script) = Rest(s, n + 1)
    <2>1. n \in 1..6 /\ script = Rest(s, n)
      BY <1>1 DEF Stage
    <2> HIDE DEF s
    <2>2. Tail(Rest(s, n)) = IF n = 6 THEN <<>> ELSE Rest(s, n + 1)
      <3>1. n \in 1..Len(s)
        BY <1>1, <2>1
      <3>2. Tail(Rest(s, n)) = IF n = Len(s) THEN <<>> ELSE Rest(s, n + 1)
        BY <1>1, <3>1, Advance
      <3> QED
        BY <1>1, <3>2
    <2>3. n < 6 => n + 1 \in 1..6 /\ n # 6
      BY <2>1
    <2>4. n < 6 => Tail(script) = Rest(s, n + 1)
      BY <2>1, <2>2, <2>3
    <2> QED
      BY <1>1, <2>3, <2>4, Stepping
  <1>3. LookPos(n) /\ call.op = "isSynced"
    BY DEF Stage
  <1> HIDE DEF s
  <1>4. ASSUME NEW k \in 1..6, script' = Rest(s, k), LookPos(k)', call' = call
        PROVE  Where'
    <2>1. k \in 1..Len(StepsOf("isSynced"))
      BY <1>1
    <2>2. k \in 1..15
      OBVIOUS
    <2>3. (call.op)' = "isSynced"
      BY <1>3, <1>4
    <2>4. Stage("isSynced", k)'
      BY <1>1, <1>4, <2>1, <2>3 DEF Stage
    <2> QED
      BY <1>1, <2>2, <2>4 DEF Where
  <1>5. CASE n \in {1, 2, 5}
    <2>1. \/ n = 1 /\ Head(script) = Remember
          \/ n # 1 /\ \E c \in Channels : Head(script) = Select(c) /\ (n = 2 => c = "A")
      BY <1>2, <1>5, IsSyncedSteps DEF Channels, s
    <2>2. Goes /\ LookPos(n + 1)' /\ call' = call
      BY <1>2, <1>3, <1>5, <2>1, LookSteps
    <2>3. script' = Rest(s, n + 1) /\ n + 1 \in 1..6
      BY <1>2, <1>5, <2>2
    <2> QED
      BY <1>4, <2>2, <2>3
  <1>6. CASE n \in {3, 4}
    <2> DEFINE c == IF n = 3 THEN "A" ELSE "B"
    <2>1. c \in Channels /\ Head(script) = Do("compare", c)
      BY <1>2, <1>6, IsSyncedSteps DEF Channels, s
    <2> HIDE DEF c
    <2>2. Compare
      BY <1>2, <2>1, OneStep
    <2>3. /\ UNCHANGED <<maps, useCache, file, call, local, before, blind>>
          /\ script' = Tail(script) \/ script' = <<Restore>>
      BY <2>2 DEF Compare
    <2>4. Held /\ (Reliable => Synced)
      BY <1>3, <1>6 DEF LookPos
    <2>5. Held' /\ (Reliable => Synced)'
      BY <2>3, <2>4 DEF Held, Right, Synced, Reliable, maps, local
    <2>6. LookPos(6)' /\ LookPos(n + 1)'
      BY <1>6, <2>5 DEF LookPos
    <2>7. Tail(script) = Rest(s, n + 1) /\ n + 1 \in 1..6 /\ 6 \in 1..6
      BY <1>2, <1>6
    <2>8. <<Restore>> = Rest(s, 6)
      <3> DEFINE m == 6
      <3>1. m \in 1..Len(s) /\ m = Len(s) /\ s[m] = Restore
        BY <1>1, IsSyncedSteps DEF s
      <3> HIDE DEF m
      <3>2. Rest(s, m) = <<s[m]>>
        BY <1>1, <3>1, Advance
      <3> QED
        BY <3>1, <3>2 DEF m
    <2> QED
      BY <1>4, <2>3, <2>6, <2>7, <2>8
  <1>7. CASE n = 6
    <2>1. Head(script) = Restore
      BY <1>2, <1>7, IsSyncedSteps DEF s
    <2>2. /\ Goes /\ ch' = <<>> /\ call' = call
          /\ Reliable => Synced' /\ (~blind' => chip'["MAC"] = before'["MAC"])
      BY <1>2, <1>3, <1>7, <2>1, LookEnds
    <2>3. IdleOK'
      BY <1>3, <2>2 DEF IdleOK, SuccessMeansSame, ChannelRestored, TestRestores,
         Succeeded, Synced, Reliable
    <2> QED
      BY <1>2, <1>7, <2>2, <2>3 DEF Where
  <1> QED
    BY <1>2, <1>5, <1>6, <1>7

\* What SaveConfig reads of a channel.
LEMMA SaveStep ==
    ASSUME TypeInv, CallStep, script # <<>>, NEW c \in Channels, Head(script) = Do("save", c)
    PROVE  /\ Goes /\ UNCHANGED <<chip, useCache, call, local, before>>
           /\ cache' \in Map /\ file' \in Map /\ dc' \in DCRecords
           /\ failed' \in {failed, TRUE}
           /\ blind' = blind \/ (blind' = TRUE /\ "read" \in Failing)
           /\ Synced => Synced'
           /\ ~blind' /\ On(c) =>
                 /\ \A p \in Of(c) : Saved(p)'
                 /\ \A p \in {"G", "A", "B"} \ Of(c) : file'[p] = file[p] /\ cache'[p] = cache[p]
  <1>0. /\ chip \in Map /\ cache \in Map /\ file \in Map /\ dc \in DCRecords
        /\ failed \in BOOLEAN /\ blind \in BOOLEAN
    BY DEF TypeInv
  <1>1. Save /\ arg = c
    BY OneStep
  <1>2. PICK lost \in SUBSET Section(c) :
            /\ lost # {} => "read" \in Failing
            /\ useCache => lost \subseteq {"D"}
            /\ SaveRegisters(lost)
            /\ IF c = "A" THEN ReadBack(lost) ELSE UNCHANGED <<dc, failed>>
            /\ blind' = (blind \/ lost # {})
    BY <1>1 DEF Save
  <1>3. Goes /\ UNCHANGED <<chip, useCache, call, local, before>>
    BY <1>1 DEF Save
  <1> DEFINE a == Answers(c, cache)
  <1>4. /\ a \in Map
        /\ a["MAC"] = IF c = "A" THEN chip["MAC"] ELSE cache["MAC"]
        /\ chip["MAC"] # "none" => a[c] = chip[chip["MAC"]]
        /\ c = "A" => a["G"] = chip["G"] /\ a["B"] = cache["B"]
        /\ c = "B" => a["G"] = cache["G"] /\ a["A"] = cache["A"]
    BY <1>0, Answered
  <1>5. cache' = IF useCache THEN cache ELSE [p \in Places |-> IF p \in lost THEN cache[p] ELSE a[p]]
    BY <1>0, <1>1, <1>2 DEF SaveRegisters, Map
  <1>6. file' = [p \in Places |-> IF p \in lost THEN Zero(p)
                                  ELSE IF p \in Section(c) THEN cache'[p] ELSE file[p]]
    BY <1>0, <1>1, <1>2 DEF SaveRegisters, Map
  <1> HIDE DEF a
  <1>7. cache' \in Map
    <2>1. CASE useCache
      BY <1>0, <1>5, <2>1
    <2>2. CASE ~useCache
      <3> DEFINE w == [p \in Places |-> IF p \in lost THEN cache[p] ELSE a[p]]
      <3>1. w["MAC"] \in Macs /\ \A p \in {"G", "A", "B"} : w[p] \in Values
        BY <1>0, <1>4 DEF Map, Places
      <3>2. w \in [Places -> Macs \cup Values]
        <4>1. \A p \in Places : w[p] \in Macs \cup Values
          BY <3>1 DEF Places
        <4> QED
          BY <4>1
      <3>3. cache' = w
        BY <1>5, <2>2
      <3> HIDE DEF w
      <3> QED
        BY <3>1, <3>2, <3>3 DEF Map
    <2> QED
      BY <2>1, <2>2
  <1>8. file' \in Map
    <2> DEFINE w == [p \in Places |-> IF p \in lost THEN Zero(p)
                                      ELSE IF p \in Section(c) THEN cache'[p] ELSE file[p]]
    <2>1. w["MAC"] \in Macs /\ \A p \in {"G", "A", "B"} : w[p] \in Values
      BY <1>0, <1>7, RegistersAssumption DEF Map, Places, Zero, Macs
    <2>2. w \in [Places -> Macs \cup Values]
      <3>1. \A p \in Places : w[p] \in Macs \cup Values
        BY <2>1 DEF Places
      <3> QED
        BY <3>1
    <2>3. file' = w
      BY <1>6
    <2> HIDE DEF w
    <2> QED
      BY <2>1, <2>2, <2>3 DEF Map
  <1>9. dc' \in DCRecords /\ failed' \in {failed, TRUE}
    <2>1. CASE c # "A"
      BY <1>0, <1>2, <2>1
    <2>2. CASE c = "A"
      <3>1. PICK sending \in {"sent", "cached", "lost"} :
               /\ failed' = (failed \/ sending = "lost")
               /\ LET asked == IF sending = "sent" /\ chip.MAC = "A" THEN "read" ELSE dc.chip
                  IN  dc' = [dc EXCEPT !.chip = asked,
                                       !.cache = IF "D" \in lost THEN "read"
                                                 ELSE IF chip.MAC = "A" THEN asked ELSE "plain"]
        BY <1>2, <2>2 DEF ReadBack
      <3> DEFINE asked == IF sending = "sent" /\ chip.MAC = "A" THEN "read" ELSE dc.chip
      <3>2. dc' = [dc EXCEPT !.chip = asked,
                             !.cache = IF "D" \in lost THEN "read"
                                       ELSE IF chip.MAC = "A" THEN asked ELSE "plain"]
        BY <3>1
      <3>3. asked \in DCs
        BY <1>0 DEF DCRecords, DCs
      <3> HIDE DEF asked
      <3>4. dc' \in DCRecords
        BY <1>0, <3>2, <3>3 DEF DCRecords, DCs
      <3>5. failed' \in {failed, TRUE}
        BY <1>0, <3>1
      <3> QED
        BY <3>4, <3>5
    <2> QED
      BY <2>1, <2>2
  <1>10. blind' = blind \/ (blind' = TRUE /\ "read" \in Failing)
    <2>1. CASE lost = {}
      <3>1. blind' = (blind \/ FALSE)
        BY <1>2, <2>1
      <3> QED
        BY <1>0, <3>1
    <2>2. CASE lost # {}
      <3>1. blind' = (blind \/ TRUE) /\ "read" \in Failing
        BY <1>2, <2>2
      <3> QED
        BY <3>1
    <2> QED
      BY <2>1, <2>2
  <1>11. Synced => Synced'
    <2>1. cache'["MAC"] \in {cache["MAC"], a["MAC"]}
      BY <1>5 DEF Places
    <2> QED
      BY <1>3, <1>4, <2>1 DEF Synced
  <1>12. ASSUME ~blind', On(c)
         PROVE  /\ \A p \in Of(c) : Saved(p)'
                /\ \A p \in {"G", "A", "B"} \ Of(c) : file'[p] = file[p] /\ cache'[p] = cache[p]
    <2>1. lost = {}
      BY <1>2, <1>12
    <2>2. /\ cache' = IF useCache THEN cache ELSE [p \in Places |-> a[p]]
          /\ file' = [p \in Places |-> IF p \in Section(c) THEN cache'[p] ELSE file[p]]
      BY <1>5, <1>6, <2>1
    <2>3. chip["MAC"] = c /\ c # "none" /\ chip' = chip /\ useCache' = useCache
      BY <1>3, <1>12 DEF On, Channels
    <2>4. a[c] = chip[c] /\ (c = "A" => a["G"] = chip["G"])
      BY <1>4, <2>3
    <2>5. ASSUME NEW p \in Of(c) PROVE Saved(p)'
      <3>1. p \in Section(c) /\ p \in Places /\ a[p] = chip[p]
        BY <2>4 DEF Of, Section, Places, Channels
      <3>2. file'[p] = cache'[p] /\ (~useCache => cache'[p] = a[p])
        BY <2>2, <3>1
      <3> QED
        BY <2>3, <3>1, <3>2 DEF Saved
    <2>6. ASSUME NEW p \in {"G", "A", "B"} \ Of(c)
          PROVE  file'[p] = file[p] /\ cache'[p] = cache[p]
      <3>1. p \notin Section(c) /\ p \in Places /\ a[p] = cache[p]
        BY <1>4 DEF Of, Section, Places, Channels
      <3> QED
        BY <2>2, <3>1
    <2> QED
      BY <2>5, <2>6
  <1> QED
    BY <1>3, <1>7, <1>8, <1>9, <1>10, <1>11, <1>12

LEMMA SaveCall ==
    ASSUME TypeInv, CallStep, NEW n, Stage("save", n)
    PROVE  Where'
  <1> DEFINE s == SaveConfig
  <1>1. StepsOf("save") = s /\ Len(s) = 6 /\ "save" \in LongCalls
    BY SaveSteps DEF StepsOf, LongCalls
  <1>2. /\ n \in 1..6 /\ script # <<>> /\ Head(script) = s[n]
        /\ Goes => /\ n = 6 => script' = <<>>
                   /\ n < 6 => n + 1 \in 1..6 /\ script' = Rest(s, n + 1)
    BY <1>1, Stepping
  <1>3. SavePos(n) /\ LookPos(n) /\ call.op = "save"
    BY DEF Stage, SavePos
  <1> HIDE DEF s
  <1>4. ASSUME NEW k \in 1..6, script' = Rest(s, k), SavePos(k)', call' = call
        PROVE  Where'
    <2>1. k \in 1..Len(StepsOf("save"))
      BY <1>1
    <2>2. k \in 1..15
      OBVIOUS
    <2>3. (call.op)' = "save"
      BY <1>3, <1>4
    <2>4. Stage("save", k)'
      BY <1>1, <1>4, <2>1, <2>3 DEF Stage
    <2> QED
      BY <1>1, <2>2, <2>4 DEF Where
  <1>5. CASE n \in {1, 2, 4}
    <2>1. \/ n = 1 /\ Head(script) = Remember
          \/ n # 1 /\ \E c \in Channels : Head(script) = Select(c) /\ (n = 2 => c = "A")
      BY <1>2, <1>5, SaveSteps DEF Channels, s
    <2>2. /\ Goes /\ LookPos(n + 1)' /\ UNCHANGED <<file, call, useCache>> /\ (blind => blind')
          /\ Reliable /\ n # 1 =>
                \A p \in {"G", "A", "B"} : chip'[p] = chip[p] /\ cache'[p] = cache[p]
      BY <1>2, <1>3, <1>5, <2>1, LookSteps
    <2>3. script' = Rest(s, n + 1) /\ n + 1 \in 1..6
      BY <1>2, <1>5, <2>2
    <2>4. (Reliable /\ n + 1 = 5 => On("B"))'
      <3> SUFFICES ASSUME n = 4 PROVE (Reliable => On("B"))'
        BY <1>5
      <3>1. Head(script) = Select("B") /\ "B" \in Channels
        BY <1>2, SaveSteps DEF s, Channels
      <3>2. /\ cache'["MAC"] = "B"
            /\ "select" \notin Failing => (Synced => chip'["MAC"] = "B")
        BY <1>2, <3>1, SelectStep
      <3>3. Reliable => Synced
        BY <1>3 DEF LookPos
      <3> QED
        BY <3>2, <3>3 DEF Reliable, On
    <2>5. (Reliable /\ ~blind /\ n + 1 \in 4..6 => Saved("A") /\ Saved("G"))'
      <3> SUFFICES ASSUME n = 4, Reliable, ~blind' PROVE (Saved("A") /\ Saved("G"))'
        BY <1>5 DEF Reliable
      <3>1. Saved("A") /\ Saved("G")
        BY <1>3, <2>2 DEF SavePos
      <3> QED
        BY <2>2, <3>1 DEF Saved
    <2>6. n + 1 # 6
      BY <1>5
    <2>7. SavePos(n + 1)'
      BY <2>2, <2>4, <2>5, <2>6 DEF SavePos
    <2> QED
      BY <1>4, <2>2, <2>3, <2>7
  <1>6. CASE n \in {3, 5}
    <2> DEFINE c == IF n = 3 THEN "A" ELSE "B"
    <2>1. c \in Channels /\ Head(script) = Do("save", c)
      BY <1>2, <1>6, SaveSteps DEF Channels, s
    <2>2. (n = 3 => c = "A") /\ (n = 5 => c = "B")
      OBVIOUS
    <2> HIDE DEF c
    <2>3. /\ Goes /\ UNCHANGED <<chip, useCache, call, local, before>>
          /\ blind' = blind \/ blind' = TRUE
          /\ Synced => Synced'
          /\ ~blind' /\ On(c) =>
                /\ \A p \in Of(c) : Saved(p)'
                /\ \A p \in {"G", "A", "B"} \ Of(c) : file'[p] = file[p] /\ cache'[p] = cache[p]
      BY <1>2, <2>1, SaveStep
    <2>4. /\ Held /\ (Reliable => Synced /\ On(c))
          /\ Reliable /\ ~blind /\ n = 5 => Saved("A") /\ Saved("G")
      BY <1>3, <1>6, <2>2 DEF SavePos, LookPos
    <2>5. blind => blind'
      BY <2>3
    <2>6. Held'
      BY <2>3, <2>4, <2>5, HeldKeeps DEF Keeps, local
    <2>7. LookPos(n + 1)'
      BY <1>6, <2>3, <2>4, <2>6 DEF LookPos, Reliable
    <2>8. ASSUME Reliable, ~blind'
          PROVE  Saved("A")' /\ Saved("G")' /\ (n = 5 => Saved("B")')
      <3>1. /\ \A p \in Of(c) : Saved(p)'
            /\ \A p \in {"G", "A", "B"} \ Of(c) : file'[p] = file[p] /\ cache'[p] = cache[p]
        BY <2>3, <2>4, <2>8
      <3>2. CASE n = 3
        BY <2>2, <3>1, <3>2 DEF Of
      <3>3. CASE n = 5
        <4>1. Saved("A") /\ Saved("G")
          BY <2>4, <2>5, <2>8, <3>3
        <4>2. "A" \notin Of(c) /\ "G" \notin Of(c) /\ "B" \in Of(c)
          BY <2>2, <3>3 DEF Of
        <4>3. /\ file'["A"] = file["A"] /\ cache'["A"] = cache["A"]
              /\ file'["G"] = file["G"] /\ cache'["G"] = cache["G"]
          BY <3>1, <4>2
        <4> QED
          BY <2>3, <3>1, <4>1, <4>2, <4>3 DEF Saved
      <3> QED
        BY <1>6, <3>2, <3>3
    <2>9. SavePos(n + 1)'
      <3>1. CASE n = 3
        BY <2>7, <2>8, <3>1 DEF SavePos, Reliable
      <3>2. CASE n = 5
        BY <2>7, <2>8, <3>2 DEF SavePos, Reliable
      <3> QED
        BY <1>6, <3>1, <3>2
    <2>10. script' = Rest(s, n + 1) /\ n + 1 \in 1..6
      BY <1>2, <1>6, <2>3
    <2> QED
      BY <1>4, <2>3, <2>9, <2>10
  <1>7. CASE n = 6
    <2>1. Head(script) = Restore
      BY <1>2, <1>7, SaveSteps DEF s
    <2>2. /\ Goes /\ ch' = <<>> /\ UNCHANGED <<useCache, file, call>> /\ (blind => blind')
          /\ Reliable => /\ Synced' /\ (~blind' => chip'["MAC"] = before'["MAC"])
                         /\ \A p \in {"G", "A", "B"} : chip'[p] = chip[p] /\ cache'[p] = cache[p]
      BY <1>2, <1>3, <1>7, <2>1, LookEnds
    <2>3. ASSUME Reliable, ~blind', NEW p \in {"G", "A", "B"}
          PROVE  Saved(p)'
      <3>1. Saved(p)
        BY <1>3, <1>7, <2>2, <2>3 DEF SavePos
      <3> QED
        BY <2>2, <2>3, <3>1 DEF Saved
    <2>4. (Reliable /\ Succeeded({"save"}) /\ ~blind =>
             \A p \in {"G", "A", "B"} : file[p] = cache[p] /\ (~useCache => file[p] = chip[p]))'
      BY <2>3 DEF Saved, Reliable
    <2>5. IdleOK'
      BY <1>3, <2>2, <2>4 DEF IdleOK, SuccessMeansSame, ChannelRestored, TestRestores,
         Succeeded, Synced, Reliable
    <2> QED
      BY <1>2, <1>7, <2>2, <2>5 DEF Where
  <1> QED
    BY <1>2, <1>5, <1>6, <1>7

-----------------------------------------------------------------------------
\* LoadConfig.

LEMMA LoadCall ==
    ASSUME TypeInv, CallStep, NEW n, Stage("load", n)
    PROVE  Where'
  <1> DEFINE s == LoadConfig
             Latched == dc.chip = "write" /\ dc.cache = "write"
             HasA == AsFile("A") /\ AsFile("G") /\ Latched
  <1>1. StepsOf("load") = s /\ Len(s) = 9 /\ "load" \in LongCalls
    BY LoadSteps DEF StepsOf, LongCalls
  <1>2. /\ n \in 1..9 /\ script # <<>> /\ Head(script) = s[n]
        /\ Goes => /\ n = 9 => script' = <<>>
                   /\ n < 9 => n + 1 \in 1..9 /\ script' = Rest(s, n + 1)
    BY <1>1, Stepping
  <1>3. LoadPos(n) /\ call.op = "load"
    BY DEF Stage
  <1>4. /\ chip \in Map /\ cache \in Map /\ file \in Map /\ file["MAC"] \in Macs
        /\ "A" \in Channels /\ "B" \in Channels
    BY DEF TypeInv, Map, Channels
  <1>0. /\ n \in 2..7 => Held
        /\ Reliable /\ n \in 4..9 => HasA
    BY <1>3 DEF LoadPos, SameDC
  <1> HIDE DEF s
  <1>5. ASSUME NEW k \in 1..9, script' = Rest(s, k), LoadPos(k)', call' = call
        PROVE  Where'
    <2>1. k \in 1..Len(StepsOf("load"))
      BY <1>1
    <2>2. k \in 1..15
      OBVIOUS
    <2>3. (call.op)' = "load"
      BY <1>3, <1>5
    <2>4. Stage("load", k)'
      BY <1>1, <1>5, <2>1, <2>3 DEF Stage
    <2> QED
      BY <1>1, <2>2, <2>4 DEF Where
  <1>6. ASSUME GivenUp, Reliable => Synced'
        PROVE  Where'
    BY <1>3, <1>6, FailedCall DEF GivenUp, Abort
  <1>7. CASE n = 1
    <2>1. Head(script) = Remember /\ Fresh
      BY <1>2, <1>3, <1>7, LoadSteps DEF s, LoadPos
    <2>2. Goes /\ call' = call /\ Held' /\ (Synced => Synced')
      BY <1>2, <2>1, Remembers
    <2>3. (Reliable => Synced)'
      BY <2>1, <2>2 DEF Fresh, Reliable
    <2>4. LoadPos(2)' /\ script' = Rest(s, 2)
      BY <1>2, <1>7, <2>2, <2>3 DEF LoadPos
    <2> QED
      BY <1>5, <2>2, <2>4
  <1>8. CASE n \in {2, 5}
    <2> DEFINE c == IF n = 2 THEN "A" ELSE "B"
    <2>1. c \in Channels /\ Head(script) = Select(c)
      BY <1>2, <1>8, LoadSteps DEF s, Channels
    <2>2. (n = 2 => c = "A") /\ (n = 5 => c = "B")
      OBVIOUS
    <2> HIDE DEF c
    <2>3. /\ Goes /\ UNCHANGED <<dc, useCache, file, call, local, before>>
          /\ blind' = blind \/ blind' = TRUE
          /\ cache'["MAC"] = c
          /\ "select" \notin Failing \/ ~failed' =>
                 /\ \A p \in {"G", "A", "B"} : chip'[p] = chip[p] /\ cache'[p] = cache[p]
                 /\ Synced \/ cache["MAC"] # c => chip'["MAC"] = c
      BY <1>2, <2>1, SelectStep
    <2>4. Reliable => Synced
      BY <1>3, <1>8 DEF LoadPos
    <2>5. Reliable => On(c)'
      BY <2>3, <2>4 DEF On, Reliable
    <2>6. Reliable /\ n = 5 => HasA'
      BY <1>0, <2>3 DEF AsFile, Reliable
    <2>7. blind => blind'
      BY <2>3
    <2>8. Held'
      BY <1>0, <1>8, <2>3, <2>7, HeldKeeps DEF Keeps, local
    <2>9. LoadPos(n + 1)'
      <3>1. CASE n = 2
        BY <2>2, <2>5, <2>8, <3>1 DEF LoadPos, Reliable
      <3>2. CASE n = 5
        BY <2>2, <2>5, <2>6, <2>8, <3>2 DEF LoadPos, Reliable, SameDC
      <3> QED
        BY <1>8, <3>1, <3>2
    <2>10. script' = Rest(s, n + 1) /\ n + 1 \in 1..9
      BY <1>2, <1>8, <2>3
    <2> QED
      BY <1>5, <2>3, <2>9, <2>10
  <1>9. CASE n \in {3, 6}
    <2> DEFINE c == IF n = 3 THEN "A" ELSE "B"
               values == ForA(c, <<"plain", "write">>)
    <2>1. c \in Channels /\ Head(script) = Do("load", c)
      BY <1>2, <1>9, LoadSteps DEF s, Channels
    <2>2. (n = 3 => c = "A") /\ (n = 6 => c = "B")
      OBVIOUS
    <2>0. /\ n = 3 => values # <<>> /\ values[Len(values)] = "write"
          /\ n = 6 => values = <<>>
      BY DEF ForA
    <2> HIDE DEF c
    <2>3. Sending(c, file, values) /\ UNCHANGED <<useCache, file, call, x0020, backup, before, blind>>
      BY <1>2, <2>1, OtherSteps
    <2>4. values \in Commands
      BY <2>1, ForACommands
    <2> HIDE DEF values
    <2>5. (Reliable => On(c)) /\ Keeps
      BY <1>3, <1>9, <2>2, <2>3 DEF LoadPos, Keeps
    <2>6. CASE /\ Goes /\ ch' = ch
               /\ chip'["MAC"] = chip["MAC"] /\ cache'["MAC"] = cache["MAC"]
               /\ On(c) => \A p \in {"G", "A", "B"} :
                     /\ chip'[p] = IF p \in Of(c) THEN file[p] ELSE chip[p]
                     /\ cache'[p] = IF p \in Of(c) THEN file[p] ELSE cache[p]
               /\ values = <<>> => dc' = dc
               /\ On("A") /\ values # <<>> =>
                     dc'.chip = values[Len(values)] /\ dc'.cache = values[Len(values)]
      <3>1. Reliable => On(c)' /\ Synced'
        BY <2>5, <2>6 DEF On, Synced
      <3>2. Reliable => AsFile("A")' /\ AsFile("G")'
        BY <1>0, <1>9, <2>2, <2>3, <2>5, <2>6 DEF AsFile, Of
      <3>3. Reliable => Latched'
        BY <1>0, <1>9, <2>0, <2>2, <2>5, <2>6
      <3>4. Reliable /\ n = 6 => AsFile("B")'
        BY <2>2, <2>3, <2>5, <2>6 DEF AsFile, Of
      <3>5. Held'
        BY <1>0, <1>9, <2>5, <2>6, HeldKeeps
      <3>6. LoadPos(n + 1)'
        <4>1. CASE n = 3
          BY <2>2, <3>1, <3>2, <3>3, <3>5, <4>1 DEF LoadPos, Reliable, SameDC
        <4>2. CASE n = 6
          BY <2>2, <3>1, <3>2, <3>3, <3>4, <3>5, <4>2 DEF LoadPos, Reliable, SameDC
        <4> QED
          BY <1>9, <4>1, <4>2
      <3>7. script' = Rest(s, n + 1) /\ n + 1 \in 1..9
        BY <1>2, <1>9, <2>6
      <3> QED
        BY <1>5, <2>3, <3>6, <3>7
    <2>7. CASE /\ GivenUp
               /\ chip'["MAC"] = chip["MAC"] /\ cache'["MAC"] = cache["MAC"]
      <3>1. Reliable => Synced'
        BY <2>5, <2>7 DEF Synced, On
      <3> QED
        BY <1>6, <2>7, <3>1
    <2> QED
      BY <1>4, <2>1, <2>3, <2>4, <2>6, <2>7, SendingStep
  <1>10. CASE n = 4
    <2>1. Head(script) = Do("load0020", "A")
      BY <1>2, <1>10, LoadSteps DEF s
    <2>2. PICK differs \in BOOLEAN :
             /\ WriteOrAbort(MACRegister(file["MAC"]), <<>>, differs, "0020")
             /\ UNCHANGED <<useCache, file, call, x0020, backup, before, blind>>
      BY <1>2, <1>4, <2>1, OtherSteps
    <2>3. (Reliable => Synced) /\ Keeps
      BY <1>3, <1>10, <2>2 DEF LoadPos, On, Synced, Keeps
    <2>4. CASE /\ Goes /\ ch' = ch /\ dc' = dc
               /\ \A p \in {"G", "A", "B"} : chip'[p] = chip[p] /\ cache'[p] = cache[p]
               /\ Synced => Synced'
      <3>1. Reliable => HasA'
        BY <1>0, <1>10, <2>2, <2>4 DEF AsFile
      <3>2. Held'
        BY <1>0, <1>10, <2>3, <2>4, HeldKeeps
      <3>3. LoadPos(5)' /\ script' = Rest(s, 5)
        BY <1>2, <1>10, <2>3, <2>4, <3>1, <3>2 DEF LoadPos, Reliable, SameDC
      <3> QED
        BY <1>5, <2>2, <3>3
    <2>5. CASE GivenUp /\ "0020" \in Failing
      BY <1>6, <2>5 DEF Reliable
    <2> QED
      BY <1>4, <2>2, <2>4, <2>5, SendingMAC
  <1>11. CASE n = 7
    <2>1. Head(script) = Restore
      BY <1>2, <1>11, LoadSteps DEF s
    <2>2. PICK c \in Macs : ch = <<c>> /\ Right(c)
      BY <1>0, <1>11 DEF Held
    <2>3. Head(ch) = c /\ Tail(ch) = <<>>
      BY <2>2, Remembered
    <2>4. Reliable => AsFile("B") /\ Synced
      BY <1>3, <1>11 DEF LoadPos
    <2>5. /\ Goes /\ UNCHANGED <<useCache, file, call, before>>
          /\ ch' = <<>>
          /\ dc'.chip = dc.chip /\ dc'.cache = dc.cache
          /\ "select" \notin Failing =>
                 /\ \A p \in {"G", "A", "B"} : chip'[p] = chip[p] /\ cache'[p] = cache[p]
                 /\ Synced => Synced'
      BY <1>2, <2>1, <2>3, Restores
    <2>6. Reliable => HasA' /\ AsFile("B")' /\ Synced'
      BY <1>0, <1>11, <2>4, <2>5 DEF AsFile, Reliable
    <2>7. LoadPos(8)' /\ script' = Rest(s, 8)
      BY <1>2, <1>11, <2>5, <2>6 DEF LoadPos, Reliable, SameDC
    <2> QED
      BY <1>5, <2>5, <2>7
  <1>12. CASE n = 8
    <2>1. Head(script) = Do("resetLogic", "A")
      BY <1>2, <1>12, LoadSteps DEF s
    <2>2. ch = <<>> /\ (Reliable => AsFile("B") /\ Synced)
      BY <1>3, <1>12 DEF LoadPos
    <2>3. /\ Goes /\ UNCHANGED <<dc, useCache, file, call, local, before>>
          /\ "0020" \notin Failing =>
                 /\ \A p \in {"G", "A", "B"} : chip'[p] = chip[p] /\ cache'[p] = cache[p]
                 /\ Synced => Synced'
      BY <1>2, <2>1, ResetLogicStep
    <2>4. Reliable => HasA' /\ AsFile("B")' /\ Synced'
      BY <1>0, <1>12, <2>2, <2>3 DEF AsFile, Reliable
    <2>5. LoadPos(9)' /\ script' = Rest(s, 9)
      BY <1>2, <1>12, <2>2, <2>3, <2>4 DEF LoadPos, Reliable, SameDC, local
    <2> QED
      BY <1>5, <2>3, <2>5
  <1>13. CASE n = 9
    <2>1. Head(script) = Select("A")
      BY <1>2, <1>13, LoadSteps DEF s
    <2>2. ch = <<>> /\ (Reliable => AsFile("B") /\ Synced)
      BY <1>3, <1>13 DEF LoadPos
    <2>3. /\ Goes /\ UNCHANGED <<dc, useCache, file, call, local, before>>
          /\ chip' \in Map /\ cache' \in Map /\ cache'["MAC"] = "A"
          /\ "select" \notin Failing \/ ~failed' =>
                 /\ \A p \in {"G", "A", "B"} : chip'[p] = chip[p] /\ cache'[p] = cache[p]
                 /\ Synced \/ cache["MAC"] # "A" => chip'["MAC"] = "A"
      BY <1>2, <1>4, <2>1, SelectStep
    <2>4. ASSUME Reliable
          PROVE  /\ chip' = cache' /\ (\A p \in {"G", "A", "B"} : chip'[p] = file'[p])
                 /\ dc'.chip = dc'.cache /\ dc'.chip = "write"
      <3>1. chip'["MAC"] = cache'["MAC"]
        BY <2>2, <2>3, <2>4 DEF Reliable
      <3>2. /\ \A p \in {"G", "A", "B"} : chip'[p] = cache'[p] /\ chip'[p] = file'[p]
            /\ dc'.chip = dc'.cache /\ dc'.chip = "write"
        BY <1>0, <1>13, <2>2, <2>3, <2>4 DEF Reliable, AsFile
      <3> QED
        BY <2>3, <3>1, <3>2, SameMaps
    <2>5. IdleOK'
      BY <1>3, <2>2, <2>3, <2>4 DEF IdleOK, SuccessMeansSame, ChannelRestored, TestRestores,
         Succeeded, Synced, local, Reliable
    <2> QED
      BY <1>2, <1>13, <2>3, <2>5 DEF Where
  <1> QED
    BY <1>2, <1>7, <1>8, <1>9, <1>10, <1>11, <1>12, <1>13

-----------------------------------------------------------------------------
\* RegistersTest.

\* A call cannot take back that the link has failed.
LEMMA StillFine ==
    ASSUME failed' \in {failed, TRUE}, blind => blind'
    PROVE  (Trusted' => Trusted) /\ (Intact' => Intact)
  <1>1. ~failed' => ~failed
    <2>1. ASSUME ~failed' PROVE ~failed
      BY <2>1
    <2> QED
      BY <2>1
  <1>2. ~blind' => ~blind
    OBVIOUS
  <1>3. Trusted' => Trusted
    BY <1>1, <1>2 DEF Trusted, Reliable
  <1> QED
    BY <1>1, <1>3 DEF Intact

\* A selection in RegistersTest.
LEMMA TestSelects ==
    ASSUME TypeInv, CallStep, script # <<>>, NEW c \in Channels, Head(script) = Select(c)
    PROVE  /\ Goes /\ UNCHANGED <<useCache, file, call, local, before>> /\ Keeps
           /\ cache'["MAC"] = c
           /\ (Trusted' => Trusted) /\ (Intact' => Intact)
           /\ Trusted' => (Synced \/ cache["MAC"] # c => On(c)')
           /\ Intact' => \A p \in {"G", "A", "B"} : chip'[p] = chip[p]
  <1>1. /\ Goes /\ UNCHANGED <<useCache, file, call, local, before>>
        /\ failed' \in {failed, TRUE}
        /\ blind' = blind \/ blind' = TRUE
        /\ cache'["MAC"] = c
        /\ "select" \notin Failing \/ ~failed' =>
              /\ \A p \in {"G", "A", "B"} : chip'[p] = chip[p]
              /\ Synced \/ cache["MAC"] # c => chip'["MAC"] = c
    BY SelectStep
  <1>2. blind => blind'
    BY <1>1
  <1>3. Trusted' => "select" \notin Failing \/ ~failed'
    BY DEF Trusted, Reliable
  <1>4. Intact' => \A p \in {"G", "A", "B"} : chip'[p] = chip[p]
    BY <1>1 DEF Intact
  <1>5. Trusted' => (Synced \/ cache["MAC"] # c => On(c)')
    BY <1>1, <1>3 DEF On
  <1> QED
    BY <1>1, <1>2, <1>4, <1>5, StillFine DEF Keeps

\* A pattern is written.
LEMMA PatternStep ==
    ASSUME TypeInv, CallStep, script # <<>>, NEW c \in Channels, Head(script) = Do("test", c)
    PROVE  /\ script' = Tail(script) /\ result' \in {result, -1}
           /\ UNCHANGED <<dc, useCache, file, call, local, before, blind>>
           /\ chip' \in Map /\ cache' \in Map /\ failed' \in {failed, TRUE}
           /\ chip'["MAC"] = chip["MAC"] /\ cache'["MAC"] = cache["MAC"]
  <1>1. Test /\ arg = c
    BY OneStep
  <1>2. PICK q \in Patterns :
            LET batch == WritesOf(c, [r \in DOMAIN cache |-> q])
            IN  \/ BatchWritten(batch, TRUE) /\ UNCHANGED result
                \/ BatchFails(batch, TRUE, "batch") /\ result' = -1
    BY <1>1 DEF Test
  <1> DEFINE src == [r \in DOMAIN cache |-> q]
  <1>3. chip \in Map /\ cache \in Map
    BY DEF TypeInv
  <1>4. src \in Source
    <2>1. q \in Values
      BY RegistersAssumption
    <2>2. src = [r \in Places |-> q]
      BY <1>3 DEF Map
    <2> QED
      BY <2>1, <2>2 DEF Source, Places
  <1>5. \/ BatchWritten(WritesOf(c, src), TRUE) /\ UNCHANGED result
        \/ BatchFails(WritesOf(c, src), TRUE, "batch") /\ result' = -1
    BY <1>2
  <1> HIDE DEF src
  <1>6. CASE BatchWritten(WritesOf(c, src), TRUE) /\ UNCHANGED result
    <2>1. /\ chip' \in Map /\ cache' \in Map /\ failed' = failed
          /\ chip'["MAC"] = chip["MAC"] /\ cache'["MAC"] = cache["MAC"]
      BY <1>3, <1>4, <1>6, WholeSent
    <2> QED
      BY <1>1, <1>6, <2>1 DEF Test
  <1>7. CASE BatchFails(WritesOf(c, src), TRUE, "batch") /\ result' = -1
    <2>1. /\ chip' \in Map /\ cache' \in Map /\ failed' = TRUE
          /\ chip'["MAC"] = chip["MAC"] /\ cache'["MAC"] = cache["MAC"]
      BY <1>3, <1>4, <1>7, PartSent
    <2> QED
      BY <1>1, <1>7, <2>1 DEF Test
  <1> QED
    BY <1>5, <1>6, <1>7

LEMMA TestCall ==
    ASSUME TypeInv, CallStep, NEW n, Stage("test", n)
    PROVE  Where'
  <1> DEFINE s == RegistersTest
  <1>1. StepsOf("test") = s /\ Len(s) = 15 /\ "test" \in LongCalls
    BY TestSteps DEF StepsOf, LongCalls
  <1>2. /\ n \in 1..15 /\ script # <<>> /\ Head(script) = s[n]
        /\ n < 15 => n + 1 \in 1..15 /\ Tail(script) = Rest(s, n + 1)
        /\ n = 15 => Tail(script) = <<>>
    <2>1. n \in 1..15 /\ script = Rest(s, n) /\ s \in Seq(Instructions)
      BY <1>1, TestSteps DEF Stage
    <2> HIDE DEF s
    <2>2. Tail(Rest(s, n)) = IF n = 15 THEN <<>> ELSE Rest(s, n + 1)
      <3>1. n \in 1..Len(s)
        BY <1>1, <2>1
      <3>2. Tail(Rest(s, n)) = IF n = Len(s) THEN <<>> ELSE Rest(s, n + 1)
        BY <2>1, <3>1, Advance
      <3> QED
        BY <1>1, <3>2
    <2>3. n < 15 => n + 1 \in 1..15 /\ n # 15
      BY <2>1
    <2>4. n < 15 => Tail(script) = Rest(s, n + 1)
      BY <2>1, <2>2, <2>3
    <2> QED
      BY <1>1, <2>1, <2>2, <2>3, <2>4, Stepping
  <1>3. TestPos(n) /\ call.op = "test" /\ (n # 1 => Held)
    BY DEF Stage, TestPos
  <1>4. /\ chip \in Map /\ cache \in Map /\ backup \in Map /\ before \in Map
        /\ "A" \in Channels /\ "B" \in Channels
    BY DEF TypeInv, Map, Channels
  <1> HIDE DEF s
  <1>5. ASSUME NEW k \in 1..15, script' = Rest(s, k), TestPos(k)', call' = call
        PROVE  Where'
    <2>1. k \in 1..Len(StepsOf("test"))
      BY <1>1
    <2>2. (call.op)' = "test"
      BY <1>3, <1>5
    <2>3. Stage("test", k)'
      BY <1>1, <1>5, <2>1, <2>2 DEF Stage
    <2> QED
      BY <1>1, <2>3 DEF Where
  <1>6. CASE n = 1
    <2>1. Head(script) = Remember
      BY <1>2, <1>6, TestSteps DEF s
    <2>2. /\ Fresh
          /\ Intact => \A p \in {"G", "A", "B"} : chip[p] = before[p]
      BY <1>3, <1>6 DEF TestPos
    <2>3. /\ Goes /\ UNCHANGED <<chip, call, before, failed>>
          /\ Held' /\ (~blind' => Synced') /\ (Synced => Synced')
          /\ blind => blind'
      BY <1>2, <2>1, <2>2, Remembers
    <2>4. Trusted' => Synced'
      BY <2>2, <2>3 DEF Trusted, Fresh, Reliable
    <2>5. Intact' => Intact
      BY <2>3, StillFine
    <2>6. (Intact => \A p \in {"G", "A", "B"} : chip[p] = before[p])'
      BY <2>2, <2>3, <2>5
    <2>7. TestPos(2)'
      BY <2>3, <2>4, <2>6 DEF TestPos
    <2> QED
      BY <1>2, <1>5, <1>6, <2>3, <2>7 DEF Goes
  <1>7. CASE n \in {2, 4, 7, 9, 11, 13}
    <2> DEFINE c == IF n \in {2, 7, 11} THEN "A" ELSE "B"
    <2>1. c \in Channels /\ Head(script) = Select(c)
      BY <1>2, <1>7, TestSteps DEF s, Channels
    <2>2. c = IF n \in {2, 7, 11} THEN "A" ELSE "B"
      OBVIOUS
    <2> HIDE DEF c
    <2>3. /\ Goes /\ UNCHANGED <<useCache, file, call, local, before>> /\ Keeps
          /\ cache'["MAC"] = c
          /\ (Trusted' => Trusted) /\ (Intact' => Intact)
          /\ Trusted' => (Synced \/ cache["MAC"] # c => On(c)')
          /\ Intact' => \A p \in {"G", "A", "B"} : chip'[p] = chip[p]
      BY <1>2, <2>1, TestSelects
    <2>4. /\ Trusted /\ n # 7 => Synced \/ cache["MAC"] # c
          /\ Intact => Synced \/ cache["MAC"] # c
      <3>1. Trusted /\ n # 7 => Synced \/ cache["MAC"] # c
        BY <1>3, <1>7, <2>2 DEF TestPos, On, Synced
      <3>2. Intact /\ n = 7 => Synced
        BY <1>3 DEF TestPos
      <3> QED
        BY <3>1, <3>2 DEF Intact
    <2>5. /\ Trusted' /\ n # 7 => On(c)'
          /\ Intact' => On(c)'
      BY <2>3, <2>4 DEF Intact
    <2>6. Held' /\ script' = Rest(s, n + 1) /\ n + 1 \in 1..15
      BY <1>2, <1>3, <1>7, <2>3, HeldKeeps DEF local, Goes
    <2>7. (Trusted /\ n + 1 \in 4..12 => backup["MAC"] = "A")'
      BY <1>3, <1>7, <2>3 DEF TestPos, local
    <2>8. (Intact => /\ n + 1 \in 1..6 => \A p \in {"G", "A", "B"} : chip[p] = before[p]
                     /\ n + 1 \in 4..13 => backup["A"] = before["A"] /\ backup["G"] = before["G"]
                     /\ n + 1 \in 6..14 => backup["B"] = before["B"]
                     /\ n + 1 \in 13..15 => chip["A"] = before["A"] /\ chip["G"] = before["G"])'
      BY <1>3, <1>7, <2>3 DEF TestPos, local
    <2>9. TestPos(n + 1)'
      <3>1. n + 1 \in {3, 5, 8, 10, 12, 14}
        BY <1>7
      <3>2. c = IF n + 1 \in {3, 8, 12} THEN "A" ELSE "B"
        BY <1>7, <2>2
      <3> DEFINE k == n + 1
      <3>3. k \in {3, 5, 8, 10, 12, 14} /\ k # 15
        BY <3>1
      <3>4. c = IF k \in {3, 8, 12} THEN "A" ELSE "B"
        BY <3>2
      <3>5. /\ Trusted' /\ k # 8 => On(c)'
            /\ Intact' => On(c)'
        BY <1>7, <2>5
      <3>6. Trusted' => cache'["MAC"] = c
        BY <2>3
      <3> HIDE DEF k
      <3>7. (Trusted => /\ k = 2 => Synced
                        /\ k \in {3, 4, 12, 13} => On("A")
                        /\ k \in {5, 6, 10, 11, 14, 15} => On("B")
                        /\ k \in 7..9 => cache["MAC"] = "A")'
        BY <3>3, <3>4, <3>5, <3>6
      <3>8. (Intact => /\ k = 7 => Synced
                       /\ k \in {8, 9} => On("A")
                       /\ k = 15 => chip["B"] = before["B"])'
        BY <3>3, <3>4, <3>5
      <3> QED
        BY <2>6, <2>7, <2>8, <3>3, <3>7, <3>8 DEF TestPos, k
    <2> QED
      BY <1>5, <2>3, <2>6, <2>9
  <1>8. CASE n \in {3, 5}
    <2> DEFINE c == IF n = 3 THEN "A" ELSE "B"
    <2>1. c \in Channels /\ Head(script) = Do("backup", c)
      BY <1>2, <1>8, TestSteps DEF s, Channels
    <2>2. (n = 3 => c = "A") /\ (n = 5 => c = "B") /\ c # "none"
      OBVIOUS
    <2> HIDE DEF c
    <2>3. /\ Trusted => On(c) /\ (n = 5 => backup["MAC"] = "A")
          /\ Intact => /\ \A p \in {"G", "A", "B"} : chip[p] = before[p]
                       /\ n = 5 => backup["A"] = before["A"] /\ backup["G"] = before["G"]
      BY <1>3, <1>8, <2>2 DEF TestPos
    <2>4. CASE /\ Goes /\ cache' = Answers(c, cache)
               /\ UNCHANGED <<chip, useCache, file, call, ch, x0020, history>>
               /\ backup' = Answers(c, backup)
      <3>0. /\ Keeps /\ call' = call /\ chip' = chip /\ before' = before
            /\ (Trusted' => Trusted) /\ (Intact' => Intact)
        BY <2>4 DEF Keeps, history, Trusted, Intact, Reliable
      <3>1. cache'["MAC"] = IF c = "A" THEN chip["MAC"] ELSE cache["MAC"]
        BY <1>4, <2>1, <2>4, Answered
      <3>2. /\ backup'["MAC"] = IF c = "A" THEN chip["MAC"] ELSE backup["MAC"]
            /\ chip["MAC"] # "none" => backup'[c] = chip[chip["MAC"]]
            /\ c = "A" => backup'["G"] = chip["G"]
            /\ c = "B" => backup'["G"] = backup["G"] /\ backup'["A"] = backup["A"]
        BY <1>4, <2>1, <2>4, Answered
      <3>3. Trusted' => On(c)' /\ backup'["MAC"] = "A"
        BY <1>8, <2>2, <2>3, <3>0, <3>1, <3>2 DEF On
      <3>4. ASSUME Intact'
            PROVE  /\ \A p \in {"G", "A", "B"} : chip'[p] = before'[p]
                   /\ backup'["A"] = before'["A"] /\ backup'["G"] = before'["G"]
                   /\ n = 5 => backup'["B"] = before'["B"]
        <4>1. Intact /\ On(c)
          BY <2>3, <3>0, <3>4 DEF Intact
        <4>2. backup'[c] = chip[c]
          BY <2>2, <3>2, <4>1 DEF On
        <4> QED
          BY <1>8, <2>2, <2>3, <3>0, <3>2, <4>1, <4>2
      <3>5. Held'
        BY <1>3, <1>8, <2>4, <3>0, HeldKeeps
      <3>6. TestPos(n + 1)'
        <4>1. CASE n = 3
          BY <2>2, <3>3, <3>4, <3>5, <4>1 DEF TestPos
        <4>2. CASE n = 5
          BY <2>2, <3>3, <3>4, <3>5, <4>2 DEF TestPos
        <4> QED
          BY <1>8, <4>1, <4>2
      <3>7. script' = Rest(s, n + 1) /\ n + 1 \in 1..15
        BY <1>2, <1>8, <2>4 DEF Goes
      <3> QED
        BY <1>5, <3>0, <3>6, <3>7
    <2>5. CASE /\ Abort /\ ch' = <<>>
               /\ UNCHANGED <<maps, useCache, file, call, before, blind>>
      <3>1. Reliable => Synced'
        BY <2>3, <2>5 DEF Trusted, Synced, On, maps
      <3> QED
        BY <1>3, <2>5, <3>1, FailedCall DEF Abort
    <2>6. "backup" \in {"download", "backup"}
      OBVIOUS
    <2> QED
      BY <1>2, <2>1, <2>4, <2>5, <2>6, ReadStep
  <1>9. CASE n = 6
    <2>1. Head(script) = Do("reset", "A")
      BY <1>2, <1>9, TestSteps DEF s
    <2>2. Reset
      BY <1>2, <2>1, OneStep
    <2>3. /\ Goes /\ cache' = Defaults
          /\ \/ chip' = Defaults /\ failed' = failed
             \/ failed' = TRUE /\ chip' = chip
          /\ UNCHANGED <<useCache, file, call, local, before, blind>>
      BY <2>2 DEF Reset
    <2>4. failed' \in {failed, TRUE} /\ cache'["MAC"] = "A" /\ (Intact' => Synced')
      BY <2>3, DefaultsMap DEF Synced, Intact
    <2>5. Keeps /\ (Trusted' => Trusted) /\ (Intact' => Intact)
      BY <2>3, <2>4, StillFine DEF Keeps
    <2>6. /\ Trusted => backup["MAC"] = "A"
          /\ Intact => \A p \in {"G", "A", "B"} : backup[p] = before[p]
      BY <1>3, <1>9 DEF TestPos
    <2>7. /\ (Trusted => backup["MAC"] = "A")'
          /\ (Intact => \A p \in {"G", "A", "B"} : backup[p] = before[p])'
      BY <2>3, <2>5, <2>6 DEF local
    <2>8. Held'
      BY <1>3, <1>9, <2>3, <2>5, HeldKeeps DEF local
    <2>9. TestPos(7)' /\ script' = Rest(s, 7)
      BY <1>2, <1>9, <2>3, <2>4, <2>7, <2>8 DEF TestPos, Goes
    <2> QED
      BY <1>5, <2>3, <2>9
  <1>10. CASE n \in {8, 10}
    <2> DEFINE c == IF n = 8 THEN "A" ELSE "B"
    <2>1. c \in Channels /\ Head(script) = Do("test", c)
      BY <1>2, <1>10, TestSteps DEF s, Channels
    <2> HIDE DEF c
    <2>2. /\ script' = Tail(script)
          /\ UNCHANGED <<useCache, file, call, local, before, blind>>
          /\ failed' \in {failed, TRUE}
          /\ chip'["MAC"] = chip["MAC"] /\ cache'["MAC"] = cache["MAC"]
      BY <1>2, <2>1, PatternStep
    <2>3. Keeps /\ (Trusted' => Trusted) /\ (Intact' => Intact)
      BY <2>2, StillFine DEF Keeps
    <2>4. /\ Trusted => /\ backup["MAC"] = "A"
                        /\ n = 8 => cache["MAC"] = "A"
                        /\ n = 10 => On("B")
          /\ Intact => /\ \A p \in {"G", "A", "B"} : backup[p] = before[p]
                       /\ n = 8 => On("A")
      BY <1>3, <1>10 DEF TestPos
    <2>5. /\ (Trusted => /\ backup["MAC"] = "A"
                         /\ n = 8 => cache["MAC"] = "A"
                         /\ n = 10 => On("B"))'
          /\ (Intact => /\ \A p \in {"G", "A", "B"} : backup[p] = before[p]
                        /\ n = 8 => On("A"))'
      BY <2>2, <2>3, <2>4 DEF local, On
    <2>6. Held'
      BY <1>3, <1>10, <2>2, <2>3, HeldKeeps DEF local
    <2>7. TestPos(n + 1)'
      <3>1. CASE n = 8
        BY <2>5, <2>6, <3>1 DEF TestPos
      <3>2. CASE n = 10
        BY <2>5, <2>6, <3>2 DEF TestPos
      <3> QED
        BY <1>10, <3>1, <3>2
    <2>8. script' = Rest(s, n + 1) /\ n + 1 \in 1..15
      BY <1>2, <1>10, <2>2
    <2> QED
      BY <1>5, <2>2, <2>7, <2>8
  <1>11. CASE n \in {12, 14}
    <2> DEFINE c == IF n = 12 THEN "A" ELSE "B"
    <2>1. c \in Channels /\ Head(script) = Do("writeBack", c)
      BY <1>2, <1>11, TestSteps DEF s, Channels
    <2>2. (n = 12 => c = "A") /\ (n = 14 => c = "B")
      OBVIOUS
    <2> HIDE DEF c
    <2>3. /\ Goes /\ UNCHANGED <<useCache, file, call, local, before, blind>>
          /\ BatchWritten(BackBatch(c), TRUE) \/ BatchFails(BackBatch(c), TRUE, "batch")
      BY <1>2, <2>1, OtherSteps
    <2>4. /\ failed' \in {failed, TRUE}
          /\ On(c) /\ (c = "A" => backup["MAC"] = "A") =>
                /\ On(c)'
                /\ ~failed' => \A p \in {"G", "A", "B"} :
                      chip'[p] = IF p \in Of(c) THEN backup[p] ELSE chip[p]
      BY <1>4, <2>1, <2>3, BackSent
    <2>5. Keeps /\ (Trusted' => Trusted) /\ (Intact' => Intact)
      BY <2>3, <2>4, StillFine DEF Keeps
    <2>6. /\ Trusted => On(c) /\ (c = "A" => backup["MAC"] = "A")
          /\ Intact => /\ backup["B"] = before["B"]
                       /\ n = 12 => backup["A"] = before["A"] /\ backup["G"] = before["G"]
                       /\ n = 14 => chip["A"] = before["A"] /\ chip["G"] = before["G"]
      BY <1>3, <1>11, <2>2 DEF TestPos
    <2>7. Trusted' => On(c)'
      BY <2>4, <2>5, <2>6
    <2>8. ASSUME Intact'
          PROVE  (/\ chip["A"] = before["A"] /\ chip["G"] = before["G"]
                  /\ backup["B"] = before["B"]
                  /\ n = 12 => backup["A"] = before["A"] /\ backup["G"] = before["G"]
                  /\ n = 14 => chip["B"] = before["B"])'
      <3>1. Intact /\ On(c) /\ (c = "A" => backup["MAC"] = "A") /\ ~failed'
        BY <2>5, <2>6, <2>8 DEF Intact
      <3>2. \A p \in {"G", "A", "B"} : chip'[p] = IF p \in Of(c) THEN backup[p] ELSE chip[p]
        BY <2>4, <3>1
      <3> QED
        BY <1>11, <2>2, <2>3, <2>6, <3>1, <3>2 DEF Of, local
    <2>9. Held'
      BY <1>3, <1>11, <2>3, <2>5, HeldKeeps DEF local
    <2>10. TestPos(n + 1)'
      <3>1. CASE n = 12
        BY <2>2, <2>7, <2>8, <2>9, <3>1 DEF TestPos
      <3>2. CASE n = 14
        BY <2>2, <2>7, <2>8, <2>9, <3>2 DEF TestPos
      <3> QED
        BY <1>11, <3>1, <3>2
    <2>11. script' = Rest(s, n + 1) /\ n + 1 \in 1..15
      BY <1>2, <1>11, <2>3 DEF Goes
    <2> QED
      BY <1>5, <2>3, <2>10, <2>11
  <1>12. CASE n = 15
    <2>1. Head(script) = Restore
      BY <1>2, <1>12, TestSteps DEF s
    <2>2. PICK c \in Macs : ch = <<c>> /\ Right(c)
      BY <1>3, <1>12 DEF Held
    <2>3. Head(ch) = c /\ Tail(ch) = <<>>
      BY <2>2, Remembered
    <2>4. /\ Trusted => Synced
          /\ Intact => \A p \in {"G", "A", "B"} : chip[p] = before[p]
      BY <1>3, <1>12 DEF TestPos, On, Synced
    <2>5. /\ Goes /\ UNCHANGED <<useCache, file, call, before>>
          /\ ch' = <<>>
          /\ failed' \in {failed, TRUE} /\ (blind => blind')
          /\ "select" \notin Failing \/ ~failed' =>
                 /\ \A p \in {"G", "A", "B"} : chip'[p] = chip[p]
                 /\ Synced => Synced' /\ (Right(c) => blind' \/ chip'["MAC"] = before["MAC"])
      BY <1>2, <2>1, <2>3, Restores
    <2>6. /\ (Trusted' => Trusted) /\ (Intact' => Intact)
          /\ Trusted' => "select" \notin Failing \/ ~failed'
      BY <2>5, StillFine DEF Trusted, Reliable
    <2>7. Trusted' => Synced' /\ (blind' \/ chip'["MAC"] = before["MAC"])
      BY <2>2, <2>4, <2>5, <2>6
    <2>8. ASSUME Intact'
          PROVE  /\ \A p \in {"G", "A", "B"} : chip'[p] = before'[p]
                 /\ chip'["MAC"] = before'["MAC"] \/ blind'
      <3>1. Trusted' /\ Intact
        BY <2>6, <2>8 DEF Intact
      <3> QED
        BY <2>4, <2>5, <2>6, <2>7, <3>1
    <2>9. Reliable \/ ~blind' => TestRestores'
      BY <2>8 DEF TestRestores, Intact, Trusted, Reliable
    <2>10. Reliable => Synced' /\ SuccessMeansSame' /\ ChannelRestored'
      BY <1>3, <2>5, <2>7 DEF Trusted, Reliable, Synced, SuccessMeansSame, ChannelRestored, Succeeded
    <2>11. IdleOK'
      BY <2>5, <2>9, <2>10 DEF IdleOK, Reliable
    <2> QED
      BY <1>2, <1>12, <2>5, <2>11 DEF Where, Goes
  <1> QED
    BY <1>2, <1>6, <1>7, <1>8, <1>9, <1>10, <1>11, <1>12

-----------------------------------------------------------------------------
\* Every step keeps the invariant.

LEMMA TypeStep ==
    ASSUME TypeInv, CallStep, script # <<>>, Head(script) \in Instructions,
           At("restore") => Head(ch) \in Macs
    PROVE  TypeInv'
  <1>1. PICK o \in InstructionOps, c \in Channels : Head(script) = Do(o, c)
    BY DEF Instructions, Do
  <1>2. /\ chip \in Map /\ cache \in Map /\ file \in Map /\ backup \in Map /\ before \in Map
        /\ useCache \in BOOLEAN /\ failed \in BOOLEAN
        /\ dc \in DCRecords /\ x0020 \in Macs /\ call.from \in Channels
        /\ chip["MAC"] \in Macs /\ cache["MAC"] \in Macs /\ file["MAC"] \in Macs
        /\ Defaults \in Map /\ "A" \in Macs /\ "plain" \in DCs
    BY DefaultsMap DEF TypeInv, Map, Channels, Macs, DCs
  <1>0. blind \in BOOLEAN /\ (blind => "read" \in Failing)
    BY DEF TypeInv
  <1>3. ASSUME chip' \in Map, cache' \in Map, file' \in Map, backup' \in Map, before' = before,
               failed' \in {failed, TRUE}, dc' \in DCRecords, x0020' \in Macs,
               useCache' = useCache, call' = call,
               blind' = blind \/ (blind' = TRUE /\ "read" \in Failing)
        PROVE  TypeInv'
    <2>1. blind' \in BOOLEAN /\ (blind' => "read" \in Failing)
      <3>1. CASE blind' = blind
        BY <1>0, <3>1
      <3>2. CASE blind' = TRUE /\ "read" \in Failing
        BY <3>2
      <3> QED
        BY <1>3, <3>1, <3>2
    <2> QED
      BY <1>2, <1>3, <2>1 DEF TypeInv
  <1>4. CASE o \in {"remember", "recall"}
    <2>1. RememberChannel \/ RecallChannel
      BY <1>1, <1>4, OneStep
    <2>2. UNCHANGED <<chip, dc, useCache, file, call, backup, before, failed>>
      BY <2>1 DEF RememberChannel, RecallChannel
    <2>3. blind' = blind \/ (blind' = TRUE /\ "read" \in Failing)
      BY <2>1 DEF RememberChannel, RecallChannel, MayMisread
    <2>4. cache' \in Map
      <3>1. PICK x \in Macs : cache' = [cache EXCEPT !["MAC"] = x] \/ cache' = cache
        BY <1>2, <2>1 DEF RememberChannel, RecallChannel, Active
      <3> QED
        BY <1>2, <3>1 DEF Map, Places
    <2>5. x0020' \in Macs
      <3>1. x0020' = cache'["MAC"] \/ x0020' = x0020
        BY <2>1 DEF RememberChannel, RecallChannel
      <3>2. cache'["MAC"] \in Macs
        BY <2>4 DEF Map
      <3> QED
        BY <1>2, <3>1, <3>2
    <2> QED
      BY <1>2, <1>3, <2>2, <2>3, <2>4, <2>5
  <1>5. CASE o = "select"
    <2>1. Head(script) = Select(c)
      BY <1>1, <1>5 DEF Select
    <2>2. /\ UNCHANGED <<dc, useCache, file, call, local, before>>
          /\ chip' \in Map /\ cache' \in Map /\ failed' \in {failed, TRUE}
          /\ blind' = blind \/ (blind' = TRUE /\ "read" \in Failing)
      BY <2>1, SelectStep
    <2> QED
      BY <1>2, <1>3, <2>2 DEF local
  <1>6. CASE o = "restore"
    <2>1. RestoreChannel /\ At("restore")
      BY <1>1, <1>6, OneStep DEF RestoreChannel
    <2>2. /\ Selects(Head(ch)) /\ Head(ch) \in Macs
          /\ x0020' = "A" /\ backup' = Defaults
          /\ dc' = [dc EXCEPT !.backup = "plain"]
          /\ UNCHANGED <<useCache, file, call, before>>
      BY <2>1 DEF RestoreChannel
    <2>3. /\ chip' \in Map /\ cache' \in Map /\ failed' \in {failed, TRUE}
          /\ blind' = blind \/ (blind' = TRUE /\ "read" \in Failing)
      BY <1>2, <2>2, Selecting
    <2>4. dc' \in DCRecords
      BY <1>2, <2>2 DEF DCRecords
    <2> QED
      BY <1>2, <1>3, <2>2, <2>3, <2>4
  <1>7. CASE o \in {"upload", "load"}
    <2>1. /\ ForA(c, <<dc.cache>>) \in Commands /\ ForA(c, <<"plain", "write">>) \in Commands
      BY ForACommands
    <2>2. PICK src \in {cache, file}, values \in Commands : Sending(c, src, values)
      BY <1>1, <1>7, <2>1, OtherSteps
    <2>3. UNCHANGED <<useCache, file, call, x0020, backup, before, blind>>
      BY <1>1, <1>7, OtherSteps
    <2>4. chip' \in Map /\ cache' \in Map /\ dc' \in DCRecords /\ failed' \in {failed, TRUE}
      BY <1>2, <2>2, SendingStep DEF GivenUp
    <2> QED
      BY <1>2, <1>3, <2>3, <2>4
  <1>8. CASE o \in {"write0020", "load0020"}
    <2>1. PICK x \in {x0020, file["MAC"]}, toChip \in BOOLEAN :
             WriteOrAbort(MACRegister(x), <<>>, toChip, "0020")
      BY <1>1, <1>8, OtherSteps
    <2>2. UNCHANGED <<useCache, file, call, x0020, backup, before, blind>>
      BY <1>1, <1>8, OtherSteps
    <2>3. chip' \in Map /\ cache' \in Map /\ dc' \in DCRecords /\ failed' \in {failed, TRUE}
      BY <1>2, <2>1, SendingMAC DEF GivenUp
    <2> QED
      BY <1>2, <1>3, <2>2, <2>3
  <1>17. CASE o = "resetLogic"
    <2>1. ResetLogicregisters
      BY <1>1, <1>17, OneStep
    <2>2. /\ UNCHANGED <<dc, useCache, file, call, local, before>>
          /\ blind' = blind \/ (blind' = TRUE /\ "read" \in Failing)
      BY <2>1 DEF ResetLogicregisters, MayMisread
    <2>3. PICK x \in Macs, toChip \in BOOLEAN :
             BatchWritten(MACRegister(x), toChip) \/ BatchFails(MACRegister(x), toChip, "0020")
      BY <2>1 DEF ResetLogicregisters
    <2>4. MACRegister(x) \in Seq(Entries(x))
      BY MACEntries
    <2>5. chip' \in Map /\ cache' \in Map /\ failed' \in {failed, TRUE}
      BY <1>2, <2>3, <2>4, BatchSent
    <2> QED
      BY <1>2, <1>3, <2>2, <2>5 DEF local
  <1>18. ASSUME ReadFails
         PROVE  TypeInv'
    <2>1. dc' \in DCRecords
      BY <1>2, <1>18 DEF ReadFails, DCRecords
    <2> QED
      BY <1>2, <1>3, <1>18, <2>1 DEF ReadFails, maps
  <1>19. DCAnswer \in DCs /\ dc.cache \in DCs
    BY <1>2 DEF DCAnswer, DCRecords
  <1>9. CASE o = "download"
    <2>1. Download \/ ReadFails
      BY <1>1, <1>9, OneStep
    <2>2. CASE Download
      <3>1. arg = c /\ Answers(c, cache) \in Map
        BY <1>1, <1>2, OneStep, Answered
      <3>2. PICK v \in DCs : dc' = [dc EXCEPT !.cache = v]
        BY <1>19, <2>2 DEF Download
      <3>3. dc' \in DCRecords
        BY <1>2, <3>2 DEF DCRecords
      <3>4. /\ cache' = Answers(c, cache)
            /\ UNCHANGED <<chip, useCache, file, call, backup, x0020, before, failed, blind>>
        BY <2>2, <3>1 DEF Download, local, history
      <3> QED
        BY <1>2, <1>3, <3>1, <3>3, <3>4
    <2> QED
      BY <1>18, <2>1, <2>2
  <1>10. CASE o = "backup"
    <2>1. Backup \/ ReadFails
      BY <1>1, <1>10, OneStep
    <2>2. CASE Backup
      <3>1. arg = c /\ Answers(c, cache) \in Map /\ Answers(c, backup) \in Map
        BY <1>1, <1>2, OneStep, Answered
      <3>2. dc' = dc \/ dc' = [dc EXCEPT !.cache = DCAnswer, !.backup = DCAnswer]
        BY <2>2 DEF Backup
      <3>3. dc' \in DCRecords
        BY <1>2, <1>19, <3>2 DEF DCRecords
      <3>4. /\ cache' = Answers(c, cache) /\ backup' = Answers(c, backup)
            /\ UNCHANGED <<chip, useCache, file, call, x0020, before, failed, blind>>
        BY <2>2, <3>1 DEF Backup, history
      <3> QED
        BY <1>2, <1>3, <3>1, <3>3, <3>4
    <2> QED
      BY <1>18, <2>1, <2>2
  <1>11. CASE o = "compare"
    <2>1. Compare
      BY <1>1, <1>11, OneStep
    <2>2. /\ UNCHANGED <<maps, dc, useCache, file, call, local, before, blind>>
          /\ failed' \in {failed, TRUE}
      BY <2>1 DEF Compare
    <2> QED
      BY <1>2, <1>3, <2>2 DEF maps, local
  <1>12. CASE o = "copy"
    <2>1. Copy
      BY <1>1, <1>12, OneStep
    <2> DEFINE to == CHOOSE x \in Channels : x # call.from
    <2>2. to \in Channels
      BY DEF Channels
    <2>3. /\ cache' = [cache EXCEPT ![to] = cache[call.from]]
          /\ \E v \in DCs : dc' = [dc EXCEPT !.cache = IF to = "A" THEN v ELSE @]
      BY <2>1 DEF Copy
    <2> HIDE DEF to
    <2>4. cache[call.from] \in Values /\ to \in Places /\ to # "MAC"
      BY <1>2, <2>2 DEF Channels, Map, Places
    <2>5. cache' \in Map
      BY <1>2, <2>3, <2>4, MapExcept
    <2>6. dc' \in DCRecords
      BY <1>2, <2>3 DEF DCRecords
    <2>7. UNCHANGED <<chip, useCache, file, call, x0020, backup, before, failed, blind>>
      BY <2>1 DEF Copy, local, history
    <2> QED
      BY <1>2, <1>3, <2>5, <2>6, <2>7
  <1>13. CASE o = "save"
    <2>1. /\ UNCHANGED <<chip, useCache, call, local, before>>
          /\ cache' \in Map /\ file' \in Map /\ dc' \in DCRecords
          /\ failed' \in {failed, TRUE}
          /\ blind' = blind \/ (blind' = TRUE /\ "read" \in Failing)
      BY <1>1, <1>13, SaveStep
    <2> QED
      BY <1>2, <1>3, <2>1 DEF local
  <1>14. CASE o = "reset"
    <2>1. Reset
      BY <1>1, <1>14, OneStep
    <2>2. chip' \in Map /\ cache' \in Map /\ failed' \in {failed, TRUE}
      BY <1>2, <2>1 DEF Reset
    <2>3. dc' \in DCRecords
      BY <1>2, <2>1 DEF Reset, DCRecords
    <2>4. UNCHANGED <<useCache, file, call, local, before, blind>>
      BY <2>1 DEF Reset
    <2> QED
      BY <1>2, <1>3, <2>2, <2>3, <2>4 DEF local
  <1>15. CASE o = "test"
    <2>1. /\ UNCHANGED <<dc, useCache, file, call, local, before, blind>>
          /\ chip' \in Map /\ cache' \in Map /\ failed' \in {failed, TRUE}
      BY <1>1, <1>15, PatternStep
    <2> QED
      BY <1>2, <1>3, <2>1 DEF local
  <1>16. CASE o = "writeBack"
    <2>1. /\ UNCHANGED <<useCache, file, call, local, before, blind>>
          /\ BatchWritten(BackBatch(c), TRUE) \/ BatchFails(BackBatch(c), TRUE, "batch")
          /\ dc' \in DCRecords
      BY <1>1, <1>16, OtherSteps
    <2>2. chip' \in Map /\ cache' \in Map /\ failed' \in {failed, TRUE}
      BY <1>2, <2>1, BackSent
    <2> QED
      BY <1>2, <1>3, <2>1, <2>2 DEF local
  <1> QED
    BY <1>1, <1>4, <1>5, <1>6, <1>7, <1>8, <1>9, <1>10, <1>11, <1>12, <1>13, <1>14, <1>15,
       <1>16, <1>17 DEF InstructionOps

\* What a call remembers it takes back in the end.
LEMMA RestoreHas ==
    ASSUME TypeInv, Where, At("restore")
    PROVE  Head(ch) \in Macs
  <1>1. script # <<>> /\ Head(script).op = "restore"
    BY DEF At
  <1>2. PICK op \in LongCalls, n \in 1..15 : Stage(op, n)
    BY <1>1 DEF Where
  <1> DEFINE s == StepsOf(op)
  <1>3. n \in 1..Len(s) /\ s[n].op = "restore"
    BY <1>1, <1>2, Stepping
  <1>4. Held \/ HeldTwice \/ (\E m \in Macs : ch = <<m>>) => Head(ch) \in Macs
    BY Remembered DEF Held, HeldTwice
  <1>5. CASE op = "upload"
    <2>1. n # 1
      BY <1>3, <1>5, UploadSteps DEF StepsOf, Do, Remember
    <2>2. Held
      BY <1>2, <1>5, <2>1 DEF Stage, UploadPos
    <2> QED
      BY <1>4, <2>2
  <1>6. CASE op = "copy"
    <2>1. s = CopyChannelRegisters
      BY <1>6 DEF StepsOf
    <2>2. n \in 1..10 /\ n # 1
      BY <1>3, <2>1, CopySteps DEF Remember, Do
    <2>3. Held \/ HeldTwice
      <3>1. CopyPos(n)
        BY <1>2, <1>6 DEF Stage
      <3>2. n \in {2, 3, 10} \/ n \in 4..9
        BY <2>2
      <3> QED
        BY <3>1, <3>2 DEF CopyPos
    <2> QED
      BY <1>4, <2>3
  <1>7. CASE op = "download"
    <2>1. n > 1
      BY <1>3, <1>7, DownloadSteps DEF StepsOf, Do, Select, Restore
    <2>2. \E m \in Macs : ch = <<m>>
      BY <1>2, <1>7, <2>1 DEF Stage, DownloadPos
    <2> QED
      BY <1>4, <2>2
  <1>8. CASE op \in {"isSynced", "save"}
    <2>1. n # 1
      BY <1>3, <1>8, IsSyncedSteps, SaveSteps DEF StepsOf, Do, Remember, Select, Restore
    <2>2. Held
      BY <1>2, <1>8, <2>1 DEF Stage, LookPos, SavePos
    <2> QED
      BY <1>4, <2>2
  <1>9. CASE op = "load"
    <2>1. n = 7
      <3>1. n \in 1..9 /\ LoadConfig[n].op = "restore"
        BY <1>3, <1>9, LoadSteps DEF StepsOf
      <3> QED
        BY <3>1, LoadSteps DEF Do, Remember, Select, Restore
    <2>2. Held
      BY <1>2, <1>9, <2>1 DEF Stage, LoadPos
    <2> QED
      BY <1>4, <2>2
  <1>10. CASE op = "test"
    <2>1. n # 1
      BY <1>3, <1>10, TestSteps DEF StepsOf, Do, Remember, Select, Restore
    <2>2. Held
      BY <1>2, <1>10, <2>1 DEF Stage, TestPos
    <2> QED
      BY <1>4, <2>2
  <1> QED
    BY <1>5, <1>6, <1>7, <1>8, <1>9, <1>10 DEF LongCalls

LEMMA CallKeeps ==
    ASSUME IInv, CallStep
    PROVE  IInv'
  <1>1. TypeInv /\ Where
    BY DEF IInv
  <1>2. script # <<>>
    BY DEF CallStep, At, RememberChannel, RecallChannel, SelectChannel, RestoreChannel, Upload,
       Write0020, Load, Load0020, ResetLogicregisters, ReadFails, Download, Compare, Copy, Save,
       Backup, Reset, Test, WriteBack
  <1>3. PICK op \in LongCalls, n \in 1..15 : Stage(op, n)
    BY <1>1, <1>2 DEF Where
  <1>4. Head(script) \in Instructions
    BY <1>3, Stepping
  <1>5. At("restore") => Head(ch) \in Macs
    BY <1>1, RestoreHas
  <1>6. TypeInv'
    BY <1>1, <1>2, <1>4, <1>5, TypeStep
  <1>7. Where'
    BY <1>1, <1>3, UploadCall, CopyCall, DownloadCall, IsSyncedCall, SaveCall, LoadCall,
       TestCall DEF LongCalls
  <1> QED
    BY <1>6, <1>7 DEF IInv

LEMMA IdleFacts ==
    ASSUME IInv, script = <<>>
    PROVE  TypeInv /\ IdleOK
  <1>1. \A k \in LongCalls, n \in 1..15 : ~Stage(k, n)
    BY Stepping
  <1> QED
    BY <1>1 DEF IInv, Where

\* A call begins.
LEMMA BeginKeeps ==
    ASSUME IInv, NEW op \in LongCalls, NEW from \in Channels, Begin(op, from)
    PROVE  IInv'
  <1>1. /\ script = <<>>
        /\ script' = StepsOf(op) /\ call' = [op |-> op, from |-> from]
        /\ IF op = "load" THEN file' \in Files ELSE file' = Defaults
        /\ before' = IF op = "test" THEN chip ELSE [Defaults EXCEPT !["MAC"] = chip["MAC"]]
        /\ failed' = FALSE /\ blind' = FALSE
        /\ UNCHANGED <<maps, dc, useCache, local>>
    BY DEF Begin, Idle
  <1>2. TypeInv /\ IdleOK
    BY <1>1, IdleFacts
  <1>3. file' \in Map
    <2>1. Defaults \in Map
      BY DefaultsMap
    <2>2. Files \subseteq Map
      BY DEF Files, Map, Places
    <2> QED
      BY <1>1, <2>1, <2>2
  <1>4. before' \in Map /\ before'["MAC"] = chip["MAC"]
    <2>1. Defaults \in Map /\ chip \in Map /\ chip["MAC"] \in Macs
      BY <1>2, DefaultsMap DEF TypeInv, Map
    <2>2. op # "test" => before' \in Map /\ before'["MAC"] = chip["MAC"]
      <3> DEFINE w == [Defaults EXCEPT !["MAC"] = chip["MAC"]]
      <3>1. "MAC" \in Places
        BY DEF Places
      <3>2. w \in Map /\ w["MAC"] = chip["MAC"]
        BY <2>1, <3>1, MapExcept
      <3>3. op # "test" => before' = w
        BY <1>1
      <3> HIDE DEF w
      <3> QED
        BY <3>2, <3>3
    <2> QED
      BY <1>1, <2>1, <2>2
  <1>5. TypeInv'
    BY <1>1, <1>2, <1>3, <1>4 DEF TypeInv, maps, local
  <1>6. /\ chip' = chip /\ cache' = cache /\ ch' = <<>> /\ (Reliable => Synced)
    BY <1>1, <1>2 DEF IdleOK, maps, local
  <1>7. Fresh' /\ (chip["MAC"] = before["MAC"])' /\ (Reliable => Synced)'
    BY <1>4, <1>6 DEF Fresh, Synced, Reliable
  <1>8. op = "test" => \A p \in {"G", "A", "B"} : chip'[p] = before'[p]
    BY <1>1, <1>6
  <1>9. Rest(StepsOf(op), 1) = StepsOf(op) /\ 1 \in 1..Len(StepsOf(op))
    <2>1. StepsOf(op) \in Seq(Instructions) /\ Len(StepsOf(op)) \in 1..15
      BY UploadSteps, TestSteps, DownloadSteps, IsSyncedSteps, SaveSteps, LoadSteps, CopySteps
         DEF StepsOf, LongCalls
    <2>2. SubSeq(StepsOf(op), 1, Len(StepsOf(op))) = StepsOf(op)
      BY <2>1, SubSeqFull
    <2> QED
      BY <2>1, <2>2 DEF Rest
  <1>10. /\ UploadPos(1)' /\ CopyPos(1)' /\ DownloadPos(1)' /\ LookPos(1)' /\ SavePos(1)'
         /\ LoadPos(1)' /\ (op = "test" => TestPos(1)')
    <2>1. UploadPos(1)'
      BY <1>7 DEF UploadPos, UploadPart
    <2>2. CopyPos(1)'
      BY <1>7 DEF CopyPos
    <2>3. DownloadPos(1)'
      BY <1>7 DEF DownloadPos
    <2>4. LookPos(1)'
      BY <1>7 DEF LookPos
    <2>5. SavePos(1)'
      BY <2>4 DEF SavePos
    <2>6. LoadPos(1)'
      BY <1>7 DEF LoadPos
    <2>7. op = "test" => TestPos(1)'
      BY <1>7, <1>8 DEF TestPos
    <2> QED
      BY <2>1, <2>2, <2>3, <2>4, <2>5, <2>6, <2>7
  <1>11. Stage(op, 1)'
    <2>1. (call.op)' = op
      BY <1>1
    <2>2. script' = Rest(StepsOf(op), 1)
      BY <1>1, <1>9
    <2> QED
      BY <1>9, <1>10, <2>1, <2>2 DEF Stage
  <1>12. 1 \in 1..15
    OBVIOUS
  <1> QED
    BY <1>5, <1>11, <1>12 DEF IInv, Where

\* A call of one step that is none of those the properties are about.
LEMMA SingleKeeps ==
    ASSUME IInv, NEW op, op \notin LongCalls, Single(op),
           chip' \in Map, cache' \in Map, useCache' \in BOOLEAN, failed' \in BOOLEAN,
           blind' \in BOOLEAN, blind' => "read" \in Failing,
           Reliable => Synced'
    PROVE  IInv'
  <1>1. /\ script = <<>>
        /\ script' = <<>> /\ call' = [op |-> op, from |-> "A"]
        /\ before' = Defaults /\ file' = Defaults
        /\ dc' = dc /\ ch' = ch /\ x0020' = x0020 /\ backup' = backup
    BY DEF Single, Idle, local
  <1>2. TypeInv /\ IdleOK
    BY <1>1, IdleFacts
  <1>3. TypeInv'
    <2>1. (call.from)' \in Channels /\ Defaults \in Map
      BY <1>1, DefaultsMap DEF Channels
    <2> QED
      BY <1>1, <1>2, <2>1 DEF TypeInv
  <1>4. (call.op)' \notin LongCalls
    BY <1>1
  <1>5. (SuccessMeansSame /\ ChannelRestored /\ TestRestores)'
    BY <1>4 DEF SuccessMeansSame, ChannelRestored, TestRestores, Succeeded, LongCalls
  <1>6. IdleOK'
    BY <1>1, <1>2, <1>5 DEF IdleOK, Reliable
  <1> QED
    BY <1>1, <1>3, <1>6 DEF IInv, Where

LEMMA SPI_writeKeeps ==
    ASSUME IInv, NEW addr \in {"G", "M"}, NEW data \in Values, SPI_write(addr, data)
    PROVE  IInv'
  <1> DEFINE batch == <<[addr |-> addr, data |-> data]>>
  <1>1. /\ Single("write") /\ useCache' = useCache /\ blind' = FALSE
        /\ BatchWritten(batch, FALSE) \/ BatchFails(batch, FALSE, "write")
    BY DEF SPI_write
  <1>2. script = <<>>
    BY <1>1 DEF Single, Idle
  <1>3. TypeInv /\ IdleOK
    BY <1>2, IdleFacts
  <1>4. /\ chip \in Map /\ cache \in Map /\ chip["MAC"] \in Macs /\ cache["MAC"] \in Macs
        /\ useCache \in BOOLEAN /\ failed \in BOOLEAN
    BY <1>3 DEF TypeInv, Map
  <1>5. ASSUME NEW x \in Macs PROVE batch \in Seq(Entries(x))
    BY DEF Entries, Writes
  <1> HIDE DEF batch
  <1>6. /\ chip' \in Map /\ cache' \in Map /\ failed' \in {failed, TRUE}
        /\ chip'["MAC"] \in {chip["MAC"], chip["MAC"]}
    BY <1>1, <1>4, <1>5, BatchSent
  <1>7. cache'["MAC"] \in {cache["MAC"], cache["MAC"]}
    BY <1>1, <1>4, <1>5, BatchSent
  <1>8. Reliable => Synced'
    BY <1>3, <1>6, <1>7 DEF IdleOK, Synced
  <1>9. useCache' \in BOOLEAN /\ failed' \in BOOLEAN /\ blind' \in BOOLEAN /\ ~blind'
    BY <1>1, <1>4, <1>6
  <1> QED
    BY <1>1, <1>6, <1>8, <1>9, SingleKeeps DEF LongCalls

LEMMA SetActiveChannelKeeps ==
    ASSUME IInv, NEW c \in Channels, SetActiveChannel(c)
    PROVE  IInv'
  <1>1. Single("setActive") /\ Selects(c) /\ useCache' = useCache
    BY DEF SetActiveChannel
  <1>2. script = <<>>
    BY <1>1 DEF Single, Idle
  <1>3. TypeInv /\ IdleOK
    BY <1>2, IdleFacts
  <1>4. /\ chip \in Map /\ cache \in Map /\ useCache \in BOOLEAN /\ failed \in BOOLEAN
        /\ c \in Macs /\ c # "none"
    BY <1>3 DEF TypeInv, Channels, Macs
  <1>0. blind \in BOOLEAN /\ (blind => "read" \in Failing)
    BY <1>3 DEF TypeInv
  <1>5. /\ chip' \in Map /\ cache' \in Map /\ failed' \in {failed, TRUE}
        /\ blind' = blind \/ (blind' = TRUE /\ "read" \in Failing)
        /\ cache'["MAC"] = c
        /\ "select" \notin Failing => (Synced \/ cache["MAC"] # c => chip'["MAC"] = c)
    BY <1>1, <1>4, Selecting
  <1>6. Reliable => Synced'
    BY <1>3, <1>5 DEF IdleOK, Synced, Reliable
  <1>7. blind' \in BOOLEAN /\ (blind' => "read" \in Failing)
    <2>1. CASE blind' = blind
      BY <1>0, <2>1
    <2>2. CASE blind' = TRUE /\ "read" \in Failing
      BY <2>2
    <2> QED
      BY <1>5, <2>1, <2>2
  <1>8. useCache' \in BOOLEAN /\ failed' \in BOOLEAN
    BY <1>1, <1>4, <1>5
  <1> QED
    BY <1>1, <1>5, <1>6, <1>7, <1>8, SingleKeeps DEF LongCalls

LEMMA EnableValuesCacheKeeps ==
    ASSUME IInv, NEW enabled \in CacheModes, EnableValuesCache(enabled)
    PROVE  IInv'
  <1>1. /\ Single("enable") /\ useCache' = enabled /\ failed' = FALSE /\ blind' = FALSE
        /\ chip' = chip /\ cache' = cache
    BY DEF EnableValuesCache, maps
  <1>2. script = <<>>
    BY <1>1 DEF Single, Idle
  <1>3. TypeInv /\ IdleOK
    BY <1>2, IdleFacts
  <1>4. chip' \in Map /\ cache' \in Map /\ useCache' \in BOOLEAN
    BY <1>1, <1>3, RegistersAssumption DEF TypeInv
  <1>5. Reliable => Synced'
    BY <1>1, <1>3 DEF IdleOK, Synced
  <1> QED
    BY <1>1, <1>4, <1>5, SingleKeeps DEF LongCalls

LEMMA McuWritesKeeps ==
    ASSUME IInv, NEW c \in Channels, NEW data \in Values, McuWrites(c, data)
    PROVE  IInv'
  <1>1. /\ Single("mcu") /\ useCache' = useCache /\ failed' = FALSE /\ blind' = FALSE
        /\ chip' = [chip EXCEPT ![c] = data] /\ cache' = cache
    BY DEF McuWrites
  <1>2. script = <<>>
    BY <1>1 DEF Single, Idle
  <1>3. TypeInv /\ IdleOK
    BY <1>2, IdleFacts
  <1>4. c \in Places /\ c # "MAC"
    BY DEF Channels, Places
  <1>5. chip' \in Map /\ \A q \in Places \ {c} : chip'[q] = chip[q]
    <2> DEFINE w == [chip EXCEPT ![c] = data]
    <2>1. chip \in Map /\ IF c = "MAC" THEN data \in Macs ELSE data \in Values
      BY <1>3, <1>4 DEF TypeInv
    <2>2. w \in Map /\ \A q \in Places \ {c} : w[q] = chip[q]
      BY <1>4, <2>1, MapExcept
    <2> HIDE DEF w
    <2>3. chip' = w
      BY <1>1 DEF w
    <2> QED
      BY <2>2, <2>3
  <1>6. chip'["MAC"] = chip["MAC"]
    BY <1>4, <1>5 DEF Places
  <1>7. cache' \in Map /\ useCache' \in BOOLEAN /\ (Reliable => Synced')
    BY <1>1, <1>3, <1>6 DEF TypeInv, IdleOK, Synced
  <1> QED
    BY <1>1, <1>5, <1>7, SingleKeeps DEF LongCalls

LEMMA InitHolds == Init => IInv
  <1> SUFFICES ASSUME Init PROVE IInv
    OBVIOUS
  <1>1. /\ chip = Defaults /\ cache = Defaults /\ file = Defaults /\ backup = Defaults
        /\ before = Defaults /\ useCache \in BOOLEAN /\ script = <<>> /\ ch = <<>>
        /\ call = [op |-> "none", from |-> "A"] /\ x0020 = "A" /\ failed = FALSE
        /\ blind = FALSE /\ dc = [chip |-> "plain", cache |-> "plain", backup |-> "plain"]
    BY RegistersAssumption DEF Init
  <1>2. TypeInv
    <2>1. dc \in DCRecords
      BY <1>1 DEF DCRecords, DCs
    <2>2. blind \in BOOLEAN /\ ~blind
      BY <1>1
    <2> QED
      BY <1>1, <2>1, <2>2, DefaultsMap DEF TypeInv, Channels, Macs
  <1>3. IdleOK
    BY <1>1 DEF IdleOK, Synced, SuccessMeansSame, ChannelRestored, TestRestores, Succeeded
  <1> QED
    BY <1>1, <1>2, <1>3 DEF IInv, Where

LEMMA NextKeeps ==
    ASSUME IInv, [Next]_vars
    PROVE  IInv'
  <1>1. ASSUME UNCHANGED vars
        PROVE  IInv'
    <2>1. UNCHANGED <<chip, cache, dc, useCache, file, script, call, result, ch, x0020, backup,
                      before, failed, blind>>
      BY <1>1 DEF vars, maps, local, history
    <2>2. TypeInv'
      BY <2>1 DEF IInv, TypeInv
    <2>3. IdleOK => IdleOK'
      BY <2>1 DEF IdleOK, Reliable, Synced, SuccessMeansSame, ChannelRestored, TestRestores,
         Succeeded, Idle
    <2>4. ASSUME NEW op \in LongCalls, NEW n \in 1..15, Stage(op, n)
          PROVE  Stage(op, n)'
      <3>1. UploadPart(n) => UploadPart(n)'
        BY <2>1 DEF UploadPart, Reliable, Synced, On, SameA, SameDC
      <3>2. UploadPart(n - 2) => UploadPart(n - 2)'
        <4> DEFINE k == n - 2
        <4> HIDE DEF k
        <4>1. UploadPart(k) => UploadPart(k)'
          BY <2>1 DEF UploadPart, Reliable, Synced, On, SameA, SameDC
        <4> QED
          BY <4>1 DEF k
      <3>3. (Fresh => Fresh') /\ (Held => Held') /\ (HeldTwice => HeldTwice')
        BY <2>1 DEF Fresh, Held, HeldTwice, Right, Synced, Reliable
      <3>4. UploadPos(n) => UploadPos(n)'
        BY <3>1, <3>3 DEF UploadPos
      <3>5. CopyPos(n) => CopyPos(n)'
        BY <2>1, <3>2, <3>3 DEF CopyPos, Reliable, Twins, Synced, SameDC
      <3>6. DownloadPos(n) => DownloadPos(n)'
        BY <2>1, <3>3 DEF DownloadPos, Reliable, Synced, On, SameA, SameDC, Right
      <3>7. LookPos(n) => LookPos(n)'
        BY <2>1, <3>3 DEF LookPos, Reliable, Synced, On
      <3>8. SavePos(n) => SavePos(n)'
        BY <2>1, <3>7 DEF SavePos, Reliable, On, Saved
      <3>9. LoadPos(n) => LoadPos(n)'
        BY <2>1, <3>3 DEF LoadPos, Reliable, Synced, On, AsFile, SameDC
      <3>10. TestPos(n) => TestPos(n)'
        BY <2>1, <3>3 DEF TestPos, Trusted, Intact, Reliable, Synced, On
      <3> QED
        BY <2>1, <2>4, <3>4, <3>5, <3>6, <3>7, <3>8, <3>9, <3>10 DEF Stage
    <2>5. Where'
      BY <2>1, <2>3, <2>4 DEF IInv, Where
    <2> QED
      BY <2>2, <2>5 DEF IInv
  <1>2. ASSUME NEW op \in {"upload", "download", "isSynced", "save", "load", "test"},
               Begin(op, "A")
        PROVE  IInv'
    BY <1>2, BeginKeeps DEF LongCalls, Channels
  <1>3. ASSUME NEW from \in Channels, Begin("copy", from)
        PROVE  IInv'
    BY <1>3, BeginKeeps DEF LongCalls
  <1> QED
    BY <1>1, <1>2, <1>3, SPI_writeKeeps, SetActiveChannelKeeps, EnableValuesCacheKeeps,
       McuWritesKeeps, CallKeeps DEF Next

\* The invariant of the calls' steps.
THEOREM Inductive == Spec => []IInv
  <1>1. Init => IInv
    BY InitHolds
  <1>2. IInv /\ [Next]_vars => IInv'
    BY NextKeeps
  <1> QED
    BY <1>1, <1>2, PTL DEF Spec

-----------------------------------------------------------------------------
\* If channels are selected reliably the map and the chip agree in both channels, in
\* 0x05C3-0x05CA too, once UploadAll, DownloadAll, LoadConfig or a copy has returned without
\* an error, they hold what the file says with the DC values latched after LoadConfig, and
\* the file says what they hold after SaveConfig; reads may fail.
THEOREM SuccessIsSame == ASSUME Reliable PROVE Spec => []SuccessMeansSame
  <1>1. IInv => SuccessMeansSame
    BY IdleFacts DEF IdleOK, SuccessMeansSame, Succeeded, Idle
  <1> QED
    BY <1>1, Inductive, PTL

\* If channels are selected reliably a call that goes through both of them leaves map and
\* chip with the same channel selected, and the one that was unless a read of 0x0020 has
\* failed in the call.
THEOREM ChannelIsRestored == ASSUME Reliable PROVE Spec => []ChannelRestored
  <1>1. IInv => ChannelRestored
    BY IdleFacts DEF IdleOK, ChannelRestored, Succeeded, Idle
  <1> QED
    BY <1>1, Inductive, PTL

\* RegistersTest leaves every register as it was unless the link has failed in it, if
\* channels are selected reliably or reads of 0x0020 do not fail: both together may leave
\* map and chip with different channels before it.
THEOREM TestIsRestored ==
    ASSUME Reliable \/ "read" \notin Failing
    PROVE  Spec => []TestRestores
  <1>1. IInv => TestRestores
    <2>1. IInv => (blind => "read" \in Failing)
      BY DEF IInv, TypeInv
    <2>2. IInv /\ Idle => TestRestores
      BY <2>1, IdleFacts DEF IdleOK, Idle
    <2>3. ~Idle => TestRestores
      BY DEF TestRestores, Succeeded
    <2> QED
      BY <2>2, <2>3
  <1> QED
    BY <1>1, Inductive, PTL

-----------------------------------------------------------------------------
\* The search of an SX.

\* The comparators, without the eight bits.
LEMMA Compared ==
    ASSUME NEW r \in Intervals, NEW n \in Codes
    PROVE  /\ Comparators(r, n) = IF n < r.lo THEN 0 ELSE IF n > r.hi THEN 3 ELSE 2
           /\ Locks(r, n) <=> r.lo <= n /\ n <= r.hi
  <1>1. r.lo \in Int /\ r.hi \in Int
    BY DEF Intervals
  <1>2. n \in Int /\ n % 256 = n
    BY DEF Codes
  <1>3. Comparators(r, n) = IF n < r.lo THEN 0 ELSE IF n > r.hi THEN 3 ELSE 2
    BY <1>2 DEF Comparators
  <1> QED
    BY <1>1, <1>2, <1>3 DEF Locks

\* The highest code of a half that is not too high, or the half's first.
TopOf(r, t) == IF r.hi < 128 * t THEN 128 * t
               ELSE IF r.hi > 128 * t + 127 THEN 128 * t + 127 ELSE r.hi

\* Bits below b are to be tried: high is less than b away from where it ends, and low is
\* the lowest code that was tried and locks.
Tried(r, t, b, s) ==
    /\ s.high \in Int /\ s.low \in Int
    /\ 128 * t <= s.high /\ s.high + b <= 128 * t + 128
    /\ s.high <= TopOf(r, t) /\ TopOf(r, t) < s.high + b
    /\ \/ s.low = 128 * t + 128
       \/ s.low <= s.high /\ 128 * t < s.low /\ r.lo <= s.low /\ s.low <= r.hi
    /\ s.high > 128 * t /\ r.lo <= s.high /\ s.high <= r.hi => s.low <= s.high

LEMMA TryCodeIs ==
    ASSUME NEW r, NEW s, NEW code
    PROVE  TryCode(r, s, code) =
              [high |-> IF Comparators(r, code) = 3 THEN s.high ELSE code,
               low |-> IF Locks(r, code) /\ code < s.low THEN code ELSE s.low]
  BY DEF TryCode

LEMMA TryOne ==
    ASSUME NEW r \in Intervals, NEW t \in {0, 1}, NEW b \in 1..64, NEW s,
           Tried(r, t, 2 * b, s)
    PROVE  Tried(r, t, b, TryBit(r, s, b))
  <1> DEFINE code == s.high + b
             new == TryBit(r, s, b)
  <1>1. code \in Codes /\ s.high \in Int /\ s.low \in Int
    <2>1. /\ s.high \in Int /\ s.low \in Int
          /\ 128 * t <= s.high /\ s.high + 2 * b <= 128 * t + 128
      BY DEF Tried
    <2>2. PICK high \in Int : high = s.high
      BY <2>1
    <2>3. 0 <= high /\ high + 2 * b <= 256
      <3>1. CASE t = 0
        BY <2>1, <2>2, <3>1
      <3>2. CASE t = 1
        BY <2>1, <2>2, <3>2
      <3> QED
        BY <3>1, <3>2
    <2>4. high + b \in Codes
      BY <2>3 DEF Codes
    <2> QED
      BY <2>1, <2>2, <2>4
  <1>2. new = [high |-> IF code < r.lo \/ code <= r.hi THEN code ELSE s.high,
               low |-> IF r.lo <= code /\ code <= r.hi /\ code < s.low THEN code ELSE s.low]
    <2>1. new = [high |-> IF Comparators(r, code) = 3 THEN s.high ELSE code,
                 low |-> IF Locks(r, code) /\ code < s.low THEN code ELSE s.low]
      BY TryCodeIs DEF TryBit
    <2>2. /\ Comparators(r, code) = IF code < r.lo THEN 0 ELSE IF code > r.hi THEN 3 ELSE 2
          /\ Locks(r, code) <=> r.lo <= code /\ code <= r.hi
      BY <1>1, Compared
    <2>3. r.lo \in Int /\ r.hi \in Int /\ r.lo <= r.hi + 1 /\ code \in Int
      BY <1>1 DEF Intervals, Codes
    <2>4. Comparators(r, code) = 3 <=> ~(code < r.lo \/ code <= r.hi)
      BY <2>2, <2>3
    <2> QED
      BY <2>1, <2>2, <2>4
  <1>3. r.lo \in Int /\ r.hi \in Int /\ r.lo <= r.hi + 1
    BY DEF Intervals
  <1>4. CASE code <= r.hi
    <2>1. /\ new.high = code
          /\ new.low = IF r.lo <= code /\ code < s.low THEN code ELSE s.low
      BY <1>2, <1>4
    <2> QED
      BY <1>1, <1>3, <1>4, <2>1 DEF Tried, TopOf
  <1>5. CASE code > r.hi
    <2>1. new.high = s.high /\ new.low = s.low
      BY <1>1, <1>2, <1>3, <1>5
    <2> QED
      BY <1>1, <1>3, <1>5, <2>1 DEF Tried, TopOf
  <1> QED
    BY <1>1, <1>3, <1>4, <1>5

LEMMA TryAll ==
    ASSUME NEW r \in Intervals, NEW t \in {0, 1}, NEW s,
           s = [high |-> 128 * t, low |-> 128 * (t + 1)]
    PROVE  Tried(r, t, 1, TryBits(r, s))
  <1> DEFINE s6 == TryBit(r, s, 64)
             s5 == TryBit(r, s6, 32)
             s4 == TryBit(r, s5, 16)
             s3 == TryBit(r, s4, 8)
             s2 == TryBit(r, s3, 4)
             s1 == TryBit(r, s2, 2)
             s0 == TryBit(r, s1, 1)
  <1>1. TryBits(r, s) = s0
    BY DEF TryBits
  <1>2. Tried(r, t, 128, s)
    <2>1. s.high = 128 * t /\ s.low = 128 * t + 128 /\ t \in Int
      OBVIOUS
    <2>2. r.lo \in Int /\ r.hi \in Int
      BY DEF Intervals
    <2> QED
      BY <2>1, <2>2 DEF Tried, TopOf
  <1> HIDE DEF s6, s5, s4, s3, s2, s1, s0
  <1>3. Tried(r, t, 64, s6)
    <2>1. 64 \in 1..64 /\ 128 = 2 * 64
      OBVIOUS
    <2> QED
      BY <1>2, <2>1, TryOne DEF s6
  <1>4. Tried(r, t, 32, s5)
    <2>1. 32 \in 1..64 /\ 64 = 2 * 32
      OBVIOUS
    <2> QED
      BY <1>3, <2>1, TryOne DEF s5
  <1>5. Tried(r, t, 16, s4)
    <2>1. 16 \in 1..64 /\ 32 = 2 * 16
      OBVIOUS
    <2> QED
      BY <1>4, <2>1, TryOne DEF s4
  <1>6. Tried(r, t, 8, s3)
    <2>1. 8 \in 1..64 /\ 16 = 2 * 8
      OBVIOUS
    <2> QED
      BY <1>5, <2>1, TryOne DEF s3
  <1>7. Tried(r, t, 4, s2)
    <2>1. 4 \in 1..64 /\ 8 = 2 * 4
      OBVIOUS
    <2> QED
      BY <1>6, <2>1, TryOne DEF s2
  <1>8. Tried(r, t, 2, s1)
    <2>1. 2 \in 1..64 /\ 4 = 2 * 2
      OBVIOUS
    <2> QED
      BY <1>7, <2>1, TryOne DEF s1
  <1>9. Tried(r, t, 1, s0)
    <2>1. 1 \in 1..64 /\ 2 = 2 * 1
      OBVIOUS
    <2> QED
      BY <1>8, <2>1, TryOne DEF s0
  <1> QED
    BY <1>1, <1>9 DEF s6, s5, s4, s3, s2, s1, s0

\* The codes of a half that lock, as the search finds them: all but its first code alone.
Finds(r, t) == r.lo <= TopOf(r, t) /\ r.hi > 128 * t

BottomOf(r, t) == IF r.lo < 128 * t THEN 128 * t ELSE r.lo

LEMMA SearchEnds ==
    ASSUME NEW r \in Intervals, NEW t \in {0, 1}
    PROVE  /\ SearchHalf(r, t).high = TopOf(r, t)
           /\ SearchHalf(r, t).low = IF Finds(r, t) THEN BottomOf(r, t) ELSE 128 * t + 128
  <1> DEFINE s == TryBits(r, [high |-> 128 * t, low |-> 128 * (t + 1)])
  <1>1. /\ SearchHalf(r, t).high = s.high
        /\ SearchHalf(r, t).low = Lowest(r, s, 128 * t)
    BY DEF SearchHalf, Lowered
  <1>2. Tried(r, t, 1, s)
    BY TryAll
  <1> HIDE DEF s
  <1>3. r.lo \in 0..256 /\ r.hi \in -1..255 /\ r.lo <= r.hi + 1
    BY DEF Intervals
  <1>4. t = 0 \/ t = 1
    OBVIOUS
  <1>5. s.high = TopOf(r, t) /\ s.low \in Int /\ TopOf(r, t) \in Int
    BY <1>2, <1>3, <1>4 DEF Tried, TopOf
  <1>6. \A n \in Codes : n < r.lo => ~Locks(r, n)
    <2> SUFFICES ASSUME NEW n \in Codes, n < r.lo PROVE ~Locks(r, n)
      OBVIOUS
    <2>1. n \in Int
      BY DEF Codes
    <2> QED
      BY <1>3, <2>1, Compared
  <1>7. ASSUME ~Finds(r, t)
        PROVE  Lowest(r, s, 128 * t) = 128 * t + 128
    <2>1. s.low = 128 * t + 128 /\ s.low > s.high
      BY <1>2, <1>3, <1>4, <1>5, <1>7 DEF Tried, TopOf, Finds
    <2> QED
      BY <2>1 DEF Lowest
  <1>8. ASSUME Finds(r, t)
        PROVE  Lowest(r, s, 128 * t) = BottomOf(r, t)
    <2>1. /\ 128 * t < s.low /\ s.low <= s.high
          /\ r.lo <= s.low /\ s.low <= r.hi
      BY <1>2, <1>3, <1>4, <1>5, <1>8 DEF Tried, TopOf, Finds
    <2> DEFINE Is(n) == /\ \A k \in n..(s.low - 1) : Locks(r, k)
                        /\ n = 128 * t \/ ~Locks(r, n - 1)
    <2>2. BottomOf(r, t) \in 128 * t..s.low
      BY <1>3, <1>4, <1>5, <2>1 DEF BottomOf
    <2>3. Is(BottomOf(r, t))
      <3>1. ASSUME NEW k \in BottomOf(r, t)..(s.low - 1)
            PROVE  Locks(r, k)
        <4>1. k \in Codes /\ r.lo <= k /\ k <= r.hi
          BY <1>3, <1>4, <1>5, <2>1, <2>2 DEF BottomOf, Codes
        <4> QED
          BY <4>1, Compared
      <3>2. ASSUME BottomOf(r, t) # 128 * t
            PROVE  ~Locks(r, BottomOf(r, t) - 1)
        <4>1. BottomOf(r, t) - 1 \in Codes /\ BottomOf(r, t) - 1 < r.lo
          BY <1>3, <1>4, <1>5, <2>1, <3>2 DEF BottomOf, Codes
        <4> QED
          BY <1>6, <4>1
      <3> QED
        BY <3>1, <3>2
    <2>4. ASSUME NEW n \in 128 * t..s.low, Is(n)
          PROVE  n = BottomOf(r, t)
      <3>1. ASSUME n < BottomOf(r, t)
            PROVE  FALSE
        <4>1. n \in Codes /\ n \in n..(s.low - 1) /\ n < r.lo
          BY <1>3, <1>4, <1>5, <2>1, <2>2, <3>1 DEF BottomOf, Codes
        <4> QED
          BY <1>6, <2>4, <4>1
      <3>2. ASSUME n > BottomOf(r, t)
            PROVE  FALSE
        <4>1. /\ n # 128 * t /\ n - 1 \in Codes
              /\ r.lo <= n - 1 /\ n - 1 <= r.hi
          BY <1>3, <1>4, <1>5, <2>1, <2>2, <3>2 DEF BottomOf, Codes
        <4> QED
          BY <2>4, <4>1, Compared
      <3> QED
        BY <1>4, <1>5, <2>2, <3>1, <3>2
    <2>5. Lowest(r, s, 128 * t) = CHOOSE n \in 128 * t..s.low : Is(n)
      BY <1>5, <2>1 DEF Lowest
    <2> HIDE DEF Is
    <2> QED
      BY <2>2, <2>3, <2>4, <2>5
  <1> QED
    BY <1>1, <1>5, <1>7, <1>8

LEMMA Halved ==
    ASSUME NEW n \in Int
    PROVE  /\ Half(n) \in Int
           /\ n >= 0 => 2 * Half(n) <= n /\ n <= 2 * Half(n) + 1
           /\ n = -1 => Half(n) = 0
  BY DEF Half

LEMMA EmptyNeverLocks ==
    ASSUME NEW r \in Intervals, ~CanLock(r), NEW n \in Int
    PROVE  ~Locks(r, n)
  <1>3. r.lo \in Int /\ r.hi \in Int
    BY DEF Intervals
  <1>1. r.lo \in Int /\ r.hi \in Int /\ r.lo > r.hi
    BY <1>3 DEF CanLock
  <1>2. n % 256 \in Int
    OBVIOUS
  <1> QED
    BY <1>1, <1>2 DEF Locks, Comparators

\* What is found in the two halves is the interval, but for the first code of the upper.
LEMMA HalvesJoined ==
    ASSUME NEW r \in Intervals, CanLock(r), r.hi > 0
    PROVE  LET s == BothHalves(SearchHalf(r, 0), SearchHalf(r, 1))
           IN  s.low = r.lo /\ s.high = IF r.hi = 128 THEN 127 ELSE r.hi
  <1> DEFINE a == SearchHalf(r, 0)
             b == SearchHalf(r, 1)
  <1>0. r.lo \in 0..256 /\ r.hi \in -1..255
    BY DEF Intervals
  <1>1. PICK lo \in 0..256, hi \in 1..255 : r.lo = lo /\ r.hi = hi /\ lo <= hi
    <2>1. r.lo \in 0..256 /\ r.hi \in 1..255 /\ r.lo <= r.hi
      BY <1>0 DEF CanLock
    <2> QED
      BY <2>1
  <1>2. /\ a.high = TopOf(r, 0)
        /\ a.low = IF Finds(r, 0) THEN BottomOf(r, 0) ELSE 128
    BY SearchEnds
  <1>3. /\ b.high = TopOf(r, 1)
        /\ b.low = IF Finds(r, 1) THEN BottomOf(r, 1) ELSE 256
    BY SearchEnds
  <1> HIDE DEF a, b
  <1>4. /\ a.high = IF hi > 127 THEN 127 ELSE hi
        /\ a.low = IF lo <= 127 THEN lo ELSE 128
    <2>1. TopOf(r, 0) = IF hi > 127 THEN 127 ELSE hi
      BY <1>1 DEF TopOf
    <2>2. BottomOf(r, 0) = lo
      BY <1>1 DEF BottomOf
    <2>3. Finds(r, 0) <=> lo <= 127
      BY <1>1, <2>1 DEF Finds
    <2> QED
      BY <1>2, <2>1, <2>2, <2>3
  <1>5. /\ b.high = IF hi > 128 THEN hi ELSE 128
        /\ b.low = IF hi <= 128 THEN 256 ELSE IF lo < 128 THEN 128 ELSE lo
    <2>1. TopOf(r, 1) = IF hi > 128 THEN hi ELSE 128
      BY <1>1 DEF TopOf
    <2>2. BottomOf(r, 1) = IF lo < 128 THEN 128 ELSE lo
      BY <1>1 DEF BottomOf
    <2>3. Finds(r, 1) <=> hi > 128
      BY <1>1, <2>1 DEF Finds
    <2> QED
      BY <1>1, <1>3, <2>1, <2>2, <2>3
  <1> DEFINE s == BothHalves(a, b)
  <1>6. /\ s.high = IF a.high = b.low - 1 THEN b.high
                    ELSE IF b.high - b.low > a.high - a.low THEN b.high ELSE a.high
        /\ s.low = IF a.high = b.low - 1 THEN a.low
                   ELSE IF b.high - b.low > a.high - a.low THEN b.low ELSE a.low
    BY DEF BothHalves
  <1> HIDE DEF s
  <1>7. s.low = lo /\ s.high = IF hi = 128 THEN 127 ELSE hi
    <2>1. CASE hi < 128
      <3>1. a.high = hi /\ a.low = lo /\ b.high = 128 /\ b.low = 256
        BY <1>1, <1>4, <1>5, <2>1
      <3> QED
        BY <1>1, <1>6, <2>1, <3>1
    <2>2. CASE hi = 128
      <3>1. a.high = 127 /\ a.low = lo /\ b.high = 128 /\ b.low = 256
        BY <1>1, <1>4, <1>5, <2>2
      <3> QED
        BY <1>1, <1>6, <2>2, <3>1
    <2>3. CASE hi > 128 /\ lo <= 128
      <3>1. a.high = 127 /\ a.low = lo /\ b.high = hi /\ b.low = 128
        BY <1>1, <1>4, <1>5, <2>3
      <3> QED
        BY <1>1, <1>6, <2>3, <3>1
    <2>4. CASE lo > 128
      <3>1. a.high = 127 /\ a.low = 128 /\ b.high = hi /\ b.low = lo
        BY <1>1, <1>4, <1>5, <2>4
      <3> QED
        BY <1>1, <1>6, <2>4, <3>1
    <2> QED
      BY <1>1, <2>1, <2>2, <2>3, <2>4
  <1> QED
    BY <1>1, <1>7 DEF s, a, b

\* The search of an SX finds a code that locks if there is one besides the first, and in
\* the middle but for one interval.
LEMMA SXFinds ==
    ASSUME NEW r \in Intervals
    PROVE  /\ CodeOfSX(r) \in Int
           /\ Locks(r, CodeOfSX(r)) => CodeOfSX(r) \in Codes
           /\ Locks(r, CodeOfSX(r)) <=> CanLock(r) /\ r.hi > 0
           /\ Locks(r, CodeOfSX(r)) /\ r.hi # 128 => Abs(2 * CodeOfSX(r) - r.lo - r.hi) <= 1
           /\ Locks(r, CodeOfSX(r)) /\ r.hi > 1 => CodeOfSX(r) > 0
  <1> DEFINE s == BothHalves(SearchHalf(r, 0), SearchHalf(r, 1))
             c == CodeOfSX(r)
  <1>1. r.lo \in 0..256 /\ r.hi \in -1..255 /\ r.lo <= r.hi + 1
    BY DEF Intervals
  <1>2. /\ Comparators(r, 0) = 3 <=> r.hi = -1
        /\ Comparators(r, 255) = 0 <=> r.lo = 256
    <2>1. 0 \in Codes /\ 255 \in Codes
      BY DEF Codes
    <2> QED
      BY <1>1, <2>1, Compared
  <1>3. c = IF r.hi = -1 THEN 0 ELSE IF r.lo = 256 THEN 255 ELSE MiddleOf(r, s)
    BY <1>2 DEF CodeOfSX
  <1>4. /\ s.low \in Int /\ s.high \in Int
        /\ r.hi = 0 /\ r.lo = 0 => s.low = 128 /\ s.high = 0
    <2> DEFINE a == SearchHalf(r, 0)
               b == SearchHalf(r, 1)
    <2>1. /\ a.high = TopOf(r, 0)
          /\ a.low = IF Finds(r, 0) THEN BottomOf(r, 0) ELSE 128
          /\ b.high = TopOf(r, 1)
          /\ b.low = IF Finds(r, 1) THEN BottomOf(r, 1) ELSE 256
      BY SearchEnds
    <2> HIDE DEF a, b
    <2>2. /\ a.high \in Int /\ a.low \in Int /\ b.high \in Int /\ b.low \in Int
          /\ r.hi = 0 /\ r.lo = 0 => a.high = 0 /\ a.low = 128 /\ b.high = 128 /\ b.low = 256
      BY <1>1, <2>1 DEF TopOf, BottomOf, Finds
    <2>3. BothHalves(a, b) = s
      BY DEF a, b
    <2>4. /\ BothHalves(a, b).low \in Int /\ BothHalves(a, b).high \in Int
          /\ r.hi = 0 /\ r.lo = 0 => BothHalves(a, b).low = 128 /\ BothHalves(a, b).high = 0
      BY <2>2 DEF BothHalves
    <2> QED
      BY <2>3, <2>4
  <1>5. CanLock(r) /\ r.hi > 0 => s.low = r.lo /\ s.high = IF r.hi = 128 THEN 127 ELSE r.hi
    BY HalvesJoined
  <1> HIDE DEF s
  <1>12. PICK d \in Int : d = s.high - s.low
    BY <1>4
  <1>6. MiddleOf(r, s) = IF d # 1 THEN s.low + Half(d)
                         ELSE IF Locks(r, s.low) THEN s.low ELSE s.high
    BY <1>12 DEF MiddleOf
  <1>7. /\ Half(d) \in Int
        /\ d >= 0 => 2 * Half(d) <= d /\ d <= 2 * Half(d) + 1
        /\ d = -1 => Half(d) = 0
    BY Halved
  <1>8. c \in Int
    BY <1>3, <1>4, <1>6, <1>7
  <1> HIDE DEF c
  <1>9. CASE ~CanLock(r)
    <2>1. ~Locks(r, c)
      BY <1>8, <1>9, EmptyNeverLocks
    <2> QED
      BY <1>8, <1>9, <2>1 DEF c
  <1>10. CASE CanLock(r) /\ r.hi = 0
    <2>1. r.lo = 0
      BY <1>1, <1>10 DEF CanLock
    <2>2. d = -128 /\ Half(d) = -64
      BY <1>4, <1>10, <1>12, <2>1 DEF Half
    <2>3. c = 64
      BY <1>3, <1>4, <1>6, <1>10, <2>1, <2>2
    <2>4. ~Locks(r, 64)
      BY <1>10, <2>1 DEF Locks, Comparators
    <2> QED
      BY <1>8, <1>10, <2>3, <2>4 DEF c
  <1>11. CASE CanLock(r) /\ r.hi > 0
    <2>1. s.low = r.lo /\ s.high = (IF r.hi = 128 THEN 127 ELSE r.hi) /\ r.lo <= r.hi
      BY <1>5, <1>11 DEF CanLock
    <2>3. c = MiddleOf(r, s)
      BY <1>1, <1>3, <1>11, <2>1 DEF CanLock
    <2>4. Locks(r, s.low)
      <3>1. r.lo \in Codes
        BY <1>1, <2>1 DEF Codes
      <3> QED
        BY <1>1, <2>1, <3>1, Compared
    <2>5. /\ r.lo <= c /\ c <= r.hi
          /\ r.hi # 128 => 2 * c - r.lo - r.hi \in {-1, 0, 1}
          /\ r.hi > 1 => c > 0
      <3>1. c = IF d # 1 THEN r.lo + Half(d) ELSE r.lo
        BY <1>6, <2>1, <2>3, <2>4
      <3> HIDE DEF c
      <3>2. CASE r.hi = 128
        BY <1>1, <1>7, <1>12, <2>1, <3>1, <3>2
      <3>3. CASE r.hi # 128
        <4>1. PICK lo \in 0..256, hi \in 1..255 : r.lo = lo /\ r.hi = hi /\ lo <= hi
          <5>1. r.lo \in 0..256 /\ r.hi \in 1..255 /\ r.lo <= r.hi
            BY <1>1, <1>11, <2>1
          <5> QED
            BY <5>1
        <4>2. d = hi - lo /\ d >= 0
          BY <1>12, <2>1, <3>3, <4>1
        <4>3. /\ lo <= c /\ c <= hi
              /\ 2 * c - lo - hi \in {-1, 0, 1}
              /\ hi > 1 => c > 0
          BY <1>7, <3>1, <4>1, <4>2
        <4> QED
          BY <4>1, <4>3
      <3> QED
        BY <3>2, <3>3
    <2>6. c \in Codes
      BY <1>1, <1>8, <2>5 DEF Codes
    <2>7. Locks(r, c)
      BY <2>5, <2>6, Compared
    <2>8. r.hi # 128 => Abs(2 * c - r.lo - r.hi) <= 1
      BY <2>5 DEF Abs
    <2> QED
      BY <1>8, <1>11, <2>5, <2>6, <2>7, <2>8 DEF c
  <1> QED
    BY <1>1, <1>9, <1>10, <1>11 DEF CanLock

-----------------------------------------------------------------------------
\* The search of the CGEN.

\* Steps below m are left, m - 1 in all: a code that locks is no further away.  The codes
\* the search goes through keep away from those below 7, and from the half it has left.
Near(r, m, code) ==
    /\ code \in Int /\ m - 1 <= code /\ code <= 255 - m
    /\ code < r.lo => r.lo <= code + m - 1
    /\ code > r.hi => r.hi >= code - m + 1
    /\ m >= 8 => code = m - 1 \/ code >= 2 * m - 1
    /\ m <= 8 => code = 7 \/ code >= 7 + m
    /\ code = 127 \/ code + m - 1 < 127 \/ (code - m + 1 > 127 /\ r.lo > 127)

LEMMA MoveNearer ==
    ASSUME NEW r \in Intervals, CanLock(r), r.hi > 6,
           NEW b \in {1, 2, 4, 8, 16, 32, 64}, NEW code, Near(r, 2 * b, code)
    PROVE  Near(r, b, Move(r, code, b))
  <1>0. r.lo \in 0..256 /\ r.hi \in -1..255
    BY DEF Intervals
  <1>1. PICK lo \in 0..256, hi \in 7..255 : r.lo = lo /\ r.hi = hi /\ lo <= hi
    <2>1. r.lo \in 0..256 /\ r.hi \in 7..255 /\ r.lo <= r.hi
      BY <1>0 DEF CanLock
    <2> QED
      BY <2>1
  <1>2. /\ code \in Int /\ 2 * b - 1 <= code /\ code <= 255 - 2 * b
        /\ code < lo => lo <= code + 2 * b - 1
        /\ code > hi => hi >= code - 2 * b + 1
        /\ 2 * b >= 8 => code = 2 * b - 1 \/ code >= 4 * b - 1
        /\ 2 * b <= 8 => code = 7 \/ code >= 7 + 2 * b
        /\ code = 127 \/ code + 2 * b - 1 < 127 \/ (code - 2 * b + 1 > 127 /\ lo > 127)
    BY <1>1 DEF Near
  <1>3. code \in Codes
    BY <1>2 DEF Codes
  <1>4. Comparators(r, code) = IF code < lo THEN 0 ELSE IF code > hi THEN 3 ELSE 2
    BY <1>1, <1>3, Compared
  <1>5. Move(r, code, b) = IF code < lo THEN code + b ELSE IF code > hi THEN code - b ELSE code
    BY <1>1, <1>2, <1>4 DEF Move
  <1>6. CASE code < lo
    <2>1. Move(r, code, b) = code + b
      BY <1>5, <1>6
    <2> QED
      BY <1>1, <1>2, <1>6, <2>1 DEF Near
  <1>7. CASE code > hi
    <2>1. Move(r, code, b) = code - b
      BY <1>1, <1>2, <1>5, <1>7
    <2> QED
      BY <1>1, <1>2, <1>7, <2>1 DEF Near
  <1>8. CASE ~(code < lo) /\ ~(code > hi)
    <2>1. Move(r, code, b) = code
      BY <1>5, <1>8
    <2> QED
      BY <1>1, <1>2, <1>8, <2>1 DEF Near
  <1> QED
    BY <1>6, <1>7, <1>8

LEMMA LockFound ==
    ASSUME NEW r \in Intervals, CanLock(r), r.hi > 6, r.lo < 255
    PROVE  Near(r, 1, FindLock(r))
  <1> DEFINE c6 == Move(r, 127, 64)
             c5 == Move(r, c6, 32)
             c4 == Move(r, c5, 16)
             c3 == Move(r, c4, 8)
             c2 == Move(r, c3, 4)
             c1 == Move(r, c2, 2)
             c0 == Move(r, c1, 1)
  <1>1. FindLock(r) = c0
    BY DEF FindLock
  <1>2. Near(r, 128, 127)
    <2>1. r.lo \in 0..256 /\ r.hi \in -1..255
      BY DEF Intervals
    <2> QED
      BY <2>1 DEF Near
  <1> HIDE DEF c6, c5, c4, c3, c2, c1, c0
  <1>3. Near(r, 64, c6)
    <2>1. 128 = 2 * 64
      OBVIOUS
    <2> QED
      BY <1>2, <2>1, MoveNearer DEF c6
  <1>4. Near(r, 32, c5)
    <2>1. 64 = 2 * 32
      OBVIOUS
    <2> QED
      BY <1>3, <2>1, MoveNearer DEF c5
  <1>5. Near(r, 16, c4)
    <2>1. 32 = 2 * 16
      OBVIOUS
    <2> QED
      BY <1>4, <2>1, MoveNearer DEF c4
  <1>6. Near(r, 8, c3)
    <2>1. 16 = 2 * 8
      OBVIOUS
    <2> QED
      BY <1>5, <2>1, MoveNearer DEF c3
  <1>7. Near(r, 4, c2)
    <2>1. 8 = 2 * 4
      OBVIOUS
    <2> QED
      BY <1>6, <2>1, MoveNearer DEF c2
  <1>8. Near(r, 2, c1)
    <2>1. 4 = 2 * 2
      OBVIOUS
    <2> QED
      BY <1>7, <2>1, MoveNearer DEF c1
  <1>9. Near(r, 1, c0)
    <2>1. 2 = 2 * 1
      OBVIOUS
    <2> QED
      BY <1>8, <2>1, MoveNearer DEF c0
  <1> QED
    BY <1>1, <1>9

LEMMA DownIs ==
    ASSUME NEW r \in Intervals, NEW n \in Codes, NEW step \in 1..4, step <= n, n <= r.hi
    PROVE  Down(r, n, step) = IF r.lo <= n - step THEN n - step ELSE n
  <1>1. n - step \in Codes /\ r.lo \in Int /\ r.hi \in Int /\ n \in Int
    BY DEF Codes, Intervals
  <1>2. Comparators(r, n - step) # 0 <=> r.lo <= n - step
    <2>1. PICK k \in Codes : k = n - step
      BY <1>1
    <2>2. Comparators(r, k) = IF k < r.lo THEN 0 ELSE IF k > r.hi THEN 3 ELSE 2
      BY Compared
    <2>3. k \in Int
      BY DEF Codes
    <2> QED
      BY <1>1, <2>1, <2>2, <2>3
  <1> QED
    BY <1>2 DEF Down

\* A value beyond 255 wraps to a code below 6, which does not lock.
LEMMA UpIs ==
    ASSUME NEW r \in Intervals, NEW n \in Codes, NEW step \in 1..4, r.lo <= n,
           n > 248 => r.lo > 127
    PROVE  Up(r, n, step) = IF n + step <= r.hi THEN n + step ELSE n
  <1>1. r.lo \in 0..256 /\ r.hi \in -1..255 /\ n \in 0..255
    BY DEF Codes, Intervals
  <1>2. Locks(r, n + step) <=> n + step <= r.hi
    <2>1. CASE n + step <= 255
      <3>1. PICK k \in Codes : k = n + step
        BY <1>1, <2>1 DEF Codes
      <3>2. Locks(r, k) <=> r.lo <= k /\ k <= r.hi
        BY Compared
      <3> QED
        BY <1>1, <3>1, <3>2
    <2>2. CASE n + step > 255
      <3>1. PICK k \in 0..5 : k = n + step - 256
        BY <1>1, <2>2
      <3>2. (n + step) % 256 = k
        BY <1>1, <3>1
      <3>3. Comparators(r, n + step) = 0
        BY <1>1, <2>2, <3>2 DEF Comparators
      <3> QED
        BY <1>1, <2>2, <3>3 DEF Locks
    <2> QED
      BY <1>1, <2>1, <2>2
  <1> QED
    BY <1>2 DEF Up

LEMMA LowIs ==
    ASSUME NEW r \in Intervals, NEW n \in 7..254, n <= r.hi, r.lo <= n
    PROVE  LowAround(r, n) = IF r.lo <= n - 7 THEN n - 7 ELSE r.lo
  <1>1. r.lo \in Int /\ r.hi \in Int
    BY DEF Intervals
  <1> DEFINE n4 == Down(r, n, 4)
             n2 == Down(r, n4, 2)
             n1 == Down(r, n2, 1)
  <1>2. LowAround(r, n) = n1
    BY DEF LowAround
  <1>3. n4 = IF r.lo <= n - 4 THEN n - 4 ELSE n
    <2>1. n \in Codes /\ 4 \in 1..4 /\ 4 <= n
      BY DEF Codes
    <2> QED
      BY <2>1, DownIs
  <1> HIDE DEF n4
  <1>4. n4 \in Codes /\ 3 <= n4 /\ n4 <= r.hi
    BY <1>1, <1>3 DEF Codes
  <1>5. n2 = IF r.lo <= n4 - 2 THEN n4 - 2 ELSE n4
    <2>1. 2 \in 1..4 /\ 2 <= n4
      BY <1>4 DEF Codes
    <2> QED
      BY <1>4, <2>1, DownIs
  <1> HIDE DEF n2
  <1>6. n2 \in Codes /\ 1 <= n2 /\ n2 <= r.hi
    BY <1>1, <1>4, <1>5 DEF Codes
  <1>7. n1 = IF r.lo <= n2 - 1 THEN n2 - 1 ELSE n2
    <2>1. 1 \in 1..4
      OBVIOUS
    <2> QED
      BY <1>6, <2>1, DownIs
  <1> HIDE DEF n1
  <1>8. n1 = IF r.lo <= n - 7 THEN n - 7 ELSE r.lo
    BY <1>1, <1>3, <1>5, <1>7
  <1> QED
    BY <1>2, <1>8

LEMMA HighIs ==
    ASSUME NEW r \in Intervals, NEW n \in 7..254, n <= r.hi, r.lo <= n,
           n > 127 => r.lo > 127
    PROVE  HighAround(r, n) = IF n + 7 <= r.hi THEN n + 7 ELSE r.hi
  <1>1. r.lo \in 0..256 /\ r.hi \in -1..255
    BY DEF Intervals
  <1> DEFINE n4 == Up(r, n, 4)
             n2 == Up(r, n4, 2)
             n1 == Up(r, n2, 1)
  <1>2. HighAround(r, n) = n1
    BY DEF HighAround
  <1>3. n4 = IF n + 4 <= r.hi THEN n + 4 ELSE n
    <2>1. n \in Codes /\ 4 \in 1..4 /\ (n > 248 => r.lo > 127)
      BY DEF Codes
    <2> QED
      BY <2>1, UpIs
  <1> HIDE DEF n4
  <1>4. n4 \in Codes /\ r.lo <= n4 /\ n4 <= r.hi /\ (n4 > 248 => r.lo > 127)
    BY <1>1, <1>3 DEF Codes
  <1>5. n2 = IF n4 + 2 <= r.hi THEN n4 + 2 ELSE n4
    <2>1. 2 \in 1..4
      OBVIOUS
    <2> QED
      BY <1>4, <2>1, UpIs
  <1> HIDE DEF n2
  <1>6. n2 \in Codes /\ r.lo <= n2 /\ n2 <= r.hi /\ (n2 > 248 => r.lo > 127)
    <2>1. r.lo <= n2 /\ n2 <= r.hi /\ n2 \in Int /\ n4 <= n2 /\ n4 \in Nat
      BY <1>1, <1>4, <1>5 DEF Codes
    <2>2. n2 > 248 => n > 127
      BY <1>3, <1>5, <2>1
    <2> QED
      BY <1>1, <2>1, <2>2 DEF Codes
  <1>7. n1 = IF n2 + 1 <= r.hi THEN n2 + 1 ELSE n2
    <2>1. 1 \in 1..4
      OBVIOUS
    <2> QED
      BY <1>6, <2>1, UpIs
  <1> HIDE DEF n1
  <1>8. n1 = IF n + 7 <= r.hi THEN n + 7 ELSE r.hi
    <2>1. PICK hi \in -1..255 : r.hi = hi
      BY <1>1
    <2>2. CASE n + 7 <= hi
      BY <1>3, <1>5, <1>7, <2>1, <2>2
    <2>3. CASE ~(n + 7 <= hi)
      BY <1>1, <1>3, <1>5, <1>7, <2>1, <2>3
    <2> QED
      BY <2>1, <2>2, <2>3
  <1> QED
    BY <1>2, <1>8

LEMMA MoveInt ==
    ASSUME NEW r, NEW code \in Int, NEW step \in Int
    PROVE  Move(r, code, step) \in Int
  BY DEF Move

LEMMA AroundInt ==
    ASSUME NEW r, NEW code \in Int
    PROVE  LowAround(r, code) \in Int /\ HighAround(r, code) \in Int
  <1>1. \A n \in Int, step \in Int : Down(r, n, step) \in Int /\ Up(r, n, step) \in Int
    BY DEF Down, Up
  <1>2. Down(r, Down(r, Down(r, code, 4), 2), 1) \in Int
    <2>1. Down(r, code, 4) \in Int
      BY <1>1
    <2>2. Down(r, Down(r, code, 4), 2) \in Int
      BY <1>1, <2>1
    <2> QED
      BY <1>1, <2>2
  <1>3. Up(r, Up(r, Up(r, code, 4), 2), 1) \in Int
    <2>1. Up(r, code, 4) \in Int
      BY <1>1
    <2>2. Up(r, Up(r, code, 4), 2) \in Int
      BY <1>1, <2>1
    <2> QED
      BY <1>1, <2>2
  <1> QED
    BY <1>2, <1>3 DEF LowAround, HighAround

\* The search of the CGEN finds a code that locks if there is one, and three codes inside.
LEMMA CGENFinds ==
    ASSUME NEW r \in Intervals, r.hi > 6, r.lo < 255
    PROVE  LET c == CodeOfCGEN(r)
           IN  /\ Locks(r, c) <=> CanLock(r)
               /\ Locks(r, c) =>
                     Smaller(c - r.lo, r.hi - c) >= Smaller(3, (r.hi - r.lo) \div 2)
  <1> DEFINE c == CodeOfCGEN(r)
             n == FindLock(r)
             l == LowAround(r, n)
             h == HighAround(r, n)
  <1>0. r.lo \in 0..256 /\ r.hi \in -1..255
    BY DEF Intervals
  <1>1. c = Half(h + l) % 256
    BY DEF CodeOfCGEN, MiddleAround
  <1>2. CASE ~CanLock(r)
    <2>1. n \in Int
      BY MoveInt DEF FindLock
    <2>2. l \in Int /\ h \in Int
      <3> HIDE DEF n
      <3> QED
        BY <2>1, AroundInt
    <2>3. c \in Int
      <3> HIDE DEF l, h
      <3>1. h + l \in Int
        BY <2>2
      <3>2. Half(h + l) \in Int
        BY <3>1, Halved
      <3> QED
        BY <1>1, <3>2
    <2>4. ~Locks(r, c)
      BY <1>2, <2>3, EmptyNeverLocks
    <2> QED
      BY <1>2, <2>4
  <1>3. CASE CanLock(r)
    <2>1. Near(r, 1, n)
      BY <1>3, LockFound
    <2> HIDE DEF n
    <2>2. /\ n \in 7..254 /\ r.lo <= n /\ n <= r.hi
          /\ n > 127 => r.lo > 127
      BY <1>0, <2>1 DEF Near
    <2>3. l = IF r.lo <= n - 7 THEN n - 7 ELSE r.lo
      BY <2>2, LowIs
    <2>4. h = IF n + 7 <= r.hi THEN n + 7 ELSE r.hi
      BY <2>2, HighIs
    <2> HIDE DEF l, h
    <2>5. l \in 0..255 /\ h \in 0..255 /\ l <= h
      BY <1>0, <2>2, <2>3, <2>4
    <2>6. PICK k \in 0..255 : k = Half(h + l) /\ 2 * k <= h + l /\ h + l <= 2 * k + 1
      <3>1. PICK m \in Int : m = h + l /\ m >= 0
        BY <2>5
      <3>2. Half(m) \in Int /\ 2 * Half(m) <= m /\ m <= 2 * Half(m) + 1
        BY <3>1, Halved
      <3>3. Half(m) \in 0..255
        BY <2>5, <3>1, <3>2
      <3> QED
        BY <3>1, <3>2, <3>3
    <2>7. c = k
      BY <1>1, <2>6
    <2> HIDE DEF c
    <2>8. /\ r.lo <= k /\ k <= r.hi
          /\ Smaller(k - r.lo, r.hi - k) >= Smaller(3, (r.hi - r.lo) \div 2)
      <3>1. PICK lo \in 0..256, hi \in -1..255 : r.lo = lo /\ r.hi = hi
        BY <1>0
      <3>2. lo <= k /\ k <= hi
        BY <2>2, <2>3, <2>4, <2>6, <3>1
      <3>3. \/ k - lo >= 3 /\ hi - k >= 3
            \/ k - lo >= (hi - lo) \div 2 /\ hi - k >= (hi - lo) \div 2
        BY <2>2, <2>3, <2>4, <2>6, <3>1
      <3>4. Smaller(k - lo, hi - k) >= Smaller(3, (hi - lo) \div 2)
        BY <3>3 DEF Smaller
      <3> QED
        BY <3>1, <3>2, <3>4
    <2>9. Locks(r, k)
      <3>1. k \in Codes
        BY DEF Codes
      <3> QED
        BY <2>8, <3>1, Compared
    <2> QED
      BY <1>3, <2>7, <2>8, <2>9 DEF c
  <1> QED
    BY <1>2, <1>3

-----------------------------------------------------------------------------
\* The calls.

\* No VCO locks with the first code or the first two only: one that does is missed, or
\* scores no better than one that does not lock.
AboveFirstCodes == \A r \in Ranges : CanLock(r) => r.hi > 1

\* The score of a VCO that has been tuned, and locks.
Scored(v) == /\ tuneScore[v] \in -127..127
             /\ Locks(RangeOf(v), tuneScore[v] + 128)

Calls == [op : {"set", "tune", "returned"}, freq : Freqs,
          ranges : [Vcos -> Ranges], needs : [Vcos -> Needs]]

RequestOK == \/ request = [op |-> "none"]
             \/ \E r \in AllRanges :
                   \/ request = [op |-> "tunedSX", range |-> r] /\ csw = CodeOfSX(r)
                   \/ request = [op |-> "tunedCGEN", range |-> r] /\ csw = CodeOfCGEN(r)
             \/ request \in Calls

\* A search returns what the comparators say of the code that it leaves.
SearchOK == request.op \in {"tunedSX", "tunedCGEN"} => status = Status(request.range, csw)

\* What an attempt has found of the VCOs that it has tuned.
AttemptOK ==
    /\ attempt \in [i : 0..5, vco : 0..3]
    /\ request.op \in {"none", "set"} =>
          attempt = Start /\ tuneScore = NoScore /\ canDeliver = FALSE
    /\ DOMAIN tuneScore = Vcos
    /\ request.op = "tune" => \A v \in Vcos : tuneScore[v] = -128 \/ Scored(v)
    /\ canDeliver <=> \E v \in Vcos : tuneScore[v] # -128
    /\ request.op = "tune" /\ attempt.i < 5 /\ ~canDeliver =>
          \A v \in Vcos : v < attempt.vco => ~CanLock(RangeOf(v))

TuningInv == RequestOK /\ AttemptOK /\ FrequencyLocks

LEMMA SilentIs == Silent \in Intervals /\ ~CanLock(Silent)
  BY DEF Silent, Intervals, CanLock

LEMMA CodeFound ==
    ASSUME NEW r \in AllRanges \cup Ranges \cup {Silent}
    PROVE  r \in Intervals /\ SXCode[r] = CodeOfSX(r)
  BY SilentIs, TuningAssumption DEF SXCode

LEMMA VcoRange ==
    ASSUME request \in Calls, NEW v \in Vcos
    PROVE  /\ RangeOf(v) \in Ranges \cup {Silent}
           /\ CanLock(RangeOf(v)) => RangeOf(v) \in Ranges
  <1>1. request.ranges[v] \in Ranges
    BY DEF Calls
  <1> QED
    BY <1>1, SilentIs DEF RangeOf

\* A VCO that can lock scores, and no better than it can.
LEMMA VcoTuned ==
    ASSUME AboveFirstCodes, request \in Calls, NEW v \in Vcos, NEW code,
           code = SXCode[RangeOf(v)]
    PROVE  /\ Locks(RangeOf(v), code) => code - 128 \in -127..127 /\ (code - 128) + 128 = code
           /\ Locks(RangeOf(v), code) <=> CanLock(RangeOf(v))
  <1>1. PICK r \in Ranges \cup {Silent} : r = RangeOf(v) /\ (CanLock(r) => r \in Ranges)
    BY VcoRange
  <1>2. r \in Intervals /\ code = CodeOfSX(r)
    BY <1>1, CodeFound
  <1>3. /\ Locks(r, code) => code \in Codes
        /\ Locks(r, code) <=> CanLock(r) /\ r.hi > 0
        /\ Locks(r, code) /\ r.hi > 1 => code > 0
    BY <1>2, SXFinds
  <1>4. r.hi \in Int
    BY <1>2 DEF Intervals
  <1>5. CanLock(r) => r.hi > 1
    BY <1>1 DEF AboveFirstCodes
  <1>6. Locks(r, code) <=> CanLock(r)
    BY <1>3, <1>4, <1>5
  <1>7. Locks(r, code) => code \in Codes /\ code > 0
    BY <1>3, <1>5
  <1>8. Locks(r, code) => code - 128 \in -127..127 /\ (code - 128) + 128 = code
    BY <1>7 DEF Codes
  <1> QED
    BY <1>1, <1>6, <1>8

\* The steps of a call leave its arguments alone.
LEMMA CallGoesOn ==
    ASSUME request \in Calls, NEW op \in {"set", "tune", "returned"},
           request' = [request EXCEPT !.op = op]
    PROVE  /\ request' \in Calls /\ request'.op = op
           /\ request'.ranges = request.ranges /\ request'.needs = request.needs
  BY DEF Calls

LEMMA SameVcos ==
    ASSUME request'.ranges = request.ranges, request'.needs = request.needs, bias' = bias,
           NEW v
    PROVE  RangeOf(v)' = RangeOf(v)
  BY DEF RangeOf

LEMMA RequestIs ==
    ASSUME RequestOK, request.op \in {"set", "tune", "returned"}
    PROVE  request \in Calls
  BY DEF RequestOK

LEMMA SearchIs ==
    ASSUME RequestOK, request.op \notin {"none", "set", "tune", "returned"}
    PROVE  \E r \in AllRanges :
              \/ request = [op |-> "tunedSX", range |-> r] /\ csw = CodeOfSX(r)
              \/ request = [op |-> "tunedCGEN", range |-> r] /\ csw = CodeOfCGEN(r)
  BY DEF RequestOK, Calls

\* A score of a VCO that locks is better than that of one that does not.
LEMMA BestLocks ==
    ASSUME DOMAIN tuneScore = Vcos,
           \A v \in Vcos : tuneScore[v] = -128 \/ Scored(v),
           \E v \in Vcos : tuneScore[v] # -128
    PROVE  BestScore \in Vcos /\ Scored(BestScore)
  <1>1. \A v \in Vcos : tuneScore[v] \in -128..127
    BY DEF Scored
  <1> DEFINE a == tuneScore[0]
             b == tuneScore[1]
             c == tuneScore[2]
  <1>2. a \in -128..127 /\ b \in -128..127 /\ c \in -128..127
    BY <1>1 DEF Vcos
  <1>3. a # -128 \/ b # -128 \/ c # -128
    BY DEF Vcos
  <1>4. BestScore = IF Abs(a) < Abs(b) THEN (IF Abs(a) < Abs(c) THEN 0 ELSE 2)
                    ELSE IF Abs(b) < Abs(c) THEN 1 ELSE 2
    BY DEF BestScore
  <1> HIDE DEF a, b, c
  <1>5. \/ BestScore = 0 /\ a # -128
        \/ BestScore = 1 /\ b # -128
        \/ BestScore = 2 /\ c # -128
    BY <1>2, <1>3, <1>4 DEF Abs
  <1>6. BestScore \in Vcos /\ tuneScore[BestScore] # -128
    BY <1>5 DEF Vcos, a, b, c
  <1> QED
    BY <1>6

\* What a request is after a step, whatever the VCOs.
LEMMA RequestKept ==
    ASSUME RequestOK, SearchOK, [TuningNext]_tuningVars
    PROVE  RequestOK' /\ SearchOK'
  <1>1. ASSUME NEW r \in AllRanges, TuneVCO(r)
        PROVE  RequestOK' /\ SearchOK'
    <2>1. /\ request' = [op |-> "tunedSX", range |-> r]
          /\ csw' = CodeOfSX(r) /\ status' = Status(r, csw')
      BY <1>1, CodeFound DEF TuneVCO
    <2> QED
      BY <2>1 DEF RequestOK, SearchOK
  <1>2. ASSUME NEW r \in AllRanges, TuneCGENVCO(r)
        PROVE  RequestOK' /\ SearchOK'
    <2>1. /\ request' = [op |-> "tunedCGEN", range |-> r]
          /\ csw' = CodeOfCGEN(r) /\ status' = Status(r, csw')
      BY <1>2 DEF TuneCGENVCO
    <2> QED
      BY <2>1 DEF RequestOK, SearchOK
  <1>3. ASSUME NEW f \in Freqs, NEW ranges \in [Vcos -> Ranges], NEW needs \in [Vcos -> Needs],
               SetFrequencySX(f, ranges, needs)
        PROVE  RequestOK' /\ SearchOK'
    <2>1. request' = [op |-> "set", freq |-> f, ranges |-> ranges, needs |-> needs]
      BY <1>3 DEF SetFrequencySX
    <2>2. request' \in Calls /\ request'.op = "set"
      BY <2>1 DEF Calls
    <2> QED
      BY <2>2 DEF RequestOK, SearchOK
  <1>4. ASSUME NEW op \in {"set", "tune", "returned"}, request.op \in {"set", "tune"},
               request' = [request EXCEPT !.op = op]
        PROVE  RequestOK' /\ SearchOK'
    <2>1. request' \in Calls /\ request'.op = op
      BY <1>4, RequestIs, CallGoesOn
    <2> QED
      BY <2>1 DEF RequestOK, SearchOK
  <1>5. CASE FastTune
    <2>1. \/ request' = [request EXCEPT !.op = "returned"]
          \/ request' = [request EXCEPT !.op = "tune"]
      BY <1>5 DEF FastTune, Return
    <2>2. request.op = "set"
      BY <1>5 DEF FastTune, InCache
    <2> QED
      BY <1>4, <2>1, <2>2
  <1>6. CASE NoFastTune
    BY <1>4, <1>6 DEF NoFastTune
  <1>7. CASE TuneNext \/ Retry
    <2>1. request.op = "tune" /\ request' = request
      BY <1>7 DEF TuneNext, Retry
    <2>2. request' \in Calls /\ request'.op = "tune"
      BY <2>1, RequestIs
    <2> QED
      BY <2>2 DEF RequestOK, SearchOK
  <1>8. CASE SelectVco
    BY <1>4, <1>8 DEF SelectVco, Return
  <1>9. CASE Done
    <2>1. request' = [op |-> "none"]
      BY <1>9 DEF Done
    <2> QED
      BY <2>1 DEF RequestOK, SearchOK
  <1>10. CASE UNCHANGED tuningVars
    BY <1>10 DEF tuningVars, registers, RequestOK, SearchOK, Calls
  <1> QED
    BY <1>1, <1>2, <1>3, <1>5, <1>6, <1>7, <1>8, <1>9, <1>10 DEF TuningNext

\* What an attempt has found, and what the call returns.
LEMMA AttemptKept ==
    ASSUME AboveFirstCodes, RequestOK, AttemptOK, FrequencyLocks, [TuningNext]_tuningVars
    PROVE  AttemptOK' /\ FrequencyLocks'
  <1>1. ASSUME request.op = "none", request'.op \in {"tunedSX", "tunedCGEN", "set"},
               UNCHANGED search
        PROVE  AttemptOK' /\ FrequencyLocks'
    BY <1>1 DEF AttemptOK, FrequencyLocks, search
  <1>2. ASSUME NEW r \in AllRanges, TuneVCO(r) \/ TuneCGENVCO(r)
        PROVE  AttemptOK' /\ FrequencyLocks'
    <2>1. /\ request.op = "none" /\ UNCHANGED search
          /\ \/ request' = [op |-> "tunedSX", range |-> r]
             \/ request' = [op |-> "tunedCGEN", range |-> r]
      BY <1>2 DEF TuneVCO, TuneCGENVCO, NoCall
    <2> QED
      BY <1>1, <2>1
  <1>3. ASSUME NEW f \in Freqs, NEW ranges \in [Vcos -> Ranges], NEW needs \in [Vcos -> Needs],
               SetFrequencySX(f, ranges, needs)
        PROVE  AttemptOK' /\ FrequencyLocks'
    <2>1. request.op = "none" /\ request'.op = "set" /\ UNCHANGED search
      BY <1>3 DEF SetFrequencySX, NoCall
    <2> QED
      BY <1>1, <2>1
  <1>4. CASE FastTune
    <2> DEFINE known == tuning[request.freq]
    <2>1. /\ request.op = "set" /\ UNCHANGED <<bias, search>>
          /\ sel_vco' = known.sel_vco /\ csw' = known.csw
          /\ \/ /\ Locks(RangeOf(known.sel_vco), known.csw)
                /\ request' = [request EXCEPT !.op = "returned"] /\ status' = 0
             \/ request' = [request EXCEPT !.op = "tune"]
      BY <1>4 DEF FastTune, InCache, Return
    <2> HIDE DEF known
    <2>2. request \in Calls
      BY <2>1, RequestIs
    <2>3. /\ request'.op \in {"returned", "tune"}
          /\ request'.ranges = request.ranges /\ request'.needs = request.needs
      BY <2>1, <2>2, CallGoesOn
    <2>4. attempt = Start /\ tuneScore = NoScore /\ canDeliver = FALSE
      BY <2>1 DEF AttemptOK
    <2>5. AttemptOK'
      <3>1. tuneScore' = NoScore /\ canDeliver' = FALSE /\ attempt' = Start
        BY <2>1, <2>4 DEF search
      <3> QED
        BY <2>3, <3>1 DEF AttemptOK, NoScore, Start, Vcos
    <2>6. FrequencyLocks'
      <3>1. CASE request'.op = "returned"
        <4>1. Locks(RangeOf(known.sel_vco), known.csw) /\ status' = 0
          BY <2>1, <2>2, <3>1, CallGoesOn
        <4>2. RangeOf(sel_vco)' = RangeOf(known.sel_vco)
          BY <2>1, <2>3 DEF RangeOf
        <4> QED
          BY <2>1, <4>1, <4>2 DEF FrequencyLocks
      <3>2. CASE request'.op # "returned"
        BY <3>2 DEF FrequencyLocks
      <3> QED
        BY <3>1, <3>2
    <2> QED
      BY <2>5, <2>6
  <1>5. CASE NoFastTune
    <2>1. /\ request.op = "set" /\ UNCHANGED search
          /\ request' = [request EXCEPT !.op = "tune"]
      BY <1>5 DEF NoFastTune
    <2>2. request'.op = "tune"
      BY <2>1, RequestIs, CallGoesOn
    <2>3. tuneScore' = NoScore /\ canDeliver' = FALSE /\ attempt' = Start
      BY <2>1 DEF AttemptOK, search
    <2> QED
      BY <2>2, <2>3 DEF AttemptOK, FrequencyLocks, NoScore, Start, Vcos
  <1>6. CASE TuneNext
    <2> DEFINE v == attempt.vco
               code == SXCode[RangeOf(v)]
               locks == Locks(RangeOf(v), code)
    <2>1. /\ request.op = "tune" /\ v \in Vcos
          /\ tuneScore' = IF locks THEN [tuneScore EXCEPT ![v] = code - 128] ELSE tuneScore
          /\ canDeliver' = (canDeliver \/ locks)
          /\ attempt' = [attempt EXCEPT !.vco = v + 1]
          /\ UNCHANGED <<request, bias>>
      BY <1>6 DEF TuneNext
    <2>2. request \in Calls
      BY <2>1, RequestIs
    <2>3. /\ locks => code - 128 \in -127..127 /\ (code - 128) + 128 = code
          /\ locks <=> CanLock(RangeOf(v))
      BY <2>1, <2>2, VcoTuned
    <2>4. ASSUME NEW w
          PROVE  RangeOf(w)' = RangeOf(w)
      BY <2>1 DEF RangeOf
    <2>5. attempt' \in [i : 0..5, vco : 0..3] /\ attempt'.i = attempt.i /\ attempt'.vco = v + 1
      BY <2>1 DEF AttemptOK, Vcos
    <2>6. DOMAIN tuneScore' = Vcos
      BY <2>1 DEF AttemptOK
    <2>7. ASSUME NEW w \in Vcos
          PROVE  /\ tuneScore'[w] = IF locks /\ w = v THEN code - 128 ELSE tuneScore[w]
                 /\ tuneScore'[w] = -128 \/ Scored(w)'
      <3>1. tuneScore'[w] = IF locks /\ w = v THEN code - 128 ELSE tuneScore[w]
        BY <2>1 DEF AttemptOK
      <3>2. CASE locks /\ w = v
        BY <2>3, <2>4, <3>1, <3>2 DEF Scored
      <3>3. CASE ~(locks /\ w = v)
        <4>1. tuneScore[w] = -128 \/ Scored(w)
          BY <2>1 DEF AttemptOK
        <4> QED
          BY <2>4, <3>1, <3>3, <4>1 DEF Scored
      <3> QED
        BY <3>1, <3>2, <3>3
    <2>8. canDeliver' <=> \E w \in Vcos : tuneScore'[w] # -128
      <3>1. CASE locks
        <4>1. tuneScore'[v] # -128
          BY <2>1, <2>3, <2>7, <3>1
        <4> QED
          BY <2>1, <3>1, <4>1
      <3>2. CASE ~locks
        BY <2>1, <2>7, <3>2 DEF AttemptOK
      <3> QED
        BY <3>1, <3>2
    <2>9. ASSUME attempt'.i < 5, ~canDeliver', NEW w \in Vcos, w < attempt'.vco
          PROVE  ~CanLock(RangeOf(w)')
      <3>1. CASE w = v
        BY <2>1, <2>3, <2>4, <2>9, <3>1
      <3>2. CASE w < v
        BY <2>1, <2>4, <2>5, <2>9, <3>2 DEF AttemptOK
      <3>3. w \in Int /\ v \in Int
        BY <2>1 DEF Vcos
      <3> QED
        BY <2>5, <2>9, <3>1, <3>2, <3>3
    <2>10. AttemptOK'
      <3> HIDE DEF v, code, locks
      <3> QED
        BY <2>1, <2>5, <2>6, <2>7, <2>8, <2>9 DEF AttemptOK
    <2> QED
      BY <2>1, <2>10 DEF FrequencyLocks
  <1>7. CASE Retry
    <2>1. /\ request.op = "tune" /\ UNCHANGED <<request, tuneScore, canDeliver>>
          /\ ~canDeliver /\ attempt.i < 5
          /\ attempt' = [i |-> attempt.i + 1, vco |-> IF attempt.i = 4 THEN 3 ELSE 0]
      BY <1>7 DEF Retry
    <2>2. \A v \in Vcos : tuneScore'[v] = -128
      BY <2>1 DEF AttemptOK
    <2>3. attempt' \in [i : 0..5, vco : 0..3] /\ (attempt'.i < 5 => attempt'.vco = 0)
      BY <2>1 DEF AttemptOK
    <2>4. \A v \in Vcos : ~(v < 0)
      BY DEF Vcos
    <2> QED
      BY <2>1, <2>2, <2>3, <2>4 DEF AttemptOK, FrequencyLocks
  <1>8. CASE SelectVco
    <2>1. /\ request.op = "tune" /\ attempt.vco \notin Vcos
          /\ canDeliver \/ attempt.i = 5 \/ bias = MaxBias
          /\ sel_vco' = BestScore /\ csw' = tuneScore[BestScore] + 128
          /\ request' = [request EXCEPT !.op = "returned"]
          /\ status' = (IF canDeliver THEN 0 ELSE -1)
          /\ UNCHANGED <<bias, search>>
      BY <1>8 DEF SelectVco, Return
    <2>2. request \in Calls
      BY <2>1, RequestIs
    <2>3. /\ request'.op = "returned"
          /\ request'.ranges = request.ranges /\ request'.needs = request.needs
      BY <2>1, <2>2, CallGoesOn
    <2>4. ASSUME NEW w
          PROVE  RangeOf(w)' = RangeOf(w)
      BY <2>1, <2>3, SameVcos
    <2>5. ASSUME status' = 0
          PROVE  Locks(RangeOf(sel_vco)', csw')
      <3>1. canDeliver
        BY <2>1, <2>5
      <3>2. Scored(BestScore)
        BY <2>1, <3>1, BestLocks DEF AttemptOK
      <3>3. RangeOf(sel_vco)' = RangeOf(BestScore)
        BY <2>1, <2>3 DEF RangeOf
      <3> QED
        BY <2>1, <3>2, <3>3 DEF Scored
    <2>6. ASSUME status' # 0, attempt'.i < 5, NEW v \in Vcos
          PROVE  ~CanLock(RangeOf(v)')
      <3>1. ~canDeliver /\ attempt.i < 5
        BY <2>1, <2>6 DEF search
      <3>2. attempt.vco = 3
        BY <2>1 DEF AttemptOK, Vcos
      <3>3. v < attempt.vco
        BY <3>2 DEF Vcos
      <3> QED
        BY <2>1, <2>4, <3>1, <3>3 DEF AttemptOK
    <2> QED
      BY <2>1, <2>3, <2>5, <2>6 DEF AttemptOK, FrequencyLocks, search
  <1>9. CASE Done
    <2>1. /\ request'.op = "none"
          /\ tuneScore' = NoScore /\ canDeliver' = FALSE /\ attempt' = Start
      BY <1>9 DEF Done
    <2> QED
      BY <2>1 DEF AttemptOK, FrequencyLocks, NoScore, Start, Vcos
  <1>10. CASE UNCHANGED tuningVars
    BY <1>10 DEF tuningVars, registers, search, AttemptOK, FrequencyLocks, Scored, RangeOf
  <1> QED
    BY <1>2, <1>3, <1>4, <1>5, <1>6, <1>7, <1>8, <1>9, <1>10 DEF TuningNext

LEMMA TuningInitHolds == TuningInit => RequestOK /\ SearchOK /\ AttemptOK /\ FrequencyLocks
  BY DEF TuningInit, RequestOK, SearchOK, AttemptOK, FrequencyLocks, NoScore, Start, Vcos

\* The invariant of the calls holds of every state, if no VCO locks with the first code or
\* the first two only: the attempts of SetFrequencySX keep in tuneScore what the
\* comparators show, and what they show of a VCO that locks is a score above -128.
THEOREM TuningInductive == ASSUME AboveFirstCodes PROVE TuningSpec => []TuningInv
  <1>1. TuningInit => TuningInv /\ SearchOK
    BY TuningInitHolds DEF TuningInv
  <1>2. TuningInv /\ SearchOK /\ [TuningNext]_tuningVars => (TuningInv /\ SearchOK)'
    BY RequestKept, AttemptKept DEF TuningInv
  <1> QED
    BY <1>1, <1>2, PTL DEF TuningSpec

\* SetFrequencySX returns 0 only with a VCO selected and a code written that lock, from the
\* cache or not, and an error only if no VCO locks.
THEOREM FrequencyIsLocked == ASSUME AboveFirstCodes PROVE TuningSpec => []FrequencyLocks
  <1>1. TuningInv => FrequencyLocks
    BY DEF TuningInv
  <1> QED
    BY <1>1, TuningInductive, PTL

\* TuneVCO and TuneCGENVCO end at a code that locks if there is one, in the middle or three
\* codes from either end, for every interval but those at the edges that the property names.
THEOREM MiddleIsFound == TuningSpec => []TuneFindsMiddle
  <1>1. TuningInit => RequestOK /\ SearchOK
    BY TuningInitHolds
  <1>2. RequestOK /\ SearchOK /\ [TuningNext]_tuningVars => (RequestOK /\ SearchOK)'
    BY RequestKept
  <1>3. ASSUME RequestOK, SearchOK
        PROVE  TuneFindsMiddle
    <2> DEFINE r == request.range
    <2>1. CASE request.op = "tunedSX"
      <3>1. r \in AllRanges /\ csw = CodeOfSX(r)
        BY <1>3, <2>1, SearchIs
      <3>2. status = Status(r, csw)
        BY <1>3, <2>1 DEF SearchOK
      <3>3. r \in Intervals
        BY <3>1, TuningAssumption
      <3> HIDE DEF r
      <3>4. status = 0 <=> Locks(r, csw)
        BY <3>2 DEF Status
      <3>5. /\ status = 0 <=> CanLock(r) /\ r.hi > 0
            /\ status = 0 /\ r.hi # 128 => Abs(2 * csw - r.lo - r.hi) <= 1
        BY <3>1, <3>3, <3>4, SXFinds
      <3> QED
        BY <2>1, <3>5 DEF TuneFindsMiddle, r
    <2>2. CASE request.op = "tunedCGEN"
      <3>1. r \in AllRanges /\ csw = CodeOfCGEN(r)
        BY <1>3, <2>2, SearchIs
      <3>2. status = Status(r, csw)
        BY <1>3, <2>2 DEF SearchOK
      <3>3. r \in Intervals
        BY <3>1, TuningAssumption
      <3> HIDE DEF r
      <3>4. status = 0 <=> Locks(r, csw)
        BY <3>2 DEF Status
      <3>5. r.hi > 6 /\ r.lo < 255 =>
               /\ status = 0 <=> CanLock(r)
               /\ status = 0 =>
                     Smaller(csw - r.lo, r.hi - csw) >= Smaller(3, (r.hi - r.lo) \div 2)
        BY <3>1, <3>3, <3>4, CGENFinds
      <3> QED
        BY <2>2, <3>5 DEF TuneFindsMiddle, r
    <2>3. CASE request.op \notin {"tunedSX", "tunedCGEN"}
      BY <2>3 DEF TuneFindsMiddle
    <2> QED
      BY <2>1, <2>2, <2>3
  <1> QED
    BY <1>1, <1>2, <1>3, PTL DEF TuningSpec
===============================================================================
