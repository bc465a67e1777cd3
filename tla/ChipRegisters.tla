---------------------------- MODULE ChipRegisters -----------------------------
(***************************************************************************)
(* LMS7002M's registers and the driver's copy of them (LMS7002M.cpp).      *)
(* Registers from 0x0100 on exist twice, for channels A and B; the MAC     *)
(* field of register 0x0020 says which of the two, or in the driver's map  *)
(* which copy, a read or a write is about.  Calls that go through both     *)
(* channels select one after the other and then what was selected before.  *)
(*                                                                         *)
(* MAC stands for register 0x0020, of which it is the channel field, G for *)
(* the registers below 0x0100 and M for those above; a map of them has a   *)
(* place for MAC, for G, and for M of each channel.  A call is the list of *)
(* the steps it has left.  One thread makes the calls: the class has no    *)
(* lock.                                                                   *)
(*                                                                         *)
(* The registers 0x05C3-0x05CA hold commands to the DACs as well as values *)
(* (bit 15 latches a value, bit 14 asks for the value in use) and are not  *)
(* written and read as the others are: M leaves them out, and dc has what  *)
(* those bits say, in the chip and in the map.  Left out too are their     *)
(* copies for channel B, which no file holds, what the chip changes by     *)
(* itself (status bits, the start bits of 0x05C2), and 0x0640 and 0x0641,  *)
(* which are reached through the MCU (ProxyRead of McuProcedures).         *)
(***************************************************************************)
EXTENDS Integers, Sequences

CONSTANTS Values,     \* what G and M may hold; 0 is their default
          Patterns,   \* the values that RegistersTest writes
          CacheModes, \* the values useCache may have
          Failing     \* the steps the link may fail in

Channels == {"A", "B"}
Macs == Channels \cup {"none"}      \* "none": the field is 0, no channel is selected
Steps == {"read", "select", "write", "0020", "batch", "reset"}

ASSUME RegistersAssumption ==
    /\ 0 \in Values /\ Patterns \subseteq Values
    /\ CacheModes \subseteq BOOLEAN /\ CacheModes # {}
    /\ Failing \subseteq Steps

VARIABLES chip,      \* the registers of the chip
          cache,     \* mRegistersMap
          useCache,
          dc,        \* bits 15 and 14 of 0x05C3-0x05CA, in chip, map and backup
          file,      \* the configuration file of this call
          script,    \* the steps the call has left
          call,      \* the call, and the channel it copies from
          result,    \* what the call has to return
          ch,        \* the channels that the call, and the call in it, remember
          x0020,     \* UploadAll's x0020_value
          backup,    \* what RegistersTest has read
          before,    \* history: the chip when the call began
          failed,    \* history: what was sent to the chip has got lost in this call
          blind      \* history: SPI_read has failed in this call, and returned 0

maps == <<chip, cache>>
local == <<ch, x0020, backup>>
history == <<before, failed, blind>>
vars == <<maps, dc, useCache, file, script, call, result, local, history>>

Defaults == [MAC |-> "A", G |-> 0, A |-> 0, B |-> 0]
Files == [MAC : Macs, G : Values, A : Values, B : Values]
DCs == {"plain", "write", "read"}    \* neither bit, bit 15, bit 14 without 15

Init == /\ chip = Defaults /\ cache = Defaults /\ file = Defaults
        /\ useCache \in CacheModes
        /\ script = <<>> /\ call = [op |-> "none", from |-> "A"] /\ result = 0
        /\ dc = [chip |-> "plain", cache |-> "plain", backup |-> "plain"]
        /\ ch = <<>> /\ x0020 = "A" /\ backup = Defaults
        /\ before = Defaults /\ failed = FALSE /\ blind = FALSE

-----------------------------------------------------------------------------
\* Places, reads and writes.

\* The place of a register in a map when mac is selected; for M there is none without a
\* channel.
Place(addr, mac) == IF addr = "M" THEN mac ELSE addr

\* The registers of a channel; those that have no channel go with A.
Registers(c) == IF c = "A" THEN <<"G", "M">> ELSE <<"M">>

WritesOf(c, source) ==
    [k \in DOMAIN Registers(c) |->
        [addr |-> Registers(c)[k], data |-> source[Place(Registers(c)[k], c)]]]

\* A batch written into a map.  It names a register once, and 0x0020, which selects a
\* channel for the rest, first.
Written(map, batch) ==
    LET mac == IF batch # <<>> /\ batch[1].addr = "MAC" THEN batch[1].data ELSE map.MAC
        Sets(k, p) == Place(batch[k].addr, mac) = p
    IN  [p \in DOMAIN map |-> IF \E k \in DOMAIN batch : Sets(k, p)
                              THEN batch[CHOOSE k \in DOMAIN batch : Sets(k, p)].data
                              ELSE map[p]]

Cached(batch) ==
    \A k \in DOMAIN batch :
        LET p == Place(batch[k].addr, cache.MAC)
        IN  p \in DOMAIN cache => cache[p] = batch[k].data

\* Mutant: a forced write is filtered too.
SendNew(batch, toChip) == IF useCache /\ Cached(batch) THEN <<>> ELSE batch

\* Nothing if the cache holds it already, unless "force write to chip": what is not forced
\* here is a single register.
ToSend(batch, toChip) == IF ~toChip /\ useCache /\ Cached(batch) THEN <<>> ELSE batch

\* SPI_write_batch: the cache is up to date before the link is asked, and a link that
\* fails may have written some of it.
BatchWritten(batch, toChip) ==
    /\ cache' = Written(cache, batch)
    /\ chip' = Written(chip, ToSend(batch, toChip))
    /\ UNCHANGED failed

BatchFails(batch, toChip, step) ==
    /\ step \in Failing /\ ToSend(batch, toChip) # <<>>
    /\ cache' = Written(cache, batch)
    /\ \E n \in 0..Len(ToSend(batch, toChip)) :
          chip' = Written(chip, SubSeq(ToSend(batch, toChip), 1, n))
    /\ failed' = TRUE

\* What the chip answers when it is asked for the registers of a channel (and 0x0020);
\* external: those of no channel read 0.
Answers(c, map) ==
    [p \in DOMAIN map |-> IF p = c THEN (IF chip.MAC = "none" THEN 0 ELSE chip[chip.MAC])
                          ELSE IF c = "A" /\ p \in {"MAC", "G"} THEN chip[p]
                          ELSE map[p]]
DCAnswer == IF chip.MAC = "A" THEN dc.chip ELSE "plain"

\* 0x05C3-0x05CA in a batch that is about channel A: the values they are given one after the
\* other.  A batch that fails may have come to any of them.
DCWritten(values) ==
    dc' = IF values = <<>> THEN dc
          ELSE [dc EXCEPT !.cache = values[Len(values)],
                          !.chip = IF chip.MAC = "A" THEN values[Len(values)] ELSE @]

DCFails(values) ==
    IF values = <<>> THEN UNCHANGED dc
    ELSE \E v \in {dc.chip} \cup {values[k] : k \in DOMAIN values} :
            dc' = [dc EXCEPT !.cache = values[Len(values)],
                             !.chip = IF chip.MAC = "A" THEN v ELSE @]

MACRegister(c) == <<[addr |-> "MAC", data |-> c]>>

-----------------------------------------------------------------------------
\* The calls.

Do(op, arg) == [op |-> op, arg |-> arg]

Select(c) == Do("select", c)
Remember == Do("remember", "A")
Restore == Do("restore", "A")

UploadAll == <<Remember, Select("A"), Do("upload", "A"), Do("write0020", "A"),
               Select("B"), Do("upload", "B"), Restore>>

\* Mutant: the channel stays with B.
DownloadAndStay == <<Do("recall", "A"), Select("A"), Do("download", "A"),
                     Select("B"), Do("download", "B")>>

DownloadAll == <<Do("recall", "A"), Select("A"), Do("download", "A"),
                 Select("B"), Do("download", "B"), Restore>>

\* Registers of B are read before B is selected.
IsSynced == <<Remember, Select("A"), Do("compare", "A"), Do("compare", "B"), Select("B"), Restore>>

CopyChannelRegisters == <<Remember, Do("copy", "A")>> \o UploadAll \o <<Restore>>

SaveConfig == <<Remember, Select("A"), Do("save", "A"), Select("B"), Do("save", "B"), Restore>>

LoadConfig == <<Remember, Select("A"), Do("load", "A"), Do("load0020", "A"),
                Select("B"), Do("load", "B"), Restore, Do("resetLogic", "A"), Select("A")>>

\* Mutant: both backups are made of A.
TestOneBackup == <<Remember, Select("A"), Do("backup", "A"), Do("backup", "B"), Select("B"),
                   Do("reset", "A"), Select("A"), Do("test", "A"), Select("B"), Do("test", "B"),
                   Select("A"), Do("writeBack", "A"), Select("B"), Do("writeBack", "B"), Restore>>

RegistersTest == <<Remember, Select("A"), Do("backup", "A"), Select("B"), Do("backup", "B"),
                   Do("reset", "A"), Select("A"), Do("test", "A"), Select("B"), Do("test", "B"),
                   Select("A"), Do("writeBack", "A"), Select("B"), Do("writeBack", "B"), Restore>>

StepsOf(op) == CASE op = "upload" -> UploadAll
                 [] op = "download" -> DownloadAll
                 [] op = "isSynced" -> IsSynced
                 [] op = "copy" -> CopyChannelRegisters
                 [] op = "save" -> SaveConfig
                 [] op = "load" -> LoadConfig
                 [] op = "test" -> RegistersTest

Idle == script = <<>>

\* Of the chip before a call only RegistersTest asks for more than the channel.
Begin(op, from) == /\ Idle
                   /\ script' = StepsOf(op)
                   /\ call' = [op |-> op, from |-> from]
                   /\ result' = 0
                   /\ IF op = "load" THEN file' \in Files ELSE file' = Defaults
                   /\ before' = IF op = "test" THEN chip ELSE [Defaults EXCEPT !.MAC = chip.MAC]
                   /\ failed' = FALSE /\ blind' = FALSE
                   /\ UNCHANGED <<maps, dc, useCache, local>>

\* Calls of one step: SPI_write, SetActiveChannel, EnableValuesCache.
Single(op) == /\ Idle
              /\ call' = [op |-> op, from |-> "A"]
              /\ file' = Defaults /\ before' = Defaults
              /\ UNCHANGED <<dc, script, local>>

SPI_write(addr, data) ==
    LET batch == <<[addr |-> addr, data |-> data]>>
    IN  /\ Single("write")
        /\ \/ BatchWritten(batch, FALSE) /\ result' = 0
           \/ BatchFails(batch, FALSE, "write") /\ result' = -1
        /\ blind' = FALSE
        /\ UNCHANGED useCache

EnableValuesCache(enabled) == /\ Single("enable")
                              /\ useCache' = enabled
                              /\ result' = 0 /\ failed' = FALSE /\ blind' = FALSE
                              /\ UNCHANGED maps

\* External: a procedure of the MCU leaves its results in the registers of a channel.
McuWrites(c, data) == /\ Single("mcu")
                      /\ chip' = [chip EXCEPT ![c] = data]
                      /\ result' = 0 /\ failed' = FALSE /\ blind' = FALSE
                      /\ UNCHANGED <<cache, useCache>>

-----------------------------------------------------------------------------
\* The steps of a call.

At(op) == script # <<>> /\ Head(script).op = op
arg == Head(script).arg
Goes == script' = Tail(script) /\ UNCHANGED result

\* "return status", without restoring the channel; CopyChannelRegisters does not look at it.
Abort == /\ script' = IF call.op = "copy" THEN <<Restore>> ELSE <<>>
         /\ result' = IF call.op = "copy" THEN 0 ELSE -1

\* GetActiveChannel(), from the chip: a read that fails returns 0, which is no channel.
\* UploadAll then takes 0x0020 from the map.
RememberChannel == /\ At("remember")
                   /\ Goes
                   /\ \/ /\ ch' = <<chip.MAC>> \o ch
                         /\ cache' = [cache EXCEPT !.MAC = chip.MAC]
                         /\ UNCHANGED blind
                      \/ /\ "read" \in Failing
                         /\ ch' = <<"none">> \o ch
                         /\ blind' = TRUE
                         /\ UNCHANGED cache
                   /\ x0020' = cache'.MAC
                   /\ UNCHANGED <<chip, dc, useCache, file, call, backup, before, failed>>

Active == IF useCache THEN cache.MAC ELSE chip.MAC
MayMisread == ~useCache /\ "read" \in Failing

\* GetActiveChannel(false).
RecallChannel == /\ At("recall")
                 /\ Goes
                 /\ \/ /\ ch' = <<Active>> \o ch
                       /\ cache' = [cache EXCEPT !.MAC = Active]
                       /\ UNCHANGED blind
                    \/ /\ MayMisread
                       /\ ch' = <<"none">> \o ch
                       /\ blind' = TRUE
                       /\ UNCHANGED cache
                 /\ UNCHANGED <<chip, dc, useCache, file, call, x0020, backup, before, failed>>

\* SetActiveChannel: nothing when it is selected already, and what fails goes unnoticed.
\* It reads 0x0020 up to twice: to compare, where a read that fails says "none", and for
\* the other bits of the register.
SelectSent(c) == BatchWritten(MACRegister(c), FALSE) \/ BatchFails(MACRegister(c), FALSE, "select")

Selects(c) == \/ /\ Active = c
                 /\ cache' = [cache EXCEPT !.MAC = c]
                 /\ UNCHANGED <<chip, failed, blind>>
              \/ /\ Active # c
                 /\ SelectSent(c)
                 /\ UNCHANGED blind
              \/ /\ MayMisread
                 /\ blind' = TRUE
                 /\ \/ c = "none" /\ UNCHANGED <<maps, failed>>
                    \/ (c # "none" \/ Active # c) /\ SelectSent(c)

SelectChannel == /\ At("select")
                 /\ Goes
                 /\ Selects(arg)
                 /\ UNCHANGED <<dc, useCache, file, call, local, before>>

SetActiveChannel(c) == /\ Single("setActive")
                       /\ Selects(c)
                       /\ result' = 0
                       /\ UNCHANGED useCache

RestoreChannel == /\ At("restore")
                  /\ Goes
                  /\ Selects(Head(ch))
                  /\ ch' = Tail(ch) /\ x0020' = "A" /\ backup' = Defaults
                  /\ dc' = [dc EXCEPT !.backup = "plain"]
                  /\ UNCHANGED <<useCache, file, call, before>>

\* A batch whose failure ends the call, which has then no use for what it remembered.
WriteOrAbort(batch, values, toChip, step) ==
    \/ BatchWritten(batch, toChip) /\ DCWritten(values) /\ Goes /\ UNCHANGED ch
    \/ /\ BatchFails(batch, toChip, step) /\ DCFails(values) /\ Abort
       /\ ch' = IF call.op = "copy" THEN Tail(ch) ELSE <<>>

IfA(values) == IF arg = "A" THEN values ELSE <<>>

Upload == /\ At("upload")
          /\ WriteOrAbort(WritesOf(arg, cache), IfA(<<dc.cache>>), TRUE, "batch")
          /\ UNCHANGED <<useCache, file, call, x0020, backup, before, blind>>

Write0020 == /\ At("write0020")
             /\ WriteOrAbort(MACRegister(x0020), <<>>, FALSE, "0020")
             /\ UNCHANGED <<useCache, file, call, x0020, backup, before, blind>>

\* "enable analog DC correction": the value without its commands, then with bit 15.
Load == /\ At("load")
        /\ WriteOrAbort(WritesOf(arg, file), IfA(<<"plain", "write">>), TRUE, "batch")
        /\ UNCHANGED <<useCache, file, call, x0020, backup, before, blind>>

\* With other bits than the map has it is sent also when the channel is the same.
Load0020 == /\ At("load0020")
            /\ \E differs \in BOOLEAN : WriteOrAbort(MACRegister(file.MAC), <<>>, differs, "0020")
            /\ UNCHANGED <<useCache, file, call, x0020, backup, before, blind>>

\* ResetLogicregisters: two writes of what was read, other bits cleared and set; nobody
\* looks at their status.
ResetLogicregisters ==
    /\ At("resetLogic")
    /\ Goes
    /\ \E c \in Macs, differs \in BOOLEAN :
          /\ \/ c = Active /\ UNCHANGED blind
             \/ c = "none" /\ MayMisread /\ blind' = TRUE
          /\ \/ BatchWritten(MACRegister(c), differs)
             \/ BatchFails(MACRegister(c), differs, "0020")
    /\ UNCHANGED <<dc, useCache, file, call, local, before>>

ReadFails == /\ script # <<>> /\ Head(script).op \in {"download", "backup"}
             /\ "batch" \in Failing
             /\ Abort
             /\ ch' = <<>> /\ x0020' = "A" /\ backup' = Defaults
             /\ dc' = [dc EXCEPT !.backup = "plain"]
             /\ failed' = TRUE
             /\ UNCHANGED <<maps, useCache, file, call, before, blind>>

Download == /\ At("download")
            /\ Goes
            /\ cache' = Answers(arg, cache)
            /\ dc' = [dc EXCEPT !.cache = IF arg = "A" THEN DCAnswer ELSE @]
            /\ UNCHANGED <<chip, useCache, file, call, local, history>>

\* What is compared is read first; a difference or a failure ends the comparison.
Compare == /\ At("compare")
           /\ \/ /\ Answers(arg, cache) = cache /\ (arg = "A" => DCAnswer = dc.cache)
                 /\ result' = IF arg = "B" THEN 1 ELSE 0
                 /\ script' = Tail(script)
                 /\ UNCHANGED failed
              \/ /\ ~(Answers(arg, cache) = cache /\ (arg = "A" => DCAnswer = dc.cache))
                 /\ result' = 0 /\ script' = <<Restore>>
                 /\ UNCHANGED failed
              \/ /\ "batch" \in Failing /\ failed' = TRUE
                 /\ result' = 0 /\ script' = <<Restore>>
           /\ UNCHANGED <<maps, dc, useCache, file, call, local, before, blind>>

\* The map of the other channel is overwritten; then UploadAll.
Copy == /\ At("copy")
        /\ Goes
        /\ LET to == CHOOSE c \in Channels : c # call.from
           IN  /\ cache' = [cache EXCEPT ![to] = cache[call.from]]
               /\ \E v \in DCs : dc' = [dc EXCEPT !.cache = IF to = "A" THEN v ELSE @]
        /\ UNCHANGED <<chip, useCache, file, call, local, history>>

\* What a file has of a channel; D stands for 0x05C3-0x05CA.
Section(c) == IF c = "A" THEN {"MAC", "G", "A", "D"} ELSE {"B"}
Zero(p) == IF p = "MAC" THEN "none" ELSE 0

\* Get_SPI_Reg_bits(..., false) of every register: without the cache from the chip, and 0
\* where the read is lost.
SaveRegisters(lost) ==
    /\ cache' = IF useCache THEN cache
                ELSE [p \in DOMAIN cache |-> IF p \in lost THEN cache[p]
                                             ELSE Answers(arg, cache)[p]]
    /\ file' = [p \in DOMAIN file |-> IF p \in lost THEN Zero(p)
                                      ELSE IF p \in Section(arg) THEN cache'[p] ELSE file[p]]

\* "perform read-back from DAC": 0x05C3-0x05CA are asked for the value in use, whatever
\* comes of that, and then read, from the chip with the cache too.  What the file has of them
\* then is not kept here: LoadConfig makes the same commands of any value.
ReadBack(lost) ==
    \E sending \in {"sent", "cached", "lost"} :
        /\ sending = "cached" => useCache /\ dc.cache = "read"
        /\ sending = "lost" => "write" \in Failing
        /\ failed' = (failed \/ sending = "lost")
        /\ LET asked == IF sending = "sent" /\ chip.MAC = "A" THEN "read" ELSE dc.chip
           IN  dc' = [dc EXCEPT !.chip = asked,
                                !.cache = IF "D" \in lost THEN "read"
                                          ELSE IF chip.MAC = "A" THEN asked ELSE "plain"]

Save == /\ At("save")
        /\ Goes
        /\ \E lost \in SUBSET Section(arg) :
              /\ lost # {} => "read" \in Failing
              /\ useCache => lost \subseteq {"D"}
              /\ SaveRegisters(lost)
              /\ IF arg = "A" THEN ReadBack(lost) ELSE UNCHANGED <<dc, failed>>
              /\ blind' = (blind \/ lost # {})
        /\ UNCHANGED <<chip, useCache, call, local, before>>

Backup == /\ At("backup")
          /\ Goes
          /\ backup' = Answers(arg, backup)
          /\ cache' = Answers(arg, cache)
          /\ dc' = IF arg = "A" THEN [dc EXCEPT !.cache = DCAnswer, !.backup = DCAnswer] ELSE dc
          /\ UNCHANGED <<chip, useCache, file, call, ch, x0020, history>>

\* ResetChip: the map takes the defaults also when the chip did not.
Reset == /\ At("reset")
         /\ Goes
         /\ cache' = Defaults
         /\ \/ /\ chip' = Defaults /\ UNCHANGED failed
               /\ dc' = [dc EXCEPT !.chip = "plain", !.cache = "plain"]
            \/ /\ "reset" \in Failing /\ failed' = TRUE /\ UNCHANGED chip
               /\ dc' = [dc EXCEPT !.cache = "plain"]
         /\ UNCHANGED <<useCache, file, call, local, before, blind>>

\* RegistersTestInterval: failures are only counted.  0x05C3-0x05CA are not tested, and the
\* patterns that go to 0x0020 too, with A selected, leave A selected.
Test == /\ At("test")
        /\ script' = Tail(script)
        /\ \E p \in Patterns :
              LET batch == WritesOf(arg, [r \in DOMAIN cache |-> p])
              IN  \/ BatchWritten(batch, TRUE) /\ UNCHANGED result
                  \/ BatchFails(batch, TRUE, "batch") /\ result' = -1
        /\ UNCHANGED <<dc, useCache, file, call, local, before, blind>>

\* "restore register values", 0x0020 among them; nobody looks at the status.
WriteBack ==
    LET batch == (IF arg = "A" THEN MACRegister(backup.MAC) ELSE <<>>) \o WritesOf(arg, backup)
    IN  /\ At("writeBack")
        /\ Goes
        /\ \/ BatchWritten(batch, TRUE) /\ DCWritten(IfA(<<dc.backup>>))
           \/ BatchFails(batch, TRUE, "batch") /\ DCFails(IfA(<<dc.backup>>))
        /\ UNCHANGED <<useCache, file, call, local, before, blind>>

-----------------------------------------------------------------------------
CallStep == \/ RememberChannel \/ RecallChannel \/ SelectChannel \/ RestoreChannel
            \/ Upload \/ Write0020 \/ Load \/ Load0020 \/ ResetLogicregisters \/ ReadFails
            \/ Download \/ Compare \/ Copy \/ Save \/ Backup \/ Reset \/ Test \/ WriteBack

Next == \/ \E op \in {"upload", "download", "isSynced", "save", "load", "test"} : Begin(op, "A")
        \/ \E from \in Channels : Begin("copy", from)
        \/ \E addr \in {"G", "M"}, data \in Values : SPI_write(addr, data)
        \/ \E c \in Channels : SetActiveChannel(c)
        \/ \E enabled \in CacheModes : EnableValuesCache(enabled)
        \/ \E c \in Channels, data \in Values : McuWrites(c, data)
        \/ CallStep

Spec == Init /\ [][Next]_vars

-----------------------------------------------------------------------------
\* Properties.

\* A call has returned, and not with an error.
Succeeded(ops) == Idle /\ call.op \in ops /\ result # -1

\* After UploadAll or DownloadAll has returned 0 the map and the chip agree in both
\* channels, whatever failed or went behind the map's back before, reads of the selected
\* channel in this very call included; after LoadConfig they also hold what the file says,
\* with the DC values latched (0x05C3-0x05CA: bit 15), and after a copy one channel is the
\* image of the other.  After SaveConfig the file says what the map holds and, without the
\* cache, the chip, unless a register could not be read.
SuccessMeansSame ==
    /\ Succeeded({"upload", "download", "load"}) => chip = cache /\ dc.chip = dc.cache
    /\ Succeeded({"load"}) =>
          dc.chip = "write" /\ \A p \in {"G", "A", "B"} : chip[p] = file[p]
    /\ Succeeded({"copy"}) /\ ~failed =>
          chip = cache /\ dc.chip = dc.cache /\ chip["A"] = chip["B"]
    /\ Succeeded({"save"}) /\ ~blind =>
          \A p \in {"G", "A", "B"} : file[p] = cache[p] /\ (~useCache => file[p] = chip[p])

\* A call that goes through both channels leaves map and chip with the same channel
\* selected unless it returns an error, and that is the one that was selected ("restore
\* previously used channel") unless a read of 0x0020 has failed in the call; a copy does so
\* even when UploadAll failed.
ChannelRestored ==
    Succeeded({"upload", "download", "isSynced", "copy", "save", "test"}) =>
        cache.MAC = chip.MAC /\ (~blind => chip.MAC = before.MAC)

\* RegistersTest leaves the registers of both channels as they were ("for restoration
\* after test"), and the channel if that could be read, unless the link has failed.
TestRestores ==
    Succeeded({"test"}) /\ ~failed =>
        \A p \in {"MAC", "G", "A", "B"} : chip[p] = before[p] \/ (p = "MAC" /\ blind)
=============================================================================
