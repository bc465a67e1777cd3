# LMS7 Suite: models of the streaming and control core

TLA+ modules, TLC configurations and TLAPS proofs about the host library of the LMS7
suite: the path of samples between an application and the board, the control port
beside it, and on that the chip's registers, its microcontroller and the tuning of its
oscillators. Everything is translated from the code; `PROJECT.json` maps each definition
to the lines it stands for.

Paths below are relative to the library (`src/src`); `Streamer.cpp`, `fifo.h`,
`dataTypes.h` and `LMS64CProtocol.cpp` are in `protocols/`, `LMS7002M.cpp` in `lms7002m/`,
`MCU_BD.cpp` and the firmware (`mcu_program/`) in `lms7002m_mcu/`. `Streaming.cpp` is the
SoapySDR module's, in `SoapyLMS7/` beside it.

## 1. The system

An application sees one device (`LMS7_Device`, C API `LMS_*`). A device has a
*connection* (USB through libusb, FTDI, ...), one `Streamer` for each LMS7002M chip, an
`FPGA` object, and the chips' control code. Two kinds of traffic share the connection.

| Component | State | Operations | Interacts with |
|---|---|---|---|
| **Sample FIFO** `RingFIFO` (fifo.h) | slots, `mHead`, `mTail`, `mFirst`, `mLast`, `mElementsFilled`, overflow and underrun counts, one mutex, one condition variable | `push_packet`, `push_samples`, `pop_samples`, `pop_packet`, `Clear`, `Resize`, `GetInfo` | one application thread on one side, one loop on the other |
| **Stream life cycle** `Streamer`, `StreamChannel` (Streamer.cpp) | `used`, `mActive`, configuration and FIFO of four streams; `streamSize`, `dataLinkFormat`; `terminateRx/Tx` and two threads | `SetupStream`, `Start`, `Stop`, `Close`, `UpdateThreads`, `GetHardwareTimestamp` | spawns and joins the loops; tells the FPGA what to stream |
| **Receive loop** `ReceivePacketsLoop` | handles, buffers, `prevTs`, `pktLost` | wait, finish, parse, push, resubmit | USB contexts below, receive FIFOs above |
| **Transmit loop** `TransmitPacketsLoop` | packets being assembled, batch, buffers in flight | pop, assemble, send, wait | transmit FIFOs above, USB contexts below |
| **USB transfers** `ConnectionFX3` | pools of contexts (`used`, `done`, `bytesXfered`) | `Begin/WaitFor/FinishDataReading`, `AbortReading`, the libusb callback | the loops; the USB event thread |
| **Control port** `LMS64CProtocol` | `mControlPortLock` | `TransferPacket` and its callers, `ProgramWrite`, `ProgramMCU` | chip control, FPGA registers, GUI threads |
| **SoapySDR stream** (Streaming.cpp) | `mActive`, the pending command (`hasCmd`, `flags`, `timeTicks`), samples left of a burst; buffers of the read in progress | `activateStream`, `deactivateStream`, `readStream` with `_readStreamAligned` | the receive FIFOs of all its channels |
| **MCU driver** (`MCU_BD.cpp`) | none but the ports and the last status | `RunProcedure`, `WaitForMCU`, `SetParameter`, `ReadMCUProgramID`; calibrations, gain control and the register proxy made of them | the firmware, through P0, P1, register 0x0006 and an interrupt |
| **MCU firmware** (`mcu_program/`) | current instruction, `runProcedure`, `stopProcedure`, parameters | main loop, two interrupts, `ProxyWrite`, `ProxyRead`, calibrations, gain control | the driver, and the chip's registers once it has the SPI |
| **Chip registers** (`LMS7002M.cpp`) | `mRegistersMap`, `useCache`; the MAC field that selects a channel | writes and reads, batches, channel selection, reset, upload, download, copy, register test, files | the chip, over the control port |
| **Oscillator tuning** (`LMS7002M.cpp`) | `SEL_VCO`, `CSW_VCO`, `ICT_VCO`, `tuning_cache_sel_vco`, `tuning_cache_csw_value` | `TuneVCO`, `TuneCGENVCO`, `SetFrequencySX` | two comparators of each oscillator |
| **FPGA** (`FPGA_common.cpp`) | register cache | register access, `StartStreaming`, PLL programming | control port |

The rest (calibrations, clock synthesizers, discovery, other connections, limeRFE, tools
and GUIs) is listed in `PROJECT.json` with the reason it is left out.

### What is hard about it

* **Threads without a common lock.** `used`, `mActive`, the FIFO pointer, `streamSize`
  and the terminate flags are shared by the application's thread and two loops; only the
  FIFO has a mutex. The libusb callback runs on a further thread.
* **One condition variable for two conditions**, notified with `notify_one`.
* **Partial positions.** An application's buffer is cut across packets, a packet across
  buffers, and waits happen in the middle; an overflow throws away a packet that is half
  read.
* **Partial failure.** A transfer may fail, be refused, or never be marked done; one of
  two channels' FIFOs may be empty; one of a request's packets may be refused.
* **Shapes fixed at a start.** Packet sizes follow from how many channels were set up and
  from the link format, and are read once by a loop and once by a FIFO.
* **Time-outs everywhere**, each racing what it waits for.
* **Two views of one thing.** The register map and the chip; a MAC field in each of them,
  which decides where every other access goes; a tuning cache and oscillators that drift.
* **A mailbox without an address.** The MCU's status does not say which request it
  answers, and the request and its parameters travel over the same port.
* **Alignment by time stamp** of channels that lose packets independently.

Each of these is an entry of `PROJECT.json` "hazards" at the line where it bites, with
the properties that cover it.

### What makes each component correct

* *FIFO*: a bounded queue of packets. No sample is lost, repeated or reordered but by an
  overflow, `Clear` or `Resize`; a sample leaves under the time it was submitted for; a
  call that waits returns.
* *Life cycle*: a loop runs only while a stream of its direction is active; it never
  meets a deleted FIFO; loop, FIFO and FPGA agree on what a packet is.
* *Receive loop*: packets are parsed once and in order whatever transfers fail; no buffer
  has two owners; losses are counted, and only losses; it can always be ended.
* *Transmit loop*: samples leave at their time, once, in order, in batches the FPGA can
  parse; a buffer in flight is not touched; the end of a burst is not kept back.
* *Control port*: an answer goes to the request it answers; success means all was done.
* *SoapySDR stream*: what `readStream` returns is one stretch of time in every channel, the
  stretch its time stamp names; a timed command starts at its time; the end of a burst is
  reported exactly on its last samples.
* *MCU*: a status a call returns is that of its own request, which ran with the call's own
  parameters; a stop ends gain control.
* *Chip registers*: after a call that reports success the map says what the chip holds, and
  the channel selected before is selected again.
* *Tuning*: a search ends well inside the codes that lock, if there are any; a
  frequency is reported set only when the oscillator chosen locks.

## 2. Modules

| Module | Models | Lines of code |
|---|---|---|
| `PacketQueue` | abstract: what a FIFO promises | |
| `RingFIFO` (+ `MCRingFIFO`, `RingFIFO_proofs`) | `RingFIFO` | fifo.h, and `StreamChannel::Read/Write` |
| `Streams` (+ `Streams_proofs`) | `Streamer`, `StreamChannel` | Streamer.cpp 30-300, 563-676 |
| `TransmitLoop` (+ `MCTransmitLoop`, `TransmitLoop_proofs`) | `TransmitPacketsLoop` | Streamer.cpp 678-800 |
| `ReceiveLoop` (+ `ReceiveLoop_proofs`) | `ReceivePacketsLoop` and the FX3 receive transfers | Streamer.cpp 803-917, ConnectionFX3.cpp 405-580 |
| `ControlPort` (+ `MCControlPort`, `ControlPort_proofs`) | `TransferPacket`, packet cutting, status | LMS64CProtocol.cpp 29-40, 126-169, 357-507 |
| `SoapyRead` (+ `MCSoapyRead`, `SoapyRead_proofs`) | a receive stream of the SoapySDR module | Streaming.cpp 216-440 |
| `McuProcedures` (+ `MCMcuProcedures`, `McuProcedures_proofs`) | driver and firmware of the MCU | MCU_BD.cpp 1002-1145; main.c, lms7002m_agc.c; lms7_device.cpp 1870-1900 |
| `ChipRegisters` (+ `LMS7002M_proofs`) | the register map against the chip | LMS7002M.cpp 210-220, 369-379, 575-761, 1981-2458, 2693-2761 |
| `VcoTuning` (+ `MCVcoTuning`, `LMS7002M_proofs`) | searches and retries of the oscillators | LMS7002M.cpp 1203-1393, 1484-1639 |

The modules meet at their interfaces. `RingFIFO` is shown to implement `PacketQueue`;
`TransmitLoop` takes a FIFO as what `PacketQueue` says it is, a sequence of complete
packets that may be late; `Streams` takes a FIFO as the size of its packets and a loop as
"looks at a channel, then uses its FIFO"; `SoapyRead` takes one as a queue that may give up
its oldest packet; `ChipRegisters` and `McuProcedures` take a register access as what
`ControlPort` makes it, done or reported as failed. A composition of all of them would multiply
their state spaces and add no interaction that these interfaces do not carry.

### RingFIFO

A sample *is* the time it belongs to, so a value says both which sample it is and which
timestamp it must be delivered under. The mutex is `lock`; a call is `run`ning, `wait`ing
on the condition variable, `woken` or `expired`, or past its unlock and about to `notify`.
Each critical section is one action: `PushChunk` is a turn of `push_samples`' loop,
`PushWait`/`PopWait` give the lock up, `NotifyOne` wakes any one waiter, and `Expire` ends
a wait at its deadline. `push_samples` and `pop_packet` notify after they unlock, as the
code does. `Resize` is two actions because the code takes the lock twice (fifo.h:201-202).

What the application submits follows from `clock`: buffers of the lengths `Counts`, with
jumps of `Gaps` packets. `last` is `Len(data)`; a slot outside the ring is kept empty,
since nothing reads it.

### Streams

The application makes one call at a time, and each call is the sequence of its steps:
`SetupStream`, `Close`, then `UpdateThreads` as `Terminate`, `Join`, `Configure`, `Spawn`.
The loops read `used` and `mActive` in one step (`LoopChecks`) and use the FIFO in the
next (`LoopUsesFifo`), which is the window of Streamer.cpp:730-738 and 887-892.

`Liberties` is what the application does beyond the discipline of the repository's
examples and tests; with none of it every property holds.

### TransmitLoop and ReceiveLoop

`TransmitLoop` numbers the application's packets by the time they are due. The array
`packets[]` keeps the samples of the last pop, as the code's array does, which is what
makes a time-out in one of two channels visible. A payload is computed as at
Streamer.cpp:744-750, with the code's 4080 bytes and 1360 samples.

`ReceiveLoop` has the pool of contexts, libusb's queue (first come, first served), the
callback that marks a context done, and the board, which produces or drops a packet. A
transfer may complete, fail with a status that marks it done, fail with one that does
not (`TransferSilent`: overflow, stall, no device), or be refused at submission.

### ControlPort

A packet is the range of blocks it carries; block ratios and sizes are the code's, for four
commands that stand for the classes `PreparePacket` tells apart (LMS7002M write and read,
analogue read, ADF4002 write). The
link executes packets in order, may lose one or its answer, and the board may refuse one.
Nothing in a packet names its request, as in the protocol: `Read` takes the next answer
whosoever it is, and `AnswersMatch` says that it is always its own.

### SoapyRead

A sample is its hardware time again, and a FIFO and a buffer are sequences of them. The
board gives each active channel its packet in turn (`Receive`) or drops it for all of them
(`Drop`); a channel in `MayOverflow` whose FIFO is full loses its oldest packet, with what
has been read of it. Times begin at `FirstTime`, 0 in the runs, when the first channel
starts, or go on when a transmit loop has kept the board streaming (`StartLoop`).

A `Read` of a channel is `pop_samples`' loop: it takes what there is (`PopSamples`), waits
with the lock free, and takes more, until it has all or its wait ends; `got` is what it has so
far. Then one action says what `_readStreamAligned` makes of it (`ReadHead`, `ReadOn`,
`ReadEarly`, `ReadLate`, `ReadNothing`). So packets arrive, and are lost, between the reads of two
channels and in the middle of one. A gap, a `Read` that starts before or after the
time asked for, a time-out, and the restart of the loop over the channels are as in
`_readStreamAligned`. A time-out in one channel loses what the others have been read for,
as the code does, and `timeoutUs` is given to each `Read`, not to the call.

Two things `_readStreamAligned` cannot see, and `misled` records, for the call it happens in:
a gap inside one `Read`, whose only time is that of its first sample, and a head at time 0,
which line 318 takes for no head at all, so that the next channel sets another. The two
properties about alignment are stated of the calls in which neither has happened.

### McuProcedures

Both sides of the mailbox: the driver's call is the list of steps it has left, the
firmware is a main loop (`poll`, `busy`, `clear`) and two interrupts, of which one shifts a
parameter in and the other takes a request. The switch in register 0x0006 decides who
may use the chip's registers. A procedure in `Slow` may outlast the time the driver waits,
and then runs on while the driver takes the SPI back and goes on to its next call.
`asked`, `doing` and `finished` are history, to tell whose a status is.

### ChipRegisters

The registers with a channel stand in one name, `M`, and those without in another, `G`;
`MAC` is register 0x0020. A map has `M` twice. An access goes to the copy that MAC selects, in
the chip by the chip's MAC, in the map by the map's: nothing makes them agree but the
driver's order of writes. A step in `Failing` may fail at any time, with a part of its
writes made. A read of 0x0020 that fails returns 0 and nobody looks at its status
(LMS7002M.cpp:1952-1969): `GetActiveChannel` then says that no channel is selected (`"none"`),
and the call that asked goes on with that (`blind` records it). That holds for each of the
reads that `SetActiveChannel`, `Modify_SPI_Reg_bits` and `ResetLogicregisters` make.

The registers 0x05C3-0x05CA have two bits that are commands, bit 15 to latch a value and bit
14 to ask for the one in use, and are the only ones that the calls convert: `LoadConfig`
writes each of them twice, without the commands and with bit 15 (632-638), and `SaveConfig`
writes 0x4000 to them first and inverts what it then reads (721-729). `dc` has those two
bits, in the chip, the map and the backup of the register test; the values below them are
left out. A file has what its sections give the registers; for `LoadConfig` it may be any.

### VcoTuning

A VCO at a frequency is the interval of codes with which it locks, and its comparators
answer 0, 3 or 2 for below, above and inside. A search is an operator of that interval that
tries the bits of a code one after the other, as the loops do (`TryBits`, `FindLock`);
`SetFrequencySX` is a state machine over its attempts and the three VCOs, with
bias current and cache, and VCOs may drift between two calls. `ChipRegisters` and
`VcoTuning` are two sides of one class, share no state and use different names, so that one
module can hold the proofs about both.

## 3. Runs

| Run | Question | Result |
|---|---|---|
| `fifo_rx` | receive FIFO: overflow against partly read packets | passes, 18 000 states |
| `fifo_tx` | transmit FIFO: buffers cut across packets, time-outs, bursts, `Clear`, `Resize`; calls return | passes, 59 000 |
| `streams` | every order of calls that keeps the discipline, against both loops | passes, 91 000 |
| `tx_loop` | one channel, every kind of packet, refused transfers, stop at any time | passes, 184 000 |
| `rx_loop` | drops, failed, refused and silent transfers, stop at any time | passes, 50 000 |
| `control` | two threads, requests of one to three packets, an unreliable link | passes, 31 000 |
| `soapy` | two channels read in step from time 0 on, the board drops packets and the second channel loses some; timed commands, bursts, time-outs | passes, 179 000 |
| `soapy_overflow` | the first channel loses packets too | **violated** |
| `mcu` | three calls in a row, calibrations and gain control slower than is waited | passes, 54 000 |
| `mcu_proxy` | a register written through the MCU | **violated** |
| `chip` | uploads, downloads, copies, files and tests in both cache modes; reads (of the selected channel too), writes, batches and the reset fail | passes, 997 000 |
| `vco` | every edge interval for a single search; two calls of `SetFrequencySX` with drift between them | passes, 188 000 |

### What the violated runs show

* `soapy_overflow`: on a gap `_readStreamAligned` is to "fast-forward all prior channels and
  restart loop" (Streaming.cpp:337), but the loop forwards channels `j < i` (340). After such a
  restart the loop is back at the first channel while a later one keeps what it has
  read; when the first channel now meets a gap itself, the later one is skipped (306) with
  samples from before it. `readStream` then returns two channels apart in time, under one
  time stamp.
* `mcu_proxy`: `SPI_write` of 0x0640 or 0x0641 compares the data with register 0x040B
  (LMS7002M.cpp:1918), which the firmware writes in `ProxyRead` only. A write that was done is
  reported as failed, and "0-succes" (1904) may be reported for one that was not.

### Properties

*FIFO.* `RingOK`: the tail follows from head and count, partial positions stay inside
their packets (they end in the size of a `memcpy`), and only the end of a burst is short.
`ReadTimestampIsFirstSample`: time survives cutting, waiting and overflow.
`AcceptedIsQueued`: what `Write` reported is in the ring, without holes.
`ImplementsPacketQueue`: refinement of `PacketQueue` under `Contents`, the packets from
the head on without what has been read of the first. `CallsReturn`.

*Streams.* `FifosOutliveLoops`, `PacketShapesAgree`, `LoopsServeActiveStreams` and
`CallsReturn`.

*Transmit loop.* `SamplesLeaveAtTheirTime`, `SentOnceInOrder`, `BatchesAreContiguous`,
`EverythingIsSent`, `LoopEnds`.

*Receive loop.* `ParsedInOrder`, `BuffersAreExclusive` (nothing is in flight either once the
loop has ended), `ContextsAreHeld`, `LossIsCounted`, `TransferredIsParsed`, `LoopEnds`.

*Control port.* `AnswersMatch`, `SuccessMeansDone`, `FailureLeavesPrefix`,
`ReadDataInPlace` (the caller's place `4*i` holds the answer to block `i`),
`CallsReturn`.

*SoapySDR stream.* `SamplesAreWhereTheyBelong`: the k-th sample returned in each channel is that
of the time returned plus k, unless the call was misled as said above. `EndBurstOnLast`,
`TimedStartsOnTime`, `CallsReturn`.

*MCU.* `OwnStatus`: what a call takes for its answer is the status of its own procedure, or
that it timed out. `OwnParameters`: a procedure runs with the clock, bandwidth and
loopback of the call that asked for it. `StopEndsAgc`: after `AGCStop` gain control ends.

*Chip registers.* `SuccessMeansSame`: a call that reports success leaves chip and map alike
in what it was to bring into line; a load also makes them what the file says, with the DC
values latched. `ChannelRestored`: the same channel in chip and map, the one from before
unless 0x0020 could not be read. `TestRestores`: the register test leaves no trace.

*Tuning.* `TuneFindsMiddle`: the searches return success exactly when a code locks, and leave
the middle one (SX) or one three codes from either end (CGEN), but for the edges it names.
`FrequencyLocks`: success means that the VCO left selected locks with the code left set,
also when both come from the cache.

For each property of a passing run `PROJECT.json` has a mutant of the code's model, the
way a plausible bug would change it, under which TLC finds the property violated.

### Bounds, and why they are enough

* *FIFO*: packets of 2 and 3 samples and 2 or 3 slots (a resize changes both), buffers of
  1, 4 and 7 samples: shorter than a packet, and longer by one or more whole packets and
  a rest. `MaxTime` and `MaxCounter` stop the producer; within them the ring fills, wraps
  and overflows with a partly read head. The proofs drop these bounds.
* *Streams*: the code's own two channels and two directions, no bound at all.
* *Transmit loop*: four packets, batches of two, two buffers: a batch ends full, short, by
  a burst, and by a time-out, and buffers go round twice. The numbers of bytes are the
  code's.
* *Receive loop*: two buffers, five packets, two failures: both contexts may be lost and
  found again in either order, with drops on each side.
* *Control port*: requests at, below and above the size of a packet for each class of
  command; two threads.
* *SoapySDR stream*: two channels, packets of two samples, FIFOs of two packets, reads of two
  and three samples, seven packets, given or dropped, a start anew at time 0 among them: a
  read ends in the middle of a packet, spans two, waits in the middle, and
  meets a gap of its own and one of a channel before it. The proofs drop these bounds.
* *MCU*: three calls, so that one may leave a procedure running, a second meet it, and a
  third be asked after both; two calibrations that differ in every byte they send.
* *Chip registers*: two values tell a default from a change, and a channel from the other.
  Calls may follow one another without end. A file has any values and any selection.
* *Tuning*: intervals whose ends are at the places where the searches turn, and around
  them. The proofs cover all 33 000 intervals, and any bias currents and calls.

### Assumptions on the environment, and what fails without them

All but the last five are CONSTANTS, which a reader may change in a copy of the
configuration.

* `QuietResize = TRUE`: nobody resizes a FIFO under a call. `UpdateThreads` resizes only
  when no loop runs, but nothing keeps the application from calling `Read` or `Write`
  meanwhile. With `FALSE`, `RingOK` fails: a `Write` that gets the lock between the two
  critical sections of `Resize` leaves a position that does not fit the new slots.
* `Liberties = {}`: with `"close"`, one of two active receive streams is closed while the loop
  goes on for the other and may be between its check and `push_packet`: `FifosOutliveLoops`
  fails. With `"setup"`, a channel already used in the other direction is set up while two
  channels stream, which stops nothing, and its FIFO has packets of another length than
  the loop takes: `PacketShapesAgree` fails.
* One transmit channel. With two (`Used = {0, 1}`, `chCount = 2`), a pass in which one
  channel's pop timed out sends the other's new samples beside the first one's old ones:
  `SamplesLeaveAtTheirTime` fails.
* `FirstCounter = 0`: the receive loop compares the first packet with a counter of zero, though
  the board is reset only when nothing runs. With 2, `LossIsCounted` fails.
* `SlowCancel = FALSE`: a cancelled transfer ends within the 250 ms that `AbortReading`
  waits. With `TRUE`, `BuffersAreExclusive` fails.
* `LateAnswers = FALSE`: what has not been answered at the time-out never is. With
  `TRUE`, `AnswersMatch` fails, for the protocol has no request number.
* `Refusable <- Short`: the board refuses only requests of one packet. With all of them,
  `SuccessMeansDone` fails: every answer's status overwrites the one before it.
* `MayOverflow = {2}`: only the channel read last loses packets; see `soapy_overflow`.
* `StackBits = {FALSE}`: bits of `metadata.flags` nobody has written read as zero. `readStream`
  leaves the variable uninitialised (Streaming.cpp:388) and the FIFO only adds to it; with
  `TRUE` possible, `EndBurstOnLast` fails.
* `Failing` without `"select"` and `"0020"`: `SetActiveChannel` does not look at the outcome of
  its write, and a copy not at that of `UploadAll`. If a selection may fail,
  `SuccessMeansSame` and `ChannelRestored` do; if the write of 0x0020 after A's registers may,
  `ChannelRestored` does.
  The proof of `TestRestores` needs that or `"read" \notin Failing`: a selection that failed
  unnoticed, and later a read of 0x0020 that fails, have `RegistersTest` back up the wrong
  channel.
* `~misled`, in `SamplesAreWhereTheyBelong` and `TimedStartsOnTime`: no `Read` has a gap
  inside and no head at time 0 is replaced by a later one. If gaps are allowed, a packet that
  the board or a FIFO lost between two that one `Read` copies puts what follows it under a
  wrong time, in one channel or in all; if heads at time 0 are, channels come back apart, as
  under "Observations". Gaps violate both properties, the second only of a
  stream of one channel at the run's sizes; heads at time 0 violate the first.
* `~blind`, in `ChannelRestored` (for the channel before the call), `TestRestores` (for the
  channel) and `SuccessMeansSame` (for a saved file): no read has failed in the call.
* `AboveFirstCodes` (in `LMS7002M_proofs`): no VCO locks with code 0 or with 0 and 1 only.
  `Ranges` of the `vco` run keep to it. With the interval 0..1 added to `VcoRanges`,
  `FrequencyLocks` fails: the search finds code 0, whose score, -128, is that of a VCO that does not lock
  (LMS7002M.cpp:1575, 1584); the tie selects the highest VCO (1598-1611), and `SetFrequencySX`
  returns "0-success" (1482) with an oscillator that does not lock, and caches it. With
  0..0, it returns an error although a VCO locks.
* `Settled` (in `McuProcedures`): outside procedures the MCU is quicker than the driver's
  sleeps. Otherwise a request that arrives while main is finishing is swallowed, and so is
  a stop that arrives between picking a procedure up and clearing `stopProcedure`.
* One thread makes the calls on a chip, an MCU or a SoapySDR stream: the first two have no
  lock, and `readStream` does not take the one that the stream has.

### Observations

Behaviour the modules keep as the code has it, and that a reader might not expect.

* Writer and transmit loop may sleep at the same time: one condition variable and
  `notify_one` let a notification wake a thread it is not meant for. `CallsReturn` in `fifo_tx`
  shows that the time-outs end it.
* `UploadAll` tests the status of an earlier write after it has selected B (LMS7002M.cpp:
  2400-2402), so it does not notice a selection that failed; `ResetChip` gives the map its
  defaults even when the reset failed; `Modify_SPI_Reg_bits` does not notice a failed read.
  A call whose read of 0x0020 fails in `GetActiveChannel` (216-220) takes 0 for the channel
  before, selects it when it ends, and returns 0: MAC is then 0, no channel is
  selected, and registers from 0x0100 on read as nothing until someone selects one.
  `LoadConfig` and `SaveConfig` look at few of their outcomes, `ResetLogicregisters` is not
  asked for its own, and `LoadConfig` leaves A selected whatever was before.
  `IsSynced` reads B's registers before it
  selects B (2330, 2338); nothing calls it.
* `TuneVCO` returns early without selecting the channel again. An SX that locks at
  code 0 only is missed, and one whose interval ends with 128, the first code of the upper
  half, is left off its middle; `TuneCGENVCO`'s second search wraps below 0.
  `SetFrequencySX` ends after five attempts, before the bias current has
  reached its limit; a tie of scores chooses the highest VCO, also when one of the two is
  code 0, found, and the other a failure (`AboveFirstCodes`).
* The MCU driver's status 255 (still working) is never returned, since a time-out gives
  127; `SetParameter` ignores the outcome of its wait; `AGCStop` takes the SPI back before
  gain control has stored its state; gain control changes MAC behind the driver's map.
* A SoapySDR time stamp of 0 means "none", so a command for time 0 starts at once; and
  so does a head at time 0, the first after a start (Streamer.cpp:607). When the first channel
  has read samples 0 and 1 and the second channel, whose stream started a packet later,
  begins with 2, line 318 sets the head to 2 and leaves the first channel's buffer:
  `readStream` returns 0, 1 and 2, 3 side by side, as of time 2.
* A gap inside one `Read` is copied across: `pop_samples` gives one time for all it returns.

### Fairness

* *FIFO*: strong fairness of each thread's steps, because `std::mutex` is not handed out
  in order and a step is enabled only while the lock is free; weak fairness of deadlines.
  Nothing says that a particular waiter is the one woken.
* *Streams*, *Transmit loop*, *Receive loop*: weak fairness of each thread (a loop's waits
  have time-outs); the board completes what it is sent, and libusb ends what was
  cancelled. Nothing forces an application to call, or a transfer to succeed.
* *Control port*: strong fairness of each call for the lock, weak fairness of the link: it
  executes, refuses or loses what it was given.
* *SoapySDR stream*: weak fairness of the board and of the steps of a call (a `Read` has a
  time-out).
* *MCU*: weak fairness of the driver's thread and of the microcontroller.
* *Chip registers* and *tuning* state no liveness: a call is a finite list of steps.

`CHECK_DEADLOCK FALSE` stands where the system really stops: a loop that was told to end
has ended.

## 4. Proofs

The proofs drop every bound of the runs: they hold for any number of threads, channels,
buffers and packets, any sizes and any requests that the assumptions of the modules allow.
A hypothesis of a theorem is one of the assumptions listed above; the runs show what fails
without it. Each theorem has an inductive invariant, which TLC checked before it was proved.

**RingFIFO** (`RingFIFO_proofs`), given `QuietResize`:

* `TypeCorrect`: `Spec => []TypeOK`. Head and tail never leave the slots allocated.
* `RingSafe`: `Spec => []RingOK`. The argument is the inductive invariant `IInv`. `RingOK`
  alone is not inductive. That the tail's slot is free needs the arithmetic of `Slot`, the
  place of the i-th packet (`TailSlot`, `HeadSlot`: moving the head renumbers the packets);
  that a push never adds an empty packet needs to know what each call still has to do
  (`CallsOK`), and that a receive FIFO has no half-filled slot nor a transmit FIFO a
  half-read one (`DirectionsOK`); that a resize leaves a slot at all needs `CapacityOK`;
  and between the two critical sections of `Resize` nothing is in flight (`ResizeOK`).
  Each way of moving packets is proved once (`EnterRing`, `DropRing`, `LeaveRing`) and
  cited by the actions that use it.
* `RefinesQueue`: `Spec => ImplementsPacketQueue`, the refinement of `PacketQueue`. Under
  `IInv` the mapped sequence is the packets in the ring, the first without what has been
  read of it (`ContentsOK`). With that, each of the queue's actions has a lemma: what adds
  a packet is a `Put` or completes the one that is composed, what reads a part is a `Take`,
  an overflow gives up the oldest, `Clear` and both halves of `Resize` are `Reset`, and the
  waits and notifications leave the queue alone.
* `ReadStamped`: `Spec => []ReadTimestampIsFirstSample`. Every packet in the ring, and every
  packet on its way in, is a run of consecutive samples from its timestamp on (`ReadOK`):
  then the time that `pop_samples` computes for a packet it reads on from is right.
* `AcceptedQueued`: `Spec => []AcceptedIsQueued` for a transmit FIFO with one writer. The ring
  is a chain of runs, each due a whole number of packets after the one before it
  (`QueuedOK`); the open slot, if there is one, ends at the application's time (`OpenOK`); and
  what is left of a `Write` goes on there, or after a jump if nothing is left over
  (`WriterOK`). That the application may go on without a jump is `0 \in Gaps`. With two
  writers each would be told of samples the other's timestamp stands for.

**Streams** (`Streams_proofs`), for any number of channels and formats:

* `LoopsServe`: `Spec => []LoopsServeActiveStreams`, whatever the application does. `Basis` says
  what a call in progress is about to leave running (`CallOK`), and for each step of
  `UpdateThreads` what the loops may then be doing (`ThreadsOK`).
* `FifosOutlive`: `Spec => []FifosOutliveLoops` given `"close" \notin Liberties`. A loop that
  has looked at a channel finds its FIFO because the stream is used as long as the loop may
  be there: `Close` deletes it only after a join, and nobody else is active in that
  direction to have the loop spawned again (`FifoOK`).
* `ShapesAgree`: `Spec => []PacketShapesAgree` given `Liberties = {}`. While something runs,
  FPGA, FIFOs and stream size agree (`ShapeOK`); what a loop read when it began still holds
  (`LoopShapeOK`); and a stream that is set up has the format of the others, while a start
  finds the channels as they were last set up (`SetupOK`).

**TransmitLoop** (`TransmitLoop_proofs`), given `chCount = 1`, for any packets, number of
buffers, size of batch and refusals:

* `LoopInvariant`: every packet popped is in exactly one place, on the wire, refused, in the
  batch or being put together (`Accounted`), in order (`InOrder`); the FIFO holds the
  packets not popped (`FifoOK`), and what a pass has put together is the last one popped
  (`PassOK`), which fails for two channels when one of them times out.
* `SamplesTimely`: `Spec => []SamplesLeaveAtTheirTime`; `SentOnce`: `Spec => []SentOnceInOrder`.
* `BatchContiguous`: `Spec => []BatchesAreContiguous`, for the two formats of the link
  (`LinkFormat`; Streamer.cpp:689 and 745). `SizeOK` says that a packet being put together
  is full or ends a burst, so that only the last of a batch is short. That rounding up to a
  quantum neither loses samples nor exceeds the packet is arithmetic on the code's numbers.

**ReceiveLoop** (`ReceiveLoop_proofs`), for any number of buffers, any drops, failures,
refusals and silent transfers, and a stop at any time:

* `ContextsHeld`: `Spec => []ContextsAreHeld`, from `Holding`: contexts and buffers name one
  another, and a transfer in flight is the only one of its context and its buffer.
* `BuffersExclusive`: `Spec => []BuffersAreExclusive` given `~SlowCancel`. `DrainOK`: nothing is
  given back to the pool while it is in flight.
* `PacketsInOrder`: `Spec => []ParsedInOrder`. Nothing numbers the transfers: that the loop
  parses in order rests on the turn of the buffers in the ring. `TurnsOK` says that libusb's
  queue follows those turns from the buffer the loop looks at next, that the packets in the
  buffers do, and that they come before what is in flight; `ArrivedOK` and `ParsedOK` put
  what has been parsed before both.
* `LossCounted`: `Spec => []LossIsCounted` given `FirstCounter = 0`. The count is the number
  of packets missing below the last one parsed (`LossOK`).

**ControlPort** (`ControlPort_proofs`), given that no answer comes after a time-out:

* `TypeCorrect`: in particular `PreparePacket`'s division never makes an empty packet or
  one too many, for requests of any length (lemma `Packets`).
* `AnswersAreOwn`: `Spec => []AnswersMatch`. Nothing in an answer says whose it is, so the
  invariant has to say what may be on the link at any moment: nothing, or the last packet
  of the lock's holder, or its answer (`LinkOK`), and that the holder is the one thread
  inside its request (`LockOK`).
* `ReadDataFound`: `Spec => []ReadDataInPlace`. Success means an answer for each packet
  (`ProgressOK`), and the answers follow one another without a gap because 14 blocks fit a
  packet whether 2 bytes are sent for a block or 1 (lemma `Places`).
* `SuccessIsDone`: `Spec => []SuccessMeansDone`, and `FailureIsPrefix`:
  `Spec => []FailureLeavesPrefix`, when only requests of one packet may be refused. What the
  board has executed are the first packets of the request, all that were sent but for the
  one under way and a refused one (`ExecutedOK`); the packets' blocks follow one another
  (lemma `BlocksOf`).

**SoapyRead** (`SoapyRead_proofs`), for any number of channels, any sizes and commands:

* `ChannelsAligned`: `Spec => []SamplesAreWhereTheyBelong`, and `TimedOnTime`:
  `Spec => []TimedStartsOnTime`, given that no FIFO but that of the channel read last
  overflows (`MayOverflow \subseteq {Channels}`), whatever the board drops, and of the calls
  that no time has misled, as the properties say. `Basis` holds without the hypothesis: types,
  and that the command in progress agrees with its history. `Order` is about the FIFOs and the
  `Read` under way: the times in them rise but need not be consecutive, and a sample that a
  channel after `a` holds is one that `a` still has or will be given with this packet (`IsOwed`), or
  lies before all that `a` has left (`IsPast`). So the board's gaps are the same in every
  channel, and only the last may have more. `ReadOK` is about the loop over the channels: what
  each buffer holds runs from `requestTime` on (`FilledOK`); channels before `i` have enough;
  one after it holds something only if one of those is full; and what a buffer still lacks can
  still be read, if the channels after it have it (`KnownOK`). The last makes the restart
  after a gap sound, since an earlier channel then meets no gap that a later one has not met
  (`LateFindsNothing`), and is what fails when an earlier FIFO overflows.
* `BurstsEnd`: `Spec => []EndBurstOnLast`, given `StackBits = {FALSE}` and whatever overflows.

**ChipRegisters** (`LMS7002M_proofs`), for any values and patterns, cache on or off:

* `SuccessIsSame`: `Spec => []SuccessMeansSame`, and `ChannelIsRestored`:
  `Spec => []ChannelRestored`, given `Reliable`: writes of 0x0020 alone, which select a channel
  or restore it, do not fail. Reads may, that of 0x0020 among them, and so may batches,
  single writes and the reset.
* `TestIsRestored`: `Spec => []TestRestores`, given `Reliable` or that reads do not fail.

  `Inductive` is by position in the script of a call. `Stage(op, n)` says what is left to do
  before the n-th step, which channel is selected in chip and map, which of their places
  agree already, and what the call remembers (`UploadPos`, `CopyPos`, `DownloadPos`,
  `LookPos`, `SavePos`, `LoadPos`, `TestPos`). `Right` says that a remembered channel is the one
  from before, or a read has failed in this call. `UploadPart` serves an upload and the copy that contains
  one. Between calls chip and map have the same channel selected: without that
  `DownloadAll`, which may ask the map for the channel to restore, would restore another
  (`IdleOK`); that they have is kept also by a read that fails, since what is restored then
  is sent to both. A file may have any channel selected, which the selection of B after it
  makes good. `RegistersTest` alone can do with less: `Trusted` says that either selections do not
  fail or nothing has failed in this call so far. The lemmas `WrittenAt` to `BackSent` say
  what a batch, or the part of it that a failing link lets through, does to a map; no part of a
  batch of M and G can select a channel, which is why a failed upload still restores.

**VcoTuning** (`LMS7002M_proofs`), for every interval of codes:

* `MiddleIsFound`: `Spec => []TuneFindsMiddle` (here and below the specification is
  `TuningSpec`), with no hypothesis. The searches are proved as lemmas about operators.
  `SXFinds`: while bits below `b` of a half are to be tried, `high` is less than `b` below the last
  code that is not too high, and `low` is a code that locks or lies beyond the half
  (`Tried`; `TryOne` halves `b`); going down from `low` then ends at the half's first code
  that locks (`SearchEnds`), but a half whose first code alone locks is not seen (`Finds`).
  `HalvesJoined` puts the two together: the whole interval comes back, without code 128 if it
  ends there, which are the exceptions the property names. `CGENFinds`: with steps below `m`
  left, a code that locks is at most `m - 1` away (`Near`; `MoveNearer`), and the search
  keeps away from both ends far enough for `LowAround` and `HighAround` not to be misled by
  codes that wrap: from 7 on below, and above 255 since they wrap to codes that are too low.
* `FrequencyIsLocked`: `Spec => []FrequencyLocks`, given `AboveFirstCodes`. The invariant,
  `TuningInductive`, says what an attempt knows: a score other than -128 is a code with which
  that VCO locks at the present bias current, `canDeliver` means that there is one, and the
  VCOs tuned without one cannot lock (`AttemptOK`). The bias current, on which all of this
  depends, changes only while there is no score. That the least score in absolute value
  belongs to a VCO that locks (`BestLocks`) needs scores above -128, hence the hypothesis.
  The cache needs no invariant: what comes from it is compared again.

**McuProcedures** (`McuProcedures_proofs`), for any number and order of calls:

* `OwnStatusIs`: `Spec => []OwnStatus`, and `OwnParametersAre`: `Spec => []OwnParameters`. The
  one assumption is `McuAssumption`: what passes the mailbox is a byte, a calibration is
  none of the procedures the driver uses for itself (`Quick`) nor gain control, and those
  in `Quick` end within the time they are given.

  `Inductive` is by position too. When a call begins nothing is known of the MCU but
  `McuOK`: it may be stopped, or run a procedure that an earlier call gave up, or gain
  control. `CheckPos` says what the steps that ask for the program find out: the request
  is on its way, served or over (`Requested`), and an answer other than 255 means that main
  has gone past it (`Gone`); if the MCU does not answer it is programmed anew. Either way it waits
  for a request (`Quiet`) before the first parameter is sent. From there on `Known(m)` says
  which parameters of this call have been stored before its m-th procedure, `Ready(m)` what
  the m-th finds in the firmware's three input bytes, and `Waits`, `Runs` and `Over` how far
  the MCU can be with it. `FreqPos` and `PairPos` follow a frequency, sent last byte first, and
  the loopback pair. Only the fourth procedure may outlast its time, and then the call
  returns `TimedOut` and promises nothing. What the next call meets is covered because `CheckPos`
  asks for so little. Most lemmas prove one step of the driver at one position, or that what
  holds there survives each step of the MCU.

### Only model-checked

Liveness and `ENABLED` are outside the prover: `CallsReturn`, `EverythingIsSent`, `LoopEnds`,
`TransferredIsParsed` and `StopEndsAgc` are model-checked. Every invariant that a passing
run checks is proved, and so is the refinement of the queue.

## 5. Not modelled

Sample values and their conversion (I12/I16, floating point), batch sizes and data rates,
phase alignment of the receive path (Streamer.cpp:302-561), the value of the hardware
time, calibrations and filters (numerical searches over measured values), frequencies and
dividers, and everything that is blocking I/O without a protocol of its own. In
`TransmitLoop` every used channel is active; in `ReceiveLoop` a transfer carries one packet,
and the loss flag for transmit streams (Streamer.cpp:856-868) is left out. Of the SoapySDR
module `writeStream`, direct buffer access and `Settings.cpp` are left out; of the MCU, its
byte-wise debug interface and the programming itself, which is a step that works or fails.

## 6. Plan

Done, in this order: the FIFO and its abstract queue; the FIFO's invariants proved; the
life cycle; the transmit loop; the receive loop on USB transfers; the control port and its
proofs; the SoapySDR stream and its proofs; the MCU; the chip's registers; the tuning; the
refinement of the queue and the proofs of the loops, of the life cycle, of the chip's
registers, of the MCU and of the tuning.

Next:

1. `ProgramWrite` and `ProgramMCU` as clients of `ControlPort`: a programming that shares
   the link without the lock, and a block whose status is the one before's.
2. The FPGA's register cache between its callers and the control port: what the cache
   says is what the board has, unless a write failed or went to another chip.
3. `writeStream` of the SoapySDR module, as the caller of a transmit FIFO.
4. The transmit half of the FX3 transfers, and the FT601's other order of abort.
5. The hardware time across starts (`mTimestampOffset`), batch sizes, and the unlocked
   counters of `GetInfo`.
6. Order of destruction in `LMS7_Device`.

Of the proofs, `TransmitLoop`'s are for one channel; with several, packets of different channels
would have to be followed through the one batch.
