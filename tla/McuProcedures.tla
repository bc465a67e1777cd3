---------------------------- MODULE McuProcedures -----------------------------
(***************************************************************************)
(* The chip's microcontroller at work: the driver's side of a procedure    *)
(* (MCU_BD::RunProcedure, WaitForMCU, SetParameter, and the calls made of  *)
(* them) and the firmware's (mcu_program/mcu_src/main.c), a main loop and  *)
(* two interrupts.  They share the ports P0 and P1 and the switch, in      *)
(* register 0x0006, that gives the chip's SPI to one of them.  Nothing in  *)
(* P1 says which request a status belongs to.                              *)
(*                                                                         *)
(* A call of the driver is the list of the steps it has left to make.  The *)
(* MCU is slow only in procedures: an interrupt is served, a request is    *)
(* picked up and one that is over is ticked off while the driver sleeps or *)
(* hands over the switch (Settled).  A frequency is the three bytes that   *)
(* it is sent as; one thread makes the calls.                              *)
(***************************************************************************)
EXTENDS Integers, Sequences

CONSTANTS Calls,     \* what is called: [kind, id, ref, bw, pair, data]
          MaxCalls,  \* bound: how many calls are made
          Slow,      \* the procedures that may outlast the time they are given
          Failures   \* the statuses besides "no error" that a procedure may end with

\* MCU procedures (mcu_programs.h).
Stop == 0             UpdateBW == 3      UpdateRefClk == 4   ProxyWrite == 7
ProxyRead == 8        SetLoopback == 9   AGC == 10           GetProgramID == 255

Quick == {Stop, UpdateBW, UpdateRefClk, ProxyWrite, ProxyRead, SetLoopback, GetProgramID}

MCU_IDLE == 0
MCU_WORKING == 255
TimedOut == 127       \* MCU_WORKING & 0x7F
ProgramID == 5        \* MCU_ID_CALIBRATIONS_SINGLE_IMAGE
NotProgrammed == -1   \* the error of Program_MCU
Mismatch == -1        \* SPI_write found another value in 0x040B
None == 0             \* no loopback pair, or no data

Bytes == 0..255
Kinds == {"calibrate", "agcStart", "agcStop", "write", "read"}

ASSUME McuAssumption ==
    /\ \A c \in Calls :
          /\ c.kind \in Kinds
          /\ {c.id, c.pair, c.data} \subseteq Bytes
          /\ {c.ref, c.bw} \subseteq Seq(Bytes) /\ Len(c.ref) = 3 /\ Len(c.bw) = 3
          /\ c.kind = "calibrate" => c.id \notin Quick \cup {AGC}
    /\ MaxCalls \in Nat /\ Failures \subseteq 1..126
    /\ Slow \cap Quick = {}

VARIABLES script,      \* the steps the call has left
          call, calls, \* the call, and its number
          value,       \* what WaitForMCU has returned
          result,      \* what the call returned
          \* chip
          mcuHasSPI, P0, P1,
          latched,     \* interrupts requested and not served
          reg020C, reg040B, reg0640,
          \* firmware
          alive, main, currentInstruction, runProcedure, stopProcedure,
          inputRegs, RefClk, bandwidthRF, extLoopbackPair,
          \* history: the call that asked last; what main works on, what it finished last
          asked, doing, finished

driver == <<script, call, calls, value, result>>
request == <<P0, latched>>
regs == <<reg020C, reg040B, reg0640>>
control == <<alive, main, currentInstruction, runProcedure, stopProcedure>>
params == <<inputRegs, RefClk, bandwidthRF, extLoopbackPair>>
history == <<asked, doing, finished>>
firmware == <<request, P1, control, params>>
vars == <<driver, mcuHasSPI, regs, firmware, history>>

NoWork == [call |-> 0, id |-> Stop, ref |-> <<0, 0, 0>>, bw |-> <<0, 0, 0>>, pair |-> None,
           bus |-> FALSE, status |-> MCU_IDLE]

Init == /\ script = <<>> /\ calls = 0 /\ value = 0 /\ result = 0
        /\ call \in Calls
        /\ mcuHasSPI = FALSE /\ P0 = 0 /\ P1 = MCU_IDLE /\ latched = {}
        /\ reg020C = None /\ reg040B = None /\ reg0640 = None
        /\ alive = FALSE /\ main = "poll" /\ currentInstruction = Stop
        /\ runProcedure = FALSE /\ stopProcedure = FALSE
        /\ inputRegs = <<0, 0, 0>> /\ RefClk = <<0, 0, 0>> /\ bandwidthRF = <<0, 0, 0>>
        /\ extLoopbackPair = None
        /\ asked = 0 /\ doing = NoWork /\ finished = NoWork

-----------------------------------------------------------------------------
\* The calls, and the steps they are made of.

Do(op, arg) == [op |-> op, arg |-> arg]

RunProcedure(id) == <<Do("switch", TRUE), Do("P0", id), Do("pulse", 3), Do("sleep", 0)>>

WaitForMCU == <<Do("sleep", 0), Do("poll", 0), Do("switch", FALSE)>>

SendByte(b) == <<Do("P0", b), Do("pulse", 2), Do("sleep", 0)>>

\* Mutant: the integer part first.
FrequencyForwards(f, id) == SendByte(f[1]) \o SendByte(f[2]) \o SendByte(f[3])
                            \o RunProcedure(id) \o WaitForMCU

\* SetParameter, of MCU_REF_CLK or MCU_BW, and of MCU_EXT_LOOPBACK_PAIR.
SetFrequency(f, id) == SendByte(f[3]) \o SendByte(f[2]) \o SendByte(f[1])
                       \o RunProcedure(id) \o WaitForMCU

SetPair(pair) == <<Do("P0", pair), Do("pulse", 2)>> \o WaitForMCU
                 \o RunProcedure(SetLoopback) \o WaitForMCU

\* Mutant: whatever answers will do.
AnyProgram == RunProcedure(GetProgramID) \o WaitForMCU

\* "if(mcuID != MCU_ID_CALIBRATIONS_SINGLE_IMAGE)" program it.
CheckProgram == RunProcedure(GetProgramID) \o WaitForMCU \o <<Do("check", 0)>>

\* CalibrateTx, CalibrateRx, TuneTxFilter and TuneRxFilter.
Calibrate(c) == CheckProgram
                \o SetFrequency(c.ref, UpdateRefClk) \o SetFrequency(c.bw, UpdateBW)
                \o (IF c.pair = None THEN <<>> ELSE SetPair(c.pair))
                \o RunProcedure(c.id) \o WaitForMCU \o <<Do("return", 0)>>

MCU_AGCStart(c) == <<Do("switch", FALSE)>> \o CheckProgram
                   \o SetFrequency(c.ref, UpdateRefClk)
                   \o RunProcedure(AGC) \o <<Do("return", 0)>>

MCU_AGCStop == RunProcedure(Stop) \o <<Do("switch", FALSE), Do("return", 0)>>

\* SPI_write and SPI_read of 0x0640 or 0x0641.
SPI_write(c) == CheckProgram \o <<Do("020C", c.data)>>
                \o RunProcedure(ProxyWrite) \o WaitForMCU \o <<Do("return", 0)>>

SPI_read == CheckProgram \o RunProcedure(ProxyRead) \o WaitForMCU \o <<Do("return", 0)>>

StepsOf(c) == CASE c.kind = "calibrate" -> Calibrate(c)
                [] c.kind = "agcStart" -> MCU_AGCStart(c)
                [] c.kind = "agcStop" -> MCU_AGCStop
                [] c.kind = "write" -> SPI_write(c)
                [] c.kind = "read" -> SPI_read

Returned == script = <<>> /\ calls > 0

Begin == /\ script = <<>> /\ calls < MaxCalls
         /\ \E c \in Calls : call' = c /\ script' = StepsOf(c)
         /\ calls' = calls + 1
         /\ UNCHANGED <<value, result, mcuHasSPI, regs, firmware, history>>

-----------------------------------------------------------------------------
\* The driver's steps.

At(op) == script # <<>> /\ Head(script).op = op
arg == Head(script).arg
Done == script' = Tail(script) /\ UNCHANGED <<call, calls>>

\* What an MCU that is not in a procedure has had the time for.
Settled == alive => /\ latched = {} /\ main # "clear"
                    /\ ~(main = "poll" /\ runProcedure)

SetSwitch == /\ At("switch") /\ Settled
             /\ Done
             /\ mcuHasSPI' = arg
             /\ doing' = [doing EXCEPT !.bus = @ /\ arg]
             /\ UNCHANGED <<value, result, regs, firmware, asked, finished>>

WriteP0 == /\ At("P0")
           /\ Done
           /\ P0' = arg
           /\ UNCHANGED <<value, result, mcuHasSPI, latched, P1, regs, control, params, history>>

\* The pulse of EXT_INT2 or EXT_INT3 in register 0x0002.
Pulse == /\ At("pulse")
         /\ Done
         /\ latched' = IF alive THEN latched \cup {arg} ELSE latched
         /\ asked' = IF arg = 3 THEN calls ELSE asked
         /\ UNCHANGED <<value, result, mcuHasSPI, P0, P1, regs, control, params, doing, finished>>

Sleep == /\ At("sleep") /\ Settled
         /\ Done
         /\ UNCHANGED <<value, result, mcuHasSPI, regs, firmware, history>>

\* The time-out ends the polling of a slow procedure, or of one nobody will answer.
Unanswered == \/ main = "busy" /\ currentInstruction \in Slow
              \/ main = "poll" /\ ~runProcedure
              \/ ~alive

Poll == /\ At("poll")
        /\ P1 # MCU_WORKING \/ Unanswered
        /\ Done
        /\ value' = IF P1 = MCU_WORKING THEN TimedOut ELSE P1
        /\ UNCHANGED <<result, mcuHasSPI, regs, firmware, history>>

Check == /\ At("check")
         /\ script' = IF value = ProgramID THEN Tail(script)
                      ELSE <<Do("program", 0)>> \o Tail(script)
         /\ UNCHANGED <<call, calls, value, result, mcuHasSPI, regs, firmware, history>>

\* Program_MCU resets the MCU, which then runs what it has been sent.
Program ==
    /\ At("program")
    /\ alive' = TRUE /\ P1' = MCU_IDLE /\ main' = "poll" /\ latched' = {}
    /\ runProcedure' = FALSE /\ stopProcedure' = FALSE
    /\ Done
    /\ UNCHANGED <<value, result, mcuHasSPI, P0, regs, currentInstruction, params, history>>

\* "return status", but SPI_write and SPI_read do not look at it.
ProgramFails ==
    /\ At("program")
    /\ alive' = FALSE /\ P1' = MCU_IDLE /\ main' = "poll" /\ latched' = {}
    /\ runProcedure' = FALSE /\ stopProcedure' = FALSE
    /\ IF call.kind \in {"calibrate", "agcStart"}
       THEN script' = <<>> /\ result' = NotProgrammed
       ELSE script' = Tail(script) /\ UNCHANGED result
    /\ UNCHANGED <<call, calls, value, mcuHasSPI, P0, regs, currentInstruction, params, history>>

Write020C == /\ At("020C")
             /\ Done
             /\ reg020C' = arg
             /\ UNCHANGED <<value, result, mcuHasSPI, reg040B, reg0640, firmware, history>>

Return == /\ At("return")
          /\ Done
          /\ result' = CASE call.kind = "calibrate" -> value
                         [] call.kind = "write" -> IF reg040B = call.data THEN 0 ELSE Mismatch
                         [] call.kind = "read" -> reg040B
                         [] OTHER -> 0
          /\ UNCHANGED <<value, mcuHasSPI, regs, firmware, history>>

-----------------------------------------------------------------------------
\* The firmware: interrupts 7 and 8, and main.

ext2_int == /\ alive /\ 2 \in latched
            /\ inputRegs' = <<P0, inputRegs[1], inputRegs[2]>>
            /\ P1' = MCU_IDLE
            /\ latched' = latched \ {2}
            /\ UNCHANGED <<driver, mcuHasSPI, P0, regs, control, RefClk, bandwidthRF,
                           extLoopbackPair, history>>

\* Mutant: a request does not stop what is running.
RequestOnly == /\ alive /\ 3 \in latched
               /\ P1' = MCU_WORKING
               /\ currentInstruction' = P0
               /\ runProcedure' = TRUE
               /\ latched' = latched \ {3}
               /\ UNCHANGED <<driver, mcuHasSPI, P0, regs, alive, main, stopProcedure, params,
                              history>>

ext3_int == /\ alive /\ 3 \in latched
            /\ P1' = MCU_WORKING
            /\ currentInstruction' = P0
            /\ stopProcedure' = TRUE /\ runProcedure' = TRUE
            /\ latched' = latched \ {3}
            /\ UNCHANGED <<driver, mcuHasSPI, P0, regs, alive, main, params, history>>

\* "if(runProcedure) switch(currentInstruction)"
PickUp == /\ alive /\ main = "poll" /\ runProcedure
          /\ main' = "busy"
          /\ doing' = [call |-> asked, id |-> currentInstruction, ref |-> RefClk,
                       bw |-> bandwidthRF, pair |-> extLoopbackPair, bus |-> mcuHasSPI,
                       status |-> MCU_WORKING]
          /\ IF currentInstruction = AGC
             THEN P1' = MCU_IDLE /\ stopProcedure' = FALSE
             ELSE UNCHANGED <<P1, stopProcedure>>
          /\ UNCHANGED <<driver, mcuHasSPI, request, regs, alive, currentInstruction,
                         runProcedure, params, asked, finished>>

\* What a procedure leaves in P1.
Statuses(id) == CASE id = GetProgramID -> {ProgramID}
                  [] id \in Quick \ {GetProgramID} -> {MCU_IDLE}
                  [] OTHER -> {MCU_IDLE} \cup Failures

\* A procedure returns; RunAGC only when it is told to stop.
Finish ==
    /\ alive /\ main = "busy"
    /\ doing.id = AGC => stopProcedure
    /\ \E status \in Statuses(doing.id) :
          /\ P1' = status
          /\ finished' = [doing EXCEPT !.status = status]
    /\ main' = "clear"
    /\ RefClk' = IF doing.id = UpdateRefClk THEN inputRegs ELSE RefClk
    /\ bandwidthRF' = IF doing.id = UpdateBW THEN inputRegs ELSE bandwidthRF
    /\ extLoopbackPair' = IF doing.id = SetLoopback THEN inputRegs[1] ELSE extLoopbackPair
    /\ reg0640' = IF doing.id = ProxyWrite /\ doing.bus THEN reg020C ELSE reg0640
    /\ reg040B' = IF doing.id = ProxyRead /\ doing.bus THEN reg0640 ELSE reg040B
    /\ UNCHANGED <<driver, mcuHasSPI, request, reg020C, alive, currentInstruction, runProcedure,
                   stopProcedure, inputRegs, asked, doing>>

\* "runProcedure = false", also of a request made since.
Clear == /\ alive /\ main = "clear"
         /\ main' = "poll" /\ runProcedure' = FALSE
         /\ UNCHANGED <<driver, mcuHasSPI, request, P1, regs, alive, currentInstruction,
                        stopProcedure, params, history>>

-----------------------------------------------------------------------------
DriverStep == \/ SetSwitch \/ WriteP0 \/ Pulse \/ Sleep \/ Poll \/ Check
              \/ Program \/ ProgramFails \/ Write020C \/ Return

McuStep == ext2_int \/ ext3_int \/ PickUp \/ Finish \/ Clear

Next == Begin \/ DriverStep \/ McuStep

Spec == Init /\ [][Next]_vars

\* A call goes on, and the MCU runs.
FairSpec == Spec /\ WF_vars(DriverStep) /\ WF_vars(McuStep)

-----------------------------------------------------------------------------
\* Properties.

Answered == Returned /\ call.kind = "calibrate" /\ result \notin {TimedOut, NotProgrammed}

\* The status of a calibration, when it is one, is of the procedure this call asked for,
\* also when an earlier call has given up on an MCU that answers afterwards.
OwnStatus == Answered => finished.call = calls /\ finished.id = call.id
                         /\ finished.status = result

\* It ran with the clock, the bandwidth and the loopback pair of this call, and had the
\* chip's SPI to itself from its beginning to its end.
OwnParameters == Answered => /\ finished.ref = call.ref /\ finished.bw = call.bw
                             /\ call.pair # None => finished.pair = call.pair
                             /\ finished.bus

\* Gain control ends after MCU_AGCStop: also when the stop comes as the first request it
\* sees, and although nothing waits for it.
AgcRuns == main = "busy" /\ doing.id = AGC
StopEndsAgc == (Returned /\ call.kind = "agcStop") ~> ~AgcRuns

\* A call of SPI_write is over with 0 if and only if the register was written:
\* "@return 0-succes, other-failure" (LMS7002M.cpp:1904).
WriteReported == Returned /\ call.kind = "write" => (result = 0 <=> reg0640 = call.data)
=============================================================================
