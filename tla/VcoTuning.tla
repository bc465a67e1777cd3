------------------------------ MODULE VcoTuning -------------------------------
(***************************************************************************)
(* Tuning the oscillators of the LMS7002M (LMS7002M.cpp): the search for a *)
(* code with which a VCO locks (TuneVCO, for the SX modules; TuneCGENVCO), *)
(* and the choice among the SX's three VCOs with retries at a higher bias  *)
(* current and a cache of earlier results (SetFrequencySX).                *)
(*                                                                         *)
(* All the driver learns of a VCO are two comparators: 0, the code is too  *)
(* low; 3, it is too high; 2, the VCO locks.  At a frequency, the codes    *)
(* that lock are an interval lo..hi, empty when lo = hi + 1.  Frequencies, *)
(* dividers and settling times are left out.  No name is that of one in    *)
(* ChipRegisters, the other half of the class: a module may extend both.   *)
(***************************************************************************)
EXTENDS Integers

CONSTANTS Freqs,       \* the frequencies asked for
          AllRanges,   \* the intervals that a single search is tried on
          Ranges,      \* the intervals of the three VCOs in SetFrequencySX
          Biases,      \* ICT_VCO to begin with
          Needs,       \* the bias currents from which a VCO oscillates
          CacheUses,   \* the values useCache may have
          MaxCalls     \* bound: calls of SetFrequencySX

Codes == 0..255
Vcos == 0..2
Intervals == {r \in [lo : 0..256, hi : -1..255] : r.lo <= r.hi + 1}

ASSUME TuningAssumption ==
    /\ AllRanges \subseteq Intervals /\ Ranges \subseteq Intervals
    /\ Biases \subseteq Codes /\ Needs \subseteq Codes
    /\ CacheUses \subseteq BOOLEAN
    /\ MaxCalls \in Nat

VARIABLES request,    \* the call and the VCOs it finds; or "idle"
          sel_vco,    \* SEL_VCO
          csw,        \* CSW_VCO, or of the single search
          bias,       \* ICT_VCO
          tuneScore,
          canDeliver, \* canDeliverFrequency
          attempt,    \* the loops of SetFrequencySX: i, and the next VCO
          tuning,     \* tuning_cache: what was found for a frequency
          usesCache,  \* useCache
          status,     \* what the call returned
          calls

registers == <<sel_vco, csw, bias>>
search == <<tuneScore, canDeliver, attempt>>
tuningVars == <<request, registers, search, tuning, usesCache, status, calls>>

Unknown == [sel_vco |-> -1, csw |-> -1]
NoScore == [v \in Vcos |-> -128]
Start == [i |-> 0, vco |-> 0]
Silent == [lo |-> 256, hi |-> 255]

TuningInit == /\ request = [op |-> "none"]
              /\ sel_vco = 2 /\ csw = 128 /\ bias \in Biases
              /\ tuneScore = NoScore /\ canDeliver = FALSE /\ attempt = Start
              /\ tuning = [f \in Freqs |-> Unknown] /\ usesCache \in CacheUses
              /\ status = 0 /\ calls = 0

-----------------------------------------------------------------------------
\* The searches, as functions of the interval r that locks.

\* External: the comparators, for a value written into the eight bits of the code.
Comparators(r, value) == IF value % 256 < r.lo THEN 0 ELSE IF value % 256 > r.hi THEN 3 ELSE 2

Locks(r, value) == Comparators(r, value) = 2

\* C's division by two.
Half(n) == IF n < 0 THEN -((-n) \div 2) ELSE n \div 2

\* A bit of the code is tried; low is the lowest code seen to lock.
TryCode(r, s, code) == [high |-> IF Comparators(r, code) = 3 THEN s.high ELSE code,
                        low |-> IF Locks(r, code) /\ code < s.low THEN code ELSE s.low]

TryBit(r, s, bit) == TryCode(r, s, s.high + bit)

\* From the highest bit to the lowest.
TryBits(r, s) ==
    TryBit(r, TryBit(r, TryBit(r, TryBit(r, TryBit(r, TryBit(r, TryBit(r,
        s, 64), 32), 16), 8), 4), 2), 1)

\* Then low goes down while it locks.
Lowest(r, s, bottom) ==
    IF s.low > s.high THEN s.low
    ELSE CHOOSE n \in bottom..s.low :
            /\ \A k \in n..(s.low - 1) : Locks(r, k)
            /\ n = bottom \/ ~Locks(r, n - 1)

Lowered(r, s, bottom) == [high |-> s.high, low |-> Lowest(r, s, bottom)]

\* "search intervals [0-127][128-255]"
SearchHalf(r, t) ==
    Lowered(r, TryBits(r, [high |-> 128 * t, low |-> 128 * (t + 1)]), 128 * t)

\* Mutant: two halves of one interval are not joined.
WiderHalf(a, b) == IF b.high - b.low > a.high - a.low THEN b ELSE a

\* "check if the intervals are joined", else "compare which interval is wider"
BothHalves(a, b) == IF a.high = b.low - 1 THEN [high |-> b.high, low |-> a.low]
                    ELSE IF b.high - b.low > a.high - a.low THEN b ELSE a

\* "check which of two values really locks"
MiddleOf(r, s) == IF s.high - s.low # 1 THEN s.low + Half(s.high - s.low)
                  ELSE IF Locks(r, s.low) THEN s.low ELSE s.high

\* TuneVCO of an SX: the code that it leaves, after "check if lock is within VCO range".
CodeOfSX(r) == IF Comparators(r, 0) = 3 THEN 0
               ELSE IF Comparators(r, 255) = 0 THEN 255
               ELSE MiddleOf(r, BothHalves(SearchHalf(r, 0), SearchHalf(r, 1)))

\* TuneCGENVCO: "find lock"; once a code locks, further steps leave it alone.
Move(r, code, step) == CASE Comparators(r, code) = 0 -> code + step
                         [] Comparators(r, code) = 3 -> code - step
                         [] OTHER -> code

FindLock(r) ==
    Move(r, Move(r, Move(r, Move(r, Move(r, Move(r, Move(r,
        127, 64), 32), 16), 8), 4), 2), 1)

\* "search around (+/-7)": below, whatever is not too low is taken to lock.
Down(r, n, step) == IF Comparators(r, n - step) # 0 THEN n - step ELSE n
Up(r, n, step) == IF Locks(r, n + step) THEN n + step ELSE n

LowAround(r, code) == Down(r, Down(r, Down(r, code, 4), 2), 1)
HighAround(r, code) == Up(r, Up(r, Up(r, code, 4), 2), 1)

MiddleAround(r, code) == Half(HighAround(r, code) + LowAround(r, code)) % 256

CodeOfCGEN(r) == MiddleAround(r, FindLock(r))

\* What the search of an SX leaves, of every interval there is.
SXCode == [r \in AllRanges \cup Ranges \cup {Silent} |-> CodeOfSX(r)]

Status(r, code) == IF Locks(r, code) THEN 0 ELSE -1

-----------------------------------------------------------------------------
\* The calls.

NoCall == request.op = "none"

\* A single search.
TuneVCO(r) == /\ NoCall /\ calls = 0
              /\ request' = [op |-> "tunedSX", range |-> r]
              /\ csw' = SXCode[r]
              /\ status' = Status(r, SXCode[r])
              /\ UNCHANGED <<sel_vco, bias, search, tuning, usesCache, calls>>

TuneCGENVCO(r) == /\ NoCall /\ calls = 0
                  /\ request' = [op |-> "tunedCGEN", range |-> r]
                  /\ csw' = CodeOfCGEN(r)
                  /\ status' = Status(r, CodeOfCGEN(r))
                  /\ UNCHANGED <<sel_vco, bias, search, tuning, usesCache, calls>>

\* What the comparators show of VCO v with the bias current of now.
RangeOf(v) == IF bias >= request.needs[v] THEN request.ranges[v] ELSE Silent

\* SetFrequencySX; the VCOs are what temperature and frequency have made of them.
SetFrequencySX(f, ranges, needs) ==
    /\ NoCall /\ calls < MaxCalls
    /\ calls' = calls + 1
    /\ request' = [op |-> "set", freq |-> f, ranges |-> ranges, needs |-> needs]
    /\ UNCHANGED <<registers, search, tuning, usesCache, status>>

Return(outcome) == /\ request' = [request EXCEPT !.op = "returned"]
                   /\ status' = outcome

InCache == request.op = "set" /\ usesCache /\ tuning[request.freq] # Unknown

\* Mutant: the cache is trusted.
FastTuneUnchecked == /\ InCache
                     /\ sel_vco' = tuning[request.freq].sel_vco
                     /\ csw' = tuning[request.freq].csw
                     /\ Return(0)
                     /\ UNCHANGED <<bias, search, tuning, usesCache, calls>>

\* "try setting tuning values from the cache, if it fails perform full tuning"
FastTune ==
    LET known == tuning[request.freq]
    IN  /\ InCache
        /\ sel_vco' = known.sel_vco /\ csw' = known.csw
        /\ IF Locks(RangeOf(known.sel_vco), known.csw)
           THEN Return(0)
           ELSE request' = [request EXCEPT !.op = "tune"] /\ UNCHANGED status
        /\ UNCHANGED <<bias, search, tuning, usesCache, calls>>

NoFastTune == /\ request.op = "set" /\ ~InCache
              /\ request' = [request EXCEPT !.op = "tune"]
              /\ UNCHANGED <<registers, search, tuning, usesCache, status, calls>>

\* One of the three VCOs in one of five attempts.
TuneNext ==
    LET v == attempt.vco
        code == SXCode[RangeOf(v)]
        locks == Locks(RangeOf(v), code)
    IN  /\ request.op = "tune" /\ v \in Vcos
        /\ sel_vco' = v /\ csw' = code
        /\ tuneScore' = IF locks THEN [tuneScore EXCEPT ![v] = code - 128] ELSE tuneScore
        /\ canDeliver' = (canDeliver \/ locks)
        /\ attempt' = [attempt EXCEPT !.vco = v + 1]
        /\ UNCHANGED <<request, bias, tuning, usesCache, status, calls>>

MaxBias == 255

\* "retry with higher bias current"
Retry == /\ request.op = "tune" /\ attempt.vco \notin Vcos
         /\ ~canDeliver /\ attempt.i < 5 /\ bias # MaxBias
         /\ bias' = IF bias + 32 > MaxBias THEN MaxBias ELSE bias + 32
         /\ attempt' = [i |-> attempt.i + 1, vco |-> IF attempt.i = 4 THEN 3 ELSE 0]
         /\ UNCHANGED <<request, sel_vco, csw, tuneScore, canDeliver, tuning, usesCache,
                        status, calls>>

Abs(n) == IF n < 0 THEN -n ELSE n

\* "best is closest to 0"
BestScore == LET score(v) == Abs(tuneScore[v])
             IN  IF score(0) < score(1) THEN (IF score(0) < score(2) THEN 0 ELSE 2)
                 ELSE IF score(1) < score(2) THEN 1 ELSE 2

SelectVco == /\ request.op = "tune" /\ attempt.vco \notin Vcos
             /\ canDeliver \/ attempt.i = 5 \/ bias = MaxBias
             /\ sel_vco' = BestScore
             /\ csw' = tuneScore[BestScore] + 128
             /\ LET found == [sel_vco |-> sel_vco', csw |-> csw']
                IN  tuning' = IF usesCache /\ canDeliver
                              THEN [tuning EXCEPT ![request.freq] = found]
                              ELSE tuning
             /\ Return(IF canDeliver THEN 0 ELSE -1)
             /\ UNCHANGED <<bias, search, usesCache, calls>>

\* The caller goes on; the search's variables are gone.
Done == /\ request.op = "returned"
        /\ request' = [op |-> "none"]
        /\ tuneScore' = NoScore /\ canDeliver' = FALSE /\ attempt' = Start
        /\ UNCHANGED <<registers, tuning, usesCache, status, calls>>

TuningNext == \/ \E r \in AllRanges : TuneVCO(r) \/ TuneCGENVCO(r)
              \/ \E f \in Freqs, ranges \in [Vcos -> Ranges], needs \in [Vcos -> Needs] :
                    SetFrequencySX(f, ranges, needs)
              \/ FastTune \/ NoFastTune \/ TuneNext \/ Retry \/ SelectVco
              \/ Done

TuningSpec == TuningInit /\ [][TuningNext]_tuningVars
-----------------------------------------------------------------------------
\* Properties.

CanLock(r) == r.lo <= r.hi

Smaller(a, b) == IF a < b THEN a ELSE b

\* A search ends at a code that locks whenever there is one, and well inside the
\* interval: in its middle for the SX modules, three codes from either end for the CGEN,
\* which looks seven codes around.  What it misses are edges: an SX that locks at 0 only,
\* or whose interval ends with the first code of the upper half, of which the middle of
\* the rest is taken; a CGEN below 7, where the codes below 0 that LowAround tries wrap to
\* codes that are "not too low", or at 255 only.
TuneFindsMiddle ==
    LET r == request.range
    IN  /\ request.op = "tunedSX" =>
              /\ status = 0 <=> CanLock(r) /\ r.hi > 0
              /\ status = 0 /\ r.hi # 128 => Abs(2 * csw - r.lo - r.hi) <= 1
        /\ request.op = "tunedCGEN" /\ r.hi > 6 /\ r.lo < 255 =>
              /\ status = 0 <=> CanLock(r)
              /\ status = 0 => Smaller(csw - r.lo, r.hi - csw) >= Smaller(3, (r.hi - r.lo) \div 2)

\* SetFrequencySX returns 0 only with a VCO selected and a code written that lock, also
\* when they come from the cache of an earlier call and the VCOs have drifted since; it
\* returns an error only if no VCO locks, at the bias current it ends with (or was about
\* to try).  A VCO that locks with codes 0 and 1 only breaks the first, since its score is
\* that of a failure, and one that locks with 0 only the second.
FrequencyLocks ==
    request.op = "returned" =>
        /\ status = 0 => Locks(RangeOf(sel_vco), csw)
        /\ status # 0 /\ attempt.i < 5 => \A v \in Vcos : ~CanLock(RangeOf(v))
=============================================================================
