--------------------------- MODULE MCMcuProcedures ----------------------------
(* Calls for McuProcedures: two calibrations that differ in all they pass, *)
(* gain control, and the proxy of the registers that only the MCU reaches. *)
EXTENDS McuProcedures

Call(kind, id, ref, bw, pair, data) ==
    [kind |-> kind, id |-> id, ref |-> ref, bw |-> bw, pair |-> pair, data |-> data]

Zero == <<0, 0, 0>>
Clock == <<30, 2, 208>>
OtherClock == <<40, 0, 0>>
Narrow == <<5, 1, 44>>
Wide == <<60, 0, 5>>

Calibrations == {Call("calibrate", 17, Clock, Wide, 2, None),
                 Call("calibrate", 5, OtherClock, Narrow, None, None)}
GainControl == {Call("agcStart", AGC, OtherClock, Zero, None, None),
                Call("agcStop", AGC, Zero, Zero, None, None)}
Proxies == {Call("write", ProxyWrite, Zero, Zero, None, d) : d \in {1, 2}}
           \cup {Call("read", ProxyRead, Zero, Zero, None, None)}

AllCalls == Calibrations \cup GainControl \cup Proxies
=============================================================================
