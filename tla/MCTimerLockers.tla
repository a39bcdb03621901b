--------------------------- MODULE MCTimerLockers ---------------------------
EXTENDS TimerLockers

CONSTANTS d1, d2, w1

(* The name every decoder uses (Decoder.cpp:252). *)
OneName == [u \in Users |-> IF u = w1 THEN "RepeatTimer_0" ELSE "Decoding_fps"]
=============================================================================
