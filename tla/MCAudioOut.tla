----------------------------- MODULE MCAudioOut -----------------------------
(* An instance of AudioOut for TLC: bursts of two to four packets, a sync  *)
(* in front of every third, both numbers wrapping at widths that share no  *)
(* factor with a packet.                                                   *)
EXTENDS AudioOut

(* A stream without start time, one that has begun and one that is ahead.  *)
SomeStarts == {NoStart, -7, 5}
SomeLatencies == {0, 3, 4}
SomeSteps == {-5, 4}
=============================================================================
