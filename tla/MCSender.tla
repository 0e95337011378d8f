------------------------------ MODULE MCSender ------------------------------
(* The sender with three starts, two flushes each and two streams.           *)
EXTENDS Sender, TLC

CONSTANTS s1, s2

MCStreams == {s1, s2}
StreamSymmetry == Permutations(MCStreams)
=============================================================================
