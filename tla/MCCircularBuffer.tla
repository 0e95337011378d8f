-------------------------- MODULE MCCircularBuffer --------------------------
(* Instances of CircularBuffer for TLC: chunks shorter than a packet, of   *)
(* its size, longer than it and longer than half the buffer.               *)
EXTENDS CircularBuffer

SomeChunks == {1, 2, 3, 5}
=============================================================================
