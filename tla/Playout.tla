------------------------------ MODULE Playout ------------------------------
(***************************************************************************)
(* What the circular buffer promises the packet clock and the listener:    *)
(* every packet is full length; it is silent, or it carries the next bytes *)
(* of what was written, in order and without a gap; it is padded only when *)
(* the stream was closed and these are its last bytes; and audio is        *)
(* skipped by a reset only.                                                *)
(***************************************************************************)
EXTENDS Naturals

CONSTANT PacketSize

VARIABLES
    written,  \* bytes pushed into the pipe, numbered from 1
    played,   \* the last of them taken out, or skipped
    packet,   \* the latest packet: byte numbers, 0 for silence
    closed    \* no more bytes will be pushed

vars == <<written, played, packet, closed>>

Silence == [i \in 1..PacketSize |-> 0]

Audio(n) == [i \in 1..PacketSize |-> IF i <= n THEN played + i ELSE 0]

Init == written = 0 /\ played = 0 /\ packet = Silence /\ closed = FALSE

Push == written' > written /\ UNCHANGED <<played, packet, closed>>

PlaySilence == ~closed /\ packet' = Silence /\ UNCHANGED <<written, played, closed>>

PlayFull ==
    /\ written - played >= PacketSize
    /\ packet' = Audio(PacketSize)
    /\ played' = played + PacketSize
    /\ UNCHANGED <<written, closed>>

PlayRest ==
    /\ closed
    /\ written - played < PacketSize
    /\ packet' = Audio(written - played)
    /\ played' = written
    /\ UNCHANGED <<written, closed>>

Close == closed' = TRUE /\ UNCHANGED <<written, played, packet>>

Skip == played' = written /\ closed' = FALSE /\ UNCHANGED <<written, packet>>

Next == Push \/ PlaySilence \/ PlayFull \/ PlayRest \/ Close \/ Skip

Spec == Init /\ [][Next]_vars
=============================================================================
