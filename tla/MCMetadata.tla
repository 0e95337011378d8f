----------------------------- MODULE MCMetadata -----------------------------
(* Instances of Metadata for TLC: two tracks, covers given, fetched, and   *)
(* given with a URL (the two given ones have one type and length), and     *)
(* progress on both sides of the two thresholds (a second has 2 ms here).  *)
EXTENDS Metadata

CONSTANTS t1, t2, c1, c2, u1, u2

Payload(track, cover, url, progress) ==
    [track |-> track, cover |-> cover, url |-> url, progress |-> progress]
Time(elapsed, duration) == [elapsed |-> elapsed, duration |-> duration]

SomePayloads ==
    {Payload(t1, None, u1, Time(0, 5)),
     Payload(t2, None, u2, None),
     Payload(t1, c1, None, Time(3, 4)),
     Payload(None, c2, None, None),
     Payload(None, None, u2, Time(1, 9)),
     Payload(None, c1, u2, None),
     Payload(None, None, None, Time(5, 5))}

DigestOf(c) == IF c = c2 THEN c1 ELSE c

OneTrack == {t2}
OneTime == {Time(1, 3)}
FirstCall == {Payload(t1, None, None, Time(0, 5))}
Nobody == {}
=============================================================================
