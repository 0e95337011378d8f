--------------------------- MODULE DeviceOptions ----------------------------
(***************************************************************************)
(* What AirTunesDevice's constructor (src/src/core/deviceAirtunes.ts)      *)
(* makes of the caller's options and the receiver's TXT records: the       *)
(* options of the RTSP client, and the format of the audio it sends.       *)
(***************************************************************************)
EXTENDS Naturals

(* The arguments, as far as the constructor tells them apart.              *)
(*   et4      the first et= record has a 4                                 *)
(*   flagged  there is an sf= or flags= record; bits 3 (PIN), 7 (password) *)
(*            and 9 (one-time pairing) of it are `bits`                    *)
(*   bit48    bit 48 of features= or ft= is set.  The digits are read in   *)
(*            base ten, so that it never is in a record written in hex     *)
(*   old      am= or rmodel= name a model that is no AirPlay 2 receiver    *)
(*   raw      cn= has a 0; borked: the records of a broken Shairport       *)
DeviceRecords ==
    [mode: 0..2, airplay2: BOOLEAN, password: BOOLEAN, et4: BOOLEAN,
     flagged: BOOLEAN, bits: SUBSET {3, 7, 9}, bit48: BOOLEAN, old: BOOLEAN,
     sonos: BOOLEAN]

(* LoxAirplaySender passes mode and txt within the options, where nothing  *)
(* reads them: the constructor sees mode 0 and no TXT record.              *)
FacadeRecords ==
    {d \in DeviceRecords :
        /\ d.mode = 0 /\ ~d.et4 /\ ~d.flagged /\ d.bits = {} /\ ~d.bit48
        /\ ~d.old /\ ~d.sonos}

Mode(d) == IF d.sonos \/ d.et4 \/ (d.airplay2 /\ d.mode = 0) THEN 2 ELSE d.mode

(* Flags decide by themselves; without them an AirPlay 2 receiver, or one  *)
(* that says so in its features, pairs transiently.                        *)
Transient(d) == IF d.flagged THEN d.bits = {} ELSE d.airplay2 \/ d.bit48

OptionsOf(d) ==
    [airplay2 |-> d.airplay2 /\ ~d.old,
     mode |-> Mode(d),
     needPin |-> d.sonos \/ (d.flagged /\ d.bits \cap {3, 9} # {}),
     needPassword |-> d.flagged /\ 7 \in d.bits,
     transient |-> Transient(d),
     password |-> d.password]

-----------------------------------------------------------------------------
(* The audio.  alac: the caller's alacEncoding; force: forceAlac.          *)
FormatRecords ==
    [alac: BOOLEAN, force: BOOLEAN, raw: BOOLEAN, borked: BOOLEAN, old: BOOLEAN]

AlacEncoding(f) == f.borked \/ f.old \/ (f.alac /\ ~(f.raw /\ ~f.force))

(* ANNOUNCE names the format by alacEncoding; AirPlay 2's SETUP, which has *)
(* credentials, always names ALAC.                                         *)
Announced(f, credentials) ==
    IF credentials \/ AlacEncoding(f) THEN "alac" ELSE "pcm"

(* makeAirTunesPacket: ALAC input goes out as it is.                       *)
Sent(f, credentials, inputCodec) ==
    IF inputCodec = "alac" THEN "alac"
    ELSE IF AlacEncoding(f) \/ credentials THEN "alac" ELSE "pcm"
=============================================================================
