------------------------ MODULE DeviceOptionsProofs -------------------------
(* Theorems about what AirTunesDevice's constructor derives. *)
EXTENDS RtspClient, DeviceOptions, TLAPS

(* Whatever the caller's options and the receiver's records say, the       *)
(* client gets options its state machine is made for (ClientOptions, over  *)
(* which RtspClient is checked and proved): never mode 0 with AirPlay 2,   *)
(* never a transient client that needs a password, no AirPlay 2 client     *)
(* that would know no way to pair.                                         *)
THEOREM OptionsFitClient ==
    ASSUME NEW d \in DeviceRecords
    PROVE  OptionsOf(d) \in ClientOptions
<1> DEFINE o == OptionsOf(d)
<1>1. /\ d.mode \in 0..2 /\ d.airplay2 \in BOOLEAN /\ d.password \in BOOLEAN
      /\ d.et4 \in BOOLEAN /\ d.flagged \in BOOLEAN
      /\ d.bits \in SUBSET {3, 7, 9} /\ d.bit48 \in BOOLEAN
      /\ d.old \in BOOLEAN /\ d.sonos \in BOOLEAN
  BY DEF DeviceRecords
<1>2. o \in [airplay2: BOOLEAN, mode: 0..2, needPin: BOOLEAN,
             needPassword: BOOLEAN, transient: BOOLEAN, password: BOOLEAN]
  <2>1. Mode(d) \in 0..2
    BY <1>1 DEF Mode
  <2>2. Transient(d) \in BOOLEAN
    BY <1>1 DEF Transient
  <2> QED BY <1>1, <2>1, <2>2 DEF OptionsOf
<1>3. o.airplay2 => o.mode # 0
  BY <1>1 DEF OptionsOf, Mode
<1>4. o.airplay2 /\ ~o.needPin /\ ~o.needPassword => o.transient
  <2>1. SUFFICES ASSUME d.flagged, 7 \notin d.bits, d.bits \cap {3, 9} = {}
                 PROVE  d.bits = {}
    BY <1>1 DEF OptionsOf, Transient
  <2> QED BY <1>1, <2>1
<1>5. o.needPassword => ~o.transient
  BY <1>1 DEF OptionsOf, Transient
<1>6. o.needPin /\ o.transient => o.mode = 2
  BY <1>1 DEF OptionsOf, Transient, Mode
<1> QED BY <1>2, <1>3, <1>4, <1>5, <1>6 DEF ClientOptions

(* The receiver is told the format it is sent: PCM input goes out in the   *)
(* announced one, for every combination of options and records.  ALAC      *)
(* input may not: it is sent as it is even where PCM was announced.        *)
THEOREM PcmGoesOutAsAnnounced ==
    ASSUME NEW f \in FormatRecords, NEW keyed \in BOOLEAN
    PROVE  /\ Sent(f, keyed, "pcm") = Announced(f, keyed)
           /\ AlacEncoding(f) =>
                Sent(f, keyed, "alac") = Announced(f, keyed)
BY DEF Sent, Announced
=============================================================================
