---------------------------- MODULE MCRtspClient ----------------------------
(* Instances of RtspClient for TLC. *)
EXTENDS RtspClient, DeviceOptions

(* The clients LoxAirplaySender.start creates, and those a caller of the  *)
(* AirTunes class can create with TXT records: every record of             *)
(* ClientOptions is one of them.                                           *)
FacadeConfigs == {OptionsOf(d) : d \in FacadeRecords}
DeviceConfigs == {OptionsOf(d) : d \in DeviceRecords}

ASSUME EveryOptionIsMade == DeviceConfigs = ClientOptions

AirPlay2 == {o \in FacadeConfigs : o.airplay2}

(* The mishaps considered, for every configuration alike. *)
AllMishaps == [o \in ClientOptions |-> MishapKinds]
Resets == [o \in ClientOptions |-> {"reset"}]
Splits == [o \in ClientOptions |-> {"split"}]
=============================================================================
