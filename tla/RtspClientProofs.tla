-------------------------- MODULE RtspClientProofs --------------------------
(* Theorems about RtspClient, for every set of configurations and mishaps  *)
(* and every value of the bounds.                                          *)
EXTENDS RtspClient, SequenceTheorems, TLAPS

USE DEF StartTimeout, ClearTimeout, Detach

(* What each block shared by the handlers leaves in the variables it sets. *)

LEMMA RequestType ==
    ASSUME NEW s \in RequestStatus, NEW rest \in Seq(Requests),
           crashed \in Crash, Request(s, rest)
    PROVE  /\ status' \in Status
           /\ timeout' \in BOOLEAN
           /\ wire' \in Seq(Requests)
           /\ crashed' \in Crash
<1>1. Sealed(s) \in BOOLEAN
  BY DEF Sealed
<1>2. [of |-> s, sealed |-> Sealed(s)] \in Requests
  BY <1>1 DEF Requests
<1>3. Append(rest, [of |-> s, sealed |-> Sealed(s)]) \in Seq(Requests)
  BY <1>2
<1> QED
  BY <1>3 DEF Request, Crash, Status

LEMMA PairPinStartType ==
    ASSUME NEW rest \in Seq(Requests), TypeOK, PairPinStart(rest)
    PROVE  /\ status' \in Status
           /\ timeout' \in BOOLEAN
           /\ wire' \in Seq(Requests)
           /\ crashed' \in Crash
           /\ credentials' \in BOOLEAN
           /\ asked' \in {"no", "here", "before"}
<1>1. FirstPairing \in RequestStatus /\ "PAIR_PIN_START" \in RequestStatus
      /\ "PAIR_SETUP_1" \in RequestStatus
  BY DEF FirstPairing, RequestStatus, PairingStatus
<1> QED
  BY <1>1, RequestType DEF PairPinStart, TypeOK, Status

LEMMA InitType == Init => TypeOK
<1> SUFFICES ASSUME Init PROVE TypeOK
  OBVIOUS
<1>1. opts \in ClientOptions /\ opts.password \in BOOLEAN
  BY ConfigsAssumption DEF Init, ClientOptions
<1>2. password \in BOOLEAN
  BY <1>1 DEF Init
<1>3. status \in Status /\ crashed \in Crash
  BY DEF Init, Status, RequestStatus, PairingStatus, Crash
<1>4. wire \in Seq(Requests)
  BY DEF Init
<1>5. timeout \in BOOLEAN /\ credentials \in BOOLEAN /\ heard \in Heard
  BY DEF Init, Heard
<1>6. ready \in Nat /\ mishaps \in Nat /\ commands \in Nat /\ connectAttempts \in Nat
  BY DEF Init
<1> QED
  BY <1>1, <1>2, <1>3, <1>4, <1>5, <1>6 DEF Init, TypeOK

LEMMA CleanupType ==
    ASSUME TypeOK, Cleanup, connectAttempts' \in Nat, passwordTried' \in BOOLEAN,
           mishaps' \in Nat, commands' \in Nat, outOfTurn' \in BOOLEAN
    PROVE  TypeOK'
<1>1. UNCHANGED <<session, readySent, sentFakeProgess>>
  BY DEF Cleanup, sessionVars
<1>2. status' \in Status
  BY DEF Cleanup, Status
<1>3. wire' \in Seq(Requests)
  BY DEF Cleanup
<1>4. heard' \in Heard
  BY DEF Cleanup, Heard
<1> QED
  BY <1>1, <1>2, <1>3, <1>4 DEF TypeOK, Cleanup

LEMMA RestType ==
    ASSUME NEW s \in Status, NEW rest \in Seq(Requests), crashed \in Crash,
           Rest(s, rest)
    PROVE  /\ status' \in Status
           /\ timeout' \in BOOLEAN
           /\ wire' \in Seq(Requests)
           /\ crashed' \in Crash
BY DEF Rest

LEMMA AnswersType ==
    ASSUME TypeOK, NEW r \in Replies, Answers(r)
    PROVE  /\ Tail(wire) \in Seq(Requests)
           /\ mishaps' \in Nat
           /\ UNCHANGED <<commands, outOfTurn>>
BY DEF TypeOK, Answers, Mishap

(* What every case of processData's status switch has in common. *)
LEMMA HandlesType ==
    ASSUME TypeOK, NEW r \in Replies, Handles(r)
    PROVE  /\ Tail(wire) \in Seq(Requests)
           /\ mishaps' \in Nat
           /\ passwordTried' \in BOOLEAN /\ heard' \in Heard
           /\ secured' \in BOOLEAN
           /\ UNCHANGED <<opts, socket, heartBeat, retry, connectAttempts,
                          attached, commands, outOfTurn>>
BY AnswersType DEF Handles, Accepted, Heard

LEMMA HandledType ==
    ASSUME TypeOK, NEW r \in Replies, Handles(r),
           /\ status' \in Status /\ timeout' \in BOOLEAN
           /\ wire' \in Seq(Requests) /\ crashed' \in Crash,
           /\ password' \in BOOLEAN /\ credentials' \in BOOLEAN
           /\ encryptedChannel' \in BOOLEAN /\ garbled' \in BOOLEAN,
           /\ session' \in BOOLEAN /\ readySent' \in BOOLEAN
           /\ sentFakeProgess' \in BOOLEAN,
           /\ asked' \in {"no", "here", "before"}
           /\ configured' \in BOOLEAN /\ ready' \in Nat
    PROVE  TypeOK'
BY HandlesType DEF TypeOK

LEMMA StatusOK == /\ RequestStatus \subseteq Status
                  /\ {"PLAYING", "CLOSED"} \subseteq Status
                  /\ PairingStatus \subseteq RequestStatus
                  /\ Ap2SetupStatus \subseteq RequestStatus
                  /\ {"AUTH_SETUP", "OPTIONS", "OPTIONS2", "OPTIONS3", "ANNOUNCE",
                      "SETUP", "RECORD", "FLUSH"} \subseteq RequestStatus
                  /\ {"SETVOLUME", "SETPROGRESS", "SETDAAP", "SETART"}
                        \subseteq RequestStatus
                  /\ FirstPairing \in PairingStatus
BY DEF Status, RequestStatus, OptionsStatus, ParameterStatus, FirstPairing,
       PairingStatus

(* How the connection, the back-off timer and a closed client fit.         *)
Links == /\ retry => socket = "null"
         /\ status = "CLOSED" => socket # "open"

LEMMA EnvironmentType == TypeOK /\ Links /\ Environment => TypeOK'
<1> SUFFICES ASSUME TypeOK, Links, Environment PROVE TypeOK'
  OBVIOUS
<1> USE StatusOK
<1>1. CASE Connected
  <2>1. /\ UNCHANGED <<opts, retry, password, passwordTried, encryptedChannel,
                       garbled, secured, session, readySent, sentFakeProgess,
                       attached, configured, ready, heard, mishaps, commands,
                       outOfTurn>>
        /\ socket' = "open" /\ connectAttempts' = 0 /\ heartBeat' = TRUE
    BY <1>1 DEF Connected, sessionVars, budgetVars
  <2>2. /\ status' \in Status /\ timeout' \in BOOLEAN
        /\ wire' \in Seq(Requests) /\ crashed' \in Crash
        /\ credentials' \in BOOLEAN /\ asked' \in {"no", "here", "before"}
    <3>1. CASE opts.needPassword \/ opts.needPin
      BY <1>1, <3>1, PairPinStartType DEF Connected, TypeOK
    <3>2. CASE ~(opts.needPassword \/ opts.needPin)
      BY <1>1, <3>2, RequestType DEF Connected, TypeOK
    <3> QED
      BY <3>1, <3>2
  <2> QED
    BY <2>1, <2>2 DEF TypeOK
<1>2. CASE ConnectionFails
  <2>1. /\ connectAttempts' \in Nat /\ mishaps' \in Nat
        /\ outOfTurn' = FALSE /\ UNCHANGED <<passwordTried, commands>>
    BY <1>2 DEF ConnectionFails, Mishap, TypeOK
  <2>2. CASE connectAttempts < MaxAttempts
    <3>1. /\ socket' = "null" /\ timeout' \in BOOLEAN /\ retry' \in BOOLEAN
          /\ heard' \in Heard /\ secured' \in BOOLEAN
          /\ asked' \in {"no", "before"}
          /\ UNCHANGED <<opts, status, heartBeat, password, credentials,
                         encryptedChannel, garbled, session, readySent,
                         sentFakeProgess, attached, configured, ready, crashed>>
      BY <1>2, <2>2 DEF ConnectionFails, sessionVars, Heard
    <3>2. wire' \in Seq(Requests)
      BY <1>2, <2>2 DEF ConnectionFails
    <3>3. outOfTurn' \in BOOLEAN
      BY <2>1
    <3> QED
      BY <2>1, <3>1, <3>2, <3>3, SMTT(60) DEF TypeOK
  <2>3. CASE ~(connectAttempts < MaxAttempts)
    BY <1>2, <2>1, <2>3, CleanupType DEF ConnectionFails, TypeOK
  <2> QED
    BY <2>2, <2>3
<1>3. CASE PeerCloses
  BY <1>3, CleanupType DEF PeerCloses, Mishap, TypeOK
<1>4. CASE ReplyIllegible
  <2>1. "ok" \in Replies
    BY DEF Replies
  <2>2. Tail(wire) \in Seq(Requests) /\ mishaps' \in Nat
        /\ UNCHANGED <<commands, outOfTurn>>
    BY <1>4, <2>1, AnswersType DEF ReplyIllegible
  <2>3. /\ status' \in Status /\ timeout' \in BOOLEAN
        /\ wire' \in Seq(Requests) /\ crashed' \in Crash
    BY <1>4, <2>2, RestType DEF ReplyIllegible, TypeOK
  <2>4. /\ UNCHANGED <<opts, socket, heartBeat, retry, connectAttempts, password,
                       passwordTried, credentials, encryptedChannel, session,
                       readySent, sentFakeProgess, attached, configured, ready,
                       asked>>
        /\ heard' \in Heard
    BY <1>4 DEF ReplyIllegible, linkVars, sessionVars, eventVars, Heard
  <2>5. garbled' \in BOOLEAN /\ secured' \in BOOLEAN
    BY <1>4 DEF ReplyIllegible
  <2> QED
    BY <2>2, <2>3, <2>4, <2>5 DEF TypeOK
<1>5. CASE SplitReply
  <2>1. /\ UNCHANGED <<opts, status, socket, heartBeat, retry, connectAttempts,
                       password, passwordTried, credentials, encryptedChannel,
                       secured, session, readySent, sentFakeProgess, attached,
                       configured, ready, asked, wire, crashed, commands,
                       outOfTurn>>
        /\ heard' \in Heard /\ timeout' \in BOOLEAN
    BY <1>5 DEF SplitReply, linkVars, sessionVars, eventVars, Heard
  <2>2. garbled' \in BOOLEAN
    BY <1>5 DEF SplitReply
  <2>3. mishaps' \in Nat
    BY <1>5 DEF SplitReply, Mishap, TypeOK
  <2> QED
    BY <2>1, <2>2, <2>3 DEF TypeOK
<1>6. CASE ReplyUnauthorized
  <2>1. "unauthorized" \in Replies
    BY DEF Replies
  <2>2. Tail(wire) \in Seq(Requests) /\ mishaps' \in Nat
        /\ UNCHANGED <<commands, outOfTurn>>
    BY <1>6, <2>1, AnswersType DEF ReplyUnauthorized
  <2>3. CASE Cleanup /\ UNCHANGED <<connectAttempts, passwordTried>>
    BY <2>2, <2>3, CleanupType DEF TypeOK
  <2>4. CASE /\ Rest(status, Tail(wire)) /\ heard' = "challenge"
             /\ UNCHANGED <<opts, linkVars, password, passwordTried, keyVars,
                            sessionVars, eventVars>>
    <3>1. /\ status' \in Status /\ timeout' \in BOOLEAN
          /\ wire' \in Seq(Requests) /\ crashed' \in Crash
      BY <2>2, <2>4, RestType DEF TypeOK
    <3>2. UNCHANGED <<opts, socket, heartBeat, retry, connectAttempts, password,
                      passwordTried, credentials, encryptedChannel, garbled,
                      secured, session, readySent, sentFakeProgess, attached,
                      configured, ready, asked>> /\ heard' \in Heard
      BY <2>4 DEF linkVars, keyVars, sessionVars, eventVars, Heard
    <3> QED
      BY <2>2, <3>1, <3>2 DEF TypeOK
  <2>5. CASE /\ passwordTried' = TRUE /\ heard' = "reply"
             /\ UNCHANGED <<opts, linkVars, password, encryptedChannel, garbled,
                            secured, sessionVars, attached, configured, ready>>
             /\ IF status = "PAIR_PIN_START"
                THEN PairPinStart(Tail(wire))
                ELSE /\ UNCHANGED <<credentials, asked>>
                     /\ IF status = "PLAYING" THEN Rest(status, Tail(wire))
                                              ELSE Request(status, Tail(wire))
    <3>1. /\ status' \in Status /\ timeout' \in BOOLEAN
          /\ wire' \in Seq(Requests) /\ crashed' \in Crash
          /\ credentials' \in BOOLEAN /\ asked' \in {"no", "here", "before"}
      <4>1. status \in RequestStatus \/ status = "PLAYING" \/ status = "CLOSED"
        BY DEF TypeOK, Status
      <4>5. status # "CLOSED"
        BY <1>6 DEF ReplyUnauthorized, Answers, Links
      <4>2. CASE status = "PAIR_PIN_START"
        BY <2>2, <2>5, <4>2, PairPinStartType
      <4>3. CASE status = "PLAYING"
        BY <2>2, <2>5, <4>3, RestType DEF TypeOK
      <4> QED
        BY <2>2, <2>5, <4>1, <4>5, <4>2, <4>3, RequestType DEF TypeOK
    <3>2. UNCHANGED <<opts, socket, heartBeat, retry, connectAttempts, password,
                      encryptedChannel, garbled, secured, session, readySent,
                      sentFakeProgess, attached, configured, ready>>
          /\ passwordTried' \in BOOLEAN /\ heard' \in Heard
      BY <2>5 DEF linkVars, sessionVars, Heard
    <3> QED
      BY <2>2, <3>1, <3>2 DEF TypeOK
  <2> QED
    BY <1>6, <2>3, <2>4, <2>5 DEF ReplyUnauthorized
<1>7. CASE ReplyBusy
  <2>1. "busy" \in Replies
    BY DEF Replies
  <2> QED
    BY <1>7, <2>1, AnswersType, CleanupType DEF ReplyBusy, TypeOK
<1>8. ASSUME NEW r \in Replies, ReplyFailsPairing(r) PROVE TypeOK'
  BY <1>8, AnswersType, CleanupType DEF ReplyFailsPairing, Accepted, TypeOK
<1>9. ASSUME NEW r \in Replies, ReplyThrows(r) PROVE TypeOK'
  <2>1. mishaps' \in Nat /\ UNCHANGED <<commands, outOfTurn>>
    BY <1>9, AnswersType DEF ReplyThrows, Accepted
  <2>2. UNCHANGED <<opts, status, timeout, socket, heartBeat, retry,
                    connectAttempts, password, passwordTried, credentials,
                    encryptedChannel, garbled, secured, session, readySent,
                    sentFakeProgess, attached, configured, ready, asked, wire,
                    heard>>
    BY <1>9 DEF ReplyThrows, linkVars, keyVars, sessionVars, eventVars
  <2>3. crashed' \in Crash
    BY <1>9 DEF ReplyThrows, Crash
  <2> QED
    BY <2>1, <2>2, <2>3 DEF TypeOK
<1>10. ASSUME NEW r \in Replies, ReplyToPinStart(r) PROVE TypeOK'
  <2>1. Handles(r) /\ Tail(wire) \in Seq(Requests)
    BY <1>10, HandlesType DEF ReplyToPinStart
  <2>2. UNCHANGED <<password, credentials, encryptedChannel, garbled, session,
                    readySent, sentFakeProgess, configured, ready>>
    BY <1>10 DEF ReplyToPinStart, sessionVars
  <2>3. /\ status' \in Status /\ timeout' \in BOOLEAN
        /\ wire' \in Seq(Requests) /\ crashed' \in Crash
        /\ asked' \in {"no", "here", "before"}
    BY <1>10, <2>1, RequestType, RestType DEF ReplyToPinStart, TypeOK
  <2> QED
    BY <2>1, <2>2, <2>3, HandledType DEF TypeOK
<1>11. ASSUME NEW r \in Replies, ReplyToPairing(r) PROVE TypeOK'
  <2>1. Handles(r) /\ Tail(wire) \in Seq(Requests)
    BY <1>11, HandlesType DEF ReplyToPairing
  <2>2. UNCHANGED <<session, readySent, sentFakeProgess, configured, ready, asked>>
    BY <1>11 DEF ReplyToPairing, sessionVars
  <2>3. /\ password' \in BOOLEAN /\ credentials' \in BOOLEAN
        /\ encryptedChannel' \in BOOLEAN /\ garbled' \in BOOLEAN
    BY <1>11 DEF ReplyToPairing
  <2>4. AfterPairing[status] \in RequestStatus
    BY <1>11 DEF ReplyToPairing, AfterPairing, PairingStatus, RequestStatus,
                 OptionsStatus, Ap2SetupStatus
  <2>5. /\ status' \in Status /\ timeout' \in BOOLEAN
        /\ wire' \in Seq(Requests) /\ crashed' \in Crash
    BY <1>11, <2>1, <2>4, RequestType DEF ReplyToPairing, TypeOK
  <2> QED
    BY <2>1, <2>2, <2>3, <2>5, HandledType DEF TypeOK
<1>12. ASSUME NEW r \in Replies, ReplyToAuthSetup(r) PROVE TypeOK'
  <2>1. Handles(r) /\ Tail(wire) \in Seq(Requests)
    BY <1>12, HandlesType DEF ReplyToAuthSetup
  <2>2. UNCHANGED <<password, credentials, encryptedChannel, garbled,
                    session, readySent, sentFakeProgess, configured,
                    ready, asked>>
    BY <1>12 DEF ReplyToAuthSetup, sessionVars
  <2>3. /\ status' \in Status /\ timeout' \in BOOLEAN
        /\ wire' \in Seq(Requests) /\ crashed' \in Crash
    BY <1>12, <2>1, RequestType DEF ReplyToAuthSetup, TypeOK
  <2> QED
    BY <2>1, <2>2, <2>3, HandledType DEF TypeOK
<1>13. ASSUME NEW r \in Replies, ReplyToOptions(r) PROVE TypeOK'
  <2>1. Handles(r) /\ Tail(wire) \in Seq(Requests)
    BY <1>13, HandlesType DEF ReplyToOptions
  <2>2. UNCHANGED <<password, encryptedChannel, garbled, session, readySent,
                    sentFakeProgess, configured, ready>>
    BY <1>13 DEF ReplyToOptions, sessionVars
  <2>3. /\ status' \in Status /\ timeout' \in BOOLEAN
        /\ wire' \in Seq(Requests) /\ crashed' \in Crash
        /\ credentials' \in BOOLEAN /\ asked' \in {"no", "here", "before"}
    <3>1. CASE PairPinStart(Tail(wire))
      BY <2>1, <3>1, PairPinStartType
    <3>2. CASE /\ UNCHANGED <<credentials, asked>>
               /\ \/ Rest("PLAYING", Tail(wire))
                  \/ \E s \in RequestStatus : Request(s, Tail(wire))
      BY <2>1, <3>2, RequestType, RestType DEF TypeOK
    <3>3. CASE r = "unauthorized" /\ status # "OPTIONS3"
      BY <1>13, <3>2, <3>3 DEF ReplyToOptions
    <3>4. CASE ~(r = "unauthorized" /\ status # "OPTIONS3")
      BY <1>13, <3>1, <3>2, <3>4 DEF ReplyToOptions, Ap2SetupStatus
    <3> QED
      BY <3>3, <3>4
  <2> QED
    BY <2>1, <2>2, <2>3, HandledType DEF TypeOK
<1>14. ASSUME NEW r \in Replies, ReplyToAnnounce(r) PROVE TypeOK'
  <2>1. Handles(r) /\ Tail(wire) \in Seq(Requests)
    BY <1>14, HandlesType DEF ReplyToAnnounce
  <2>2. UNCHANGED <<password, credentials, encryptedChannel, garbled,
                    session, readySent, sentFakeProgess, configured,
                    ready, asked>>
    BY <1>14 DEF ReplyToAnnounce, sessionVars
  <2>3. /\ status' \in Status /\ timeout' \in BOOLEAN
        /\ wire' \in Seq(Requests) /\ crashed' \in Crash
    BY <1>14, <2>1, RequestType DEF ReplyToAnnounce, TypeOK
  <2> QED
    BY <2>1, <2>2, <2>3, HandledType DEF TypeOK
<1>15. ASSUME NEW r \in Replies, ReplyToSetup(r) PROVE TypeOK'
  <2>1. Handles(r) /\ Tail(wire) \in Seq(Requests)
    BY <1>15, HandlesType DEF ReplyToSetup
  <2>2. UNCHANGED <<password, credentials, encryptedChannel, garbled,
                    readySent, sentFakeProgess, ready, asked>>
    BY <1>15 DEF ReplyToSetup, sessionVars
  <2>3. session' \in BOOLEAN /\ configured' \in BOOLEAN
    BY <1>15 DEF ReplyToSetup, HasBody, TypeOK
  <2>4. /\ status' \in Status /\ timeout' \in BOOLEAN
        /\ wire' \in Seq(Requests) /\ crashed' \in Crash
    BY <1>15, <2>1, RequestType DEF ReplyToSetup, TypeOK
  <2> QED
    BY <2>1, <2>2, <2>3, <2>4, HandledType DEF TypeOK
<1>16. ASSUME NEW r \in Replies, ReplyToAp2Setup(r) PROVE TypeOK'
  <2>1. Handles(r) /\ Tail(wire) \in Seq(Requests)
    BY <1>16, HandlesType DEF ReplyToAp2Setup
  <2>2. UNCHANGED <<password, credentials, encryptedChannel, garbled,
                    session, readySent, sentFakeProgess, ready, asked>>
    BY <1>16 DEF ReplyToAp2Setup, sessionVars
  <2>3. configured' \in BOOLEAN
    BY <1>16 DEF ReplyToAp2Setup, TypeOK
  <2>4. AfterAp2Setup[status] \in RequestStatus
    BY <1>16 DEF ReplyToAp2Setup, AfterAp2Setup, Ap2SetupStatus
  <2>5. /\ status' \in Status /\ timeout' \in BOOLEAN
        /\ wire' \in Seq(Requests) /\ crashed' \in Crash
    BY <1>16, <2>1, <2>4, RequestType DEF ReplyToAp2Setup, TypeOK
  <2> QED
    BY <2>1, <2>2, <2>3, <2>5, HandledType DEF TypeOK
<1>17. ASSUME NEW r \in Replies, ReplyToRecord(r) PROVE TypeOK'
  <2>1. Handles(r) /\ Tail(wire) \in Seq(Requests)
    BY <1>17, HandlesType DEF ReplyToRecord
  <2>2. UNCHANGED <<password, credentials, encryptedChannel, garbled,
                    sentFakeProgess, configured, asked>>
    BY <1>17 DEF ReplyToRecord, sessionVars
  <2>3. session' \in BOOLEAN /\ readySent' \in BOOLEAN /\ ready' \in Nat
    BY <1>17 DEF ReplyToRecord, TypeOK
  <2>4. /\ status' \in Status /\ timeout' \in BOOLEAN
        /\ wire' \in Seq(Requests) /\ crashed' \in Crash
    BY <1>17, <2>1, RequestType DEF ReplyToRecord, TypeOK
  <2> QED
    BY <2>1, <2>2, <2>3, <2>4, HandledType DEF TypeOK
<1>18. ASSUME NEW r \in Replies, ReplyToSetVolume(r) PROVE TypeOK'
  <2>1. Handles(r) /\ Tail(wire) \in Seq(Requests)
    BY <1>18, HandlesType DEF ReplyToSetVolume
  <2>2. UNCHANGED <<password, credentials, encryptedChannel, garbled,
                    session, readySent, configured, ready, asked>>
    BY <1>18 DEF ReplyToSetVolume, sessionVars
  <2>3. sentFakeProgess' \in BOOLEAN
    BY <1>18 DEF ReplyToSetVolume, TypeOK
  <2>4. /\ status' \in Status /\ timeout' \in BOOLEAN
        /\ wire' \in Seq(Requests) /\ crashed' \in Crash
    BY <1>18, <2>1, RequestType, RestType DEF ReplyToSetVolume, TypeOK
  <2> QED
    BY <2>1, <2>2, <2>3, <2>4, HandledType DEF TypeOK
<1>19. ASSUME NEW r \in Replies, ReplyToParameter(r) PROVE TypeOK'
  <2>1. Handles(r) /\ Tail(wire) \in Seq(Requests)
    BY <1>19, HandlesType DEF ReplyToParameter
  <2>2. UNCHANGED <<password, credentials, encryptedChannel, garbled,
                    session, readySent, sentFakeProgess, configured,
                    ready, asked>>
    BY <1>19 DEF ReplyToParameter, sessionVars
  <2>3. /\ status' \in Status /\ timeout' \in BOOLEAN
        /\ wire' \in Seq(Requests) /\ crashed' \in Crash
    BY <1>19, <2>1, RestType DEF ReplyToParameter, TypeOK
  <2> QED
    BY <2>1, <2>2, <2>3, HandledType DEF TypeOK
<1>20. ASSUME NEW r \in Replies, ReplyToFlush(r) PROVE TypeOK'
  <2>1. Handles(r) /\ Tail(wire) \in Seq(Requests)
    BY <1>20, HandlesType DEF ReplyToFlush
  <2>2. UNCHANGED <<password, credentials, encryptedChannel, garbled,
                    readySent, sentFakeProgess, configured, asked>>
    BY <1>20 DEF ReplyToFlush, sessionVars
  <2>3. session' \in BOOLEAN /\ ready' \in Nat
    BY <1>20 DEF ReplyToFlush, TypeOK
  <2>4. /\ status' \in Status /\ timeout' \in BOOLEAN
        /\ wire' \in Seq(Requests) /\ crashed' \in Crash
    BY <1>20, <2>1, RestType DEF ReplyToFlush, TypeOK
  <2> QED
    BY <2>1, <2>2, <2>3, <2>4, HandledType DEF TypeOK
<1>21. ASSUME NEW withinBlock \in BOOLEAN, LatePiece(withinBlock) PROVE TypeOK'
  <2>1. UNCHANGED <<opts, status, socket, heartBeat, retry, connectAttempts,
                    password, passwordTried, credentials, encryptedChannel,
                    secured, session, readySent, sentFakeProgess, attached,
                    configured, ready, asked, wire, crashed, commands,
                    outOfTurn>>
    BY <1>21 DEF LatePiece, linkVars, sessionVars, eventVars
  <2>2. heard' \in Heard /\ timeout' \in BOOLEAN /\ garbled' \in BOOLEAN
    BY <1>21 DEF LatePiece, Heard, TypeOK
  <2>3. mishaps' \in Nat
    BY <1>21 DEF LatePiece, Mishap, TypeOK
  <2> QED
    BY <2>1, <2>2, <2>3 DEF TypeOK
<1> QED
  BY <1>1, <1>2, <1>3, <1>4, <1>5, <1>6, <1>7, <1>8, <1>9, <1>10, <1>11, <1>12,
     <1>13, <1>14, <1>15, <1>16, <1>17, <1>18, <1>19, <1>20, <1>21
     DEF Environment, Reply

LEMMA SendType ==
    ASSUME TypeOK, NEW s \in RequestStatus, Send(s),
           mishaps' \in Nat, commands' \in Nat
    PROVE  TypeOK'
<1>1. UNCHANGED <<opts, socket, heartBeat, retry, connectAttempts, password,
                  passwordTried, credentials, encryptedChannel, garbled, secured,
                  session, readySent, sentFakeProgess, attached, configured,
                  ready, asked, heard>>
  BY DEF Send, linkVars, keyVars, sessionVars, eventVars
<1>2. outOfTurn' \in BOOLEAN
  BY DEF Send, CallsAcross
<1>3. /\ status' \in Status /\ timeout' \in BOOLEAN
      /\ wire' \in Seq(Requests) /\ crashed' \in Crash
  BY RequestType DEF Send, TypeOK
<1> QED
  BY <1>1, <1>2, <1>3 DEF TypeOK

LEMMA UserType == TypeOK /\ User => TypeOK'
<1> SUFFICES ASSUME TypeOK, User PROVE TypeOK'
  OBVIOUS
<1>1. Command => mishaps' \in Nat /\ commands' \in Nat
  BY DEF Command, TypeOK
<1>2. CASE SetVolume \/ SetProgress \/ SetArtwork \/ Flush
  BY <1>1, <1>2, StatusOK, SendType DEF SetVolume, SetProgress, SetArtwork, Flush
<1>3. ASSUME NEW hasArtist \in BOOLEAN, SetTrackInfo(hasArtist) PROVE TypeOK'
  <2>1. CASE hasArtist
    BY <1>1, <1>3, <2>1, StatusOK, SendType DEF SetTrackInfo
  <2>2. CASE ~hasArtist
    <3>1. UNCHANGED <<opts, status, timeout, socket, heartBeat, retry,
                      connectAttempts, password, passwordTried, credentials,
                      encryptedChannel, garbled, secured, session, readySent,
                      sentFakeProgess, attached, configured, ready, asked,
                      wire, heard, outOfTurn>>
      BY <1>3, <2>2 DEF SetTrackInfo, linkVars, keyVars, sessionVars, eventVars
    <3>2. crashed' \in Crash
      BY <1>3, <2>2 DEF SetTrackInfo, Crash
    <3> QED
      BY <1>1, <1>3, <3>1, <3>2 DEF SetTrackInfo, TypeOK
  <2> QED
    BY <2>1, <2>2
<1>4. CASE SetUntypedArtwork
  BY <1>1, <1>4, CleanupType DEF SetUntypedArtwork, TypeOK
<1>5. CASE SetPasscode
  <2>1. /\ UNCHANGED <<opts, socket, heartBeat, retry, connectAttempts,
                       passwordTried, credentials, encryptedChannel, garbled,
                       secured, session, readySent, sentFakeProgess, attached,
                       configured, ready, heard, mishaps>>
        /\ asked' \in {"no", "here", "before"} /\ password' \in BOOLEAN
        /\ commands' \in Nat
    BY <1>5 DEF SetPasscode, linkVars, keyVars, sessionVars, TypeOK
  <2>2. outOfTurn' \in BOOLEAN
    BY <1>5 DEF SetPasscode
  <2>3. /\ status' \in Status /\ timeout' \in BOOLEAN
        /\ wire' \in Seq(Requests) /\ crashed' \in Crash
    BY <1>5, StatusOK, RequestType DEF SetPasscode, TypeOK
  <2> QED
    BY <2>1, <2>2, <2>3 DEF TypeOK
<1>6. CASE Teardown
  BY <1>6, CleanupType DEF Teardown, TypeOK, budgetVars
<1> QED
  BY <1>2, <1>3, <1>4, <1>5, <1>6 DEF User

LEMMA TimersType == TypeOK /\ Timers => TypeOK'
<1> SUFFICES ASSUME TypeOK, Timers PROVE TypeOK'
  OBVIOUS
<1>1. CASE RetryFires
  <2>1. UNCHANGED <<opts, status, heartBeat, connectAttempts, password,
                    passwordTried, credentials, encryptedChannel, garbled,
                    secured, session, readySent, sentFakeProgess, attached,
                    configured, ready, asked, wire, heard, crashed, mishaps,
                    commands, outOfTurn>>
    BY <1>1 DEF RetryFires, keyVars, sessionVars, eventVars, budgetVars
  <2>2. socket' = "connecting" /\ retry' \in BOOLEAN /\ timeout' \in BOOLEAN
    BY <1>1 DEF RetryFires
  <2> QED
    BY <2>1, <2>2 DEF TypeOK
<1>2. CASE TimeoutFires
  BY <1>2, CleanupType DEF TimeoutFires, TypeOK, budgetVars
<1>3. CASE HeartBeatTick
  BY <1>3, StatusOK, SendType DEF HeartBeatTick, TypeOK
<1> QED
  BY <1>1, <1>2, <1>3 DEF Timers

LEMMA NextType == TypeOK /\ Links /\ [Next]_vars => TypeOK'
<1>1. ASSUME TypeOK, UNCHANGED vars PROVE TypeOK'
  BY <1>1 DEF TypeOK, vars, linkVars, keyVars, sessionVars, eventVars, budgetVars
<1> QED
  BY <1>1, EnvironmentType, UserType, TimersType DEF Next

-----------------------------------------------------------------------------
(* The order of requests and replies. *)

(* Unless a stray call was made on this connection, nothing is outstanding *)
(* while there is no open connection or while the user is being asked.     *)
Calm ==
    ~outOfTurn =>
        /\ socket # "open" => wire = <<>>
        /\ asked = "here" => socket = "open" /\ wire = <<>> /\ status # "PLAYING"

Ordered == Links /\ Calm /\ Lockstep /\ TimerTracksRequest

LEMMA InitOrdered == Init => Ordered
BY DEF Init, Ordered, Links, Calm, Lockstep, TimerTracksRequest

LEMMA RequestOrdered ==
    ASSUME NEW s \in RequestStatus, NEW rest \in Seq(Requests), Request(s, rest),
           socket' \in {"null", "connecting", "open"},
           retry' => socket' = "null",
           ~outOfTurn' => rest = <<>> /\ socket' # "connecting" /\ asked' # "here"
    PROVE  Ordered'
<1>1. status' = s /\ status' # "PLAYING" /\ status' # "CLOSED"
  BY DEF Request, RequestStatus, PairingStatus, OptionsStatus, Ap2SetupStatus,
         ParameterStatus
<1>2. CASE socket' = "null" \/ (s \in AlwaysSealed /\ ~credentials')
  <2>1. wire' = rest /\ ~Running'
    BY <1>2 DEF Request, Running
  <2> QED
    BY <1>1, <2>1 DEF Ordered, Links, Calm, Lockstep, TimerTracksRequest
<1>3. CASE ~(socket' = "null" \/ (s \in AlwaysSealed /\ ~credentials'))
  <2>1. wire' = Append(rest, [of |-> s, sealed |-> Sealed(s)]) /\ timeout' = TRUE
    BY <1>3 DEF Request
  <2>2. ASSUME ~outOfTurn'
        PROVE  Len(wire') = 1 /\ Head(wire').of = status'
    <3> DEFINE e == [of |-> s, sealed |-> Sealed(s)]
    <3>1. wire' = Append(<<>>, e) /\ e.of = s
      BY <2>1, <2>2
    <3> HIDE DEF e
    <3>2. wire' = <<e>>
      BY <3>1
    <3> QED
      BY <1>1, <3>1, <3>2
  <2>3. timeout' = TRUE /\ socket' # "null"
    BY <1>3, <2>1
  <2> QED
    BY <1>1, <2>2, <2>3 DEF Ordered, Links, Calm, Lockstep, TimerTracksRequest
<1> QED
  BY <1>2, <1>3

LEMMA RestOrdered ==
    ASSUME NEW s, NEW rest, Rest(s, rest),
           retry' => socket' = "null", s = "CLOSED" => socket' # "open",
           ~outOfTurn' => /\ rest = <<>>
                          /\ asked' = "here" => socket' = "open" /\ s # "PLAYING"
    PROVE  Ordered'
BY DEF Rest, Ordered, Links, Calm, Lockstep, TimerTracksRequest

LEMMA CleanupOrdered == TypeOK /\ Links /\ Cleanup => Ordered'
BY DEF TypeOK, Cleanup, Ordered, Links, Calm, Lockstep, TimerTracksRequest

LEMMA PairPinStartOrdered ==
    ASSUME TypeOK, NEW rest \in Seq(Requests), PairPinStart(rest),
           ~retry', socket' = "open",
           ~outOfTurn' => rest = <<>> /\ asked # "here"
    PROVE  Ordered'
<1>1. CASE /\ asked' = asked
           /\ \E s \in RequestStatus : Request(s, rest)
  BY <1>1, RequestOrdered
<1>2. CASE /\ status' = "PAIR_PIN_START" /\ wire' = rest /\ timeout' = TRUE
  BY <1>2 DEF Ordered, Links, Calm, Lockstep, TimerTracksRequest
<1>3. FirstPairing \in RequestStatus /\ "PAIR_PIN_START" \in RequestStatus
      /\ "PAIR_SETUP_1" \in RequestStatus
  BY DEF FirstPairing, RequestStatus, PairingStatus
<1> QED
  BY <1>1, <1>2, <1>3 DEF PairPinStart

(* What the previous invariants say when a reply arrives: it answers the   *)
(* only request there is.                                                  *)
LEMMA AnswersOrdered ==
    ASSUME TypeOK, Ordered, NEW r \in Replies, Answers(r)
    PROVE  /\ Tail(wire) \in Seq(Requests)
           /\ ~retry /\ socket = "open" /\ status # "CLOSED"
           /\ outOfTurn' = outOfTurn
           /\ ~outOfTurn => Tail(wire) = <<>> /\ asked # "here"
<1>1. wire \in Seq(Requests) /\ wire # <<>> /\ socket = "open"
  BY DEF TypeOK, Answers
<1>2. Tail(wire) \in Seq(Requests) /\ Len(Tail(wire)) = Len(wire) - 1
  BY <1>1, HeadTailProperties
<1>3. Len(wire) = 1 => Tail(wire) = <<>>
  <2>1. Tail(wire) # <<>> => Len(Tail(wire)) \in Nat \ {0}
    BY <1>2, EmptySeq
  <2> QED
    BY <1>2, <2>1
<1> QED
  BY <1>1, <1>2, <1>3 DEF Ordered, Links, Calm, Lockstep, Answers

LEMMA HandlesOrdered ==
    ASSUME TypeOK, Ordered, NEW r \in Replies, Handles(r)
    PROVE  /\ Tail(wire) \in Seq(Requests)
           /\ ~retry' /\ socket' = "open" /\ status # "CLOSED"
           /\ ~outOfTurn' => Tail(wire) = <<>> /\ asked # "here"
BY AnswersOrdered DEF Handles, Accepted

LEMMA EnvironmentOrdered == TypeOK /\ Ordered /\ Environment => Ordered'
<1> SUFFICES ASSUME TypeOK, Ordered, Environment PROVE Ordered'
  OBVIOUS
<1> USE StatusOK
<1>L. Links
  BY DEF Ordered
<1>1. CASE Connected
  <2>1. /\ socket' = "open" /\ ~retry' /\ wire \in Seq(Requests)
        /\ ~outOfTurn' => wire = <<>> /\ asked # "here"
    BY <1>1 DEF Connected, Ordered, Links, Calm, TypeOK, budgetVars
  <2>2. CASE opts.needPassword \/ opts.needPin
    BY <1>1, <2>1, <2>2, PairPinStartOrdered DEF Connected
  <2>3. CASE ~(opts.needPassword \/ opts.needPin)
    BY <1>1, <2>1, <2>3, RequestOrdered DEF Connected
  <2> QED
    BY <2>2, <2>3
<1>2. CASE ConnectionFails
  <2>1. CASE connectAttempts < MaxAttempts
    <3>1. /\ socket' = "null" /\ wire' = <<>> /\ asked' # "here" /\ status' = status
          /\ timeout' = FALSE
      BY <1>2, <2>1 DEF ConnectionFails
    <3> QED
      BY <3>1 DEF Ordered, Links, Calm, Lockstep, TimerTracksRequest
  <2>2. CASE ~(connectAttempts < MaxAttempts)
    BY <1>2, <1>L, <2>2, CleanupOrdered DEF ConnectionFails
  <2> QED
    BY <2>1, <2>2
<1>3. CASE PeerCloses
  BY <1>3, <1>L, CleanupOrdered DEF PeerCloses
<1>4. CASE ReplyIllegible
  <2>1. "ok" \in Replies
    BY DEF Replies
  <2>2. /\ ~retry /\ socket = "open" /\ status # "CLOSED"
        /\ ~outOfTurn' => Tail(wire) = <<>> /\ asked # "here"
    BY <1>4, <2>1, AnswersOrdered DEF ReplyIllegible
  <2>3. Rest(status, Tail(wire)) /\ UNCHANGED <<socket, retry, asked>>
    BY <1>4 DEF ReplyIllegible, linkVars, eventVars
  <2> QED
    BY <2>2, <2>3, RestOrdered
<1>5. CASE SplitReply
  BY <1>5 DEF SplitReply, Ordered, Links, Calm, Lockstep, TimerTracksRequest,
              Running, linkVars, eventVars
<1>6. CASE ReplyUnauthorized
  <2>1. "unauthorized" \in Replies
    BY DEF Replies
  <2>2. /\ Tail(wire) \in Seq(Requests)
        /\ ~retry /\ socket = "open" /\ status # "CLOSED"
        /\ outOfTurn' = outOfTurn
        /\ ~outOfTurn => Tail(wire) = <<>> /\ asked # "here"
    BY <1>6, <2>1, AnswersOrdered DEF ReplyUnauthorized
  <2>3. CASE Cleanup
    BY <1>L, <2>3, CleanupOrdered
  <2>4. CASE Rest(status, Tail(wire)) /\ UNCHANGED <<linkVars, eventVars>>
    BY <2>2, <2>4, RestOrdered DEF linkVars, eventVars
  <2>5. CASE status = "PAIR_PIN_START" /\ PairPinStart(Tail(wire)) /\ UNCHANGED linkVars
    BY <2>2, <2>5, PairPinStartOrdered DEF linkVars
  <2>6. CASE /\ status # "PAIR_PIN_START" /\ UNCHANGED <<linkVars, asked>>
             /\ IF status = "PLAYING" THEN Rest(status, Tail(wire))
                                      ELSE Request(status, Tail(wire))
    <3>1. status = "PLAYING" \/ status \in RequestStatus
      BY <2>2 DEF TypeOK, Status
    <3> QED
      BY <2>2, <2>6, <3>1, RestOrdered, RequestOrdered DEF linkVars
  <2> QED
    BY <1>6, <2>3, <2>4, <2>5, <2>6 DEF ReplyUnauthorized
<1>7. CASE ReplyBusy
  BY <1>7, <1>L, CleanupOrdered DEF ReplyBusy
<1>8. ASSUME NEW r \in Replies, ReplyFailsPairing(r) PROVE Ordered'
  BY <1>8, <1>L, CleanupOrdered DEF ReplyFailsPairing
<1>9. ASSUME NEW r \in Replies, ReplyThrows(r) PROVE Ordered'
  BY <1>9 DEF ReplyThrows, Accepted, Answers, Ordered, Links, Calm, Lockstep,
              TimerTracksRequest, Running, linkVars, eventVars
<1>10. ASSUME NEW r \in Replies, ReplyToPinStart(r) PROVE Ordered'
  <2>1. /\ Tail(wire) \in Seq(Requests)
        /\ ~retry' /\ socket' = "open"
        /\ ~outOfTurn' => Tail(wire) = <<>> /\ asked # "here"
    BY <1>10, HandlesOrdered DEF ReplyToPinStart
  <2>2. FirstPairing # "PLAYING" /\ FirstPairing # "CLOSED"
    BY DEF FirstPairing
  <2> QED
    BY <1>10, <2>1, <2>2, RequestOrdered, RestOrdered DEF ReplyToPinStart
<1>11. ASSUME NEW r \in Replies, ReplyToPairing(r) PROVE Ordered'
  <2>1. /\ Tail(wire) \in Seq(Requests)
        /\ ~retry' /\ socket' = "open"
        /\ ~outOfTurn' => Tail(wire) = <<>> /\ asked # "here"
    BY <1>11, HandlesOrdered DEF ReplyToPairing
  <2>2. AfterPairing[status] \in RequestStatus
    BY <1>11 DEF ReplyToPairing, AfterPairing, PairingStatus, RequestStatus,
                 OptionsStatus, Ap2SetupStatus
  <2> QED
    BY <1>11, <2>1, <2>2, RequestOrdered DEF ReplyToPairing
<1>12. ASSUME NEW r \in Replies, ReplyToAuthSetup(r) PROVE Ordered'
  <2>1. /\ Tail(wire) \in Seq(Requests)
        /\ ~retry' /\ socket' = "open"
        /\ ~outOfTurn' => Tail(wire) = <<>> /\ asked # "here"
    BY <1>12, HandlesOrdered DEF ReplyToAuthSetup
  <2> QED
    BY <1>12, <2>1, RequestOrdered DEF ReplyToAuthSetup
<1>13. ASSUME NEW r \in Replies, ReplyToOptions(r) PROVE Ordered'
  <2>1. /\ Tail(wire) \in Seq(Requests)
        /\ ~retry' /\ socket' = "open"
        /\ ~outOfTurn' => Tail(wire) = <<>> /\ asked # "here"
    BY <1>13, HandlesOrdered DEF ReplyToOptions
  <2>2. CASE PairPinStart(Tail(wire))
    BY <2>1, <2>2, PairPinStartOrdered
  <2>3. CASE /\ asked' = asked
             /\ \/ Rest("PLAYING", Tail(wire))
                \/ \E s \in RequestStatus : Request(s, Tail(wire))
    BY <2>1, <2>3, RequestOrdered, RestOrdered
  <2>4. CASE r = "unauthorized" /\ status # "OPTIONS3"
    BY <1>13, <2>3, <2>4 DEF ReplyToOptions
  <2>5. CASE ~(r = "unauthorized" /\ status # "OPTIONS3")
    BY <1>13, <2>2, <2>3, <2>5 DEF ReplyToOptions, Ap2SetupStatus
  <2> QED
    BY <2>4, <2>5
<1>14. ASSUME NEW r \in Replies, ReplyToAnnounce(r) PROVE Ordered'
  <2>1. /\ Tail(wire) \in Seq(Requests)
        /\ ~retry' /\ socket' = "open"
        /\ ~outOfTurn' => Tail(wire) = <<>> /\ asked # "here"
    BY <1>14, HandlesOrdered DEF ReplyToAnnounce
  <2> QED
    BY <1>14, <2>1, RequestOrdered DEF ReplyToAnnounce
<1>15. ASSUME NEW r \in Replies, ReplyToSetup(r) PROVE Ordered'
  <2>1. /\ Tail(wire) \in Seq(Requests)
        /\ ~retry' /\ socket' = "open"
        /\ ~outOfTurn' => Tail(wire) = <<>> /\ asked # "here"
    BY <1>15, HandlesOrdered DEF ReplyToSetup
  <2> QED
    BY <1>15, <2>1, RequestOrdered DEF ReplyToSetup
<1>16. ASSUME NEW r \in Replies, ReplyToAp2Setup(r) PROVE Ordered'
  <2>1. /\ Tail(wire) \in Seq(Requests)
        /\ ~retry' /\ socket' = "open"
        /\ ~outOfTurn' => Tail(wire) = <<>> /\ asked # "here"
    BY <1>16, HandlesOrdered DEF ReplyToAp2Setup
  <2>2. AfterAp2Setup[status] \in RequestStatus
    BY <1>16 DEF ReplyToAp2Setup, AfterAp2Setup, Ap2SetupStatus
  <2> QED
    BY <1>16, <2>1, <2>2, RequestOrdered DEF ReplyToAp2Setup
<1>17. ASSUME NEW r \in Replies, ReplyToRecord(r) PROVE Ordered'
  <2>1. /\ Tail(wire) \in Seq(Requests)
        /\ ~retry' /\ socket' = "open"
        /\ ~outOfTurn' => Tail(wire) = <<>> /\ asked # "here"
    BY <1>17, HandlesOrdered DEF ReplyToRecord
  <2> QED
    BY <1>17, <2>1, RequestOrdered DEF ReplyToRecord
<1>18. ASSUME NEW r \in Replies, ReplyToSetVolume(r) PROVE Ordered'
  <2>1. /\ Tail(wire) \in Seq(Requests)
        /\ ~retry' /\ socket' = "open"
        /\ ~outOfTurn' => Tail(wire) = <<>> /\ asked # "here"
    BY <1>18, HandlesOrdered DEF ReplyToSetVolume
  <2> QED
    BY <1>18, <2>1, RequestOrdered, RestOrdered DEF ReplyToSetVolume
<1>19. ASSUME NEW r \in Replies, ReplyToParameter(r) PROVE Ordered'
  <2>1. /\ Tail(wire) \in Seq(Requests)
        /\ ~retry' /\ socket' = "open"
        /\ ~outOfTurn' => Tail(wire) = <<>> /\ asked # "here"
    BY <1>19, HandlesOrdered DEF ReplyToParameter
  <2> QED
    BY <1>19, <2>1, RestOrdered DEF ReplyToParameter
<1>20. ASSUME NEW r \in Replies, ReplyToFlush(r) PROVE Ordered'
  <2>1. /\ Tail(wire) \in Seq(Requests)
        /\ ~retry' /\ socket' = "open"
        /\ ~outOfTurn' => Tail(wire) = <<>> /\ asked # "here"
    BY <1>20, HandlesOrdered DEF ReplyToFlush
  <2> QED
    BY <1>20, <2>1, RestOrdered DEF ReplyToFlush
<1>21. ASSUME NEW withinBlock \in BOOLEAN, LatePiece(withinBlock) PROVE Ordered'
  BY <1>21 DEF LatePiece, Ordered, Links, Calm, Lockstep, TimerTracksRequest,
               Running, linkVars, eventVars
<1> QED
  BY <1>1, <1>2, <1>3, <1>4, <1>5, <1>6, <1>7, <1>8, <1>9, <1>10, <1>11, <1>12,
     <1>13, <1>14, <1>15, <1>16, <1>17, <1>18, <1>19, <1>20, <1>21
     DEF Environment, Reply

LEMMA SendOrdered ==
    ASSUME TypeOK, Ordered, NEW s \in RequestStatus, Send(s), status = "PLAYING"
    PROVE  Ordered'
<1>1. /\ socket' \in {"null", "connecting", "open"} /\ wire \in Seq(Requests)
      /\ retry' => socket' = "null"
  BY DEF Send, Ordered, Links, TypeOK, linkVars
<1>2. ~outOfTurn => wire = <<>>
  <2>1. wire # <<>> => Head(wire) \in Requests
    BY <1>1, HeadTailProperties
  <2>2. "PLAYING" \notin RequestStatus
    BY DEF RequestStatus, PairingStatus, OptionsStatus, Ap2SetupStatus,
           ParameterStatus
  <2> QED
    BY <2>1, <2>2 DEF Ordered, Lockstep, Requests
<1>3. ~outOfTurn' => ~outOfTurn /\ socket' # "connecting" /\ asked' # "here"
  BY DEF Send, CallsAcross, Ordered, Calm, TypeOK, linkVars, eventVars
<1> QED
  BY <1>1, <1>2, <1>3, RequestOrdered DEF Send

LEMMA UserOrdered == TypeOK /\ Ordered /\ User => Ordered'
<1> SUFFICES ASSUME TypeOK, Ordered, User PROVE Ordered'
  OBVIOUS
<1>L. Links
  BY DEF Ordered
<1>1. CASE SetVolume \/ SetProgress \/ SetArtwork \/ Flush
  BY <1>1, StatusOK, SendOrdered
     DEF SetVolume, SetProgress, SetArtwork, Flush, Command
<1>2. ASSUME NEW hasArtist \in BOOLEAN, SetTrackInfo(hasArtist) PROVE Ordered'
  <2>1. CASE hasArtist
    BY <1>2, <2>1, StatusOK, SendOrdered DEF SetTrackInfo, Command
  <2>2. CASE ~hasArtist
    BY <1>2, <2>2 DEF SetTrackInfo, Ordered, Links, Calm, Lockstep,
                      TimerTracksRequest, Running, linkVars, eventVars
  <2> QED
    BY <2>1, <2>2
<1>3. CASE SetUntypedArtwork \/ Teardown
  BY <1>3, <1>L, CleanupOrdered DEF SetUntypedArtwork, Teardown
<1>4. CASE SetPasscode
  <2>1. /\ socket' \in {"null", "connecting", "open"} /\ wire \in Seq(Requests)
        /\ retry' => socket' = "null"
        /\ FirstPairing \in RequestStatus
    BY <1>4, StatusOK DEF SetPasscode, Ordered, Links, TypeOK, linkVars
  <2>2. ~outOfTurn' => wire = <<>> /\ socket' # "connecting" /\ asked' # "here"
    BY <1>4 DEF SetPasscode, Ordered, Calm, TypeOK, linkVars
  <2> QED
    BY <1>4, <2>1, <2>2, RequestOrdered DEF SetPasscode
<1> QED
  BY <1>1, <1>2, <1>3, <1>4 DEF User

LEMMA TimersOrdered == TypeOK /\ Ordered /\ Timers => Ordered'
<1> SUFFICES ASSUME TypeOK, Ordered, Timers PROVE Ordered'
  OBVIOUS
<1>1. CASE RetryFires
  BY <1>1 DEF RetryFires, Ordered, Links, Calm, Lockstep, TimerTracksRequest,
              Running, eventVars, budgetVars
<1>2. CASE TimeoutFires
  BY <1>2, CleanupOrdered DEF TimeoutFires, Ordered
<1>3. CASE HeartBeatTick
  BY <1>3, StatusOK, SendOrdered DEF HeartBeatTick
<1> QED
  BY <1>1, <1>2, <1>3 DEF Timers

LEMMA NextOrdered == TypeOK /\ Ordered /\ [Next]_vars => Ordered'
<1>1. ASSUME Ordered, UNCHANGED vars PROVE Ordered'
  BY <1>1 DEF Ordered, Links, Calm, Lockstep, TimerTracksRequest, Running, vars,
              linkVars, eventVars, budgetVars
<1> QED
  BY <1>1, EnvironmentOrdered, UserOrdered, TimersOrdered DEF Next

(* The variables keep their types, and the inductive invariant from which  *)
(* the order of requests and their timing follow holds in every state.     *)
LEMMA Inductive == Spec => [](TypeOK /\ Ordered)
<1>1. Init => TypeOK /\ Ordered
  BY InitType, InitOrdered
<1>2. TypeOK /\ Ordered /\ [Next]_vars => (TypeOK /\ Ordered)'
  BY NextType, NextOrdered DEF Ordered
<1> QED
  BY <1>1, <1>2, PTL DEF Spec

(* Every field keeps its kind in every state the program reaches.          *)
THEOREM TypeCorrect == Spec => []TypeOK
BY Inductive, PTL

(* A reply is read as the answer to the request that asked for it, on every*)
(* connection on which no stray call was made: processData may use the     *)
(* status for the record of requests it lacks.                             *)
THEOREM RepliesMatchRequests == Spec => []Lockstep
<1>1. TypeOK /\ Ordered => Lockstep
  BY DEF Ordered
<1> QED
  BY <1>1, Inductive, PTL

(* An unanswered request is timed until a piece of an answer, its own or   *)
(* the late rest of the one before, has come, and a playing session is not *)
(* cut off by a timer left over from an earlier request; but for stray     *)
(* calls on this connection.                                               *)
THEOREM RequestsAreTimed == Spec => []TimerTracksRequest
<1>1. TypeOK /\ Ordered => TimerTracksRequest
  BY DEF Ordered
<1> QED
  BY <1>1, Inductive, PTL

-----------------------------------------------------------------------------
(* What the device is told. *)

(* From RECORD on, and with a session, the ports have been delivered; a    *)
(* client that has ended has no prompt open.                               *)
PostSetup == ParameterStatus \cup {"RECORD", "PLAYING", "FLUSH"}

Told ==
    /\ ~attached => asked = "no"
    /\ attached /\ (session \/ ready > 0 \/ status \in PostSetup) => configured

(* The five ways a handler touches what the device knows.                  *)
Ends == attached' = FALSE /\ asked' = "no"
Prompts == /\ UNCHANGED <<attached, configured, ready>>
           /\ asked' # asked => attached \/ asked' = "no"
Configures == /\ UNCHANGED <<attached, ready, asked>>
              /\ configured' = (configured \/ attached)
Streams == /\ attached => configured
           /\ UNCHANGED <<attached, configured, asked>>
           /\ ready' = IF attached THEN ready + 1 ELSE ready
EventStep == Ends \/ Prompts \/ Configures \/ Streams

LEMMA EventStepRefines ==
    ASSUME TypeOK, Told, EventStep
    PROVE  [Abstract!Next]_<<Phase, asked # "no">>
<1> USE DEF Abstract!Next, Abstract!Configure, Abstract!Stream, Abstract!Ask,
            Abstract!Answer, Abstract!End, Phase, TypeOK, Told
<1>1. CASE Ends
  BY <1>1 DEF Ends
<1>2. CASE Prompts
  BY <1>2 DEF Prompts
<1>3. CASE Configures
  BY <1>3 DEF Configures
<1>4. CASE Streams
  BY <1>4 DEF Streams
<1> QED
  BY <1>1, <1>2, <1>3, <1>4 DEF EventStep

LEMMA StatusSet ==
    ASSUME NEW s, NEW rest
    PROVE  /\ Request(s, rest) => status' = s
           /\ Rest(s, rest) => status' = s
           /\ PairPinStart(rest) =>
                  /\ status' \notin PostSetup
                  /\ asked' = asked \/ asked' = IF attached THEN "here" ELSE "no"
<1>1. \A t : Request(t, rest) => status' = t
  BY DEF Request
<1>2. FirstPairing \in {"PAIR_SETUP_1", "PAIR_PIN_SETUP_1"}
  BY DEF FirstPairing
<1> QED
  BY <1>1, <1>2 DEF Rest, PairPinStart, PostSetup, ParameterStatus

LEMMA CleanupTold == Cleanup => Told' /\ EventStep
BY DEF Cleanup, Told, EventStep, Ends

LEMMA EnvironmentTold ==
    TypeOK /\ Ordered /\ Told /\ Environment => Told' /\ EventStep
<1> SUFFICES ASSUME TypeOK, Ordered, Told, Environment PROVE Told' /\ EventStep
  OBVIOUS
<1> USE DEF PostSetup, ParameterStatus
<1>1. CASE Connected
  <2>1. UNCHANGED <<attached, configured, ready, session>>
    BY <1>1 DEF Connected, sessionVars
  <2>2. /\ status' \notin PostSetup
        /\ asked' = asked \/ asked' = IF attached THEN "here" ELSE "no"
    <3>1. CASE opts.needPassword \/ opts.needPin
      BY <1>1, <3>1, StatusSet DEF Connected
    <3>2. CASE ~(opts.needPassword \/ opts.needPin)
      BY <1>1, <3>2, StatusSet DEF Connected
    <3> QED
      BY <3>1, <3>2
  <2> QED
    BY <2>1, <2>2 DEF Told, EventStep, Prompts
<1>2. CASE ConnectionFails
  <2>1. CASE connectAttempts < MaxAttempts
    BY <1>2, <2>1 DEF ConnectionFails, sessionVars, Told, EventStep, Prompts, TypeOK
  <2>2. CASE ~(connectAttempts < MaxAttempts)
    BY <1>2, <2>2, CleanupTold DEF ConnectionFails
  <2> QED
    BY <2>1, <2>2
<1>3. CASE PeerCloses
  BY <1>3, CleanupTold DEF PeerCloses
<1>4. CASE ReplyIllegible
  <2>1. status' = status /\ UNCHANGED <<session, attached, configured, ready, asked>>
    BY <1>4, StatusSet DEF ReplyIllegible, sessionVars, eventVars
  <2> QED
    BY <2>1 DEF Told, EventStep, Prompts
<1>5. CASE SplitReply
  BY <1>5 DEF SplitReply, sessionVars, eventVars, Told, EventStep, Prompts
<1>6. CASE ReplyUnauthorized
  <2>1. CASE Cleanup
    BY <2>1, CleanupTold
  <2>2. CASE ~Cleanup
    <3>1. UNCHANGED <<session, attached, configured, ready>>
      BY <1>6, <2>2 DEF ReplyUnauthorized, sessionVars, eventVars
    <3>2. CASE status = "PAIR_PIN_START" /\ PairPinStart(Tail(wire))
      BY <3>1, <3>2, StatusSet DEF Told, EventStep, Prompts
    <3>3. CASE status' = status /\ asked' = asked
      BY <3>1, <3>3 DEF Told, EventStep, Prompts
    <3>4. \/ status = "PAIR_PIN_START" /\ PairPinStart(Tail(wire))
          \/ status' = status /\ asked' = asked
      BY <1>6, <2>2, StatusSet DEF ReplyUnauthorized, eventVars
    <3> QED
      BY <3>2, <3>3, <3>4
  <2> QED
    BY <2>1, <2>2
<1>7. CASE ReplyBusy
  BY <1>7, CleanupTold DEF ReplyBusy
<1>8. ASSUME NEW r \in Replies, ReplyFailsPairing(r) PROVE Told' /\ EventStep
  BY <1>8, CleanupTold DEF ReplyFailsPairing
<1>9. ASSUME NEW r \in Replies, ReplyThrows(r) PROVE Told' /\ EventStep
  BY <1>9 DEF ReplyThrows, sessionVars, eventVars, Told, EventStep, Prompts
<1>10. ASSUME NEW r \in Replies, ReplyToPinStart(r) PROVE Told' /\ EventStep
  <2>1. UNCHANGED <<session, attached, configured, ready>>
    BY <1>10 DEF ReplyToPinStart, Handles, sessionVars
  <2>2. status' = FirstPairing /\ FirstPairing \notin PostSetup
    BY <1>10, StatusSet DEF ReplyToPinStart, FirstPairing
  <2>3. asked' = asked \/ asked' = IF attached THEN "here" ELSE "no"
    BY <1>10 DEF ReplyToPinStart
  <2> QED
    BY <2>1, <2>2, <2>3 DEF Told, EventStep, Prompts
<1>11. ASSUME NEW r \in Replies, ReplyToPairing(r) PROVE Told' /\ EventStep
  <2>1. UNCHANGED <<session, attached, configured, ready, asked>>
    BY <1>11 DEF ReplyToPairing, Handles, sessionVars
  <2>2. AfterPairing[status] \notin PostSetup
    BY <1>11 DEF ReplyToPairing, AfterPairing, PairingStatus
  <2>3. status' = AfterPairing[status]
    BY <1>11, StatusSet DEF ReplyToPairing
  <2> QED
    BY <2>1, <2>2, <2>3 DEF Told, EventStep, Prompts
<1>12. ASSUME NEW r \in Replies, ReplyToAuthSetup(r) PROVE Told' /\ EventStep
  <2>1. UNCHANGED <<session, attached, configured, ready, asked>> /\ status' = "OPTIONS"
    BY <1>12, StatusSet DEF ReplyToAuthSetup, Handles, sessionVars
  <2> QED
    BY <2>1 DEF Told, EventStep, Prompts
<1>13. ASSUME NEW r \in Replies, ReplyToOptions(r) PROVE Told' /\ EventStep
  <2>1. UNCHANGED <<session, attached, configured, ready>>
    BY <1>13 DEF ReplyToOptions, Handles, sessionVars
  <2>2. CASE PairPinStart(Tail(wire))
    BY <2>1, <2>2, StatusSet DEF Told, EventStep, Prompts
  <2>3. CASE asked' = asked /\ status' \notin PostSetup
    BY <2>1, <2>3 DEF Told, EventStep, Prompts
  <2>4. CASE asked' = asked /\ session
    BY <2>1, <2>4 DEF Told, EventStep, Prompts
  <2>5. \/ PairPinStart(Tail(wire))
        \/ asked' = asked /\ (status' \notin PostSetup \/ session)
    BY <1>13, StatusSet DEF ReplyToOptions
  <2> QED
    BY <2>2, <2>3, <2>4, <2>5
<1>14. ASSUME NEW r \in Replies, ReplyToAnnounce(r) PROVE Told' /\ EventStep
  <2>1. UNCHANGED <<session, attached, configured, ready, asked>> /\ status' = "SETUP"
    BY <1>14, StatusSet DEF ReplyToAnnounce, Handles, sessionVars
  <2> QED
    BY <2>1 DEF Told, EventStep, Prompts
<1>15. ASSUME NEW r \in Replies, ReplyToSetup(r) PROVE Told' /\ EventStep
  BY <1>15 DEF ReplyToSetup, Handles, Told, EventStep, Configures
<1>16. ASSUME NEW r \in Replies, ReplyToAp2Setup(r) PROVE Told' /\ EventStep
  <2>1. UNCHANGED <<session, attached, ready, asked>>
    BY <1>16 DEF ReplyToAp2Setup, Handles, sessionVars
  <2>2. CASE status = "SETUP_AP2_2"
    BY <1>16, <2>1, <2>2 DEF ReplyToAp2Setup, Told, EventStep, Configures
  <2>3. CASE status # "SETUP_AP2_2"
    <3>1. status' \notin PostSetup
      BY <1>16, <2>3, StatusSet DEF ReplyToAp2Setup, AfterAp2Setup, Ap2SetupStatus
    <3>2. configured' = configured
      BY <1>16, <2>3 DEF ReplyToAp2Setup, TypeOK
    <3> QED
      BY <2>1, <3>1, <3>2 DEF Told, EventStep, Prompts
  <2> QED
    BY <2>2, <2>3
<1>17. ASSUME NEW r \in Replies, ReplyToRecord(r) PROVE Told' /\ EventStep
  <2>1. /\ UNCHANGED <<attached, configured, asked>>
        /\ attached => configured
        /\ ready' = IF attached /\ ~(opts.airplay2 /\ readySent) THEN ready + 1 ELSE ready
    BY <1>17 DEF ReplyToRecord, TellsReady, Handles, Told
  <2> QED
    BY <2>1 DEF Told, EventStep, Prompts, Streams
<1>18. ASSUME NEW r \in Replies, ReplyToSetVolume(r) PROVE Told' /\ EventStep
  <2>1. /\ UNCHANGED <<attached, configured, asked, ready>>
        /\ attached => configured
    BY <1>18 DEF ReplyToSetVolume, Handles, Told
  <2> QED
    BY <2>1 DEF Told, EventStep, Prompts
<1>19. ASSUME NEW r \in Replies, ReplyToParameter(r) PROVE Told' /\ EventStep
  <2>1. /\ UNCHANGED <<attached, configured, asked, ready>>
        /\ attached => configured
    BY <1>19 DEF ReplyToParameter, Handles, Told
  <2> QED
    BY <2>1 DEF Told, EventStep, Prompts
<1>20. ASSUME NEW r \in Replies, ReplyToFlush(r) PROVE Told' /\ EventStep
  <2>1. /\ UNCHANGED <<attached, configured, asked>>
        /\ attached => configured
        /\ ready' = IF attached THEN ready + 1 ELSE ready
    BY <1>20 DEF ReplyToFlush, Handles, Told
  <2> QED
    BY <2>1 DEF Told, EventStep, Streams
<1>21. ASSUME NEW withinBlock \in BOOLEAN, LatePiece(withinBlock)
       PROVE  Told' /\ EventStep
  BY <1>21 DEF LatePiece, sessionVars, eventVars, Told, EventStep, Prompts
<1> QED
  BY <1>1, <1>2, <1>3, <1>4, <1>5, <1>6, <1>7, <1>8, <1>9, <1>10, <1>11, <1>12,
     <1>13, <1>14, <1>15, <1>16, <1>17, <1>18, <1>19, <1>20, <1>21
     DEF Environment, Reply

LEMMA SendTold ==
    ASSUME Told, NEW s, Send(s), status = "PLAYING"
    PROVE  Told' /\ EventStep
<1>1. UNCHANGED <<session, attached, configured, ready, asked>>
  BY DEF Send, sessionVars, eventVars
<1> QED
  BY <1>1 DEF Told, EventStep, Prompts, PostSetup

LEMMA UserTold == TypeOK /\ Told /\ User => Told' /\ EventStep
<1> SUFFICES ASSUME TypeOK, Told, User PROVE Told' /\ EventStep
  OBVIOUS
<1>1. CASE SetVolume \/ SetProgress \/ SetArtwork \/ Flush
  BY <1>1, SendTold DEF SetVolume, SetProgress, SetArtwork, Flush, Command
<1>2. ASSUME NEW hasArtist \in BOOLEAN, SetTrackInfo(hasArtist)
      PROVE  Told' /\ EventStep
  <2>1. CASE hasArtist
    BY <1>2, <2>1, SendTold DEF SetTrackInfo, Command
  <2>2. CASE ~hasArtist
    BY <1>2, <2>2 DEF SetTrackInfo, sessionVars, eventVars, Told, EventStep, Prompts
  <2> QED
    BY <2>1, <2>2
<1>3. CASE SetUntypedArtwork \/ Teardown
  BY <1>3, CleanupTold DEF SetUntypedArtwork, Teardown
<1>4. CASE SetPasscode
  <2>1. UNCHANGED <<session, attached, configured, ready>> /\ asked' = "no"
    BY <1>4 DEF SetPasscode, sessionVars
  <2>2. status' \notin PostSetup
    BY <1>4, StatusSet DEF SetPasscode, FirstPairing, PostSetup, ParameterStatus
  <2> QED
    BY <2>1, <2>2 DEF Told, EventStep, Prompts
<1> QED
  BY <1>1, <1>2, <1>3, <1>4 DEF User

LEMMA TimersTold == Told /\ Timers => Told' /\ EventStep
<1> SUFFICES ASSUME Told, Timers PROVE Told' /\ EventStep
  OBVIOUS
<1>1. CASE RetryFires
  BY <1>1 DEF RetryFires, sessionVars, eventVars, Told, EventStep, Prompts
<1>2. CASE TimeoutFires
  BY <1>2, CleanupTold DEF TimeoutFires
<1>3. CASE HeartBeatTick
  BY <1>3, SendTold DEF HeartBeatTick
<1> QED
  BY <1>1, <1>2, <1>3 DEF Timers

LEMMA NextTold == TypeOK /\ Ordered /\ Told /\ [Next]_vars => Told' /\ EventStep
<1>1. ASSUME Told, UNCHANGED vars PROVE Told' /\ EventStep
  BY <1>1 DEF Told, EventStep, Prompts, vars, sessionVars, eventVars
<1> QED
  BY <1>1, EnvironmentTold, UserTold, TimersTold DEF Next

(* The client keeps its promises towards the device: the ports before the  *)
(* order to stream, no prompt left open by the end, nothing after the end. *)
THEOREM SessionImplemented == Spec => ImplementsSession
<1>1. Init => Told /\ Abstract!Init
  BY DEF Init, Told, Abstract!Init, Phase, PostSetup, ParameterStatus
<1>2. TypeOK /\ Ordered /\ Told /\ [Next]_vars => Told'
  BY NextTold
<1>3. TypeOK /\ Ordered /\ Told /\ [Next]_vars
        => [Abstract!Next]_<<Phase, asked # "no">>
  BY NextTold, EventStepRefines
<1> QED
  BY <1>1, <1>2, <1>3, Inductive, PTL DEF Spec, ImplementsSession, Abstract!Spec

-----------------------------------------------------------------------------
(* How far the handshake has come. *)

HomeKitStatus == {"PAIR_SETUP_1", "PAIR_SETUP_2", "PAIR_SETUP_3",
                  "PAIR_VERIFY_HAP_1", "PAIR_VERIFY_HAP_2"}

(* Only cleanup closes a client: without a connection it has no timer.     *)
Closes == status = "CLOSED" => ~attached /\ (socket = "null" => ~timeout)

(* An AirPlay 1 client never comes upon the AirPlay 2 handshake, nor the   *)
(* other way round; the last round of HomeKit pairing has its credentials. *)
Paths ==
    /\ ~opts.airplay2 =>
           /\ status \notin HomeKitStatus \cup Ap2SetupStatus
           /\ status = "PAIR_PIN_START" => opts.needPin \/ opts.needPassword
    /\ opts.airplay2 => status \notin {"ANNOUNCE", "SETUP"}
    /\ status \in {"PAIR_VERIFY_HAP_1", "PAIR_VERIFY_HAP_2"} => credentials

(* What is known of the session and the events once RECORD was answered:   *)
(* AirPlay 1 skips the second handshake, AirPlay 2 the second 'ready'.     *)
Recorded ==
    /\ status \in PostSetup \ {"RECORD"} => session
    /\ opts.airplay2 /\ (session \/ ready > 0) => readySent
    /\ ~opts.airplay2 /\ ready > 0 =>
           session /\ status \notin {"ANNOUNCE", "SETUP", "RECORD"}
    /\ attached /\ readySent => ready > 0

Course == Closes /\ Paths /\ Recorded

(* What is left to know of the blocks the handlers share. *)
LEMMA RequestSets ==
    ASSUME NEW s, NEW rest, Request(s, rest)
    PROVE  /\ status' = s
           /\ \/ crashed' = crashed
              \/ crashed' = "no_socket" /\ socket' = "null"
              \/ crashed' = "no_credentials" /\ s \in AlwaysSealed /\ ~credentials'
BY DEF Request

LEMMA PairPinStartSets ==
    ASSUME NEW rest, PairPinStart(rest)
    PROVE  /\ credentials' = FALSE
           /\ status' \in {"PAIR_PIN_START", "PAIR_SETUP_1", "PAIR_PIN_SETUP_1"}
           /\ ~opts.airplay2 /\ (opts.needPin \/ opts.needPassword) =>
                  status' # "PAIR_SETUP_1"
           /\ \/ asked' = asked
              \/ status' = "PAIR_PIN_START" /\ asked' = IF attached THEN "here" ELSE "no"
           /\ socket' # "null" => crashed' = crashed
<1>1. FirstPairing = IF opts.airplay2 THEN "PAIR_SETUP_1" ELSE "PAIR_PIN_SETUP_1"
  BY DEF FirstPairing
<1>2. \A s \in {"PAIR_PIN_START", "PAIR_SETUP_1", FirstPairing} :
          Request(s, rest) =>
             /\ status' = s
             /\ socket' # "null" => crashed' = crashed
  BY <1>1, RequestSets DEF AlwaysSealed, Ap2SetupStatus
<1> QED BY <1>1, <1>2 DEF PairPinStart

LEMMA InitCourse == Init => Course
BY DEF Init, Course, Closes, Paths, Recorded, HomeKitStatus, Ap2SetupStatus,
       PostSetup, ParameterStatus

LEMMA CleanupCourse == Course /\ Cleanup => Course'
BY DEF Cleanup, sessionVars, Course, Closes, Paths, Recorded, HomeKitStatus,
       Ap2SetupStatus, PostSetup, ParameterStatus

(* A handler that leaves the session and the events alone keeps the course *)
(* if its status fits.                                                     *)
LEMMA CourseKept ==
    ASSUME Course, UNCHANGED <<opts, session, readySent, attached, ready>>,
           status' # "CLOSED",
           \/ status' = status /\ credentials' = credentials
           \/ /\ status' \in PostSetup \ {"RECORD"} => session
              /\ ~opts.airplay2 =>
                     /\ status' \notin HomeKitStatus \cup Ap2SetupStatus
                     /\ status' = "PAIR_PIN_START" => opts.needPin \/ opts.needPassword
                     /\ status' \in {"ANNOUNCE", "SETUP", "RECORD"} => ready = 0
              /\ opts.airplay2 => status' \notin {"ANNOUNCE", "SETUP"}
              /\ status' \in {"PAIR_VERIFY_HAP_1", "PAIR_VERIFY_HAP_2"} => credentials'
    PROVE  Course'
BY DEF Course, Closes, Paths, Recorded

LEMMA EnvironmentCourse ==
    TypeOK /\ Ordered /\ Course /\ Environment => Course'
<1> SUFFICES ASSUME TypeOK, Ordered, Course, Environment PROVE Course'
  OBVIOUS
<1> USE DEF HomeKitStatus, Ap2SetupStatus, PostSetup, ParameterStatus
<1>0. Closes /\ Paths /\ Recorded /\ ready \in Nat
  BY DEF Course, TypeOK
<1>1. CASE Connected
  <2>1. UNCHANGED <<opts, session, readySent, attached, ready>>
    BY <1>1 DEF Connected, sessionVars
  <2>2. CASE opts.needPassword \/ opts.needPin
    BY <1>1, <2>1, <2>2, PairPinStartSets, CourseKept DEF Connected
  <2>3. CASE ~(opts.needPassword \/ opts.needPin)
    BY <1>1, <2>1, <2>3, RequestSets, CourseKept DEF Connected
  <2> QED BY <2>2, <2>3
<1>2. CASE ConnectionFails
  <2>1. CASE connectAttempts < MaxAttempts
    BY <1>0, <1>2, <2>1 DEF ConnectionFails, sessionVars, Course, Closes, Paths, Recorded
  <2>2. CASE ~(connectAttempts < MaxAttempts)
    BY <1>2, <2>2, CleanupCourse DEF ConnectionFails
  <2> QED BY <2>1, <2>2
<1>3. CASE PeerCloses
  BY <1>3, CleanupCourse DEF PeerCloses
<1>4. CASE ReplyIllegible
  <2>1. UNCHANGED <<opts, status, credentials, session, readySent, attached, ready>>
    BY <1>4 DEF ReplyIllegible, Rest, sessionVars, eventVars
  <2>2. status # "CLOSED"
    BY <1>4 DEF ReplyIllegible, Answers, Ordered, Links
  <2> QED BY <2>1, <2>2, CourseKept
<1>5. CASE SplitReply
  <2>1. UNCHANGED <<opts, status, credentials, session, readySent, attached, ready>>
    BY <1>5 DEF SplitReply, keyVars, sessionVars, eventVars
  <2>2. status # "CLOSED"
    BY <1>5 DEF SplitReply, Ordered, Links
  <2> QED BY <2>1, <2>2, CourseKept
<1>6. CASE ReplyUnauthorized
  <2>1. status # "CLOSED"
    BY <1>6 DEF ReplyUnauthorized, Answers, Ordered, Links
  <2>2. CASE Cleanup
    BY <2>2, CleanupCourse
  <2>3. CASE ~Cleanup
    <3>1. UNCHANGED <<opts, session, readySent, attached, ready>>
      BY <1>6, <2>3 DEF ReplyUnauthorized, sessionVars, eventVars
    <3>2. CASE status = "PAIR_PIN_START" /\ PairPinStart(Tail(wire))
      BY <1>0, <3>1, <3>2, PairPinStartSets, CourseKept DEF Paths
    <3>3. CASE status' = status /\ credentials' = credentials
      BY <2>1, <3>1, <3>3, CourseKept
    <3>4. \/ status = "PAIR_PIN_START" /\ PairPinStart(Tail(wire))
          \/ status' = status /\ credentials' = credentials
      BY <1>6, <2>3, StatusSet DEF ReplyUnauthorized, keyVars
    <3> QED BY <3>2, <3>3, <3>4
  <2> QED BY <2>2, <2>3
<1>7. CASE ReplyBusy
  BY <1>7, CleanupCourse DEF ReplyBusy
<1>8. ASSUME NEW r \in Replies, ReplyFailsPairing(r) PROVE Course'
  BY <1>8, CleanupCourse DEF ReplyFailsPairing
<1>9. ASSUME NEW r \in Replies, ReplyThrows(r) PROVE Course'
  <2>1. UNCHANGED <<opts, status, credentials, session, readySent, attached, ready>>
    BY <1>9 DEF ReplyThrows, keyVars, sessionVars, eventVars
  <2>2. status # "CLOSED"
    BY <1>9 DEF ReplyThrows, Accepted, Answers, Ordered, Links
  <2> QED BY <2>1, <2>2, CourseKept
<1>10. ASSUME NEW r \in Replies, ReplyToPinStart(r) PROVE Course'
  <2>1. UNCHANGED <<opts, session, readySent, attached, ready, credentials>>
    BY <1>10 DEF ReplyToPinStart, Handles, sessionVars
  <2>2. status' = FirstPairing
    BY <1>10, StatusSet DEF ReplyToPinStart
  <2> QED BY <2>1, <2>2, CourseKept DEF FirstPairing
<1>11. ASSUME NEW r \in Replies, ReplyToPairing(r) PROVE Course'
  <2>1. UNCHANGED <<opts, session, readySent, attached, ready>>
        /\ credentials' = (credentials \/ NewCredentials)
    BY <1>11 DEF ReplyToPairing, Handles, sessionVars
  <2>2. status' = AfterPairing[status]
    BY <1>11, StatusSet DEF ReplyToPairing
  <2>3. status \in PairingStatus \ {"PAIR_PIN_START"}
    BY <1>11 DEF ReplyToPairing
  <2>4. /\ status \in HomeKitStatus =>
               status' \in HomeKitStatus \cup {"SETUP_AP2_1"}
        /\ status \notin HomeKitStatus =>
               status' \in {"PAIR_PIN_SETUP_2", "PAIR_PIN_SETUP_3", "PAIR_VERIFY_1",
                           "PAIR_VERIFY_2", "OPTIONS"}
        /\ status' = "PAIR_VERIFY_HAP_1" => status = "PAIR_SETUP_3"
        /\ status' = "PAIR_VERIFY_HAP_2" => status = "PAIR_VERIFY_HAP_1"
    BY <2>2, <2>3 DEF AfterPairing, PairingStatus
  <2>5. status' \in {"PAIR_VERIFY_HAP_1", "PAIR_VERIFY_HAP_2"} => credentials'
    BY <1>0, <2>1, <2>4 DEF Paths, NewCredentials
  <2>6. status \in HomeKitStatus => opts.airplay2
    BY <1>0 DEF Paths
  <2> QED BY <2>1, <2>4, <2>5, <2>6, CourseKept
<1>12. ASSUME NEW r \in Replies, ReplyToAuthSetup(r) PROVE Course'
  <2>1. UNCHANGED <<opts, session, readySent, attached, ready>> /\ status' = "OPTIONS"
    BY <1>12, StatusSet DEF ReplyToAuthSetup, Handles, sessionVars
  <2> QED BY <2>1, CourseKept
<1>13. ASSUME NEW r \in Replies, ReplyToOptions(r) PROVE Course'
  <2>1. UNCHANGED <<opts, session, readySent, attached, ready>>
    BY <1>13 DEF ReplyToOptions, Handles, sessionVars
  <2>2. CASE opts.airplay2 /\ PairPinStart(Tail(wire))
    BY <2>1, <2>2, PairPinStartSets, CourseKept
  <2>3. CASE status' \in {"OPTIONS2", "OPTIONS3"} \/ (status' = "PLAYING" /\ session)
    BY <2>1, <2>3, CourseKept
  <2>4. CASE ~session /\ status' = IF opts.airplay2 THEN "SETUP_AP2_1" ELSE "ANNOUNCE"
    BY <1>0, <2>1, <2>4, CourseKept DEF Recorded
  <2>5. \/ opts.airplay2 /\ PairPinStart(Tail(wire))
        \/ status' \in {"OPTIONS2", "OPTIONS3"} \/ (status' = "PLAYING" /\ session)
        \/ ~session /\ status' = IF opts.airplay2 THEN "SETUP_AP2_1" ELSE "ANNOUNCE"
    BY <1>13, StatusSet DEF ReplyToOptions
  <2> QED BY <2>2, <2>3, <2>4, <2>5
<1>14. ASSUME NEW r \in Replies, ReplyToAnnounce(r) PROVE Course'
  <2>1. UNCHANGED <<opts, session, readySent, attached, ready>>
        /\ status = "ANNOUNCE" /\ status' = "SETUP"
    BY <1>14, StatusSet DEF ReplyToAnnounce, Handles, sessionVars
  <2> QED BY <1>0, <2>1, CourseKept DEF Paths, Recorded
<1>15. ASSUME NEW r \in Replies, ReplyToSetup(r) PROVE Course'
  <2>1. UNCHANGED <<opts, readySent, attached, ready>>
        /\ status = "SETUP" /\ status' = "RECORD"
    BY <1>15, StatusSet DEF ReplyToSetup, Handles
  <2>2. ~opts.airplay2 /\ ready = 0
    BY <1>0, <2>1 DEF Paths, Recorded
  <2> QED BY <1>0, <2>1, <2>2 DEF Course, Closes, Paths, Recorded
<1>16. ASSUME NEW r \in Replies, ReplyToAp2Setup(r) PROVE Course'
  <2>1. UNCHANGED <<opts, session, readySent, attached, ready>>
    BY <1>16 DEF ReplyToAp2Setup, Handles, sessionVars
  <2>2. status' = AfterAp2Setup[status] /\ status \in Ap2SetupStatus
    BY <1>16, StatusSet DEF ReplyToAp2Setup
  <2>3. opts.airplay2
    BY <1>0, <2>2 DEF Paths
  <2> QED BY <2>1, <2>2, <2>3, CourseKept DEF AfterAp2Setup
<1>17. ASSUME NEW r \in Replies, ReplyToRecord(r) PROVE Course'
  <2>1. UNCHANGED <<opts, attached>>
        /\ status = "RECORD" /\ status' = "SETVOLUME" /\ session' = TRUE
        /\ readySent' = (readySent \/ opts.airplay2)
        /\ ready' = IF attached /\ ~(opts.airplay2 /\ readySent) THEN ready + 1 ELSE ready
    BY <1>17, StatusSet DEF ReplyToRecord, TellsReady, Handles
  <2>2. Closes' /\ Paths'
    BY <1>0, <2>1 DEF Closes, Paths
  <2>3. attached' /\ readySent' => ready' > 0
    BY <1>0, <2>1 DEF Recorded
  <2> QED BY <2>1, <2>2, <2>3 DEF Course, Recorded
<1>18. ASSUME NEW r \in Replies, ReplyToSetVolume(r) PROVE Course'
  <2>1. UNCHANGED <<opts, session, readySent, attached, ready>>
        /\ status = "SETVOLUME" /\ status' \in {"PLAYING", "SETPROGRESS"}
    BY <1>18, StatusSet DEF ReplyToSetVolume, Handles
  <2> QED BY <1>0, <2>1, CourseKept DEF Recorded
<1>19. ASSUME NEW r \in Replies, ReplyToParameter(r) PROVE Course'
  <2>1. UNCHANGED <<opts, session, readySent, attached, ready>>
        /\ status \in PostSetup \ {"RECORD"} /\ status' = "PLAYING"
    BY <1>19, StatusSet DEF ReplyToParameter, Handles, sessionVars
  <2> QED BY <1>0, <2>1, CourseKept DEF Recorded
<1>20. ASSUME NEW r \in Replies, ReplyToFlush(r) PROVE Course'
  <2>1. UNCHANGED <<opts, readySent, attached>>
        /\ status = "FLUSH" /\ status' = "PLAYING" /\ session' = TRUE
        /\ ready' = IF attached THEN ready + 1 ELSE ready
    BY <1>20, StatusSet DEF ReplyToFlush, Handles
  <2> QED BY <1>0, <2>1 DEF Course, Closes, Paths, Recorded
<1>21. ASSUME NEW withinBlock \in BOOLEAN, LatePiece(withinBlock) PROVE Course'
  <2>1. UNCHANGED <<opts, status, credentials, session, readySent, attached, ready>>
    BY <1>21 DEF LatePiece, keyVars, sessionVars, eventVars
  <2>2. status # "CLOSED"
    BY <1>21 DEF LatePiece, Ordered, Links
  <2> QED BY <2>1, <2>2, CourseKept
<1> QED
  BY <1>1, <1>2, <1>3, <1>4, <1>5, <1>6, <1>7, <1>8, <1>9, <1>10, <1>11, <1>12,
     <1>13, <1>14, <1>15, <1>16, <1>17, <1>18, <1>19, <1>20, <1>21
     DEF Environment, Reply

LEMMA SendCourse ==
    ASSUME Course, NEW s \in ParameterStatus \cup {"FLUSH", "OPTIONS"}, Send(s),
           status = "PLAYING"
    PROVE  Course'
<1>1. UNCHANGED <<opts, session, readySent, attached, ready, credentials>> /\ status' = s
  BY StatusSet DEF Send, keyVars, sessionVars, eventVars
<1>2. session
  BY DEF Course, Recorded, PostSetup
<1> QED
  BY <1>1, <1>2, CourseKept DEF ParameterStatus, HomeKitStatus, Ap2SetupStatus

LEMMA UserCourse == TypeOK /\ Course /\ User => Course'
<1> SUFFICES ASSUME TypeOK, Course, User PROVE Course'
  OBVIOUS
<1>1. CASE SetVolume \/ SetProgress \/ SetArtwork \/ Flush
  BY <1>1, SendCourse
     DEF SetVolume, SetProgress, SetArtwork, Flush, Command, ParameterStatus
<1>2. ASSUME NEW hasArtist \in BOOLEAN, SetTrackInfo(hasArtist) PROVE Course'
  <2>1. CASE hasArtist
    BY <1>2, <2>1, SendCourse DEF SetTrackInfo, Command, ParameterStatus
  <2>2. CASE ~hasArtist
    <3>1. UNCHANGED <<opts, status, credentials, session, readySent, attached, ready>>
          /\ status = "PLAYING"
      BY <1>2, <2>2 DEF SetTrackInfo, Command, keyVars, sessionVars, eventVars
    <3> QED BY <3>1, CourseKept
  <2> QED BY <2>1, <2>2
<1>3. CASE SetUntypedArtwork \/ Teardown
  BY <1>3, CleanupCourse DEF SetUntypedArtwork, Teardown
<1>4. CASE SetPasscode
  <2>1. UNCHANGED <<opts, session, readySent, attached, ready>> /\ status' = FirstPairing
    BY <1>4, StatusSet DEF SetPasscode, sessionVars
  <2> QED
    BY <2>1, CourseKept DEF FirstPairing, HomeKitStatus, Ap2SetupStatus, PostSetup,
       ParameterStatus
<1> QED BY <1>1, <1>2, <1>3, <1>4 DEF User

LEMMA TimersCourse == Course /\ Timers => Course'
<1> SUFFICES ASSUME Course, Timers PROVE Course'
  OBVIOUS
<1>1. CASE RetryFires
  BY <1>1 DEF RetryFires, keyVars, sessionVars, eventVars, Course, Closes, Paths, Recorded
<1>2. CASE TimeoutFires
  BY <1>2, CleanupCourse DEF TimeoutFires
<1>3. CASE HeartBeatTick
  BY <1>3, SendCourse DEF HeartBeatTick
<1> QED BY <1>1, <1>2, <1>3 DEF Timers

LEMMA NextCourse == TypeOK /\ Ordered /\ Course /\ [Next]_vars => Course'
<1>1. ASSUME Course, UNCHANGED vars PROVE Course'
  BY <1>1 DEF Course, Closes, Paths, Recorded, vars, keyVars, linkVars, sessionVars,
     eventVars
<1> QED BY <1>1, EnvironmentCourse, UserCourse, TimersCourse DEF Next

-----------------------------------------------------------------------------
(* A conversation that nothing has disturbed. *)

(* There is one connection, from the start to the end of the client; a     *)
(* prompt is about it; the AirPlay 2 session has its credentials; three    *)
(* calls alone can have thrown, or led to it.  But for a stray passcode, a *)
(* prompt is open before anything else has been asked, and only RECORD     *)
(* lies between the AirPlay 1 session and the first 'ready'.               *)
Undisturbed ==
    /\ ~retry /\ asked # "before"
    /\ attached => \/ socket = "open"
                   \/ /\ socket = "connecting"
                      /\ status \in {"PAIR_VERIFY_1", FirstPairing}
                      /\ ~session /\ asked = "no"
    /\ ~attached => socket = "null" /\ status = "CLOSED"
    /\ status \notin {"OPTIONS2", "OPTIONS3"}
    /\ attached => /\ status \in Ap2SetupStatus => credentials
                   /\ opts.airplay2 /\ (session \/ status = "RECORD") => credentials
    /\ \/ crashed \in {"no", "no_artist"}
       \/ crashed = "no_credentials" /\ status = "FLUSH" /\ ~opts.airplay2
       \/ crashed = "bad_body" /\ outOfTurn
    /\ ~outOfTurn =>
        /\ asked = "here" => status \in {"PAIR_PIN_START", FirstPairing}
        /\ attached /\ ~opts.airplay2 /\ session => ready > 0 \/ status = "RECORD"

Smooth == mishaps = 0 => Undisturbed

LEMMA InitSmooth == Init => Smooth
BY DEF Init, Smooth, Undisturbed, Ap2SetupStatus

LEMMA CleanupSmooth ==
    ASSUME Undisturbed, Running, Cleanup, UNCHANGED outOfTurn
    PROVE  Undisturbed'
BY DEF Cleanup, sessionVars, Undisturbed, Running, Ap2SetupStatus

(* An answer on the one connection there is: the proper one, and to the    *)
(* only request, but for stray calls.                                      *)
LEMMA AnswersSmooth ==
    ASSUME TypeOK, Ordered, Told, Smooth, NEW r \in Replies, Answers(r), mishaps' = 0
    PROVE  /\ Undisturbed /\ r = "ok" /\ socket = "open" /\ attached /\ crashed = "no"
           /\ UNCHANGED outOfTurn
           /\ ~outOfTurn => asked = "no" /\ Head(wire).of = status
<1>1. mishaps \in Nat /\ asked \in {"no", "here", "before"}
  BY DEF TypeOK
<1>2. r = "ok" /\ mishaps = 0
  BY <1>1 DEF Answers, Mishap
<1>3. Undisturbed
  BY <1>2 DEF Smooth
<1>4. ~outOfTurn => asked = "no"
  BY <1>1, <1>3, AnswersOrdered DEF Undisturbed
<1>5. socket = "open" /\ wire # <<>> /\ crashed = "no" /\ UNCHANGED outOfTurn
  BY DEF Answers, Running
<1> QED BY <1>2, <1>3, <1>4, <1>5 DEF Undisturbed, Ordered, Lockstep

(* A handler that goes on to another request keeps the conversation whole. *)
LEMMA SmoothKept ==
    ASSUME Undisturbed, attached, socket' = "open",
           UNCHANGED <<opts, retry, outOfTurn, attached, session, ready>>,
           crashed' = "no",
           asked' # "before",
           status' \notin {"OPTIONS2", "OPTIONS3"},
           status' \in Ap2SetupStatus => credentials',
           opts.airplay2 /\ (session \/ status' = "RECORD") => credentials',
           ~outOfTurn =>
               /\ asked' = "here" => status' \in {"PAIR_PIN_START", FirstPairing}
               /\ ~opts.airplay2 /\ session => ready > 0 \/ status' = "RECORD"
    PROVE  Undisturbed'
BY DEF Undisturbed, FirstPairing

(* Nothing is lost by asking while the connection is open.                 *)
LEMMA RequestSmooth ==
    ASSUME NEW s, NEW rest, Request(s, rest), socket' = "open",
           s \in AlwaysSealed => credentials'
    PROVE  status' = s /\ crashed' = crashed
BY RequestSets

LEMMA EnvironmentSmooth ==
    TypeOK /\ Ordered /\ Told /\ Course /\ Smooth /\ Environment => Smooth'
<1> SUFFICES ASSUME TypeOK, Ordered, Told, Course, Smooth, Environment, mishaps' = 0
             PROVE  Undisturbed'
  BY DEF Smooth
<1> USE DEF Ap2SetupStatus
<1>0. mishaps \in Nat /\ \A kind : ~Mishap(kind)
  BY DEF TypeOK, Mishap
<1>1. CASE Connected
  <2>1. /\ Undisturbed /\ socket' = "open"
        /\ UNCHANGED <<opts, retry, outOfTurn, attached, session, ready>>
        /\ crashed = "no"
    BY <1>1 DEF Connected, Running, sessionVars, budgetVars, Smooth
  <2>2. attached /\ ~session /\ asked = "no"
    BY <1>1, <2>1 DEF Connected, Undisturbed
  <2>3. CASE opts.needPassword \/ opts.needPin
    <3>1. PairPinStart(wire)
      BY <1>1, <2>3 DEF Connected
    <3> QED BY <2>1, <2>2, <3>1, PairPinStartSets, SmoothKept
  <2>4. CASE ~(opts.needPassword \/ opts.needPin)
    <3>1. UNCHANGED <<credentials, asked>>
          /\ Request(IF opts.mode = 2 THEN "AUTH_SETUP" ELSE "OPTIONS", wire)
      BY <1>1, <2>4 DEF Connected
    <3>2. status' \in {"AUTH_SETUP", "OPTIONS"} /\ crashed' = crashed
      BY <2>1, <3>1, RequestSmooth DEF AlwaysSealed
    <3> QED BY <2>1, <2>2, <3>1, <3>2, SmoothKept
  <2> QED BY <2>3, <2>4
<1>2. CASE ConnectionFails
  BY <1>0, <1>2 DEF ConnectionFails
<1>3. CASE PeerCloses
  BY <1>0, <1>3 DEF PeerCloses
<1>4. CASE ReplyIllegible
  <2>1. "ok" \in Replies /\ Answers("ok")
    BY <1>4 DEF Replies, ReplyIllegible
  <2>2. Undisturbed /\ socket = "open" /\ attached /\ UNCHANGED outOfTurn
    BY <2>1, AnswersSmooth
  <2>3. UNCHANGED <<opts, retry, attached, session, ready, crashed, socket, asked,
                    credentials, status>>
    BY <1>4 DEF ReplyIllegible, Rest, linkVars, sessionVars, eventVars
  <2> QED BY <2>2, <2>3 DEF Undisturbed, FirstPairing
<1>5. CASE SplitReply
  BY <1>0, <1>5 DEF SplitReply
<1>6. CASE ReplyUnauthorized
  BY <1>0, <1>6 DEF ReplyUnauthorized, Answers
<1>7. CASE ReplyBusy
  BY <1>0, <1>7 DEF ReplyBusy, Answers
<1>8. ASSUME NEW r \in Replies, Accepted(r)
      PROVE  /\ Undisturbed /\ r = "ok" /\ attached /\ socket = "open" /\ crashed = "no"
             /\ UNCHANGED outOfTurn
             /\ ~outOfTurn => asked = "no" /\ HasBody(r)
  BY <1>8, AnswersSmooth DEF Accepted, HasBody
<1>9. ASSUME NEW r \in Replies, Handles(r)
      PROVE  /\ Undisturbed /\ r = "ok" /\ attached
             /\ socket' = "open" /\ UNCHANGED <<opts, retry, outOfTurn, attached>>
             /\ crashed = "no" /\ asked # "before"
             /\ ~outOfTurn => asked = "no"
  BY <1>8, <1>9 DEF Handles, Undisturbed
<1>10. ASSUME NEW r \in Replies, ReplyToPinStart(r) PROVE Undisturbed'
  <2>1. Handles(r) /\ UNCHANGED <<credentials, session, ready>> /\ status = "PAIR_PIN_START"
    BY <1>10 DEF ReplyToPinStart, sessionVars
  <2>2. status' = FirstPairing /\ crashed' = crashed /\ asked' # "before"
    BY <1>9, <1>10, <2>1, RequestSmooth
       DEF ReplyToPinStart, Rest, FirstPairing, AlwaysSealed
  <2> QED BY <1>9, <2>1, <2>2, SmoothKept DEF Undisturbed, FirstPairing
<1>11. ASSUME NEW r \in Replies, ReplyToPairing(r) PROVE Undisturbed'
  <2>1. /\ Handles(r) /\ UNCHANGED <<session, ready, asked>>
        /\ credentials' = (credentials \/ NewCredentials)
        /\ status \in PairingStatus \ {"PAIR_PIN_START"}
        /\ Request(AfterPairing[status], Tail(wire))
    BY <1>11 DEF ReplyToPairing, sessionVars
  <2>2. /\ AfterPairing[status] \in RequestStatus
        /\ AfterPairing[status] \notin {"OPTIONS2", "OPTIONS3", "RECORD", "FLUSH"}
        /\ AfterPairing[status] \in Ap2SetupStatus =>
               \/ status = "PAIR_VERIFY_HAP_2"
               \/ status = "PAIR_SETUP_2" /\ opts.transient
    BY <2>1 DEF AfterPairing, PairingStatus, RequestStatus, OptionsStatus
  <2>3. AfterPairing[status] \in Ap2SetupStatus => credentials'
    BY <2>1, <2>2 DEF Course, Paths, NewCredentials
  <2>4. status' = AfterPairing[status] /\ crashed' = crashed
    BY <1>9, <2>1, <2>2, <2>3, RequestSmooth DEF AlwaysSealed
  <2>5. /\ status' \notin {"OPTIONS2", "OPTIONS3", "RECORD"}
        /\ status' \in Ap2SetupStatus => credentials'
    BY <2>2, <2>3, <2>4
  <2>6. status # "RECORD"
    BY <2>1 DEF PairingStatus
  <2>7. /\ opts.airplay2 /\ session => credentials'
        /\ ~outOfTurn /\ ~opts.airplay2 /\ session => ready > 0
    BY <1>9, <2>1, <2>6 DEF Undisturbed
  <2> QED BY <1>9, <2>1, <2>4, <2>5, <2>7, SmoothKept
<1>12. ASSUME NEW r \in Replies, ReplyToAuthSetup(r) PROVE Undisturbed'
  <2>1. Handles(r) /\ UNCHANGED <<credentials, session, ready, asked>>
        /\ Request("OPTIONS", Tail(wire))
    BY <1>12 DEF ReplyToAuthSetup, sessionVars
  <2>2. status' = "OPTIONS" /\ crashed' = crashed /\ status = "AUTH_SETUP"
    BY <1>9, <1>12, <2>1, RequestSmooth DEF AlwaysSealed, ReplyToAuthSetup
  <2> QED BY <1>9, <2>1, <2>2, SmoothKept DEF Undisturbed
<1>13. ASSUME NEW r \in Replies, ReplyToOptions(r) PROVE Undisturbed'
  <2>1. Handles(r) /\ UNCHANGED <<session, ready>> /\ r = "ok"
        /\ status \in OptionsStatus
    BY <1>9, <1>13 DEF ReplyToOptions, sessionVars
  <2>2. status = "OPTIONS"
    BY <1>9, <2>1 DEF Undisturbed, OptionsStatus
  <2>3. CASE ~session /\ opts.airplay2
    <3>1. PairPinStart(Tail(wire))
      BY <1>13, <2>1, <2>2, <2>3 DEF ReplyToOptions
    <3> QED BY <1>9, <2>1, <2>3, <3>1, PairPinStartSets, SmoothKept
  <2>4. CASE session
    <3>1. UNCHANGED <<credentials, asked, crashed>> /\ status' = "PLAYING"
      BY <1>13, <2>1, <2>2, <2>4 DEF ReplyToOptions, Rest
    <3> QED BY <1>9, <2>1, <2>2, <2>4, <3>1, SmoothKept DEF Undisturbed
  <2>5. CASE ~session /\ ~opts.airplay2
    <3>1. UNCHANGED <<credentials, asked>> /\ Request("ANNOUNCE", Tail(wire))
      BY <1>13, <2>1, <2>2, <2>5 DEF ReplyToOptions
    <3>2. status' = "ANNOUNCE" /\ crashed' = crashed
      BY <1>9, <2>1, <3>1, RequestSmooth DEF AlwaysSealed
    <3> QED BY <1>9, <2>1, <2>5, <3>1, <3>2, SmoothKept
  <2> QED BY <2>3, <2>4, <2>5
<1>14. ASSUME NEW r \in Replies, ReplyToAnnounce(r) PROVE Undisturbed'
  <2>1. Handles(r) /\ UNCHANGED <<credentials, session, ready, asked>>
        /\ status = "ANNOUNCE" /\ Request("SETUP", Tail(wire))
    BY <1>14 DEF ReplyToAnnounce, sessionVars
  <2>2. status' = "SETUP" /\ crashed' = crashed
    BY <1>9, <2>1, RequestSmooth DEF AlwaysSealed
  <2> QED BY <1>9, <2>1, <2>2, SmoothKept DEF Undisturbed
<1>15. ASSUME NEW r \in Replies, ReplyToSetup(r) PROVE Undisturbed'
  <2>1. Handles(r) /\ UNCHANGED <<credentials, ready, asked>>
        /\ status = "SETUP" /\ Request("RECORD", Tail(wire))
    BY <1>15 DEF ReplyToSetup, sessionVars
  <2>2. status' = "RECORD" /\ crashed' = crashed /\ ~opts.airplay2
    BY <1>9, <2>1, RequestSmooth DEF AlwaysSealed, Course, Paths
  <2> QED BY <1>9, <2>1, <2>2 DEF Undisturbed
<1>16. ASSUME NEW r \in Replies, ReplyToAp2Setup(r) PROVE Undisturbed'
  <2>1. /\ Handles(r) /\ UNCHANGED <<credentials, session, ready, asked>>
        /\ status \in Ap2SetupStatus
        /\ Request(AfterAp2Setup[status], Tail(wire))
    BY <1>16 DEF ReplyToAp2Setup, sessionVars
  <2>2. credentials /\ opts.airplay2
    BY <1>9, <2>1 DEF Undisturbed, Course, Paths
  <2>3. status' = AfterAp2Setup[status] /\ crashed' = crashed
    BY <1>9, <2>1, <2>2, RequestSmooth
  <2>4. status' \notin {"OPTIONS2", "OPTIONS3"}
    BY <2>1, <2>3 DEF AfterAp2Setup
  <2> QED BY <1>9, <2>1, <2>2, <2>3, <2>4, SmoothKept
<1>17. ASSUME NEW r \in Replies, ReplyToRecord(r) PROVE Undisturbed'
  <2>1. /\ Handles(r) /\ UNCHANGED <<credentials, asked>> /\ status = "RECORD"
        /\ Request("SETVOLUME", Tail(wire))
        /\ ready' = IF attached /\ ~(opts.airplay2 /\ readySent) THEN ready + 1 ELSE ready
    BY <1>17 DEF ReplyToRecord, TellsReady
  <2>2. status' = "SETVOLUME" /\ crashed' = crashed
    BY <1>9, <2>1, RequestSmooth DEF AlwaysSealed
  <2>3. ~opts.airplay2 => ready' > 0
    BY <1>9, <2>1 DEF TypeOK
  <2> QED BY <1>9, <2>1, <2>2, <2>3 DEF Undisturbed
<1>18. ASSUME NEW r \in Replies, ReplyToSetVolume(r) PROVE Undisturbed'
  <2>1. /\ Handles(r) /\ UNCHANGED <<credentials, session, ready, asked>>
        /\ status = "SETVOLUME"
    BY <1>18 DEF ReplyToSetVolume, sessionVars
  <2>2. status' \in {"PLAYING", "SETPROGRESS"} /\ crashed' = crashed
    BY <1>9, <1>18, <2>1, RequestSmooth DEF ReplyToSetVolume, Rest, AlwaysSealed
  <2> QED BY <1>9, <2>1, <2>2, SmoothKept DEF Undisturbed
<1>19. ASSUME NEW r \in Replies, ReplyToParameter(r) PROVE Undisturbed'
  <2>1. /\ Handles(r) /\ UNCHANGED <<credentials, session, ready, asked, crashed>>
        /\ status \in {"SETPROGRESS", "SETDAAP", "SETART", "PLAYING"}
        /\ status' = "PLAYING"
    BY <1>19 DEF ReplyToParameter, Rest, sessionVars
  <2> QED BY <1>9, <2>1, SmoothKept DEF Undisturbed
<1>20. ASSUME NEW r \in Replies, ReplyToFlush(r) PROVE Undisturbed'
  <2>1. /\ Handles(r) /\ UNCHANGED <<credentials, asked, crashed>>
        /\ status = "FLUSH" /\ status' = "PLAYING"
        /\ ready' = IF attached THEN ready + 1 ELSE ready
    BY <1>20 DEF ReplyToFlush, Rest
  <2>2. session
    BY <2>1 DEF Course, Recorded, PostSetup
  <2>3. ready' > 0
    BY <1>9, <2>1 DEF TypeOK
  <2> QED BY <1>9, <2>1, <2>2, <2>3 DEF Undisturbed
<1>21. ASSUME NEW r \in Replies, ReplyFailsPairing(r) PROVE Undisturbed'
  <2>1. Undisturbed /\ crashed = "no" /\ UNCHANGED outOfTurn /\ Cleanup
    BY <1>8, <1>21 DEF ReplyFailsPairing
  <2> QED BY <2>1, CleanupSmooth DEF Running
<1>22. ASSUME NEW r \in Replies, ReplyThrows(r) PROVE Undisturbed'
  <2>1. /\ Undisturbed /\ UNCHANGED outOfTurn /\ outOfTurn /\ crashed' = "bad_body"
        /\ UNCHANGED <<opts, retry, asked, attached, socket, status, session, ready,
                       credentials>>
    BY <1>8, <1>22 DEF ReplyThrows, linkVars, keyVars, sessionVars, eventVars
  <2> QED BY <2>1 DEF Undisturbed, FirstPairing
<1>23. ASSUME NEW withinBlock \in BOOLEAN, LatePiece(withinBlock) PROVE Undisturbed'
  BY <1>0, <1>23 DEF LatePiece
<1> QED
  BY <1>1, <1>2, <1>3, <1>4, <1>5, <1>6, <1>7, <1>10, <1>11, <1>12,
     <1>13, <1>14, <1>15, <1>16, <1>17, <1>18, <1>19, <1>20, <1>21, <1>22, <1>23
     DEF Environment, Reply

LEMMA SendSmooth ==
    ASSUME TypeOK, Course, Undisturbed, attached, status = "PLAYING",
           NEW s \in ParameterStatus \cup {"FLUSH", "OPTIONS"}, Send(s), Running
    PROVE  Undisturbed'
<1>1. /\ UNCHANGED <<opts, retry, attached, session, ready, credentials, socket, asked>>
      /\ Request(s, wire) /\ crashed = "no"
  BY DEF Send, Running, linkVars, keyVars, sessionVars, eventVars
<1>2. session /\ socket = "open" /\ (asked = "here" => outOfTurn)
  BY DEF Course, Recorded, PostSetup, Undisturbed, FirstPairing
<1>3. UNCHANGED outOfTurn
  BY <1>1, <1>2 DEF Send, CallsAcross, TypeOK
<1>4. \/ crashed' = crashed
      \/ crashed' = "no_credentials" /\ s = "FLUSH" /\ ~credentials
  BY <1>1, <1>2, RequestSets DEF AlwaysSealed, Ap2SetupStatus, ParameterStatus
<1>5. status' = s
  BY <1>1, RequestSets
<1> QED
  BY <1>1, <1>2, <1>3, <1>4, <1>5 DEF Undisturbed, Ap2SetupStatus, ParameterStatus

LEMMA UserSmooth ==
    TypeOK /\ Ordered /\ Told /\ Course /\ Smooth /\ User => Smooth'
<1> SUFFICES ASSUME TypeOK, Ordered, Told, Course, Smooth, User, mishaps' = 0
             PROVE  Undisturbed'
  BY DEF Smooth
<1>0. UNCHANGED mishaps
  BY DEF User, SetVolume, SetProgress, SetArtwork, Flush, SetTrackInfo,
     SetUntypedArtwork, SetPasscode, Teardown, Command, budgetVars
<1>1. Undisturbed
  BY <1>0 DEF Smooth
<1>2. CASE SetVolume \/ SetProgress \/ SetArtwork \/ Flush
  BY <1>1, <1>2, SendSmooth
     DEF SetVolume, SetProgress, SetArtwork, Flush, Command, ParameterStatus
<1>3. ASSUME NEW hasArtist \in BOOLEAN, SetTrackInfo(hasArtist) PROVE Undisturbed'
  <2>1. CASE hasArtist
    BY <1>1, <1>3, <2>1, SendSmooth DEF SetTrackInfo, Command, ParameterStatus
  <2>2. CASE ~hasArtist
    BY <1>1, <1>3, <2>2 DEF SetTrackInfo, linkVars, keyVars, sessionVars, eventVars,
       Undisturbed, FirstPairing
  <2> QED BY <2>1, <2>2
<1>4. CASE SetUntypedArtwork \/ Teardown
  BY <1>1, <1>4, CleanupSmooth DEF SetUntypedArtwork, Teardown, Command, budgetVars
<1>5. CASE SetPasscode
  <2>1. /\ UNCHANGED <<opts, retry, attached, session, ready, credentials, socket>>
        /\ Request(FirstPairing, wire) /\ asked' = "no" /\ attached
        /\ outOfTurn' = (outOfTurn \/ asked # "here") /\ crashed = "no"
    BY <1>5 DEF SetPasscode, Running, linkVars, keyVars, sessionVars
  <2>2. status' = FirstPairing /\ UNCHANGED crashed
    BY <1>1, <2>1, RequestSets
       DEF Undisturbed, FirstPairing, AlwaysSealed, Ap2SetupStatus
  <2>3. ~outOfTurn' => status \in {"PAIR_PIN_START", FirstPairing}
    BY <1>1, <2>1 DEF Undisturbed
  <2>4. status' \notin Ap2SetupStatus \cup {"OPTIONS2", "OPTIONS3", "RECORD", "CLOSED"}
    BY <2>2 DEF FirstPairing, Ap2SetupStatus
  <2> QED BY <1>1, <2>1, <2>2, <2>3, <2>4 DEF Undisturbed, FirstPairing
<1> QED BY <1>2, <1>3, <1>4, <1>5 DEF User

LEMMA TimersSmooth == TypeOK /\ Course /\ Smooth /\ Timers => Smooth'
<1> SUFFICES ASSUME TypeOK, Course, Smooth, Timers, mishaps' = 0
             PROVE  Undisturbed'
  BY DEF Smooth
<1>0. UNCHANGED mishaps
  BY DEF Timers, RetryFires, TimeoutFires, HeartBeatTick, budgetVars
<1>1. Undisturbed
  BY <1>0 DEF Smooth
<1>2. CASE RetryFires
  BY <1>1, <1>2 DEF RetryFires, Undisturbed
<1>3. CASE TimeoutFires
  BY <1>1, <1>3, CleanupSmooth DEF TimeoutFires, budgetVars
<1>4. CASE HeartBeatTick
  <2>1. attached
    BY <1>1, <1>4 DEF HeartBeatTick, Undisturbed
  <2> QED BY <1>1, <1>4, <2>1, SendSmooth DEF HeartBeatTick
<1> QED BY <1>2, <1>3, <1>4 DEF Timers

LEMMA NextSmooth ==
    TypeOK /\ Ordered /\ Told /\ Course /\ Smooth /\ [Next]_vars => Smooth'
<1>1. ASSUME Smooth, UNCHANGED vars PROVE Smooth'
  BY <1>1 DEF Smooth, Undisturbed, FirstPairing, vars, keyVars, linkVars, sessionVars,
     eventVars, budgetVars
<1> QED BY <1>1, EnvironmentSmooth, UserSmooth, TimersSmooth DEF Next

-----------------------------------------------------------------------------
(* What goes out once the receiver has keys for the connection. *)

Covered(queue) == \A i \in 1..Len(queue) :
    queue[i].sealed \/ queue[i].of \in {"OPTIONS2", "OPTIONS3"}

(* The client has its keys as well and is past the pairing, for good: with *)
(* a session it answers no OPTIONS with another pairing.                   *)
Ahead == /\ credentials /\ encryptedChannel
         /\ \/ status \in Ap2SetupStatus \cup PostSetup
            \/ status \in OptionsStatus /\ session
         /\ Covered(wire)

(* It could not read the reply that ended the pairing, and says no more.   *)
Behind == wire = <<>> /\ status \in {"PAIR_VERIFY_HAP_2", "PAIR_SETUP_2"}

Keyed == /\ secured => socket = "open"
         /\ secured /\ ~outOfTurn => asked # "here" /\ (Behind \/ Ahead)

LEMMA CleanupKeyed == Cleanup => Keyed'
BY DEF Cleanup, Keyed

LEMMA RequestKeyed ==
    ASSUME NEW s, NEW rest, Request(s, rest), socket' = "open",
           secured' /\ ~outOfTurn' =>
               /\ rest = <<>> /\ asked' # "here"
               /\ credentials' /\ encryptedChannel'
               /\ \/ s \in Ap2SetupStatus \cup (PostSetup \ {"PLAYING"})
                  \/ s \in OptionsStatus /\ session'
    PROVE  Keyed'
<1> SUFFICES ASSUME secured', ~outOfTurn' PROVE asked' # "here" /\ Ahead'
  BY DEF Keyed
<1>1. status' = s
  BY DEF Request
<1>2. Sealed(s) \/ s \in {"OPTIONS2", "OPTIONS3"}
  BY DEF Sealed, AlwaysSealed, SharedWrite, PostSetup, OptionsStatus
<1>3. CASE wire' = rest
  <2>1. Covered(wire')
    BY <1>3 DEF Covered
  <2> QED BY <1>1, <2>1 DEF Ahead, Covered
<1>4. CASE wire' = Append(rest, [of |-> s, sealed |-> Sealed(s)])
  <2> DEFINE e == [of |-> s, sealed |-> Sealed(s)]
  <2>1. wire' = Append(<<>>, e) /\ e.of = s /\ e.sealed = Sealed(s)
    BY <1>4
  <2>2. e.sealed \/ e.of \in {"OPTIONS2", "OPTIONS3"}
    BY <1>2, <2>1
  <2> HIDE DEF e
  <2>3. wire' = <<e>>
    BY <2>1
  <2>4. Covered(wire')
    BY <2>2, <2>3 DEF Covered
  <2> QED BY <1>1, <2>4 DEF Ahead, Covered
<1> QED BY <1>3, <1>4 DEF Request

LEMMA RestKeyed ==
    ASSUME NEW s, NEW rest, Rest(s, rest), socket' = "open",
           secured' /\ ~outOfTurn' =>
               /\ rest = <<>> /\ asked' # "here"
               /\ credentials' /\ encryptedChannel'
               /\ \/ s \in Ap2SetupStatus \cup PostSetup
                  \/ s \in OptionsStatus /\ session'
    PROVE  Keyed'
<1> SUFFICES ASSUME secured', ~outOfTurn' PROVE asked' # "here" /\ Ahead'
  BY DEF Keyed
<1>1. status' = s /\ wire' = <<>>
  BY DEF Rest
<1>2. Covered(wire')
  BY <1>1 DEF Covered
<1> QED BY <1>1, <1>2 DEF Ahead, Covered

(* A reply finds the client past the pairing, or is the one that ends it.  *)
LEMMA AnswersKeyed ==
    ASSUME TypeOK, Ordered, Keyed, NEW r \in Replies, Answers(r)
    PROVE  /\ socket = "open" /\ UNCHANGED outOfTurn
           /\ ~outOfTurn => /\ Tail(wire) = <<>> /\ asked # "here"
                            /\ Head(wire).of = status
           /\ ~outOfTurn /\ secured => Ahead
<1>1. wire # <<>>
  BY DEF Answers
<1> QED BY <1>1, AnswersOrdered DEF Keyed, Behind, Ordered, Lockstep

LEMMA HandlesKeyed ==
    ASSUME TypeOK, Ordered, Keyed, NEW r \in Replies, Handles(r)
    PROVE  /\ socket' = "open" /\ UNCHANGED outOfTurn
           /\ secured' /\ ~outOfTurn' =>
                  /\ Tail(wire) = <<>> /\ asked # "here"
                  /\ \/ Ahead
                     \/ status = "PAIR_VERIFY_HAP_2"
                     \/ status = "PAIR_SETUP_2" /\ opts.transient
<1>1. /\ Answers(r) /\ UNCHANGED socket
      /\ secured' = (secured \/ Secures(r))
  BY DEF Handles, Accepted
<1>2. /\ socket = "open" /\ UNCHANGED outOfTurn
      /\ ~outOfTurn => /\ Tail(wire) = <<>> /\ asked # "here"
                       /\ Head(wire).of = status
      /\ ~outOfTurn /\ secured => Ahead
  BY <1>1, AnswersKeyed
<1> QED BY <1>1, <1>2 DEF Secures

LEMMA EnvironmentKeyed ==
    TypeOK /\ Ordered /\ Course /\ Keyed /\ Environment => Keyed'
<1> SUFFICES ASSUME TypeOK, Ordered, Course, Keyed, Environment PROVE Keyed'
  OBVIOUS
<1> USE DEF Ap2SetupStatus, PostSetup, ParameterStatus, OptionsStatus
<1>1. CASE Connected
  <2>1. ~secured'
    BY <1>1 DEF Connected, Keyed
  <2> QED BY <2>1 DEF Keyed
<1>2. CASE ConnectionFails
  <2>1. CASE connectAttempts < MaxAttempts
    BY <1>2, <2>1 DEF ConnectionFails, Keyed
  <2>2. CASE ~(connectAttempts < MaxAttempts)
    BY <1>2, <2>2, CleanupKeyed DEF ConnectionFails
  <2> QED BY <2>1, <2>2
<1>3. CASE PeerCloses
  BY <1>3, CleanupKeyed DEF PeerCloses
<1>4. CASE ReplyIllegible
  <2>1. "ok" \in Replies
    BY DEF Replies
  <2>2. /\ socket = "open" /\ UNCHANGED outOfTurn
        /\ ~outOfTurn => /\ Tail(wire) = <<>> /\ asked # "here"
                         /\ Head(wire).of = status
        /\ ~outOfTurn /\ secured => Ahead
    BY <1>4, <2>1, AnswersKeyed DEF ReplyIllegible
  <2>3. /\ UNCHANGED <<socket, asked, credentials, encryptedChannel, session>>
        /\ Rest(status, Tail(wire)) /\ secured' = (secured \/ Secures("ok"))
    BY <1>4 DEF ReplyIllegible, linkVars, eventVars, sessionVars
  <2>4. CASE ~secured /\ ~outOfTurn /\ secured'
    <3>1. Behind'
      BY <2>2, <2>3, <2>4 DEF Secures, Rest, Behind
    <3> QED BY <2>2, <2>3, <2>4, <3>1 DEF Keyed
  <2>5. CASE secured \/ outOfTurn \/ ~secured'
    BY <2>2, <2>3, <2>5, RestKeyed DEF Ahead
  <2> QED BY <2>4, <2>5
<1>5. CASE SplitReply
  BY <1>5 DEF SplitReply, Keyed, Behind, Ahead, Covered, linkVars, eventVars, sessionVars
<1>6. CASE ReplyUnauthorized
  <2>1. "unauthorized" \in Replies
    BY DEF Replies
  <2>2. /\ socket = "open" /\ UNCHANGED outOfTurn
        /\ ~outOfTurn => Tail(wire) = <<>> /\ asked # "here"
        /\ ~outOfTurn /\ secured => Ahead
    BY <1>6, <2>1, AnswersKeyed DEF ReplyUnauthorized
  <2>3. CASE Cleanup
    BY <2>3, CleanupKeyed
  <2>4. CASE ~Cleanup
    <3>1. UNCHANGED <<socket, secured, encryptedChannel, session>>
      BY <1>6, <2>4 DEF ReplyUnauthorized, linkVars, keyVars, sessionVars
    <3>2. CASE status = "PAIR_PIN_START" /\ (outOfTurn \/ ~secured)
      BY <2>2, <3>1, <3>2 DEF Keyed
    <3>3. CASE status # "PAIR_PIN_START"
      <4>1. /\ UNCHANGED <<credentials, asked>>
            /\ \/ Rest(status, Tail(wire))
               \/ status # "PLAYING" /\ Request(status, Tail(wire))
        BY <1>6, <2>4, <3>3 DEF ReplyUnauthorized, keyVars, eventVars
      <4> QED BY <2>2, <3>1, <4>1, RestKeyed, RequestKeyed DEF Ahead
    <3>4. status = "PAIR_PIN_START" => outOfTurn \/ ~secured
      BY <2>2 DEF Ahead
    <3> QED BY <3>2, <3>3, <3>4
  <2> QED BY <2>3, <2>4
<1>7. CASE ReplyBusy
  BY <1>7, CleanupKeyed DEF ReplyBusy
<1>8. ASSUME NEW r \in Replies, ReplyFailsPairing(r) PROVE Keyed'
  BY <1>8, CleanupKeyed DEF ReplyFailsPairing
<1>9. ASSUME NEW r \in Replies, ReplyThrows(r) PROVE Keyed'
  <2>1. UNCHANGED <<socket, outOfTurn, status, wire, credentials, encryptedChannel,
                    secured, session, asked>>
    BY <1>9 DEF ReplyThrows, Accepted, Answers, linkVars, keyVars, sessionVars, eventVars
  <2> QED BY <2>1 DEF Keyed, Behind, Ahead, Covered
<1>10. ASSUME NEW r \in Replies, Handles(r),
              status \notin {"PAIR_VERIFY_HAP_2", "PAIR_SETUP_2"}
       PROVE  /\ socket' = "open" /\ UNCHANGED outOfTurn
              /\ secured' /\ ~outOfTurn' =>
                     Tail(wire) = <<>> /\ asked # "here" /\ Ahead
  BY <1>10, HandlesKeyed
<1>11. ASSUME NEW r \in Replies,
              \/ ReplyToPinStart(r) \/ ReplyToAuthSetup(r) \/ ReplyToAnnounce(r)
              \/ ReplyToSetup(r)
       PROVE  Keyed'
  <2>1. Handles(r) /\ status \in {"PAIR_PIN_START", "AUTH_SETUP", "ANNOUNCE", "SETUP"}
    BY <1>11 DEF ReplyToPinStart, ReplyToAuthSetup, ReplyToAnnounce, ReplyToSetup
  <2>2. socket' = "open" /\ (outOfTurn' \/ ~secured')
    BY <1>10, <2>1 DEF Ahead
  <2> QED BY <2>2 DEF Keyed
<1>12. ASSUME NEW r \in Replies, ReplyToPairing(r) PROVE Keyed'
  <2>1. Handles(r) /\ Request(AfterPairing[status], Tail(wire)) /\ UNCHANGED asked
        /\ status \in PairingStatus
        /\ credentials' = (credentials \/ NewCredentials)
        /\ encryptedChannel' = (encryptedChannel \/ OpensChannel)
    BY <1>12 DEF ReplyToPairing
  <2>2. status \notin Ap2SetupStatus \cup PostSetup \cup OptionsStatus
    BY <2>1 DEF PairingStatus
  <2>3. CASE secured' /\ ~outOfTurn'
    <3>1. /\ Tail(wire) = <<>> /\ asked # "here" /\ socket' = "open"
          /\ \/ status = "PAIR_VERIFY_HAP_2"
             \/ status = "PAIR_SETUP_2" /\ opts.transient
      BY <2>1, <2>2, <2>3, HandlesKeyed DEF Ahead
    <3>2. credentials' /\ encryptedChannel'
      BY <2>1, <3>1 DEF NewCredentials, OpensChannel, Course, Paths
    <3>3. AfterPairing[status] = "SETUP_AP2_1"
      BY <3>1 DEF AfterPairing
    <3> QED BY <2>1, <3>1, <3>2, <3>3, RequestKeyed
  <2>4. CASE ~secured' \/ outOfTurn'
    BY <2>1, <2>4, HandlesKeyed DEF Keyed
  <2> QED BY <2>3, <2>4
<1>13. ASSUME NEW r \in Replies, ReplyToOptions(r) PROVE Keyed'
  <2>1. /\ Handles(r) /\ status \in OptionsStatus
        /\ UNCHANGED <<encryptedChannel, session>>
    BY <1>13 DEF ReplyToOptions, sessionVars
  <2>2. /\ socket' = "open" /\ UNCHANGED outOfTurn
        /\ secured' /\ ~outOfTurn' =>
               Tail(wire) = <<>> /\ asked # "here" /\ Ahead /\ session
    BY <1>10, <2>1 DEF Ahead
  <2>3. CASE secured' /\ ~outOfTurn'
    <3>1. UNCHANGED <<credentials, asked>>
      BY <1>13, <2>2, <2>3 DEF ReplyToOptions
    <3>2. \/ Rest("PLAYING", Tail(wire))
          \/ \E s \in {"OPTIONS2", "OPTIONS3"} : Request(s, Tail(wire))
      BY <1>13, <2>2, <2>3 DEF ReplyToOptions
    <3> QED BY <2>1, <2>2, <2>3, <3>1, <3>2, RestKeyed, RequestKeyed DEF Ahead
  <2>4. CASE ~secured' \/ outOfTurn'
    BY <2>2, <2>4 DEF Keyed
  <2> QED BY <2>3, <2>4
<1>14. ASSUME NEW r \in Replies, ReplyToAp2Setup(r) PROVE Keyed'
  <2>1. Handles(r) /\ status \in Ap2SetupStatus /\ Request(AfterAp2Setup[status], Tail(wire))
        /\ UNCHANGED <<asked, credentials, encryptedChannel>>
    BY <1>14 DEF ReplyToAp2Setup
  <2>2. AfterAp2Setup[status] \in {"SETPEERS", "SETUP_AP2_2", "RECORD"}
    BY <2>1 DEF AfterAp2Setup
  <2> QED BY <1>10, <2>1, <2>2, RequestKeyed DEF Ahead
<1>15. ASSUME NEW r \in Replies, ReplyToRecord(r) \/ ReplyToSetVolume(r) PROVE Keyed'
  <2>1. Handles(r) /\ status \in {"RECORD", "SETVOLUME"}
        /\ UNCHANGED <<asked, credentials, encryptedChannel>>
    BY <1>15 DEF ReplyToRecord, ReplyToSetVolume
  <2>2. \/ Rest("PLAYING", Tail(wire)) \/ Request("SETVOLUME", Tail(wire))
        \/ Request("SETPROGRESS", Tail(wire))
    BY <1>15 DEF ReplyToRecord, ReplyToSetVolume
  <2> QED BY <1>10, <2>1, <2>2, RestKeyed, RequestKeyed DEF Ahead
<1>16. ASSUME NEW r \in Replies, ReplyToParameter(r) \/ ReplyToFlush(r) PROVE Keyed'
  <2>1. Handles(r) /\ status \in PostSetup /\ Rest("PLAYING", Tail(wire))
        /\ UNCHANGED <<asked, credentials, encryptedChannel>>
    BY <1>16 DEF ReplyToParameter, ReplyToFlush
  <2> QED BY <1>10, <2>1, RestKeyed DEF Ahead
<1>17. ASSUME NEW withinBlock \in BOOLEAN, LatePiece(withinBlock) PROVE Keyed'
  BY <1>17 DEF LatePiece, Keyed, Behind, Ahead, Covered, linkVars, eventVars, sessionVars
<1> QED
  BY <1>1, <1>2, <1>3, <1>4, <1>5, <1>6, <1>7, <1>8, <1>9, <1>11, <1>12, <1>13,
     <1>14, <1>15, <1>16, <1>17 DEF Environment, Reply

LEMMA SendKeyed ==
    ASSUME TypeOK, Ordered, Course, Keyed, status = "PLAYING",
           NEW s \in ParameterStatus \cup {"FLUSH", "OPTIONS"}, Send(s)
    PROVE  Keyed'
<1>1. Request(s, wire)
      /\ UNCHANGED <<socket, credentials, encryptedChannel, secured, session, asked>>
  BY DEF Send, linkVars, keyVars, sessionVars, eventVars
<1>2. ~outOfTurn' => ~outOfTurn
  BY DEF Send, CallsAcross
<1>3. CASE secured /\ ~outOfTurn
  <2>1. socket = "open" /\ Ahead /\ asked # "here"
    BY <1>3 DEF Keyed, Behind
  <2>2. session
    BY DEF Course, Recorded, PostSetup
  <2>3. wire # <<>> => Head(wire) \in Requests
    BY HeadTailProperties DEF TypeOK
  <2>4. wire = <<>>
    BY <1>3, <2>3 DEF Ordered, Lockstep, Requests, RequestStatus, PairingStatus,
       OptionsStatus, Ap2SetupStatus, ParameterStatus
  <2> QED
    BY <1>1, <2>1, <2>2, <2>4, RequestKeyed
       DEF Ahead, PostSetup, OptionsStatus, ParameterStatus
<1>4. CASE ~(secured /\ ~outOfTurn)
  BY <1>1, <1>2, <1>4 DEF Keyed
<1> QED BY <1>3, <1>4

LEMMA UserKeyed == TypeOK /\ Ordered /\ Course /\ Keyed /\ User => Keyed'
<1> SUFFICES ASSUME TypeOK, Ordered, Course, Keyed, User PROVE Keyed'
  OBVIOUS
<1>1. CASE SetVolume \/ SetProgress \/ SetArtwork \/ Flush
  BY <1>1, SendKeyed
     DEF SetVolume, SetProgress, SetArtwork, Flush, Command, ParameterStatus
<1>2. ASSUME NEW hasArtist \in BOOLEAN, SetTrackInfo(hasArtist) PROVE Keyed'
  <2>1. CASE hasArtist
    BY <1>2, <2>1, SendKeyed DEF SetTrackInfo, Command, ParameterStatus
  <2>2. CASE ~hasArtist
    BY <1>2, <2>2 DEF SetTrackInfo, Keyed, Behind, Ahead, Covered, linkVars, keyVars,
       sessionVars, eventVars
  <2> QED BY <2>1, <2>2
<1>3. CASE SetUntypedArtwork \/ Teardown
  BY <1>3, CleanupKeyed DEF SetUntypedArtwork, Teardown
<1>4. CASE SetPasscode
  <2>1. UNCHANGED <<socket, secured>> /\ outOfTurn' = (outOfTurn \/ asked # "here")
    BY <1>4 DEF SetPasscode, linkVars, keyVars
  <2> QED BY <2>1 DEF Keyed
<1> QED BY <1>1, <1>2, <1>3, <1>4 DEF User

LEMMA TimersKeyed == TypeOK /\ Ordered /\ Course /\ Keyed /\ Timers => Keyed'
<1> SUFFICES ASSUME TypeOK, Ordered, Course, Keyed, Timers PROVE Keyed'
  OBVIOUS
<1>1. CASE RetryFires
  BY <1>1 DEF RetryFires, Ordered, Links, Keyed, keyVars
<1>2. CASE TimeoutFires
  BY <1>2, CleanupKeyed DEF TimeoutFires
<1>3. CASE HeartBeatTick
  BY <1>3, SendKeyed DEF HeartBeatTick
<1> QED BY <1>1, <1>2, <1>3 DEF Timers

LEMMA NextKeyed == TypeOK /\ Ordered /\ Course /\ Keyed /\ [Next]_vars => Keyed'
<1>1. ASSUME Keyed, UNCHANGED vars PROVE Keyed'
  BY <1>1 DEF Keyed, Behind, Ahead, Covered, vars, keyVars, linkVars, sessionVars,
     eventVars, budgetVars
<1> QED BY <1>1, EnvironmentKeyed, UserKeyed, TimersKeyed DEF Next

Whole == TypeOK /\ Ordered /\ Told /\ Course /\ Smooth /\ Keyed

LEMMA WholeInductive == Spec => []Whole
<1>1. Init => Whole
  BY InitType, InitOrdered, InitCourse, InitSmooth
     DEF Whole, Init, Told, PostSetup, ParameterStatus, Keyed
<1>2. Whole /\ [Next]_vars => Whole'
  BY NextType, NextOrdered, NextTold, NextCourse, NextSmooth, NextKeyed
     DEF Whole, Ordered
<1> QED BY <1>1, <1>2, PTL DEF Spec

(* Without a mishap no handler throws, whatever the client's options and   *)
(* the order of replies, timers and calls, but for flush on a session      *)
(* without credentials, setTrackInfo without an artist, and a reply read as*)
(* another's after a stray passcode.                                       *)
THEOREM CrashesAreMishaps == Spec => []CrashNeedsMishap
<1>1. Whole => CrashNeedsMishap
  BY DEF Whole, Smooth, Undisturbed, CrashNeedsMishap, Running
<1> QED BY <1>1, WholeInductive, PTL

(* A client that takes commands has a session and has announced it.        *)
THEOREM PlayingAnnounced == Spec => []PlayingWasAnnounced
<1>1. ASSUME Whole, status = "PLAYING", attached
      PROVE  /\ session /\ configured
             /\ ready > 0 \/ (~opts.airplay2 /\ (mishaps > 0 \/ outOfTurn))
  <2>1. session
    BY <1>1 DEF Whole, Course, Recorded, PostSetup
  <2>2. configured
    BY <1>1, <2>1 DEF Whole, Told
  <2>3. CASE opts.airplay2
    <3>1. readySent
      BY <1>1, <2>1, <2>3 DEF Whole, Course, Recorded
    <3>2. ready > 0
      BY <1>1, <3>1 DEF Whole, Course, Recorded
    <3> QED BY <2>1, <2>2, <3>2
  <2>4. CASE ~opts.airplay2
    <3>1. CASE mishaps = 0
      <4>1. Undisturbed
        BY <1>1, <3>1 DEF Whole, Smooth
      <4>2. ready > 0 \/ outOfTurn
        BY <1>1, <2>1, <2>4, <4>1 DEF Undisturbed
      <4> QED BY <2>1, <2>2, <2>4, <4>2
    <3>2. CASE mishaps # 0
      <4>1. mishaps \in Nat
        BY <1>1 DEF Whole, TypeOK
      <4>2. mishaps > 0
        BY <3>2, <4>1
      <4> QED BY <2>1, <2>2, <2>4, <4>2
    <3> QED BY <3>1, <3>2
  <2> QED BY <2>1, <2>2, <2>3, <2>4
<1>2. Whole => PlayingWasAnnounced
  BY <1>1 DEF PlayingWasAnnounced
<1> QED BY <1>2, WholeInductive, PTL

(* On a connection the receiver has keys for, whatever happened to earlier *)
(* connections, nothing but the two digest answers goes out in clear, as   *)
(* long as no stray call is made on this one.                              *)
THEOREM SealedSinceSecured == Spec => []SealedOnceSecured
<1>1. Whole => SealedOnceSecured
  <2> SUFFICES ASSUME Keyed, secured, ~outOfTurn PROVE Covered(wire)
    BY DEF Whole, SealedOnceSecured, Covered
  <2>1. CASE Behind
    BY <2>1 DEF Behind, Covered
  <2>2. CASE Ahead
    BY <2>2 DEF Ahead
  <2> QED BY <2>1, <2>2 DEF Keyed
<1> QED BY <1>1, WholeInductive, PTL

(* Two replies alone tell the device 'ready'. *)
LEMMA ReadyTold ==
    ASSUME [Next]_vars, ready' # ready
    PROVE  \E r \in Replies : ReplyToRecord(r) \/ ReplyToFlush(r)
<1>1. ~Connected /\ ~ConnectionFails /\ ~PeerCloses /\ ~ReplyIllegible /\ ~SplitReply
  BY DEF Connected, ConnectionFails, PeerCloses, ReplyIllegible, SplitReply, Cleanup,
     eventVars
<1>2. ~ReplyUnauthorized /\ ~ReplyBusy
  BY DEF ReplyUnauthorized, ReplyBusy, Cleanup, eventVars
<1>3. ASSUME NEW r \in Replies
      PROVE  /\ ~ReplyFailsPairing(r) /\ ~ReplyThrows(r) /\ ~ReplyToPinStart(r)
             /\ ~ReplyToPairing(r) /\ ~ReplyToAuthSetup(r) /\ ~ReplyToOptions(r)
             /\ ~ReplyToAnnounce(r) /\ ~ReplyToSetup(r) /\ ~ReplyToAp2Setup(r)
             /\ ~ReplyToSetVolume(r) /\ ~ReplyToParameter(r)
  BY DEF ReplyFailsPairing, ReplyThrows, ReplyToPinStart, ReplyToPairing,
     ReplyToAuthSetup, ReplyToOptions, ReplyToAnnounce, ReplyToSetup, ReplyToAp2Setup,
     ReplyToSetVolume, ReplyToParameter, Cleanup, eventVars
<1>4. ~User
  BY DEF User, SetVolume, SetProgress, SetArtwork, Flush, SetTrackInfo,
     SetUntypedArtwork, SetPasscode, Teardown, Send, Cleanup, eventVars
<1>5. ~Timers
  BY DEF Timers, RetryFires, TimeoutFires, HeartBeatTick, Send, Cleanup, eventVars
<1>6. Environment
  BY <1>4, <1>5 DEF Next, vars, eventVars
<1>7. ASSUME NEW withinBlock \in BOOLEAN PROVE ~LatePiece(withinBlock)
  BY DEF LatePiece, eventVars
<1> QED BY <1>1, <1>2, <1>3, <1>6, <1>7 DEF Environment, Reply

(* A second handshake never starts a second relay: after the first 'ready' *)
(* only the reply to a flush repeats it.                                   *)
THEOREM ReadyOnlyAfterFlush == Spec => ReadyRepeatsOnlyOnFlush
<1>1. ASSUME Whole, [Next]_vars, ready > 0, ready' # ready PROVE status = "FLUSH"
  <2>1. PICK r \in Replies : ReplyToRecord(r) \/ ReplyToFlush(r)
    BY <1>1, ReadyTold
  <2>2. ~ReplyToRecord(r)
    BY <1>1 DEF ReplyToRecord, TellsReady, Whole, Course, Recorded
  <2> QED BY <2>1, <2>2 DEF ReplyToFlush
<1>2. Whole /\ [Next]_vars => [ready > 0 /\ ready' # ready => status = "FLUSH"]_vars
  BY <1>1
<1> QED BY <1>2, WholeInductive, PTL DEF Spec, ReadyRepeatsOnlyOnFlush

(* A closed client without a connection does nothing any more, unless a    *)
(* back-off was pending when it was closed.                                *)
THEOREM ClosedStaysInert == Spec => ClosedIsInert
<1>1. ASSUME Whole, Next, status = "CLOSED", socket = "null" PROVE RetryFires
  <2>1. ~attached /\ ~timeout /\ asked = "no"
    BY <1>1 DEF Whole, Course, Closes, Told
  <2>2. ASSUME NEW r PROVE ~Answers(r)
    BY <1>1 DEF Answers
  <2>3. ~Environment
    <3>1. ~Connected /\ ~ConnectionFails /\ ~PeerCloses /\ ~SplitReply
      BY <1>1 DEF Connected, ConnectionFails, PeerCloses, SplitReply
    <3>2. ~ReplyIllegible /\ ~ReplyUnauthorized /\ ~ReplyBusy
      BY <2>2 DEF ReplyIllegible, ReplyUnauthorized, ReplyBusy
    <3>3. ASSUME NEW r \in Replies PROVE ~Accepted(r) /\ ~Handles(r)
      BY <2>2 DEF Accepted, Handles
    <3>4. ~Reply
      BY <3>3 DEF Reply, ReplyFailsPairing, ReplyThrows, ReplyToPinStart,
         ReplyToPairing, ReplyToAuthSetup, ReplyToOptions, ReplyToAnnounce,
         ReplyToSetup, ReplyToAp2Setup, ReplyToRecord, ReplyToSetVolume,
         ReplyToParameter, ReplyToFlush
    <3>5. ASSUME NEW withinBlock \in BOOLEAN PROVE ~LatePiece(withinBlock)
      BY <1>1 DEF LatePiece
    <3> QED BY <3>1, <3>2, <3>4, <3>5 DEF Environment
  <2>4. ~User
    BY <2>1 DEF User, SetVolume, SetProgress, SetArtwork, Flush, SetTrackInfo,
       SetUntypedArtwork, SetPasscode, Teardown, Command
  <2> QED BY <1>1, <2>1, <2>3, <2>4 DEF Next, Timers, TimeoutFires, HeartBeatTick
<1>2. Whole /\ [Next]_vars => [status = "CLOSED" /\ socket = "null" => retry /\ ~retry']_vars
  <2> SUFFICES ASSUME Whole, Next, status = "CLOSED", socket = "null" PROVE retry /\ ~retry'
    OBVIOUS
  <2> QED BY <1>1 DEF RetryFires
<1> QED BY <1>2, WholeInductive, PTL DEF Spec, ClosedIsInert
=============================================================================
