----------------------------- MODULE RtspClient -----------------------------
(***************************************************************************)
(* The RTSP client of one receiver: src/src/core/rtsp.ts, `Client`.  It    *)
(* drives the whole conversation (pairing, SETUP, RECORD, parameters,      *)
(* TEARDOWN) with one status word, one outstanding request at a time, one  *)
(* 15 s timer, one heartbeat interval and a back-off timer that            *)
(* reconnects.  Handlers run to completion, so each is one action: user    *)
(* calls, timer callbacks and the socket's connect/data/error/end events.  *)
(*                                                                         *)
(* The receiver is the environment.  It answers requests in order, sends   *)
(* replies that may carry an error code or lack the body the client needs, *)
(* may split a reply, close, reset or refuse the connection, or say        *)
(* nothing.  It understands a request, and seals its answer, according to  *)
(* the keys agreed on the present connection.                              *)
(***************************************************************************)
EXTENDS Naturals, Sequences

CONSTANTS
    Configs,      \* the option records of the clients considered
    MaxAttempts,  \* config.rtsp_retry_attempts
    Mishaps,      \* what the receiver or network may do to each of them
    MaxMishaps,   \* bound: mishaps in one behaviour
    MaxCommands   \* bound: user commands in one behaviour

MishapKinds == {"refuse", "reset", "fin", "split",
                "unauthorized", "busy", "refused", "empty", "bad"}

(* What AirTunesDevice's constructor can pass to Client: it raises mode 0  *)
(* to 2 for AirPlay 2, makes an AirPlay 2 device with no password and no   *)
(* PIN transient, clears `transient` when a password is required, and only *)
(* its Sonos rule leaves a PIN required next to `transient`.               *)
ClientOptions ==
    {o \in [airplay2: BOOLEAN, mode: 0..2, needPin: BOOLEAN,
            needPassword: BOOLEAN, transient: BOOLEAN, password: BOOLEAN] :
        /\ o.airplay2 => o.mode # 0
        /\ o.airplay2 /\ ~o.needPin /\ ~o.needPassword => o.transient
        /\ o.needPassword => ~o.transient
        /\ o.needPin /\ o.transient => o.mode = 2}

ASSUME ConfigsAssumption == Configs \subseteq ClientOptions
ASSUME AttemptsAssumption == MaxAttempts \in Nat
ASSUME MishapsAssumption == Mishaps \in [ClientOptions -> SUBSET MishapKinds]
ASSUME BoundsAssumption == MaxMishaps \in Nat /\ MaxCommands \in Nat

VARIABLES
    opts,             \* mode, airplay2, needPin, ...: set by the constructor
    status,           \* this.status
    socket,           \* this.socket: null, still connecting, or open
    timeout,          \* this.timeout is armed
    heartBeat,        \* this.heartBeat is armed
    retry,            \* a back-off setTimeout is pending
    connectAttempts,  \* this.connectAttempts
    password,         \* this.password is set
    passwordTried,    \* this.passwordTried
    credentials,      \* this.credentials is set
    encryptedChannel, \* this.encryptedChannel
    garbled,          \* decryptCount has left step with the receiver
    session,          \* this.session is set
    readySent,        \* this.readySent
    sentFakeProgess,  \* this.sentFakeProgess
    attached,         \* the device still listens (cleanup removes listeners)
    configured,       \* 'config' was delivered
    ready,            \* how many times 'ready' was delivered
    asked,            \* a 'need_password' not yet answered, and where
    wire,             \* requests written on this connection, not yet answered
    heard,            \* what came last on this connection
    secured,          \* the receiver has keys for this connection
    crashed,          \* the exception that ended the process, or "no"
    outOfTurn,        \* a stray call was made on this connection
    mishaps, commands \* how much of the two bounds is used

linkVars    == <<socket, heartBeat, retry, connectAttempts>>
keyVars     == <<credentials, encryptedChannel, garbled, secured>>
sessionVars == <<session, readySent, sentFakeProgess>>
eventVars   == <<attached, configured, ready, asked>>
budgetVars  == <<mishaps, commands, outOfTurn>>
vars == <<opts, status, timeout, linkVars, password, passwordTried, keyVars,
          sessionVars, eventVars, wire, heard, crashed, budgetVars>>

-----------------------------------------------------------------------------
(* Statuses, grouped by what sendNextRequest and processData do with them. *)

PairingStatus == {"PAIR_PIN_START", "PAIR_PIN_SETUP_1", "PAIR_PIN_SETUP_2",
    "PAIR_PIN_SETUP_3", "PAIR_VERIFY_1", "PAIR_VERIFY_2", "PAIR_SETUP_1",
    "PAIR_SETUP_2", "PAIR_SETUP_3", "PAIR_VERIFY_HAP_1", "PAIR_VERIFY_HAP_2"}

OptionsStatus == {"OPTIONS", "OPTIONS2", "OPTIONS3"}

Ap2SetupStatus == {"SETUP_AP2_1", "SETPEERS", "SETUP_AP2_2"}

ParameterStatus == {"SETVOLUME", "SETPROGRESS", "SETDAAP", "SETART"}

RequestStatus == PairingStatus \cup OptionsStatus \cup Ap2SetupStatus
    \cup ParameterStatus
    \cup {"AUTH_SETUP", "ANNOUNCE", "SETUP", "RECORD", "FLUSH"}

(* INFO and GETVOLUME are never entered by a client of ClientOptions, and  *)
(* TEARDOWN is left within the handler that enters it.                     *)
Status == RequestStatus \cup {"PLAYING", "CLOSED"}

Crash == {"no", "no_socket", "no_credentials", "no_artist", "bad_body"}

Running == crashed = "no"

-----------------------------------------------------------------------------
(* sendNextRequest, for the status the caller has just set. *)

StartTimeoutForgotten == timeout' = timeout
StartTimeout == timeout' = TRUE

ClearTimeoutForgotten == timeout' = timeout
ClearTimeout == timeout' = FALSE

(* Requests built with `this.credentials.encrypt` whatever the channel. *)
AlwaysSealed == Ap2SetupStatus \cup {"FLUSH"}

(* Requests left to the shared write at the end (or, SETART, a copy of its *)
(* test); pairing, AUTH_SETUP and OPTIONS2/3 write themselves in clear.    *)
SharedWrite == {"OPTIONS", "ANNOUNCE", "SETUP"} \cup ParameterStatus

SealedWithoutRecord(s) ==
    \/ s \in AlwaysSealed
    \/ s \in SharedWrite /\ encryptedChannel' /\ credentials'

Sealed(s) == \/ s \in AlwaysSealed
             \/ s = "RECORD" /\ credentials'
             \/ s \in SharedWrite /\ encryptedChannel' /\ credentials'

(* The write, or the TypeError of the null field it needs.  sendNextRequest*)
(* is async and never awaited, so the error is an unhandled rejection.     *)
Request(s, rest) ==
    /\ status' = s
    /\ IF socket' = "null" \/ (s \in AlwaysSealed /\ ~credentials')
       THEN /\ crashed' = IF socket' = "null" THEN "no_socket"
                                              ELSE "no_credentials"
            /\ wire' = rest
            /\ ClearTimeout
       ELSE /\ crashed' = crashed
            /\ wire' = Append(rest, [of |-> s, sealed |-> Sealed(s)])
            /\ StartTimeout

FirstPairing == IF opts.airplay2 THEN "PAIR_SETUP_1" ELSE "PAIR_PIN_SETUP_1"

(* PAIR_PIN_START forgets the pairing, then sends a request of its own,    *)
(* goes straight on to another one, or asks the user and arms the timer.   *)
PairPinStart(rest) ==
    /\ credentials' = FALSE
    /\ IF opts.needPin
       THEN Request("PAIR_PIN_START", rest) /\ asked' = asked
       ELSE IF opts.transient /\ ~opts.needPassword
       THEN Request("PAIR_SETUP_1", rest) /\ asked' = asked
       ELSE IF password
       THEN Request(FirstPairing, rest) /\ asked' = asked
       ELSE /\ status' = "PAIR_PIN_START"
            /\ StartTimeout
            /\ wire' = rest
            /\ crashed' = crashed
            /\ asked' = IF attached THEN "here" ELSE "no"

(* No request follows: the data handler has cleared the timer. *)
Rest(s, rest) ==
    /\ status' = s
    /\ ClearTimeout
    /\ wire' = rest
    /\ crashed' = crashed

(* At 'end' the device forgets its client, which then drops its listeners. *)
(* Mutant: it keeps it.                                                    *)
DetachNot == attached' = attached /\ asked' = "no"
Detach == attached' = FALSE /\ asked' = "no"

(* The back-off timer and encryptedChannel are what cleanup leaves alone.  *)
Cleanup ==
    /\ status' = "CLOSED"
    /\ ClearTimeout
    /\ heartBeat' = FALSE
    /\ socket' = "null"
    /\ wire' = <<>>
    /\ heard' = "nothing"
    /\ secured' = FALSE
    /\ credentials' = FALSE
    /\ Detach
    /\ UNCHANGED <<opts, retry, password, encryptedChannel, garbled,
                   sessionVars, configured, ready, crashed>>

-----------------------------------------------------------------------------
(* The constructor and startHandshake: the first connection is under way.  *)

Init ==
    /\ opts \in Configs
    /\ status = "PAIR_VERIFY_1"
    /\ socket = "connecting"
    /\ timeout = TRUE
    /\ heartBeat = FALSE
    /\ retry = FALSE
    /\ connectAttempts = 0
    /\ password = opts.password
    /\ passwordTried = FALSE
    /\ credentials = FALSE
    /\ encryptedChannel = FALSE
    /\ garbled = FALSE
    /\ session = FALSE
    /\ readySent = FALSE
    /\ sentFakeProgess = FALSE
    /\ attached = TRUE
    /\ configured = FALSE
    /\ ready = 0
    /\ asked = "no"
    /\ wire = <<>>
    /\ heard = "nothing"
    /\ secured = FALSE
    /\ crashed = "no"
    /\ outOfTurn = FALSE
    /\ mishaps = 0
    /\ commands = 0

Mishap(kind) ==
    /\ kind \in Mishaps[opts]
    /\ mishaps < MaxMishaps
    /\ mishaps' = mishaps + 1

(* The connect callback. *)
Connected ==
    /\ Running
    /\ socket = "connecting"
    /\ socket' = "open"
    /\ connectAttempts' = 0
    /\ heartBeat' = TRUE
    /\ UNCHANGED <<opts, retry, password, passwordTried, encryptedChannel,
                   garbled, secured, sessionVars, attached, configured, ready,
                   heard, budgetVars>>
    /\ IF opts.needPassword \/ opts.needPin
       THEN PairPinStart(wire)
       ELSE /\ UNCHANGED <<credentials, asked>>
            /\ Request(IF opts.mode = 2 THEN "AUTH_SETUP" ELSE "OPTIONS", wire)

(* The socket's error handler: back off and retry, or give up. *)
ConnectionFails ==
    /\ Running
    /\ socket # "null"
    /\ Mishap(IF socket = "open" THEN "reset" ELSE "refuse")
    /\ connectAttempts' = connectAttempts + 1
    /\ IF connectAttempts < MaxAttempts
       THEN /\ socket' = "null"
            /\ ClearTimeout
            /\ retry' = TRUE
            /\ wire' = <<>>
            /\ heard' = "nothing"
            /\ secured' = FALSE
            /\ asked' = IF asked = "no" THEN "no" ELSE "before"
            /\ UNCHANGED <<opts, status, heartBeat, password, credentials,
                           encryptedChannel, garbled, sessionVars, attached,
                           configured, ready, crashed>>
       ELSE Cleanup
    /\ outOfTurn' = FALSE
    /\ UNCHANGED <<passwordTried, commands>>

(* The back-off timer; nothing ever cancels it. *)
RetryFires ==
    /\ Running
    /\ retry
    /\ retry' = FALSE
    /\ socket' = "connecting"
    /\ StartTimeout
    /\ UNCHANGED <<opts, status, heartBeat, connectAttempts, password,
                   passwordTried, keyVars, sessionVars, eventVars, wire,
                   heard, crashed, budgetVars>>

(* The socket's end handler. *)
PeerCloses ==
    /\ Running
    /\ socket = "open"
    /\ Mishap("fin")
    /\ Cleanup
    /\ UNCHANGED <<connectAttempts, passwordTried, commands, outOfTurn>>

TimeoutFires ==
    /\ Running
    /\ timeout
    /\ Cleanup
    /\ UNCHANGED <<connectAttempts, passwordTried, budgetVars>>

-----------------------------------------------------------------------------
(* The data handler and processData.                                       *)

Decrypts == encryptedChannel /\ credentials

Legible == Decrypts = secured /\ ~(Decrypts /\ garbled)

(* Replies the handler reads a body from, and those among them whose lack  *)
(* of the field is checked; in the others the missing field throws.        *)
NeedsBody == {"PAIR_PIN_SETUP_1", "PAIR_VERIFY_1", "PAIR_SETUP_1",
    "PAIR_SETUP_2", "PAIR_SETUP_3", "PAIR_VERIFY_HAP_1",
    "SETUP_AP2_1", "SETUP_AP2_2"}
ChecksBody == {"PAIR_VERIFY_1", "PAIR_SETUP_1", "PAIR_SETUP_2"}

(* The receiver answers the oldest request: properly, with a 401 challenge,*)
(* 453, another error code, without the expected body or with a wrong one. *)
Replies == {"ok", "unauthorized", "busy", "refused", "empty", "bad"}

Answers(r) ==
    /\ Running
    /\ socket = "open"
    /\ wire # <<>>
    /\ Head(wire).sealed = secured
    /\ r \in {"empty", "bad"} => Head(wire).of \in NeedsBody
    /\ IF r = "ok" THEN mishaps' = mishaps ELSE Mishap(r)
    /\ UNCHANGED <<commands, outOfTurn>>

(* The last pairing reply gives the receiver its keys as well. *)
Secures(r) ==
    r = "ok" /\ \/ Head(wire).of = "PAIR_VERIFY_HAP_2"
                \/ Head(wire).of = "PAIR_SETUP_2" /\ opts.transient

(* It carries what the case of the status looks for.                       *)
HasBody(r) == r = "ok" /\ Head(wire).of = status

(* Response codes are looked at in mode 1, and in mode 0 outside OPTIONS;  *)
(* of the codes other than 200, only 401 and 453 then make a difference.   *)
Guarded == \/ opts.mode = 1
           \/ opts.mode = 0 /\ status \notin {"OPTIONS", "OPTIONS2"}

Accepted(r) ==
    /\ Answers(r)
    /\ Legible
    /\ ~(Guarded /\ r \in {"unauthorized", "busy"})

(* The reply reaches the status switch and its case runs to the end. *)
Handles(r) ==
    /\ Accepted(r)
    /\ status \in NeedsBody => HasBody(r)
    /\ passwordTried' = FALSE
    /\ heard' = "reply"
    /\ secured' = (secured \/ Secures(r))
    /\ UNCHANGED <<opts, socket, heartBeat, retry, connectAttempts, attached>>

(* The reply cannot be decrypted, or is sealed and taken for text. *)
ReplyIllegible ==
    /\ Answers("ok")
    /\ ~Legible
    /\ Rest(status, Tail(wire))
    /\ heard' = "noise"
    /\ garbled' = (garbled \/ Decrypts)
    /\ secured' = (secured \/ Secures("ok"))
    /\ UNCHANGED <<opts, linkVars, password, passwordTried, credentials,
                   encryptedChannel, sessionVars, eventVars>>

(* Only the first piece of a reply has arrived.  It stops the timer; on an *)
(* encrypted channel decrypting it uses up a nonce.                        *)
SplitReply ==
    /\ Running
    /\ socket = "open"
    /\ wire # <<>>
    /\ Head(wire).sealed = secured
    /\ heard # "piece"
    /\ Mishap("split")
    /\ heard' = "piece"
    /\ ClearTimeout
    /\ garbled' = (garbled \/ Decrypts)
    /\ UNCHANGED <<opts, status, linkVars, password, passwordTried,
                   credentials, encryptedChannel, secured, sessionVars,
                   eventVars, wire, crashed, commands, outOfTurn>>

(* A reply is handled as soon as its head is complete.  The rest of its    *)
(* body may come later and then stops the timer again, by now that of the  *)
(* next request; on an encrypted channel it may be cut within a block.     *)
(* What the text left over does to the next head is the matter of Framing. *)
LatePiece(withinBlock) ==
    /\ Running
    /\ socket = "open"
    /\ heard \notin {"nothing", "piece"}
    /\ Mishap("split")
    /\ heard' = IF wire = <<>> THEN heard ELSE "late"
    /\ ClearTimeout
    /\ garbled' = (garbled \/ (Decrypts /\ withinBlock))
    /\ UNCHANGED <<opts, status, linkVars, password, passwordTried,
                   credentials, encryptedChannel, secured, sessionVars,
                   eventVars, wire, crashed, commands, outOfTurn>>

(* 401: repeat the request with a digest, once; without a password close   *)
(* or, in mode 0 before OPTIONS3, just return.                             *)
ReplyUnauthorized ==
    /\ Answers("unauthorized")
    /\ Legible
    /\ Guarded
    /\ \/ /\ IF password THEN passwordTried
                         ELSE opts.mode = 1 \/ status = "OPTIONS3"
          /\ Cleanup
          /\ UNCHANGED <<connectAttempts, passwordTried>>
       \/ /\ ~password
          /\ opts.mode = 0 /\ status # "OPTIONS3"
          /\ Rest(status, Tail(wire))
          /\ heard' = "challenge"
          /\ UNCHANGED <<opts, linkVars, password, passwordTried, keyVars,
                         sessionVars, eventVars>>
       \/ /\ password /\ ~passwordTried
          /\ passwordTried' = TRUE
          /\ heard' = "reply"
          /\ UNCHANGED <<opts, linkVars, password, encryptedChannel, garbled,
                         secured, sessionVars, attached, configured, ready>>
          /\ IF status = "PAIR_PIN_START"
             THEN PairPinStart(Tail(wire))
             ELSE /\ UNCHANGED <<credentials, asked>>
                  /\ IF status = "PLAYING" THEN Rest(status, Tail(wire))
                                           ELSE Request(status, Tail(wire))

ReplyBusy ==
    /\ Answers("busy")
    /\ Legible
    /\ Guarded
    /\ Cleanup
    /\ UNCHANGED <<connectAttempts, passwordTried>>

(* A checked body is missing: 'pair_failed' and cleanup. *)
ReplyFailsPairing(r) ==
    /\ Accepted(r)
    /\ status \in ChecksBody
    /\ ~HasBody(r)
    /\ r # "bad"
    /\ Cleanup
    /\ passwordTried' = FALSE
    /\ UNCHANGED connectAttempts

(* An unchecked body is missing: the parser, or the proof check, throws.   *)
ReplyThrows(r) ==
    /\ Accepted(r)
    /\ status \in NeedsBody
    /\ ~HasBody(r)
    /\ status \in ChecksBody => r = "bad" \/ Head(wire).of # status
    /\ crashed' = "bad_body"
    /\ UNCHANGED <<opts, status, timeout, linkVars, password, passwordTried,
                   keyVars, sessionVars, eventVars, wire, heard>>

ReplyToPinStart(r) ==
    /\ Handles(r)
    /\ status = "PAIR_PIN_START"
    /\ UNCHANGED <<password, credentials, encryptedChannel, garbled,
                   sessionVars, configured, ready>>
    /\ IF opts.transient
       THEN Request(FirstPairing, Tail(wire)) /\ asked' = asked
       ELSE /\ Rest(FirstPairing, Tail(wire))
            /\ asked' = IF attached THEN "here" ELSE "no"

AfterPairing ==
    [PAIR_PIN_SETUP_1  |-> "PAIR_PIN_SETUP_2",
     PAIR_PIN_SETUP_2  |-> "PAIR_PIN_SETUP_3",
     PAIR_PIN_SETUP_3  |-> "PAIR_VERIFY_1",
     PAIR_VERIFY_1     |-> "PAIR_VERIFY_2",
     PAIR_VERIFY_2     |-> "OPTIONS",
     PAIR_SETUP_1      |-> "PAIR_SETUP_2",
     PAIR_SETUP_2      |-> IF opts.transient THEN "SETUP_AP2_1"
                                             ELSE "PAIR_SETUP_3",
     PAIR_SETUP_3      |-> "PAIR_VERIFY_HAP_1",
     PAIR_VERIFY_HAP_1 |-> "PAIR_VERIFY_HAP_2",
     PAIR_VERIFY_HAP_2 |-> "SETUP_AP2_1"]

(* Transient pairing has its keys after two rounds, HomeKit pairing after  *)
(* five; new Credentials start their nonce counters from zero.             *)
NewCredentials == status = "PAIR_SETUP_3" \/ (status = "PAIR_SETUP_2" /\ opts.transient)
OpensChannel == status = "PAIR_VERIFY_HAP_2" \/ (status = "PAIR_SETUP_2" /\ opts.transient)

ReplyToPairing(r) ==
    /\ Handles(r)
    /\ status \in PairingStatus \ {"PAIR_PIN_START"}
    /\ password' = (password \/ status = "PAIR_SETUP_1")
    /\ credentials' = (credentials \/ NewCredentials)
    /\ encryptedChannel' = (encryptedChannel \/ OpensChannel)
    /\ garbled' = (garbled /\ ~NewCredentials)
    /\ UNCHANGED <<sessionVars, asked, configured, ready>>
    /\ Request(AfterPairing[status], Tail(wire))

ReplyToAuthSetup(r) ==
    /\ Handles(r)
    /\ status = "AUTH_SETUP"
    /\ UNCHANGED <<password, credentials, encryptedChannel, garbled,
                   sessionVars, asked, configured, ready>>
    /\ Request("OPTIONS", Tail(wire))

(* A client with a session takes any answer but a challenge as an answer   *)
(* to its heartbeat; a challenged AirPlay 2 client skips the pairing.      *)
ReplyToOptions(r) ==
    /\ Handles(r)
    /\ status \in OptionsStatus
    /\ UNCHANGED <<password, encryptedChannel, garbled, sessionVars,
                   configured, ready>>
    /\ IF r = "unauthorized" /\ status # "OPTIONS3"
       THEN /\ UNCHANGED <<credentials, asked>>
            /\ Request(IF status = "OPTIONS" THEN "OPTIONS2" ELSE "OPTIONS3",
                       Tail(wire))
       ELSE IF ~session /\ opts.airplay2 /\ status = "OPTIONS"
       THEN PairPinStart(Tail(wire))
       ELSE /\ UNCHANGED <<credentials, asked>>
            /\ IF session THEN Rest("PLAYING", Tail(wire))
               ELSE Request(IF opts.airplay2 THEN "SETUP_AP2_1" ELSE "ANNOUNCE",
                            Tail(wire))

(* Only an AirPlay 1 client announces. *)
ReplyToAnnounce(r) ==
    /\ Handles(r)
    /\ status = "ANNOUNCE"
    /\ UNCHANGED <<password, credentials, encryptedChannel, garbled,
                   sessionVars, asked, configured, ready>>
    /\ Request("SETUP", Tail(wire))

(* A reply without a Session header leaves the session undefined; a port   *)
(* that is missing gets a default, so 'config' is emitted in every case.   *)
ReplyToSetup(r) ==
    /\ Handles(r)
    /\ status = "SETUP"
    /\ session' = HasBody(r)
    /\ configured' = (configured \/ attached)
    /\ UNCHANGED <<password, credentials, encryptedChannel, garbled,
                   readySent, sentFakeProgess, asked, ready>>
    /\ Request("RECORD", Tail(wire))

AfterAp2SetupInfo == [SETUP_AP2_1 |-> "SETPEERS", SETPEERS |-> "SETUP_AP2_2",
                      SETUP_AP2_2 |-> "INFO"]
AfterAp2SetupSkips == [SETUP_AP2_1 |-> "SETPEERS", SETPEERS |-> "RECORD",
                       SETUP_AP2_2 |-> "RECORD"]
AfterAp2Setup == [SETUP_AP2_1 |-> "SETPEERS", SETPEERS |-> "SETUP_AP2_2",
                  SETUP_AP2_2 |-> "RECORD"]

ReplyToAp2Setup(r) ==
    /\ Handles(r)
    /\ status \in Ap2SetupStatus
    /\ configured' = (configured \/ (attached /\ status = "SETUP_AP2_2"))
    /\ UNCHANGED <<password, credentials, encryptedChannel, garbled,
                   sessionVars, asked, ready>>
    /\ Request(AfterAp2Setup[status], Tail(wire))

(* 'ready' is emitted for each RECORD, but only once for AirPlay 2. *)
TellsReadyAlways == attached
TellsReady == attached /\ ~(opts.airplay2 /\ readySent)

ReplyToRecord(r) ==
    /\ Handles(r)
    /\ status = "RECORD"
    /\ session' = TRUE
    /\ readySent' = (readySent \/ opts.airplay2)
    /\ ready' = IF TellsReady THEN ready + 1 ELSE ready
    /\ UNCHANGED <<password, credentials, encryptedChannel, garbled,
                   sentFakeProgess, asked, configured>>
    /\ Request("SETVOLUME", Tail(wire))

ReplyToSetVolume(r) ==
    /\ Handles(r)
    /\ status = "SETVOLUME"
    /\ sentFakeProgess' = (sentFakeProgess \/ ~opts.airplay2)
    /\ UNCHANGED <<password, credentials, encryptedChannel, garbled, session,
                   readySent, asked, configured, ready>>
    /\ IF opts.airplay2 \/ sentFakeProgess
       THEN Rest("PLAYING", Tail(wire))
       ELSE Request("SETPROGRESS", Tail(wire))

(* PLAYING has no case of its own and sends nothing either. *)
ReplyToParameter(r) ==
    /\ Handles(r)
    /\ status \in {"SETPROGRESS", "SETDAAP", "SETART", "PLAYING"}
    /\ UNCHANGED <<password, credentials, encryptedChannel, garbled,
                   sessionVars, asked, configured, ready>>
    /\ Rest("PLAYING", Tail(wire))

ReplyToFlush(r) ==
    /\ Handles(r)
    /\ status = "FLUSH"
    /\ session' = TRUE
    /\ ready' = IF attached THEN ready + 1 ELSE ready
    /\ UNCHANGED <<password, credentials, encryptedChannel, garbled,
                   readySent, sentFakeProgess, asked, configured>>
    /\ Rest("PLAYING", Tail(wire))

-----------------------------------------------------------------------------
(* Calls of the device, and the heartbeat.  All but setPasscode and        *)
(* teardown return unless the status is PLAYING; the device forgets the    *)
(* client as soon as it has ended, so nothing is called after that.        *)
(* Stray calls (outOfTurn) are those made while a lost connection is being *)
(* replaced, and a passcode that answers no prompt of this connection:     *)
(* unasked, a second one for a prompt, or early, before it is up.          *)

CallsAcross == outOfTurn' = (outOfTurn \/ socket = "connecting")

CommandAnyTime ==
    /\ Running
    /\ attached
    /\ commands < MaxCommands
    /\ commands' = commands + 1
    /\ mishaps' = mishaps

Command ==
    /\ Running
    /\ attached
    /\ status = "PLAYING"
    /\ commands < MaxCommands
    /\ commands' = commands + 1
    /\ mishaps' = mishaps

Send(s) ==
    /\ UNCHANGED <<opts, linkVars, password, passwordTried, keyVars,
                   sessionVars, eventVars, heard>>
    /\ Request(s, wire)
    /\ CallsAcross

SetVolume == Command /\ Send("SETVOLUME")
SetProgress == Command /\ Send("SETPROGRESS")
SetArtwork == Command /\ Send("SETART")
Flush == Command /\ Send("FLUSH")

(* daapEncode turns each tag into a Buffer; the artist is optional in the  *)
(* API, and a missing one throws before anything is written.               *)
SetTrackInfo(hasArtist) ==
    /\ Command
    /\ IF hasArtist
       THEN Send("SETDAAP")
       ELSE /\ crashed' = "no_artist"
            /\ UNCHANGED <<opts, status, timeout, linkVars, password,
                           passwordTried, keyVars, sessionVars, eventVars,
                           wire, heard, outOfTurn>>

(* setArtwork with a null content type ends the session. *)
SetUntypedArtwork ==
    /\ Command
    /\ Cleanup
    /\ UNCHANGED <<connectAttempts, passwordTried, outOfTurn>>

(* setPasscode has no guard: whatever is going on is abandoned for the     *)
(* first pairing request, and whatever is outstanding stays so.            *)
SetPasscode ==
    /\ Running
    /\ attached
    /\ commands' = IF asked = "no" THEN commands + 1 ELSE commands
    /\ commands' <= MaxCommands
    /\ password' = TRUE
    /\ asked' = "no"
    /\ UNCHANGED <<opts, linkVars, passwordTried, keyVars, sessionVars,
                   attached, configured, ready, heard, mishaps>>
    /\ Request(FirstPairing, wire)
    /\ outOfTurn' = (outOfTurn \/ asked # "here")

(* TEARDOWN is written if there is a socket; cleanup follows at once. *)
Teardown ==
    /\ Running
    /\ attached
    /\ Cleanup
    /\ UNCHANGED <<connectAttempts, passwordTried, budgetVars>>

HeartBeatTick ==
    /\ Running
    /\ heartBeat
    /\ status = "PLAYING"
    /\ Send("OPTIONS")
    /\ UNCHANGED <<mishaps, commands>>

-----------------------------------------------------------------------------

Reply ==
    \E r \in Replies :
        \/ ReplyFailsPairing(r) \/ ReplyThrows(r)
        \/ ReplyToPinStart(r) \/ ReplyToPairing(r) \/ ReplyToAuthSetup(r)
        \/ ReplyToOptions(r) \/ ReplyToAnnounce(r) \/ ReplyToSetup(r)
        \/ ReplyToAp2Setup(r) \/ ReplyToRecord(r) \/ ReplyToSetVolume(r)
        \/ ReplyToParameter(r) \/ ReplyToFlush(r)

Environment ==
    \/ Connected \/ ConnectionFails \/ PeerCloses
    \/ ReplyIllegible \/ SplitReply \/ (\E withinBlock \in BOOLEAN : LatePiece(withinBlock))
    \/ ReplyUnauthorized \/ ReplyBusy \/ Reply

User ==
    \/ SetVolume \/ SetProgress \/ SetArtwork \/ Flush
    \/ \E hasArtist \in BOOLEAN : SetTrackInfo(hasArtist)
    \/ SetUntypedArtwork \/ SetPasscode \/ Teardown

Timers == RetryFires \/ TimeoutFires \/ HeartBeatTick

Next == Environment \/ User \/ Timers

Spec == Init /\ [][Next]_vars

(* Node's event loop runs every timer that is due; the receiver, the       *)
(* network and the user owe nothing.                                       *)
FairSpec == Spec /\ WF_vars(RetryFires) /\ WF_vars(TimeoutFires)
-----------------------------------------------------------------------------
(* Properties. *)

Requests == [of: RequestStatus, sealed: BOOLEAN]

(* Nothing yet; a reply that was handled, could not be read, or was a      *)
(* challenge that was dropped; the first piece of the reply that is due; a *)
(* late piece of a reply handled before the request now outstanding.       *)
Heard == {"nothing", "reply", "noise", "challenge", "piece", "late"}

(* Every field keeps its kind; status never holds a value sendNextRequest  *)
(* and processData have no case for.                                       *)
TypeOK ==
    /\ opts \in ClientOptions
    /\ status \in Status
    /\ socket \in {"null", "connecting", "open"}
    /\ timeout \in BOOLEAN /\ heartBeat \in BOOLEAN /\ retry \in BOOLEAN
    /\ connectAttempts \in Nat
    /\ password \in BOOLEAN /\ passwordTried \in BOOLEAN
    /\ credentials \in BOOLEAN /\ encryptedChannel \in BOOLEAN
    /\ garbled \in BOOLEAN /\ secured \in BOOLEAN
    /\ session \in BOOLEAN /\ readySent \in BOOLEAN /\ sentFakeProgess \in BOOLEAN
    /\ attached \in BOOLEAN /\ configured \in BOOLEAN
    /\ asked \in {"no", "here", "before"}
    /\ ready \in Nat
    /\ wire \in Seq(Requests) /\ heard \in Heard
    /\ crashed \in Crash /\ outOfTurn \in BOOLEAN
    /\ mishaps \in Nat /\ commands \in Nat

(* The client keeps no record of what it asked: processData reads a reply  *)
(* as the answer to the present status.  That is sound because one request *)
(* at most is outstanding and it is the one of the present status, until a *)
(* stray call is let through (outOfTurn) and again from the next connection*)
(* on.                                                                     *)
Lockstep ==
    ~outOfTurn => \/ wire = <<>>
                  \/ Len(wire) = 1 /\ Head(wire).of = status

(* An outstanding request is timed until its answer starts to arrive (a    *)
(* silent receiver is noticed), unless a late piece of the answer before it*)
(* came instead and stopped its timer; and a session that is open and      *)
(* playing has no timer left to end it 15 s later.  Excepted are           *)
(* connections on which a stray call was made.                             *)
TimerTracksRequest ==
    Running /\ ~outOfTurn =>
        /\ wire # <<>> /\ heard \notin {"piece", "late"} => timeout
        /\ status = "PLAYING" /\ socket = "open" => ~timeout

(* Without any misfortune on the network or at the receiver no handler     *)
(* throws, with three exceptions: flush on a session that has no           *)
(* credentials (AirPlay 1, rtsp.ts:1113, although index.ts:156 says that   *)
(* reset() leaves the session standing) and setTrackInfo without an artist *)
(* throw by themselves, and after a stray passcode a reply may be read as  *)
(* the answer to another request, whose body it lacks.  A passcode before  *)
(* the socket exists is no fourth: AirTunesDevice.setPasscode then has no  *)
(* client.                                                                 *)
CrashNeedsMishap ==
    ~Running /\ mishaps = 0 =>
        \/ crashed = "no_artist"
        \/ crashed = "no_credentials" /\ status = "FLUSH" /\ ~opts.airplay2
        \/ crashed = "bad_body" /\ outOfTurn

(* Once the receiver has keys for the connection, every request goes out   *)
(* sealed; the digest answers OPTIONS2 and OPTIONS3 are always in clear.   *)
(* Excepted are connections on which a stray call was made: a passcode     *)
(* there starts the pairing anew, in clear.                                *)
SealedOnceSecured ==
    secured /\ ~outOfTurn => \A i \in 1..Len(wire) :
        wire[i].sealed \/ wire[i].of \in {"OPTIONS2", "OPTIONS3"}

(* A client that accepts commands has a session and its device has been    *)
(* given the ports and told to stream: reconnection lets no command through*)
(* before the first handshake was complete.  AirPlay 1 is an exception:    *)
(* a connection lost between the replies to SETUP and RECORD comes back    *)
(* PLAYING, with a session that was never recorded nor announced; so can a *)
(* pairing started over in between by a stray passcode.                    *)
PlayingWasAnnounced ==
    status = "PLAYING" /\ attached =>
        /\ session /\ configured
        /\ ready > 0 \/ (~opts.airplay2 /\ (mishaps > 0 \/ outOfTurn))

(* After the first one, 'ready' is repeated by the reply to a flush only:  *)
(* a second handshake on a new connection does not start a second relay.   *)
ReadyRepeatsOnlyOnFlush ==
    [][ready > 0 /\ ready' # ready => status = "FLUSH"]_vars

(* cleanup leaves nothing behind that can act: a closed client without a   *)
(* connection moves only if a back-off was pending when it was closed.     *)
ClosedIsInert ==
    [][status = "CLOSED" /\ socket = "null" => retry /\ ~retry']_vars

(* cleanup means closed: once 'end' was emitted there is no connection.    *)
(* The code breaks it: a back-off timer reconnects the closed client.      *)
EndedHasNoSocket == ~attached => socket = "null"

(* utils/config.ts:49: "RTSP servers are considered gone if no reply is    *)
(* received before the timeout".  A request of which no answer has begun to*)
(* arrive has its timer.  The code breaks it: the late rest of the answer  *)
(* before stops that timer (rtsp.ts:244).                                  *)
SilenceIsNoticed == wire # <<>> /\ heard # "piece" => timeout

(* Where a client may stay: playing, waiting for the user, ended, or gone  *)
(* with the process.                                                       *)
Settled == \/ status = "PLAYING" /\ socket = "open"
           \/ asked # "no"
           \/ ~attached
           \/ ~Running

(* Where a client is stuck without a timer, the last thing it received     *)
(* having stopped it: the first piece of a reply that never went on, the   *)
(* late rest of a reply already handled, a reply it could not decrypt (an  *)
(* encrypted channel outlives its connection), or, in mode 0, a challenge  *)
(* it has no password for.                                                 *)
Wedged == /\ ~timeout /\ ~retry
          /\ heard \in {"piece", "late", "noise", "challenge"}

(* The device is never left waiting: every connection attempt, back-off    *)
(* and request, the heartbeat's included, is followed by a session that    *)
(* plays, a passcode prompt or 'end', by the client's own timers alone,    *)
(* unless the client is wedged in one of the four ways above.              *)
AlwaysSettles == ~Settled ~> Settled \/ Wedged

(* How far the device has been told the session has come. *)
Phase == IF ~attached THEN "ended" ELSE IF ready > 0 THEN "streaming"
         ELSE IF configured THEN "configured" ELSE "opening"

Abstract == INSTANCE Session WITH phase <- Phase, prompt <- asked # "no"

(* The client keeps the promises of Session towards its device. *)
ImplementsSession == Abstract!Spec
=============================================================================
