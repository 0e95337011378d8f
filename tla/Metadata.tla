------------------------------ MODULE Metadata ------------------------------
(***************************************************************************)
(* What the receiver shows: setMetadata and the calls next to it of        *)
(* LoxAirplaySender, src/src/index.ts, down to the RTSP client's setters.  *)
(*                                                                         *)
(* The facade remembers a key of the track, the cover and the progress it  *)
(* sent last and sends nothing twice.  A call with a cover URL is suspended*)
(* while the cover is fetched; calls made meanwhile share the fetch.  A new*)
(* track's cover is sent by a timer.  The client below takes a call only   *)
(* when it is PLAYING, returns silently otherwise, and is busy with it     *)
(* until the receiver has answered.                                        *)
(*                                                                         *)
(* A track, a cover and a URL are model values (the cover behind a URL is  *)
(* named like the URL); a progress is a pair of milliseconds.  Of a cover  *)
(* the facade compares no more than its type and its length, its Digest.   *)
(***************************************************************************)
EXTENDS Naturals, FiniteSets

CONSTANTS
    Payloads,      \* payloads of setMetadata: track, cover, url, progress
    Digest(_),     \* the type and length of a cover
    DirectTracks,  \* arguments of the facade's own setTrackInfo
    DirectTimes,   \* arguments of its own setProgress, in seconds
    None,          \* a field not given, a key not set
    Thousand,      \* milliseconds in a second, 1000 in the code
    MaxCalls,      \* bound: calls in one behaviour
    MaxSessions    \* bound: calls of start

ASSUME BoundsAssumption ==
    Thousand \in Nat \ {0} /\ MaxCalls \in Nat /\ MaxSessions \in Nat

Kinds == {"track", "cover", "progress"}
Tracks == {p.track : p \in Payloads} \cup DirectTracks
Covers == {p.cover : p \in Payloads} \cup {p.url : p \in Payloads}
Times == [elapsed : Nat, duration : Nat]

(* What the receiver can be sent: a value, what it was computed from, the  *)
(* session of the call it came with, whether that call was suspended.      *)
Sent == LET Values == Tracks \cup Covers \cup Times \cup {None}
        IN [value : Values, given : Values,
            session : 0..MaxSessions, waited : BOOLEAN]

(* A call of setMetadata, and a cover queued with its key and its call.    *)
AnyCall == [id : 1..MaxCalls, session : 0..MaxSessions, payload : Payloads,
            changed : BOOLEAN, waited : BOOLEAN]
CoverKeys == [url : Covers, cover : {Digest(v) : v \in Covers}]
Queued == [key : CoverKeys, cover : Covers, call : AnyCall]

ASSUME TimesAssumption ==
    /\ \A p \in Payloads : p.progress # None => p.progress \in Times
    /\ DirectTimes \subseteq Times
ASSUME NoneAssumption == None \notin Sent \cup Queued \cup CoverKeys \cup Times

VARIABLES
    session,    \* which call of start made this.airtunes
    client,     \* the RTSP client, "none" without this.airtunes
    keys,       \* lastTrackKey, lastCoverKey, lastProgressKey, lastCoverUrl
    pending,    \* pendingArtwork, while artworkTimer is armed
    coverFetch, \* this.coverFetch: the call that started it, 0 for undefined
    fetches,    \* the fetches under way
    waiting,    \* calls suspended at `await this.coverFetch`
    resuming,   \* those of them whose fetch is over
    shown,      \* what the receiver shows of each kind, and whose it is
    calls,      \* how many calls were made
    unsure,     \* kinds whose key may not be what the receiver shows
    hurried,    \* a call was made while something was under way
    latest      \* the latest value given of each kind

vars == <<session, client, keys, pending, coverFetch, fetches, waiting,
          resuming, shown, calls, unsure, hurried, latest>>

NoKeys == [track |-> None, cover |-> None, progress |-> None, url |-> None]
Blank == [kind \in Kinds |-> None]
Sure == [kind \in Kinds |-> FALSE]

-----------------------------------------------------------------------------
(* Progress.                                                               *)

Smaller(a, b) == IF a <= b THEN a ELSE b

(* The facade takes a number above 1000 for milliseconds, any other for    *)
(* seconds, each of the two on its own.  Mutant: rounded, not cut off.     *)
SecondsRounded(n) == (2 * n + Thousand) \div (2 * Thousand)
Seconds(n) == IF n > Thousand THEN n \div Thousand ELSE n

FacadeProgress(p) ==
    [elapsed |-> Smaller(Seconds(p.elapsed), Seconds(p.duration)),
     duration |-> Seconds(p.duration)]

(* Math.round(n / 1000) *)
Rounded(n) == (2 * n + Thousand) \div (2 * Thousand)

(* Client.setProgress scales a long duration down once more. *)
ClientProgress(p) ==
    LET long == p.duration > Thousand
        duration == IF long THEN Rounded(p.duration) ELSE p.duration
        elapsed == IF long /\ p.elapsed > Thousand THEN Rounded(p.elapsed)
                                                   ELSE p.elapsed
    IN [elapsed |-> IF duration > 0 THEN Smaller(elapsed, duration) ELSE elapsed,
        duration |-> duration]

-----------------------------------------------------------------------------
(* The display: what the setters of the facade, the registry, the device   *)
(* and the client do together.  `v` is the value and whose it is.          *)

Display == [client |-> client, shown |-> shown, unsure |-> unsure]

(* The client takes it if it is PLAYING; else it is lost.  With no client  *)
(* (stopped, or ended by itself) a layer above returns.                    *)
SendTo(d, kind, v) ==
    IF d.client = "playing"
    THEN [client |-> "busy", shown |-> [d.shown EXCEPT ![kind] = v],
          unsure |-> [d.unsure EXCEPT ![kind] = FALSE]]
    ELSE [d EXCEPT !.unsure[kind] = TRUE]

Shows(d) == client' = d.client /\ shown' = d.shown /\ unsure' = d.unsure

Item(value, given, call) ==
    [value |-> value, given |-> given, session |-> call.session,
     waited |-> call.waited]

-----------------------------------------------------------------------------
(* setMetadata.                                                            *)

(* The key of a cover.  Mutant: of one with a URL the URL alone. *)
KeyOfUrl(call, cover) ==
    [url |-> call.payload.url,
     cover |-> IF call.payload.url = None THEN Digest(cover) ELSE None]
KeyOf(call, cover) == [url |-> call.payload.url, cover |-> Digest(cover)]

(* The rest of setMetadata once it has a cover, or none: a changed track's *)
(* cover is queued in place of one queued before, another is sent.  The    *)
(* key of the progress is set whether or not the client took it.           *)
Finishes(k, d, call, cover) ==
    LET key == KeyOf(call, cover)
        new == cover # None /\ key # k.cover
        queued == new /\ call.changed
        sends == new /\ ~call.changed
        d1 == IF sends THEN SendTo(d, "cover", Item(cover, cover, call)) ELSE d
        p == call.payload.progress
        timed == p # None /\ Seconds(p.duration) > 0
        moved == timed /\ FacadeProgress(p) # k.progress
    IN /\ pending' = IF queued THEN [key |-> key, cover |-> cover, call |-> call]
                                ELSE pending
       /\ keys' = [k EXCEPT !.cover = IF sends THEN key ELSE @,
                            !.progress = IF moved THEN FacadeProgress(p) ELSE @]
       /\ Shows(IF moved
                THEN SendTo(d1, "progress",
                            Item(ClientProgress(FacadeProgress(p)), p, call))
                ELSE d1)
       /\ latest' = [track |-> IF call.payload.track = None THEN latest.track
                               ELSE call.payload.track,
                     cover |-> IF cover = None THEN latest.cover ELSE cover,
                     progress |-> IF timed
                                  THEN ClientProgress(FacadeProgress(p))
                                  ELSE latest.progress]

Quiet == /\ client = "playing" /\ pending = None
         /\ waiting = {} /\ resuming = {}

(* Calls come from outside, so between two runs of the microtask queue.    *)
Call ==
    /\ resuming = {}
    /\ calls < MaxCalls
    /\ calls' = calls + 1
    /\ hurried' = (hurried \/ ~Quiet)

SetMetadata(p) ==
    LET changed == p.track # None /\ p.track # keys.track
        call == [id |-> calls + 1, session |-> session, payload |-> p,
                 changed |-> changed, waited |-> FALSE]
        k == IF changed THEN [keys EXCEPT !.track = p.track, !.cover = None,
                                          !.url = None]
                        ELSE keys
        d == IF changed THEN SendTo(Display, "track",
                                    Item(p.track, p.track, call))
                        ELSE Display
        looksUp == p.cover = None /\ p.url # None
        fetches1 == looksUp /\ p.url # k.url /\ coverFetch = 0
        waits == looksUp /\ (fetches1 \/ coverFetch # 0)
    IN /\ Call
       /\ client # "none"
       /\ IF waits
          THEN /\ keys' = IF fetches1
                          THEN [k EXCEPT !.url = p.url, !.cover = None] ELSE k
               /\ fetches' = IF fetches1
                             THEN fetches \cup {[id |-> call.id, url |-> p.url]}
                             ELSE fetches
               /\ coverFetch' = IF fetches1 THEN call.id ELSE coverFetch
               /\ waiting' = waiting \cup {[call |-> call, fetch |-> coverFetch']}
               /\ Shows(d)
               /\ UNCHANGED <<pending, latest>>
          ELSE /\ Finishes(k, d, call, p.cover)
               /\ UNCHANGED <<fetches, coverFetch, waiting>>
       /\ UNCHANGED <<session, resuming>>

(* fetchCover returns the cover, or null for an error, an empty body or an *)
(* abort; `finally` forgets the fetch and all that wait for it resume.     *)
(* Mutant: the calls that wait are not told.                               *)
FetchEndsUnheard(f, cover) ==
    /\ resuming = {}
    /\ fetches' = fetches \ {f}
    /\ coverFetch' = 0
    /\ UNCHANGED <<session, client, keys, pending, waiting, resuming, shown,
                   calls, unsure, hurried, latest>>
FetchEnds(f, cover) ==
    /\ resuming = {}
    /\ fetches' = fetches \ {f}
    /\ coverFetch' = 0
    /\ waiting' = {w \in waiting : w.fetch # f.id}
    /\ resuming' = {[call |-> w.call, cover |-> cover] :
                        w \in {v \in waiting : v.fetch = f.id}}
    /\ UNCHANGED <<session, client, keys, pending, shown, calls, unsure,
                   hurried, latest>>

FetchSucceeds == \E f \in fetches : FetchEnds(f, f.url)
(* Mutant: there is no AbortController. *)
FetchAbortsNever == FALSE
FetchAborts == \E f \in fetches : FetchEnds(f, None)

(* The suspended calls go on in the order they were made, each with the    *)
(* sender as it is by now.                                                 *)
Goes(r) ==
    /\ \A other \in resuming : r.call.id <= other.call.id
    /\ resuming' = resuming \ {r}
    /\ Finishes(keys, Display, [r.call EXCEPT !.waited = TRUE], r.cover)
    /\ UNCHANGED <<session, coverFetch, fetches, waiting, calls, hurried>>

Resume == \E r \in resuming : Goes(r)

(* The artwork timer. *)
ArtworkTimer ==
    /\ resuming = {}
    /\ pending # None
    /\ pending' = None
    /\ IF pending.key = keys.cover
       THEN UNCHANGED <<keys, client, shown, unsure>>
       ELSE /\ keys' = [keys EXCEPT !.cover = pending.key]
            /\ Shows(SendTo(Display, "cover",
                           Item(pending.cover, pending.cover, pending.call)))
    /\ UNCHANGED <<session, coverFetch, fetches, waiting, resuming, calls,
                   hurried, latest>>

-----------------------------------------------------------------------------
(* The facade's other calls.  They leave the keys alone.                   *)

Direct(kind, value, given) ==
    LET d == SendTo(Display, kind, Item(value, given,
                                        [session |-> session, waited |-> FALSE]))
    IN /\ Call
       /\ client # "none"
       /\ client' = d.client
       /\ shown' = d.shown
       /\ unsure' = [d.unsure EXCEPT ![kind] = TRUE]
       /\ latest' = [latest EXCEPT ![kind] = value]
       /\ UNCHANGED <<session, keys, pending, coverFetch, fetches, waiting,
                      resuming>>

SetTrackInfo == \E t \in DirectTracks : Direct("track", t, t)
SetProgress == \E p \in DirectTimes : Direct("progress", ClientProgress(p), None)

(* stop clears the keys and the timer, but no call that is suspended.      *)
(* Mutants: it leaves the timer armed, forgets the fetch under way, or     *)
(* keeps a key.                                                            *)
StopKeepsTimer ==
    /\ keys' = NoKeys
    /\ UNCHANGED <<pending, coverFetch>>
StopForgetsFetch ==
    /\ keys' = NoKeys
    /\ pending' = None
    /\ coverFetch' = 0
StopKeepsTrack ==
    /\ keys' = [NoKeys EXCEPT !.track = keys.track]
    /\ pending' = None
    /\ UNCHANGED coverFetch
Clears ==
    /\ keys' = NoKeys
    /\ pending' = None
    /\ UNCHANGED coverFetch

(* start stops a sender that is started, and then makes a new AirTunes. *)
Start ==
    /\ resuming = {}
    /\ session < MaxSessions
    /\ session' = session + 1
    /\ client' = "opening"
    /\ shown' = Blank
    /\ IF client # "none"
       THEN Clears /\ unsure' = Sure
       ELSE UNCHANGED <<keys, pending, coverFetch, unsure>>
    /\ latest' = Blank
    /\ hurried' = (hurried \/ waiting # {})
    /\ UNCHANGED <<fetches, waiting, resuming, calls>>

Stop ==
    /\ resuming = {}
    /\ client # "none"
    /\ client' = "none"
    /\ Clears
    /\ unsure' = Sure
    /\ shown' = Blank
    /\ hurried' = (hurried \/ waiting # {})
    /\ UNCHANGED <<session, fetches, waiting, resuming, calls, latest>>

-----------------------------------------------------------------------------
(* The RTSP client and its receiver.                                       *)

ClientMoves(from, to) ==
    /\ resuming = {}
    /\ client \in from
    /\ client' = to
    /\ UNCHANGED <<session, keys, pending, coverFetch, fetches, waiting,
                   resuming, shown, calls, unsure, hurried, latest>>

(* The handshake is over, or a request is answered. *)
ReachesPlaying == ClientMoves({"opening", "busy"}, "playing")
HeartBeat == ClientMoves({"playing"}, "busy")
SessionEnds == ClientMoves({"opening", "playing", "busy"}, "ended")

Init ==
    /\ session = 0
    /\ client = "none"
    /\ keys = NoKeys
    /\ pending = None
    /\ coverFetch = 0
    /\ fetches = {}
    /\ waiting = {}
    /\ resuming = {}
    /\ shown = Blank
    /\ calls = 0
    /\ unsure = Sure
    /\ hurried = FALSE
    /\ latest = Blank

Next ==
    \/ \E p \in Payloads : SetMetadata(p)
    \/ FetchSucceeds \/ FetchAborts \/ Resume \/ ArtworkTimer
    \/ SetTrackInfo \/ SetProgress \/ Start \/ Stop
    \/ ReachesPlaying \/ HeartBeat \/ SessionEnds

Spec == Init /\ [][Next]_vars

(* A fetch is aborted after 4 s at the latest, and microtasks run. *)
FairSpec == Spec /\ WF_vars(FetchAborts) /\ WF_vars(Resume)

-----------------------------------------------------------------------------
(* Properties. *)

Items == {dev \in {shown[kind] : kind \in Kinds} : dev # None}

(* Every field keeps its kind; a suspended call waits for a fetch that is  *)
(* under way.                                                              *)
TypeOK ==
    /\ session \in 0..MaxSessions
    /\ client \in {"none", "opening", "playing", "busy", "ended"}
    /\ DOMAIN keys = Kinds \cup {"url"}
    /\ pending \in {None} \cup Queued
    /\ calls \in 0..MaxCalls /\ coverFetch \in 0..calls
    /\ \A w \in waiting : \E f \in fetches : f.id = w.fetch
    /\ DOMAIN shown = Kinds
    /\ unsure \in [Kinds -> BOOLEAN] /\ hurried \in BOOLEAN

(* Covers are fetched one at a time, whatever is called meanwhile: a stop  *)
(* and a new session do not start a second download next to one that runs, *)
(* whose end would make the facade forget the other.                       *)
SingleFlight == Cardinality(fetches) = IF coverFetch = 0 THEN 0 ELSE 1

(* A key that makes the facade skip a send stands for what the receiver    *)
(* shows: nothing is held back that is not displayed, unless the last send *)
(* of that kind met a client that was not PLAYING, or went round the keys. *)
DedupIsSound ==
    client # "none" =>
        /\ keys.track # None /\ ~unsure.track =>
               shown.track # None /\ shown.track.value = keys.track
        /\ keys.cover # None /\ ~unsure.cover =>
               shown.cover # None /\ Digest(shown.cover.value) = keys.cover.cover
        /\ keys.progress # None /\ ~unsure.progress =>
               /\ shown.progress # None
               /\ shown.progress.value = ClientProgress(keys.progress)

SameItem(kind, a, b) == a = b \/ (kind = "cover" /\ Digest(a) = Digest(b))

(* Calls that leave each other time are shown to the letter: if every call *)
(* found a playing client and no fetch or timer under way, then once all is*)
(* quiet again each kind shows the latest value given, unless the client   *)
(* was busy when it was sent, or a cover looks like the one before it.     *)
UnhurriedIsLatest ==
    Quiet /\ ~hurried => \A kind \in Kinds :
        latest[kind] # None /\ ~unsure[kind] =>
            shown[kind] # None /\ SameItem(kind, shown[kind].value, latest[kind])

(* A session shows nothing that was given to an earlier one, unless a call *)
(* was suspended for a cover while the sender was stopped and restarted.   *)
ShowsOwnSession ==
    \A item \in Items : item.session = session \/ item.waited

(* Milliseconds reach the receiver as seconds, rounded down, through both  *)
(* conversions.  The code holds to it only for a track that is longer than *)
(* one second and not longer than a thousand, and not for an elapsed time  *)
(* within the first second, which it takes for seconds.                    *)
ProgressIsExact ==
    shown.progress # None /\ shown.progress.given # None =>
        LET p == shown.progress.given
            total == p.duration \div Thousand
        IN /\ p.elapsed = 0 \/ p.elapsed > Thousand
           /\ p.duration > Thousand /\ total <= Thousand
           => shown.progress.value =
                [elapsed |-> Smaller(p.elapsed \div Thousand, total),
                 duration |-> total]

(* setMetadata returns: its promise never hangs on a fetch, whoever started*)
(* that and whatever became of the session.                                *)
Suspended(id) == \E w \in waiting \cup resuming : w.call.id = id
CallsReturn == \A id \in 1..MaxCalls : Suspended(id) ~> ~Suspended(id)

(* What the facade was given is shown once nothing is under way.  The code *)
(* loses what it is given while the client is not yet or not now PLAYING.  *)
GivenIsShown ==
    Quiet /\ keys.track # None =>
        shown.track # None /\ shown.track.value = keys.track
=============================================================================
