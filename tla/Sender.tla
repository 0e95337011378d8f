------------------------------- MODULE Sender -------------------------------
(***************************************************************************)
(* The life of the sessions of one LoxAirplaySender: the facade            *)
(* (index.ts), the registry of each AirTunes object (core/devices.ts), its *)
(* device (core/deviceAirtunes.ts) and the device's UDP servers            *)
(* (core/udpServers.ts).  Every start makes a new AirTunes object with a   *)
(* registry of its own that holds one device, so one record per start      *)
(* stands for the three.  The RTSP client is reduced to what Session       *)
(* promises of it, with the 'ready' that every answered flush repeats.     *)
(*                                                                         *)
(* The user may call stop(), start() and pipeStream() from inside the      *)
(* handler of an event that a call tells; the call is not over then, and   *)
(* goes on with the fields the inner calls left.  All starts are for the   *)
(* same receiver, so every registry knows its device by the same key.      *)
(***************************************************************************)
EXTENDS Naturals

CONSTANTS
    MaxStarts,    \* bound on the AirTunes objects made
    MaxFlushes,   \* bound on the flushes a session answers
    Streams,      \* the readable streams the user may pipe
    NoStream

ASSUME BoundsAssumption == MaxStarts \in Nat /\ MaxFlushes \in Nat
ASSUME StreamAssumption == NoStream \notin Streams

Sessions == 1..MaxStarts

VARIABLES
    current,    \* the session of `airtunes`, 0 when that is null
    starts,     \* sessions made
    devices,    \* per session: its registry, device, client and UDP servers
    source,     \* the stream stop() will destroy
    attached,   \* streams whose listeners still call sendPcm and stop
    piped,      \* the session each stream was piped into, 0 before
    missed,     \* history: streams piped inside stop(), past its `source`
    thrown,     \* an exception left stop()
    exited      \* an exception left a callback: the process is gone

streamVars == <<source, attached, piped, missed>>

vars == <<current, starts, devices, streamVars, thrown, exited>>

Device == [
    listed: BOOLEAN,        \* in the registry
    hasAirTunes: BOOLEAN,   \* the registry's flag
    udp: {"unbound", "binding", "bound"},
    client: {"none", "opening", "streaming", "ended"},
    flushing: BOOLEAN,      \* a flush is unanswered
    flushed: 0..MaxFlushes,
    relays: Nat,            \* 'packet' listeners on the session's clock
    endings: Nat,           \* 'session-ended' events
    nested: BOOLEAN,        \* one of start() and stop() ran inside the other
    cutShort: BOOLEAN]      \* stopped while its 'ready' was being told

Unused ==
    [listed |-> FALSE, hasAirTunes |-> FALSE, udp |-> "unbound",
     client |-> "none", flushing |-> FALSE, flushed |-> 0, relays |-> 0,
     endings |-> 0, nested |-> FALSE, cutShort |-> FALSE]

\* add: registered, its sockets binding; its client, which the constructor
\* makes, has not begun a handshake and nobody listens to it ("none").
Added(nested) ==
    [Unused EXCEPT !.listed = TRUE, !.hasAirTunes = TRUE, !.udp = "binding",
                   !.nested = nested]

\* The device has listeners on its client.
Hears(d) == d.client \in {"opening", "streaming"}

-----------------------------------------------------------------------------
(* What becomes of one device.                                             *)

\* Mutant: cleanup assumes that there is a relay.
RemoveAnyRelay(d) == d.relays - 1

\* Mutant: cleanup leaves the listener of the relay attached.
KeepRelay(d) == d.relays

RemoveRelay(d) == IF d.relays > 0 THEN d.relays - 1 ELSE 0

\* Mutant: cleanup does not close the UDP servers.
EndedWithSockets(d) ==
    [d EXCEPT !.listed = FALSE, !.hasAirTunes = FALSE,
              !.client = "ended", !.flushing = FALSE,
              !.relays = RemoveRelay(d), !.endings = @ + 1]

\* The device's reaction to its client's 'end', with the registry's and the
\* facade's: only the latest relay is known by name and removed.
Ended(d) ==
    [d EXCEPT !.listed = FALSE, !.hasAirTunes = FALSE, !.udp = "unbound",
              !.client = "ended", !.flushing = FALSE,
              !.relays = RemoveRelay(d), !.endings = @ + 1]

\* Mutant: the registry forgets a device without its teardown.
DropDevice(d) == [d EXCEPT !.listed = FALSE]

\* Mutant: the device is left in the registry before its handshake.
StopClientOnly(d) == IF Hears(d) THEN Ended(d) ELSE d

\* stop of the registry: a teardown ends the client at once.  Before its
\* handshake the device does not hear of that, and 'ports' will start the
\* closed client like a new one; then, and after the end, the device is only
\* forgotten.
StopDevice(d) == IF Hears(d) THEN Ended(d) ELSE [d EXCEPT !.listed = FALSE]

Relayed(d) ==
    [d EXCEPT !.client = "streaming", !.relays = @ + 1, !.flushing = FALSE,
              !.flushed = IF d.client = "streaming" THEN @ + 1 ELSE @]

\* The client's 'ready': once, and for every flush that is answered.
IsReady(d) == d.client = "opening" \/ d.flushing

-----------------------------------------------------------------------------
(* stop(), and what the handler of an event it tells may do meanwhile.     *)

Reactions == {"none", "start", "stop"}

NewStreams == {p \in Streams : piped[p] = 0} \cup {NoStream}

\* A handler runs in stop() if there is a session: it hears the device's end,
\* that the device is not found (it ended before), or that the buffer plays
\* what is left.  It may call start() or stop(), then pipe a stream, which
\* needs a session.  A stop() in the last of the three changes nothing.
Reacts(r, p) ==
    /\ r # "none" \/ p # NoStream => current # 0
    /\ r = "start" => starts < MaxStarts
    /\ r = "stop" =>
        /\ p = NoStream
        /\ Hears(devices[current]) \/ ~devices[current].listed

Dropped ==
    IF current = 0 THEN devices
    ELSE [devices EXCEPT ![current] = StopDevice(@)]

\* A start inside stop() makes a session, but stop() then goes on with the
\* new object: its stopAll meets a device without a handshake, and airtunes
\* becomes null.
AfterStop(r) ==
    IF r = "start" THEN [Dropped EXCEPT ![starts + 1] = Added(TRUE)]
    ELSE Dropped

StartsAfter(r) == IF r = "start" THEN starts + 1 ELSE starts

\* Mutant: stop() forgets the stream without destroying it.
FeedingOn(p, over) == (attached \ over) \cup ({p} \ {NoStream})

\* `source` is destroyed before the handler runs, and a stream piped in it
\* stays.  `over` holds the stream whose end it was that called stop().
Feeding(p, over) == (attached \ ({source} \cup over)) \cup ({p} \ {NoStream})

\* What a stream piped inside stop() leaves: `source`, which nobody clears,
\* and the session it was piped into, a new one if there is one.
PipedInside(r, p) ==
    /\ piped' = IF p = NoStream THEN piped
                ELSE [piped EXCEPT ![p] =
                        IF r = "start" THEN starts + 1 ELSE current]
    /\ missed' = missed \cup ({p} \ {NoStream})

\* A stop inside stop() leaves airtunes null where the outer one reads it.
StopCall(r, p, over) ==
    /\ Reacts(r, p)
    /\ source' = p
    /\ attached' = Feeding(p, over)
    /\ PipedInside(r, p)
    /\ thrown' = (thrown \/ r = "stop")

Stopped(r, p, over) ==
    /\ StopCall(r, p, over)
    /\ devices' = AfterStop(r)
    /\ starts' = StartsAfter(r)
    /\ current' = 0

(* The rest of start(), from devices ds of which n were made, with `src` as *)
(* `source` and the streams att attached.                                  *)

\* add tells 'connecting' before the device exists and before start() is
\* noted.  If that handler stops, airtunes is null when start() goes on and
\* registers the device, and `source` is destroyed; if it starts, which stops
\* nothing, the inner session is the one of airtunes, and the outer device is
\* registered with an object that is not.
Connects(ds, n, src, att, c) ==
    LET made == n + 1
        last == IF c = "start" THEN n + 2 ELSE n + 1
    IN  /\ last <= MaxStarts
        /\ devices' = IF c = "start"
                      THEN [ds EXCEPT ![made] = Added(TRUE),
                                      ![last] = Added(FALSE)]
                      ELSE [ds EXCEPT ![made] = Added(c = "stop")]
        /\ starts' = last
        /\ current' = IF c = "stop" THEN 0 ELSE last
        /\ source' = IF c = "stop" THEN NoStream ELSE src
        /\ attached' = IF c = "stop" THEN att \ {src} ELSE att

-----------------------------------------------------------------------------
Init ==
    /\ current = 0
    /\ starts = 0
    /\ devices = [s \in Sessions |-> Unused]
    /\ source = NoStream
    /\ attached = {}
    /\ piped = [i \in Streams |-> 0]
    /\ missed = {}
    /\ thrown = FALSE
    /\ exited = FALSE

(* The user's calls.                                                       *)

\* Without a session start() calls no stop().
FirstStart ==
    /\ ~exited
    /\ current = 0
    /\ \E c \in Reactions : Connects(devices, starts, source, attached, c)
    /\ UNCHANGED <<piped, missed, thrown, exited>>

\* A restart that throws in its stop() does no more than that stop().
Restart ==
    /\ ~exited
    /\ current # 0
    /\ \E r \in Reactions \ {"stop"}, p \in NewStreams, c \in Reactions :
        /\ Reacts(r, p)
        /\ Connects(AfterStop(r), StartsAfter(r), p, Feeding(p, {}), c)
        /\ PipedInside(r, p)
    /\ UNCHANGED <<thrown, exited>>

\* Without a session there may still be a stream to destroy.
Stop ==
    /\ ~exited
    /\ current # 0 \/ source # NoStream
    /\ \E r \in Reactions, p \in NewStreams : Stopped(r, p, {})
    /\ UNCHANGED exited

\* reset(): flush reaches a device that is listed and playing.
Reset ==
    /\ ~exited
    /\ current # 0
    /\ devices[current].listed
    /\ devices[current].client = "streaming"
    /\ devices[current].flushed < MaxFlushes
    /\ devices' = [devices EXCEPT ![current].flushing = TRUE]
    /\ UNCHANGED <<current, starts, streamVars, thrown, exited>>

PipeStream(i) ==
    /\ ~exited
    /\ current # 0
    /\ piped[i] = 0
    /\ source' = i
    /\ attached' = attached \cup {i}
    /\ piped' = [piped EXCEPT ![i] = current]
    /\ UNCHANGED <<current, starts, devices, missed, thrown, exited>>

-----------------------------------------------------------------------------
(* Callbacks.                                                              *)

\* 'end' or 'error' of a stream stops whatever session is current then.
StreamEnds(i) ==
    /\ ~exited
    /\ i \in attached
    /\ \E r \in Reactions, p \in NewStreams :
        /\ Stopped(r, p, {i})
        /\ exited' = (r = "stop")

\* The polling interval finds both ports: 'ports' starts the handshake of
\* the device, whether or not it is still registered.
PortsKnown(s) ==
    /\ ~exited
    /\ devices[s].udp = "binding"
    /\ devices' = [devices EXCEPT ![s].udp = "bound", ![s].client = "opening"]
    /\ UNCHANGED <<current, starts, streamVars, thrown, exited>>

\* A socket error: 'stopped' is told, then the device emits an 'error' that
\* nobody listens to.
UdpFails(s) ==
    /\ ~exited
    /\ devices[s].udp # "unbound"
    /\ devices' = [devices EXCEPT ![s].listed = FALSE,
                                  ![s].hasAirTunes = FALSE,
                                  ![s].endings = @ + 1]
    /\ exited' = TRUE
    /\ UNCHANGED <<current, starts, streamVars, thrown>>

Ready(s) ==
    /\ ~exited
    /\ IsReady(devices[s])
    /\ devices' = [devices EXCEPT ![s] = Relayed(@)]
    /\ UNCHANGED <<current, starts, streamVars, thrown, exited>>

\* The user stops in the handler of the 'playing' that 'ready' tells first:
\* the listener goes on and relays audio of a device that has ended.
ReadyAndStopped ==
    /\ ~exited
    /\ current # 0
    /\ IsReady(devices[current])
    /\ \E r \in Reactions, p \in NewStreams :
        /\ StopCall(r, p, {})
        /\ devices' = IF r = "stop" THEN AfterStop(r)
                      ELSE [AfterStop(r) EXCEPT ![current].relays = @ + 1,
                                                ![current].cutShort = TRUE]
        /\ starts' = StartsAfter(r)
        /\ exited' = (r = "stop")
    /\ current' = 0

\* The client gives up: refused, lost, timed out, wrong password.
ClientEnds(s) ==
    /\ ~exited
    /\ Hears(devices[s])
    /\ devices' = [devices EXCEPT ![s] = Ended(@)]
    /\ UNCHANGED <<current, starts, streamVars, thrown, exited>>

UserCalls ==
    \/ FirstStart \/ Restart \/ Stop \/ Reset
    \/ \E i \in Streams : PipeStream(i)

Callbacks ==
    \/ \E i \in Streams : StreamEnds(i)
    \/ \E s \in Sessions :
        PortsKnown(s) \/ UdpFails(s) \/ Ready(s) \/ ClientEnds(s)
    \/ ReadyAndStopped

Next == UserCalls \/ Callbacks

Spec == Init /\ [][Next]_vars

-----------------------------------------------------------------------------
(* Properties.                                                             *)

TypeOK ==
    /\ current \in 0..MaxStarts
    /\ starts \in 0..MaxStarts
    /\ devices \in [Sessions -> Device]
    /\ source \in Streams \cup {NoStream}
    /\ attached \subseteq Streams
    /\ piped \in [Streams -> 0..MaxStarts]
    /\ missed \subseteq Streams
    /\ thrown \in BOOLEAN
    /\ exited \in BOOLEAN

\* A device that is registered anywhere can be reached by the facade: no
\* start, stop, restart or end of a stream, at any point of the start-up,
\* forgets one.  There are three exceptions, all calls inside calls: a session
\* whose start() was called inside stop(), which then discards its AirTunes
\* object (index.ts:295-298), and one whose own 'connecting' handler called
\* stop() or start(), which leaves another object, or none, in airtunes when
\* the device is registered (devices.ts:63, index.ts:97).
RegisteredIsReachable ==
    \A s \in Sessions :
        devices[s].listed => s = current \/ devices[s].nested

\* The end of a session is complete and told once, and nothing of it is done
\* before: the flag that drives the clock's sync requests, the UDP sockets
\* and the 'session-ended' event all go with the device's clean-up
\* (deviceAirtunes.ts:463-480, devices.ts:74-85), however it came about.
EndedIsComplete ==
    ~exited => \A s \in 1..starts :
        LET over == devices[s].client = "ended" IN
        /\ over <=> ~devices[s].hasAirTunes
        /\ over <=> devices[s].udp = "unbound"
        /\ devices[s].endings = IF over THEN 1 ELSE 0

\* The packets of a session go out once per 'ready' it was told, and after
\* its end a relay is left for every flush that was answered and for a stop
\* inside 'playing': relayAudio attaches a listener each time and cleanup
\* knows the latest one (deviceAirtunes.ts:374, 455, 472-475).
RelaysAccountedFor ==
    \A s \in Sessions :
        LET d == devices[s] IN
        d.relays = d.flushed + (IF d.client = "streaming" THEN 1 ELSE 0)
                             + (IF d.cutShort THEN 1 ELSE 0)

\* A stream feeds the session it was piped into and no later one, but for two
\* cases: another stream was piped into that session too (stop() destroys the
\* last one only, index.ts:167-173), or it was piped by a handler inside
\* stop(), which has passed `source` by then and ends without a session: the
\* next start() calls no stop(), and the stream feeds that one
\* (index.ts:97, 273-280).
StreamsFeedTheirSession ==
    \A i \in attached :
        \/ piped[i] = current
        \/ i \in missed
        \/ \E j \in Streams \ {i} : piped[j] = piped[i]

\* A device leaves its registry because it ended (or the process does), or
\* before its handshake; a device that hears its client is never just dropped
\* (devices.ts:210-218).
DroppedOnlyUnborn ==
    [][\A s \in Sessions :
        devices[s].listed /\ ~devices'[s].listed =>
            devices'[s].client \in {"none", "ended"} \/ exited']_vars

\* README.md:78 says that stop() stops the sender and closes its sockets: a
\* sender that has no session any more has no client that talks to a
\* receiver.  The code breaks it when stop() comes before the ports are known
\* (and for nested calls, which RegisteredIsReachable tells apart).
StoppedHasNoClient ==
    current = 0 =>
        \A s \in Sessions : Hears(devices[s]) => devices[s].nested

\* index.ts:270 says of stop "Safe to call multiple times": no order of calls
\* makes it throw.  The code breaks it when the handler of 'session-ended'
\* calls it too.
StopIsSafe == ~thrown

\* The same sentence of README.md:78: after its end a session sends no audio
\* (but for a stop inside 'playing', which RelaysAccountedFor tells apart).
\* The code breaks it after a flush, for good.
EndedIsSilent ==
    \A s \in Sessions :
        LET d == devices[s] IN
        d.client = "ended" /\ ~d.cutShort => d.relays = 0
=============================================================================
