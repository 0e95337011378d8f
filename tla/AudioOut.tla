------------------------------ MODULE AudioOut ------------------------------
(***************************************************************************)
(* The packet clock and what one receiver gets from it: src/src/core/      *)
(* audioOut.ts (`AudioOut`), the clock syncs of udpServers.ts, the packet  *)
(* header of deviceAirtunes.ts and the RTP-Info of rtsp.ts.                *)
(*                                                                         *)
(* A timer asks how much time has passed since a reference, numbers the    *)
(* packets due since the last call and emits them in one burst, with a     *)
(* clock sync in front of every sync_period-th packet.  Syncs are sent     *)
(* after a random delay.  The receiver hears of the same stream three ways *)
(* (audio packets, syncs, RTP-Info), in numbers that wrap at two widths or *)
(* not at all, while the reference may move once for the receiver's        *)
(* latency and the wall clock may be set.  Each 'ready' of the client, also*)
(* the one that answers a flush, adds a listener that sends every packet.  *)
(*                                                                         *)
(* Time is counted in frames: packet i is due FramesPerPacket * i after    *)
(* the reference, and every rate conversion of the code is exact.          *)
(***************************************************************************)
EXTENDS Integers, Sequences

CONSTANTS
    FramesPerPacket, \* config.frames_per_packet
    Lead,            \* 2 * config.sampling_rate
    SyncPeriod,      \* config.sync_period
    StreamLatency,   \* config.stream_latency
    SeqWrap,         \* SEQ_NUM_WRAP
    TimeWrap,        \* the 2^32 of low32
    Starts,          \* startTimeMs: times, or NoStart when it is not given
    NoStart,
    Latencies,       \* audioLatency a receiver may report; 0: none
    MaxLate,         \* bound: how late the event loop runs the timer
    MaxNow,          \* bound: the end of time
    Steps,           \* what the wall clock may be set by
    MaxSteps,        \* bound: how often
    MaxRelays,       \* bound: the first 'ready' and the flushes answered
    Nothing          \* stands for what has not been received yet

ASSUME WidthsAssumption ==
    /\ FramesPerPacket \in Nat \ {0} /\ SyncPeriod \in Nat \ {0}
    /\ SeqWrap \in Nat \ {0} /\ TimeWrap \in Nat \ {0}
    /\ Lead \in Nat /\ StreamLatency \in Nat \ {0}
ASSUME TimesAssumption ==
    /\ Starts \subseteq Int \cup {NoStart} /\ NoStart \notin Int
    /\ Latencies \subseteq Nat /\ Steps \subseteq Int
    /\ MaxLate \in Nat /\ MaxNow \in Nat /\ MaxSteps \in Nat
    /\ MaxRelays \in Nat

VARIABLES
    now,            \* Date.now()
    startTime,      \* this.startTimeMs
    ref,            \* this.rtpTimeRef
    latencyApplied, \* this.latencyApplied
    lastSeq,        \* this.lastSeq
    wait,           \* time until the timer of syncAudio is due
    hasAirTunes,    \* this.hasAirTunes
    phase,          \* of the device: its RTSP client opens, is configured, ...
    control,        \* syncs waiting out their random delay
    relays,         \* the device's 'packet' listeners, each of which sends
    relayed,        \* the latest burst sent, behind the last packet before it
    clock,          \* the latest sync the receiver got
    rtpInfo,        \* the RTP-Info of a FLUSH, until the next packet
    missing,        \* the first set-up reply named no latency
    moved,          \* ref or the clock has moved since a packet was due
    setBack,        \* the clock was set back since the last packet
    steps

vars == <<now, startTime, ref, latencyApplied, lastSeq, wait, hasAirTunes,
          phase, control, relays, relayed, clock, rtpInfo, missing, moved,
          setBack, steps>>

Least(a, b) == IF a <= b THEN a ELSE b
Last(s) == s[Len(s)]

-----------------------------------------------------------------------------
(* What is sent.                                                           *)

Low32(i) == (IF i < 0 THEN -i ELSE i) % TimeWrap

(* sendPacket numbers a packet; makeRTPHeader writes the two fields as they*)
(* are, in the datagram of each listener.  `listener`, `late`, `moved` and *)
(* `setBack` (of the first datagram) are how it came about, not part of it.*)
(* Mutants: the timestamp is made of the wrapped number; the number is not *)
(* wrapped.                                                                *)
PacketOfWrapped(i, l) ==
    [seq |-> i % SeqWrap,
     timestamp |-> Low32((i % SeqWrap) * FramesPerPacket + Lead),
     listener |-> l, late |-> now - ref - i * FramesPerPacket, moved |-> moved,
     setBack |-> setBack /\ i = lastSeq + 1 /\ l = 1]
PacketOfUnwrapped(i, l) ==
    [seq |-> i,
     timestamp |-> Low32(i * FramesPerPacket + Lead),
     listener |-> l, late |-> now - ref - i * FramesPerPacket, moved |-> moved,
     setBack |-> setBack /\ i = lastSeq + 1 /\ l = 1]
PacketOf(i, l) ==
    [seq |-> i % SeqWrap,
     timestamp |-> Low32(i * FramesPerPacket + Lead),
     listener |-> l, late |-> now - ref - i * FramesPerPacket, moved |-> moved,
     setBack |-> setBack /\ i = lastSeq + 1 /\ l = 1]

(* The datagrams of the packets after lastSeq: one by each listener before *)
(* the next packet.                                                        *)
Burst(count) ==
    [k \in 1..count * relays |->
        PacketOf(lastSeq + 1 + ((k - 1) \div relays), ((k - 1) % relays) + 1)]

(* sendControlSync: the stream's position, the present time, and the       *)
(* timestamp of the packet.  `steady`, `ref` and `steps` are how it came   *)
(* about: after a packet, at the time it was due, and by which clock.      *)
(* Mutant: the position is made of the wrapped number.                     *)
SyncOfWrapped(i) ==
    [rtp |-> Low32((i % SeqWrap) * FramesPerPacket), at |-> now,
     next |-> Low32(i * FramesPerPacket + Lead),
     steady |-> i >= 0 /\ ~moved, ref |-> ref, steps |-> steps]
SyncOf(i) ==
    [rtp |-> Low32(i * FramesPerPacket), at |-> now,
     next |-> Low32(i * FramesPerPacket + Lead),
     steady |-> i >= 0 /\ ~moved, ref |-> ref, steps |-> steps]

(* The ports are known once the client has reported its configuration.     *)
Listens == phase \in {"configured", "relaying", "flushing"}

(* makeRtpInfo: neither number is wrapped.  Mutant: of the last packet.    *)
RtpInfoOfLast ==
    [seq |-> lastSeq, rtptime |-> lastSeq * FramesPerPacket + Lead]
RtpInfo ==
    [seq |-> lastSeq + 1, rtptime |-> (lastSeq + 1) * FramesPerPacket + Lead]

-----------------------------------------------------------------------------
(* The packets due after `elapsed`. *)
CurrentSeq(elapsed) == elapsed \div FramesPerPacket

(* The timer's period.  Mutant: twice that. *)
TimerGapDoubled == 2 * StreamLatency
TimerGap == StreamLatency

(* init sets the reference and calls syncAudio at once, before there is a  *)
(* device that could hear of it; the device is added next.                 *)
Init ==
    /\ now = 0
    /\ startTime \in Starts
    /\ ref = IF startTime = NoStart THEN now ELSE startTime
    /\ latencyApplied = FALSE
    /\ lastSeq = IF now < ref THEN -1 ELSE CurrentSeq(now - ref)
    /\ wait = IF now < ref THEN Least(TimerGap, ref - now) ELSE TimerGap
    /\ hasAirTunes = TRUE
    /\ phase = "opening"
    /\ control = {}
    /\ relays = 0
    /\ relayed = <<>>
    /\ clock = Nothing
    /\ rtpInfo = Nothing
    /\ missing = FALSE
    /\ moved = FALSE
    /\ setBack = FALSE
    /\ steps = 0

(* syncAudio before the reference: nothing is due. *)
TooEarly ==
    /\ wait <= 0
    /\ now < ref
    /\ wait' = Least(TimerGap, ref - now)
    /\ UNCHANGED <<now, startTime, ref, latencyApplied, lastSeq, hasAirTunes,
                   phase, control, relays, relayed, clock, rtpInfo, missing,
                   moved, setBack, steps>>

(* syncAudio: emit what is due.  lastSeq becomes the current one even when *)
(* it was further already.                                                 *)
SyncAudio ==
    LET current == CurrentSeq(now - ref)
        due == lastSeq + 1 .. current
        before == IF relayed = <<>> THEN <<>> ELSE <<Last(relayed)>>
    IN /\ wait <= 0
       /\ now >= ref
       /\ wait' = TimerGap
       /\ lastSeq' = current
       /\ control' = control \cup
            {SyncOf(i) : i \in {j \in due : /\ hasAirTunes /\ Listens
                                            /\ j % SyncPeriod = 0}}
       /\ IF due # {} /\ relays > 0
          THEN /\ relayed' = before \o Burst(current - lastSeq)
               /\ rtpInfo' = Nothing
          ELSE UNCHANGED <<relayed, rtpInfo>>
       /\ moved' = FALSE
       /\ setBack' = (setBack /\ due = {})
       /\ UNCHANGED <<now, startTime, ref, latencyApplied, hasAirTunes, phase,
                      relays, clock, missing, steps>>

(* Time passes.  The random delay of a sync is less than one unit. *)
TimePasses ==
    /\ now < MaxNow
    /\ wait > -MaxLate
    /\ control = {}
    /\ now' = now + 1
    /\ wait' = wait - 1
    /\ UNCHANGED <<startTime, ref, latencyApplied, lastSeq, hasAirTunes, phase,
                   control, relays, relayed, clock, rtpInfo, missing, moved,
                   setBack, steps>>

(* Somebody sets the wall clock. *)
ClockStep(d) ==
    /\ steps < MaxSteps
    /\ now + d \in 0..MaxNow
    /\ now' = now + d
    /\ moved' = TRUE
    /\ setBack' = (setBack \/ d < 0)
    /\ steps' = steps + 1
    /\ UNCHANGED <<startTime, ref, latencyApplied, lastSeq, wait, hasAirTunes,
                   phase, control, relays, relayed, clock, rtpInfo, missing>>

(* The delay of one of the waiting syncs is over. *)
SendSync ==
    \E sync \in control :
        /\ control' = control \ {sync}
        /\ clock' = sync
        /\ UNCHANGED <<now, startTime, ref, latencyApplied, lastSeq, wait,
                       hasAirTunes, phase, relays, relayed, rtpInfo, missing,
                       moved, setBack, steps>>

-----------------------------------------------------------------------------
(* The device: deviceAirtunes.ts and devices.ts.                           *)

(* setLatencyFrames ignores a missing latency, and aligns once, and only   *)
(* a stream that has a start time.  Mutant: each time it is told.          *)
AlignsAgain(latency) == latency > 0 /\ startTime # NoStart
Aligns(latency) == latency > 0 /\ startTime # NoStart /\ ~latencyApplied

(* 'config' of the RTSP client; a reconnected client sends it again. *)
Config(latency) ==
    /\ phase \in {"opening", "configured", "relaying"}
    /\ phase' = IF phase = "opening" THEN "configured" ELSE phase
    /\ IF Aligns(latency)
       THEN /\ ref' = startTime - latency
            /\ latencyApplied' = TRUE
            /\ moved' = TRUE
       ELSE UNCHANGED <<ref, latencyApplied, moved>>
    /\ missing' = (missing \/ (phase = "opening" /\ latency = 0))
    /\ UNCHANGED <<now, startTime, lastSeq, wait, hasAirTunes, control,
                   relays, relayed, clock, rtpInfo, setBack, steps>>

(* 'ready': the device reports 'playing', which asks for a sync, and then  *)
(* listens for packets, beside the listeners it has.  It follows the first *)
(* RECORD and each FLUSH.                                                  *)
Ready ==
    /\ phase \in {"configured", "flushing"}
    /\ relays < MaxRelays
    /\ phase' = "relaying"
    /\ relays' = relays + 1
    /\ control' = IF hasAirTunes THEN control \cup {SyncOf(lastSeq)}
                                 ELSE control
    /\ UNCHANGED <<now, startTime, ref, latencyApplied, lastSeq, wait,
                   hasAirTunes, relayed, clock, rtpInfo, missing, moved,
                   setBack, steps>>

Flush ==
    /\ phase = "relaying"
    /\ phase' = "flushing"
    /\ rtpInfo' = RtpInfo
    /\ UNCHANGED <<now, startTime, ref, latencyApplied, lastSeq, wait,
                   hasAirTunes, control, relays, relayed, clock, missing,
                   moved, setBack, steps>>

(* The device stops and leaves the registry; its control socket is closed  *)
(* before the delay of a sync is over.  The timer runs on, and so do all   *)
(* listeners but the latest.                                               *)
Stopped ==
    /\ phase # "ended"
    /\ phase' = "ended"
    /\ hasAirTunes' = FALSE
    /\ control' = {}
    /\ relays' = IF relays > 0 THEN relays - 1 ELSE 0
    /\ relayed' = IF relays > 1 THEN relayed ELSE <<>>
    /\ clock' = Nothing
    /\ rtpInfo' = Nothing
    /\ UNCHANGED <<now, startTime, ref, latencyApplied, lastSeq, wait, missing,
                   moved, setBack, steps>>

Next ==
    \/ TooEarly \/ SyncAudio \/ TimePasses \/ SendSync
    \/ \E d \in Steps : ClockStep(d)
    \/ \E latency \in Latencies : Config(latency)
    \/ Ready \/ Flush \/ Stopped

Spec == Init /\ [][Next]_vars

-----------------------------------------------------------------------------
(* Properties. *)

Packets == [seq: 0..SeqWrap - 1, timestamp: 0..TimeWrap - 1,
            listener: 1..MaxRelays, late: Int, moved: BOOLEAN,
            setBack: BOOLEAN]
Syncs == [rtp: 0..TimeWrap - 1, at: Int, next: 0..TimeWrap - 1,
          steady: BOOLEAN, ref: Int, steps: Nat]

(* Every field keeps its kind, and whatever goes out on the wire in a      *)
(* 16-bit or a 32-bit field fits it.                                       *)
TypeOK ==
    /\ now \in 0..MaxNow /\ startTime \in Starts /\ ref \in Int
    /\ latencyApplied \in BOOLEAN /\ lastSeq \in Nat \cup {-1}
    /\ wait \in -MaxLate..StreamLatency /\ hasAirTunes \in BOOLEAN
    /\ phase \in {"opening", "configured", "relaying", "flushing", "ended"}
    /\ control \subseteq Syncs
    /\ relays \in 0..MaxRelays /\ relayed \in Seq(Packets)
    /\ clock \in Syncs \cup {Nothing}
    /\ rtpInfo \in [seq: Nat, rtptime: Nat] \cup {Nothing}
    /\ missing \in BOOLEAN /\ moved \in BOOLEAN /\ setBack \in BOOLEAN
    /\ steps \in 0..MaxSteps

Follows(p, q) ==
    /\ q.seq = (p.seq + 1) % SeqWrap
    /\ q.timestamp = (p.timestamp + FramesPerPacket) % TimeWrap

Repeats(p, q) ==
    /\ q.seq = p.seq /\ q.timestamp = p.timestamp
    /\ q.listener = p.listener + 1

(* What the receiver gets is one stream, each packet of it as often as     *)
(* there are listeners: every one sends a packet, in the order they were   *)
(* added, before the first sends the next; and sequence numbers and        *)
(* timestamps go on by one packet across bursts, flushes, the alignment to *)
(* a latency, the wraps of both numbers and the end of the session.  So a  *)
(* packet goes out once until a flush is answered, and more often from     *)
(* then on: n, n, n+1, n+1 (deviceAirtunes.ts:330-333, 374, 455).  The one *)
(* exception is a clock that was set back: lastSeq follows it, and numbers *)
(* are used again.                                                         *)
StreamIsSeamless ==
    \A k \in 1..Len(relayed) - 1 :
        LET p == relayed[k]
            q == relayed[k + 1]
        IN  \/ q.setBack
            \/ q.listener = 1 /\ Follows(p, q)
            \/ q.listener > 1 /\ Repeats(p, q)

(* No packet leaves before its time, nor later than one timer period and   *)
(* its lateness, unless the reference or the clock moved meanwhile.        *)
PacketsAreOnTime ==
    \A k \in 1..Len(relayed) :
        relayed[k].moved \/ relayed[k].late \in 0..(StreamLatency + MaxLate)

(* The time between two syncs, and the stretch of stream they say lies     *)
(* between them.                                                           *)
Drift(a, b) == ((b.at - a.at) - (b.rtp - a.rtp)) % TimeWrap
Window == StreamLatency + MaxLate + FramesPerPacket

Near(a, b) == Drift(a, b) \in 0..Window \cup TimeWrap - Window..TimeWrap - 1

(* Sent after a packet, at its time, by the same reference and clock. *)
Comparable(a, b) ==
    /\ a # Nothing /\ b # Nothing
    /\ a.steady /\ b.steady
    /\ a.ref = b.ref /\ a.steps = b.steps

(* The clock a receiver is given does not jump: any two syncs it gets one  *)
(* after the other, in whatever order their delays let them out, map time  *)
(* to stream positions that differ by less than one burst, also across the *)
(* wrap of RTP time.  Not so if the reference or the clock moved, and not  *)
(* for a sync sent before the first packet.                                *)
ReceiverClockIsSteady ==
    [][Comparable(clock, clock') => Near(clock, clock')]_vars

(* The RTP-Info of a FLUSH names the next packet the receiver gets, in     *)
(* sequence number and timestamp, once both are wrapped like the packet's; *)
(* the code sends them unwrapped.                                          *)
FlushNamesNextPacket ==
    [][rtpInfo # Nothing /\ relayed' # relayed /\ relayed' # <<>> =>
        LET p == relayed'[IF relayed = <<>> THEN 1 ELSE 2]
        IN \/ p.setBack
           \/ /\ p.seq = rtpInfo.seq % SeqWrap
              /\ p.timestamp = rtpInfo.rtptime % TimeWrap]_vars

(* The reference moves at most once, and never under a stream that is being*)
(* sent, however often a client reconnects and reports a latency again;    *)
(* unless its first set-up reply named none and a later one does.          *)
ReferenceHolds ==
    [][ref' # ref => /\ ~latencyApplied
                     /\ phase = "opening" \/ missing]_vars
=============================================================================
