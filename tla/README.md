# A verification project for node-airplay-sender

The package streams PCM audio to AirPlay receivers. This directory holds TLA+
models of its stateful parts, TLC configurations that check them on small
instances, and theorems about them that TLAPS checks for every instance.
Source paths below are relative to `src/src/`.

| file | what it is |
| --- | --- |
| `RtspClient.tla` | the RTSP client of one receiver (`core/rtsp.ts`) and its properties |
| `Session.tla` | what the client promises the device that listens to it (abstract) |
| `RtspClientProofs.tla` | theorems about `RtspClient` |
| `CircularBuffer.tla` | the PCM buffer (`utils/circularBuffer.ts`) and its properties |
| `Playout.tla` | what the buffer promises the packet clock (abstract) |
| `CircularBufferProofs.tla` | theorems about `CircularBuffer` |
| `Sender.tla` | facade, registry, device and UDP servers over the sessions of a sender, and their properties |
| `SenderProofs.tla` | theorems about `Sender` |
| `DeviceOptions.tla`, `DeviceOptionsProofs.tla` | from the caller's options and TXT records to the client's options and the audio format (constructor of `core/deviceAirtunes.ts`); theorems |
| `AudioOut.tla`, `AudioOutProofs.tla` | the packet clock and what a receiver gets from it (`core/audioOut.ts`, syncs of `core/udpServers.ts`), its properties; theorems |
| `Metadata.tla`, `MetadataProofs.tla` | setMetadata, cover fetches, artwork timer (`index.ts`) down to the receiver's display, and their properties; theorems |
| `Tlv.tla` | the pairing items' coding (`homekit/tlv.ts`) |
| `Framing.tla` | how replies are found in a byte stream cut anywhere, clear or sealed, and their properties; uses `Tlv` |
| `FramingProofs.tla` | theorems about `Tlv` and `Framing` |
| `Induction.tla` | induction and recursion over the naturals, for the proofs about sequences |
| `MCRtspClient.tla`, `MCCircularBuffer.tla`, `MCSender.tla`, `MCAudioOut.tla`, `MCMetadata.tla`, `MCFraming.tla` | instances for TLC |
| `*.cfg` | one per run, see "Runs" |
| `PROJECT.json` | components, runs, mutants, definition-to-source map, findings, hazards, theorems |

## The system

| component | state | operations | hard behaviour |
| --- | --- | --- | --- |
| Sender facade, `index.ts` | the current AirTunes object, device key, last track/cover/progress keys, cover fetch, artwork timer | start, stop, reset, sendPcm, pipeStream, setMetadata, setX | restart while timers run; a fetch awaited across track changes and stops |
| AirTunes, `core/index.ts` | owns the registry, the buffer and the clock | forwards | wiring only |
| Device registry, `core/devices.ts` | devices by key, `hasAirTunes` | add, stop, stopAll, fan-out of commands | deletion in two places, callbacks that may not come |
| Device, `core/deviceAirtunes.ts` | its RTSP client, UDP servers, audio socket, packet listener, stream parameters | start, doHandshake, relayAudio, cleanup, stop | stop at any point of the start-up, repeated 'ready' |
| UDP servers, `core/udpServers.ts` | two sockets, their ports, status | bind, close, sendControlSync | the 100 ms poll that outlives close |
| RTSP client, `core/rtsp.ts` | status, socket, one request timer, heartbeat, back-off, credentials, session | handshake, pairing, set-up, parameters, flush, teardown | everything: see below |
| Circular buffer, `utils/circularBuffer.ts` | queue of chunks, size, status | write, readPacket, end, reset | sizes kept by hand, back-pressure, resets |
| Packet clock, `core/audioOut.ts` | lastSeq, time reference, latency | init (self-arming timer), setLatencyFrames | clock jumps, never stopped |
| Session keys, `homekit/credentials.ts` | keys, two nonce counters | encrypt, decrypt | counters out of step after a cut read |
| TLV coding, `homekit/tlv.ts` | none between calls | encode, decode | fragments, values cut short |
| Pairing cryptography, plist, ALAC, NTP | none between calls | pure functions | not modelled |
| `utils/http.ts`, `core/atv.ts` | a second protocol client | not reachable from the entry points | not modelled |

Everything runs on Node's single thread. The components interact by direct calls
downwards (facade to registry to device to client) and by events upwards
(`config`, `ready`, `need_password`, `pair_failed`, `pair_success`, `end` from the
client; `status` from device and registry; `packet` and `need_sync` from the
clock). What interleaves are the callbacks: timers, sockets and the user's calls.
A handler runs to completion, so a handler is one action. The three `await`s in
`sendNextRequest` (pairing signatures) yield to microtasks only, which no timer or
socket event can enter, and are part of the action.

What makes the system correct, component by component:

* the client must match replies to requests without having a record of requests,
  must be timed whenever it waits, must not act once it has ended, must use the
  keys of the connection it is on, and must tell its device things in order;
* the buffer must hand out the bytes written, in order, without a gap, whatever
  the chunk sizes, keep its size exact, release a throttled writer, and announce
  what it does;
* the registry, the devices and the UDP servers must agree on which devices
  exist, and a stopped device must leave nothing running;
* the clock must give each sequence number to one packet and anchor receivers on it;
* the facade must pair a cover with its track and touch nothing after stop.

`PROJECT.json` lists the hazards line by line, with the property that covers each.

## RtspClient

The state is that of `Client` (`rtsp.ts:127-198`), field by field, where control
depends on it: `status`, `socket`, `timeout`, `heartBeat`, `connectAttempts`,
`password`, `passwordTried`, `credentials`, `encryptedChannel`, `session`,
`readySent`, `sentFakeProgess`, and `retry` for the anonymous back-off timer. `opts`
is the option record; `ClientOptions` is the image of the device constructor
(`deviceAirtunes.ts:127-251`), all of it, though the facade itself reaches three
records only. `attached`, `configured`, `ready` and `asked` record what the device
has heard. `wire`, `heard`, `secured` and `garbled` are the connection: requests
written and unanswered, what came last on it (`Heard`), keys at the receiver, nonce
counters out of step. `outOfTurn` records a stray call on it. `crashed` says that an exception left a handler: an error thrown in a
socket callback, or a rejected promise of the un-awaited `sendNextRequest`, ends a
Node process of version 15 or later.

| action | code |
| --- | --- |
| `Connected`, `ConnectionFails`, `RetryFires`, `PeerCloses` | the callbacks in `startHandshake` |
| `TimeoutFires`, `HeartBeatTick` | `startTimeout`, `startHeartBeat` |
| `ReplyIllegible`, `SplitReply` | the `data` handler, when no complete header can be read |
| `LatePiece` | the `data` handler again, for the rest of a reply that was handled when its header was complete: it stops the timer of the next request |
| `ReplyUnauthorized`, `ReplyBusy` | the response-code guards of modes 0 and 1 in `processData` |
| `ReplyFailsPairing`, `ReplyThrows` | the bodies that are checked, and those that are not |
| `ReplyToX` | the cases of `processData`, with the request of the next status |
| `SetVolume` ... `SetPasscode`, `Teardown` | the calls of the device |

`Request` is `sendNextRequest` for the status just set: it writes and arms the
timer, or throws on the null field it needs. `Sealed` decides, as the code does in
five different places, whether the request is encrypted. `Cleanup` is `cleanup` with
the device's reaction to 'end': it forgets its client, so `attached` guards the
user's calls afterwards.

The receiver answers requests in order, only those it understands (sealed exactly
when it has keys), and properly unless it spends one of `MaxMishaps` mishaps:
refuse or reset or close the connection, cut a reply in two (in its header, or late
in its body), challenge (401), refuse (453), reject (another code), leave out the body, or send a
wrong one. Saying nothing at all is always possible.

Left out: `INFO` and `GETVOLUME`, which no record of `ClientOptions` can enter;
teardown of a client already CLOSED and artwork from a file path, which the typed
API cannot reach; the user callback, called inside try/catch and without influence
on the client; request texts; the cryptography.

Calls have the guards of the code and no others. `SetPasscode` has none: a passcode may
come while connecting, unasked, or twice for one prompt, and abandons whatever is going
on (those that answer no prompt count as commands). A stray call (`outOfTurn`) is such a
passcode, one that answers a prompt of a lost connection, or a command while the
connection is being replaced. A passcode before 'ports' has no effect: the client is made
and its socket opened in one tick of `doHandshake`, and until then
`AirTunesDevice.setPasscode` returns (`deviceAirtunes.ts:523`).

### Properties

* `TypeOK`.
* `Lockstep`: at most one request is outstanding, and it is the one of the present
  status. It is what lets `processData` read a reply by the status. It fails only
  on a connection where a stray call was made, a real weakness of the code: the status
  stays PLAYING during a back-off, and setPasscode has no guard.
* `TimerTracksRequest`: an outstanding request is timed until its reply starts to
  arrive, unless a late piece of the reply before it stopped the timer; a playing session
  has no timer. Stray calls are excepted here too: the answer to the request
  that a passcode abandoned stops the timer of the pairing's.
* `CrashNeedsMishap`: on a well-behaved network no configuration and no order of
  calls ends the process, but for flush on AirPlay 1, a missing artist, and a reply
  read as another one's after a stray passcode. The first is within anybody's reach:
  `index.ts:156` says that reset() keeps the RTSP session, but it flushes every device,
  FLUSH is always built with `this.credentials.encrypt` (`rtsp.ts:1113`), and that field
  is null on AirPlay 1; the try/catch of `Devices.flush` does not see the rejection.
* `SealedOnceSecured`: nothing goes out in clear once there are keys, but for the
  OPTIONS that answer a digest challenge, and after a stray call (a passcode after the
  pairing starts another one, in clear).
* `PlayingWasAnnounced`: who accepts commands has a session, and its device has the
  ports and the order to stream. Stated with the exception of the code: an
  AirPlay 1 connection reset between the replies to SETUP and RECORD comes back
  PLAYING, never recorded and never announced; a pairing restarted there by a stray
  passcode does the same.
* `ReadyRepeatsOnlyOnFlush`, `ClosedIsInert` (action properties).
* `AlwaysSettles` (liveness): a client that waits for anything but the user or the
  music gets somewhere, unless it is `Wedged`: stuck without a timer, the last thing it
  received having stopped it, in one of four named ways. The rest of a reply cut off
  never comes; the late rest of a reply stopped the timer of the next request; a reply
  cannot be decrypted (a reset on AirPlay 2 leaves the encryption of the old connection
  on); or, in mode 0, a challenge came without a password and was dropped silently.
* `SilenceIsNoticed`, in the violation run `rtsp_late_piece`: `utils/config.ts:49`
  promises every request a timer. Any piece of data stops it (`rtsp.ts:244`).
* `ImplementsSession`: refinement of `Session` under the mapping `Phase`.

The two `violation` runs state a sentence of the README or a comment and show the
code breaking it; "findings" in `PROJECT.json` quotes the lines and tells the traces.

## DeviceOptions

The constructor of the device (`deviceAirtunes.ts:127-251`) as operators on records:
`OptionsOf` gives the client's options, `AlacEncoding` and `Sent` the format of the
audio, `Announced` the one the set-up requests name. TXT records are reduced to the
bits it tests. `MCRtspClient` runs `RtspClient` over the image of all records, and its
assumption `EveryOptionIsMade`, evaluated by TLC, says that the image is `ClientOptions`
exactly: the client is checked for neither fewer nor more options than it can get. Two
facts found on the way: the facade passes `mode` and `txt` within the options where
nothing reads them (`index.ts:132`, `core/index.ts:56`), so the README's TXT records
(lines 51-52) have no effect; and ALAC input is sent as it is even if PCM was announced.

## Framing and Tlv

The state is that of one connection: the bytes in flight, `blob`, the timer, what was
read. `ReceiverReplies` writes a reply; `DataArrives(n)` is the 'data' handler
(`rtsp.ts:243-276`) for a piece of any length, with parseResponse2 (`Legible`), the body
slice of `processData` (`Body`), the remainder that is kept (`Leftover`), the decoding of
the items (`Tlv.Decode`) and, when sealed, the block decryption of `credentials.ts`,
which gets out of step when a piece ends within a block. A head is three tokens, a body
is bytes. Replies have a Content-Length and bodies no empty line; the client asks again
when a reply is handled.

* `EveryHeadIsFound`: heads are found in order, one for each reply, however the
  stream is cut; the status line too, unless the body before has a line break.
* `ItemsAreRead`: what the receiver wrote is what pairing reads, unless a piece ends
  within the body or in front of it, where the code takes the wrong bytes.
* `TimerIsArmed`: a waiting client is timed while replies come whole.

`RtspClient` takes from here that a reply either comes whole, or is cut in its head
(`heard` is "piece"), or in its body (`LatePiece`), or cannot be read (`garbled`, a body
that is wrong).

## CircularBuffer

The state is the class's (`buffers`, `currentSize`, `status`), plus the last status
event, the last packet, and a writer that may be patient (waits for 'drain' after a
refused write, as a stream would) or not (as `sendPcm` is). A byte is its position
in all that was written, so a lost, repeated or reordered byte shows in a packet.
`write` on a closed buffer throws only after it has stored the chunk
(`WriteClosed`); reads after the end drive `currentSize` below zero. Empty chunks are
left out (a Node stream never delivers one), `muted` is never set.

* `SizeIsExact`: the size kept by hand is the number of bytes queued.
* `StatusIsTold`: the last status event fits the status.
* `DrainIsKept`: DRAINING, the only record of a waiting writer, is given up only
  with 'drain', a reset or the end.
* `EndComesLast`: the first 'end' comes with the packet of the last byte.
* `PatientWriterResumes` (liveness): a waiting writer goes on, unless the buffer is
  closed, or reset: the reset forgets that a writer waits, so that one throttled as
  `circularBuffer.ts:36` invites it to be gets no 'drain'.
* `ImplementsPlayout`: refinement of `Playout`, with the number of bytes taken out
  as the mapped variable: packets are silent or carry the next bytes, in order.

## Sender

Only the facade is exported, and each `start` makes a new AirTunes object whose
registry holds one device, so the state is one record per start (`devices`) with the
registry's entry and flag, the UDP servers' status, the stage of the RTSP client and
the number of 'packet' listeners on the session's clock. `current` is the session of
`airtunes` (0 for null; `started` says the same, but inside a call). `endings` counts 'session-ended'
events; `nested`, `cutShort`, `missed`, `thrown` and `exited` record what happened inside
a handler and where an exception went. One device per registry is what the package
makes; `stopAll` finds it gone, or before its handshake.

| action | code |
| --- | --- |
| `FirstStart`, `Restart` | `start` without a session, and with one, which it stops first |
| `Stop`, `PipeStream`, `Reset` | the calls of the same name in `index.ts`, down to the device |
| `StreamEnds` | the listeners `pipeStream` leaves on a stream |
| `PortsKnown`, `UdpFails` | the polling interval and the error listeners of `udpServers.ts`, and what the device makes of 'ports' |
| `Ready`, `ReadyAndStopped`, `ClientEnds` | the listeners of `doHandshake` for 'ready' and 'end' |

`Ended` is the device's `cleanup` with all that listens to it: registry, facade, UDP
servers. stop() reaches it synchronously, so the user's handler of 'session-ended'
runs in the middle of stop(); it runs there too for the 'error' of a device that is gone
and for the buffer's 'playing'. It may call (`Reacts`) `start` (then the outer stop()
ends and forgets the new session) or `stop` (then the outer one reads a null field and
throws), and pipe a stream before it returns: stop() has passed `source` by then and
leaves the stream attached (`PipedInside`). Two more handlers matter: that of
'connecting', which start() tells before it is noted as started (`Connects`: a stop there
leaves `airtunes` null, a start replaces it, and the outer call registers its device
with an object nobody holds), and that of 'playing', which may stop
(`ReadyAndStopped`). A call made in any other handler has the effect of one made right
after it, and a restart inside 'playing' that of `ReadyAndStopped` and `FirstStart`. A
handler calls once while an outer call is under way, and all starts are for the same
receiver. The RTSP client is the `Session` of
`Session.tla` reduced to three stages (opening, streaming, ended), with the
repeated 'ready' that `RtspClient` allows for an answered flush
(`ReadyRepeatsOnlyOnFlush`). A flush on AirPlay 1, which ends the process, and the
back-off of an ended client are left to `RtspClient`. `setMetadata`, volume and the
other forwarded commands change nothing here.

* `RegisteredIsReachable`, `DroppedOnlyUnborn`: no order of calls loses a device, with
  three exceptions, all calls inside calls: a start inside stop(), a stop and a start
  inside 'connecting'; and a stop before the handshake drops one that is not born yet.
* `EndedIsComplete`: flag, sockets, client and 'session-ended' end together, once.
* `RelaysAccountedFor`: how many packet listeners a session has, and keeps after
  its end: one for each answered flush, one for a stop inside 'playing'.
* `StreamsFeedTheirSession`: a stream never reaches a session later than its own, but
  where two were piped into one session, or it was piped inside stop().

The three violation runs are exceptions these properties name, each against a
sentence of the README or of `index.ts`.

## AudioOut

The state is the class's (`startTimeMs`, `rtpTimeRef`, `latencyApplied`, `lastSeq`,
`hasAirTunes`), the wall clock and the timer, the device's phase, the syncs that wait
out their random delay, the device's 'packet' listeners (`relays`), and what the receiver
got: the latest burst (`relayed`), the
latest sync (`clock`), the RTP-Info of a flush (`rtpInfo`). Time is counted in frames.
`missing`, `moved`, `setBack` and `steps` record how things came about.

| action | code |
| --- | --- |
| `TooEarly`, `SyncAudio` | the two branches of `syncAudio` (`audioOut.ts:69-87`), with `sendPacket`, the 'packet' listener and the sync request |
| `SendSync` | the end of a `sendControlSync` delay (`udpServers.ts`) |
| `Config`, `Ready`, `Flush`, `Stopped` | the device's listeners: setLatencyFrames, 'playing' and one more relay, makeRtpInfo, cleanup, which removes one relay |
| `TimePasses`, `ClockStep` | time, and somebody setting the wall clock |

Every 'ready' adds a listener that sends each packet of a burst (`Burst`), so after an
answered flush the receiver gets n, n, n+1, n+1; after the end of the session all but the
latest listener go on.

* `StreamIsSeamless`: each packet comes once from every listener, and packets follow each
  other by one in number and in timestamp, over bursts, alignments, flushes, both wraps
  and the end of the session, unless the clock was set back.
* `PacketsAreOnTime`: none early, none later than one timer period and its lateness,
  unless clock or reference moved.
* `ReceiverClockIsSteady`: any two syncs, in any order of arrival, agree up to one
  burst; not for a sync before the first packet, whose position of -1 packets low32
  turns into a positive one.
* `FlushNamesNextPacket`: RTP-Info names the next packet, once wrapped (the code sends
  it unwrapped), unless the clock was set back.
* `ReferenceHolds`: the reference moves at most once and not under a stream, unless the
  first set-up reply named no latency and a later one does.

## Metadata

The state is the facade's (`keys`, `pending`, `coverFetch`), the fetches and the calls
suspended at `await this.coverFetch` (`waiting` for the fetch, or `resuming` when it has
ended), the client as far as it takes calls, and what the receiver shows. Calls come between runs of the microtask queue: `Resume` comes before
anything else. `Finishes` is the rest of setMetadata after the await, which runs at once
when there is nothing to fetch.

| action | code |
| --- | --- |
| `SetMetadata`, `Resume` | `setMetadata` up to its await, and from there on |
| `FetchSucceeds`, `FetchAborts` | `fetchCover` with its 4 s AbortController |
| `ArtworkTimer` | the timer of a changed track's cover |
| `SetTrackInfo`, `SetProgress` | the direct calls, which go round the keys |
| `Start`, `Stop`, `SessionEnds` | what they clear and what they leave |
| `ReachesPlaying`, `HeartBeat` | the client takes calls only while PLAYING; a call or a heartbeat makes it busy until the reply |

* `SingleFlight`: one cover fetch at a time, also across stop and start.
* `DedupIsSound`: a key that makes the facade skip a send stands for what is shown,
  unless the last send was lost on a client not PLAYING.
* `UnhurriedIsLatest`: with calls that leave each other time, the latest values are
  shown, unless a cover has type and length in common with the one before it, which is
  all the facade compares (`Digest`).
* `ShowsOwnSession`: nothing of an earlier session is shown, but for a call suspended
  across a restart.
* `ProgressIsExact`: milliseconds arrive as whole seconds through both conversions,
  within the range where they do.
* `CallsReturn` (liveness): setMetadata returns.

`metadata_lost` is the exception of `DedupIsSound` in its plainest form, the README's
quick start. Abstracted: a track is one value (it always has an artist; a missing one is
in `RtspClient`), a cover has its mime type, the cover behind a URL is named like the
URL, and the display of an ended session is forgotten.

## Runs

| run | result | bounds | states |
| --- | --- | --- | --- |
| `rtsp_safety` | pass | all option records, 2 retries, 3 mishaps, 2 commands | 761 160 |
| `rtsp_stop_in_backoff` | violation | 1 reset | |
| `rtsp_late_piece` | violation | 1 late piece | |
| `buffer` | pass | packets of 2 bytes, 3 in the buffer, chunks of 1, 2, 3, 5, 10 bytes written | 74 188 |
| `sender` | pass | 3 starts, 2 streams, 2 flushes per session | 240 555 |
| `sender_early_stop` | violation | 1 start | |
| `sender_stop_in_handler` | violation | 1 start | |
| `sender_relay_after_flush` | violation | 1 start | |
| `audio` | pass | packets of 2 frames, sequence numbers wrap at 4, time at 23, a sync every 3 packets, timer period 4, 1 late, 15 frames, 1 clock step, 3 listeners | 5 220 469 |
| `metadata` | pass | 3 calls out of 7 payloads and 2 direct ones, 2 sessions, a second of 2 ms | 326 255 |
| `metadata_lost` | violation | 1 call | |
| `framing` | pass | 4 replies, fragments of 2 bytes, blocks of 4, every cut | 35 161 |

What each run shows is in its section above and, in a sentence, in `PROJECT.json`.

Why the bounds are enough. Two retries give a first, a later and an exhausted
attempt, and three mishaps allow any three misfortunes in a row, for example two
failed connections and a bad reply on the third; every handler is reached in
combination with a loss before and one after it. Two commands allow one to meet the
other's reply, the reconnection or the heartbeat, whose ticks are not bounded at
all. Every kind of reply is possible in every state. In the buffer, chunks shorter than
a packet, equal, longer and longer than half the buffer meet odd and even positions;
ten bytes fill the six-byte buffer and drain it again. `MaxIdle` only stops
`currentSize` from falling for ever after the end. In `Sender`, three sessions allow
a restart whose handler starts another one, two streams a replacement, and two
flushes more than one relay left behind; a third session is also the one made inside the
handlers of a restart. In `AudioOut`, 15 frames are seven packets and more:
both numbers wrap at widths without a common factor, bursts hold two packets and more,
and one clock step forwards or backwards may meet each of them, as may the first, a second
and a third listener; the starts are none, one past and one ahead. In `Metadata`, three calls allow a second one to meet the fetch or the
timer of the first and a third one to tell what became of the keys; a second of 2 ms puts
times on both sides of both thresholds. In `Framing`, every partition of the stream is
tried, so only the kinds of bodies matter: one fragment, two, none, one with a line break.

`CHECK_DEADLOCK FALSE` in all runs: an ended client really stops, and so does the
model of the buffer when all bytes are written and the end is long past, the
sender when its starts are used up or the process has ended, the packet clock at the
end of time (`MaxNow`), metadata when sessions and calls are used up, and a
conversation when its last reply is read.

Fairness. `RtspClient` assumes weak fairness of `RetryFires` and `TimeoutFires`: the
event loop runs a timer that is due. The heartbeat needs none. Nothing is assumed
of the receiver, the network or the user. `CircularBuffer` assumes weak fairness of
`ReadPacket`: `AudioOut` re-arms its timer in every branch (`audioOut.ts:69-87`).
`Metadata` assumes it of `FetchAborts`, the 4 s
AbortController (`index.ts:305`), and of `Resume`, a microtask. `Sender`, `AudioOut` and
`Framing` state safety only and assume none.

Every property of a passing run has a mutant in `PROJECT.json`: an operator in the
module that changes one definition the way a slip in the code would, with which TLC
finds the property violated.

## Theorems

Every safety property of every passing run, invariant, action property and refinement, is
proved for all values of the constants that the named ASSUMEs of its module allow. In
each module one inductive invariant carries the theorems; where the property is not
inductive, the parts that make it so are named here. Each was checked by TLC on the
run's instance before it was proved.

**`RtspClientProofs`**, for all configurations, mishap sets and bounds. `Whole` is
`TypeOK` with

* `Ordered`: `Lockstep` and `TimerTracksRequest` with `Links` (a pending back-off has no
  socket, a closed client no open one) and `Calm` (without an open socket the wire is
  empty; whoever owes an answer to a prompt has an open socket, an empty wire and is not
  PLAYING, both while no stray call was made): `RepliesMatchRequests`,
  `RequestsAreTimed`;
* `Told`, what the device has been told by each status, because a step only looks one
  status back: `SessionImplemented`, every step being one of `Session` or a stutter;
* `Course`, how far a handshake has come: which statuses each protocol can reach, when
  there are credentials, what was announced once RECORD was answered:
  `PlayingAnnounced`, `ReadyOnlyAfterFlush`, `ClosedStaysInert`;
* `Smooth`, which says of a client without mishaps that it is on its only connection and
  has the credentials its status needs, also after a stray passcode: `CrashesAreMishaps`;
* `Keyed`: once the receiver has keys, the client either has them and is past the pairing
  for good (`Ahead`), or could not read the reply that told it and says no more
  (`Behind`): `SealedSinceSecured`.

**`SenderProofs`**, for any number of starts, flushes and streams. Most of the
invariant speaks of one device record (`Sound`: the relays are counted, a flush is
pending only while streaming and below its bound, sockets bind only before the
handshake) and is kept by each operator on records, in a lemma of its own;
`StopLeaves` says what stop() with a handler inside leaves, once for the four
actions that use it, and `ConnectsKeeps` what the rest of start() does; `StreamInv` adds
that every attached stream but `source` was replaced or was piped inside stop().

**`CircularBufferProofs`**, for all sizes of packet, buffer and chunks. `Holds` says that
the queue holds the last `Bytes` of the bytes written, in order: the k-th byte of the j-th
chunk is the k-th after the chunks before it (`Content`). Joined to `SizeIsExact` it gives
`SizeExact`, `EndLast` and the refinement `PlayoutImplemented`; the lemmas say what a
write, a read that ends inside a chunk and one at its end do to `Offsets`.
`DrainKept` assumes room for two packets, and needs it: with one, the read after DRAINING
may find less than a packet, plays silence and goes to FILLING without 'drain'. Its
invariant adds that a buffer is DRAINING only while at least half full.

**`AudioOutProofs`**, for all moduli, packet sizes, periods, delays, start times and
latencies. `ReferenceIsHeld` rests on `Aligned`: nothing is aligned before the first
configuration, and afterwards a stream with a start time is aligned unless that
configuration named no latency. The others rest on `Clocked`: `Paced` (the next packet
falls due no earlier than the timer, the last one has fallen due), `Continues` (who
relays has a listener, what was relayed last is `lastSeq`, and a flush not yet followed
by a packet named the one after it) and `SyncsPlaced` (a sync on its way names a packet that is due and late by less than
a burst). `Turns` and `NextTurn` count whose turn it is in a burst of several listeners.
`ReceiverClockSteady` is then arithmetic of differences modulo `TimeWrap`.

**`MetadataProofs`**, for any payloads, any digest and any bounds. The parts of `Whole`:
`Typed`; `Flight`, which ties `coverFetch` to the one fetch and the calls waiting for it
(`OneFetch`); `Owned`, that what is shown or queued is the session's own
(`NothingOfEarlierSessions`); `Backed`, that a key stands for what is shown
(`NothingHeldBack`); `Exact` (`ProgressExact`); and `Fresh`, where the values of the one
unhurried call are that have not arrived yet (`LatestIsShown`).

**`FramingProofs`**, for all conversations, cuts and sizes of blocks and fragments.
`RoundTrip`: decoding what was encoded gives, for each type, the values of its items one
after the other; by induction over the items, over their fragments and over the
positions decoding visits. The invariant says of what was kept and what is in flight that
between replies it is left over from the last body (`Between`), and during one also that
reply, in order (`During`), until decryption gets out of step (`Stream`); that replies
come whole until one is cut (`Uncut`); and that nobody is ahead of its turn (`Turns`).
`EveryHeadFound`, `ItemsRead` and `WaitingIsTimed` follow, `ItemsRead` with `RoundTrip`.

**`DeviceOptionsProofs`**: of all records, the client gets options its model is
made for (`OptionsFitClient`: `RtspClient`'s theorems apply to every client the device
makes), and PCM input goes out in the announced format (`PcmGoesOutAsAnnounced`).

**`Induction`**. The library's induction theorems take an operator as a parameter, which
the installed provers cannot instantiate. `SetInduction` says the same of a set: what
holds of all n is proved by defining the set of the n it holds of. `LeastNat` is derived
from the library's facts about well-founded relations, `SetInduction` from it, and
`RecursionExists` says that a function defined by recursion exists, without which nothing
could be said of its values (`Offsets`, `Decode`, the folds). The models
write recursion as recursive functions or folds for that reason.

What stays with TLC: the three liveness properties (`AlwaysSettles`,
`PatientWriterResumes`, `CallsReturn`), since the provers handle neither ENABLED nor
fairness, and the violation runs, which are counterexamples.

What the assumptions ask, beyond ranges of numbers: option records are ones the device
constructor makes (`ConfigsAssumption`; `OptionsFitClient` proves that it does),
chunks are not empty, and no payload equals the value that stands for "none"
(`NoneAssumption`). A byte of a body is any natural (`BodiesAssumption`): a length byte
says at most `MaxFragment`, 255 in the code, so it fits by itself.

## Not modelled

`utils/http.ts` and `core/atv.ts` (with `ap2_test.ts`) are not reached from the package's
entry points. `utils/packetPool.ts` counts references to packets that nobody keeps beyond
the event that hands them out. `core/srp.ts`, `core/atvAuthenticator.ts` and the ciphers
of `homekit/encryption.ts` are arithmetic on big numbers: whether a round succeeds is a
choice of the receiver in `RtspClient`. The byte layout of ALAC frames and of encrypted
audio packets holds no state. `homekit/number.ts` is imported and never called. Logging,
configuration constants and type declarations have no behaviour of their own; the
constants that matter are CONSTANTs of the modules. Of the device, the audio socket and
its statistics are left out; of the registry, the fan-out to 'all' and CoreAudio, which
the package never uses.

## Plan

1. The composition of `Sender` and `RtspClient`: `Sender`'s three stages are those of
   `Session`, which `RtspClient` is proved to implement; not yet stated is that one device
   record of `Sender` implements `Session` as well.
2. `DeviceOptions`: what the client does with the options joined to the audio format,
   so that "announced" in `PcmGoesOutAsAnnounced` is the request `RtspClient` writes.
3. Shorter proofs: the longest are those of the shared handlers in `RtspClientProofs`
   and of the pieces of a stream in `FramingProofs`.
