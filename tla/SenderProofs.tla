---------------------------- MODULE SenderProofs ----------------------------
(***************************************************************************)
(* Theorems about Sender, for every number of starts, flushes and streams. *)
(*                                                                         *)
(* Most of the invariant is a property of one device record (Sound), which *)
(* each operator on records preserves; the lemmas say so once, and a step  *)
(* is then a matter of which records it changes.                           *)
(***************************************************************************)
EXTENDS Sender, TLAPS

Counted(d) ==
    d.relays = d.flushed + (IF d.client = "streaming" THEN 1 ELSE 0)
                         + (IF d.cutShort THEN 1 ELSE 0)

Complete(d) ==
    LET over == d.client = "ended" IN
    /\ over <=> ~d.hasAirTunes
    /\ over <=> d.udp = "unbound"
    /\ d.endings = IF over THEN 1 ELSE 0

\* Where a device may be in its life, whatever the process does.
Sound(d) ==
    /\ d \in Device
    /\ d.udp = "binding" => d.client = "none"
    /\ d.flushing => d.client = "streaming" /\ d.flushed < MaxFlushes
    /\ d.client \in {"none", "opening"} => d.flushed = 0
    /\ d.client # "ended" => ~d.cutShort
    /\ Counted(d)

DeviceInv == \A s \in Sessions : Sound(devices[s])

\* Only sessions that were made are registered, and the current one is made.
MadeInv ==
    /\ current <= starts
    /\ \A s \in Sessions : s > starts => devices[s] = Unused

CompleteInv == ~exited => \A s \in 1..starts : Complete(devices[s])

\* With the session cur: the stream stop() knows was piped into it, or inside
\* a stop(), and every other one that is attached was replaced or piped so.
StreamsOK(cur, src, att, into, inside) ==
    /\ src \in Streams \cup {NoStream}
    /\ att \subseteq Streams
    /\ into \in [Streams -> 0..MaxStarts]
    /\ inside \subseteq Streams
    /\ src # NoStream => src \in inside \/ (cur # 0 /\ into[src] = cur)
    /\ \A i \in att :
        /\ into[i] # 0
        /\ \/ i = src
           \/ i \in inside
           \/ \E j \in Streams \ {i} : into[j] = into[i]

StreamInv == StreamsOK(current, source, attached, piped, missed)

Frame ==
    /\ TypeOK
    /\ DeviceInv
    /\ MadeInv

IInv ==
    /\ Frame
    /\ CompleteInv
    /\ RegisteredIsReachable
    /\ StreamInv

-----------------------------------------------------------------------------
(* One device.                                                             *)

LEMMA UnusedSound == Sound(Unused)
  BY BoundsAssumption DEF Sound, Counted, Unused, Device

\* What the types say of the fields the counting needs.
LEMMA Fields ==
  ASSUME NEW d, d \in Device
  PROVE  /\ d.client \in {"none", "opening", "streaming", "ended"}
         /\ d.udp \in {"unbound", "binding", "bound"}
         /\ d.flushed \in Nat
         /\ d.flushed <= MaxFlushes
         /\ d.relays \in Nat
         /\ d.endings \in Nat
         /\ d.cutShort \in BOOLEAN
         /\ d.flushing \in BOOLEAN
         /\ d.hasAirTunes \in BOOLEAN
  BY BoundsAssumption DEF Device

\* One field at a time, an update keeps the type.
LEMMA Updates ==
  ASSUME NEW d, d \in Device
  PROVE  /\ \A v \in BOOLEAN : [d EXCEPT !.listed = v] \in Device
         /\ \A v \in BOOLEAN : [d EXCEPT !.hasAirTunes = v] \in Device
         /\ \A v \in BOOLEAN : [d EXCEPT !.flushing = v] \in Device
         /\ \A v \in BOOLEAN : [d EXCEPT !.nested = v] \in Device
         /\ \A v \in BOOLEAN : [d EXCEPT !.cutShort = v] \in Device
         /\ \A v \in {"unbound", "binding", "bound"} :
                [d EXCEPT !.udp = v] \in Device
         /\ \A v \in {"none", "opening", "streaming", "ended"} :
                [d EXCEPT !.client = v] \in Device
         /\ \A v \in 0..MaxFlushes : [d EXCEPT !.flushed = v] \in Device
         /\ \A v \in Nat : [d EXCEPT !.relays = v] \in Device
         /\ \A v \in Nat : [d EXCEPT !.endings = v] \in Device
  <1>1. \A v \in BOOLEAN : [d EXCEPT !.listed = v] \in Device
    BY DEF Device
  <1>2. \A v \in BOOLEAN : [d EXCEPT !.hasAirTunes = v] \in Device
    BY DEF Device
  <1>3. \A v \in BOOLEAN : [d EXCEPT !.flushing = v] \in Device
    BY DEF Device
  <1>4. \A v \in BOOLEAN : [d EXCEPT !.nested = v] \in Device
    BY DEF Device
  <1>5. \A v \in BOOLEAN : [d EXCEPT !.cutShort = v] \in Device
    BY DEF Device
  <1>6. \A v \in {"unbound", "binding", "bound"} :
            [d EXCEPT !.udp = v] \in Device
    BY DEF Device
  <1>7. \A v \in {"none", "opening", "streaming", "ended"} :
            [d EXCEPT !.client = v] \in Device
    BY DEF Device
  <1>8. \A v \in 0..MaxFlushes : [d EXCEPT !.flushed = v] \in Device
    BY DEF Device
  <1>9. \A v \in Nat : [d EXCEPT !.relays = v] \in Device
    BY DEF Device
  <1>10. \A v \in Nat : [d EXCEPT !.endings = v] \in Device
    BY DEF Device
  <1> QED
    BY <1>1, <1>2, <1>3, <1>4, <1>5, <1>6, <1>7, <1>8, <1>9, <1>10

LEMMA AddedSound ==
  ASSUME NEW nested \in BOOLEAN
  PROVE  /\ Sound(Added(nested))
         /\ Complete(Added(nested))
         /\ Added(nested).listed
         /\ Added(nested).nested = nested
         /\ Added(nested).client = "none"
  <1> DEFINE e == Added(nested)
  <1>1. /\ e \in Device
        /\ e.listed = TRUE /\ e.hasAirTunes = TRUE /\ e.udp = "binding"
        /\ e.client = "none" /\ e.flushing = FALSE /\ e.flushed = 0
        /\ e.relays = 0 /\ e.endings = 0 /\ e.nested = nested
        /\ e.cutShort = FALSE
    <2>1. Unused \in Device
      BY UnusedSound DEF Sound
    <2> DEFINE e1 == [Unused EXCEPT !.listed = TRUE]
               e2 == [e1 EXCEPT !.hasAirTunes = TRUE]
               e3 == [e2 EXCEPT !.udp = "binding"]
    <2>2. e1 \in Device
      BY <2>1, Updates
    <2>3. e2 \in Device
      BY <2>2, Updates
    <2>4. e3 \in Device
      BY <2>3, Updates
    <2>5. [e3 EXCEPT !.nested = nested] \in Device
      BY <2>4, Updates
    <2>6. e = [e3 EXCEPT !.nested = nested]
      BY DEF Added
    <2> QED
      BY <2>5, <2>6 DEF Added, Unused
  <1> HIDE DEF e
  <1>2. Sound(e) /\ Complete(e)
    BY <1>1 DEF Sound, Counted, Complete
  <1> QED
    BY <1>1, <1>2 DEF e

LEMMA EndedSound ==
  ASSUME NEW d, Sound(d), Hears(d)
  PROVE  /\ Sound(Ended(d))
         /\ Complete(d) => Complete(Ended(d))
         /\ Ended(d).client = "ended"
         /\ ~Ended(d).listed
         /\ Ended(d).nested = d.nested
  <1> DEFINE e == Ended(d)
  <1>1. d \in Device /\ RemoveRelay(d) \in Nat
    BY Fields DEF Sound, RemoveRelay
  <1>2. /\ e \in Device
        /\ e.listed = FALSE /\ e.hasAirTunes = FALSE /\ e.udp = "unbound"
        /\ e.client = "ended" /\ e.flushing = FALSE /\ e.flushed = d.flushed
        /\ e.relays = RemoveRelay(d) /\ e.endings = d.endings + 1
        /\ e.nested = d.nested /\ e.cutShort = d.cutShort
    <2> DEFINE e1 == [d EXCEPT !.listed = FALSE]
               e2 == [e1 EXCEPT !.hasAirTunes = FALSE]
               e3 == [e2 EXCEPT !.udp = "unbound"]
               e4 == [e3 EXCEPT !.client = "ended"]
               e5 == [e4 EXCEPT !.flushing = FALSE]
               e6 == [e5 EXCEPT !.relays = RemoveRelay(d)]
               e7 == [e6 EXCEPT !.endings = d.endings + 1]
    <2>1. e1 \in Device
      BY <1>1, Updates
    <2>2. e2 \in Device
      BY <2>1, Updates
    <2>3. e3 \in Device
      BY <2>2, Updates
    <2>4. e4 \in Device
      BY <2>3, Updates
    <2>5. e5 \in Device
      BY <2>4, Updates
    <2>6. e6 \in Device
      BY <1>1, <2>5, Updates
    <2>7. d.endings + 1 \in Nat
      BY <1>1, Fields
    <2>8. e7 \in Device
      BY <2>6, <2>7, Updates
    <2>9. e = e7
      BY <1>1 DEF Ended, Device
    <2>10. e \in Device
      BY <2>8, <2>9
    <2> QED
      BY <1>1, <2>10 DEF Ended, Device
  <1> HIDE DEF e
  <1>3. Sound(e)
    BY <1>1, <1>2, Fields DEF Sound, Counted, RemoveRelay, Hears
  <1>4. Complete(d) => Complete(e)
    BY <1>2 DEF Complete, Hears
  <1> QED
    BY <1>2, <1>3, <1>4 DEF e

LEMMA StopSound ==
  ASSUME NEW d, Sound(d)
  PROVE  /\ Sound(StopDevice(d))
         /\ Complete(d) => Complete(StopDevice(d))
         /\ ~StopDevice(d).listed
         /\ StopDevice(d).nested = d.nested
         /\ StopDevice(d).client \in {"none", "ended"}
  <1>1. CASE Hears(d)
    BY <1>1, EndedSound DEF StopDevice
  <1>2. CASE ~Hears(d)
    BY <1>2 DEF StopDevice, Sound, Counted, Complete, Device, Hears
  <1> QED BY <1>1, <1>2

LEMMA RelayedSound ==
  ASSUME NEW d, Sound(d), IsReady(d)
  PROVE  /\ Sound(Relayed(d))
         /\ Complete(d) => Complete(Relayed(d))
         /\ Relayed(d).listed = d.listed
         /\ Relayed(d).nested = d.nested
  <1> DEFINE e == Relayed(d)
             n == IF d.client = "streaming" THEN d.flushed + 1 ELSE d.flushed
  <1>1. d \in Device /\ n \in 0..MaxFlushes
    BY Fields, BoundsAssumption DEF Sound, IsReady
  <1>2. /\ e \in Device
        /\ e.listed = d.listed /\ e.hasAirTunes = d.hasAirTunes
        /\ e.udp = d.udp /\ e.client = "streaming" /\ e.flushing = FALSE
        /\ e.flushed = n /\ e.relays = d.relays + 1
        /\ e.endings = d.endings /\ e.nested = d.nested
        /\ e.cutShort = d.cutShort
    <2> HIDE DEF n
    <2> DEFINE e1 == [d EXCEPT !.client = "streaming"]
               e2 == [e1 EXCEPT !.relays = d.relays + 1]
               e3 == [e2 EXCEPT !.flushing = FALSE]
               e4 == [e3 EXCEPT !.flushed = n]
    <2>1. e1 \in Device
      BY <1>1, Updates
    <2> DEFINE k == d.relays + 1
    <2>2. k \in Nat
      BY <1>1, Fields
    <2> HIDE DEF k
    <2>3. [e1 EXCEPT !.relays = k] \in Device
      BY <2>1, <2>2, Updates
    <2>4. e2 \in Device
      BY <2>3 DEF k
    <2>5. e3 \in Device
      BY <2>4, Updates
    <2>6. e4 \in Device
      BY <1>1, <2>5, Updates
    <2>7. e = e4
      BY <1>1 DEF Relayed, Device, n
    <2>8. e \in Device
      BY <2>6, <2>7
    <2> QED
      BY <1>1, <2>7, <2>8 DEF Device
  <1> HIDE DEF e
  <1>3. Sound(e)
    BY <1>1, <1>2, Fields DEF Sound, Counted, IsReady
  <1>4. Complete(d) => Complete(e)
    BY <1>2 DEF Complete, IsReady, Sound
  <1> QED
    BY <1>2, <1>3, <1>4 DEF e

\* A stop inside 'playing': the end, then one more relay.
LEMMA CutShortSound ==
  ASSUME NEW d, Sound(d), IsReady(d),
         NEW e, e = [Ended(d) EXCEPT !.relays = @ + 1, !.cutShort = TRUE]
  PROVE  /\ Sound(e)
         /\ Complete(d) => Complete(e)
         /\ ~e.listed
         /\ e.client = "ended"
  <1> DEFINE f == Ended(d)
  <1>1. Hears(d) /\ ~d.cutShort
    BY DEF Sound, IsReady, Hears
  <1>2. Sound(f) /\ f.client = "ended" /\ ~f.listed /\ f.cutShort = d.cutShort
    BY <1>1, EndedSound DEF Ended, Sound, Device
  <1>3. Complete(d) => Complete(f)
    BY <1>1, EndedSound
  <1> HIDE DEF f
  <1>4. f \in Device
    BY <1>2 DEF Sound
  <1>5. /\ e \in Device
        /\ e.listed = f.listed /\ e.hasAirTunes = f.hasAirTunes
        /\ e.udp = f.udp /\ e.client = f.client /\ e.flushing = f.flushing
        /\ e.flushed = f.flushed /\ e.relays = f.relays + 1
        /\ e.endings = f.endings /\ e.nested = f.nested
        /\ e.cutShort = TRUE
    <2>1. f.relays + 1 \in Nat
      BY <1>4, Fields
    <2> DEFINE e1 == [f EXCEPT !.relays = f.relays + 1]
    <2>2. e1 \in Device
      BY <1>4, <2>1, Updates
    <2>3. [e1 EXCEPT !.cutShort = TRUE] \in Device
      BY <2>2, Updates
    <2>4. e = [e1 EXCEPT !.cutShort = TRUE]
      BY DEF f
    <2> QED
      BY <1>4, <2>3, <2>4 DEF Device
  <1>6. Sound(e)
    BY <1>1, <1>2, <1>4, <1>5, Fields DEF Sound, Counted
  <1>7. Complete(f) => Complete(e)
    BY <1>5 DEF Complete
  <1> QED
    BY <1>2, <1>3, <1>5, <1>6, <1>7

-----------------------------------------------------------------------------
(* stop(): all devices stay sound and complete, the current one is dropped,*)
(* and a session made meanwhile is the next one.                           *)

\* What AfterStop leaves, in one place for the four actions that use it.
Left(ds, n) ==
    /\ ds \in [Sessions -> Device]
    /\ starts <= n /\ n <= starts + 1 /\ n \in 0..MaxStarts
    /\ \A s \in Sessions :
        /\ Sound(ds[s])
        /\ s > n => ds[s] = Unused
        /\ ds[s].listed => ds[s].nested
        /\ ~exited /\ s <= n => Complete(ds[s])

LEMMA StopLeaves ==
  ASSUME IInv, ~exited, NEW r \in Reactions, NEW p, Reacts(r, p)
  PROVE  Left(AfterStop(r), StartsAfter(r))
  <1>1. /\ Dropped \in [Sessions -> Device]
        /\ \A s \in Sessions :
            /\ Sound(Dropped[s])
            /\ s > starts => Dropped[s] = Unused
            /\ Dropped[s].listed => Dropped[s].nested
            /\ s <= starts => Complete(Dropped[s])
    <2>1. CASE current = 0
      <3>1. Dropped = devices
        BY <2>1 DEF Dropped
      <3>2. \A s \in Sessions : s # current
        BY <2>1 DEF Sessions
      <3> QED
        BY <3>1, <3>2
        DEF IInv, Frame, TypeOK, DeviceInv, MadeInv, CompleteInv,
            RegisteredIsReachable, Sessions
    <2>2. CASE current # 0
      <3> DEFINE d == devices[current]
      <3>1. current \in Sessions /\ current <= starts
        BY <2>2, BoundsAssumption DEF IInv, Frame, TypeOK, MadeInv, Sessions
      <3>2. Dropped = [devices EXCEPT ![current] = StopDevice(d)]
        BY <2>2 DEF Dropped
      <3>3. Sound(d) /\ Complete(d)
        BY <3>1 DEF IInv, Frame, DeviceInv, CompleteInv, Sessions
      <3>4. /\ Sound(StopDevice(d))
            /\ Complete(StopDevice(d))
            /\ ~StopDevice(d).listed
        BY <3>3, StopSound
      <3>5. StopDevice(d) \in Device
        BY <3>4 DEF Sound
      <3> HIDE DEF d
      <3>6. Dropped \in [Sessions -> Device]
        BY <3>2, <3>5 DEF IInv, Frame, TypeOK
      <3>7. Dropped[current] = StopDevice(d)
        BY <3>1, <3>2 DEF IInv, Frame, TypeOK
      <3>8. \A s \in Sessions : s # current => Dropped[s] = devices[s]
        BY <3>2 DEF IInv, Frame, TypeOK
      <3>9. \A s \in Sessions : s # current =>
              /\ Sound(devices[s])
              /\ s > starts => devices[s] = Unused
              /\ devices[s].listed => devices[s].nested
              /\ s <= starts => Complete(devices[s])
        BY DEF IInv, Frame, DeviceInv, MadeInv, CompleteInv, Sessions,
               RegisteredIsReachable
      <3>10. ~(current > starts)
        BY <3>1 DEF IInv, Frame, TypeOK, Sessions
      <3> QED
        BY <3>4, <3>6, <3>7, <3>8, <3>9, <3>10
    <2> QED
      BY <2>1, <2>2
  <1>2. CASE r # "start"
    BY <1>1, <1>2
    DEF AfterStop, StartsAfter, Left, IInv, Frame, TypeOK
  <1>3. CASE r = "start"
    <2> DEFINE m == starts + 1
    <2>1. m \in Sessions /\ m \in 0..MaxStarts /\ starts \in 0..MaxStarts
      BY <1>3, BoundsAssumption
      DEF Reacts, IInv, Frame, TypeOK, Sessions
    <2>2. AfterStop(r) = [Dropped EXCEPT ![m] = Added(TRUE)]
      BY <1>3 DEF AfterStop
    <2>3. StartsAfter(r) = m
      BY <1>3 DEF StartsAfter
    <2>4. /\ Sound(Added(TRUE)) /\ Complete(Added(TRUE))
          /\ Added(TRUE).nested
      BY AddedSound
    <2>5. Added(TRUE) \in Device
      BY <2>4 DEF Sound
    <2>6. AfterStop(r) \in [Sessions -> Device]
      BY <1>1, <2>2, <2>5
    <2>7. AfterStop(r)[m] = Added(TRUE)
      BY <1>1, <2>1, <2>2
    <2>8. \A s \in Sessions : s # m => AfterStop(r)[s] = Dropped[s]
      BY <1>1, <2>2
    <2>9. \A s \in Sessions : s > m => s > starts /\ s # m
      BY <2>1 DEF Sessions
    <2>10. \A s \in Sessions : s <= m /\ s # m => s <= starts
      BY <2>1 DEF Sessions
    <2>11. ~(m > m) /\ starts <= m /\ m <= starts + 1
      BY <2>1
    <2> HIDE DEF m
    <2>12. \A s \in Sessions :
            /\ Sound(AfterStop(r)[s])
            /\ s > m => AfterStop(r)[s] = Unused
            /\ AfterStop(r)[s].listed => AfterStop(r)[s].nested
            /\ ~exited /\ s <= m => Complete(AfterStop(r)[s])
      BY <1>1, <2>4, <2>7, <2>8, <2>9, <2>10, <2>11
    <2> QED
      BY <2>1, <2>3, <2>6, <2>11, <2>12 DEF Left
  <1> QED
    BY <1>2, <1>3

\* Whatever the handler does, stop() leaves only streams that were replaced
\* or that the handler piped; so it does for the session that comes next.
LEMMA StopStreams ==
  ASSUME IInv, NEW r \in Reactions, NEW p \in NewStreams, NEW over,
         Reacts(r, p), PipedInside(r, p)
  PROVE  StreamsOK(0, p, Feeding(p, over), piped', missed')
  <1>1. /\ attached \subseteq Streams /\ missed \subseteq Streams
        /\ piped \in [Streams -> 0..MaxStarts]
        /\ p \in Streams \cup {NoStream}
    BY DEF IInv, Frame, TypeOK, NewStreams
  <1>2. \A i \in attached \ {source} :
            /\ piped[i] # 0
            /\ i \in missed \/ \E j \in Streams \ {i} : piped[j] = piped[i]
    BY DEF IInv, StreamInv, StreamsOK
  <1>3. Feeding(p, over) \subseteq (attached \ {source}) \cup ({p} \ {NoStream})
    BY DEF Feeding
  <1>4. CASE p = NoStream
    <2>1. piped' = piped /\ missed' = missed
      BY <1>4 DEF PipedInside
    <2>2. Feeding(p, over) \subseteq attached \ {source}
      BY <1>3, <1>4
    <2> QED
      BY <1>1, <1>2, <1>4, <2>1, <2>2 DEF StreamsOK
  <1>5. CASE p # NoStream
    <2> DEFINE v == IF r = "start" THEN starts + 1 ELSE current
    <2>1. v \in 0..MaxStarts /\ v # 0
      BY <1>5, BoundsAssumption DEF Reacts, IInv, Frame, TypeOK
    <2>2. p \in Streams /\ piped[p] = 0
      BY <1>5 DEF NewStreams
    <2>3. piped' = [piped EXCEPT ![p] = v] /\ missed' = missed \cup {p}
      BY <1>5 DEF PipedInside
    <2> HIDE DEF v
    <2>4. /\ piped' \in [Streams -> 0..MaxStarts]
          /\ piped'[p] = v
          /\ \A i \in Streams : i # p => piped'[i] = piped[i]
      BY <1>1, <2>1, <2>2, <2>3
    <2>5. ASSUME NEW i \in Feeding(p, over)
          PROVE  /\ i \in Streams
                 /\ piped'[i] # 0
                 /\ \/ i = p
                    \/ i \in missed'
                    \/ \E j \in Streams \ {i} : piped'[j] = piped'[i]
      <3>1. CASE i = p
        BY <2>1, <2>2, <2>4, <3>1
      <3>2. CASE i # p
        <4>1. i \in attached \ {source} /\ i \in Streams
          BY <1>1, <1>3, <2>5, <3>2
        <4>2. piped'[i] = piped[i] /\ piped[i] # 0
          BY <1>2, <2>4, <3>2, <4>1
        <4>3. CASE i \in missed
          BY <2>3, <4>1, <4>2, <4>3
        <4>4. CASE i \notin missed
          <5>1. PICK j \in Streams \ {i} : piped[j] = piped[i]
            BY <1>2, <4>1, <4>4
          <5>2. piped'[j] = piped[j]
            BY <2>2, <2>4, <4>2, <5>1
          <5> QED
            BY <4>1, <4>2, <5>1, <5>2
        <4> QED
          BY <4>3, <4>4
      <3> QED
        BY <3>1, <3>2
    <2>6. Feeding(p, over) \subseteq Streams
      BY <2>5
    <2>7. missed' \subseteq Streams /\ p \in missed'
      BY <1>1, <2>2, <2>3
    <2> QED
      BY <1>1, <2>4, <2>5, <2>6, <2>7 DEF StreamsOK
  <1> QED
    BY <1>4, <1>5

\* What holds without a session holds with any, and when `source` is destroyed.
LEMMA StreamsCarry ==
  ASSUME NEW src, NEW att, NEW into, NEW inside, NEW cur,
         StreamsOK(0, src, att, into, inside)
  PROVE  /\ StreamsOK(cur, src, att, into, inside)
         /\ StreamsOK(cur, NoStream, att \ {src}, into, inside)
  BY DEF StreamsOK

\* The common end of stop() and of the end of a stream.
LEMMA StoppedKeeps ==
  ASSUME IInv, ~exited, NEW r \in Reactions, NEW p \in NewStreams, NEW over,
         Stopped(r, p, over), exited' \in BOOLEAN
  PROVE  IInv'
  <1>1. /\ Reacts(r, p) /\ PipedInside(r, p)
        /\ source' = p /\ attached' = Feeding(p, over)
        /\ thrown' = (thrown \/ r = "stop")
    BY DEF Stopped, StopCall
  <1>2. Left(devices', starts')
    BY <1>1, StopLeaves DEF Stopped
  <1>3. current' = 0
    BY DEF Stopped
  <1>4. StreamInv'
    BY <1>1, <1>3, StopStreams DEF StreamInv
  <1>5. TypeOK'
    <2>1. 0 \in 0..MaxStarts
      BY BoundsAssumption
    <2> QED
      BY <1>1, <1>2, <1>3, <1>4, <2>1 DEF Left, TypeOK, StreamInv, StreamsOK
  <1>6. DeviceInv'
    BY <1>2 DEF Left, DeviceInv
  <1>7. MadeInv'
    BY <1>2, <1>3 DEF Left, MadeInv
  <1>8. CompleteInv'
    <2>1. \A s \in 1..starts' : s \in Sessions /\ s <= starts'
      BY <1>2, BoundsAssumption DEF Left, Sessions
    <2> QED
      BY <1>2, <2>1 DEF Left, CompleteInv
  <1>9. RegisteredIsReachable'
    BY <1>2 DEF Left, RegisteredIsReachable
  <1> QED
    BY <1>4, <1>5, <1>6, <1>7, <1>8, <1>9 DEF IInv, Frame

\* A step that changes the record of one session only.
LEMMA OneDeviceKeeps ==
  ASSUME IInv, ~exited, NEW s \in Sessions, NEW d,
         devices' = [devices EXCEPT ![s] = d],
         Sound(d), s <= starts,
         exited' \in BOOLEAN, ~exited' => Complete(d),
         d.listed => devices[s].listed, d.nested = devices[s].nested,
         UNCHANGED <<current, starts, streamVars, thrown>>
  PROVE  IInv'
  <1>1. d \in Device
    BY DEF Sound
  <1>2. devices' \in [Sessions -> Device] /\ devices'[s] = d
    BY <1>1 DEF IInv, Frame, TypeOK
  <1>3. \A t \in Sessions : t # s => devices'[t] = devices[t]
    BY DEF IInv, Frame, TypeOK
  <1>4. TypeOK'
    BY <1>2 DEF IInv, Frame, TypeOK, streamVars
  <1>5. DeviceInv'
    BY <1>2, <1>3 DEF IInv, Frame, DeviceInv
  <1>6. MadeInv'
    <2>1. ~(s > starts)
      BY DEF IInv, Frame, TypeOK, Sessions
    <2> QED
      BY <1>3, <2>1 DEF IInv, Frame, MadeInv
  <1>7. CompleteInv'
    <2>1. \A t \in 1..starts : t \in Sessions
      BY BoundsAssumption DEF IInv, Frame, TypeOK, Sessions
    <2> QED
      BY <1>2, <1>3, <2>1 DEF IInv, CompleteInv
  <1>8. RegisteredIsReachable'
    BY <1>2, <1>3 DEF IInv, RegisteredIsReachable
  <1>9. StreamInv'
    BY DEF IInv, StreamInv, streamVars
  <1> QED
    BY <1>4, <1>5, <1>6, <1>7, <1>8, <1>9 DEF IInv, Frame

\* Only a session that was made binds sockets or shakes hands.
LEMMA ActiveIsMade ==
  ASSUME IInv, NEW s \in Sessions,
         devices[s].udp # "unbound" \/ devices[s].client # "none"
                                    \/ devices[s].flushing
  PROVE  s <= starts
  <1>1. devices[s] # Unused
    BY DEF Unused
  <1> QED
    BY <1>1, BoundsAssumption DEF IInv, Frame, TypeOK, MadeInv, Sessions

LEMMA MadeFacts ==
  ASSUME IInv, ~exited, NEW s \in Sessions
  PROVE  /\ Sound(devices[s])
         /\ devices[s] \in Device
         /\ s <= starts => Complete(devices[s])
  BY DEF IInv, Frame, DeviceInv, CompleteInv, Sound, Sessions

LEMMA InitIInv == Init => IInv
  <1> SUFFICES ASSUME Init PROVE IInv
    OBVIOUS
  <1>1. \A s \in Sessions : devices[s] = Unused
    BY DEF Init
  <1>2. Unused \in Device
    BY UnusedSound DEF Sound
  <1>3. TypeOK
    <2>1. 0 \in 0..MaxStarts
      BY BoundsAssumption
    <2>2. devices \in [Sessions -> Device]
      BY <1>2 DEF Init
    <2>3. piped \in [Streams -> 0..MaxStarts]
      BY <2>1 DEF Init
    <2> QED
      BY <2>1, <2>2, <2>3 DEF Init, TypeOK
  <1>4. DeviceInv
    BY <1>1, UnusedSound DEF DeviceInv
  <1>5. MadeInv
    BY <1>1 DEF Init, MadeInv
  <1>6. CompleteInv
    <2>1. 1..0 = {}
      OBVIOUS
    <2> QED
      BY <2>1 DEF Init, CompleteInv
  <1>7. RegisteredIsReachable
    <2>1. ~Unused.listed
      BY DEF Unused
    <2> QED
      BY <1>1, <2>1 DEF RegisteredIsReachable
  <1>8. StreamInv
    BY <1>3 DEF Init, StreamInv, StreamsOK, TypeOK
  <1> QED
    BY <1>3, <1>4, <1>5, <1>6, <1>7, <1>8 DEF IInv, Frame

\* Both sessions of a start() inside 'connecting', or the only one.
LEMMA ConnectsKeeps ==
  ASSUME IInv, ~exited, NEW n, NEW ds, Left(ds, n), NEW src, NEW att,
         NEW c \in Reactions, Connects(ds, n, src, att, c),
         StreamsOK(0, src, att, piped', missed'),
         exited' = exited, thrown' = thrown
  PROVE  IInv'
  <1> DEFINE made == n + 1
             last == IF c = "start" THEN n + 2 ELSE n + 1
             outer == Added(c # "none")
  <1>1. /\ last <= MaxStarts /\ starts' = last
        /\ current' = IF c = "stop" THEN 0 ELSE last
        /\ source' = IF c = "stop" THEN NoStream ELSE src
        /\ attached' = IF c = "stop" THEN att \ {src} ELSE att
    BY DEF Connects
  <1>2. n \in Nat /\ made \in Sessions /\ last \in Sessions
        /\ last \in 0..MaxStarts /\ 0 \in 0..MaxStarts
    BY <1>1, BoundsAssumption DEF Left, Sessions
  <1>3. /\ Sound(outer) /\ Complete(outer) /\ outer \in Device
        /\ outer.nested = (c # "none")
    BY AddedSound DEF Sound
  <1>4. /\ Sound(Added(FALSE)) /\ Complete(Added(FALSE))
        /\ Added(FALSE) \in Device
    BY AddedSound DEF Sound
  <1>5. /\ devices' \in [Sessions -> Device]
        /\ devices'[made] = outer
        /\ \A s \in Sessions : s # made /\ s # last => devices'[s] = ds[s]
        /\ last # made => devices'[last] = Added(FALSE) /\ c = "start"
    <2>1. CASE c = "start"
      <3>1. devices' = [ds EXCEPT ![made] = outer, ![last] = Added(FALSE)]
        BY <2>1 DEF Connects
      <3>2. made # last
        BY <1>2, <2>1
      <3> HIDE DEF made, last, outer
      <3> QED
        BY <1>2, <1>3, <1>4, <2>1, <3>1, <3>2 DEF Left
    <2>2. CASE c # "start"
      <3>1. devices' = [ds EXCEPT ![made] = outer]
        BY <2>2 DEF Connects, Reactions
      <3>2. made = last
        BY <2>2
      <3> HIDE DEF made, last, outer
      <3> QED
        BY <1>2, <1>3, <3>1, <3>2 DEF Left
    <2> QED
      BY <2>1, <2>2
  <1>6. \A s \in Sessions : s > last => s > n /\ s # made /\ s # last
    BY <1>2 DEF Sessions
  <1>7. \A s \in Sessions : s <= last /\ s # made /\ s # last => s <= n
    BY <1>2 DEF Sessions
  <1>8. \A s \in 1..last : s \in Sessions /\ s <= last
    <2>1. \A k \in 0..MaxStarts : \A s \in 1..k : s \in Sessions /\ s <= k
      BY BoundsAssumption DEF Sessions
    <2> HIDE DEF last
    <2> QED
      BY <1>2, <2>1
  <1>9. /\ c = "none" => current' = made
        /\ c = "start" => current' = last
        /\ current' \in 0..MaxStarts /\ current' <= starts'
    BY <1>1, <1>2
  <1> HIDE DEF made, last, outer
  <1>10. StreamInv'
    <2>1. CASE c = "stop"
      BY <1>1, <2>1, StreamsCarry DEF StreamInv
    <2>2. CASE c # "stop"
      BY <1>1, <2>2, StreamsCarry DEF StreamInv
    <2> QED
      BY <2>1, <2>2
  <1>11. TypeOK'
    <2>1. thrown' \in BOOLEAN /\ exited' \in BOOLEAN
      BY DEF IInv, Frame, TypeOK
    <2> QED
      BY <1>1, <1>2, <1>5, <1>9, <1>10, <2>1 DEF TypeOK, StreamInv, StreamsOK
  <1>12. DeviceInv'
    BY <1>3, <1>4, <1>5 DEF Left, DeviceInv
  <1>13. MadeInv'
    BY <1>1, <1>5, <1>6, <1>9 DEF Left, MadeInv
  <1>14. CompleteInv'
    BY <1>1, <1>3, <1>4, <1>5, <1>7, <1>8 DEF Left, CompleteInv
  <1>15. RegisteredIsReachable'
    BY <1>3, <1>5, <1>9 DEF Left, RegisteredIsReachable
  <1> QED
    BY <1>10, <1>11, <1>12, <1>13, <1>14, <1>15 DEF IInv, Frame

LEMMA FirstStartKeeps == ASSUME IInv, FirstStart PROVE IInv'
  <1>1. PICK c \in Reactions : Connects(devices, starts, source, attached, c)
    BY DEF FirstStart
  <1>2. /\ ~exited /\ current = 0 /\ exited' = exited /\ thrown' = thrown
        /\ piped' = piped /\ missed' = missed
    BY DEF FirstStart
  <1>3. Left(devices, starts)
    <2>1. "none" \in Reactions /\ Reacts("none", NoStream)
      BY DEF Reactions, Reacts
    <2>2. AfterStop("none") = devices /\ StartsAfter("none") = starts
      BY <1>2 DEF AfterStop, Dropped, StartsAfter
    <2> QED
      BY <1>2, <2>1, <2>2, StopLeaves
  <1>4. StreamsOK(0, source, attached, piped', missed')
    BY <1>2 DEF IInv, StreamInv
  <1> QED
    BY <1>1, <1>2, <1>3, <1>4, ConnectsKeeps

LEMMA RestartKeeps == ASSUME IInv, Restart PROVE IInv'
  <1>1. PICK r \in Reactions \ {"stop"}, p \in NewStreams, c \in Reactions :
            /\ Reacts(r, p)
            /\ Connects(AfterStop(r), StartsAfter(r), p, Feeding(p, {}), c)
            /\ PipedInside(r, p)
    BY DEF Restart
  <1>2. ~exited /\ exited' = exited /\ thrown' = thrown /\ r \in Reactions
    BY <1>1 DEF Restart
  <1>3. Left(AfterStop(r), StartsAfter(r))
    BY <1>1, <1>2, StopLeaves
  <1>4. StreamsOK(0, p, Feeding(p, {}), piped', missed')
    BY <1>1, <1>2, StopStreams
  <1> QED
    BY <1>1, <1>2, <1>3, <1>4, ConnectsKeeps

LEMMA ReadyAndStoppedKeeps == ASSUME IInv, ReadyAndStopped PROVE IInv'
  <1>1. PICK r \in Reactions, p \in NewStreams :
            /\ StopCall(r, p, {})
            /\ devices' = IF r = "stop" THEN AfterStop(r)
                          ELSE [AfterStop(r) EXCEPT ![current].relays = @ + 1,
                                                    ![current].cutShort = TRUE]
            /\ starts' = StartsAfter(r)
            /\ exited' = (r = "stop")
    BY DEF ReadyAndStopped
  <1> DEFINE d == devices[current]
             ds == AfterStop(r)
             e == [Ended(d) EXCEPT !.relays = @ + 1, !.cutShort = TRUE]
  <1>2. /\ Reacts(r, p) /\ PipedInside(r, p) /\ ~exited /\ current' = 0
        /\ source' = p /\ attached' = Feeding(p, {})
        /\ thrown' = (thrown \/ r = "stop")
        /\ exited' \in BOOLEAN /\ IsReady(d) /\ current # 0
    BY <1>1 DEF StopCall, ReadyAndStopped
  <1>3. CASE r = "stop"
    <2>1. Stopped(r, p, {})
      BY <1>1, <1>2, <1>3 DEF Stopped
    <2> QED
      BY <1>2, <2>1, StoppedKeeps
  <1>4. CASE r # "stop"
    <2>1. Left(ds, starts')
      BY <1>1, <1>2, StopLeaves
    <2>2. current \in Sessions /\ current <= starts
      BY <1>2, BoundsAssumption DEF IInv, Frame, TypeOK, MadeInv, Sessions
    <2>3. Sound(d) /\ Complete(d)
      BY <1>2, <2>2, MadeFacts
    <2>4. Hears(d)
      BY <1>2, <2>3 DEF IsReady, Sound, Hears
    <2>5. ds[current] = Ended(d)
      <3>1. Dropped[current] = Ended(d)
        BY <1>2, <2>2, <2>4 DEF Dropped, StopDevice, IInv, Frame, TypeOK
      <3>2. current # starts + 1
        BY <2>2 DEF IInv, Frame, TypeOK
      <3>3. ds[current] = Dropped[current]
        BY <2>2, <3>2 DEF AfterStop
      <3> QED
        BY <3>1, <3>3
    <2>6. Sound(e) /\ Complete(e) /\ ~e.listed
      BY <1>2, <2>3, CutShortSound
    <2>7. devices' = [ds EXCEPT ![current] = e]
      BY <1>1, <1>4, <2>2, <2>5 DEF Left
    <2> HIDE DEF d, ds, e
    <2>8. e \in Device
      BY <2>6 DEF Sound
    <2>9. devices' \in [Sessions -> Device] /\ devices'[current] = e
      BY <2>1, <2>2, <2>7, <2>8 DEF Left
    <2>10. \A s \in Sessions : s # current => devices'[s] = ds[s]
      BY <2>1, <2>7 DEF Left
    <2>11. starts' \in 0..MaxStarts /\ current <= starts' /\ ~(current > starts')
      BY <2>1, <2>2, BoundsAssumption DEF Left, IInv, Frame, TypeOK
    <2>12. StreamInv'
      BY <1>2, StopStreams DEF StreamInv
    <2>13. TypeOK'
      <3>1. 0 \in 0..MaxStarts
        BY BoundsAssumption
      <3> QED
        BY <1>2, <2>9, <2>11, <2>12, <3>1 DEF TypeOK, StreamInv, StreamsOK
    <2>14. DeviceInv'
      BY <2>1, <2>6, <2>9, <2>10 DEF Left, DeviceInv
    <2>15. MadeInv'
      BY <1>2, <2>1, <2>10, <2>11 DEF Left, MadeInv
    <2>16. CompleteInv'
      <3>1. \A s \in 1..starts' : s \in Sessions /\ s <= starts'
        BY <2>11, BoundsAssumption DEF Sessions
      <3> QED
        BY <1>2, <2>1, <2>6, <2>9, <2>10, <3>1 DEF Left, CompleteInv
    <2>17. RegisteredIsReachable'
      BY <2>1, <2>6, <2>9, <2>10 DEF Left, RegisteredIsReachable
    <2> QED
      BY <2>12, <2>13, <2>14, <2>15, <2>16, <2>17 DEF IInv, Frame
  <1> QED
    BY <1>3, <1>4

LEMMA PipeStreamKeeps ==
  ASSUME IInv, NEW i \in Streams, PipeStream(i)
  PROVE  IInv'
  <1>1. /\ UNCHANGED <<current, starts, devices, missed, thrown, exited>>
        /\ source' = i /\ attached' = attached \cup {i}
        /\ piped' = [piped EXCEPT ![i] = current]
        /\ piped[i] = 0 /\ current # 0
    BY DEF PipeStream
  <1>2. /\ piped'[i] = current
        /\ \A j \in Streams : j # i => piped'[j] = piped[j]
    BY <1>1 DEF IInv, Frame, TypeOK
  <1>3. TypeOK'
    BY <1>1 DEF IInv, Frame, TypeOK
  <1>4. StreamInv'
    <2>1. source' # NoStream => current' # 0 /\ piped'[source'] = current'
      BY <1>1, <1>2
    <2>2. ASSUME NEW j \in attached', j # i
          PROVE  /\ piped'[j] # 0
                 /\ \/ j \in missed'
                    \/ \E k \in Streams \ {j} : piped'[k] = piped'[j]
      <3>1. /\ j \in attached /\ j \in Streams /\ piped'[j] = piped[j]
            /\ missed' = missed
        BY <1>1, <1>2, <2>2 DEF IInv, Frame, TypeOK
      <3>2. piped[j] # 0
        BY <3>1 DEF IInv, StreamInv, StreamsOK
      <3>3. CASE j = source /\ j \notin missed
        <4>1. piped[j] = current
          BY <3>1, <3>3, StreamAssumption DEF IInv, StreamInv, StreamsOK
        <4>2. i \in Streams \ {j} /\ piped'[i] = piped'[j]
          BY <1>2, <2>2, <3>1, <4>1
        <4> QED
          BY <3>1, <3>2, <4>2
      <3>4. CASE j # source /\ j \notin missed
        <4>1. PICK k \in Streams \ {j} : piped[k] = piped[j]
          BY <3>1, <3>4 DEF IInv, StreamInv, StreamsOK
        <4>2. k # i
          BY <1>1, <3>2, <4>1
        <4>3. piped'[k] = piped'[j]
          BY <1>2, <3>1, <4>1, <4>2
        <4> QED
          BY <3>1, <3>2, <4>1, <4>3
      <3>5. CASE j \in missed
        BY <3>1, <3>2, <3>5
      <3> QED
        BY <3>3, <3>4, <3>5
    <2>3. piped'[i] # 0 /\ i = source'
      BY <1>1, <1>2
    <2> QED
      BY <1>3, <2>1, <2>2, <2>3 DEF StreamInv, StreamsOK, TypeOK
  <1>5. DeviceInv' /\ MadeInv' /\ CompleteInv' /\ RegisteredIsReachable'
    BY <1>1 DEF IInv, Frame, DeviceInv, MadeInv, CompleteInv,
                RegisteredIsReachable
  <1> QED
    BY <1>3, <1>4, <1>5 DEF IInv, Frame

LEMMA ResetKeeps == ASSUME IInv, Reset PROVE IInv'
  <1> DEFINE d == devices[current]
             e == [d EXCEPT !.flushing = TRUE]
  <1>1. /\ ~exited /\ current # 0 /\ d.client = "streaming"
        /\ d.flushed < MaxFlushes /\ exited' = exited
        /\ UNCHANGED <<current, starts, streamVars, thrown>>
    BY DEF Reset
  <1>2. current \in Sessions /\ current <= starts
    BY <1>1, BoundsAssumption DEF IInv, Frame, TypeOK, MadeInv, Sessions
  <1>3. Sound(d) /\ d \in Device /\ Complete(d)
    BY <1>1, <1>2, MadeFacts
  <1>4. devices' = [devices EXCEPT ![current] = e]
    BY DEF Reset
  <1>5. e \in Device /\ e.listed = d.listed /\ e.nested = d.nested
    <2>1. e \in Device
      BY <1>3, Updates
    <2> QED
      BY <1>3, <2>1 DEF Device
  <1>6. Sound(e)
    <2>1. /\ e.udp = d.udp /\ e.client = d.client /\ e.flushed = d.flushed
          /\ e.relays = d.relays /\ e.cutShort = d.cutShort
      BY <1>3 DEF Device
    <2> HIDE DEF e
    <2> QED
      BY <1>1, <1>3, <1>5, <2>1 DEF Sound, Counted
  <1>7. Complete(e)
    BY <1>3 DEF Complete, Device
  <1>8. exited' \in BOOLEAN
    BY <1>1 DEF IInv, Frame, TypeOK
  <1> HIDE DEF d, e
  <1> QED
    BY <1>1, <1>2, <1>4, <1>5, <1>6, <1>7, <1>8, OneDeviceKeeps DEF d

LEMMA PortsKnownKeeps ==
  ASSUME IInv, NEW s \in Sessions, PortsKnown(s)
  PROVE  IInv'
  <1> DEFINE d == devices[s]
             e1 == [d EXCEPT !.udp = "bound"]
             e == [d EXCEPT !.udp = "bound", !.client = "opening"]
  <1>1. /\ ~exited /\ d.udp = "binding" /\ exited' = exited
        /\ UNCHANGED <<current, starts, streamVars, thrown>>
    BY DEF PortsKnown
  <1>2. s <= starts
    BY <1>1, ActiveIsMade
  <1>3. Sound(d) /\ d \in Device /\ Complete(d)
    BY <1>1, <1>2, MadeFacts
  <1>4. devices' = [devices EXCEPT ![s] = e]
    BY DEF PortsKnown, IInv, Frame, TypeOK
  <1>5. e \in Device
    <2>1. e1 \in Device
      BY <1>3, Updates
    <2>2. [e1 EXCEPT !.client = "opening"] \in Device
      BY <2>1, Updates
    <2> QED
      BY <1>3, <2>2 DEF Device
  <1>6. /\ e.listed = d.listed /\ e.nested = d.nested
        /\ e.udp = "bound" /\ e.client = "opening" /\ e.flushed = d.flushed
        /\ e.relays = d.relays /\ e.cutShort = d.cutShort
        /\ e.flushing = d.flushing /\ e.hasAirTunes = d.hasAirTunes
        /\ e.endings = d.endings
    BY <1>3 DEF Device
  <1>7. exited' \in BOOLEAN
    BY <1>1 DEF IInv, Frame, TypeOK
  <1> HIDE DEF e
  <1>8. Sound(e)
    BY <1>1, <1>3, <1>5, <1>6 DEF Sound, Counted
  <1>9. Complete(e)
    BY <1>1, <1>3, <1>6 DEF Complete, Sound
  <1> HIDE DEF d
  <1> QED
    BY <1>1, <1>2, <1>4, <1>6, <1>7, <1>8, <1>9, OneDeviceKeeps DEF d

LEMMA UdpFailsKeeps ==
  ASSUME IInv, NEW s \in Sessions, UdpFails(s)
  PROVE  IInv'
  <1> DEFINE d == devices[s]
             e1 == [d EXCEPT !.listed = FALSE]
             e2 == [e1 EXCEPT !.hasAirTunes = FALSE]
             e == [d EXCEPT !.listed = FALSE, !.hasAirTunes = FALSE,
                            !.endings = @ + 1]
  <1>1. /\ ~exited /\ d.udp # "unbound" /\ exited' = TRUE
        /\ UNCHANGED <<current, starts, streamVars, thrown>>
    BY DEF UdpFails
  <1>2. s <= starts
    BY <1>1, ActiveIsMade
  <1>3. Sound(d) /\ d \in Device
    BY <1>1, MadeFacts
  <1>4. devices' = [devices EXCEPT ![s] = e]
    BY DEF UdpFails, IInv, Frame, TypeOK
  <1>5. e \in Device
    <2>1. e1 \in Device
      BY <1>3, Updates
    <2>2. e2 \in Device
      BY <2>1, Updates
    <2>3. d.endings + 1 \in Nat
      BY <1>3, Fields
    <2>4. [e2 EXCEPT !.endings = d.endings + 1] \in Device
      BY <2>2, <2>3, Updates
    <2> QED
      BY <1>3, <2>4 DEF Device
  <1>6. /\ ~e.listed /\ e.nested = d.nested
        /\ e.udp = d.udp /\ e.client = d.client /\ e.flushed = d.flushed
        /\ e.relays = d.relays /\ e.cutShort = d.cutShort
        /\ e.flushing = d.flushing
    BY <1>3 DEF Device
  <1> HIDE DEF e
  <1>7. Sound(e)
    BY <1>3, <1>5, <1>6 DEF Sound, Counted
  <1>8. exited' \in BOOLEAN /\ (~exited' => Complete(e))
    BY <1>1
  <1> HIDE DEF d
  <1> QED
    BY <1>1, <1>2, <1>4, <1>6, <1>7, <1>8, OneDeviceKeeps DEF d

LEMMA ReadyKeeps ==
  ASSUME IInv, NEW s \in Sessions, Ready(s)
  PROVE  IInv'
  <1> DEFINE d == devices[s]
  <1>1. /\ ~exited /\ IsReady(d) /\ exited' = exited
        /\ devices' = [devices EXCEPT ![s] = Relayed(d)]
        /\ UNCHANGED <<current, starts, streamVars, thrown>>
    BY DEF Ready
  <1>2. s <= starts
    BY <1>1, ActiveIsMade DEF IsReady
  <1>3. Sound(d) /\ Complete(d)
    BY <1>1, <1>2, MadeFacts
  <1>4. /\ Sound(Relayed(d)) /\ Complete(Relayed(d))
        /\ Relayed(d).listed = d.listed /\ Relayed(d).nested = d.nested
    BY <1>1, <1>3, RelayedSound
  <1>5. exited' \in BOOLEAN
    BY <1>1 DEF IInv, Frame, TypeOK
  <1> HIDE DEF d
  <1> QED
    BY <1>1, <1>2, <1>4, <1>5, OneDeviceKeeps DEF d

LEMMA ClientEndsKeeps ==
  ASSUME IInv, NEW s \in Sessions, ClientEnds(s)
  PROVE  IInv'
  <1> DEFINE d == devices[s]
  <1>1. /\ ~exited /\ Hears(d) /\ exited' = exited
        /\ devices' = [devices EXCEPT ![s] = Ended(d)]
        /\ UNCHANGED <<current, starts, streamVars, thrown>>
    BY DEF ClientEnds
  <1>2. s <= starts
    BY <1>1, ActiveIsMade DEF Hears
  <1>3. Sound(d) /\ Complete(d)
    BY <1>1, <1>2, MadeFacts
  <1>4. /\ Sound(Ended(d)) /\ Complete(Ended(d))
        /\ ~Ended(d).listed /\ Ended(d).nested = d.nested
    BY <1>1, <1>3, EndedSound
  <1>5. exited' \in BOOLEAN
    BY <1>1 DEF IInv, Frame, TypeOK
  <1> HIDE DEF d
  <1> QED
    BY <1>1, <1>2, <1>4, <1>5, OneDeviceKeeps DEF d

LEMMA NextIInv == IInv /\ [Next]_vars => IInv'
  <1> SUFFICES ASSUME IInv, [Next]_vars PROVE IInv'
    OBVIOUS
  <1>1. CASE FirstStart
    BY <1>1, FirstStartKeeps
  <1>1a. CASE Restart
    BY <1>1a, RestartKeeps
  <1>2. CASE Stop
    <2>1. PICK r \in Reactions, p \in NewStreams : Stopped(r, p, {})
      BY <1>2 DEF Stop
    <2>2. ~exited /\ exited' \in BOOLEAN
      BY <1>2 DEF Stop, IInv, Frame, TypeOK
    <2> QED
      BY <2>1, <2>2, StoppedKeeps
  <1>3. CASE Reset
    BY <1>3, ResetKeeps
  <1>4. ASSUME NEW i \in Streams, PipeStream(i) PROVE IInv'
    BY <1>4, PipeStreamKeeps
  <1>5. ASSUME NEW i \in Streams, StreamEnds(i) PROVE IInv'
    <2>1. PICK r \in Reactions, p \in NewStreams :
              Stopped(r, p, {i}) /\ exited' = (r = "stop")
      BY <1>5 DEF StreamEnds
    <2>2. ~exited /\ exited' \in BOOLEAN
      BY <1>5, <2>1 DEF StreamEnds
    <2> QED
      BY <2>1, <2>2, StoppedKeeps
  <1>6. ASSUME NEW s \in Sessions, PortsKnown(s) PROVE IInv'
    BY <1>6, PortsKnownKeeps
  <1>7. ASSUME NEW s \in Sessions, UdpFails(s) PROVE IInv'
    BY <1>7, UdpFailsKeeps
  <1>8. ASSUME NEW s \in Sessions, Ready(s) PROVE IInv'
    BY <1>8, ReadyKeeps
  <1>9. ASSUME NEW s \in Sessions, ClientEnds(s) PROVE IInv'
    BY <1>9, ClientEndsKeeps
  <1>10. CASE ReadyAndStopped
    BY <1>10, ReadyAndStoppedKeeps
  <1>11. CASE UNCHANGED vars
    BY <1>11 DEF vars, streamVars, IInv, Frame, TypeOK, DeviceInv, MadeInv,
                 CompleteInv, RegisteredIsReachable, StreamInv
  <1> QED
    BY <1>1, <1>2, <1>3, <1>4, <1>5, <1>6, <1>7, <1>8, <1>9, <1>10, <1>11,
       <1>1a
    DEF Next, UserCalls, Callbacks

LEMMA Inductive == Spec => []IInv
  BY InitIInv, NextIInv, PTL DEF Spec

-----------------------------------------------------------------------------
\* Every variable keeps its type, the counters of relays included: cleanup
\* never removes a relay that is not there (deviceAirtunes.ts:472-475).
THEOREM TypeCorrect == Spec => []TypeOK
  <1>1. IInv => TypeOK
    BY DEF IInv, Frame
  <1> QED
    BY <1>1, Inductive, PTL

\* No sequence of calls makes the facade lose a registered device, but for
\* the three calls inside calls: start() inside stop(), and stop() or start()
\* inside the 'connecting' of a start() (index.ts:97, 272-301, devices.ts:63).
THEOREM DevicesStayReachable == Spec => []RegisteredIsReachable
  <1>1. IInv => RegisteredIsReachable
    BY DEF IInv
  <1> QED
    BY <1>1, Inductive, PTL

\* Flag, sockets, event and client end together, once, for every session
\* (deviceAirtunes.ts:463-480, devices.ts:74-85).
THEOREM EndsAreComplete == Spec => []EndedIsComplete
  <1>1. IInv => EndedIsComplete
    BY DEF IInv, CompleteInv, Complete, EndedIsComplete
  <1> QED
    BY <1>1, Inductive, PTL

\* The number of packet listeners is known for every session, and with it
\* how many stay behind (deviceAirtunes.ts:366-456).
THEOREM RelaysAreCounted == Spec => []RelaysAccountedFor
  <1>1. IInv => RelaysAccountedFor
    BY DEF IInv, Frame, DeviceInv, Sound, Counted, RelaysAccountedFor
  <1> QED
    BY <1>1, Inductive, PTL

\* A stream that nobody replaced, and that was not piped by a handler inside
\* stop(), ends with its session (index.ts:97, 167-173, 273-280).
THEOREM StreamsStayHome == Spec => []StreamsFeedTheirSession
  <1>1. IInv => StreamsFeedTheirSession
    BY StreamAssumption
    DEF IInv, StreamInv, StreamsOK, StreamsFeedTheirSession
  <1> QED
    BY <1>1, Inductive, PTL

\* A device is dropped when it ended or before its handshake, by
\* whichever call (devices.ts:74-85, 210-218).
THEOREM DropsAreSafe == Spec => DroppedOnlyUnborn
  <1> DEFINE Kept(s) == devices'[s].client \in {"none", "ended"} \/ exited'
             Drops(s) == devices[s].listed /\ ~devices'[s].listed
  <1>1. ASSUME IInv, [Next]_vars, NEW s \in Sessions, Drops(s)
        PROVE  Kept(s)
    <2>1. ~exited
      BY <1>1 DEF Next, UserCalls, Callbacks, FirstStart, Restart, Stop,
                  Reset, PipeStream,
                  StreamEnds, PortsKnown, UdpFails, Ready, ClientEnds,
                  ReadyAndStopped, vars
    <2>2. devices \in [Sessions -> Device] /\ Sound(devices[s])
      BY <1>1 DEF IInv, Frame, TypeOK, DeviceInv
    <2>3. ASSUME NEW r \in Reactions, NEW p, Reacts(r, p),
                 ~AfterStop(r)[s].listed
          PROVE  AfterStop(r)[s].client \in {"none", "ended"}
      <3>1. starts + 1 # s
        <4>1. s > starts => devices[s] = Unused
          BY <1>1 DEF IInv, Frame, MadeInv
        <4>2. ~Unused.listed
          BY DEF Unused
        <4> QED
          BY <1>1, <4>1, <4>2 DEF IInv, Frame, TypeOK, Sessions
      <3>2. AfterStop(r)[s] = Dropped[s]
        BY <2>2, <3>1 DEF AfterStop, Dropped
      <3>3. CASE current = 0 \/ s # current
        <4>1. Dropped[s] = devices[s]
          BY <2>2, <3>3 DEF Dropped
        <4> QED
          BY <1>1, <2>3, <3>2, <4>1
      <3>4. CASE current # 0 /\ s = current
        <4>1. Dropped[s] = StopDevice(devices[s])
          BY <2>2, <3>4 DEF Dropped
        <4> QED
          BY <2>2, <3>2, <4>1, StopSound
      <3> QED
        BY <3>3, <3>4
    <2>4. ASSUME NEW r \in Reactions, NEW p, NEW over, Stopped(r, p, over)
          PROVE  Kept(s)
      BY <1>1, <2>3, <2>4 DEF Stopped, StopCall
    <2>4a. ASSUME NEW n \in Nat, NEW ds, DOMAIN ds = Sessions,
                  NEW src, NEW att, NEW c \in Reactions,
                  Connects(ds, n, src, att, c)
           PROVE  devices'[s] = ds[s]
      <3>1. Added(TRUE).listed /\ Added(FALSE).listed
        BY AddedSound
      <3>2. n + 1 # n + 2
        OBVIOUS
      <3>3. CASE c = "start"
        <4>1. devices' = [ds EXCEPT ![n + 1] = Added(TRUE),
                                    ![n + 2] = Added(FALSE)]
          BY <2>4a, <3>3 DEF Connects
        <4>2. s # n + 1 /\ s # n + 2
          BY <1>1, <2>4a, <3>1, <3>2, <4>1
        <4> QED
          BY <2>4a, <4>1, <4>2
      <3>4. CASE c # "start"
        <4>1. devices' = [ds EXCEPT ![n + 1] = Added(c = "stop")]
          BY <2>4a, <3>4 DEF Connects
        <4>2. Added(c = "stop").listed
          BY AddedSound
        <4>3. s # n + 1
          BY <1>1, <2>4a, <4>1, <4>2
        <4> QED
          BY <2>4a, <4>1, <4>3
      <3> QED
        BY <3>3, <3>4
    <2>5. CASE FirstStart
      <3>1. PICK c \in Reactions :
                Connects(devices, starts, source, attached, c)
        BY <2>5 DEF FirstStart
      <3>2. starts \in Nat /\ DOMAIN devices = Sessions
        BY <1>1, <2>2, BoundsAssumption DEF IInv, Frame, TypeOK
      <3> QED
        BY <1>1, <2>4a, <3>1, <3>2
    <2>5a. CASE Restart
      <3>1. PICK r \in Reactions \ {"stop"}, p \in NewStreams, c \in Reactions :
                /\ Reacts(r, p)
                /\ Connects(AfterStop(r), StartsAfter(r), p, Feeding(p, {}), c)
        BY <2>5a DEF Restart
      <3>2. StartsAfter(r) \in Nat
        BY <1>1, BoundsAssumption DEF IInv, Frame, TypeOK, StartsAfter
      <3>3. DOMAIN AfterStop(r) = Sessions
        BY <2>2 DEF AfterStop, Dropped
      <3>4. devices'[s] = AfterStop(r)[s]
        BY <2>4a, <3>1, <3>2, <3>3
      <3> QED
        BY <1>1, <2>3, <3>1, <3>4
    <2>6. CASE Stop
      BY <2>4, <2>6 DEF Stop
    <2>7. ASSUME NEW i \in Streams, StreamEnds(i) PROVE Kept(s)
      BY <2>4, <2>7 DEF StreamEnds
    <2>8. CASE ReadyAndStopped
      <3>1. PICK r \in Reactions, p \in NewStreams :
                /\ StopCall(r, p, {})
                /\ devices' = IF r = "stop" THEN AfterStop(r)
                              ELSE [AfterStop(r) EXCEPT
                                        ![current].relays = @ + 1,
                                        ![current].cutShort = TRUE]
        BY <2>8 DEF ReadyAndStopped
      <3>2. Reacts(r, p)
        BY <3>1 DEF StopCall
      <3>3. CASE r = "stop" \/ s # current
        <4>1. devices'[s] = AfterStop(r)[s]
          BY <2>2, <3>1, <3>3 DEF AfterStop, Dropped
        <4> QED
          BY <1>1, <2>3, <3>2, <4>1
      <3>4. CASE r # "stop" /\ s = current
        <4> DEFINE f == AfterStop(r)[s]
        <4>1. Left(AfterStop(r), StartsAfter(r))
          BY <1>1, <2>1, <3>2, StopLeaves
        <4>2. f \in Device /\ AfterStop(r) \in [Sessions -> Device]
          BY <4>1 DEF Left
        <4>3. devices'[s] = [f EXCEPT !.relays = @ + 1, !.cutShort = TRUE]
          BY <3>1, <3>4, <4>2
        <4> HIDE DEF f
        <4>4. devices'[s].listed = f.listed /\ devices'[s].client = f.client
          BY <4>2, <4>3 DEF Device
        <4> QED
          BY <1>1, <2>3, <3>2, <4>4 DEF f
      <3> QED
        BY <3>3, <3>4
    <2>9. ASSUME NEW t \in Sessions, ClientEnds(t) PROVE Kept(s)
      <3>1. devices' = [devices EXCEPT ![t] = Ended(devices[t])]
            /\ Hears(devices[t]) /\ Sound(devices[t])
        BY <1>1, <2>9 DEF ClientEnds, IInv, Frame, DeviceInv
      <3>2. t = s
        BY <1>1, <2>2, <3>1
      <3> QED
        BY <2>2, <3>1, <3>2, EndedSound
    <2>10. ASSUME NEW t \in Sessions, Ready(t) PROVE Kept(s)
      <3>1. devices' = [devices EXCEPT ![t] = Relayed(devices[t])]
            /\ IsReady(devices[t]) /\ Sound(devices[t])
        BY <1>1, <2>10 DEF Ready, IInv, Frame, DeviceInv
      <3>2. devices'[s].listed = devices[s].listed
        BY <2>2, <3>1, RelayedSound
      <3> QED
        BY <1>1, <3>2
    <2>11. ASSUME NEW t \in Sessions, UdpFails(t) PROVE Kept(s)
      BY <2>11 DEF UdpFails
    <2>12. ASSUME NEW t \in Sessions, PortsKnown(t) PROVE Kept(s)
      <3>1. devices'[s].listed = devices[s].listed
        BY <2>2, <2>12 DEF PortsKnown, Device
      <3> QED
        BY <1>1, <3>1
    <2>13. CASE Reset
      <3>1. devices'[s].listed = devices[s].listed
        BY <2>2, <2>13 DEF Reset, Device
      <3> QED
        BY <1>1, <3>1
    <2>14. ASSUME NEW i \in Streams, PipeStream(i) PROVE Kept(s)
      BY <1>1, <2>14 DEF PipeStream
    <2> QED
      BY <1>1, <2>5, <2>6, <2>7, <2>8, <2>9, <2>10, <2>11, <2>12, <2>13,
         <2>14, <2>5a DEF Next, UserCalls, Callbacks, vars
  <1>2. IInv /\ [Next]_vars => [\A s \in Sessions : Drops(s) => Kept(s)]_vars
    BY <1>1
  <1> QED
    BY <1>2, Inductive, PTL DEF DroppedOnlyUnborn, Spec
=============================================================================
