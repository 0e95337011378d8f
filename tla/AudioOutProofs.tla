--------------------------- MODULE AudioOutProofs ---------------------------
(***************************************************************************)
(* The packet clock and what the receiver gets from it, for all moduli,    *)
(* periods, delays, start times, latencies and orders of events.           *)
(*                                                                         *)
(* ReferenceHolds follows from two facts about setLatencyFrames: nothing   *)
(* is aligned before the first configuration, and one that named a latency *)
(* aligned the stream (`Aligned`).  The properties of packets, syncs and   *)
(* flushes follow from where the clock is in the stream (`Clocked`).       *)
(***************************************************************************)
EXTENDS AudioOut, SequenceTheorems, TLAPS

Aligned ==
    /\ latencyApplied \in BOOLEAN /\ missing \in BOOLEAN
    /\ phase = "opening" => ~latencyApplied /\ ~missing
    /\ startTime # NoStart /\ phase \notin {"opening", "ended"} =>
           latencyApplied \/ missing

LEMMA AlignedAtFirst == Init => Aligned
BY DEF Init, Aligned

LEMMA AlignedKept == Aligned /\ [Next]_vars => Aligned'
<1> SUFFICES ASSUME Aligned, [Next]_vars PROVE Aligned'
  OBVIOUS
<1> USE DEF Aligned
<1>1. CASE TooEarly      BY <1>1 DEF TooEarly
<1>2. CASE SyncAudio     BY <1>2 DEF SyncAudio
<1>3. CASE TimePasses    BY <1>3 DEF TimePasses
<1>4. CASE SendSync      BY <1>4 DEF SendSync
<1>5. ASSUME NEW d \in Steps, ClockStep(d) PROVE Aligned'
  BY <1>5 DEF ClockStep
<1>6. ASSUME NEW latency \in Latencies, Config(latency) PROVE Aligned'
  <2>1. latency \in Nat
    BY TimesAssumption
  <2>2. CASE Aligns(latency)
    BY <1>6, <2>2 DEF Config, Aligns
  <2>3. CASE ~Aligns(latency)
    <3>1. latency = 0 \/ startTime = NoStart \/ latencyApplied
      BY <2>1, <2>3 DEF Aligns
    <3> QED BY <1>6, <2>3, <3>1 DEF Config
  <2> QED BY <2>2, <2>3
<1>7. CASE Ready         BY <1>7 DEF Ready
<1>8. CASE Flush         BY <1>8 DEF Flush
<1>9. CASE Stopped       BY <1>9 DEF Stopped
<1>10. CASE UNCHANGED vars
  BY <1>10 DEF vars
<1> QED BY <1>1, <1>2, <1>3, <1>4, <1>5, <1>6, <1>7, <1>8, <1>9, <1>10 DEF Next

(* A step that moves the reference is a first alignment. *)
LEMMA ReferenceMoves ==
    ASSUME Aligned, Next, ref' # ref
    PROVE  ~latencyApplied /\ (phase = "opening" \/ missing)
<1>1. PICK latency \in Latencies : Config(latency)
  BY DEF Next, TooEarly, SyncAudio, TimePasses, ClockStep, SendSync, Ready,
         Flush, Stopped
<1>2. startTime # NoStart /\ ~latencyApplied /\ phase # "ended"
  BY <1>1 DEF Config, Aligns
<1> QED BY <1>2 DEF Aligned

THEOREM AlignedAlways == Spec => []Aligned
<1> QED BY AlignedAtFirst, AlignedKept, PTL DEF Spec

(* The reference moves at most once, and never while packets are relayed,  *)
(* unless the first set-up reply named no latency and a later one does:    *)
(* setLatencyFrames, whatever a reconnecting client reports.               *)
THEOREM ReferenceIsHeld == Spec => ReferenceHolds
<1>1. Aligned /\ [Next]_vars
        => [ref' # ref => ~latencyApplied /\ (phase = "opening" \/ missing)]_vars
  BY ReferenceMoves DEF vars
<1> QED BY <1>1, AlignedAlways, PTL DEF Spec, ReferenceHolds

-----------------------------------------------------------------------------
(* Quotients and remainders. *)

LEMMA DivMod ==
    ASSUME NEW a \in Int, NEW n \in Nat \ {0}
    PROVE  /\ a \div n \in Int /\ a % n \in 0..n - 1
           /\ (a \div n) * n <= a /\ a < (a \div n) * n + n
OBVIOUS

LEMMA ModIs ==
    ASSUME NEW a \in Int, NEW n \in Nat \ {0}, NEW q \in Int, NEW r \in 0..n - 1,
           a = q * n + r
    PROVE  a % n = r
OBVIOUS

LEMMA DivRest ==
    ASSUME NEW a \in Int, NEW n \in Nat \ {0}
    PROVE  a = (a \div n) * n + (a % n)
<1> DEFINE q == a \div n
           p == q * n
           r == a - p
<1>1. q \in Int /\ p \in Int /\ p <= a /\ a < p + n
  BY DivMod
<1>2. r \in 0..n - 1 /\ a = p + r
  <2> HIDE DEF p
  <2> QED BY <1>1
<1>3. a % n = r
  <2> HIDE DEF q, r
  <2> QED BY <1>1, <1>2, ModIs
<1>4. a = p + (a % n)
  <2> HIDE DEF p, r
  <2> QED BY <1>2, <1>3
<1> QED BY <1>4

LEMMA DivIs ==
    ASSUME NEW a \in Int, NEW n \in Nat \ {0}, NEW q \in Int, NEW r \in 0..n - 1,
           a = q * n + r
    PROVE  a \div n = q
OBVIOUS

LEMMA Regroup ==
    ASSUME NEW a \in Int, NEW b \in Int, NEW m \in Int, NEW r \in Int,
           NEW p \in Int, NEW q \in Int, NEW n \in Int,
           a = q * n + m, m + b = p * n + r
    PROVE  a + b = (q + p) * n + r
<1>1. (q + p) * n = q * n + p * n /\ q * n \in Int /\ p * n \in Int
  OBVIOUS
<1> QED BY <1>1

LEMMA ModPlus ==
    ASSUME NEW a \in Int, NEW b \in Int, NEW n \in Nat \ {0}
    PROVE  ((a % n) + b) % n = (a + b) % n
<1> DEFINE m == a % n
           q == a \div n
           c == m + b
           p == c \div n
           r == c % n
<1>1. m \in Int /\ c \in Int /\ q \in Int /\ p \in Int /\ q + p \in Int
      /\ r \in 0..n - 1 /\ n \in Int
  BY DivMod
<1>2. a = q * n + m /\ c = p * n + r
  BY <1>1, DivRest
<1> HIDE DEF m, q, p, r
<1>3. a + b = (q + p) * n + r
  BY <1>1, <1>2, Regroup
<1> DEFINE s == q + p
<1> HIDE DEF s
<1>4. (a + b) % n = r
  <2>1. s \in Int /\ a + b = s * n + r /\ a + b \in Int
    BY <1>1, <1>3 DEF s
  <2> QED BY <1>1, <2>1, ModIs
<1> QED BY <1>4 DEF r, m

-----------------------------------------------------------------------------
(* Whose turn it is: r listeners send one packet after the other. *)

(* The first turn is of the first packet, the last of the last. *)
LEMMA Turns ==
    ASSUME NEW n \in Nat \ {0}, NEW r \in Nat \ {0}
    PROVE  /\ n * r \in Nat \ {0}
           /\ \A k \in 1..n * r : (k - 1) \div r \in 0..n - 1 /\ (k - 1) % r \in 0..r - 1
           /\ 0 \div r = 0 /\ 0 % r = 0
           /\ (n * r - 1) \div r = n - 1
<1>1. n * r \in Nat \ {0} /\ n * r = (n - 1) * r + r
  <2>1. n * r \in Nat /\ n * r >= 1 * r
    OBVIOUS
  <2>2. n * r = (n - 1) * r + r
    OBVIOUS
  <2> QED BY <2>1, <2>2
<1>2. ASSUME NEW k \in 1..n * r
      PROVE  (k - 1) \div r \in 0..n - 1 /\ (k - 1) % r \in 0..r - 1
  <2> DEFINE q == (k - 1) \div r
  <2>1. k - 1 \in Int /\ k - 1 >= 0 /\ k - 1 < n * r
    BY <1>1, <1>2
  <2>2. q \in Int /\ (k - 1) % r \in 0..r - 1 /\ q * r <= k - 1 /\ k - 1 < q * r + r
    BY <2>1, DivMod
  <2> HIDE DEF q
  <2>3. ~(q < 0)
    <3>1. q < 0 => q * r <= (-1) * r
      BY <2>2
    <3> QED BY <2>1, <2>2, <3>1
  <2>4. ~(q >= n)
    <3>1. q >= n => q * r >= n * r
      BY <2>2
    <3>2. q * r \in Int /\ n * r \in Int
      BY <2>2
    <3> QED BY <2>1, <2>2, <3>1, <3>2
  <2>5. q \in 0..n - 1
    BY <2>2, <2>3, <2>4
  <2> QED BY <2>2, <2>5 DEF q
<1>3. 0 \div r = 0 /\ 0 % r = 0
  <2>1. 0 = 0 * r + 0 /\ 0 \in Int /\ 0 \in 0..r - 1
    OBVIOUS
  <2> QED BY <2>1, DivIs, ModIs
<1>4. (n * r - 1) \div r = n - 1
  <2>1. /\ n * r - 1 = (n - 1) * r + (r - 1) /\ r - 1 \in 0..r - 1
        /\ n * r - 1 \in Int /\ n - 1 \in Int
    BY <1>1
  <2> DEFINE a == n * r - 1
             q == n - 1
             m == r - 1
  <2> HIDE DEF a, q, m
  <2>2. a \in Int /\ q \in Int /\ m \in 0..r - 1 /\ a = q * r + m
    BY <2>1 DEF a, q, m
  <2>3. a \div r = q
    BY <2>2, DivIs
  <2> QED BY <2>3 DEF a, q
<1> QED BY <1>1, <1>2, <1>3, <1>4

(* The next turn is the next listener's, or the first one's with the next  *)
(* packet.                                                                 *)
LEMMA NextTurn ==
    ASSUME NEW k \in Nat, NEW r \in Nat \ {0}
    PROVE  \/ (k + 1) % r = (k % r) + 1 /\ (k + 1) \div r = k \div r
           \/ (k + 1) % r = 0 /\ (k + 1) \div r = (k \div r) + 1
<1> DEFINE q == k \div r
           m == k % r
           j == k + 1
<1>1. q \in Int /\ m \in 0..r - 1 /\ k = q * r + m /\ j \in Int /\ q + 1 \in Int
  BY DivMod, DivRest
<1> HIDE DEF q, m
<1>2. q * r \in Int /\ (q + 1) * r = q * r + r
  BY <1>1
<1>3. CASE m + 1 < r
  <2> DEFINE l == m + 1
  <2> HIDE DEF l
  <2>1. l \in 0..r - 1
    BY <1>1, <1>3 DEF l
  <2>2. j = q * r + l
    BY <1>1, <1>2 DEF l
  <2> HIDE DEF j
  <2>3. j % r = l /\ j \div r = q
    BY <1>1, <2>1, <2>2, ModIs, DivIs
  <2> QED BY <2>3 DEF j, l, m, q
<1>4. CASE ~(m + 1 < r)
  <2> DEFINE p == q + 1
  <2>1. j = p * r + 0
    BY <1>1, <1>2, <1>4
  <2>2. 0 \in 0..r - 1
    OBVIOUS
  <2> HIDE DEF j, p
  <2>3. p \in Int
    BY <1>1 DEF p
  <2>4. j % r = 0 /\ j \div r = p
    BY <1>1, <2>1, <2>2, <2>3, ModIs, DivIs
  <2> QED BY <2>4 DEF j, p, q
<1> QED BY <1>3, <1>4

-----------------------------------------------------------------------------
(* When a packet is due, and what is sent for it. *)

At(i) == i * FramesPerPacket

LEMMA AtIs ==
    ASSUME NEW i \in Int
    PROVE  /\ At(i) \in Int /\ At(i + 1) = At(i) + FramesPerPacket
           /\ FramesPerPacket \in Nat \ {0}
           /\ i \in Nat => At(i) \in Nat
<1>1. FramesPerPacket \in Nat \ {0}
  BY WidthsAssumption
<1>2. i * FramesPerPacket \in Int
      /\ (i + 1) * FramesPerPacket = i * FramesPerPacket + FramesPerPacket
  BY <1>1
<1>3. i \in Nat => i * FramesPerPacket \in Nat
  BY <1>1
<1> QED BY <1>1, <1>2, <1>3 DEF At

LEMMA AtGrows ==
    ASSUME NEW i \in Int, NEW j \in Int, i <= j
    PROVE  At(i) <= At(j)
<1>1. FramesPerPacket \in Nat
  BY WidthsAssumption
<1>2. i * FramesPerPacket <= j * FramesPerPacket
  BY <1>1
<1> QED BY <1>2 DEF At

LEMMA CurrentIs ==
    ASSUME NEW e \in Nat
    PROVE  /\ CurrentSeq(e) \in Nat
           /\ At(CurrentSeq(e)) <= e /\ e < At(CurrentSeq(e)) + FramesPerPacket
<1>1. FramesPerPacket \in Nat \ {0}
  BY WidthsAssumption
<1>2. e \div FramesPerPacket \in Nat
  BY <1>1
<1> QED BY <1>1, <1>2, DivMod DEF CurrentSeq, At

LEMMA LowIs ==
    ASSUME NEW i \in Int
    PROVE  /\ Low32(i) \in 0..TimeWrap - 1
           /\ i >= 0 => Low32(i) = i % TimeWrap
<1>1. TimeWrap \in Nat \ {0}
  BY WidthsAssumption
<1> DEFINE j == IF i < 0 THEN -i ELSE i
<1>2. j \in Int /\ (i >= 0 => j = i)
  OBVIOUS
<1> HIDE DEF j
<1>3. j % TimeWrap \in 0..TimeWrap - 1
  BY <1>1, <1>2, DivMod
<1> QED BY <1>2, <1>3 DEF Low32, j

LEMMA PacketIs ==
    ASSUME NEW i \in Int, NEW l \in Int
    PROVE  /\ PacketOf(i, l).seq = i % SeqWrap
           /\ PacketOf(i, l).timestamp = Low32(At(i) + Lead)
           /\ PacketOf(i, l).listener = l
           /\ PacketOf(i, l).late = now - ref - At(i)
           /\ PacketOf(i, l).moved = moved
           /\ PacketOf(i, l).setBack = (setBack /\ i = lastSeq + 1 /\ l = 1)
BY DEF PacketOf, At

LEMMA PacketType ==
    ASSUME TypeOK, NEW i \in Int, NEW l \in 1..MaxRelays
    PROVE  PacketOf(i, l) \in Packets
<1>1. At(i) \in Int /\ Lead \in Int /\ SeqWrap \in Nat \ {0}
  BY AtIs, WidthsAssumption
<1>2. now - ref - At(i) \in Int
  BY <1>1 DEF TypeOK
<1>3. Low32(At(i) + Lead) \in 0..TimeWrap - 1
  BY <1>1, LowIs
<1>4. i % SeqWrap \in 0..SeqWrap - 1
  BY <1>1, DivMod
<1>5. moved \in BOOLEAN /\ (setBack /\ i = lastSeq + 1 /\ l = 1) \in BOOLEAN
  BY DEF TypeOK
<1> QED BY <1>2, <1>3, <1>4, <1>5 DEF PacketOf, Packets, At

LEMMA SyncType ==
    ASSUME TypeOK, NEW i \in Int
    PROVE  SyncOf(i) \in Syncs
<1>1. At(i) \in Int /\ Lead \in Int
  BY AtIs, WidthsAssumption
<1>2. Low32(At(i)) \in 0..TimeWrap - 1 /\ Low32(At(i) + Lead) \in 0..TimeWrap - 1
  BY <1>1, LowIs
<1>3. now \in Int /\ ref \in Int /\ steps \in Nat /\ (i >= 0 /\ ~moved) \in BOOLEAN
  BY DEF TypeOK
<1> QED BY <1>2, <1>3 DEF SyncOf, Syncs, At

-----------------------------------------------------------------------------
(* One call of syncAudio, in parts. *)

Current == CurrentSeq(now - ref)
Due == lastSeq + 1 .. Current
Sent == Burst(Current - lastSeq)
Before == IF relayed = <<>> THEN <<>> ELSE <<Last(relayed)>>

LEMMA SyncAudioIs ==
    ASSUME SyncAudio
    PROVE  /\ wait <= 0 /\ now >= ref /\ wait' = TimerGap
           /\ lastSeq' = Current
           /\ control' = control \cup
                {SyncOf(i) : i \in {j \in Due : /\ hasAirTunes /\ Listens
                                                /\ j % SyncPeriod = 0}}
           /\ \/ Due # {} /\ relays > 0 /\ relayed' = Before \o Sent /\ rtpInfo' = Nothing
              \/ ~(Due # {} /\ relays > 0) /\ UNCHANGED <<relayed, rtpInfo>>
           /\ moved' = FALSE /\ setBack' = (setBack /\ Due = {})
           /\ UNCHANGED <<now, startTime, ref, latencyApplied, hasAirTunes, phase,
                          relays, clock, missing, steps>>
BY DEF SyncAudio, Current, Due, Sent, Before

LEMMA CurrentType ==
    ASSUME TypeOK, now >= ref
    PROVE  /\ Current \in Nat /\ lastSeq \in Int
           /\ At(Current) <= now - ref /\ now - ref < At(Current) + FramesPerPacket
           /\ Due \subseteq Nat
           /\ Due = {} => Current <= lastSeq
           /\ Due # {} => Current - lastSeq \in Nat \ {0}
<1>1. now - ref \in Nat /\ lastSeq \in Nat \cup {-1}
  BY DEF TypeOK
<1>2. Current \in Nat /\ At(Current) <= now - ref
      /\ now - ref < At(Current) + FramesPerPacket
  BY <1>1, CurrentIs DEF Current
<1>3. Due = {} => Current <= lastSeq
  <2>1. Current > lastSeq => Current \in Due
    BY <1>1, <1>2 DEF Due
  <2> QED BY <1>1, <1>2, <2>1
<1> QED BY <1>1, <1>2, <1>3 DEF Due

(* The k-th datagram of a burst: its packet and its listener. *)
Packet(k) == lastSeq + 1 + ((k - 1) \div relays)
Listener(k) == ((k - 1) % relays) + 1

(* The burst goes on from the last packet before it, and ends with the     *)
(* packet that is due now.                                                 *)
LEMMA BurstIs ==
    ASSUME TypeOK, now >= ref, Due # {}, relays > 0
    PROVE  LET n == (Current - lastSeq) * relays
               b == Len(Before)
           IN /\ Before \in Seq(Packets) /\ Before \o Sent \in Seq(Packets)
              /\ b = IF relayed = <<>> THEN 0 ELSE 1
              /\ relayed # <<>> => (Before \o Sent)[1] = Last(relayed)
              /\ n \in Nat \ {0} /\ Len(Before \o Sent) = b + n
              /\ \A k \in 1..n : (Before \o Sent)[b + k] = PacketOf(Packet(k), Listener(k))
              /\ \A k \in 1..n : Packet(k) \in Due /\ Listener(k) \in 1..relays
              /\ Packet(1) = lastSeq + 1 /\ Listener(1) = 1 /\ Packet(n) = Current
<1> DEFINE c == Current - lastSeq
           n == c * relays
           b == Len(Before)
<1>0. c \in Nat \ {0} /\ lastSeq \in Int /\ Current \in Nat
  BY CurrentType
<1>1. relays \in Nat \ {0} /\ relays <= MaxRelays /\ MaxRelays \in Nat
  BY TimesAssumption DEF TypeOK
<1>2. relayed \in Seq(Packets)
  BY DEF TypeOK
<1>3. relayed # <<>> => Last(relayed) \in Packets
  BY <1>2 DEF Last
<1>4. Before \in Seq(Packets) /\ b = IF relayed = <<>> THEN 0 ELSE 1
  BY <1>3 DEF Before
<1>5. /\ n \in Nat \ {0}
      /\ \A k \in 1..n : (k - 1) \div relays \in 0..c - 1 /\ (k - 1) % relays \in 0..relays - 1
      /\ 0 \div relays = 0 /\ 0 % relays = 0 /\ (n - 1) \div relays = c - 1
  <2> HIDE DEF c
  <2> QED BY <1>0, <1>1, Turns
<1>6. \A k \in 1..n : Packet(k) \in Due /\ Listener(k) \in 1..relays
  <2> SUFFICES ASSUME NEW k \in 1..n PROVE Packet(k) \in Due /\ Listener(k) \in 1..relays
    OBVIOUS
  <2>1. (k - 1) \div relays \in 0..c - 1 /\ (k - 1) % relays \in 0..relays - 1
    BY <1>5
  <2> HIDE DEF n
  <2>2. Packet(k) \in lastSeq + 1..Current
    BY <1>0, <2>1 DEF Packet
  <2>3. Listener(k) \in 1..relays
    BY <1>1, <2>1 DEF Listener
  <2> QED BY <2>2, <2>3 DEF Due
<1>7. Packet(1) = lastSeq + 1 /\ Listener(1) = 1 /\ Packet(n) = Current
  <2>1. Packet(1) = lastSeq + 1 /\ Listener(1) = 1
    BY <1>0, <1>5 DEF Packet, Listener
  <2>2. Packet(n) = lastSeq + 1 + (c - 1)
    <3> HIDE DEF c
    <3> QED BY <1>5 DEF Packet
  <2> QED BY <1>0, <2>1, <2>2
<1>8. Sent \in Seq(Packets) /\ Len(Sent) = n
  <2>1. \A k \in 1..n : PacketOf(Packet(k), Listener(k)) \in Packets
    <3>1. Due \subseteq Int
      BY CurrentType
    <3>2. 1..relays \subseteq 1..MaxRelays
      BY <1>1
    <3> HIDE DEF n
    <3> QED BY <1>6, <3>1, <3>2, PacketType
  <2>2. Sent = [k \in 1..n |-> PacketOf(Packet(k), Listener(k))]
    BY DEF Sent, Burst, Packet, Listener
  <2>3. [k \in 1..n |-> PacketOf(Packet(k), Listener(k))] \in [1..n -> Packets]
    <3> HIDE DEF n
    <3> QED BY <2>1
  <2>4. Sent \in [1..n -> Packets]
    BY <2>2, <2>3
  <2> HIDE DEF n
  <2> QED BY <1>5, <2>4
<1>9. \A k \in 1..n : Sent[k] = PacketOf(Packet(k), Listener(k))
  BY DEF Sent, Burst, Packet, Listener
<1>10. b \in Nat /\ (relayed # <<>> => b = 1 /\ Before[1] = Last(relayed))
  BY <1>4 DEF Before
<1> HIDE DEF n, b
<1>11. /\ Before \o Sent \in Seq(Packets) /\ Len(Before \o Sent) = b + n
       /\ \A k \in 1..n : (Before \o Sent)[b + k] = Sent[k]
       /\ relayed # <<>> => (Before \o Sent)[1] = Before[1]
  <2>1. /\ Before \o Sent \in Seq(Packets) /\ Len(Before \o Sent) = b + n
        /\ \A i \in 1..b + n :
             (Before \o Sent)[i] = IF i <= b THEN Before[i] ELSE Sent[i - b]
    BY <1>4, <1>8, ConcatProperties DEF b
  <2>2. ASSUME NEW k \in 1..n PROVE (Before \o Sent)[b + k] = Sent[k]
    <3>1. b + k \in 1..b + n /\ ~(b + k <= b) /\ (b + k) - b = k
      BY <1>5, <1>10
    <3> QED BY <2>1, <3>1
  <2>3. ASSUME relayed # <<>> PROVE (Before \o Sent)[1] = Before[1]
    <3>1. 1 \in 1..b + n /\ 1 <= b
      BY <1>5, <1>10, <2>3
    <3> QED BY <2>1, <3>1
  <2> QED BY <2>1, <2>2, <2>3
<1>12. /\ Before \in Seq(Packets) /\ Before \o Sent \in Seq(Packets)
       /\ b = IF relayed = <<>> THEN 0 ELSE 1
       /\ relayed # <<>> => (Before \o Sent)[1] = Last(relayed)
       /\ n \in Nat \ {0} /\ Len(Before \o Sent) = b + n
       /\ \A k \in 1..n : (Before \o Sent)[b + k] = PacketOf(Packet(k), Listener(k))
  BY <1>4, <1>5, <1>9, <1>10, <1>11
<1> QED BY <1>6, <1>7, <1>12 DEF n, b

-----------------------------------------------------------------------------
(* Type correctness. *)

LEMMA InitType == Init => TypeOK
<1> SUFFICES ASSUME Init PROVE TypeOK
  OBVIOUS
<1>1. now = 0 /\ startTime \in Starts /\ ref \in Int
  BY TimesAssumption DEF Init
<1>2. lastSeq \in Nat \cup {-1}
  <2>1. CASE now < ref
    BY <2>1 DEF Init
  <2>2. CASE ~(now < ref)
    <3>1. now - ref \in Nat
      BY <1>1, <2>2
    <3> QED BY <2>2, <3>1, CurrentIs DEF Init
  <2> QED BY <2>1, <2>2
<1>3. wait \in -MaxLate..StreamLatency
  BY <1>1, WidthsAssumption, TimesAssumption DEF Init, TimerGap, Least
<1>4. relayed \in Seq(Packets) /\ control \subseteq Syncs /\ now \in 0..MaxNow
      /\ steps \in 0..MaxSteps /\ relays \in 0..MaxRelays
  BY TimesAssumption DEF Init
<1>5. /\ latencyApplied \in BOOLEAN /\ hasAirTunes \in BOOLEAN /\ missing \in BOOLEAN
      /\ moved \in BOOLEAN /\ setBack \in BOOLEAN
      /\ phase = "opening" /\ clock = Nothing /\ rtpInfo = Nothing
  BY DEF Init
<1> QED BY <1>1, <1>2, <1>3, <1>4, <1>5 DEF TypeOK

LEMMA NextType == TypeOK /\ [Next]_vars => TypeOK'
<1> SUFFICES ASSUME TypeOK, [Next]_vars PROVE TypeOK'
  OBVIOUS
<1>0. /\ now \in Int /\ wait \in Int /\ ref \in Int /\ MaxLate \in Nat
      /\ StreamLatency \in Nat \ {0} /\ MaxNow \in Nat /\ MaxSteps \in Nat
  BY WidthsAssumption, TimesAssumption DEF TypeOK
<1>1. CASE TooEarly
  <2>1. wait' \in -MaxLate..StreamLatency
    BY <1>0, <1>1 DEF TooEarly, TimerGap, Least
  <2> QED BY <1>1, <2>1 DEF TooEarly, TypeOK
<1>2. CASE SyncAudio
  <2>1. now >= ref
    BY <1>2, SyncAudioIs
  <2>2. wait' \in -MaxLate..StreamLatency /\ lastSeq' \in Nat \cup {-1}
    BY <1>0, <1>2, <2>1, SyncAudioIs, CurrentType DEF TimerGap
  <2>3. control' \subseteq Syncs
    <3>1. \A i \in Due : SyncOf(i) \in Syncs
      BY <2>1, CurrentType, SyncType
    <3> QED BY <1>2, <3>1, SyncAudioIs DEF TypeOK
  <2>4. relayed' \in Seq(Packets) /\ rtpInfo' \in [seq: Nat, rtptime: Nat] \cup {Nothing}
    BY <1>2, <2>1, SyncAudioIs, BurstIs DEF TypeOK
  <2>5. moved' \in BOOLEAN /\ setBack' \in BOOLEAN
    BY <1>2, SyncAudioIs
  <2>6. UNCHANGED <<now, startTime, ref, latencyApplied, hasAirTunes, phase,
                    relays, clock, missing, steps>>
    BY <1>2, SyncAudioIs
  <2> QED BY <2>2, <2>3, <2>4, <2>5, <2>6 DEF TypeOK
<1>3. CASE TimePasses
  <2>1. now' \in 0..MaxNow /\ wait' \in -MaxLate..StreamLatency
    BY <1>0, <1>3 DEF TimePasses, TypeOK
  <2> QED BY <1>3, <2>1 DEF TimePasses, TypeOK
<1>4. CASE SendSync
  BY <1>4 DEF SendSync, TypeOK
<1>5. ASSUME NEW d \in Steps, ClockStep(d) PROVE TypeOK'
  <2>1. steps' \in 0..MaxSteps /\ now' \in 0..MaxNow /\ d \in Int
    BY <1>0, <1>5, TimesAssumption DEF ClockStep, TypeOK
  <2>2. setBack' \in BOOLEAN /\ moved' \in BOOLEAN
    BY <1>5 DEF ClockStep, TypeOK
  <2> QED BY <1>5, <2>1, <2>2 DEF ClockStep, TypeOK
<1>6. ASSUME NEW latency \in Latencies, Config(latency) PROVE TypeOK'
  <2>1. ref' \in Int /\ latencyApplied' \in BOOLEAN /\ moved' \in BOOLEAN
    <3>1. CASE Aligns(latency)
      <4>1. startTime \in Int /\ latency \in Int
        BY <3>1, TimesAssumption DEF Aligns, TypeOK
      <4> QED BY <1>6, <3>1, <4>1 DEF Config
    <3>2. CASE ~Aligns(latency)
      BY <1>6, <3>2 DEF Config, TypeOK
    <3> QED BY <3>1, <3>2
  <2>2. missing' \in BOOLEAN
    BY <1>6 DEF Config, TypeOK
  <2>3. phase' \in {"opening", "configured", "relaying", "flushing", "ended"}
    BY <1>6 DEF Config
  <2>4. UNCHANGED <<now, startTime, lastSeq, wait, hasAirTunes, control,
                    relays, relayed, clock, rtpInfo, setBack, steps>>
    BY <1>6 DEF Config
  <2> QED BY <2>1, <2>2, <2>3, <2>4 DEF TypeOK
<1>7. CASE Ready
  <2>1. SyncOf(lastSeq) \in Syncs
    BY SyncType DEF TypeOK
  <2>2. relays' \in 0..MaxRelays
    BY <1>7, TimesAssumption DEF Ready, TypeOK
  <2> QED BY <1>7, <2>1, <2>2 DEF Ready, TypeOK
<1>8. CASE Flush
  <2>1. RtpInfo \in [seq: Nat, rtptime: Nat]
    <3>1. lastSeq + 1 \in Nat
      BY DEF TypeOK
    <3>2. At(lastSeq + 1) + Lead \in Nat
      BY <3>1, AtIs, WidthsAssumption
    <3> QED BY <3>1, <3>2 DEF RtpInfo, At
  <2> QED BY <1>8, <2>1 DEF Flush, TypeOK
<1>9. CASE Stopped
  <2>1. /\ relayed' \in Seq(Packets) /\ control' \subseteq Syncs
        /\ relays' \in 0..MaxRelays
    BY <1>9, TimesAssumption DEF Stopped, TypeOK
  <2> QED BY <1>9, <2>1 DEF Stopped, TypeOK
<1>10. CASE UNCHANGED vars
  BY <1>10 DEF vars, TypeOK
<1> QED BY <1>1, <1>2, <1>3, <1>4, <1>5, <1>6, <1>7, <1>8, <1>9, <1>10 DEF Next

(* Every variable keeps its kind; what goes out in a 16-bit or a 32-bit    *)
(* field fits it, however long the stream.                                 *)
THEOREM TypeCorrect == Spec => []TypeOK
<1> QED BY InitType, NextType, PTL DEF Spec

-----------------------------------------------------------------------------
(* The clock's place in the stream. *)

(* Unless the reference or the clock moved, the packet after the last one  *)
(* falls due no earlier than the timer; unless the clock was set back, the *)
(* last one has fallen due.  What is sent takes its lateness from these.   *)
Paced ==
    /\ ~moved => now - ref < At(lastSeq + 1) + StreamLatency - wait
    /\ ~moved \/ ~setBack => lastSeq = -1 \/ At(lastSeq) <= now - ref
    /\ ~latencyApplied => startTime \in {ref, NoStart}

(* What was sent last is the packet numbered lastSeq, and a flush that is  *)
(* not yet followed by a packet named the one after it.                    *)
Continues ==
    /\ phase \in {"relaying", "flushing"} => relays > 0
    /\ relayed # <<>> =>
           /\ relays > 0 /\ lastSeq >= 0
           /\ setBack \/ /\ Last(relayed).seq = lastSeq % SeqWrap
                         /\ Last(relayed).timestamp = Low32(At(lastSeq) + Lead)
    /\ rtpInfo # Nothing => relays > 0 /\ (setBack \/ rtpInfo = RtpInfo)

(* A sync sent after a packet, at its time, names a packet that is due and *)
(* not yet late by more than a burst.                                      *)
Placed(s) == s.steady =>
    \E i \in Nat : s.rtp = At(i) % TimeWrap /\ s.at - s.ref - At(i) \in 0..Window

SyncsPlaced == (\A s \in control : Placed(s)) /\ (clock # Nothing => Placed(clock))

LEMMA InitPaced == Init => Paced
<1> SUFFICES ASSUME Init PROVE Paced
  OBVIOUS
<1>1. now = 0 /\ ref \in Int /\ StreamLatency \in Nat
  BY WidthsAssumption, TimesAssumption DEF Init
<1>2. CASE now < ref
  <2>1. lastSeq = -1 /\ wait \in Int /\ wait <= StreamLatency
    BY <1>1, <1>2 DEF Init, TimerGap, Least
  <2>2. At(lastSeq + 1) \in Nat
    <3>1. lastSeq + 1 = 0
      BY <2>1
    <3> QED BY <3>1, AtIs
  <2>3. now - ref < At(lastSeq + 1) + StreamLatency - wait
    BY <1>1, <1>2, <2>1, <2>2
  <2>4. startTime \in {ref, NoStart}
    BY DEF Init
  <2> QED BY <2>1, <2>3, <2>4 DEF Paced
<1>3. CASE ~(now < ref)
  <2>1. now - ref \in Nat
    BY <1>1, <1>3
  <2>2. lastSeq = CurrentSeq(now - ref) /\ wait = StreamLatency
    BY <1>3 DEF Init, TimerGap
  <2>3. lastSeq \in Nat /\ At(lastSeq) <= now - ref
        /\ now - ref < At(lastSeq) + FramesPerPacket
    BY <2>1, <2>2, CurrentIs
  <2>4. At(lastSeq + 1) = At(lastSeq) + FramesPerPacket /\ At(lastSeq) \in Int
        /\ FramesPerPacket \in Nat
    BY <2>3, AtIs
  <2>5. now - ref < At(lastSeq + 1) + StreamLatency - wait
    BY <1>1, <2>1, <2>2, <2>3, <2>4
  <2>6. startTime \in {ref, NoStart}
    BY DEF Init
  <2> QED BY <2>3, <2>5, <2>6 DEF Paced
<1> QED BY <1>2, <1>3

LEMMA NextPaced == TypeOK /\ Paced /\ [Next]_vars => Paced'
<1> SUFFICES ASSUME TypeOK, Paced, [Next]_vars PROVE Paced'
  OBVIOUS
<1>0. /\ now \in Int /\ wait \in Int /\ ref \in Int /\ lastSeq \in Int
      /\ lastSeq \in Nat \cup {-1} /\ StreamLatency \in Nat
      /\ At(lastSeq) \in Int /\ At(lastSeq + 1) \in Int
      /\ wait <= StreamLatency
  <2>1. lastSeq \in Nat \cup {-1} /\ StreamLatency \in Nat /\ MaxLate \in Nat
    BY WidthsAssumption, TimesAssumption DEF TypeOK
  <2>2. lastSeq + 1 \in Int /\ lastSeq \in Int
    BY <2>1
  <2>3. At(lastSeq) \in Int /\ At(lastSeq + 1) \in Int
    BY <2>2, AtIs
  <2> QED BY <2>1, <2>2, <2>3 DEF TypeOK
<1>1. CASE TooEarly
  <2>1. wait' \in Int /\ wait' <= StreamLatency
        /\ UNCHANGED <<now, ref, lastSeq, moved, setBack, latencyApplied, startTime>>
    BY <1>0, <1>1 DEF TooEarly, TimerGap, Least
  <2>2. At(lastSeq + 1) \in Nat
    <3>1. lastSeq + 1 \in Nat
      BY <1>0
    <3> QED BY <3>1, AtIs
  <2>3. now' - ref' < At(lastSeq' + 1) + StreamLatency - wait'
    BY <1>0, <1>1, <2>1, <2>2 DEF TooEarly
  <2> QED BY <2>1, <2>3 DEF Paced
<1>2. CASE SyncAudio
  <2>1. /\ lastSeq' = Current /\ wait' = StreamLatency /\ now >= ref
        /\ UNCHANGED <<now, ref, latencyApplied, startTime>>
    BY <1>2, SyncAudioIs DEF TimerGap
  <2>2. Current \in Nat /\ At(Current) <= now - ref
        /\ now - ref < At(Current) + FramesPerPacket
    BY <2>1, CurrentType
  <2>3. At(Current + 1) = At(Current) + FramesPerPacket /\ At(Current) \in Int
        /\ FramesPerPacket \in Nat
    BY <2>2, AtIs
  <2>4. now' - ref' < At(lastSeq' + 1) + StreamLatency - wait'
    BY <1>0, <2>1, <2>2, <2>3
  <2>5. At(lastSeq') <= now' - ref'
    BY <2>1, <2>2
  <2> QED BY <2>1, <2>4, <2>5 DEF Paced
<1>3. CASE TimePasses
  <2>1. /\ now' = now + 1 /\ wait' = wait - 1
        /\ UNCHANGED <<ref, lastSeq, moved, setBack, latencyApplied, startTime>>
    BY <1>3 DEF TimePasses
  <2>2. ~moved => now' - ref < At(lastSeq + 1) + StreamLatency - wait'
    BY <1>0, <2>1 DEF Paced
  <2>3. ~moved \/ ~setBack => lastSeq = -1 \/ At(lastSeq) <= now' - ref
    BY <1>0, <2>1 DEF Paced
  <2> QED BY <2>1, <2>2, <2>3 DEF Paced
<1>4. CASE SendSync
  BY <1>4 DEF SendSync, Paced
<1>5. ASSUME NEW d \in Steps, ClockStep(d) PROVE Paced'
  <2>1. /\ now' = now + d /\ moved' = TRUE /\ setBack' = (setBack \/ d < 0)
        /\ UNCHANGED <<ref, lastSeq, latencyApplied, startTime>>
    BY <1>5 DEF ClockStep
  <2>2. d \in Int
    BY TimesAssumption
  <2>3. ~setBack' => lastSeq = -1 \/ At(lastSeq) <= now' - ref
    <3> SUFFICES ASSUME ~setBack' PROVE lastSeq = -1 \/ At(lastSeq) <= now' - ref
      OBVIOUS
    <3>1. ~setBack /\ ~(d < 0)
      BY <2>1
    <3>2. now <= now'
      BY <1>0, <2>1, <2>2, <3>1
    <3>3. now' \in Int
      BY <1>0, <2>1, <2>2
    <3>4. lastSeq = -1 \/ At(lastSeq) <= now - ref
      BY <3>1 DEF Paced
    <3> QED BY <1>0, <3>2, <3>3, <3>4
  <2> QED BY <2>1, <2>3 DEF Paced
<1>6. ASSUME NEW latency \in Latencies, Config(latency) PROVE Paced'
  <2>1. UNCHANGED <<now, startTime, lastSeq, wait, setBack>>
    BY <1>6 DEF Config
  <2>2. CASE Aligns(latency)
    <3>1. /\ ref' = startTime - latency /\ latencyApplied' = TRUE /\ moved' = TRUE
          /\ startTime # NoStart /\ ~latencyApplied
      BY <1>6, <2>2 DEF Config, Aligns
    <3>2. startTime = ref /\ latency \in Nat
      BY <3>1, TimesAssumption DEF Paced
    <3>3. ref' <= ref /\ ref' \in Int
      BY <1>0, <3>1, <3>2
    <3>4. ~setBack => lastSeq = -1 \/ At(lastSeq) <= now - ref'
      BY <1>0, <3>3 DEF Paced
    <3> QED BY <2>1, <3>1, <3>4 DEF Paced
  <2>3. CASE ~Aligns(latency)
    BY <1>6, <2>1, <2>3 DEF Config, Paced
  <2> QED BY <2>2, <2>3
<1>7. CASE Ready
  BY <1>7 DEF Ready, Paced
<1>8. CASE Flush
  BY <1>8 DEF Flush, Paced
<1>9. CASE Stopped
  BY <1>9 DEF Stopped, Paced
<1>10. CASE UNCHANGED vars
  BY <1>10 DEF vars, Paced
<1> QED BY <1>1, <1>2, <1>3, <1>4, <1>5, <1>6, <1>7, <1>8, <1>9, <1>10 DEF Next

(* Only a clock that was set back leaves the last packet ahead of time.    *)
LEMMA NotBehind ==
    ASSUME TypeOK, Paced, now >= ref, ~setBack
    PROVE  lastSeq <= Current /\ (Due = {} => lastSeq = Current)
<1>1. /\ Current \in Nat /\ lastSeq \in Int /\ now - ref \in Int
      /\ now - ref < At(Current) + FramesPerPacket
      /\ Due = {} => Current <= lastSeq
  BY CurrentType DEF TypeOK
<1>2. lastSeq = -1 \/ At(lastSeq) <= now - ref
  BY DEF Paced
<1>3. ASSUME lastSeq > Current PROVE FALSE
  <2>1. At(Current + 1) = At(Current) + FramesPerPacket /\ At(Current) \in Int
        /\ At(lastSeq) \in Int /\ FramesPerPacket \in Nat
    BY <1>1, AtIs
  <2>2. Current + 1 <= lastSeq /\ Current + 1 \in Int /\ lastSeq # -1
    BY <1>1, <1>3
  <2>3. At(Current + 1) <= At(lastSeq)
    BY <1>1, <2>2, AtGrows
  <2> QED BY <1>1, <1>2, <2>1, <2>2, <2>3
<1> QED BY <1>1, <1>3

LEMMA SyncAudioContinues ==
    TypeOK /\ Paced /\ Continues /\ SyncAudio => Continues'
<1> SUFFICES ASSUME TypeOK, Paced, Continues, SyncAudio PROVE Continues'
  OBVIOUS
<1>1. /\ now >= ref /\ lastSeq' = Current /\ UNCHANGED <<phase, relays>>
      /\ setBack' = (setBack /\ Due = {})
  BY SyncAudioIs
<1>2. Current \in Nat /\ lastSeq \in Int
  BY <1>1, CurrentType
<1>3. CASE Due # {} /\ relays > 0
  <2> DEFINE n == (Current - lastSeq) * relays
             b == Len(Before)
  <2>1. relayed' = Before \o Sent /\ rtpInfo' = Nothing
    BY <1>3, SyncAudioIs
  <2>2. /\ n \in Nat \ {0} /\ Len(relayed') = b + n /\ b \in Nat
        /\ \A k \in 1..n : relayed'[b + k] = PacketOf(Packet(k), Listener(k))
        /\ Listener(n) \in 1..relays /\ Packet(n) = Current
    <3>1. b = IF relayed = <<>> THEN 0 ELSE 1
      BY <1>1, <1>3, BurstIs
    <3>2. /\ n \in Nat \ {0} /\ Len(relayed') = b + n
          /\ \A k \in 1..n : relayed'[b + k] = PacketOf(Packet(k), Listener(k))
          /\ \A k \in 1..n : Listener(k) \in 1..relays
          /\ Packet(n) = Current
      BY <1>1, <1>3, <2>1, BurstIs
    <3> HIDE DEF n, b
    <3>3. n \in 1..n
      BY <3>2
    <3> QED BY <3>1, <3>2, <3>3
  <2> HIDE DEF n, b
  <2>3. Last(relayed') = PacketOf(Current, Listener(n)) /\ Listener(n) \in Int
    <3>1. n \in 1..n
      BY <2>2
    <3>2. relayed'[b + n] = PacketOf(Current, Listener(n))
      BY <2>2, <3>1
    <3>3. Listener(n) \in Int
      BY <2>2
    <3> QED BY <2>2, <3>2, <3>3 DEF Last
  <2>4. Last(relayed').seq = lastSeq' % SeqWrap
        /\ Last(relayed').timestamp = Low32(At(lastSeq') + Lead)
    BY <1>1, <1>2, <2>3, PacketIs
  <2> QED BY <1>1, <1>2, <1>3, <2>1, <2>4 DEF Continues
<1>4. CASE ~(Due # {} /\ relays > 0)
  <2>1. UNCHANGED <<relayed, rtpInfo>>
    BY <1>4, SyncAudioIs
  <2>2. ASSUME relays > 0, ~setBack' PROVE ~setBack /\ lastSeq' = lastSeq
    BY <1>1, <1>4, <2>2, NotBehind
  <2> QED BY <1>1, <1>2, <2>1, <2>2 DEF Continues, RtpInfo
<1> QED BY <1>3, <1>4

LEMMA NextContinues == TypeOK /\ Paced /\ Continues /\ [Next]_vars => Continues'
<1> SUFFICES ASSUME TypeOK, Paced, Continues, [Next]_vars PROVE Continues'
  OBVIOUS
<1>0. relays \in Nat
  BY TimesAssumption DEF TypeOK
<1> USE DEF Continues, RtpInfo
<1>1. CASE TooEarly      BY <1>1 DEF TooEarly
<1>2. CASE SyncAudio     BY <1>2, SyncAudioContinues
<1>3. CASE TimePasses    BY <1>3 DEF TimePasses
<1>4. CASE SendSync      BY <1>4 DEF SendSync
<1>5. ASSUME NEW d \in Steps, ClockStep(d) PROVE Continues'
  BY <1>5 DEF ClockStep
<1>6. ASSUME NEW latency \in Latencies, Config(latency) PROVE Continues'
  BY <1>6 DEF Config
<1>7. CASE Ready         BY <1>0, <1>7 DEF Ready
<1>8. CASE Flush         BY <1>8 DEF Flush
<1>9. CASE Stopped       BY <1>0, <1>9 DEF Stopped
<1>10. CASE UNCHANGED vars
  BY <1>10 DEF vars
<1> QED BY <1>1, <1>2, <1>3, <1>4, <1>5, <1>6, <1>7, <1>8, <1>9, <1>10 DEF Next

-----------------------------------------------------------------------------
(* What the receiver hears. *)

(* A packet that is due is no later than a timer period and the lateness   *)
(* of the timer.                                                           *)
LEMMA LateIs ==
    ASSUME TypeOK, Paced, wait <= 0, now >= ref, ~moved, NEW i \in Due
    PROVE  now - ref - At(i) \in 0..(StreamLatency + MaxLate)
<1>1. /\ now \in Int /\ ref \in Int /\ wait \in Int /\ wait >= -MaxLate
      /\ StreamLatency \in Nat /\ MaxLate \in Nat
  BY WidthsAssumption, TimesAssumption DEF TypeOK
<1>2. Current \in Nat /\ lastSeq \in Int /\ At(Current) <= now - ref
  BY CurrentType
<1>3. i \in Int /\ lastSeq + 1 <= i /\ i <= Current
  BY <1>2 DEF Due
<1>4. At(i) \in Int /\ At(Current) \in Int /\ At(lastSeq + 1) \in Int
  <2>1. lastSeq + 1 \in Int
    BY <1>2
  <2> QED BY <1>2, <1>3, <2>1, AtIs
<1>5. At(i) <= At(Current) /\ At(lastSeq + 1) <= At(i)
  <2>1. lastSeq + 1 \in Int
    BY <1>2
  <2> QED BY <1>2, <1>3, <2>1, AtGrows
<1>6. now - ref < At(lastSeq + 1) + StreamLatency - wait
  BY DEF Paced
<1>7. now - ref - At(i) \in Int /\ now - ref - At(i) >= 0
  BY <1>1, <1>2, <1>4, <1>5
<1>8. now - ref - At(i) <= StreamLatency + MaxLate
  BY <1>1, <1>4, <1>5, <1>6
<1> QED BY <1>1, <1>7, <1>8

LEMMA NumbersFollow ==
    ASSUME NEW i \in Nat
    PROVE  /\ (i + 1) % SeqWrap = ((i % SeqWrap) + 1) % SeqWrap
           /\ Low32(At(i + 1) + Lead)
                = (Low32(At(i) + Lead) + FramesPerPacket) % TimeWrap
<1>1. SeqWrap \in Nat \ {0} /\ TimeWrap \in Nat \ {0} /\ Lead \in Nat
  BY WidthsAssumption
<1>2. /\ At(i) \in Nat /\ FramesPerPacket \in Nat
      /\ At(i + 1) = At(i) + FramesPerPacket
  BY AtIs
<1> DEFINE x == At(i) + Lead
<1>3. x \in Nat /\ At(i + 1) + Lead = x + FramesPerPacket /\ x + FramesPerPacket \in Nat
  BY <1>1, <1>2
<1> HIDE DEF x
<1>4. Low32(x) = x % TimeWrap /\ Low32(x + FramesPerPacket) = (x + FramesPerPacket) % TimeWrap
  BY <1>3, LowIs
<1>5. ((x % TimeWrap) + FramesPerPacket) % TimeWrap = (x + FramesPerPacket) % TimeWrap
  <2>1. x \in Int /\ FramesPerPacket \in Int
    BY <1>2, <1>3
  <2> QED BY <1>1, <2>1, ModPlus, Zenon
<1>6. ((i % SeqWrap) + 1) % SeqWrap = (i + 1) % SeqWrap
  <2>1. i \in Int /\ 1 \in Int
    OBVIOUS
  <2> QED BY <1>1, <2>1, ModPlus, Zenon
<1> QED BY <1>3, <1>4, <1>5, <1>6 DEF x

LEMMA PacketFollows ==
    ASSUME NEW i \in Nat, NEW m \in Int, NEW p,
           p.seq = i % SeqWrap, p.timestamp = Low32(At(i) + Lead)
    PROVE  Follows(p, PacketOf(i + 1, m))
<1>1. i + 1 \in Int
  OBVIOUS
<1>2. /\ PacketOf(i + 1, m).seq = (i + 1) % SeqWrap
      /\ PacketOf(i + 1, m).timestamp = Low32(At(i + 1) + Lead)
  BY <1>1, PacketIs, Zenon
<1>3. /\ PacketOf(i + 1, m).seq = (p.seq + 1) % SeqWrap
      /\ PacketOf(i + 1, m).timestamp = (p.timestamp + FramesPerPacket) % TimeWrap
  BY <1>2, NumbersFollow, Zenon
<1> QED BY <1>3 DEF Follows

(* One datagram after the other. *)
GoesOn(p, q) == \/ q.setBack
                \/ q.listener = 1 /\ Follows(p, q)
                \/ q.listener > 1 /\ Repeats(p, q)

LEMMA TurnGoesOn ==
    ASSUME TypeOK, relays > 0, NEW k \in Nat \ {0}, Packet(k) \in Nat,
           Listener(k) \in 1..relays, Listener(k + 1) \in 1..relays
    PROVE  GoesOn(PacketOf(Packet(k), Listener(k)),
                  PacketOf(Packet(k + 1), Listener(k + 1)))
<1>1. relays \in Nat \ {0} /\ lastSeq \in Int
  BY TimesAssumption DEF TypeOK
<1> DEFINE h == k - 1
<1>2. h \in Nat /\ h + 1 = (k + 1) - 1
  OBVIOUS
<1>3. \/ Listener(k + 1) = Listener(k) + 1 /\ Packet(k + 1) = Packet(k)
      \/ Listener(k + 1) = 1 /\ Packet(k + 1) = Packet(k) + 1
  <2>1. h \div relays \in Int /\ h % relays \in 0..relays - 1
    BY <1>1, <1>2, DivMod
  <2>2. Packet(k) = lastSeq + 1 + (h \div relays) /\ Listener(k) = (h % relays) + 1
    BY DEF Packet, Listener
  <2>3. Packet(k + 1) = lastSeq + 1 + ((h + 1) \div relays)
        /\ Listener(k + 1) = ((h + 1) % relays) + 1
    BY <1>2 DEF Packet, Listener
  <2> HIDE DEF h
  <2>4. \/ (h + 1) % relays = (h % relays) + 1 /\ (h + 1) \div relays = h \div relays
        \/ (h + 1) % relays = 0 /\ (h + 1) \div relays = (h \div relays) + 1
    BY <1>1, <1>2, NextTurn
  <2> DEFINE x == h \div relays
             y == h % relays
             v == (h + 1) \div relays
             w == (h + 1) % relays
  <2>5. /\ x \in Int /\ y \in 0..relays - 1
        /\ (w = y + 1 /\ v = x) \/ (w = 0 /\ v = x + 1)
        /\ Packet(k) = lastSeq + 1 + x /\ Listener(k) = y + 1
        /\ Packet(k + 1) = lastSeq + 1 + v /\ Listener(k + 1) = w + 1
    BY <2>1, <2>2, <2>3, <2>4
  <2> HIDE DEF x, y, v, w
  <2> QED BY <1>1, <2>5
<1> DEFINE i == Packet(k)
           l == Listener(k)
           m == Listener(k + 1)
<1>4. i \in Nat /\ i \in Int /\ i + 1 \in Int /\ l \in Int /\ m \in Int /\ l >= 1
  BY <1>1
<1>5. CASE m = l + 1 /\ Packet(k + 1) = i
  <2> HIDE DEF i, l, m
  <2>1. Repeats(PacketOf(i, l), PacketOf(i, m))
    BY <1>4, <1>5, PacketIs DEF Repeats
  <2>2. PacketOf(i, m).listener > 1
    BY <1>4, <1>5, PacketIs
  <2>3. GoesOn(PacketOf(i, l), PacketOf(i, m))
    BY <2>1, <2>2 DEF GoesOn
  <2> QED BY <1>5, <2>3 DEF i, l, m
<1>6. CASE m = 1 /\ Packet(k + 1) = i + 1
  <2> HIDE DEF i, l, m
  <2>1. Follows(PacketOf(i, l), PacketOf(i + 1, m))
    <3>1. /\ PacketOf(i, l).seq = i % SeqWrap
          /\ PacketOf(i, l).timestamp = Low32(At(i) + Lead)
      BY <1>4, PacketIs, Zenon
    <3> QED BY <1>4, <3>1, PacketFollows
  <2>2. PacketOf(i + 1, m).listener = 1
    BY <1>4, <1>6, PacketIs
  <2>3. GoesOn(PacketOf(i, l), PacketOf(i + 1, m))
    BY <2>1, <2>2 DEF GoesOn
  <2> QED BY <1>6, <2>3 DEF i, l, m
<1> QED BY <1>3, <1>5, <1>6

LEMMA BurstFollows ==
    ASSUME TypeOK, Continues, now >= ref, Due # {}, relays > 0
    PROVE  LET all == Before \o Sent IN
           \A k \in 1..Len(all) - 1 : GoesOn(all[k], all[k + 1])
<1> DEFINE all == Before \o Sent
           n == (Current - lastSeq) * relays
           b == Len(Before)
<1>1. /\ b = IF relayed = <<>> THEN 0 ELSE 1
      /\ relayed # <<>> => all[1] = Last(relayed)
      /\ n \in Nat \ {0} /\ Len(all) = b + n
      /\ \A k \in 1..n : all[b + k] = PacketOf(Packet(k), Listener(k))
      /\ \A k \in 1..n : Packet(k) \in Due /\ Listener(k) \in 1..relays
      /\ Packet(1) = lastSeq + 1 /\ Listener(1) = 1
  BY BurstIs
<1>2. lastSeq \in Nat \cup {-1} /\ Due \subseteq Nat
  BY CurrentType DEF TypeOK
<1> HIDE DEF all, n, b
<1>3. ASSUME NEW k \in 1..n - 1 PROVE GoesOn(all[b + k], all[b + k + 1])
  <2>1. /\ k \in 1..n /\ k + 1 \in 1..n /\ k \in Nat \ {0}
        /\ b + k + 1 = b + (k + 1)
    BY <1>1
  <2>2. all[b + k] = PacketOf(Packet(k), Listener(k))
        /\ all[b + k + 1] = PacketOf(Packet(k + 1), Listener(k + 1))
    BY <1>1, <2>1
  <2>3. Packet(k) \in Nat /\ Listener(k) \in 1..relays /\ Listener(k + 1) \in 1..relays
    BY <1>1, <1>2, <2>1
  <2> QED BY <2>1, <2>2, <2>3, TurnGoesOn
<1>4. ASSUME relayed # <<>>
      PROVE  GoesOn(all[1], all[2])
  <2>1. b + 1 = 2 /\ 1 \in 1..n /\ lastSeq \in Nat /\ lastSeq \in Int /\ lastSeq + 1 \in Int
    BY <1>1, <1>2, <1>4 DEF Continues
  <2>2. all[2] = PacketOf(lastSeq + 1, 1) /\ all[1] = Last(relayed)
    BY <1>1, <1>4, <2>1
  <2>3. all[2].setBack = setBack /\ all[2].listener = 1
    BY <2>1, <2>2, PacketIs DEF TypeOK
  <2>4. ~setBack => Follows(all[1], all[2])
    <3> SUFFICES ASSUME ~setBack PROVE Follows(all[1], all[2])
      OBVIOUS
    <3>1. /\ all[1].seq = lastSeq % SeqWrap
          /\ all[1].timestamp = Low32(At(lastSeq) + Lead)
      BY <1>4, <2>2 DEF Continues
    <3>2. 1 \in Int
      OBVIOUS
    <3>3. Follows(all[1], PacketOf(lastSeq + 1, 1))
      BY <2>1, <3>1, <3>2, PacketFollows
    <3> QED BY <2>2, <3>3
  <2> QED BY <2>3, <2>4 DEF GoesOn
<1>5. ASSUME NEW k \in 1..Len(all) - 1
      PROVE  GoesOn(all[k], all[k + 1])
  <2>1. CASE relayed = <<>>
    <3>1. b = 0 /\ k \in 1..n - 1 /\ b + k = k
      BY <1>1, <1>5, <2>1
    <3> QED BY <1>3, <3>1
  <2>2. CASE relayed # <<>> /\ k = 1
    BY <1>4, <2>2
  <2>3. CASE relayed # <<>> /\ k # 1
    <3>1. b = 1 /\ k - 1 \in 1..n - 1 /\ b + (k - 1) = k
      BY <1>1, <1>5, <2>3
    <3> QED BY <1>3, <3>1
  <2> QED BY <2>1, <2>2, <2>3
<1> QED BY <1>5 DEF all

LEMMA BurstOnTime ==
    ASSUME TypeOK, Paced, PacketsAreOnTime, wait <= 0, now >= ref, Due # {}, relays > 0
    PROVE  LET all == Before \o Sent IN
           \A k \in 1..Len(all) : all[k].moved \/ all[k].late \in 0..(StreamLatency + MaxLate)
<1> DEFINE all == Before \o Sent
           n == (Current - lastSeq) * relays
           b == Len(Before)
<1>1. /\ b = IF relayed = <<>> THEN 0 ELSE 1
      /\ relayed # <<>> => all[1] = Last(relayed)
      /\ n \in Nat \ {0} /\ Len(all) = b + n
      /\ \A k \in 1..n : all[b + k] = PacketOf(Packet(k), Listener(k))
      /\ \A k \in 1..n : Packet(k) \in Due /\ Listener(k) \in 1..relays
  BY BurstIs
<1>2. Due \subseteq Int /\ 1..relays \subseteq Int
  BY CurrentType
<1> HIDE DEF all, n, b
<1>4. ASSUME NEW k \in 1..n
      PROVE  all[b + k].moved \/ all[b + k].late \in 0..(StreamLatency + MaxLate)
  <2> DEFINE i == Packet(k)
             l == Listener(k)
  <2>1. all[b + k] = PacketOf(i, l) /\ i \in Due /\ i \in Int /\ l \in Int
    BY <1>1, <1>2
  <2> HIDE DEF i, l
  <2>2. all[b + k].moved = moved /\ all[b + k].late = now - ref - At(i)
    BY <2>1, PacketIs
  <2>3. ~moved => now - ref - At(i) \in 0..(StreamLatency + MaxLate)
    BY <2>1, LateIs
  <2> QED BY <2>2, <2>3
<1>5. ASSUME relayed # <<>>
      PROVE  all[1].moved \/ all[1].late \in 0..(StreamLatency + MaxLate)
  <2>1. Len(relayed) \in 1..Len(relayed)
    BY <1>5, EmptySeq DEF TypeOK
  <2> QED BY <1>1, <1>5, <2>1 DEF PacketsAreOnTime, Last
<1>6. ASSUME NEW k \in 1..Len(all)
      PROVE  all[k].moved \/ all[k].late \in 0..(StreamLatency + MaxLate)
  <2>1. CASE relayed = <<>>
    <3>1. k \in 1..n /\ b + k = k
      BY <1>1, <1>6, <2>1
    <3> QED BY <1>4, <3>1
  <2>2. CASE relayed # <<>> /\ k = 1
    BY <1>5, <2>2
  <2>3. CASE relayed # <<>> /\ k # 1
    <3>1. k - 1 \in 1..n /\ b + (k - 1) = k
      BY <1>1, <1>6, <2>3
    <3> QED BY <1>4, <3>1
  <2> QED BY <2>1, <2>2, <2>3
<1> QED BY <1>6 DEF all

LEMMA NextHeard ==
    ASSUME TypeOK, Paced, Continues, StreamIsSeamless, PacketsAreOnTime, [Next]_vars
    PROVE  StreamIsSeamless' /\ PacketsAreOnTime'
<1>1. CASE UNCHANGED relayed
  BY <1>1 DEF StreamIsSeamless, PacketsAreOnTime
<1>2. CASE relayed' = <<>>
  <2>1. Len(relayed') = 0
    BY <1>2
  <2> QED BY <2>1 DEF StreamIsSeamless, PacketsAreOnTime
<1>3. CASE SyncAudio
  <2>1. wait <= 0 /\ now >= ref
    BY <1>3, SyncAudioIs
  <2>2. CASE Due # {} /\ relays > 0 /\ relayed' = Before \o Sent
    <3>1. \A k \in 1..Len(relayed') - 1 : GoesOn(relayed'[k], relayed'[k + 1])
      BY <2>1, <2>2, BurstFollows
    <3>2. StreamIsSeamless'
      BY <3>1 DEF StreamIsSeamless, GoesOn, Follows, Repeats
    <3>3. PacketsAreOnTime'
      BY <2>1, <2>2, BurstOnTime DEF PacketsAreOnTime
    <3> QED BY <3>2, <3>3
  <2> QED BY <1>1, <1>3, <2>2, SyncAudioIs
<1>4. UNCHANGED relayed \/ relayed' = <<>> \/ SyncAudio
  BY DEF Next, TooEarly, TimePasses, SendSync, ClockStep, Config, Ready, Flush, Stopped, vars
<1> QED BY <1>1, <1>2, <1>3, <1>4

(* The packet a burst begins with is the one a flush named.                *)
LEMMA NextNamed ==
    ASSUME TypeOK, Continues, [Next]_vars,
           rtpInfo # Nothing, relayed' # relayed, relayed' # <<>>
    PROVE  LET p == relayed'[IF relayed = <<>> THEN 1 ELSE 2]
           IN \/ p.setBack
              \/ /\ p.seq = rtpInfo.seq % SeqWrap
                 /\ p.timestamp = rtpInfo.rtptime % TimeWrap
<1>1. SyncAudio
  BY DEF Next, TooEarly, TimePasses, SendSync, ClockStep, Config, Ready, Flush, Stopped, vars
<1>2. now >= ref /\ Due # {} /\ relays > 0 /\ relayed' = Before \o Sent
  BY <1>1, SyncAudioIs
<1> DEFINE all == Before \o Sent
           n == (Current - lastSeq) * relays
           b == Len(Before)
<1>3. /\ b = IF relayed = <<>> THEN 0 ELSE 1
      /\ n \in Nat \ {0}
      /\ \A k \in 1..n : all[b + k] = PacketOf(Packet(k), Listener(k))
      /\ Packet(1) = lastSeq + 1 /\ Listener(1) = 1
  BY <1>2, BurstIs
<1>4. lastSeq + 1 \in Nat /\ lastSeq + 1 \in Int
  BY DEF TypeOK
<1> HIDE DEF all, n, b
<1> DEFINE p == all[IF relayed = <<>> THEN 1 ELSE 2]
<1>5. p = PacketOf(lastSeq + 1, 1)
  <2>1. 1 \in 1..n /\ b + 1 = IF relayed = <<>> THEN 1 ELSE 2
    BY <1>3
  <2> QED BY <1>3, <2>1
<1>6. p.setBack = setBack
  BY <1>4, <1>5, PacketIs DEF TypeOK
<1>7. p.seq = (lastSeq + 1) % SeqWrap /\ p.timestamp = Low32(At(lastSeq + 1) + Lead)
  BY <1>4, <1>5, PacketIs
<1>8. Low32(At(lastSeq + 1) + Lead) = (At(lastSeq + 1) + Lead) % TimeWrap
  <2>1. At(lastSeq + 1) + Lead \in Nat
    <3>1. At(lastSeq + 1) \in Nat /\ Lead \in Nat
      BY <1>4, AtIs, WidthsAssumption
    <3> QED BY <3>1
  <2> QED BY <2>1, LowIs
<1>9. ~setBack => rtpInfo.seq = lastSeq + 1 /\ rtpInfo.rtptime = At(lastSeq + 1) + Lead
  BY DEF Continues, RtpInfo, At
<1>10. p.setBack \/ /\ p.seq = rtpInfo.seq % SeqWrap
                    /\ p.timestamp = rtpInfo.rtptime % TimeWrap
  <2> HIDE DEF p
  <2> QED BY <1>6, <1>7, <1>8, <1>9
<1> QED BY <1>2, <1>10 DEF p, all

-----------------------------------------------------------------------------
(* The clock the receiver is given. *)

LEMMA SyncPlaced ==
    ASSUME TypeOK, NEW i \in Int,
           i >= 0 /\ ~moved => now - ref - At(i) \in 0..Window
    PROVE  Placed(SyncOf(i))
<1>1. /\ SyncOf(i).steady = (i >= 0 /\ ~moved) /\ SyncOf(i).rtp = Low32(At(i))
      /\ SyncOf(i).at = now /\ SyncOf(i).ref = ref
  BY DEF SyncOf, At
<1>2. ASSUME i >= 0, ~moved PROVE Placed(SyncOf(i))
  <2>1. i \in Nat /\ At(i) \in Nat
    <3>1. i \in Nat
      BY <1>2
    <3> QED BY <3>1, AtIs
  <2>2. SyncOf(i).rtp = At(i) % TimeWrap
    BY <1>1, <2>1, LowIs
  <2> QED BY <1>1, <1>2, <2>1, <2>2 DEF Placed
<1>3. CASE ~(i >= 0 /\ ~moved)
  BY <1>1, <1>3 DEF Placed
<1> QED BY <1>2, <1>3

LEMMA NextSyncsPlaced ==
    TypeOK /\ Paced /\ SyncsPlaced /\ [Next]_vars => SyncsPlaced'
<1> SUFFICES ASSUME TypeOK, Paced, SyncsPlaced, [Next]_vars PROVE SyncsPlaced'
  OBVIOUS
<1>0. Window = StreamLatency + MaxLate + FramesPerPacket /\ StreamLatency \in Nat
      /\ MaxLate \in Nat /\ FramesPerPacket \in Nat
  BY WidthsAssumption, TimesAssumption DEF Window
<1>1. CASE SyncAudio
  <2>1. /\ wait <= 0 /\ now >= ref /\ UNCHANGED clock
        /\ control' \subseteq control \cup {SyncOf(i) : i \in Due}
    BY <1>1, SyncAudioIs
  <2>2. ASSUME NEW i \in Due PROVE Placed(SyncOf(i))
    <3>1. i \in Int
      BY <2>1, CurrentType
    <3>2. ~moved => now - ref - At(i) \in 0..Window
      BY <1>0, <2>1, LateIs
    <3> QED BY <3>1, <3>2, SyncPlaced
  <2>3. \A s \in control' : Placed(s)
    BY <2>1, <2>2 DEF SyncsPlaced
  <2> QED BY <2>1, <2>3 DEF SyncsPlaced, Placed
<1>2. CASE Ready
  <2>1. /\ UNCHANGED clock /\ control' \subseteq control \cup {SyncOf(lastSeq)}
    BY <1>2 DEF Ready
  <2>2. lastSeq >= 0 /\ ~moved => now - ref - At(lastSeq) \in 0..Window
    <3> SUFFICES ASSUME lastSeq >= 0, ~moved
                 PROVE  now - ref - At(lastSeq) \in 0..Window
      OBVIOUS
    <3>1. /\ now \in Int /\ ref \in Int /\ wait \in Int /\ wait >= -MaxLate
          /\ lastSeq \in Int
      BY <1>0 DEF TypeOK
    <3>2. At(lastSeq) \in Int /\ At(lastSeq + 1) = At(lastSeq) + FramesPerPacket
      BY <3>1, AtIs
    <3>3. At(lastSeq) <= now - ref /\ now - ref < At(lastSeq + 1) + StreamLatency - wait
      BY <3>1 DEF Paced
    <3> QED BY <1>0, <3>1, <3>2, <3>3
  <2>3. Placed(SyncOf(lastSeq))
    BY <2>2, SyncPlaced DEF TypeOK
  <2>4. \A s \in control' : Placed(s)
    BY <2>1, <2>3 DEF SyncsPlaced
  <2> QED BY <2>1, <2>4 DEF SyncsPlaced, Placed
<1>3. CASE SendSync
  <2>1. PICK sync \in control : control' = control \ {sync} /\ clock' = sync
    BY <1>3 DEF SendSync
  <2> QED BY <2>1 DEF SyncsPlaced, Placed
<1>4. CASE Stopped
  BY <1>4 DEF Stopped, SyncsPlaced, Placed
<1>5. CASE UNCHANGED <<control, clock>>
  BY <1>5 DEF SyncsPlaced, Placed
<1>6. SyncAudio \/ Ready \/ SendSync \/ Stopped \/ UNCHANGED <<control, clock>>
  BY DEF Next, TooEarly, TimePasses, ClockStep, Config, Flush, vars
<1> QED BY <1>1, <1>2, <1>3, <1>4, <1>5, <1>6

LEMMA ModBounds ==
    ASSUME NEW d \in Int, NEW n \in Nat \ {0}
    PROVE  /\ d >= 0 => d % n <= d
           /\ d < 0 => d % n >= n + d
<1> DEFINE q == d \div n
           y == d % n
           p == q * n
<1>1. q \in Int /\ y \in 0..n - 1 /\ d = p + y
  BY DivMod, DivRest
<1>2. /\ q >= 0 => p >= 0
      /\ q < 0 => p <= -n
      /\ q >= 1 => p >= n
      /\ p \in Int
  <2> HIDE DEF q
  <2>1. q * n \in Int
    BY <1>1
  <2>2. q >= 0 => q * n >= 0
    BY <1>1
  <2>3. q < 0 => q * n <= (-1) * n
    BY <1>1
  <2>4. q >= 1 => q * n >= 1 * n
    BY <1>1
  <2> QED BY <2>1, <2>2, <2>3, <2>4
<1> HIDE DEF q, y, p
<1>3. (d >= 0 => y <= d) /\ (d < 0 => y >= n + d)
  BY <1>1, <1>2
<1> QED BY <1>3 DEF y

LEMMA PlacedNear ==
    ASSUME NEW a \in Syncs, NEW b \in Syncs, a.steady, b.steady, a.ref = b.ref,
           Placed(a), Placed(b)
    PROVE  Near(a, b)
<1>1. TimeWrap \in Nat \ {0} /\ Window \in Nat
  BY WidthsAssumption, TimesAssumption DEF Window
<1>2. PICK i \in Nat : a.rtp = At(i) % TimeWrap /\ a.at - a.ref - At(i) \in 0..Window
  BY DEF Placed
<1>3. PICK j \in Nat : b.rtp = At(j) % TimeWrap /\ b.at - b.ref - At(j) \in 0..Window
  BY DEF Placed
<1> DEFINE x == (b.at - a.at) - (b.rtp - a.rtp)
           ea == a.at - a.ref - At(i)
           eb == b.at - b.ref - At(j)
           d == eb - ea
           y == d % TimeWrap
           p == At(i) \div TimeWrap
           q == At(j) \div TimeWrap
           s == d \div TimeWrap
           P == p * TimeWrap
           Q == q * TimeWrap
           S == s * TimeWrap
           t == s + q - p
<1>4. At(i) \in Int /\ At(j) \in Int
  BY AtIs
<1>5. /\ a.at \in Int /\ b.at \in Int /\ a.ref \in Int /\ b.ref \in Int
      /\ a.rtp \in Int /\ b.rtp \in Int
  BY <1>1 DEF Syncs
<1>6. d \in Int /\ -Window <= d /\ d <= Window
  BY <1>1, <1>2, <1>3, <1>4, <1>5
<1>7. y \in 0..TimeWrap - 1 /\ s \in Int /\ p \in Int /\ q \in Int
  <2> HIDE DEF d
  <2> QED BY <1>1, <1>4, <1>6, DivMod
<1>8. d = S + y /\ At(i) = P + a.rtp /\ At(j) = Q + b.rtp
  <2> HIDE DEF d
  <2>1. d = (d \div TimeWrap) * TimeWrap + (d % TimeWrap)
    BY <1>1, <1>6, DivRest
  <2>2. At(i) = (At(i) \div TimeWrap) * TimeWrap + (At(i) % TimeWrap)
        /\ At(j) = (At(j) \div TimeWrap) * TimeWrap + (At(j) % TimeWrap)
    BY <1>1, <1>4, DivRest
  <2> QED BY <1>2, <1>3, <2>1, <2>2
<1> HIDE DEF p, q, s, y
<1>9. S + Q - P = t * TimeWrap /\ S \in Int /\ P \in Int /\ Q \in Int /\ t \in Int
  <2>1. t * TimeWrap = s * TimeWrap + q * TimeWrap - p * TimeWrap
    BY <1>1, <1>7
  <2>2. s * TimeWrap \in Int /\ q * TimeWrap \in Int /\ p * TimeWrap \in Int
    BY <1>1, <1>7
  <2> QED BY <1>7, <2>1, <2>2
<1> HIDE DEF P, Q, S, t
<1>10. x = t * TimeWrap + y
  <2>1. x = d + At(j) - At(i) - (b.rtp - a.rtp)
    BY <1>4, <1>5
  <2>2. x = S + Q - P + y
    <3> HIDE DEF x, d
    <3> QED BY <1>4, <1>5, <1>6, <1>7, <1>8, <1>9, <2>1
  <2>3. S + Q - P + y = (S + Q - P) + y
    BY <1>7, <1>9
  <2> HIDE DEF x
  <2> QED BY <1>9, <2>2, <2>3
<1>11. x % TimeWrap = y
  <2>1. x \in Int
    BY <1>5
  <2> HIDE DEF x
  <2> QED BY <1>1, <1>7, <1>9, <1>10, <2>1, ModIs
<1>12. y \in 0..Window \cup TimeWrap - Window..TimeWrap - 1
  <2> HIDE DEF d
  <2>1. (d >= 0 => y <= d) /\ (d < 0 => y >= TimeWrap + d)
    BY <1>1, <1>6, ModBounds DEF y
  <2> QED BY <1>1, <1>6, <1>7, <2>1
<1> QED BY <1>11, <1>12 DEF Near, Drift

LEMMA NextSteady ==
    ASSUME TypeOK, SyncsPlaced, [Next]_vars, Comparable(clock, clock')
    PROVE  Near(clock, clock')
<1>1. SendSync \/ Stopped \/ UNCHANGED clock
  BY DEF Next, TooEarly, SyncAudio, TimePasses, ClockStep, Config, Ready, Flush, vars
<1>2. ~Stopped
  BY DEF Stopped, Comparable
<1>3. clock' \in control \/ clock' = clock
  BY <1>1, <1>2 DEF SendSync
<1>4. clock \in Syncs /\ clock' \in Syncs /\ Placed(clock) /\ Placed(clock')
  BY <1>3 DEF SyncsPlaced, Comparable, TypeOK
<1> QED BY <1>4, PlacedNear DEF Comparable

-----------------------------------------------------------------------------
(* The invariant, and what follows from it. *)

Clocked == /\ TypeOK /\ Paced /\ Continues /\ SyncsPlaced
           /\ StreamIsSeamless /\ PacketsAreOnTime

LEMMA ClockedAlways == Spec => []Clocked
<1>1. Init => Clocked
  <2> SUFFICES ASSUME Init PROVE Clocked
    OBVIOUS
  <2>1. relayed = <<>> /\ rtpInfo = Nothing /\ control = {} /\ clock = Nothing
        /\ Len(relayed) = 0 /\ phase = "opening"
    BY DEF Init
  <2>2. Continues /\ SyncsPlaced /\ StreamIsSeamless /\ PacketsAreOnTime
    BY <2>1 DEF Continues, SyncsPlaced, StreamIsSeamless, PacketsAreOnTime
  <2> QED BY <2>2, InitType, InitPaced DEF Clocked
<1>2. Clocked /\ [Next]_vars => Clocked'
  BY NextType, NextPaced, NextContinues, NextSyncsPlaced, NextHeard DEF Clocked
<1> QED BY <1>1, <1>2, PTL DEF Spec

(* The stream the receiver gets is one, each packet once for every listener*)
(* (of which each answered flush adds one), across bursts, flushes, the    *)
(* alignment, the wraps of both numbers and the end of the session, unless *)
(* the clock was set back.                                                 *)
THEOREM StreamSeamless == Spec => []StreamIsSeamless
<1> QED BY ClockedAlways, PTL DEF Clocked

(* No packet is early, none later than one timer period and the lateness   *)
(* of the timer, unless the reference or the clock moved.                  *)
THEOREM PacketsOnTime == Spec => []PacketsAreOnTime
<1> QED BY ClockedAlways, PTL DEF Clocked

(* Syncs of one reference and one setting of the clock agree to within one *)
(* burst, in any order of arrival and across the wrap of RTP time.         *)
THEOREM ReceiverClockSteady == Spec => ReceiverClockIsSteady
<1>1. Clocked /\ [Next]_vars => [Comparable(clock, clock') => Near(clock, clock')]_vars
  BY NextSteady DEF Clocked
<1> QED BY <1>1, ClockedAlways, PTL DEF Spec, ReceiverClockIsSteady

(* The RTP-Info of a FLUSH names the first packet after it.                *)
THEOREM FlushNamesNext == Spec => FlushNamesNextPacket
<1>1. Clocked /\ [Next]_vars =>
        [rtpInfo # Nothing /\ relayed' # relayed /\ relayed' # <<>> =>
            LET p == relayed'[IF relayed = <<>> THEN 1 ELSE 2]
            IN \/ p.setBack
               \/ /\ p.seq = rtpInfo.seq % SeqWrap
                  /\ p.timestamp = rtpInfo.rtptime % TimeWrap]_vars
  BY NextNamed DEF Clocked
<1> QED BY <1>1, ClockedAlways, PTL DEF Spec, FlushNamesNextPacket
=============================================================================
