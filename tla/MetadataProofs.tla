----------------------------- MODULE MetadataProofs -----------------------------
(***************************************************************************)
(* What the receiver shows, for any payloads, any digest and any bounds.   *)
(*                                                                         *)
(* `Whole` is inductive.  Its parts: Typed gives every field its set;      *)
(* Flight ties coverFetch to the fetch under way; Owned says that what is  *)
(* shown or queued is the session's own; Backed that a key stands for what *)
(* is shown; Exact that a progress shown came through both conversions;    *)
(* Fresh that with no call made in a hurry there is at most one call whose *)
(* values are still on their way, and where they are.                      *)
(***************************************************************************)
EXTENDS Metadata, FiniteSetTheorems, TLAPS

Clients == {"none", "opening", "playing", "busy", "ended"}
Displays == [client : Clients, shown : [Kinds -> Sent \cup {None}],
             unsure : [Kinds -> BOOLEAN]]

IsKeys(k) == k = [track |-> k.track, cover |-> k.cover,
                  progress |-> k.progress, url |-> k.url]
IsPending(q) == \E c \in AnyCall, v \in Covers :
                    q = [key |-> KeyOf(c, v), cover |-> v, call |-> c]

Typed ==
    /\ session \in 0..MaxSessions
    /\ calls \in 0..MaxCalls
    /\ IsKeys(keys)
    /\ Display \in Displays
    /\ pending = None \/ IsPending(pending)
    /\ fetches \subseteq [id : 1..calls, url : Covers]
    /\ waiting \subseteq [call : AnyCall, fetch : Nat]
    /\ resuming \subseteq [call : AnyCall, cover : Covers \cup {None}]
    /\ hurried \in BOOLEAN

Flight ==
    /\ coverFetch = 0 => fetches = {} /\ waiting = {}
    /\ coverFetch # 0 => \E f \in fetches : fetches = {f} /\ f.id = coverFetch
    /\ \A w \in waiting : w.fetch = coverFetch
    /\ resuming # {} => waiting = {}

Own(v) == v.session = session \/ v.waited
Owned ==
    /\ pending # None => Own(pending.call)
    /\ pending # None /\ client = "none" => pending.call.waited
    /\ \A kind \in Kinds : shown[kind] # None => Own(shown[kind])

(* What value of a kind a key stands for. *)
StandsFor(key, kind, value) ==
    CASE kind = "track" -> value = key
      [] kind = "cover" -> Digest(value) = key.cover
      [] kind = "progress" -> value = ClientProgress(key)

BackedOf(k, d, kind) ==
    k[kind] # None /\ ~d.unsure[kind] =>
        /\ d.client # "none"
        /\ d.shown[kind] # None
        /\ StandsFor(k[kind], kind, d.shown[kind].value)
Backed(k, d) == \A kind \in Kinds : BackedOf(k, d, kind)

ExactIn(item) ==
    item # None /\ item.given # None =>
        /\ item.given \in Times
        /\ item.value = ClientProgress(FacadeProgress(item.given))
Exact == ExactIn(shown.progress)

(* The receiver shows v of a kind, unless that kind is unsure. *)
Current(d, kind, v) ==
    v # None /\ ~d.unsure[kind] =>
        d.shown[kind] # None /\ SameItem(kind, d.shown[kind].value, v)

(* It shows the latest of each kind, or the cover is the one queued. *)
Arrived(d, queued, given, track) ==
    /\ Current(d, "track", track)
    /\ Current(d, "progress", given.progress)
    /\ IF queued = None THEN Current(d, "cover", given.cover)
                        ELSE given.cover = queued.cover

(* The track of a suspended call is sent before it counts as given. *)
TrackOf(c) == IF c.payload.track = None THEN latest.track ELSE c.payload.track

AtMostOne(S) == \A a, b \in S : a = b
Suspends == {w.call : w \in waiting} \cup {r.call : r \in resuming}
Unhurried ==
    /\ AtMostOne(Suspends)
    /\ AtMostOne(resuming)
    /\ Suspends # {} => pending = None
    /\ client = "none" => Suspends = {} /\ pending = None
    /\ client # "none" /\ Suspends = {} =>
            Arrived(Display, pending, latest, latest.track)
    /\ client # "none" =>
            \A c \in Suspends : Arrived(Display, pending, latest, TrackOf(c))
Fresh == DOMAIN latest = Kinds /\ (~hurried => Unhurried)

Whole == Typed /\ Flight /\ Owned /\ Backed(keys, Display) /\ Exact /\ Fresh

-----------------------------------------------------------------------------
(* Progress.                                                               *)

(* Division by a positive number.                                          *)
LEMMA Quotient ==
    ASSUME NEW n \in Nat, NEW m \in Nat \ {0}
    PROVE  n \div m \in Nat
  OBVIOUS

(* Both conversions turn a progress into a progress. *)
LEMMA FacadeTyped ==
    ASSUME NEW p \in Times
    PROVE  FacadeProgress(p) \in Times /\ Seconds(p.duration) \in Nat
<1>1. /\ p.elapsed \in Nat /\ p.duration \in Nat
      /\ Thousand \in Nat \ {0}
  BY BoundsAssumption DEF Times
<1>2. p.elapsed \div Thousand \in Nat /\ p.duration \div Thousand \in Nat
  BY <1>1, Quotient
<1>3. Seconds(p.elapsed) \in Nat /\ Seconds(p.duration) \in Nat
  BY <1>1, <1>2 DEF Seconds
<1>4. QED
  BY <1>3 DEF FacadeProgress, Times, Smaller

LEMMA ClientTyped ==
    ASSUME NEW p \in Times
    PROVE  ClientProgress(p) \in Times
<1>1. /\ p.elapsed \in Nat /\ p.duration \in Nat
      /\ Thousand \in Nat \ {0}
  BY BoundsAssumption DEF Times
<1>2. 2 * Thousand \in Nat \ {0}
  BY <1>1
<1>3. ASSUME NEW n \in Nat
      PROVE  Rounded(n) \in Nat
  <2>1. 2 * n + Thousand \in Nat
    BY <1>1
  <2>2. (2 * n + Thousand) \div (2 * Thousand) \in Nat
    BY <2>1, <1>2, Quotient
  <2>3. QED
    BY <2>2 DEF Rounded
<1>4. Rounded(p.elapsed) \in Nat /\ Rounded(p.duration) \in Nat
  BY <1>1, <1>3
<1>5. QED
  BY <1>1, <1>4 DEF ClientProgress, Times, Smaller

(* A progress of the lengths ProgressIsExact speaks of is cut to whole     *)
(* seconds by the facade and left as it is by the client.                  *)
LEMMA ExactProgress ==
    ASSUME NEW p \in Times, NEW total,
           total = p.duration \div Thousand,
           p.elapsed = 0 \/ p.elapsed > Thousand,
           p.duration > Thousand, total <= Thousand
    PROVE  ClientProgress(FacadeProgress(p)) =
               [elapsed |-> Smaller(p.elapsed \div Thousand, total),
                duration |-> total]
<1> DEFINE e == p.elapsed \div Thousand
           f == FacadeProgress(p)
<1>1. /\ p.elapsed \in Nat /\ p.duration \in Nat
      /\ Thousand \in Nat \ {0}
  BY BoundsAssumption DEF Times
<1>2. e \in Nat /\ total \in Nat
  BY <1>1, Quotient
<1>3. Seconds(p.duration) = total
  BY <1>1 DEF Seconds
<1>4. Seconds(p.elapsed) = e
  <2>1. CASE p.elapsed = 0
    <3>1. 0 \div Thousand = 0
      BY <1>1, Z3
    <3>2. QED
      BY <1>1, <2>1, <3>1 DEF Seconds
  <2>2. CASE p.elapsed > Thousand
    BY <1>1, <2>2 DEF Seconds
  <2>3. QED
    BY <2>1, <2>2
<1>5. f = [elapsed |-> Smaller(e, total), duration |-> total]
  BY <1>3, <1>4 DEF FacadeProgress
<1> HIDE DEF e, f
<1>6. f.elapsed = Smaller(e, total) /\ f.duration = total
  BY <1>5
<1>7. ~(f.duration > Thousand)
  BY <1>1, <1>2, <1>6
<1>8. Smaller(e, total) \in Nat /\ Smaller(Smaller(e, total), total) = Smaller(e, total)
  BY <1>2 DEF Smaller
<1>9. ClientProgress(f) = [elapsed |-> Smaller(e, total), duration |-> total]
  BY <1>6, <1>7, <1>8 DEF ClientProgress
<1>10. QED
  BY <1>9 DEF e, f

-----------------------------------------------------------------------------
(* Sending.                                                                *)

LEMMA ItemTyped ==
    ASSUME NEW call \in AnyCall,
           NEW value \in Tracks \cup Covers \cup Times \cup {None},
           NEW given \in Tracks \cup Covers \cup Times \cup {None}
    PROVE  Item(value, given, call) \in Sent
  BY DEF Item, Sent, AnyCall

(* What sending does to the display: to that kind only, and a kind that is *)
(* sure afterwards shows what was sent.                                    *)
LEMMA SendFacts ==
    ASSUME NEW d \in Displays, NEW kind \in Kinds, NEW v \in Sent,
           NEW e, e = SendTo(d, kind, v)
    PROVE  /\ e \in Displays
           /\ e.client = "none" <=> d.client = "none"
           /\ \A other \in Kinds \ {kind} :
                e.shown[other] = d.shown[other] /\ e.unsure[other] = d.unsure[other]
           /\ ~e.unsure[kind] => e.shown[kind] = v /\ d.client = "playing"
           /\ e.shown[kind] \in {v, d.shown[kind]}
<1>1. CASE d.client = "playing"
  <2>1. e = [client |-> "busy", shown |-> [d.shown EXCEPT ![kind] = v],
             unsure |-> [d.unsure EXCEPT ![kind] = FALSE]]
    BY <1>1 DEF SendTo
  <2>2. d.shown \in [Kinds -> Sent \cup {None}] /\ d.unsure \in [Kinds -> BOOLEAN]
    BY DEF Displays
  <2>3. /\ e.client = "busy"
        /\ e.shown = [d.shown EXCEPT ![kind] = v]
        /\ e.unsure = [d.unsure EXCEPT ![kind] = FALSE]
    BY <2>1
  <2>4. /\ e.shown \in [Kinds -> Sent \cup {None}]
        /\ e.unsure \in [Kinds -> BOOLEAN]
    BY <2>2, <2>3
  <2>5. e \in Displays
    BY <2>1, <2>3, <2>4 DEF Displays, Clients
  <2>6. QED
    BY <1>1, <2>2, <2>3, <2>5
<1>2. CASE d.client # "playing"
  <2>1. e = [d EXCEPT !.unsure[kind] = TRUE]
    BY <1>2 DEF SendTo
  <2>2. /\ d = [client |-> d.client, shown |-> d.shown, unsure |-> d.unsure]
        /\ d.client \in Clients
        /\ d.shown \in [Kinds -> Sent \cup {None}]
        /\ d.unsure \in [Kinds -> BOOLEAN]
    BY DEF Displays
  <2>3. /\ e.client = d.client
        /\ e.shown = d.shown
        /\ e.unsure = [d.unsure EXCEPT ![kind] = TRUE]
    BY <2>1, <2>2
  <2>4. e.unsure \in [Kinds -> BOOLEAN]
    BY <2>2, <2>3
  <2>5. e \in Displays
    BY <2>1, <2>2, <2>3, <2>4 DEF Displays
  <2>6. QED
    BY <2>2, <2>3, <2>5
<1>3. QED
  BY <1>1, <1>2

(* What the rest of setMetadata does to the cover and to the progress, each*)
(* of which goes its own way; the track is left alone.                     *)
New(k, call, cover) == cover # None /\ KeyOf(call, cover) # k.cover
Timed(call) == call.payload.progress # None
               /\ Seconds(call.payload.progress.duration) > 0
Moved(k, call) == Timed(call) /\ FacadeProgress(call.payload.progress) # k.progress
Told(call) == Item(ClientProgress(FacadeProgress(call.payload.progress)),
                   call.payload.progress, call)

CoverGoes(k, d, e, k1, call, cover) ==
    IF New(k, call, cover) /\ ~call.changed
    THEN /\ k1.cover = KeyOf(call, cover)
         /\ ~e.unsure["cover"] => /\ e.shown["cover"] = Item(cover, cover, call)
                                  /\ d.client # "none"
         /\ e.shown["cover"] \in {Item(cover, cover, call), d.shown["cover"]}
    ELSE /\ k1.cover = k.cover
         /\ e.shown["cover"] = d.shown["cover"]
         /\ e.unsure["cover"] = d.unsure["cover"]
ProgressGoes(k, d, e, k1, call) ==
    IF Moved(k, call)
    THEN /\ k1.progress = FacadeProgress(call.payload.progress)
         /\ ~e.unsure["progress"] => /\ e.shown["progress"] = Told(call)
                                     /\ d.client # "none"
         /\ e.shown["progress"] \in {Told(call), d.shown["progress"]}
    ELSE /\ k1.progress = k.progress
         /\ e.shown["progress"] = d.shown["progress"]
         /\ e.unsure["progress"] = d.unsure["progress"]
TrackStays(k, d, e, k1) ==
    /\ k1.track = k.track
    /\ e.shown["track"] = d.shown["track"]
    /\ e.unsure["track"] = d.unsure["track"]

LEMMA ToldTyped ==
    ASSUME NEW call \in AnyCall, Timed(call)
    PROVE  /\ Told(call) \in Sent
           /\ call.payload.progress \in Times
<1>1. call.payload \in Payloads
  BY DEF AnyCall
<1>2. call.payload.progress \in Times
  BY <1>1, TimesAssumption DEF Timed
<1>3. ClientProgress(FacadeProgress(call.payload.progress)) \in Times
  BY <1>2, FacadeTyped, ClientTyped
<1>4. Told(call) \in Sent
  BY <1>2, <1>3, ItemTyped DEF Told
<1>5. QED
  BY <1>2, <1>4

LEMMA FinishesFacts ==
    ASSUME NEW k, NEW d \in Displays, NEW call \in AnyCall,
           NEW cover \in Covers \cup {None}, IsKeys(k),
           Finishes(k, d, call, cover)
    PROVE  /\ Display' \in Displays
           /\ IsKeys(keys')
           /\ client' = "none" <=> d.client = "none"
           /\ TrackStays(k, d, Display', keys')
           /\ CoverGoes(k, d, Display', keys', call, cover)
           /\ ProgressGoes(k, d, Display', keys', call)
<1> DEFINE v == Item(cover, cover, call)
           sends == New(k, call, cover) /\ ~call.changed
           d1 == IF sends THEN SendTo(d, "cover", v) ELSE d
           e == IF Moved(k, call) THEN SendTo(d1, "progress", Told(call)) ELSE d1
<1>1. /\ Shows(e)
      /\ keys' = [k EXCEPT !.cover = IF sends THEN KeyOf(call, cover) ELSE @,
                           !.progress = IF Moved(k, call)
                                        THEN FacadeProgress(call.payload.progress)
                                        ELSE @]
  BY DEF Finishes, New, Moved, Timed, Told
<1>2. /\ keys'.track = k.track
      /\ keys'.cover = IF sends THEN KeyOf(call, cover) ELSE k.cover
      /\ keys'.progress = IF Moved(k, call)
                          THEN FacadeProgress(call.payload.progress)
                          ELSE k.progress
      /\ IsKeys(keys')
  BY <1>1 DEF IsKeys
<1>3. v \in Sent
  BY ItemTyped
<1>4. /\ d1 \in Displays
      /\ d1.client = "none" <=> d.client = "none"
      /\ \A other \in Kinds \ {"cover"} :
            d1.shown[other] = d.shown[other] /\ d1.unsure[other] = d.unsure[other]
      /\ sends => /\ ~d1.unsure["cover"] => d1.shown["cover"] = v /\ d.client = "playing"
                  /\ d1.shown["cover"] \in {v, d.shown["cover"]}
      /\ ~sends => d1 = d
  <2>1. "cover" \in Kinds
    BY DEF Kinds
  <2> HIDE DEF v
  <2>2. CASE sends
    <3>1. d1 = SendTo(d, "cover", v)
      BY <2>2
    <3> HIDE DEF d1
    <3>2. QED
      BY <3>1, <2>1, <2>2, <1>3, SendFacts
  <2>3. CASE ~sends
    BY <2>3
  <2>4. QED
    BY <2>2, <2>3
<1>5. /\ e \in Displays
      /\ e.client = "none" <=> d1.client = "none"
      /\ \A other \in Kinds \ {"progress"} :
            e.shown[other] = d1.shown[other] /\ e.unsure[other] = d1.unsure[other]
      /\ Moved(k, call) =>
            /\ ~e.unsure["progress"] => /\ e.shown["progress"] = Told(call)
                                        /\ d1.client = "playing"
            /\ e.shown["progress"] \in {Told(call), d1.shown["progress"]}
      /\ ~Moved(k, call) => e = d1
  <2>1. "progress" \in Kinds
    BY DEF Kinds
  <2> HIDE DEF d1
  <2>2. CASE Moved(k, call)
    <3>1. e = SendTo(d1, "progress", Told(call))
      BY <2>2
    <3>2. Told(call) \in Sent
      BY <2>2, ToldTyped DEF Moved
    <3> HIDE DEF e
    <3>3. QED
      BY <3>1, <3>2, <2>1, <2>2, <1>4, SendFacts
  <2>3. CASE ~Moved(k, call)
    BY <2>3, <1>4
  <2>4. QED
    BY <2>2, <2>3
<1> HIDE DEF d1
<1>6. Display' = e
  <2> HIDE DEF e
  <2>1. client' = e.client /\ shown' = e.shown /\ unsure' = e.unsure
    BY <1>1 DEF Shows
  <2>2. e = [client |-> e.client, shown |-> e.shown, unsure |-> e.unsure]
    BY <1>5 DEF Displays
  <2>3. QED
    BY <2>1, <2>2 DEF Display
<1> HIDE DEF e
<1>7. client' = e.client
  BY <1>1 DEF Shows
<1>8. "track" \in Kinds /\ "cover" \in Kinds /\ "progress" \in Kinds
  BY DEF Kinds
<1>9. TrackStays(k, d, e, keys')
  BY <1>2, <1>4, <1>5, <1>8 DEF TrackStays
<1>10. CoverGoes(k, d, e, keys', call, cover)
  <2>1. e.shown["cover"] = d1.shown["cover"] /\ e.unsure["cover"] = d1.unsure["cover"]
    BY <1>5, <1>8
  <2>2. QED
    BY <2>1, <1>2, <1>4 DEF CoverGoes
<1>11. ProgressGoes(k, d, e, keys', call)
  <2>1. /\ d1.shown["progress"] = d.shown["progress"]
        /\ d1.unsure["progress"] = d.unsure["progress"]
    BY <1>4, <1>8
  <2>2. d1.client = "playing" => d.client # "none"
    BY <1>4
  <2>3. QED
    BY <2>1, <2>2, <1>2, <1>5 DEF ProgressGoes
<1>12. QED
  BY <1>2, <1>4, <1>5, <1>6, <1>7, <1>9, <1>10, <1>11

(* Keys that stand for what is shown still do after the rest of setMetadata.*)
LEMMA FinishesBacked ==
    ASSUME NEW k, NEW d \in Displays, NEW call \in AnyCall,
           NEW cover \in Covers \cup {None}, IsKeys(k), Backed(k, d),
           Finishes(k, d, call, cover)
    PROVE  Backed(keys', Display')
<1>1. /\ client' = "none" <=> d.client = "none"
      /\ TrackStays(k, d, Display', keys')
      /\ CoverGoes(k, d, Display', keys', call, cover)
      /\ ProgressGoes(k, d, Display', keys', call)
  BY FinishesFacts
<1>2. Display'.client = client'
  BY DEF Display
<1> DEFINE e == Display'
           k1 == keys'
<1>3. /\ e.client = "none" <=> d.client = "none"
      /\ TrackStays(k, d, e, k1)
      /\ CoverGoes(k, d, e, k1, call, cover)
      /\ ProgressGoes(k, d, e, k1, call)
  BY <1>1, <1>2
<1> SUFFICES Backed(k1, e)
  OBVIOUS
<1> HIDE DEF e, k1
<1>4. BackedOf(k, d, "track") /\ BackedOf(k, d, "cover") /\ BackedOf(k, d, "progress")
  BY DEF Backed, Kinds
<1>5. BackedOf(k1, e, "track")
  BY <1>3, <1>4 DEF BackedOf, TrackStays, StandsFor
<1>6. BackedOf(k1, e, "cover")
  <2>1. CASE New(k, call, cover) /\ ~call.changed
    <3> DEFINE v == Item(cover, cover, call)
    <3>1. v \in Sent /\ v # None
      BY ItemTyped, NoneAssumption
    <3>2. Digest(v.value) = KeyOf(call, cover).cover
      BY DEF Item, KeyOf
    <3> HIDE DEF v
    <3>3. /\ k1.cover = KeyOf(call, cover)
          /\ ~e.unsure["cover"] => e.shown["cover"] = v /\ d.client # "none"
      BY <2>1, <1>3 DEF CoverGoes, v
    <3>4. QED
      BY <3>1, <3>2, <3>3, <1>3 DEF BackedOf, StandsFor
  <2>2. CASE ~(New(k, call, cover) /\ ~call.changed)
    BY <2>2, <1>3, <1>4 DEF BackedOf, CoverGoes, StandsFor
  <2>3. QED
    BY <2>1, <2>2
<1>7. BackedOf(k1, e, "progress")
  <2>1. CASE Moved(k, call)
    <3>1. Told(call) \in Sent /\ Told(call) # None
      BY <2>1, ToldTyped, NoneAssumption DEF Moved
    <3>2. Told(call).value = ClientProgress(FacadeProgress(call.payload.progress))
      BY DEF Told, Item
    <3>3. /\ k1.progress = FacadeProgress(call.payload.progress)
          /\ ~e.unsure["progress"] => /\ e.shown["progress"] = Told(call)
                                      /\ d.client # "none"
      BY <2>1, <1>3 DEF ProgressGoes
    <3>4. QED
      BY <3>1, <3>2, <3>3, <1>3 DEF BackedOf, StandsFor
  <2>2. CASE ~Moved(k, call)
    BY <2>2, <1>3, <1>4 DEF BackedOf, ProgressGoes, StandsFor
  <2>3. QED
    BY <2>1, <2>2
<1>8. QED
  BY <1>5, <1>6, <1>7 DEF Backed, Kinds

(* What it shows is what was shown before, or comes with the call. *)
LEMMA FinishesShows ==
    ASSUME NEW k, NEW d \in Displays, NEW call \in AnyCall,
           NEW cover \in Covers \cup {None}, IsKeys(k),
           Finishes(k, d, call, cover), NEW kind \in Kinds,
           shown'[kind] # d.shown[kind]
    PROVE  /\ shown'[kind].session = call.session
           /\ shown'[kind].waited = call.waited
           /\ kind = "progress" => Timed(call) /\ shown'[kind] = Told(call)
<1>1. /\ TrackStays(k, d, Display', keys')
      /\ CoverGoes(k, d, Display', keys', call, cover)
      /\ ProgressGoes(k, d, Display', keys', call)
  BY FinishesFacts
<1>2. Display'.shown = shown'
  BY DEF Display
<1>3. kind # "track"
  BY <1>1, <1>2 DEF TrackStays
<1>4. CASE kind = "cover"
  <2>1. shown'["cover"] = Item(cover, cover, call)
    BY <1>1, <1>2, <1>4 DEF CoverGoes
  <2>2. QED
    BY <2>1, <1>4 DEF Item
<1>5. CASE kind = "progress"
  <2>1. Moved(k, call) /\ shown'["progress"] = Told(call)
    BY <1>1, <1>2, <1>5 DEF ProgressGoes
  <2>2. QED
    BY <2>1, <1>5 DEF Told, Item, Moved
<1>6. QED
  BY <1>3, <1>4, <1>5 DEF Kinds

(* What it leaves queued is what was queued, or the call's own cover. *)
LEMMA FinishesQueue ==
    ASSUME NEW k, NEW d, NEW call \in AnyCall,
           NEW cover \in Covers \cup {None}, Finishes(k, d, call, cover)
    PROVE  \/ pending' = pending /\ ~(New(k, call, cover) /\ call.changed)
           \/ /\ New(k, call, cover) /\ call.changed
              /\ cover \in Covers
              /\ pending' = [key |-> KeyOf(call, cover), cover |-> cover,
                             call |-> call]
  BY DEF Finishes, New

-----------------------------------------------------------------------------
(* setMetadata up to its cover: the call as it was made, and what a changed*)
(* track does to the keys and to the display.                              *)
TrackGoes(k, d, call) ==
    IF call.changed
    THEN /\ call.payload.track # None
         /\ k.track = call.payload.track /\ k.cover = None
         /\ ~d.unsure["track"] =>
                d.shown["track"] = Item(call.payload.track, call.payload.track, call)
         /\ d.shown["track"] \in {Item(call.payload.track, call.payload.track, call),
                                  shown["track"]}
         /\ \A kind \in {"cover", "progress"} :
                d.shown[kind] = shown[kind] /\ d.unsure[kind] = unsure[kind]
    ELSE /\ k = keys /\ d = Display
         /\ call.payload.track = None \/ call.payload.track = keys.track

Made(call, p) ==
    /\ call.id = calls + 1 /\ call.payload = p
    /\ call.session = session /\ call.waited = FALSE

Waits(k, d, call) ==
    /\ \/ /\ coverFetch = 0
          /\ keys' = [k EXCEPT !.url = call.payload.url, !.cover = None]
          /\ fetches' = fetches \cup {[id |-> call.id, url |-> call.payload.url]}
          /\ coverFetch' = call.id
       \/ /\ coverFetch # 0
          /\ keys' = k
          /\ UNCHANGED <<fetches, coverFetch>>
    /\ waiting' = waiting \cup {[call |-> call, fetch |-> coverFetch']}
    /\ Shows(d)
    /\ UNCHANGED <<pending, latest>>

GoesOn(k, d, call) ==
    /\ Finishes(k, d, call, call.payload.cover)
    /\ UNCHANGED <<fetches, coverFetch, waiting>>

(* setMetadata with payload p makes a call, sends its track, after which   *)
(* the keys are k and the display d, and waits for a cover or goes on.     *)
SetsOff(k, d, call, p) ==
    /\ IsKeys(k) /\ Made(call, p) /\ TrackGoes(k, d, call)
    /\ k.progress = keys.progress
    /\ d.client # "none"
    /\ Waits(k, d, call) \/ GoesOn(k, d, call)

LEMMA SetMetadataFacts ==
    ASSUME NEW p \in Payloads, Typed, SetMetadata(p)
    PROVE  \E call \in AnyCall, d \in Displays : \E k : SetsOff(k, d, call, p)
<1> DEFINE changed == p.track # None /\ p.track # keys.track
           call == [id |-> calls + 1, session |-> session, payload |-> p,
                    changed |-> changed, waited |-> FALSE]
           v == Item(p.track, p.track, call)
           k == IF changed THEN [keys EXCEPT !.track = p.track, !.cover = None,
                                             !.url = None]
                           ELSE keys
           d == IF changed THEN SendTo(Display, "track", v) ELSE Display
<1>1. call \in AnyCall
  <2>1. calls \in Nat /\ MaxCalls \in Nat /\ calls < MaxCalls /\ calls + 1 \in 1..MaxCalls
    BY BoundsAssumption DEF Typed, SetMetadata, Call
  <2>2. session \in 0..MaxSessions /\ changed \in BOOLEAN
    BY DEF Typed
  <2> HIDE DEF changed
  <2>3. QED
    BY <2>1, <2>2 DEF AnyCall
<1>2. Made(call, p) /\ call.changed = changed
  BY DEF Made
<1>3. v \in Sent
  <2>1. p.track \in Tracks
    BY DEF Tracks
  <2>2. QED
    BY <2>1, <1>1, ItemTyped
<1>4. IsKeys(keys) /\ Display \in Displays /\ client # "none"
  BY DEF Typed, SetMetadata
<1>5. /\ IsKeys(k) /\ k.progress = keys.progress
      /\ changed => k.track = p.track /\ k.cover = None
      /\ ~changed => k = keys
  BY <1>4 DEF IsKeys
<1>6. /\ d \in Displays
      /\ d.client # "none"
      /\ changed => /\ ~d.unsure["track"] => d.shown["track"] = v
                    /\ d.shown["track"] \in {v, shown["track"]}
                    /\ \A kind \in {"cover", "progress"} :
                         d.shown[kind] = shown[kind] /\ d.unsure[kind] = unsure[kind]
      /\ ~changed => d = Display
  <2> HIDE DEF v, changed
  <2>1. /\ Display.client = client /\ Display.shown = shown
        /\ Display.unsure = unsure
    BY DEF Display
  <2>2. CASE changed
    <3>1. d = SendTo(Display, "track", v)
      BY <2>2
    <3> HIDE DEF d
    <3>2. "track" \in Kinds /\ {"cover", "progress"} \subseteq Kinds \ {"track"}
      BY DEF Kinds
    <3>3. QED
      BY <2>1, <2>2, <3>1, <3>2, <1>3, <1>4, SendFacts
  <2>3. CASE ~changed
    BY <2>1, <2>3, <1>4
  <2>4. QED
    BY <2>2, <2>3
<1>7. TrackGoes(k, d, call)
  <2>1. call.changed = changed /\ call.payload = p
    BY DEF Made
  <2> HIDE DEF k, d, call
  <2>2. CASE changed
    BY <2>1, <2>2, <1>5, <1>6 DEF TrackGoes
  <2>3. CASE ~changed
    BY <2>1, <2>3, <1>5, <1>6 DEF TrackGoes
  <2>4. QED
    BY <2>2, <2>3
<1>8. Waits(k, d, call) \/ GoesOn(k, d, call)
  <2> DEFINE looksUp == p.cover = None /\ p.url # None
             fetches1 == looksUp /\ p.url # k.url /\ coverFetch = 0
             waits == looksUp /\ (fetches1 \/ coverFetch # 0)
  <2>1. IF waits
        THEN /\ keys' = IF fetches1
                        THEN [k EXCEPT !.url = p.url, !.cover = None] ELSE k
             /\ fetches' = IF fetches1
                           THEN fetches \cup {[id |-> call.id, url |-> p.url]}
                           ELSE fetches
             /\ coverFetch' = IF fetches1 THEN call.id ELSE coverFetch
             /\ waiting' = waiting \cup {[call |-> call, fetch |-> coverFetch']}
             /\ Shows(d)
             /\ UNCHANGED <<pending, latest>>
        ELSE /\ Finishes(k, d, call, p.cover)
             /\ UNCHANGED <<fetches, coverFetch, waiting>>
    BY DEF SetMetadata
  <2>2. call.payload = p
    OBVIOUS
  <2> HIDE DEF k, d, call
  <2>3. QED
    BY <2>1, <2>2 DEF Waits, GoesOn
<1>9. QED
  <2> HIDE DEF k, d, call
  <2>1. QED
    BY <1>1, <1>2, <1>5, <1>6, <1>7, <1>8 DEF SetsOff

(* The keys still stand for what is shown. *)
LEMMA TrackBacked ==
    ASSUME NEW k, NEW d \in Displays, NEW call \in AnyCall,
           Typed, TrackGoes(k, d, call), k.progress = keys.progress,
           Backed(keys, Display), client # "none", d.client # "none"
    PROVE  Backed(k, d)
<1>1. CASE call.changed
  <2>1. /\ Display.client = client /\ Display.shown = shown
        /\ Display.unsure = unsure
    BY DEF Display
  <2>2. BackedOf(keys, Display, "progress")
    BY DEF Backed, Kinds
  <2>3. BackedOf(k, d, "progress")
    BY <1>1, <2>1, <2>2 DEF BackedOf, TrackGoes, StandsFor
  <2>4. BackedOf(k, d, "cover")
    BY <1>1 DEF BackedOf, TrackGoes
  <2>5. BackedOf(k, d, "track")
    <3> DEFINE v == Item(call.payload.track, call.payload.track, call)
    <3>1. v \in Sent /\ v # None
      <4>1. call.payload.track \in Tracks
        BY DEF Tracks, AnyCall
      <4>2. QED
        BY <4>1, ItemTyped, NoneAssumption
    <3>2. v.value = call.payload.track
      BY DEF Item
    <3>3. k.track = call.payload.track /\ (~d.unsure["track"] => d.shown["track"] = v)
      BY <1>1 DEF TrackGoes
    <3> HIDE DEF v
    <3>4. QED
      BY <3>1, <3>2, <3>3 DEF BackedOf, StandsFor
  <2>6. QED
    BY <2>3, <2>4, <2>5 DEF Backed, Kinds
<1>2. CASE ~call.changed
  BY <1>2 DEF TrackGoes
<1>3. QED
  BY <1>1, <1>2

-----------------------------------------------------------------------------
(* The other steps that send.                                              *)

LEMMA DisplayFields ==
    /\ Display.client = client /\ Display.shown = shown /\ Display.unsure = unsure
  BY DEF Display

(* The timer sends the cover that was queued, with the call it came with.  *)
LEMMA TimerFacts ==
    ASSUME Typed, ArtworkTimer
    PROVE  \E c \in AnyCall, v \in Covers :
             /\ pending = [key |-> KeyOf(c, v), cover |-> v, call |-> c]
             /\ pending' = None
             /\ Display' \in Displays
             /\ \/ KeyOf(c, v) = keys.cover
                   /\ UNCHANGED <<keys, client, shown, unsure>>
                \/ /\ keys' = [keys EXCEPT !.cover = KeyOf(c, v)]
                   /\ Display' = SendTo(Display, "cover", Item(v, v, c))
<1>1. PICK c \in AnyCall, v \in Covers :
          pending = [key |-> KeyOf(c, v), cover |-> v, call |-> c]
  BY DEF Typed, ArtworkTimer, IsPending
<1>2. pending.key = KeyOf(c, v) /\ pending.cover = v /\ pending.call = c
  BY <1>1
<1>3. Display \in Displays /\ "cover" \in Kinds /\ Item(v, v, c) \in Sent
  BY ItemTyped DEF Typed, Kinds
<1>4. CASE KeyOf(c, v) = keys.cover
  <2>1. UNCHANGED <<keys, client, shown, unsure>> /\ pending' = None
    BY <1>2, <1>4 DEF ArtworkTimer
  <2>2. Display' = Display
    BY <2>1 DEF Display
  <2>3. QED
    BY <1>1, <1>3, <1>4, <2>1, <2>2
<1>5. CASE KeyOf(c, v) # keys.cover
  <2> DEFINE e == SendTo(Display, "cover", Item(v, v, c))
  <2>1. /\ keys' = [keys EXCEPT !.cover = KeyOf(c, v)]
        /\ Shows(e) /\ pending' = None
    BY <1>2, <1>5 DEF ArtworkTimer
  <2>2. e \in Displays
    BY <1>3, SendFacts
  <2> HIDE DEF e
  <2>3. e = [client |-> e.client, shown |-> e.shown, unsure |-> e.unsure]
    BY <2>2 DEF Displays
  <2>4. Display' = e
    BY <2>1, <2>3 DEF Display, Shows
  <2>5. QED
    BY <1>1, <2>1, <2>2, <2>4 DEF e
<1>6. QED
  BY <1>4, <1>5

(* A call of setTrackInfo or of setProgress leaves its kind unsure.        *)
LEMMA DirectFacts ==
    ASSUME NEW kind \in Kinds, Typed,
           NEW value \in Tracks \cup Times, NEW given \in Tracks \cup {None},
           Direct(kind, value, given)
    PROVE  /\ Display' \in Displays
           /\ client # "none" /\ client' # "none"
           /\ unsure'[kind] = TRUE
           /\ \A other \in Kinds \ {kind} :
                shown'[other] = shown[other] /\ unsure'[other] = unsure[other]
           /\ shown'[kind] \in {shown[kind],
                Item(value, given, [session |-> session, waited |-> FALSE])}
           /\ latest' = [latest EXCEPT ![kind] = value]
           /\ Call
           /\ UNCHANGED <<session, keys, pending, coverFetch, fetches, waiting,
                          resuming>>
<1> DEFINE v == Item(value, given, [session |-> session, waited |-> FALSE])
           e == SendTo(Display, kind, v)
<1>1. /\ client' = e.client /\ shown' = e.shown
      /\ unsure' = [e.unsure EXCEPT ![kind] = TRUE]
      /\ client # "none"
      /\ latest' = [latest EXCEPT ![kind] = value]
      /\ Call
      /\ UNCHANGED <<session, keys, pending, coverFetch, fetches, waiting,
                     resuming>>
  BY DEF Direct
<1>2. v \in Sent
  BY DEF Typed, Item, Sent
<1>3. Display \in Displays
  BY DEF Typed
<1> HIDE DEF v
<1>4. /\ e \in Displays
      /\ e.client = "none" <=> client = "none"
      /\ \A other \in Kinds \ {kind} :
            e.shown[other] = shown[other] /\ e.unsure[other] = unsure[other]
      /\ e.shown[kind] \in {v, shown[kind]}
  <2> HIDE DEF e
  <2>1. e = SendTo(Display, kind, v)
    BY DEF e
  <2>2. QED
    BY <2>1, <1>2, <1>3, SendFacts, DisplayFields
<1> HIDE DEF e
<1>5. /\ e.client \in Clients /\ e.shown \in [Kinds -> Sent \cup {None}]
      /\ e.unsure \in [Kinds -> BOOLEAN]
  BY <1>4 DEF Displays
<1>6. unsure' \in [Kinds -> BOOLEAN]
  BY <1>1, <1>5
<1>7. Display' \in Displays
  BY <1>1, <1>5, <1>6 DEF Display, Displays
<1>8. unsure'[kind] = TRUE
  BY <1>1, <1>5
<1>9. \A other \in Kinds \ {kind} : unsure'[other] = e.unsure[other]
  BY <1>1, <1>5
<1>10. QED
  BY <1>1, <1>4, <1>7, <1>8, <1>9 DEF v

LEMMA DirectSteps ==
    ASSUME SetTrackInfo \/ SetProgress
    PROVE  \E kind \in Kinds, value \in Tracks \cup Times, given \in Tracks \cup {None} :
             /\ Direct(kind, value, given)
             /\ kind = "progress" => given = None
<1>1. CASE SetTrackInfo
  <2>1. PICK t \in DirectTracks : Direct("track", t, t)
    BY <1>1 DEF SetTrackInfo
  <2>2. t \in Tracks /\ "track" \in Kinds
    BY DEF Tracks, Kinds
  <2>3. QED
    BY <2>1, <2>2
<1>2. CASE SetProgress
  <2>1. PICK p \in DirectTimes : Direct("progress", ClientProgress(p), None)
    BY <1>2 DEF SetProgress
  <2>2. ClientProgress(p) \in Times /\ "progress" \in Kinds
    BY TimesAssumption, ClientTyped DEF Kinds
  <2>3. QED
    BY <2>1, <2>2
<1>3. QED
  BY <1>1, <1>2

(* The steps of the client change nothing else. *)
ClientSteps == ReachesPlaying \/ HeartBeat \/ SessionEnds

LEMMA ClientFacts ==
    ASSUME Typed, ClientSteps
    PROVE  /\ Display' \in Displays
           /\ client # "none" /\ client' # "none"
           /\ UNCHANGED <<session, keys, pending, coverFetch, fetches, waiting,
                          resuming, shown, calls, unsure, hurried, latest>>
<1>1. /\ client \in {"opening", "playing", "busy"}
      /\ client' \in {"playing", "busy", "ended"}
      /\ UNCHANGED <<session, keys, pending, coverFetch, fetches, waiting,
                     resuming, shown, calls, unsure, hurried, latest>>
  BY DEF ClientSteps, ReachesPlaying, HeartBeat, SessionEnds, ClientMoves
<1>2. shown \in [Kinds -> Sent \cup {None}] /\ unsure \in [Kinds -> BOOLEAN]
  BY DisplayFields DEF Typed, Displays
<1>3. Display' \in Displays
  BY <1>1, <1>2 DEF Display, Displays, Clients
<1>4. QED
  BY <1>1, <1>3

(* Starting and stopping. *)
LEMMA StartStopFacts ==
    ASSUME Typed, Start \/ Stop
    PROVE  /\ Display' \in Displays
           /\ IsKeys(keys')
           /\ shown' = Blank
           /\ client # "none" => keys' = NoKeys /\ pending' = None /\ unsure' = Sure
           /\ client = "none" => /\ keys' = keys /\ pending' = pending
                                 /\ unsure' = unsure /\ client' = "opening"
           /\ resuming = {}
           /\ hurried' = (hurried \/ waiting # {})
           /\ UNCHANGED <<coverFetch, fetches, waiting, resuming, calls>>
           /\ session' \in 0..MaxSessions
<1>1. unsure \in [Kinds -> BOOLEAN] /\ IsKeys(keys)
  BY DisplayFields DEF Typed, Displays
<1>2. Blank \in [Kinds -> Sent \cup {None}] /\ Sure \in [Kinds -> BOOLEAN]
  BY DEF Blank, Sure
<1>3. IsKeys(NoKeys)
  BY DEF IsKeys, NoKeys
<1>4. CASE Start
  <2>1. session' \in 0..MaxSessions
    BY <1>4, BoundsAssumption DEF Start, Typed
  <2>2. CASE client # "none"
    <3>1. /\ client' = "opening" /\ shown' = Blank /\ unsure' = Sure
          /\ keys' = NoKeys /\ pending' = None
          /\ hurried' = (hurried \/ waiting # {})
          /\ resuming = {}
          /\ UNCHANGED <<coverFetch, fetches, waiting, resuming, calls>>
      BY <1>4, <2>2 DEF Start, Clears
    <3>2. Display' \in Displays
      BY <3>1, <1>2 DEF Display, Displays, Clients
    <3>3. QED
      BY <3>1, <3>2, <2>1, <2>2, <1>3
  <2>3. CASE client = "none"
    <3>1. /\ client' = "opening" /\ shown' = Blank
          /\ UNCHANGED <<keys, pending, unsure>>
          /\ hurried' = (hurried \/ waiting # {})
          /\ resuming = {}
          /\ UNCHANGED <<coverFetch, fetches, waiting, resuming, calls>>
      BY <1>4, <2>3 DEF Start
    <3>2. Display' \in Displays
      BY <3>1, <1>1, <1>2 DEF Display, Displays, Clients
    <3>3. QED
      BY <3>1, <3>2, <2>1, <2>3, <1>1
  <2>4. QED
    BY <2>2, <2>3
<1>5. CASE Stop
  <2>1. /\ client # "none" /\ client' = "none" /\ shown' = Blank
        /\ unsure' = Sure /\ keys' = NoKeys /\ pending' = None
        /\ hurried' = (hurried \/ waiting # {})
        /\ resuming = {}
        /\ UNCHANGED <<session, coverFetch, fetches, waiting, resuming, calls>>
    BY <1>5 DEF Stop, Clears
  <2>2. Display' \in Displays
    BY <2>1, <1>2 DEF Display, Displays, Clients
  <2>3. session' \in 0..MaxSessions
    BY <2>1 DEF Typed
  <2>4. QED
    BY <2>1, <2>2, <2>3, <1>3
<1>6. QED
  BY <1>4, <1>5

-----------------------------------------------------------------------------
(* Types, and the fetch under way.                                         *)

LEMMA InitTyped == Init => Typed /\ Flight
<1> SUFFICES ASSUME Init
             PROVE  Typed /\ Flight
  OBVIOUS
<1>1. 0 \in 0..MaxSessions /\ 0 \in 0..MaxCalls
  BY BoundsAssumption
<1>2. Blank \in [Kinds -> Sent \cup {None}] /\ Sure \in [Kinds -> BOOLEAN]
  BY DEF Blank, Sure
<1>3. IsKeys(NoKeys)
  BY DEF IsKeys, NoKeys
<1>4. Display \in Displays
  BY <1>2 DEF Init, Display, Displays, Clients
<1>5. QED
  BY <1>1, <1>3, <1>4 DEF Init, Typed, Flight

LEMMA CallTyped ==
    ASSUME Typed, Call
    PROVE  /\ calls' = calls + 1 /\ calls' \in 0..MaxCalls
           /\ hurried' \in BOOLEAN
           /\ \A S : fetches \subseteq [id : 1..calls, url : S]
                         => fetches \subseteq [id : 1..calls', url : S]
<1>1. calls \in Nat /\ MaxCalls \in Nat /\ calls < MaxCalls /\ calls' = calls + 1
  BY BoundsAssumption DEF Typed, Call
<1>2. 1..calls \subseteq 1..calls'
  BY <1>1
<1>3. hurried' \in BOOLEAN
  BY DEF Call, Typed
<1>4. QED
  BY <1>1, <1>2, <1>3

LEMMA SetMetadataTyped ==
    ASSUME NEW p \in Payloads, Typed, Flight, SetMetadata(p)
    PROVE  Typed' /\ Flight'
<1>0. PICK call \in AnyCall, d \in Displays : \E k : SetsOff(k, d, call, p)
  BY SetMetadataFacts
<1>1. PICK k :
        /\ IsKeys(k) /\ Made(call, p)
        /\ Waits(k, d, call) \/ GoesOn(k, d, call)
  BY <1>0 DEF SetsOff
<1>2. /\ UNCHANGED <<session, resuming>>
      /\ Call
      /\ resuming = {}
  BY DEF SetMetadata, Call
<1>3. /\ calls' = calls + 1 /\ calls' \in 0..MaxCalls
      /\ hurried' \in BOOLEAN
      /\ fetches \subseteq [id : 1..calls', url : Covers]
  BY <1>2, CallTyped DEF Typed
<1>4. call.id = calls + 1 /\ call.id \in Nat /\ call.id \in 1..calls'
      /\ call.payload.url \in Covers /\ call.payload.cover \in Covers
  BY <1>1, <1>3 DEF Made, AnyCall, Covers, Typed
<1>5. CASE Waits(k, d, call)
  <2>1. /\ IsKeys(keys')
        /\ Display' = d
        /\ UNCHANGED pending
        /\ waiting' = waiting \cup {[call |-> call, fetch |-> coverFetch']}
    <3>1. IsKeys(keys')
      BY <1>1, <1>5 DEF Waits, IsKeys
    <3>2. d = [client |-> d.client, shown |-> d.shown, unsure |-> d.unsure]
      BY DEF Displays
    <3>3. Display' = d
      BY <1>5, <3>2 DEF Waits, Shows, Display
    <3>4. QED
      BY <1>5, <3>1, <3>3 DEF Waits
  <2>2. CASE /\ coverFetch = 0
             /\ fetches' = fetches \cup {[id |-> call.id, url |-> call.payload.url]}
             /\ coverFetch' = call.id
    <3> DEFINE f == [id |-> call.id, url |-> call.payload.url]
    <3>1. f \in [id : 1..calls', url : Covers] /\ f.id = call.id
      BY <1>4
    <3>2. fetches' = {f} /\ f \in fetches'
      BY <2>2 DEF Flight
    <3>3. coverFetch' \in Nat /\ coverFetch' # 0
      BY <2>2, <1>4 DEF Typed
    <3>4. [call |-> call, fetch |-> coverFetch'] \in [call : AnyCall, fetch : Nat]
      BY <3>3
    <3>5. waiting' \subseteq [call : AnyCall, fetch : Nat]
      BY <2>1, <3>4 DEF Typed
    <3>6. fetches' \subseteq [id : 1..calls', url : Covers]
      BY <3>1, <3>2
    <3>7. Typed'
      BY <1>2, <1>3, <2>1, <3>5, <3>6 DEF Typed, IsPending
    <3>8. waiting = {}
      BY <2>2 DEF Flight
    <3>9. \A w \in waiting' : w.fetch = coverFetch'
      BY <2>1, <3>8
    <3>10. \E g \in fetches' : fetches' = {g} /\ g.id = coverFetch'
      BY <3>1, <3>2, <2>2
    <3>11. Flight'
      BY <3>3, <3>9, <3>10, <1>2 DEF Flight
    <3>12. QED
      BY <3>7, <3>11
  <2>3. CASE coverFetch # 0 /\ UNCHANGED <<fetches, coverFetch>>
    <3>1. PICK g \in fetches : fetches = {g} /\ g.id = coverFetch
      BY <2>3 DEF Flight
    <3>2. coverFetch \in Nat
      BY <3>1 DEF Typed
    <3>3. waiting' \subseteq [call : AnyCall, fetch : Nat]
      BY <2>1, <2>3, <3>2 DEF Typed
    <3>4. Typed'
      BY <1>2, <1>3, <2>1, <2>3, <3>3 DEF Typed, IsPending
    <3>5. Flight'
      BY <1>2, <2>1, <2>3 DEF Flight
    <3>6. QED
      BY <3>4, <3>5
  <2>4. QED
    BY <1>5, <2>2, <2>3 DEF Waits
<1>6. CASE GoesOn(k, d, call)
  <2>1. Finishes(k, d, call, call.payload.cover)
    BY <1>6 DEF GoesOn
  <2>2. Display' \in Displays /\ IsKeys(keys')
    BY <1>1, <1>4, <2>1, FinishesFacts
  <2>3. pending' = None \/ IsPending(pending')
    BY <2>1, <1>4, FinishesQueue DEF Typed, IsPending
  <2>4. UNCHANGED <<fetches, coverFetch, waiting>>
    BY <1>6 DEF GoesOn
  <2>5. Typed'
    BY <1>2, <1>3, <2>2, <2>3, <2>4 DEF Typed, IsPending
  <2>6. Flight'
    BY <1>2, <2>4 DEF Flight
  <2>7. QED
    BY <2>5, <2>6
<1>7. QED
  BY <1>1, <1>5, <1>6

LEMMA FetchEndsTyped ==
    ASSUME NEW f \in fetches, NEW cover \in Covers \cup {None},
           Typed, Flight, FetchEnds(f, cover)
    PROVE  /\ Typed' /\ Flight'
           /\ waiting' = {}
           /\ resuming' = {[call |-> w.call, cover |-> cover] : w \in waiting}
<1>1. /\ fetches' = fetches \ {f} /\ coverFetch' = 0
      /\ waiting' = {w \in waiting : w.fetch # f.id}
      /\ resuming' = {[call |-> w.call, cover |-> cover] :
                          w \in {v \in waiting : v.fetch = f.id}}
      /\ UNCHANGED <<session, client, keys, pending, shown, calls, unsure,
                     hurried, latest>>
  BY DEF FetchEnds
<1>2. fetches = {f} /\ f.id = coverFetch
  BY DEF Flight
<1>3. \A w \in waiting : w.fetch = f.id
  BY <1>2 DEF Flight
<1>4. fetches' = {} /\ waiting' = {}
  BY <1>1, <1>2, <1>3
<1>5. resuming' = {[call |-> w.call, cover |-> cover] : w \in waiting}
  BY <1>1, <1>3
<1>6. resuming' \subseteq [call : AnyCall, cover : Covers \cup {None}]
  BY <1>5 DEF Typed
<1>7. Typed'
  BY <1>1, <1>4, <1>6 DEF Typed, Display, IsPending
<1>8. Flight'
  BY <1>1, <1>4 DEF Flight
<1>9. QED
  BY <1>4, <1>5, <1>7, <1>8

(* The call that goes on is a call that waited. *)
Again(r) == [r.call EXCEPT !.waited = TRUE]

LEMMA AgainTyped ==
    ASSUME NEW r \in [call : AnyCall, cover : Covers \cup {None}]
    PROVE  /\ Again(r) \in AnyCall
           /\ Again(r).waited = TRUE /\ Again(r).payload = r.call.payload
           /\ Again(r).changed = r.call.changed
  BY DEF Again, AnyCall

LEMMA GoesTyped ==
    ASSUME NEW r \in resuming, Typed, Flight, Goes(r)
    PROVE  Typed' /\ Flight'
<1>1. /\ Finishes(keys, Display, Again(r), r.cover)
      /\ resuming' = resuming \ {r}
      /\ UNCHANGED <<session, coverFetch, fetches, waiting, calls, hurried>>
  BY DEF Goes, Again
<1>2. /\ r \in [call : AnyCall, cover : Covers \cup {None}]
      /\ r.cover \in Covers \cup {None}
      /\ Display \in Displays /\ IsKeys(keys)
  BY DEF Typed
<1>3. Again(r) \in AnyCall
  BY <1>2, AgainTyped
<1>4. Display' \in Displays /\ IsKeys(keys')
  BY <1>1, <1>2, <1>3, FinishesFacts
<1>5. pending' = None \/ IsPending(pending')
  BY <1>1, <1>2, <1>3, FinishesQueue DEF Typed, IsPending
<1>6. Typed'
  BY <1>1, <1>4, <1>5 DEF Typed, IsPending
<1>7. Flight'
  BY <1>1 DEF Flight
<1>8. QED
  BY <1>6, <1>7

LEMMA TypedStep ==
    ASSUME Typed, Flight, [Next]_vars
    PROVE  Typed' /\ Flight'
<1>1. ASSUME NEW p \in Payloads, SetMetadata(p)
      PROVE  Typed' /\ Flight'
  BY <1>1, SetMetadataTyped
<1>2. CASE FetchSucceeds \/ FetchAborts
  <2>1. PICK f \in fetches : FetchEnds(f, f.url) \/ FetchEnds(f, None)
    BY <1>2 DEF FetchSucceeds, FetchAborts
  <2>2. f.url \in Covers
    BY DEF Typed
  <2>3. QED
    BY <2>1, <2>2, FetchEndsTyped
<1>3. CASE Resume
  BY <1>3, GoesTyped DEF Resume
<1>4. CASE ArtworkTimer
  <2>1. Display' \in Displays /\ pending' = None /\ IsKeys(keys')
    BY <1>4, TimerFacts DEF IsKeys, Typed
  <2>2. UNCHANGED <<session, coverFetch, fetches, waiting, resuming, calls, hurried>>
    BY <1>4 DEF ArtworkTimer
  <2>3. Typed'
    BY <2>1, <2>2 DEF Typed
  <2>4. Flight'
    BY <2>2 DEF Flight
  <2>5. QED
    BY <2>3, <2>4
<1>5. ASSUME NEW kind \in Kinds, NEW value \in Tracks \cup Times,
             NEW given \in Tracks \cup {None}, Direct(kind, value, given)
      PROVE  Typed' /\ Flight'
  <2>1. /\ Display' \in Displays /\ Call
        /\ UNCHANGED <<session, keys, pending, coverFetch, fetches, waiting,
                       resuming>>
    BY <1>5, DirectFacts
  <2>2. /\ calls' \in 0..MaxCalls /\ hurried' \in BOOLEAN
        /\ fetches \subseteq [id : 1..calls', url : Covers]
    BY <2>1, CallTyped DEF Typed
  <2>3. Typed'
    BY <2>1, <2>2 DEF Typed, IsPending
  <2>4. Flight'
    BY <2>1 DEF Flight
  <2>5. QED
    BY <2>3, <2>4
<1>6. CASE SetTrackInfo \/ SetProgress
  BY <1>5, <1>6, DirectSteps
<1>7. CASE Start \/ Stop
  <2>1. /\ Display' \in Displays /\ IsKeys(keys')
        /\ pending' = None \/ pending' = pending
        /\ hurried' = (hurried \/ waiting # {})
        /\ UNCHANGED <<coverFetch, fetches, waiting, resuming, calls>>
        /\ session' \in 0..MaxSessions
    BY <1>7, StartStopFacts
  <2>2. hurried' \in BOOLEAN
    BY <2>1 DEF Typed
  <2>3. Typed'
    BY <2>1, <2>2 DEF Typed, IsPending
  <2>4. Flight'
    BY <2>1 DEF Flight
  <2>5. QED
    BY <2>3, <2>4
<1>8. CASE ClientSteps
  <2>1. /\ Display' \in Displays
        /\ UNCHANGED <<session, keys, pending, coverFetch, fetches, waiting,
                       resuming, calls, hurried>>
    BY <1>8, ClientFacts
  <2>2. QED
    BY <2>1 DEF Typed, Flight, IsPending
<1>9. CASE UNCHANGED vars
  BY <1>9 DEF vars, Typed, Flight, Display, IsPending
<1>10. QED
  BY <1>1, <1>2, <1>3, <1>4, <1>6, <1>7, <1>8, <1>9 DEF Next, ClientSteps

-----------------------------------------------------------------------------
(* Deduplication.                                                          *)

LEMMA BackedStep ==
    ASSUME Typed, Flight, Backed(keys, Display), [Next]_vars
    PROVE  Backed(keys, Display)'
<1>1. ASSUME NEW p \in Payloads, SetMetadata(p)
      PROVE  Backed(keys, Display)'
  <2>0. PICK call \in AnyCall, d \in Displays : \E k : SetsOff(k, d, call, p)
    BY <1>1, SetMetadataFacts
  <2>1. PICK k :
          /\ IsKeys(k) /\ TrackGoes(k, d, call) /\ Made(call, p)
          /\ k.progress = keys.progress
          /\ d.client # "none"
          /\ Waits(k, d, call) \/ GoesOn(k, d, call)
    BY <2>0 DEF SetsOff
  <2>2. client # "none"
    BY <1>1 DEF SetMetadata
  <2>3. Backed(k, d)
    BY <2>1, <2>2, TrackBacked
  <2>4. CASE Waits(k, d, call)
    <3>1. d = [client |-> d.client, shown |-> d.shown, unsure |-> d.unsure]
      BY DEF Displays
    <3>2. Display' = d
      BY <2>4, <3>1 DEF Waits, Shows, Display
    <3>3. keys' = k \/ keys' = [k EXCEPT !.url = call.payload.url, !.cover = None]
      BY <2>4 DEF Waits
    <3>4. CASE keys' = k
      BY <3>2, <3>4, <2>3
    <3>5. CASE keys' = [k EXCEPT !.url = call.payload.url, !.cover = None]
      <4>1. /\ keys'.track = k.track /\ keys'.progress = k.progress
            /\ keys'.cover = None
        BY <3>5, <2>1 DEF IsKeys
      <4> DEFINE k1 == keys'
      <4> HIDE DEF k1
      <4>2. Backed(k1, d)
        <5>1. /\ BackedOf(k, d, "track") /\ BackedOf(k, d, "progress")
              /\ k1.track = k.track /\ k1.progress = k.progress
              /\ k1.cover = None
          BY <2>3, <4>1 DEF Backed, Kinds, k1
        <5>2. BackedOf(k1, d, "track") /\ BackedOf(k1, d, "progress")
          BY <5>1 DEF BackedOf, StandsFor
        <5>3. BackedOf(k1, d, "cover")
          BY <5>1 DEF BackedOf
        <5>4. QED
          BY <5>2, <5>3 DEF Backed, Kinds
      <4>3. QED
        BY <3>2, <4>2 DEF k1
    <3>6. QED
      BY <3>3, <3>4, <3>5
  <2>5. CASE GoesOn(k, d, call)
    <3>1. call.payload.cover \in Covers \cup {None}
      BY DEF AnyCall, Covers
    <3>2. Finishes(k, d, call, call.payload.cover)
      BY <2>5 DEF GoesOn
    <3>3. QED
      BY <3>1, <3>2, <2>1, <2>3, FinishesBacked
  <2>6. QED
    BY <2>1, <2>4, <2>5
<1>2. CASE FetchSucceeds \/ FetchAborts \/ UNCHANGED vars
  <2>1. UNCHANGED <<keys, client, shown, unsure>>
    BY <1>2 DEF FetchSucceeds, FetchAborts, FetchEnds, vars
  <2>2. QED
    BY <2>1 DEF Backed, BackedOf, Display
<1>3. CASE Resume
  <2>1. PICK r \in resuming : Goes(r)
    BY <1>3 DEF Resume
  <2>2. r \in [call : AnyCall, cover : Covers \cup {None}]
    BY DEF Typed
  <2>3. Finishes(keys, Display, Again(r), r.cover) /\ r.cover \in Covers \cup {None}
    BY <2>1, <2>2 DEF Goes, Again
  <2>4. Again(r) \in AnyCall /\ Display \in Displays /\ IsKeys(keys)
    BY <2>2, AgainTyped DEF Typed
  <2>5. QED
    BY <2>3, <2>4, FinishesBacked
<1>4. CASE ArtworkTimer
  <2>1. PICK c \in AnyCall, v \in Covers :
          /\ \/ KeyOf(c, v) = keys.cover
                /\ UNCHANGED <<keys, client, shown, unsure>>
             \/ /\ keys' = [keys EXCEPT !.cover = KeyOf(c, v)]
                /\ Display' = SendTo(Display, "cover", Item(v, v, c))
    BY <1>4, TimerFacts
  <2>2. CASE UNCHANGED <<keys, client, shown, unsure>>
    BY <2>2 DEF Backed, BackedOf, Display
  <2>3. CASE /\ keys' = [keys EXCEPT !.cover = KeyOf(c, v)]
             /\ Display' = SendTo(Display, "cover", Item(v, v, c))
    <3> DEFINE i == Item(v, v, c)
               e == Display'
               k1 == keys'
    <3>1. i \in Sent /\ i # None /\ i.value = v /\ "cover" \in Kinds
      BY ItemTyped, NoneAssumption DEF Item, Kinds
    <3>2. /\ k1.cover = KeyOf(c, v) /\ k1.track = keys.track
          /\ k1.progress = keys.progress
      BY <2>3 DEF Typed, IsKeys
    <3>3. Display \in Displays
      BY DEF Typed
    <3> HIDE DEF i, e, k1
    <3>4. e = SendTo(Display, "cover", i)
      BY <2>3 DEF e, i
    <3>5. /\ e.client = "none" <=> Display.client = "none"
          /\ \A other \in Kinds \ {"cover"} : e.shown[other] = Display.shown[other]
                                      /\ e.unsure[other] = Display.unsure[other]
          /\ ~e.unsure["cover"] => e.shown["cover"] = i /\ Display.client = "playing"
      BY <3>1, <3>3, <3>4, SendFacts
    <3>6. KeyOf(c, v).cover = Digest(v)
      BY DEF KeyOf
    <3>7. BackedOf(k1, e, "cover")
      BY <3>1, <3>2, <3>5, <3>6 DEF BackedOf, StandsFor
    <3>8. BackedOf(keys, Display, "track") /\ BackedOf(keys, Display, "progress")
      BY DEF Backed, Kinds
    <3>9. "track" \in Kinds \ {"cover"} /\ "progress" \in Kinds \ {"cover"}
      BY DEF Kinds
    <3>10. BackedOf(k1, e, "track") /\ BackedOf(k1, e, "progress")
      BY <3>2, <3>5, <3>8, <3>9 DEF BackedOf, StandsFor
    <3>11. QED
      BY <3>7, <3>10 DEF Backed, Kinds, e, k1
  <2>4. QED
    BY <2>1, <2>2, <2>3
<1>5. ASSUME NEW kind \in Kinds, NEW value \in Tracks \cup Times,
             NEW given \in Tracks \cup {None}, Direct(kind, value, given)
      PROVE  Backed(keys, Display)'
  <2>1. /\ client # "none" /\ client' # "none"
        /\ unsure'[kind] = TRUE
        /\ \A other \in Kinds \ {kind} :
                shown'[other] = shown[other] /\ unsure'[other] = unsure[other]
        /\ UNCHANGED keys
    BY <1>5, DirectFacts
  <2>2. ASSUME NEW other \in Kinds
        PROVE  BackedOf(keys, Display, other)'
    <3>1. BackedOf(keys, Display, other)
      BY DEF Backed
    <3>2. QED
      BY <2>1, <3>1 DEF BackedOf, Display
  <2>3. QED
    BY <2>2 DEF Backed
<1>6. CASE SetTrackInfo \/ SetProgress
  BY <1>5, <1>6, DirectSteps
<1>7. CASE Start \/ Stop
  <2>1. /\ client # "none" => keys' = NoKeys
        /\ client = "none" => keys' = keys /\ unsure' = unsure
    BY <1>7, StartStopFacts
  <2>2. CASE client # "none"
    BY <2>1, <2>2 DEF Backed, BackedOf, NoKeys, Kinds
  <2>3. CASE client = "none"
    <3>1. \A kind \in Kinds : keys[kind] # None => unsure[kind]
      BY <2>3 DEF Backed, BackedOf, Display
    <3>2. QED
      BY <2>1, <2>3, <3>1 DEF Backed, BackedOf, Display
  <2>4. QED
    BY <2>2, <2>3
<1>8. CASE ClientSteps
  <2>1. /\ client # "none" /\ client' # "none"
        /\ UNCHANGED <<keys, shown, unsure>>
    BY <1>8, ClientFacts
  <2>2. ASSUME NEW kind \in Kinds
        PROVE  BackedOf(keys, Display, kind)'
    <3>1. BackedOf(keys, Display, kind)
      BY DEF Backed
    <3>2. QED
      BY <2>1, <3>1 DEF BackedOf, Display
  <2>3. QED
    BY <2>2 DEF Backed
<1>9. QED
  BY <1>1, <1>2, <1>3, <1>4, <1>6, <1>7, <1>8 DEF Next, ClientSteps

-----------------------------------------------------------------------------
(* Whose it is, and how a progress was converted.                          *)

LEMMA ToldExact ==
    ASSUME NEW call \in AnyCall, Timed(call)
    PROVE  ExactIn(Told(call))
  BY ToldTyped DEF ExactIn, Told, Item

(* What setMetadata itself shows is the session's. *)
LEMMA TrackOwned ==
    ASSUME NEW p, NEW call, NEW k, NEW d, Owned, Exact,
           Made(call, p), TrackGoes(k, d, call)
    PROVE  /\ \A kind \in Kinds : d.shown[kind] # None => Own(d.shown[kind])
           /\ ExactIn(d.shown["progress"])
<1>1. /\ \A kind \in Kinds : shown[kind] # None => Own(shown[kind])
      /\ ExactIn(shown["progress"])
  BY DEF Owned, Exact
<1>2. CASE ~call.changed
  <2>1. d.shown = shown
    BY <1>2, DisplayFields DEF TrackGoes
  <2>2. QED
    BY <1>1, <2>1
<1>3. CASE call.changed
  <2> DEFINE i == Item(call.payload.track, call.payload.track, call)
  <2>1. Own(i)
    BY DEF Own, Item, Made
  <2> HIDE DEF i
  <2>2. /\ d.shown["track"] \in {i, shown["track"]}
        /\ d.shown["cover"] = shown["cover"]
        /\ d.shown["progress"] = shown["progress"]
    BY <1>3 DEF TrackGoes, i
  <2>3. QED
    BY <1>1, <2>1, <2>2 DEF Kinds
<1>4. QED
  BY <1>2, <1>3

(* The rest of setMetadata keeps to the session, if its call does. *)
LEMMA FinishesOwned ==
    ASSUME NEW k, NEW d \in Displays, NEW call \in AnyCall,
           NEW cover \in Covers \cup {None}, IsKeys(k), Finishes(k, d, call, cover),
           \A kind \in Kinds : d.shown[kind] # None => Own(d.shown[kind]),
           ExactIn(d.shown["progress"]), session' = session,
           pending # None => Own(pending.call),
           pending # None /\ d.client = "none" => pending.call.waited,
           Own(call), d.client = "none" => call.waited
    PROVE  Owned' /\ Exact'
<1>1. client' = "none" <=> d.client = "none"
  BY FinishesFacts
<1>2. ASSUME NEW kind \in Kinds
      PROVE  /\ shown'[kind] # None => Own(shown[kind])'
             /\ kind = "progress" => ExactIn(shown'[kind])
  <2>1. CASE shown'[kind] = d.shown[kind]
    BY <2>1 DEF Own
  <2>2. CASE shown'[kind] # d.shown[kind]
    <3>1. /\ shown'[kind].session = call.session
          /\ shown'[kind].waited = call.waited
          /\ kind = "progress" => Timed(call) /\ shown'[kind] = Told(call)
      BY <2>2, FinishesShows
    <3>2. kind = "progress" => ExactIn(shown'[kind])
      BY <3>1, ToldExact
    <3>3. QED
      BY <3>1, <3>2 DEF Own
  <2>3. QED
    BY <2>1, <2>2
<1>3. CASE pending' = pending
  <2>1. Owned'
    BY <1>1, <1>2, <1>3 DEF Owned, Own
  <2>2. Exact'
    BY <1>2 DEF Exact, Kinds
  <2>3. QED
    BY <2>1, <2>2
<1>4. CASE pending' = [key |-> KeyOf(call, cover), cover |-> cover, call |-> call]
  <2>1. pending'.call = call
    BY <1>4
  <2>2. Owned'
    BY <1>1, <1>2, <2>1 DEF Owned, Own
  <2>3. Exact'
    BY <1>2 DEF Exact, Kinds
  <2>4. QED
    BY <2>2, <2>3
<1>5. QED
  BY <1>3, <1>4, FinishesQueue

LEMMA OwnedStep ==
    ASSUME Typed, Flight, Owned, Exact, [Next]_vars
    PROVE  Owned' /\ Exact'
<1>1. ASSUME NEW p \in Payloads, SetMetadata(p)
      PROVE  Owned' /\ Exact'
  <2>0. PICK call \in AnyCall, d \in Displays : \E k : SetsOff(k, d, call, p)
    BY <1>1, SetMetadataFacts
  <2>1. PICK k :
          /\ IsKeys(k) /\ Made(call, p) /\ TrackGoes(k, d, call)
          /\ d.client # "none"
          /\ Waits(k, d, call) \/ GoesOn(k, d, call)
    BY <2>0 DEF SetsOff
  <2>2. /\ \A kind \in Kinds : d.shown[kind] # None => Own(d.shown[kind])
        /\ ExactIn(d.shown["progress"])
    BY <2>1, TrackOwned
  <2>3. session' = session
    BY <1>1 DEF SetMetadata
  <2>4. CASE Waits(k, d, call)
    <3>1. shown' = d.shown /\ client' = d.client /\ pending' = pending
      BY <2>4 DEF Waits, Shows
    <3>2. Owned'
      BY <2>1, <2>2, <2>3, <3>1 DEF Owned, Own
    <3>3. Exact'
      BY <2>2, <3>1 DEF Exact
    <3>4. QED
      BY <3>2, <3>3
  <2>5. CASE GoesOn(k, d, call)
    <3>1. call.payload.cover \in Covers \cup {None}
      BY DEF AnyCall, Covers
    <3>2. Finishes(k, d, call, call.payload.cover)
      BY <2>5 DEF GoesOn
    <3>3. Own(call)
      BY <2>1 DEF Own, Made
    <3>4. pending # None => Own(pending.call)
      BY DEF Owned
    <3>5. QED
      BY <2>1, <2>2, <2>3, <3>1, <3>2, <3>3, <3>4, FinishesOwned
  <2>6. QED
    BY <2>1, <2>4, <2>5
<1>2. CASE FetchSucceeds \/ FetchAborts \/ UNCHANGED vars
  <2>1. UNCHANGED <<session, client, shown, pending>>
    BY <1>2 DEF FetchSucceeds, FetchAborts, FetchEnds, vars
  <2>2. QED
    BY <2>1 DEF Owned, Own, Exact
<1>3. CASE Resume
  <2>1. PICK r \in resuming : Goes(r)
    BY <1>3 DEF Resume
  <2>2. r \in [call : AnyCall, cover : Covers \cup {None}]
    BY DEF Typed
  <2>3. /\ Finishes(keys, Display, Again(r), r.cover)
        /\ r.cover \in Covers \cup {None} /\ session' = session
    BY <2>1, <2>2 DEF Goes, Again
  <2>4. /\ Again(r) \in AnyCall /\ Again(r).waited
        /\ Display \in Displays /\ IsKeys(keys)
    BY <2>2, AgainTyped DEF Typed
  <2>5. /\ \A kind \in Kinds : Display.shown[kind] # None => Own(Display.shown[kind])
        /\ ExactIn(Display.shown["progress"])
        /\ pending # None => Own(pending.call)
        /\ pending # None /\ Display.client = "none" => pending.call.waited
    BY DisplayFields DEF Owned, Exact
  <2>6. Own(Again(r))
    BY <2>4 DEF Own
  <2>7. QED
    BY <2>3, <2>4, <2>5, <2>6, FinishesOwned
<1>4. CASE ArtworkTimer
  <2>1. PICK c \in AnyCall, v \in Covers :
          /\ pending = [key |-> KeyOf(c, v), cover |-> v, call |-> c]
          /\ pending' = None
          /\ \/ UNCHANGED <<keys, client, shown, unsure>>
             \/ Display' = SendTo(Display, "cover", Item(v, v, c))
    BY <1>4, TimerFacts
  <2>2. session' = session
    BY <1>4 DEF ArtworkTimer
  <2>3. CASE UNCHANGED <<keys, client, shown, unsure>>
    BY <2>1, <2>2, <2>3 DEF Owned, Own, Exact
  <2>4. CASE Display' = SendTo(Display, "cover", Item(v, v, c))
    <3> DEFINE i == Item(v, v, c)
               e == Display'
    <3>1. pending # None /\ pending.call = c
      BY <2>1, <1>4 DEF ArtworkTimer
    <3>2. i \in Sent /\ i.session = c.session /\ i.waited = c.waited
      BY ItemTyped DEF Item
    <3>3. Display \in Displays /\ "cover" \in Kinds
      BY DEF Typed, Kinds
    <3>4. e.shown = shown'
      BY DEF Display
    <3>5. Own(i)
      BY <3>1, <3>2 DEF Owned, Own
    <3> HIDE DEF i, e
    <3>6. e = SendTo(Display, "cover", i)
      BY <2>4 DEF e, i
    <3>7. /\ \A other \in Kinds \ {"cover"} : shown'[other] = shown[other]
          /\ shown'["cover"] \in {i, shown["cover"]}
      BY <3>2, <3>3, <3>4, <3>6, SendFacts, DisplayFields
    <3>8. ASSUME NEW kind \in Kinds
          PROVE  shown'[kind] # None => Own(shown[kind])'
      BY <3>5, <3>7, <2>2 DEF Owned, Own
    <3>9. Owned'
      BY <3>8, <2>1 DEF Owned
    <3>10. shown'["progress"] = shown["progress"]
      BY <3>7 DEF Kinds
    <3>11. Exact'
      BY <3>10 DEF Exact
    <3>12. QED
      BY <3>9, <3>11
  <2>5. QED
    BY <2>1, <2>3, <2>4
<1>5. CASE SetTrackInfo \/ SetProgress
  <2>1. PICK kind \in Kinds, value \in Tracks \cup Times,
             given \in Tracks \cup {None} :
          Direct(kind, value, given) /\ (kind = "progress" => given = None)
    BY <1>5, DirectSteps
  <2> DEFINE i == Item(value, given, [session |-> session, waited |-> FALSE])
  <2>2. /\ client # "none" /\ client' # "none"
        /\ \A other \in Kinds \ {kind} : shown'[other] = shown[other]
        /\ shown'[kind] \in {shown[kind], i}
        /\ UNCHANGED <<session, pending>>
    BY <2>1, DirectFacts
  <2>3. Own(i) /\ i.given = given
    BY DEF Own, Item
  <2> HIDE DEF i
  <2>4. ASSUME NEW other \in Kinds
        PROVE  shown'[other] # None => Own(shown[other])'
    BY <2>2, <2>3 DEF Owned, Own
  <2>5. Owned'
    BY <2>2, <2>4 DEF Owned, Own
  <2>6. Exact'
    <3>1. "progress" \in Kinds
      BY DEF Kinds
    <3>2. ExactIn(i) \/ kind # "progress"
      BY <2>1, <2>3 DEF ExactIn
    <3>3. QED
      BY <2>2, <3>1, <3>2 DEF Exact
  <2>7. QED
    BY <2>5, <2>6
<1>6. CASE Start \/ Stop
  <2>1. /\ shown' = Blank
        /\ client # "none" => pending' = None
        /\ client = "none" => pending' = pending
    BY <1>6, StartStopFacts
  <2>2. \A kind \in Kinds : shown'[kind] = None
    BY <2>1 DEF Blank
  <2>3. pending' # None => pending' = pending /\ pending'.call.waited
    BY <2>1 DEF Owned
  <2>4. Owned'
    BY <2>2, <2>3 DEF Owned, Own
  <2>5. Exact'
    BY <2>2 DEF Exact, ExactIn, Kinds
  <2>6. QED
    BY <2>4, <2>5
<1>7. CASE ClientSteps
  <2>1. /\ client # "none" /\ client' # "none"
        /\ UNCHANGED <<session, shown, pending>>
    BY <1>7, ClientFacts
  <2>2. QED
    BY <2>1 DEF Owned, Own, Exact
<1>8. QED
  BY <1>1, <1>2, <1>3, <1>4, <1>5, <1>6, <1>7 DEF Next, ClientSteps

-----------------------------------------------------------------------------
(* Calls that leave each other time.                                       *)

(* A changed track is shown at once; one that is not changed stays shown.  *)
LEMMA TrackArrives ==
    ASSUME NEW k, NEW d \in Displays, NEW call \in AnyCall,
           TrackGoes(k, d, call), Backed(keys, Display),
           Arrived(Display, None, latest, latest.track)
    PROVE  Arrived(d, None, latest, TrackOf(call))
<1>1. CASE call.changed
  <2> DEFINE i == Item(call.payload.track, call.payload.track, call)
  <2>1. i \in Sent /\ i # None /\ i.value = call.payload.track
    <3>1. call.payload.track \in Tracks
      BY DEF Tracks, AnyCall
    <3>2. QED
      BY <3>1, ItemTyped, NoneAssumption DEF Item
  <2>2. /\ call.payload.track # None
        /\ ~d.unsure["track"] => d.shown["track"] = i
        /\ d.shown["cover"] = shown["cover"] /\ d.unsure["cover"] = unsure["cover"]
        /\ d.shown["progress"] = shown["progress"]
        /\ d.unsure["progress"] = unsure["progress"]
    BY <1>1 DEF TrackGoes
  <2> HIDE DEF i
  <2>3. Current(d, "track", TrackOf(call))
    BY <2>1, <2>2 DEF Current, TrackOf, SameItem
  <2>4. /\ Current(d, "progress", latest.progress)
        /\ Current(d, "cover", latest.cover)
    BY <2>2, DisplayFields DEF Arrived, Current
  <2>5. QED
    BY <2>3, <2>4 DEF Arrived
<1>2. CASE ~call.changed
  <2>1. d = Display /\ (call.payload.track = None \/ call.payload.track = keys.track)
    BY <1>2 DEF TrackGoes
  <2>2. BackedOf(keys, Display, "track")
    BY DEF Backed, Kinds
  <2>3. Current(Display, "track", TrackOf(call))
    BY <2>1, <2>2 DEF Arrived, Current, TrackOf, BackedOf, StandsFor, SameItem
  <2>4. QED
    BY <2>1, <2>3 DEF Arrived
<1>3. QED
  BY <1>1, <1>2

(* The rest of setMetadata shows its cover and its progress, queues the    *)
(* cover, or finds that they are shown already.                            *)
LEMMA FinishesArrives ==
    ASSUME NEW k, NEW d \in Displays, NEW call \in AnyCall,
           NEW cover \in Covers \cup {None}, IsKeys(k), Backed(k, d),
           Finishes(k, d, call, cover), pending = None,
           Arrived(d, None, latest, TrackOf(call))
    PROVE  /\ Arrived(Display', pending', latest', latest'.track)
           /\ DOMAIN latest' = Kinds
<1>1. /\ TrackStays(k, d, Display', keys')
      /\ CoverGoes(k, d, Display', keys', call, cover)
      /\ ProgressGoes(k, d, Display', keys', call)
  BY FinishesFacts
<1> DEFINE e == Display'
           p == call.payload.progress
           to == [track |-> TrackOf(call),
                  cover |-> IF cover = None THEN latest.cover ELSE cover,
                  progress |-> IF Timed(call) THEN ClientProgress(FacadeProgress(p))
                                              ELSE latest.progress]
<1>2. latest' = to
  BY DEF Finishes, TrackOf, Timed
<1>3. DOMAIN latest' = Kinds
  BY <1>2 DEF Kinds
<1>4. /\ latest'.track = TrackOf(call)
      /\ latest'.cover = IF cover = None THEN latest.cover ELSE cover
      /\ latest'.progress = IF Timed(call) THEN ClientProgress(FacadeProgress(p))
                                           ELSE latest.progress
  BY <1>2
<1>5. /\ TrackStays(k, d, e, keys')
      /\ CoverGoes(k, d, e, keys', call, cover)
      /\ ProgressGoes(k, d, e, keys', call)
  BY <1>1
<1> HIDE DEF e
<1>6. Current(e, "track", latest'.track)
  BY <1>4, <1>5 DEF Arrived, Current, TrackStays
<1>7. Current(e, "progress", latest'.progress)
  <2>1. CASE Moved(k, call)
    <3>1. /\ Told(call) \in Sent /\ Told(call) # None /\ Timed(call)
          /\ Told(call).value = ClientProgress(FacadeProgress(p))
      BY <2>1, ToldTyped, NoneAssumption DEF Moved, Told, Item
    <3>2. ~e.unsure["progress"] => e.shown["progress"] = Told(call)
      BY <2>1, <1>5 DEF ProgressGoes
    <3>3. QED
      BY <3>1, <3>2, <1>4 DEF Current, SameItem
  <2>2. CASE ~Moved(k, call)
    <3>1. /\ e.shown["progress"] = d.shown["progress"]
          /\ e.unsure["progress"] = d.unsure["progress"]
      BY <2>2, <1>5 DEF ProgressGoes
    <3>2. CASE Timed(call)
      <4>1. FacadeProgress(p) = k.progress
        BY <2>2, <3>2 DEF Moved
      <4>2. p \in Times
        BY <3>2, ToldTyped
      <4>3. FacadeProgress(p) \in Times
        BY <4>2, FacadeTyped
      <4>4. k.progress # None
        BY <4>1, <4>3, NoneAssumption
      <4>5. BackedOf(k, d, "progress")
        BY DEF Backed, Kinds
      <4>6. ~d.unsure["progress"] =>
                /\ d.shown["progress"] # None
                /\ d.shown["progress"].value = ClientProgress(FacadeProgress(p))
        BY <4>1, <4>4, <4>5 DEF BackedOf, StandsFor
      <4>7. QED
        BY <3>1, <3>2, <4>6, <1>4 DEF Current, SameItem
    <3>3. CASE ~Timed(call)
      BY <3>1, <3>3, <1>4 DEF Arrived, Current
    <3>4. QED
      BY <3>2, <3>3
  <2>3. QED
    BY <2>1, <2>2
<1>8. IF pending' = None THEN Current(e, "cover", latest'.cover)
                         ELSE latest'.cover = pending'.cover
  <2>1. KeyOf(call, cover) # None \/ cover = None
    <3>1. SUFFICES ASSUME cover \in Covers
                   PROVE  KeyOf(call, cover) # None
      OBVIOUS
    <3>2. KeyOf(call, cover) \in CoverKeys
      BY <3>1 DEF KeyOf, CoverKeys, AnyCall, Covers
    <3>3. QED
      BY <3>2, NoneAssumption
  <2>2. CASE New(k, call, cover) /\ call.changed
    <3> DEFINE q == [key |-> KeyOf(call, cover), cover |-> cover, call |-> call]
    <3>1. pending' = q /\ cover \in Covers /\ cover # None
      BY <2>2, FinishesQueue DEF New
    <3>2. q \in Queued
      BY <3>1 DEF KeyOf, CoverKeys, Queued, AnyCall, Covers
    <3>3. pending' # None
      BY <3>1, <3>2, NoneAssumption
    <3>4. pending'.cover = cover
      BY <3>1
    <3>5. QED
      BY <3>1, <3>3, <3>4, <1>4
  <2>3. CASE New(k, call, cover) /\ ~call.changed
    <3> DEFINE i == Item(cover, cover, call)
    <3>1. pending' = None
      BY <2>3, FinishesQueue
    <3>2. i \in Sent /\ i # None /\ i.value = cover /\ cover # None
      BY <2>3, ItemTyped, NoneAssumption DEF Item, New
    <3> HIDE DEF i
    <3>3. ~e.unsure["cover"] => e.shown["cover"] = i
      BY <2>3, <1>5 DEF CoverGoes, i
    <3>4. QED
      BY <3>1, <3>2, <3>3, <1>4 DEF Current, SameItem
  <2>4. CASE ~New(k, call, cover)
    <3>1. /\ e.shown["cover"] = d.shown["cover"]
          /\ e.unsure["cover"] = d.unsure["cover"]
      BY <2>4, <1>5 DEF CoverGoes
    <3>2. pending' = None
      BY <2>4, FinishesQueue
    <3>3. CASE cover = None
      BY <3>1, <3>2, <3>3, <1>4 DEF Arrived, Current
    <3>4. CASE cover # None
      <4>1. KeyOf(call, cover) = k.cover /\ k.cover # None
        BY <2>1, <2>4, <3>4 DEF New
      <4>2. k.cover.cover = Digest(cover)
        BY <4>1 DEF KeyOf
      <4>3. BackedOf(k, d, "cover")
        BY DEF Backed, Kinds
      <4>4. ~d.unsure["cover"] =>
                /\ d.shown["cover"] # None
                /\ Digest(d.shown["cover"].value) = Digest(cover)
        BY <4>1, <4>2, <4>3 DEF BackedOf, StandsFor
      <4>5. QED
        BY <3>1, <3>2, <3>4, <4>4, <1>4 DEF Current, SameItem
    <3>5. QED
      BY <3>3, <3>4
  <2>5. QED
    BY <2>2, <2>3, <2>4
<1>9. Arrived(e, pending', latest', latest'.track)
  BY <1>6, <1>7, <1>8 DEF Arrived
<1>10. QED
  BY <1>3, <1>9 DEF e

(* A call that leaves nobody in a hurry finds all at rest. *)
LEMMA CalledAtRest ==
    ASSUME Fresh, Call, ~hurried'
    PROVE  /\ client = "playing" /\ pending = None
           /\ waiting = {} /\ resuming = {} /\ Suspends = {}
           /\ ~hurried
           /\ Arrived(Display, None, latest, latest.track)
<1>1. ~hurried /\ Quiet
  BY DEF Call
<1>2. Suspends = {}
  BY <1>1 DEF Quiet, Suspends
<1>3. QED
  BY <1>1, <1>2 DEF Quiet, Fresh, Unhurried

LEMMA FreshStep ==
    ASSUME Typed, Flight, Backed(keys, Display), Fresh, [Next]_vars
    PROVE  Fresh'
<1>1. ASSUME NEW p \in Payloads, SetMetadata(p)
      PROVE  Fresh'
  <2>0. PICK call \in AnyCall, d \in Displays : \E k : SetsOff(k, d, call, p)
    BY <1>1, SetMetadataFacts
  <2>1. PICK k :
          /\ IsKeys(k) /\ TrackGoes(k, d, call)
          /\ k.progress = keys.progress
          /\ d.client # "none"
          /\ Waits(k, d, call) \/ GoesOn(k, d, call)
    BY <2>0 DEF SetsOff
  <2>2. Call /\ client # "none" /\ resuming' = resuming
    BY <1>1 DEF SetMetadata
  <2>3. DOMAIN latest' = Kinds
    <3>1. CASE Waits(k, d, call)
      BY <3>1 DEF Waits, Fresh
    <3>2. CASE GoesOn(k, d, call)
      BY <3>2 DEF GoesOn, Finishes, Kinds
    <3>3. QED
      BY <2>1, <3>1, <3>2
  <2>4. SUFFICES ASSUME ~hurried'
                 PROVE  Unhurried'
    BY <2>3 DEF Fresh
  <2>5. /\ pending = None
        /\ waiting = {} /\ resuming = {} /\ Suspends = {}
        /\ Arrived(Display, None, latest, latest.track)
    BY <2>2, <2>4, CalledAtRest
  <2>6. Arrived(d, None, latest, TrackOf(call))
    BY <2>1, <2>5, TrackArrives
  <2>7. CASE Waits(k, d, call)
    <3>1. /\ waiting' = {[call |-> call, fetch |-> coverFetch']}
          /\ resuming' = {}
          /\ pending' = None /\ latest' = latest
          /\ client' = d.client
      BY <2>2, <2>5, <2>7 DEF Waits, Shows
    <3>2. Suspends' = {call}
      <4>1. [call |-> call, fetch |-> coverFetch'].call = call
        OBVIOUS
      <4>2. QED
        BY <3>1, <4>1 DEF Suspends
    <3>3. d = [client |-> d.client, shown |-> d.shown, unsure |-> d.unsure]
      BY DEF Displays
    <3>4. Display' = d
      BY <2>7, <3>3 DEF Waits, Shows, Display
    <3>5. TrackOf(call)' = TrackOf(call)
      BY <3>1 DEF TrackOf
    <3>6. \A c \in Suspends' :
              Arrived(Display', pending', latest',
                      IF c.payload.track = None THEN latest'.track
                                                ELSE c.payload.track)
      BY <2>6, <3>1, <3>2, <3>4 DEF TrackOf
    <3>7. AtMostOne(Suspends') /\ AtMostOne(resuming')
      BY <3>1, <3>2 DEF AtMostOne
    <3>8. QED
      BY <2>1, <3>1, <3>2, <3>6, <3>7 DEF Unhurried, TrackOf, AtMostOne
  <2>8. CASE GoesOn(k, d, call)
    <3>1. call.payload.cover \in Covers \cup {None}
      BY DEF AnyCall, Covers
    <3>2. /\ Finishes(k, d, call, call.payload.cover)
          /\ waiting' = {} /\ resuming' = {}
      BY <2>2, <2>5, <2>8 DEF GoesOn
    <3>3. Backed(k, d)
      BY <2>1, <2>2, TrackBacked
    <3>4. Arrived(Display', pending', latest', latest'.track)
      BY <2>1, <2>5, <2>6, <3>1, <3>2, <3>3, FinishesArrives
    <3>5. Suspends' = {}
      BY <3>2 DEF Suspends
    <3>6. client' # "none"
      BY <2>1, <3>1, <3>2, FinishesFacts
    <3>7. QED
      BY <3>2, <3>4, <3>5, <3>6 DEF Unhurried, AtMostOne
  <2>9. QED
    BY <2>1, <2>7, <2>8
<1>2. CASE FetchSucceeds \/ FetchAborts
  <2>1. PICK f \in fetches, cover \in Covers \cup {None} : FetchEnds(f, cover)
    <3>1. \A f \in fetches : f.url \in Covers
      BY DEF Typed
    <3>2. QED
      BY <1>2, <3>1 DEF FetchSucceeds, FetchAborts
  <2>2. /\ waiting' = {}
        /\ resuming' = {[call |-> w.call, cover |-> cover] : w \in waiting}
    BY <2>1, FetchEndsTyped
  <2>3. /\ resuming = {}
        /\ UNCHANGED <<client, pending, shown, unsure, hurried, latest>>
    BY <2>1 DEF FetchEnds
  <2>4. Suspends = {w.call : w \in waiting}
    BY <2>3 DEF Suspends
  <2>5. Suspends' = Suspends
    <3>1. {r.call : r \in resuming'} = {w.call : w \in waiting}
      <4>1. ASSUME NEW w \in waiting
            PROVE  w.call \in {r.call : r \in resuming'}
        <5>1. [call |-> w.call, cover |-> cover] \in resuming'
          BY <2>2
        <5>2. [call |-> w.call, cover |-> cover].call = w.call
          OBVIOUS
        <5>3. QED
          BY <5>1, <5>2
      <4>2. ASSUME NEW r \in resuming'
            PROVE  r.call \in {w.call : w \in waiting}
        BY <2>2
      <4>3. QED
        BY <4>1, <4>2
    <3>2. QED
      BY <2>2, <2>4, <3>1 DEF Suspends
  <2>6. SUFFICES ASSUME ~hurried
                 PROVE  Unhurried'
    BY <2>3 DEF Fresh
  <2>7. \A v, w \in waiting : v.call = w.call
    BY <2>4, <2>6 DEF Fresh, Unhurried, AtMostOne
  <2>8. AtMostOne(resuming')
    BY <2>2, <2>7 DEF AtMostOne
  <2>9. AtMostOne(Suspends')
    BY <2>5, <2>6 DEF Fresh, Unhurried
  <2>10. QED
    BY <2>3, <2>5, <2>6, <2>8, <2>9
       DEF Fresh, Unhurried, TrackOf, Display, AtMostOne
<1>3. CASE Resume
  <2>1. PICK r \in resuming : Goes(r)
    BY <1>3 DEF Resume
  <2>2. r \in [call : AnyCall, cover : Covers \cup {None}]
    BY DEF Typed
  <2>3. /\ Finishes(keys, Display, Again(r), r.cover)
        /\ r.cover \in Covers \cup {None}
        /\ resuming' = resuming \ {r}
        /\ UNCHANGED <<waiting, hurried>>
    BY <2>1, <2>2 DEF Goes, Again
  <2>4. DOMAIN latest' = Kinds
    BY <2>3 DEF Finishes, Kinds
  <2>5. SUFFICES ASSUME ~hurried
                 PROVE  Unhurried'
    BY <2>3, <2>4 DEF Fresh
  <2>6. r.call \in Suspends
    BY DEF Suspends
  <2>7. /\ pending = None /\ client # "none"
        /\ Arrived(Display, None, latest, TrackOf(r.call))
        /\ AtMostOne(resuming)
    BY <2>5, <2>6 DEF Fresh, Unhurried
  <2>8. /\ Again(r) \in AnyCall /\ Again(r).payload = r.call.payload
        /\ Display \in Displays /\ IsKeys(keys)
    BY <2>2, AgainTyped DEF Typed
  <2>9. Arrived(Display, None, latest, TrackOf(Again(r)))
    BY <2>7, <2>8 DEF TrackOf
  <2>10. Arrived(Display', pending', latest', latest'.track)
    BY <2>3, <2>7, <2>8, <2>9, FinishesArrives
  <2>11. resuming' = {} /\ waiting' = {}
    BY <2>3, <2>7 DEF AtMostOne, Flight
  <2>12. Suspends' = {}
    BY <2>11 DEF Suspends
  <2>13. client' # "none"
    BY <2>3, <2>7, <2>8, FinishesFacts, DisplayFields
  <2>14. QED
    BY <2>10, <2>11, <2>12, <2>13 DEF Unhurried, AtMostOne
<1>4. CASE ArtworkTimer
  <2>1. PICK c \in AnyCall, v \in Covers :
          /\ pending = [key |-> KeyOf(c, v), cover |-> v, call |-> c]
          /\ pending' = None
          /\ \/ KeyOf(c, v) = keys.cover
                /\ UNCHANGED <<keys, client, shown, unsure>>
             \/ Display' = SendTo(Display, "cover", Item(v, v, c))
    BY <1>4, TimerFacts
  <2>2. /\ pending # None
        /\ UNCHANGED <<waiting, resuming, hurried, latest>>
    BY <1>4 DEF ArtworkTimer
  <2>3. SUFFICES ASSUME ~hurried
                 PROVE  Unhurried'
    BY <2>2 DEF Fresh
  <2>4. /\ Suspends = {} /\ client # "none"
        /\ Arrived(Display, pending, latest, latest.track)
    BY <2>2, <2>3 DEF Fresh, Unhurried
  <2>5. /\ Suspends' = {} /\ AtMostOne(resuming')
    BY <2>2, <2>3, <2>4 DEF Suspends, Fresh, Unhurried
  <2>6. latest.cover = v
    BY <2>1, <2>2, <2>4 DEF Arrived
  <2>7. CASE KeyOf(c, v) = keys.cover /\ UNCHANGED <<keys, client, shown, unsure>>
    <3>1. KeyOf(c, v) # None
      <4>1. KeyOf(c, v) \in CoverKeys
        BY DEF KeyOf, CoverKeys, AnyCall, Covers
      <4>2. QED
        BY <4>1, NoneAssumption
    <3>2. BackedOf(keys, Display, "cover")
      BY DEF Backed, Kinds
    <3>3. keys.cover.cover = Digest(v)
      BY <2>7 DEF KeyOf
    <3>4. Current(Display, "cover", latest.cover)
      BY <2>6, <2>7, <3>1, <3>2, <3>3 DEF Current, BackedOf, StandsFor, SameItem
    <3>5. Arrived(Display, None, latest, latest.track)
      BY <2>4, <3>4 DEF Arrived
    <3>6. Display' = Display
      BY <2>7 DEF Display
    <3>7. Arrived(Display', pending', latest', latest'.track)
      BY <2>1, <2>2, <3>5, <3>6
    <3>8. QED
      BY <2>1, <2>5, <2>4, <2>7, <3>7 DEF Unhurried, AtMostOne
  <2>8. CASE Display' = SendTo(Display, "cover", Item(v, v, c))
    <3> DEFINE i == Item(v, v, c)
               e == Display'
    <3>1. i \in Sent /\ i # None /\ i.value = v /\ "cover" \in Kinds
      BY ItemTyped, NoneAssumption DEF Item, Kinds
    <3>2. Display \in Displays
      BY DEF Typed
    <3>3. e.client = client'
      BY DEF Display
    <3> HIDE DEF i, e
    <3>4. e = SendTo(Display, "cover", i)
      BY <2>8 DEF e, i
    <3>5. /\ e.client = "none" <=> client = "none"
          /\ \A other \in Kinds \ {"cover"} :
                e.shown[other] = Display.shown[other]
                /\ e.unsure[other] = Display.unsure[other]
          /\ ~e.unsure["cover"] => e.shown["cover"] = i
      BY <3>1, <3>2, <3>4, SendFacts, DisplayFields
    <3>6. Current(e, "cover", latest.cover)
      BY <2>6, <3>1, <3>5 DEF Current, SameItem
    <3>7. "track" \in Kinds \ {"cover"} /\ "progress" \in Kinds \ {"cover"}
      BY DEF Kinds
    <3>8. Current(e, "track", latest.track) /\ Current(e, "progress", latest.progress)
      BY <2>4, <3>5, <3>7 DEF Arrived, Current
    <3>9. Arrived(e, None, latest, latest.track)
      BY <3>6, <3>8 DEF Arrived
    <3>10. Arrived(Display', pending', latest', latest'.track)
      BY <2>1, <2>2, <3>9 DEF e
    <3>11. QED
      BY <2>1, <2>4, <2>5, <3>3, <3>5, <3>10 DEF Unhurried, AtMostOne
  <2>9. QED
    BY <2>1, <2>7, <2>8
<1>5. CASE SetTrackInfo \/ SetProgress
  <2>1. PICK kind \in Kinds, value \in Tracks \cup Times,
             given \in Tracks \cup {None} : Direct(kind, value, given)
    BY <1>5, DirectSteps
  <2>2. /\ client' # "none" /\ unsure'[kind] = TRUE
        /\ \A other \in Kinds \ {kind} :
             shown'[other] = shown[other] /\ unsure'[other] = unsure[other]
        /\ latest' = [latest EXCEPT ![kind] = value]
        /\ Call
        /\ UNCHANGED <<pending, waiting, resuming>>
    BY <2>1, DirectFacts
  <2>3. /\ DOMAIN latest' = Kinds
        /\ \A other \in Kinds \ {kind} : latest'[other] = latest[other]
    BY <2>2 DEF Fresh
  <2>4. SUFFICES ASSUME ~hurried'
                 PROVE  Unhurried'
    BY <2>3 DEF Fresh
  <2>5. /\ pending = None /\ resuming = {} /\ Suspends = {}
        /\ Arrived(Display, None, latest, latest.track)
    BY <2>2, <2>4, CalledAtRest
  <2>6. Suspends' = {} /\ resuming' = {} /\ pending' = None
    BY <2>2, <2>5 DEF Suspends
  <2>7. ASSUME NEW other \in Kinds
        PROVE  Current(Display, other, latest[other])'
    <3>1. Current(Display, other, latest[other])
      BY <2>5 DEF Arrived, Kinds
    <3>2. QED
      BY <2>2, <2>3, <3>1 DEF Current, Display
  <2>8. Arrived(Display', pending', latest', latest'.track)
    BY <2>6, <2>7 DEF Arrived, Kinds
  <2>9. QED
    BY <2>2, <2>6, <2>8 DEF Unhurried, AtMostOne
<1>6. CASE Start \/ Stop
  <2>1. /\ client # "none" => pending' = None
        /\ client = "none" => pending' = pending /\ client' = "opening"
        /\ resuming = {}
        /\ hurried' = (hurried \/ waiting # {})
        /\ UNCHANGED <<waiting, resuming>>
    BY <1>6, StartStopFacts
  <2>2. latest' = Blank \/ (client' = "none" /\ latest' = latest)
    BY <1>6 DEF Start, Stop
  <2>3. DOMAIN Blank = Kinds /\ \A kind \in Kinds : Blank[kind] = None
    BY DEF Blank
  <2>4. DOMAIN latest' = Kinds
    BY <2>2, <2>3 DEF Fresh
  <2>5. SUFFICES ASSUME ~hurried'
                 PROVE  Unhurried'
    BY <2>4 DEF Fresh
  <2>6. ~hurried /\ waiting = {}
    BY <2>1, <2>5
  <2>7. Suspends' = {} /\ resuming' = {}
    BY <2>1, <2>6 DEF Suspends
  <2>8. pending' = None
    BY <2>1, <2>6 DEF Fresh, Unhurried
  <2>9. client' # "none" => Arrived(Display', pending', latest', latest'.track)
    BY <2>2, <2>3, <2>8 DEF Arrived, Current, Kinds
  <2>10. QED
    BY <2>7, <2>8, <2>9 DEF Unhurried, AtMostOne
<1>7. CASE ClientSteps
  <2>1. /\ client # "none" /\ client' # "none"
        /\ UNCHANGED <<pending, waiting, resuming, shown, unsure, hurried, latest>>
    BY <1>7, ClientFacts
  <2>2. \A queued, given, track :
            Arrived(Display', queued, given, track)
                <=> Arrived(Display, queued, given, track)
    BY <2>1 DEF Arrived, Current, Display
  <2>3. Suspends' = Suspends
    BY <2>1 DEF Suspends
  <2>4. SUFFICES ASSUME ~hurried
                 PROVE  Unhurried'
    BY <2>1 DEF Fresh
  <2>5. Unhurried
    BY <2>4 DEF Fresh
  <2>6. QED
    BY <2>1, <2>2, <2>3, <2>5 DEF Unhurried, TrackOf, AtMostOne
<1>8. CASE UNCHANGED vars
  <2>1. Display' = Display /\ Suspends' = Suspends
    BY <1>8 DEF vars, Display, Suspends
  <2>2. QED
    BY <1>8, <2>1 DEF vars, Fresh, Unhurried, TrackOf, AtMostOne
<1>9. QED
  BY <1>1, <1>2, <1>3, <1>4, <1>5, <1>6, <1>7, <1>8 DEF Next, ClientSteps

-----------------------------------------------------------------------------
(* The theorems.                                                           *)

LEMMA InitWhole == Init => Whole
<1> SUFFICES ASSUME Init
             PROVE  Whole
  OBVIOUS
<1>1. Typed /\ Flight
  BY InitTyped
<1>2. /\ \A kind \in Kinds : shown[kind] = None /\ keys[kind] = None
      /\ pending = None /\ client = "none"
      /\ waiting = {} /\ resuming = {} /\ DOMAIN latest = Kinds
  BY DEF Init, Blank, NoKeys, Kinds
<1>3. Owned /\ Exact
  BY <1>2 DEF Owned, Exact, ExactIn, Kinds
<1>4. Backed(keys, Display)
  BY <1>2 DEF Backed, BackedOf
<1>5. Fresh
  BY <1>2 DEF Fresh, Unhurried, Suspends, AtMostOne
<1>6. QED
  BY <1>1, <1>3, <1>4, <1>5 DEF Whole

LEMMA WholeStep == Whole /\ [Next]_vars => Whole'
  BY TypedStep, BackedStep, OwnedStep, FreshStep DEF Whole

LEMMA WholeAlways == Spec => []Whole
  BY InitWhole, WholeStep, PTL DEF Spec

(* Every field keeps its kind, a call that is suspended waits for a fetch  *)
(* that is under way, and that fetch was started by a call that was made.  *)
THEOREM TypeCorrect == Spec => []TypeOK
<1>1. Whole => TypeOK
  <2> SUFFICES ASSUME Whole
               PROVE  TypeOK
    OBVIOUS
  <2>1. /\ session \in 0..MaxSessions /\ calls \in 0..MaxCalls
        /\ IsKeys(keys) /\ Display \in Displays
        /\ pending = None \/ IsPending(pending)
        /\ hurried \in BOOLEAN
    BY DEF Whole, Typed
  <2>2. client \in Clients /\ shown \in [Kinds -> Sent \cup {None}]
        /\ unsure \in [Kinds -> BOOLEAN]
    BY <2>1, DisplayFields DEF Displays
  <2>3. DOMAIN keys = Kinds \cup {"url"}
    BY <2>1 DEF IsKeys, Kinds
  <2>4. pending \in {None} \cup Queued
    <3>1. ASSUME NEW c \in AnyCall, NEW v \in Covers
          PROVE  [key |-> KeyOf(c, v), cover |-> v, call |-> c] \in Queued
      BY DEF KeyOf, CoverKeys, Queued, AnyCall, Covers
    <3>2. QED
      BY <2>1, <3>1 DEF IsPending
  <2>5. coverFetch \in 0..calls
    <3>1. CASE coverFetch = 0
      BY <2>1, <3>1, BoundsAssumption
    <3>2. CASE coverFetch # 0
      <4>1. PICK f \in fetches : f.id = coverFetch
        BY <3>2 DEF Whole, Flight
      <4>2. f.id \in 1..calls
        BY <4>1 DEF Whole, Typed
      <4>3. QED
        BY <4>1, <4>2, <2>1, BoundsAssumption
    <3>3. QED
      BY <3>1, <3>2
  <2>6. \A w \in waiting : \E f \in fetches : f.id = w.fetch
    BY DEF Whole, Flight
  <2>7. QED
    BY <2>1, <2>2, <2>3, <2>4, <2>5, <2>6 DEF TypeOK, Clients
<1>2. QED
  BY <1>1, WholeAlways, PTL

(* At most one cover is downloaded at a time, and this.coverFetch says     *)
(* whether one is.                                                         *)
THEOREM OneFetch == Spec => []SingleFlight
<1>1. Whole => SingleFlight
  <2> SUFFICES ASSUME Whole
               PROVE  SingleFlight
    OBVIOUS
  <2>1. CASE coverFetch = 0
    BY <2>1, FS_EmptySet DEF Whole, Flight, SingleFlight
  <2>2. CASE coverFetch # 0
    <3>1. PICK f \in fetches : fetches = {f}
      BY <2>2 DEF Whole, Flight
    <3>2. Cardinality(fetches) = 1
      BY <3>1, FS_Singleton
    <3>3. QED
      BY <2>2, <3>2 DEF SingleFlight
  <2>3. QED
    BY <2>1, <2>2
<1>2. QED
  BY <1>1, WholeAlways, PTL

(* What the facade holds back because of a key, the receiver shows.        *)
THEOREM NothingHeldBack == Spec => []DedupIsSound
<1>1. Whole => DedupIsSound
  <2> SUFFICES ASSUME Whole
               PROVE  DedupIsSound
    OBVIOUS
  <2>1. BackedOf(keys, Display, "track") /\ BackedOf(keys, Display, "cover")
        /\ BackedOf(keys, Display, "progress")
    BY DEF Whole, Backed, Kinds
  <2>2. QED
    BY <2>1, DisplayFields DEF BackedOf, StandsFor, DedupIsSound
<1>2. QED
  BY <1>1, WholeAlways, PTL

(* Calls that leave each other time are shown to the letter.               *)
THEOREM LatestIsShown == Spec => []UnhurriedIsLatest
<1>1. Whole => UnhurriedIsLatest
  <2> SUFFICES ASSUME Whole, Quiet, ~hurried
               PROVE  \A kind \in Kinds :
                        latest[kind] # None /\ ~unsure[kind] =>
                          /\ shown[kind] # None
                          /\ SameItem(kind, shown[kind].value, latest[kind])
    BY DEF UnhurriedIsLatest
  <2>1. Suspends = {} /\ pending = None /\ client # "none"
    BY DEF Quiet, Suspends
  <2>2. Arrived(Display, pending, latest, latest.track)
    BY <2>1 DEF Whole, Fresh, Unhurried
  <2>3. \A kind \in Kinds : Current(Display, kind, latest[kind])
    BY <2>1, <2>2 DEF Arrived, Kinds
  <2>4. QED
    BY <2>3, DisplayFields DEF Current
<1>2. QED
  BY <1>1, WholeAlways, PTL

(* A session shows only what was given to it, or to a call that was        *)
(* suspended across the restart.                                           *)
THEOREM NothingOfEarlierSessions == Spec => []ShowsOwnSession
<1>1. Whole => ShowsOwnSession
  BY DEF Whole, Owned, Own, ShowsOwnSession, Items
<1>2. QED
  BY <1>1, WholeAlways, PTL

(* Milliseconds reach the receiver as whole seconds, for every track that  *)
(* is longer than one second and not longer than a thousand.               *)
THEOREM ProgressExact == Spec => []ProgressIsExact
<1>1. Whole => ProgressIsExact
  <2> SUFFICES ASSUME Whole, shown.progress # None, shown.progress.given # None,
                      NEW p, p = shown.progress.given,
                      NEW total, total = p.duration \div Thousand,
                      p.elapsed = 0 \/ p.elapsed > Thousand,
                      p.duration > Thousand, total <= Thousand
               PROVE  shown.progress.value =
                        [elapsed |-> Smaller(p.elapsed \div Thousand, total),
                         duration |-> total]
    BY DEF ProgressIsExact
  <2>1. /\ p \in Times
        /\ shown.progress.value = ClientProgress(FacadeProgress(p))
    BY DEF Whole, Exact, ExactIn
  <2>2. QED
    BY <2>1, ExactProgress
<1>2. QED
  BY <1>1, WholeAlways, PTL
=============================================================================
