------------------------------ MODULE Framing -------------------------------
(***************************************************************************)
(* How the RTSP client finds replies in the bytes of one connection: the   *)
(* 'data' handler and parseResponse2 of src/src/core/rtsp.ts, the body     *)
(* slices of processData, and the blocks of homekit/credentials.ts.        *)
(*                                                                         *)
(* TCP hands the stream over in pieces cut anywhere.  The handler collects *)
(* text until it holds the end of a head, handles that one, and keeps what *)
(* follows; the body is taken from the end of the latest piece, by its     *)
(* Content-Length.  On an encrypted channel every piece is decrypted by    *)
(* itself.  The client asks for the next reply when it has handled one.    *)
(*                                                                         *)
(* A reply is a status line, its fields, the end of the head, and a body   *)
(* of bytes; bodies hold line breaks (Break) but no empty line.            *)
(***************************************************************************)
EXTENDS Tlv

CONSTANTS
    Bodies,    \* the items of the replies of one conversation
    Break,     \* the byte that stands for a line break
    BlockSize  \* bytes of a reply in one encrypted block, 1024 in the code

ASSUME BlockAssumption == BlockSize \in Nat \ {0}
ASSUME BodiesAssumption ==
    /\ Bodies \in Seq(Seq([type : Nat, value : Seq(Nat)]))
    /\ Bodies # <<>>

VARIABLES
    sealed,   \* the channel is encrypted
    garbled,  \* a block came in two pieces: decryption is out of step
    asked,    \* requests written
    replied,  \* replies written by the receiver
    inflight, \* what the receiver has written and the client not received
    blob,     \* the text collected
    timeout,  \* this.timeout is armed
    read,     \* the replies handled: whose, and what was made of them
    cut,      \* some piece ended within a reply
    bodyCut   \* replies whose body came in a piece other than the head's end

vars == <<sealed, garbled, asked, replied, inflight, blob, timeout, read, cut,
          bodyCut>>

Ask == 1..Len(Bodies)

(* The receiver's reply; `seam` is where a piece may end unharmed.         *)
Token(i, part, byte) == [of |-> i, part |-> part, byte |-> byte]
Reply(i) ==
    LET body == Encode(Bodies[i])
        tokens == <<Token(i, "status", 0), Token(i, "fields", 0),
                    Token(i, "end", 0)>>
                  \o [k \in 1..Len(body) |-> Token(i, "body", body[k])]
    IN [k \in 1..Len(tokens) |->
            [token |-> tokens[k], last |-> k = Len(tokens),
             seam |-> k = Len(tokens) \/ k % BlockSize = 0]]

Tokens(s) == [k \in 1..Len(s) |-> s[k].token]

-----------------------------------------------------------------------------
(* blob.indexOf(CR LF CR LF) + 4, or 0. *)
EndIndex(text) ==
    LET ends == {k \in 1..Len(text) : text[k].part = "end"}
    IN IF ends = {} THEN 0 ELSE CHOOSE k \in ends : \A j \in ends : k <= j

(* parseResponse2 looks for the status line anywhere in the first line of  *)
(* the head, so that text left over in front of it does no harm unless it  *)
(* has a line break.  Mutant: it looks at the start of the line.           *)
LegibleAnchored(head) == head[1].part = "status"
Legible(head) ==
    \E k \in 1..Len(head) :
        /\ head[k].part = "status"
        /\ \A j \in 1..k - 1 : head[j].part = "body" => head[j].byte # Break

(* rawData.slice(rawData.length - Content-Length, rawData.length): the end *)
(* of the latest piece; all of it without a legible Content-Length.  If the*)
(* piece is shorter than the body the start is negative and counts from    *)
(* the end.  Mutant: it is taken from behind the head.                     *)
BodyFromEndOfHead(head, piece) ==
    LET size == Len(Encode(Bodies[head[Len(head)].of]))
    IN SubSeq(piece, Len(head) + 1, Len(head) + size)
Body(head, piece) ==
    LET size == Len(Encode(Bodies[head[Len(head)].of]))
        has == Len(piece)
        kept == IF ~Legible(head) THEN has
                ELSE IF size <= has THEN size ELSE AtMost(size - has, has)
    IN SubSeq(piece, has - kept + 1, has)

Bytes(text) == [k \in 1..Len(text) |-> text[k].byte]

(* What is kept: the latest piece from an index into the collected text.   *)
(* Mutant: all of the piece.                                               *)
LeftoverAll(piece, endIndex) == piece
Leftover(piece, endIndex) == SubSeq(piece, endIndex + 1, Len(piece))

-----------------------------------------------------------------------------

Init ==
    /\ sealed \in BOOLEAN
    /\ garbled = FALSE
    /\ asked = 1
    /\ replied = 0
    /\ inflight = <<>>
    /\ blob = <<>>
    /\ timeout = TRUE
    /\ read = <<>>
    /\ cut = FALSE
    /\ bodyCut = {}

ReceiverReplies ==
    /\ replied < asked
    /\ replied' = replied + 1
    /\ inflight' = inflight \o Reply(replied + 1)
    /\ UNCHANGED <<sealed, garbled, asked, blob, timeout, read, cut, bodyCut>>

(* The handler clears the timer, then handles the reply; handling it sends *)
(* the next request, which arms the timer again.  Mutant: the other way    *)
(* round.                                                                  *)
HandleThenClear(text, piece) ==
    LET endIndex == EndIndex(text)
        head == SubSeq(text, 1, endIndex)
        more == asked < Len(Bodies)
    IN /\ asked' = IF more THEN asked + 1 ELSE asked
       /\ timeout' = FALSE
       /\ read' = Append(read, [of |-> head[endIndex].of,
                                legible |-> Legible(head),
                                items |-> Decode(Bytes(Body(head, piece)))])
       /\ blob' = Leftover(piece, endIndex)
Handle(text, piece) ==
    LET endIndex == EndIndex(text)
        head == SubSeq(text, 1, endIndex)
        more == asked < Len(Bodies)
    IN /\ asked' = IF more THEN asked + 1 ELSE asked
       /\ timeout' = more
       /\ read' = Append(read, [of |-> head[endIndex].of,
                                legible |-> Legible(head),
                                items |-> Decode(Bytes(Body(head, piece)))])
       /\ blob' = Leftover(piece, endIndex)

(* A piece of n bytes arrives. *)
DataArrives(n) ==
    LET piece == Tokens(SubSeq(inflight, 1, n))
        last == inflight[n]
        text == blob \o piece
    IN /\ inflight' = SubSeq(inflight, n + 1, Len(inflight))
       /\ garbled' = (garbled \/ (sealed /\ ~last.seam))
       /\ cut' = (cut \/ ~last.last)
       /\ bodyCut' = IF last.last \/ last.token.part \in {"status", "fields"}
                     THEN bodyCut ELSE bodyCut \cup {last.token.of}
       /\ IF garbled'
          THEN timeout' = FALSE /\ UNCHANGED <<asked, blob, read>>
          ELSE IF EndIndex(text) = 0
          THEN /\ timeout' = FALSE
               /\ blob' = text
               /\ UNCHANGED <<asked, read>>
          ELSE Handle(text, piece)
       /\ UNCHANGED <<sealed, replied>>

Next == ReceiverReplies \/ \E n \in 1..Len(inflight) : DataArrives(n)

Spec == Init /\ [][Next]_vars

-----------------------------------------------------------------------------
(* Properties. *)

(* Every field keeps its kind, and the collected text never grows beyond   *)
(* what one reply leaves and the next one brings.                          *)
TypeOK ==
    /\ sealed \in BOOLEAN /\ garbled \in BOOLEAN /\ cut \in BOOLEAN
    /\ asked \in Ask /\ replied \in 0..asked /\ timeout \in BOOLEAN
    /\ Len(read) \in 0..asked /\ bodyCut \subseteq Ask
    /\ \A k \in 1..Len(blob) : k < Len(blob) => blob[k].part # "end"

(* However the stream is cut, no reply is missed, found twice or taken for *)
(* another: the k-th head handled is the k-th reply's.  Its status line is *)
(* found too, behind whatever is left of the body before it, unless that   *)
(* body has a line break.                                                  *)
HasBreak(i) == \E k \in 1..Len(Encode(Bodies[i])) : Encode(Bodies[i])[k] = Break
EveryHeadIsFound ==
    \A k \in 1..Len(read) :
        /\ read[k].of = k
        /\ read[k].legible \/ (k > 1 /\ HasBreak(k - 1))

(* The items the receiver wrote are the items the pairing code gets, in    *)
(* fragments or not and with the head in any number of pieces, provided    *)
(* the status line was found and no piece ended within the body or between *)
(* it and the head.                                                        *)
ValueOf(items, t) ==
    FlattenSeq([k \in 1..Len(items) |->
                    IF items[k].type = t THEN items[k].value ELSE <<>>])
ItemsAreRead ==
    \A k \in 1..Len(read) :
        read[k].legible /\ k \notin bodyCut =>
            read[k].items =
                [t \in {Bodies[k][j].type : j \in 1..Len(Bodies[k])} |->
                    ValueOf(Bodies[k], t)]

(* A client that waits for a reply is timed, so that a silent receiver is  *)
(* noticed, as long as replies come whole.  After a cut it may not be: a   *)
(* late piece of one reply stops the timer of the next request, which is   *)
(* what RtspClient's SilenceIsNoticed is about.                            *)
TimerIsArmed == Len(read) < asked /\ ~cut => timeout
=============================================================================
