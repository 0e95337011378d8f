--------------------------- MODULE CircularBuffer ---------------------------
(***************************************************************************)
(* The buffer between the writer of PCM chunks and the packet clock:       *)
(* src/src/utils/circularBuffer.ts.  A chunk is the sequence of its bytes, *)
(* a byte is its position in all that was ever written, 0 is silence.      *)
(*                                                                         *)
(* Two actors share it on one thread: the caller of write, end and reset,  *)
(* and AudioOut's timer, which reads a packet at a time and never stops.   *)
(* A patient writer (a piped stream) waits for 'drain' after write has     *)
(* returned false; LoxAirplaySender.sendPcm ignores the result.            *)
(***************************************************************************)
EXTENDS Integers, Sequences, FiniteSets

CONSTANTS
    PacketSize,       \* bytes in a packet
    PacketsInBuffer,  \* config.packets_in_buffer
    ChunkSizes,       \* lengths of the chunks written
    MaxWritten,       \* bound: bytes written in one behaviour
    MaxIdle           \* bound: how far below zero currentSize is followed

ASSUME SizesAssumption == PacketSize \in Nat \ {0} /\ PacketsInBuffer \in Nat \ {0}
ASSUME ChunksAssumption == ChunkSizes \subseteq Nat \ {0}
ASSUME BoundsAssumption == MaxWritten \in Nat /\ MaxIdle \in Nat

VARIABLES
    buffers,      \* this.buffers
    currentSize,  \* this.currentSize
    status,       \* this.status
    told,         \* the latest 'status' event
    packet,       \* the latest packet read
    written,      \* bytes handed to write so far
    patient,      \* the writer waits for 'drain'
    throttled     \* write returned false and no 'drain' has followed

vars == <<buffers, currentSize, status, told, packet, written, patient, throttled>>

Status == {"WAITING", "FILLING", "NORMAL", "DRAINING", "ENDING", "ENDED"}

Closed == status \in {"ENDING", "ENDED"}

MaxSize == PacketsInBuffer * PacketSize

Silence == [i \in 1..PacketSize |-> 0]

Init ==
    /\ buffers = <<>>
    /\ currentSize = 0
    /\ status = "WAITING"
    /\ told = "none"
    /\ packet = Silence
    /\ written = 0
    /\ patient \in BOOLEAN
    /\ throttled = FALSE

-----------------------------------------------------------------------------
(* write *)

Push(n) ==
    /\ written + n <= MaxWritten
    /\ patient => ~throttled
    /\ buffers' = Append(buffers, [i \in 1..n |-> written + i])
    /\ currentSize' = currentSize + n
    /\ written' = written + n
    /\ UNCHANGED <<packet, patient>>

(* The status after the two tests that come before the one for a full      *)
(* buffer, and what is told on the way there.                              *)
StartsOverFull == status \in {"WAITING", "FILLING"} /\ currentSize' > MaxSize
Starts == status \in {"WAITING", "FILLING"} /\ 2 * currentSize' > MaxSize

Write(n) ==
    /\ ~Closed
    /\ Push(n)
    /\ told' = IF Starts THEN "playing"
               ELSE IF status = "WAITING" THEN "buffering" ELSE told
    /\ IF currentSize' >= MaxSize
       THEN status' = "DRAINING" /\ throttled' = TRUE
       ELSE /\ status' = IF Starts THEN "NORMAL"
                         ELSE IF status = "WAITING" THEN "FILLING" ELSE status
            /\ throttled' = throttled

(* write on a closed buffer throws, after it has stored the chunk. *)
WriteClosed(n) ==
    /\ Closed
    /\ Push(n)
    /\ UNCHANGED <<status, told, throttled>>

-----------------------------------------------------------------------------
(* readPacket *)

(* The bytes in the first i chunks of a queue, and of the buffer's. *)
Offsets(queue) ==
    LET upTo[i \in 0..Len(queue)] ==
            IF i = 0 THEN 0 ELSE upTo[i - 1] + Len(queue[i])
    IN upTo

UpTo == Offsets(buffers)

Bytes == UpTo[Len(buffers)]

(* The copy loop moves whole chunks while they fit, and the head of one    *)
(* more; what the chunks do not fill is silence.                           *)
Copied(i) == UpTo[i] <= PacketSize

ByteAt(k) ==
    LET i == CHOOSE j \in 1..Len(buffers) : UpTo[j - 1] < k /\ k <= UpTo[j]
    IN buffers[i][k - UpTo[i - 1]]

AudioUnpadded == [k \in {j \in 1..PacketSize : j <= Bytes} |-> ByteAt(k)]
Audio == [k \in 1..PacketSize |-> IF k > Bytes THEN 0 ELSE ByteAt(k)]

RestWithoutSplitChunk ==
    SubSeq(buffers, Cardinality({i \in 1..Len(buffers) : UpTo[i - 1] < PacketSize}) + 1,
           Len(buffers))
Rest ==
    IF Copied(Len(buffers)) THEN <<>>
    ELSE LET i == CHOOSE j \in 1..Len(buffers) : Copied(j - 1) /\ ~Copied(j)
         IN <<SubSeq(buffers[i], PacketSize - UpTo[i - 1] + 1, Len(buffers[i]))>>
            \o SubSeq(buffers, i + 1, Len(buffers))

(* Too little to play: a silent packet keeps the clock going. *)
TooLittleForTwo == status = "FILLING" \/ currentSize <= 2 * PacketSize
TooLittle == status = "FILLING" \/ currentSize < PacketSize

ReadSilence ==
    /\ ~Closed
    /\ TooLittle
    /\ packet' = Silence
    /\ IF status \in {"FILLING", "WAITING"}
       THEN UNCHANGED <<status, told>>
       ELSE status' = "FILLING" /\ told' = "buffering"
    /\ UNCHANGED <<buffers, currentSize, written, patient, throttled>>

(* What the size that is left means for a buffer that is closed or full. *)
EndsOnePacketEarly(size) == status = "ENDING" /\ size <= PacketSize
Ends(size) == status = "ENDING" /\ size <= 0

DrainsWhenEmpty(size) == status = "DRAINING" /\ size = 0
Drains(size) == status = "DRAINING" /\ 2 * size < MaxSize

ReadAudio ==
    /\ Closed \/ ~TooLittle
    /\ currentSize > -MaxIdle
    /\ packet' = Audio
    /\ buffers' = Rest
    /\ LET size == currentSize - PacketSize IN
          /\ currentSize' = IF Ends(size) THEN 0 ELSE size
          /\ status' = IF Ends(size) THEN "ENDED"
                       ELSE IF Drains(size) THEN "NORMAL" ELSE status
          /\ told' = IF Ends(size) THEN "end" ELSE told
          /\ throttled' = (throttled /\ ~Drains(size))
    /\ UNCHANGED <<written, patient>>

ReadPacket == ReadSilence \/ ReadAudio

-----------------------------------------------------------------------------

End ==
    /\ status' = "ENDING"
    /\ told' = IF status = "FILLING" THEN "playing" ELSE told
    /\ UNCHANGED <<buffers, currentSize, packet, written, patient, throttled>>

ResetKeepsSize ==
    /\ buffers' = <<>>
    /\ status' = "WAITING"
    /\ UNCHANGED <<currentSize, told, packet, written, patient, throttled>>
Reset ==
    /\ buffers' = <<>>
    /\ currentSize' = 0
    /\ status' = "WAITING"
    /\ UNCHANGED <<told, packet, written, patient, throttled>>

Next ==
    \/ \E n \in ChunkSizes : Write(n) \/ WriteClosed(n)
    \/ ReadPacket \/ End \/ Reset

Spec == Init /\ [][Next]_vars

(* AudioOut's timer re-arms itself for ever: the next packet is read.      *)
FairSpec == Spec /\ WF_vars(ReadPacket)

-----------------------------------------------------------------------------
(* Properties. *)

(* Chunks hold positions already written, the status is one of the six.    *)
TypeOK ==
    /\ buffers \in Seq(Seq(Nat))
    /\ currentSize \in Int
    /\ status \in Status
    /\ told \in {"none", "buffering", "playing", "end"}
    /\ packet \in [1..PacketSize -> Nat]
    /\ written \in Nat
    /\ patient \in BOOLEAN /\ throttled \in BOOLEAN

(* currentSize is kept by hand; until 'end' it is the number of bytes in   *)
(* the queue, whatever the chunk sizes, resets and refused writes.         *)
SizeIsExact ==
    status # "ENDED" /\ ~(status = "ENDING" /\ told = "end") => currentSize = Bytes

(* The last status event fits the status: the user interface that follows  *)
(* the events shows what the buffer does.                                  *)
StatusIsTold ==
    /\ status = "FILLING" => told = "buffering"
    /\ status \in {"NORMAL", "DRAINING"} => told = "playing"
    /\ status = "ENDED" => told = "end"

(* DRAINING is the only record that a writer is waiting.  It is given up   *)
(* only together with 'drain', or because the buffer is reset or closed.   *)
DrainIsKept ==
    [][status = "DRAINING" /\ status' # "DRAINING" =>
          ~throttled' \/ status' \in {"WAITING", "ENDING"}]_vars

(* The first 'end' comes with the packet that holds the last byte.         *)
EndComesLast == [][told # "end" /\ told' = "end" => Bytes' = 0]_vars

(* A waiting writer may go on, unless the buffer is closed, or reset: the  *)
(* reset forgets that a writer waits, and no 'drain' follows.              *)
PatientWriterResumes ==
    patient /\ throttled /\ status = "DRAINING"
        ~> ~throttled \/ Closed \/ status = "WAITING"

Abstract == INSTANCE Playout WITH played <- written - Bytes, closed <- Closed

(* The packets read are the audio written, as Playout promises it.         *)
ImplementsPlayout == Abstract!Spec
=============================================================================
