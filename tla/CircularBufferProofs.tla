------------------------ MODULE CircularBufferProofs ------------------------
(* Theorems about CircularBuffer, for all sizes of packet, buffer, chunks. *)
EXTENDS CircularBuffer, Induction, SequenceTheorems, TLAPS

(* The part of the state the status depends on.  A buffer waits to be      *)
(* drained only while it is at least half full.                            *)
Control ==
    /\ currentSize \in Int
    /\ status \in Status
    /\ status = "DRAINING" => 2 * currentSize >= MaxSize

IInv == Control /\ StatusIsTold

LEMMA MaxSizeInt == MaxSize \in Nat /\ MaxSize >= 1
<1>1. \A a, b \in Nat \ {0} : a * b \in Int /\ a * b >= b
  OBVIOUS
<1>2. PacketsInBuffer * PacketSize \in Int /\ PacketsInBuffer * PacketSize >= PacketSize
  BY <1>1, SizesAssumption
<1> DEFINE product == PacketsInBuffer * PacketSize
<1> HIDE DEF product
<1>3. product \in Int /\ product >= PacketSize
  BY <1>2 DEF product
<1>4. product \in Nat /\ product >= 1
  BY <1>3, SizesAssumption
<1> QED
  BY <1>4 DEF product, MaxSize

LEMMA InitIInv == Init => IInv
<1> SUFFICES ASSUME Init PROVE IInv
  OBVIOUS
<1>1. currentSize = 0
  BY DEF Init
<1>2. status = "WAITING"
  BY DEF Init
<1> QED
  BY <1>1, <1>2 DEF IInv, Control, StatusIsTold, Status

LEMMA NextIInv == IInv /\ [Next]_vars => IInv'
<1> SUFFICES ASSUME IInv, [Next]_vars PROVE IInv'
  OBVIOUS
<1> USE MaxSizeInt DEF IInv, Control, StatusIsTold, Status
<1>1. ASSUME NEW n \in ChunkSizes, Write(n) PROVE IInv'
  <2>1. currentSize' = currentSize + n /\ n \in Nat
    BY <1>1, ChunksAssumption DEF Write, Push
  <2>2. CASE currentSize' >= MaxSize
    <3>1. status' = "DRAINING" /\ throttled' = TRUE
      BY <1>1, <2>2 DEF Write
    <3>2. told' = "playing"
      BY <1>1, <2>1, <2>2 DEF Write, Starts, Closed
    <3> QED
      BY <2>1, <2>2, <3>1, <3>2
  <2>3. CASE ~(currentSize' >= MaxSize)
    BY <1>1, <2>1, <2>3 DEF Write, Starts, Closed
  <2> QED
    BY <2>2, <2>3
<1>2. ASSUME NEW n \in ChunkSizes, WriteClosed(n) PROVE IInv'
  <2>1. currentSize' = currentSize + n /\ n \in Nat
    BY <1>2, ChunksAssumption DEF WriteClosed, Push
  <2> QED
    BY <1>2, <2>1 DEF WriteClosed, Closed
<1>3. CASE ReadSilence
  BY <1>3 DEF ReadSilence, TooLittle
<1>4. CASE ReadAudio
  <2> DEFINE size == currentSize - PacketSize
  <2>1. size \in Int
    BY SizesAssumption
  <2>2. /\ currentSize' = IF Ends(size) THEN 0 ELSE size
        /\ status' = IF Ends(size) THEN "ENDED"
                     ELSE IF Drains(size) THEN "NORMAL" ELSE status
        /\ told' = IF Ends(size) THEN "end" ELSE told
        /\ Closed \/ status # "FILLING"
    BY <1>4 DEF ReadAudio, TooLittle
  <2> HIDE DEF size
  <2> QED
    BY <2>1, <2>2 DEF Ends, Drains, Closed
<1>5. CASE End
  BY <1>5 DEF End
<1>6. CASE Reset
  BY <1>6 DEF Reset
<1>7. CASE UNCHANGED vars
  BY <1>7 DEF vars
<1> QED
  BY <1>1, <1>2, <1>3, <1>4, <1>5, <1>6, <1>7 DEF Next, ReadPacket

LEMMA Inductive == Spec => []IInv
BY InitIInv, NextIInv, PTL DEF Spec

(* The status events never contradict what the buffer does.                *)
THEOREM EventsFitStatus == Spec => []StatusIsTold
<1>1. IInv => StatusIsTold
  BY DEF IInv
<1> QED
  BY <1>1, Inductive, PTL

(* With room for two packets or more, DRAINING is never given up without   *)
(* 'drain' except by a reset or the end: no read runs past the mark.       *)
THEOREM DrainKept == ASSUME PacketsInBuffer >= 2 PROVE Spec => DrainIsKept
<1>1. MaxSize >= 2 * PacketSize
  BY SizesAssumption DEF MaxSize
<1>2. ASSUME IInv, [Next]_vars, status = "DRAINING", status' # "DRAINING"
      PROVE  ~throttled' \/ status' \in {"WAITING", "ENDING"}
  <2>1. 2 * currentSize >= 2 * PacketSize /\ currentSize \in Int
    BY <1>1, <1>2, SizesAssumption, MaxSizeInt DEF IInv, Control
  <2>2. ~ReadSilence
    BY <1>2, <2>1, SizesAssumption DEF ReadSilence, TooLittle
  <2>3. ASSUME NEW n \in ChunkSizes PROVE ~Write(n) /\ ~WriteClosed(n)
    BY <1>2 DEF Write, WriteClosed, Starts, Closed
  <2>4. CASE ReadAudio
    BY <1>2, <2>4 DEF ReadAudio, Ends
  <2>5. CASE End \/ Reset
    BY <2>5 DEF End, Reset
  <2>6. ~UNCHANGED vars
    BY <1>2 DEF vars
  <2> QED
    BY <1>2, <2>2, <2>3, <2>4, <2>5, <2>6 DEF Next, ReadPacket
<1>3. IInv /\ [Next]_vars =>
        [status = "DRAINING" /\ status' # "DRAINING" =>
           ~throttled' \/ status' \in {"WAITING", "ENDING"}]_vars
  BY <1>2
<1> QED
  BY <1>3, Inductive, PTL DEF Spec, DrainIsKept

-----------------------------------------------------------------------------
(* The queue of chunks. *)

Queues == Seq(Seq(Nat))

(* Offsets is the function its recursive definition says.                  *)
LEMMA OffsetsSum ==
    ASSUME NEW q \in Queues
    PROVE  /\ Offsets(q) \in [0..Len(q) -> Nat]
           /\ Offsets(q)[0] = 0
           /\ \A i \in 1..Len(q) :
                  /\ Len(q[i]) \in Nat
                  /\ Offsets(q)[i] = Offsets(q)[i - 1] + Len(q[i])
<1> DEFINE N == Len(q)
           len == [i \in 1..N |-> Len(q[i])]
           Step == [i \in 1..N |-> [x \in Nat |-> x + len[i]]]
           F(f) == [i \in 0..N |-> IF i = 0 THEN 0 ELSE f[i - 1] + Len(q[i])]
<1>1. N \in Nat /\ \A i \in 1..N : q[i] \in Seq(Nat)
  BY DEF Queues
<1>2. len \in [1..N -> Nat]
  BY <1>1
<1>3. Step \in [1..N -> [Nat -> Nat]]
  <2> HIDE DEF len
  <2> QED BY <1>2
<1> HIDE DEF N, len
<1>4. PICK f : Recursive(f, N, Nat, 0, Step)
  <2> HIDE DEF Step
  <2> QED BY <1>1, <1>3, RecursionExists
<1>5. f \in [0..N -> Nat] /\ f[0] = 0
  BY <1>4 DEF Recursive
<1>6. ASSUME NEW i \in 1..N PROVE f[i] = f[i - 1] + Len(q[i])
  <2>1. f[i] = Step[i][f[i - 1]]
    <3> HIDE DEF Step
    <3> QED BY <1>4 DEF Recursive
  <2>2. i - 1 \in 0..N
    BY <1>1
  <2>3. f[i - 1] \in Nat
    BY <1>5, <2>2
  <2>4. Step[i] = [x \in Nat |-> x + len[i]]
    OBVIOUS
  <2>5. len[i] = Len(q[i])
    BY DEF len
  <2> HIDE DEF Step
  <2> QED BY <2>1, <2>3, <2>4, <2>5
<1>7. f = F(f)
  BY <1>5, <1>6
<1>8. Offsets(q) = CHOOSE g : g = F(g)
  BY DEF Offsets, N
<1> DEFINE o == Offsets(q)
<1>9. o = F(o)
  <2> HIDE DEF F
  <2> QED BY <1>7, <1>8
<1> HIDE DEF o
<1>10. /\ DOMAIN o = 0..N /\ o[0] = 0
       /\ \A i \in 1..N : o[i] = o[i - 1] + Len(q[i])
  <2>1. \A i \in 0..N : o[i] = IF i = 0 THEN 0 ELSE o[i - 1] + Len(q[i])
    BY <1>9
  <2>2. DOMAIN o = 0..N
    BY <1>9
  <2> QED BY <1>1, <2>1, <2>2
<1>11. \A i \in 1..N : Len(q[i]) \in Nat
  BY <1>1
<1>12. \A i \in 0..N : o[i] \in Nat
  <2> DEFINE S == {i \in Nat : i <= N => o[i] \in Nat}
  <2>1. 0 \in S
    BY <1>10
  <2>2. ASSUME NEW i \in Nat, i \in S PROVE i + 1 \in S
    <3> SUFFICES ASSUME i + 1 <= N PROVE o[i + 1] \in Nat
      OBVIOUS
    <3>1. i + 1 \in 1..N /\ (i + 1) - 1 = i
      BY <1>1
    <3>2. o[i + 1] = o[i] + Len(q[i + 1])
      BY <1>10, <3>1
    <3>3. o[i] \in Nat
      BY <1>1, <2>2
    <3> QED BY <1>11, <3>1, <3>2, <3>3
  <2> HIDE DEF S
  <2>3. Nat \subseteq S
    BY <2>1, <2>2, SetInduction
  <2> QED BY <1>1, <2>3 DEF S
<1>13. o = [i \in 0..N |-> o[i]]
  BY <1>9
<1>14. o \in [0..N -> Nat]
  BY <1>12, <1>13
<1> QED
  BY <1>10, <1>11, <1>14 DEF o, N

(* Where two queues hold chunks of the same lengths, their offsets differ  *)
(* by the same distance all along.                                         *)
LEMMA OffsetsShift ==
    ASSUME NEW p \in Queues, NEW q \in Queues,
           NEW b \in 0..Len(p), NEW k \in Nat, Len(p) + k <= Len(q),
           NEW d \in Int, Offsets(p)[b] = Offsets(q)[b + k] - d,
           \A i \in b + 1..Len(p) : Len(p[i]) = Len(q[i + k])
    PROVE  \A i \in b..Len(p) : Offsets(p)[i] = Offsets(q)[i + k] - d
<1> DEFINE op == Offsets(p)
           oq == Offsets(q)
           M == Len(p)
           N == Len(q)
<1>1. M \in Nat /\ op \in [0..M -> Nat]
      /\ \A j \in 1..M : Len(p[j]) \in Nat /\ op[j] = op[j - 1] + Len(p[j])
  BY OffsetsSum DEF Queues
<1>2. N \in Nat /\ oq \in [0..N -> Nat]
      /\ \A j \in 1..N : Len(q[j]) \in Nat /\ oq[j] = oq[j - 1] + Len(q[j])
  BY OffsetsSum DEF Queues
<1>3. b \in 0..M /\ M + k <= N /\ op[b] = oq[b + k] - d
      /\ \A i \in b + 1..M : Len(p[i]) = Len(q[i + k])
  OBVIOUS
<1> HIDE DEF op, oq, M, N
<1> DEFINE S == {j \in Nat : b <= j /\ j <= M => op[j] = oq[j + k] - d}
<1>4. 0 \in S
  <2>1. b <= 0 => b = 0
    BY <1>1, <1>3
  <2> QED BY <1>3, <2>1
<1>5. ASSUME NEW j \in Nat, j \in S PROVE j + 1 \in S
  <2> SUFFICES ASSUME b <= j + 1, j + 1 <= M PROVE op[j + 1] = oq[(j + 1) + k] - d
    OBVIOUS
  <2>1. CASE b = j + 1
    BY <1>3, <2>1
  <2>2. CASE b # j + 1
    <3>1. /\ j \in 0..M /\ j + 1 \in 1..M /\ j + 1 \in b + 1..M /\ (j + 1) - 1 = j
          /\ j + k \in 0..N /\ (j + 1) + k \in 1..N /\ ((j + 1) + k) - 1 = j + k
      BY <1>1, <1>2, <1>3, <2>2
    <3>2. op[j] = oq[j + k] - d
      BY <1>5, <2>2, <3>1
    <3>3. op[j + 1] = op[j] + Len(p[j + 1])
      BY <1>1, <3>1
    <3>4. oq[(j + 1) + k] = oq[j + k] + Len(q[(j + 1) + k])
      BY <1>2, <3>1
    <3>5. Len(p[j + 1]) = Len(q[(j + 1) + k])
      BY <1>3, <3>1
    <3>6. oq[j + k] \in Nat /\ Len(p[j + 1]) \in Nat
      BY <1>1, <1>2, <3>1
    <3> QED BY <3>2, <3>3, <3>4, <3>5, <3>6
  <2> QED BY <2>1, <2>2
<1> HIDE DEF S
<1>6. Nat \subseteq S
  BY <1>4, <1>5, SetInduction
<1>7. ASSUME NEW j \in b..M PROVE op[j] = oq[j + k] - d
  <2>1. j \in Nat /\ b <= j /\ j <= M
    BY <1>1, <1>3
  <2> QED BY <1>6, <2>1 DEF S
<1> QED BY <1>7 DEF op, oq, M

(* Every byte before the end of the queue lies in one of its chunks.       *)
LEMMA Crossing ==
    ASSUME NEW q \in Queues, NEW x \in Nat, x < Offsets(q)[Len(q)]
    PROVE  \E i \in 1..Len(q) : Offsets(q)[i - 1] <= x /\ x < Offsets(q)[i]
<1> DEFINE o == Offsets(q)
           N == Len(q)
           S == {i \in Nat : i <= N /\ x < o[i]}
<1>1. N \in Nat /\ o \in [0..N -> Nat] /\ o[0] = 0
  BY OffsetsSum DEF Queues
<1>2. x < o[N]
  OBVIOUS
<1> HIDE DEF o, N
<1>3. N \in S
  BY <1>1, <1>2
<1>4. PICK i \in S : \A j \in S : i <= j
  <2>1. S \subseteq Nat /\ S # {}
    BY <1>3
  <2> HIDE DEF S
  <2> QED BY <2>1, LeastNat
<1>5. i \in Nat /\ i <= N /\ x < o[i]
  BY <1>4
<1>6. i # 0
  BY <1>1, <1>5
<1>7. i \in 1..N /\ i - 1 \in Nat /\ i - 1 <= N /\ i - 1 \in 0..N
  BY <1>1, <1>5, <1>6
<1>8. ~(x < o[i - 1])
  <2>1. i - 1 \notin S
    BY <1>4, <1>7
  <2> QED BY <1>7, <2>1
<1>9. o[i - 1] \in Nat
  BY <1>1, <1>7
<1>10. o[i - 1] <= x
  BY <1>8, <1>9
<1>11. o[i - 1] <= x /\ x < o[i]
  BY <1>5, <1>10
<1> QED BY <1>7, <1>11 DEF o, N

(* The chunks of a queue hold consecutive numbers, from b + 1 on.          *)
Content(q, b) ==
    \A j \in 1..Len(q) : \A k \in 1..Len(q[j]) : q[j][k] = b + Offsets(q)[j - 1] + k

(* A chunk that goes on where the queue ends goes to its end.              *)
LEMMA ContentGrows ==
    ASSUME NEW q \in Queues, NEW w \in Nat, NEW n \in Nat,
           Content(q, w - Offsets(q)[Len(q)]),
           NEW p, p = Append(q, [i \in 1..n |-> w + i])
    PROVE  /\ p \in Queues
           /\ Offsets(p)[Len(p)] = Offsets(q)[Len(q)] + n
           /\ Content(p, w - Offsets(q)[Len(q)])
<1> DEFINE c == [i \in 1..n |-> w + i]
           N == Len(q)
           o == Offsets(q)
<1>1. c \in Seq(Nat) /\ Len(c) = n
  BY DEF Queues
<1>2. \A k \in 1..n : c[k] = w + k
  OBVIOUS
<1> HIDE DEF c
<1>3. /\ p \in Queues /\ N \in Nat /\ Len(p) = N + 1
      /\ \A i \in 1..N : p[i] = q[i]
      /\ p[N + 1] = c
  BY <1>1, AppendProperties DEF Queues, c
<1>4. /\ o \in [0..N -> Nat] /\ o[0] = 0
      /\ Offsets(p) \in [0..Len(p) -> Nat] /\ Offsets(p)[0] = 0
      /\ \A i \in 1..Len(p) : Offsets(p)[i] = Offsets(p)[i - 1] + Len(p[i])
  BY <1>3, OffsetsSum
<1>5. \A i \in 0..N : Offsets(p)[i] = o[i]
  <2> DEFINE S == {i \in Nat : i <= N => Offsets(p)[i] = o[i]}
  <2>1. 0 \in S
    BY <1>4
  <2>2. ASSUME NEW i \in Nat, i \in S PROVE i + 1 \in S
    <3> SUFFICES ASSUME i + 1 <= N PROVE Offsets(p)[i + 1] = o[i + 1]
      OBVIOUS
    <3>1. i + 1 \in 1..N /\ i + 1 \in 1..Len(p) /\ (i + 1) - 1 = i
      BY <1>3
    <3>2. Offsets(p)[i] = o[i]
      BY <1>3, <2>2
    <3>3. o[i + 1] = o[i] + Len(q[i + 1])
      BY <3>1, OffsetsSum
    <3>4. Offsets(p)[i + 1] = Offsets(p)[i] + Len(p[i + 1])
      BY <1>4, <3>1
    <3> QED BY <1>3, <3>1, <3>2, <3>3, <3>4
  <2> HIDE DEF S
  <2>3. Nat \subseteq S
    BY <2>1, <2>2, SetInduction
  <2> QED BY <1>3, <2>3 DEF S
<1> HIDE DEF N, o
<1>6. Offsets(p)[N + 1] = o[N] + n
  <2>1. N + 1 \in 1..Len(p) /\ (N + 1) - 1 = N /\ N \in 0..N
    BY <1>3
  <2>2. Offsets(p)[N + 1] = Offsets(p)[N] + Len(p[N + 1])
    BY <1>4, <2>1
  <2> QED BY ONLY <1>1, <1>3, <1>5, <2>1, <2>2
<1>7. Content(p, w - o[N])
  <2> SUFFICES ASSUME NEW j \in 1..Len(p), NEW k \in 1..Len(p[j])
               PROVE  p[j][k] = (w - o[N]) + Offsets(p)[j - 1] + k
    BY DEF Content
  <2>1. CASE j = N + 1
    <3>1. p[j] = c /\ j - 1 = N /\ N \in 0..N
      BY <1>3, <2>1
    <3>2. k \in 1..n
      BY <1>1, <3>1
    <3>3. p[j][k] = w + k
      BY <1>2, <3>1, <3>2
    <3>4. Offsets(p)[j - 1] = o[N] /\ o[N] \in Nat
      BY <1>4, <1>5, <3>1
    <3> QED BY <3>2, <3>3, <3>4
  <2>2. CASE j # N + 1
    <3>1. j \in 1..N /\ j - 1 \in 0..N /\ k \in 1..Len(q[j])
      BY <1>3, <2>2
    <3>2. q[j][k] = (w - o[N]) + o[j - 1] + k
      BY <3>1 DEF Content, N, o
    <3> QED BY <1>3, <1>5, <3>1, <3>2
  <2> QED BY <2>1, <2>2
<1> QED BY <1>3, <1>6, <1>7 DEF N, o

(* Behind the first s numbers of a queue the others follow: the rest of    *)
(* the chunk i that the next number is in, and the chunks after it.        *)
Behind(q, s, i) ==
    <<SubSeq(q[i], s - Offsets(q)[i - 1] + 1, Len(q[i]))>> \o SubSeq(q, i + 1, Len(q))

LEMMA ContentSplits ==
    ASSUME NEW q \in Queues, NEW b \in Int, Content(q, b),
           NEW s \in Nat, NEW i \in 1..Len(q),
           Offsets(q)[i - 1] <= s, s < Offsets(q)[i]
    PROVE  /\ Behind(q, s, i) \in Queues
           /\ Offsets(Behind(q, s, i))[Len(Behind(q, s, i))] = Offsets(q)[Len(q)] - s
           /\ Content(Behind(q, s, i), b + s)
<1> DEFINE p == Behind(q, s, i)
           N == Len(q)
           o == Offsets(q)
           a == o[i - 1]
           m == s - a + 1
           c == SubSeq(q[i], m, Len(q[i]))
           t == SubSeq(q, i + 1, N)
<1>1. /\ N \in Nat /\ o \in [0..N -> Nat]
      /\ \A j \in 1..N : Len(q[j]) \in Nat /\ o[j] = o[j - 1] + Len(q[j])
  BY OffsetsSum DEF Queues
<1>2. i \in 1..N /\ o[i - 1] <= s /\ s < o[i] /\ p = <<c>> \o t
  BY DEF Behind
<1>3. \A j \in 1..N : q[j] \in Seq(Nat)
  BY DEF Queues
<1>4. \A j \in 1..N : \A k \in 1..Len(q[j]) : q[j][k] = b + o[j - 1] + k
  BY DEF Content
<1> HIDE DEF N, o, p
<1>5. a \in Nat /\ o[i] = a + Len(q[i]) /\ Len(q[i]) \in Nat /\ a <= s /\ s < o[i]
  BY <1>1, <1>2
<1> HIDE DEF a
<1>6. m \in 1..Len(q[i])
  BY <1>5
<1> HIDE DEF m
<1>7. /\ c \in Seq(Nat) /\ Len(c) = Len(q[i]) - m + 1
      /\ \A k \in 1..Len(c) : c[k] = q[i][m + k - 1]
  <2>1. q[i] \in Seq(Nat)
    BY <1>2, <1>3
  <2>2. \A k \in m..Len(q[i]) : k \in 1..Len(q[i])
    BY <1>5, <1>6
  <2>3. \A k \in m..Len(q[i]) : q[i][k] \in Nat
    BY <2>1, <2>2, LenProperties
  <2> QED BY <1>5, <1>6, <2>3, SubSeqProperties
<1>8. /\ t \in Queues /\ Len(t) = N - i
      /\ \A k \in 1..N - i : t[k] = q[i + k]
  <2>1. \A k \in i + 1..N : q[k] \in Seq(Nat)
    BY <1>1, <1>2, <1>3
  <2>2. i + 1 \in Int /\ N \in Int
    BY <1>1, <1>2
  <2>3. /\ t \in Seq(Seq(Nat))
        /\ Len(t) = IF i + 1 <= N THEN N - (i + 1) + 1 ELSE 0
        /\ \A k \in 1..N - (i + 1) + 1 : t[k] = q[(i + 1) + k - 1]
    BY <2>1, <2>2, SubSeqProperties
  <2> HIDE DEF t
  <2>4. N - (i + 1) + 1 = N - i
    BY <1>1, <1>2
  <2>5. \A k \in 1..N - i : (i + 1) + k - 1 = i + k
    BY <1>1, <1>2
  <2>6. Len(t) = N - i
    BY <1>1, <1>2, <2>3
  <2> QED BY <2>3, <2>4, <2>5, <2>6 DEF Queues
<1> HIDE DEF c, t
<1>9. /\ p \in Queues /\ Len(p) = 1 + N - i
      /\ p[1] = c
      /\ \A k \in 2..1 + N - i : p[k] = q[k + (i - 1)]
  <2>1. <<c>> \in Queues /\ Len(<<c>>) = 1 /\ <<c>>[1] = c
    BY <1>7 DEF Queues
  <2> DEFINE h == <<c>>
  <2> HIDE DEF h
  <2>2. h \in Queues /\ Len(h) = 1 /\ h[1] = c /\ p = h \o t
    BY <1>2, <2>1 DEF h
  <2>7. /\ p \in Queues /\ Len(p) = Len(h) + Len(t)
        /\ \A k \in 1..Len(h) + Len(t) :
               p[k] = IF k <= Len(h) THEN h[k] ELSE t[k - Len(h)]
    <3>1. h \in Seq(Seq(Nat)) /\ t \in Seq(Seq(Nat))
      BY <1>8, <2>2 DEF Queues
    <3>2. h \o t \in Seq(Seq(Nat)) /\ Len(h \o t) = Len(h) + Len(t)
          /\ \A k \in 1..Len(h) + Len(t) :
               (h \o t)[k] = IF k <= Len(h) THEN h[k] ELSE t[k - Len(h)]
      <4> HIDE DEF t
      <4> QED BY <3>1, ConcatProperties
    <3> QED BY <2>2, <3>2 DEF Queues
  <2>3. /\ p \in Queues /\ Len(p) = 1 + Len(t)
        /\ \A k \in 1..1 + Len(t) : p[k] = IF k <= 1 THEN h[k] ELSE t[k - 1]
    BY <2>2, <2>7
  <2>4. Len(p) = 1 + N - i
    BY <1>1, <1>2, <1>8, <2>3
  <2>5. p[1] = c
    <3>1. 1 \in 1..1 + Len(t)
      BY <1>1, <1>2, <1>8
    <3> QED BY <2>2, <2>3, <3>1
  <2>6. ASSUME NEW k \in 2..1 + N - i PROVE p[k] = q[k + (i - 1)]
    <3>1. k \in 1..1 + Len(t) /\ ~(k <= 1) /\ k - 1 \in 1..N - i
          /\ i + (k - 1) = k + (i - 1)
      BY <1>1, <1>2, <1>8
    <3>2. p[k] = t[k - 1]
      BY <2>3, <3>1
    <3> QED BY <1>8, <3>1, <3>2
  <2> QED BY <2>3, <2>4, <2>5, <2>6
<1> DEFINE op == Offsets(p)
           M == Len(p)
<1>10. /\ M \in Nat /\ M >= 1 /\ op \in [0..M -> Nat] /\ op[0] = 0
       /\ op[1] = op[0] + Len(p[1])
  <2>1. M \in Nat /\ M >= 1 /\ 1 \in 1..M /\ 1 - 1 = 0
    BY <1>1, <1>2, <1>9
  <2> QED BY <1>9, <2>1, OffsetsSum
<1> HIDE DEF op
<1>11. op[1] = o[1 + (i - 1)] - s
  <2>1. op[1] = Len(q[i]) - m + 1
    BY <1>5, <1>6, <1>7, <1>9, <1>10
  <2>2. 1 + (i - 1) = i
    BY <1>2
  <2> QED BY <1>5, <2>1, <2>2 DEF m
<1>12. \A j \in 1..M : op[j] = o[j + (i - 1)] - s
  <2>1. 1 \in 0..Len(p) /\ i - 1 \in Nat /\ Len(p) + (i - 1) <= N
    BY <1>1, <1>2, <1>9, <1>10
  <2>2. \A j \in 1 + 1..Len(p) : Len(p[j]) = Len(q[j + (i - 1)])
    BY <1>9
  <2>3. Offsets(p)[1] = Offsets(q)[1 + (i - 1)] - s
    BY <1>11 DEF op, o
  <2>4. Len(p) + (i - 1) <= Len(q)
    BY <2>1 DEF N
  <2>5. \A j \in 1..Len(p) : Offsets(p)[j] = Offsets(q)[j + (i - 1)] - s
    <3> DEFINE k == i - 1
    <3> HIDE DEF k
    <3>1. k \in Nat /\ 1 \in 0..Len(p) /\ Len(p) + k <= Len(q)
      BY <2>1, <2>4 DEF k
    <3>2. s \in Int /\ Offsets(p)[1] = Offsets(q)[1 + k] - s
      <4>1. k = i - 1 /\ s \in Int
        BY DEF k
      <4> QED BY <2>3, <4>1
    <3>3. \A j \in 1 + 1..Len(p) : Len(p[j]) = Len(q[j + k])
      BY <2>2 DEF k
    <3>4. \A j \in 1..Len(p) : Offsets(p)[j] = Offsets(q)[j + k] - s
      <4> HIDE DEF M
      <4> QED BY <1>9, <3>1, <3>2, <3>3, OffsetsShift
    <3> QED BY <3>4 DEF k
  <2> QED BY <2>5 DEF op, o
<1>13. op[M] = o[N] - s
  <2>1. M \in 1..M /\ M + (i - 1) = N
    BY <1>1, <1>2, <1>9, <1>10
  <2> QED BY <1>12, <2>1
<1>14. Content(p, b + s)
  <2> SUFFICES ASSUME NEW j \in 1..M, NEW k \in 1..Len(p[j])
               PROVE  p[j][k] = (b + s) + op[j - 1] + k
    BY DEF Content, op
  <2>0. k \in Nat /\ 1 <= k
    OBVIOUS
  <2>1. CASE j = 1
    <3>1. p[j] = c /\ j - 1 = 0
      BY <1>9, <2>1
    <3>2. k \in 1..Len(c)
      BY <3>1
    <3>3. m + k - 1 \in 1..Len(q[i])
      <4>1. Len(c) = Len(q[i]) - m + 1 /\ m \in Nat /\ 1 <= m /\ Len(q[i]) \in Nat
        BY <1>5, <1>6, <1>7
      <4>2. k <= Len(c)
        BY <3>2
      <4> QED BY <2>0, <4>1, <4>2
    <3>4. p[j][k] = q[i][m + k - 1]
      BY <1>7, <3>1, <3>2
    <3>5. op[j - 1] = 0
      BY <1>10, <3>1
    <3>6. q[i][m + k - 1] = b + a + (m + k - 1)
      BY <1>2, <1>4, <3>3 DEF a
    <3>7. k \in Int
      BY <3>2
    <3> QED BY <1>5, <3>4, <3>5, <3>6, <3>7 DEF m
  <2>2. CASE j # 1
    <3>1. /\ j \in 2..1 + N - i /\ j + (i - 1) \in 1..N /\ j - 1 \in 1..M
          /\ (j - 1) + (i - 1) = (j + (i - 1)) - 1 /\ (j + (i - 1)) - 1 \in 0..N
      BY <1>1, <1>2, <1>9, <2>2
    <3>2. p[j] = q[j + (i - 1)]
      BY <1>9, <3>1
    <3>3. p[j][k] = b + o[(j + (i - 1)) - 1] + k
      BY <1>4, <3>1, <3>2
    <3>4. op[j - 1] = o[(j + (i - 1)) - 1] - s
      BY <1>12, <3>1
    <3>5. o[(j + (i - 1)) - 1] \in Nat
      BY <1>1, <3>1
    <3> DEFINE x == o[(j + (i - 1)) - 1]
               y == p[j][k]
               z == op[j - 1]
    <3> HIDE DEF x, y, z
    <3>6. y = b + x + k /\ z = x - s /\ x \in Nat /\ k \in Int
      BY <2>0, <3>3, <3>4, <3>5 DEF x, y, z
    <3>7. y = (b + s) + z + k
      BY <3>6
    <3> QED BY <3>7 DEF y, z
  <2> QED BY <2>1, <2>2
<1> QED BY <1>9, <1>13, <1>14 DEF op, o, N, p

-----------------------------------------------------------------------------
(* What the buffer holds: the bytes from written - Bytes + 1 to written.   *)

Holds ==
    /\ buffers \in Queues
    /\ written \in Nat
    /\ Content(buffers, written - Bytes)

LEMMA BytesNat == ASSUME buffers \in Queues PROVE Bytes \in Nat /\ Len(buffers) \in Nat
<1>1. Len(buffers) \in Nat
  BY DEF Queues
<1>2. Offsets(buffers) \in [0..Len(buffers) -> Nat]
  BY OffsetsSum
<1> QED BY <1>1, <1>2 DEF Bytes, UpTo

LEMMA EmptyHolds == /\ <<>> \in Queues
                    /\ Offsets(<<>>)[Len(<<>>)] = 0
                    /\ \A b : Content(<<>>, b)
<1>1. <<>> \in Queues /\ Len(<<>>) = 0
  BY DEF Queues
<1>2. Offsets(<<>>)[0] = 0
  BY <1>1, OffsetsSum
<1>3. \A b : Content(<<>>, b)
  BY <1>1 DEF Content
<1> QED BY <1>1, <1>2, <1>3

(* readPacket copies the byte that is k places further on.                 *)
LEMMA ByteAtIs ==
    ASSUME Holds, NEW k \in Nat, 1 <= k, k <= Bytes
    PROVE  ByteAt(k) = (written - Bytes) + k /\ ByteAt(k) \in Nat
<1> DEFINE N == Len(buffers)
           o == Offsets(buffers)
           I(j) == o[j - 1] < k /\ k <= o[j]
           i == CHOOSE j \in 1..N : I(j)
           b == written - Bytes
<1>1. /\ N \in Nat /\ o \in [0..N -> Nat] /\ buffers \in Queues
      /\ \A j \in 1..N : Len(buffers[j]) \in Nat /\ o[j] = o[j - 1] + Len(buffers[j])
  BY OffsetsSum, BytesNat DEF Holds
<1>2. \E j \in 1..N : I(j)
  <2>1. k - 1 \in Nat /\ k - 1 < o[N]
    BY <1>1 DEF Bytes, UpTo
  <2>2. PICK j \in 1..N : o[j - 1] <= k - 1 /\ k - 1 < o[j]
    BY <1>1, <2>1, Crossing
  <2>3. j \in 1..N /\ j - 1 \in 0..N /\ j \in 0..N
    BY <1>1, <2>2
  <2>4. o[j - 1] \in Nat /\ o[j] \in Nat
    BY <1>1, <2>3
  <2>5. o[j - 1] < k /\ k <= o[j]
    BY <2>2, <2>4
  <2> QED BY <2>3, <2>5
<1>3. i \in 1..N /\ I(i)
  <2> HIDE DEF I
  <2> QED BY <1>2
<1>4. ByteAt(k) = buffers[i][k - o[i - 1]]
  BY DEF ByteAt, UpTo
<1>5. \A j \in 1..N : \A l \in 1..Len(buffers[j]) : buffers[j][l] = b + o[j - 1] + l
  BY DEF Holds, Content
<1>6. b \in Int
  BY <1>1, BytesNat DEF Holds
<1> HIDE DEF N, o, i, b
<1>7. i \in 1..N /\ i - 1 \in 0..N
  BY <1>1, <1>3
<1> DEFINE a == o[i - 1]
<1>8. a \in Nat /\ a < k /\ k <= o[i] /\ o[i] = a + Len(buffers[i]) /\ Len(buffers[i]) \in Nat
  BY <1>1, <1>3, <1>7
<1>9. ByteAt(k) = buffers[i][k - a]
  BY <1>4
<1>10. \A l \in 1..Len(buffers[i]) : buffers[i][l] = b + a + l
  BY <1>5, <1>7
<1> HIDE DEF a
<1>11. k - a \in 1..Len(buffers[i])
  BY <1>8
<1>12. buffers[i][k - a] = b + a + (k - a)
  BY <1>10, <1>11
<1>13. ByteAt(k) = b + k
  BY <1>6, <1>8, <1>9, <1>12
<1>14. ByteAt(k) \in Nat
  <2>1. buffers[i] \in Seq(Nat)
    BY <1>1, <1>7 DEF Queues, N
  <2> QED BY <1>9, <1>11, <2>1, LenProperties
<1> QED BY <1>13, <1>14 DEF b

LEMMA AudioIs ==
    ASSUME Holds
    PROVE  /\ Audio = [k \in 1..PacketSize |->
                         IF k > Bytes THEN 0 ELSE (written - Bytes) + k]
           /\ Audio \in [1..PacketSize -> Nat]
<1>1. Bytes \in Nat /\ PacketSize \in Nat
  BY BytesNat, SizesAssumption DEF Holds
<1>2. ASSUME NEW k \in 1..PacketSize, ~(k > Bytes)
      PROVE  ByteAt(k) = (written - Bytes) + k /\ ByteAt(k) \in Nat
  <2>1. k \in Nat /\ 1 <= k /\ k <= Bytes
    BY <1>1, <1>2
  <2> QED BY <2>1, ByteAtIs
<1>3. \A k \in 1..PacketSize :
          (IF k > Bytes THEN 0 ELSE ByteAt(k)) \in Nat
  BY <1>2
<1> QED BY <1>2, <1>3 DEF Audio

(* What the copy loop leaves in the queue goes on behind the packet.       *)
LEMMA RestIs ==
    ASSUME Holds
    PROVE  /\ Rest \in Queues
           /\ Bytes > PacketSize =>
                 /\ Offsets(Rest)[Len(Rest)] = Bytes - PacketSize
                 /\ Content(Rest, (written - Bytes) + PacketSize)
           /\ Bytes <= PacketSize => Rest = <<>>
<1> DEFINE N == Len(buffers)
           o == Offsets(buffers)
           b == written - Bytes
           I(j) == Copied(j - 1) /\ ~Copied(j)
           i == CHOOSE j \in 1..N : I(j)
<1>1. /\ buffers \in Queues /\ N \in Nat /\ o \in [0..N -> Nat] /\ Bytes \in Nat
      /\ PacketSize \in Nat /\ b \in Int /\ Content(buffers, b)
  BY OffsetsSum, BytesNat, SizesAssumption DEF Holds
<1>2. CASE Bytes <= PacketSize
  <2>1. Rest = <<>>
    BY <1>2 DEF Rest, Copied, Bytes
  <2> QED BY <1>1, <1>2, <2>1, EmptyHolds
<1>3. CASE ~(Bytes <= PacketSize)
  <2>1. PacketSize < o[N]
    BY <1>1, <1>3 DEF Bytes, UpTo
  <2>2. \E j \in 1..N : I(j)
    <3>1. PICK j \in 1..N : o[j - 1] <= PacketSize /\ PacketSize < o[j]
      BY <1>1, <2>1, Crossing
    <3>2. j \in 0..N
      BY <1>1, <3>1
    <3>3. o[j] \in Nat
      BY <1>1, <3>2
    <3>4. ~(o[j] <= PacketSize)
      BY <1>1, <3>1, <3>3
    <3> QED BY <3>1, <3>4 DEF Copied, UpTo
  <2>3. i \in 1..N /\ I(i)
    <3> HIDE DEF I
    <3> QED BY <2>2
  <2>4. o[i - 1] <= PacketSize /\ PacketSize < o[i]
    <3>1. i \in 1..N /\ o[i - 1] <= PacketSize /\ ~(o[i] <= PacketSize)
      BY <2>3 DEF Copied, UpTo
    <3> HIDE DEF i
    <3>2. i \in 0..N
      BY <1>1, <3>1
    <3>3. o[i] \in Nat
      BY <1>1, <3>2
    <3> QED BY <1>1, <3>1, <3>3
  <2>5. Rest = Behind(buffers, PacketSize, i)
    BY <1>3 DEF Rest, Copied, Bytes, UpTo, Behind
  <2> HIDE DEF i
  <2>6. /\ Rest \in Queues
        /\ Offsets(Rest)[Len(Rest)] = Offsets(buffers)[Len(buffers)] - PacketSize
        /\ Content(Rest, b + PacketSize)
    <3>1. /\ buffers \in Queues /\ b \in Int /\ Content(buffers, b)
          /\ PacketSize \in Nat /\ i \in 1..Len(buffers)
      BY <1>1, <2>3
    <3>2. Offsets(buffers)[i - 1] <= PacketSize /\ PacketSize < Offsets(buffers)[i]
      BY <2>4
    <3> HIDE DEF b, N, o
    <3> QED BY <2>5, <3>1, <3>2, ContentSplits
  <2> QED BY <1>1, <1>3, <2>6 DEF Bytes, UpTo
<1> QED BY <1>2, <1>3

-----------------------------------------------------------------------------
(* The invariant: the chunks are the bytes not yet read, and currentSize   *)
(* counts them as long as the end was not told.                            *)

AudioInv == TypeOK /\ IInv /\ SizeIsExact /\ Holds

LEMMA InitAudioInv == Init => AudioInv
<1> SUFFICES ASSUME Init PROVE AudioInv
  OBVIOUS
<1>1. buffers = <<>> /\ Bytes = 0 /\ written = 0
  BY EmptyHolds DEF Init, Bytes, UpTo
<1>2. Holds
  BY <1>1, EmptyHolds DEF Holds
<1>3. SizeIsExact
  BY <1>1 DEF Init, SizeIsExact
<1>4. Silence \in [1..PacketSize -> Nat]
  BY DEF Silence
<1>5. TypeOK
  <2>1. packet \in [1..PacketSize -> Nat]
    BY <1>4 DEF Init
  <2>2. currentSize = 0 /\ status = "WAITING" /\ told = "none" /\ throttled = FALSE
        /\ patient \in BOOLEAN
    BY DEF Init
  <2>3. buffers \in Seq(Seq(Nat)) /\ written \in Nat
    BY <1>1, EmptyHolds DEF Queues
  <2>4. throttled \in BOOLEAN
    BY <2>2
  <2> QED BY <2>1, <2>2, <2>3, <2>4 DEF TypeOK, Status
<1> QED BY <1>2, <1>3, <1>5, InitIInv DEF AudioInv

(* A chunk that is pushed keeps what the buffer holds and moves the size.  *)
LEMMA PushHolds ==
    ASSUME Holds, NEW n \in ChunkSizes, Push(n)
    PROVE  Holds' /\ Bytes' = Bytes + n /\ n \in Nat \ {0} /\ written' \in Nat
<1> DEFINE p == Append(buffers, [i \in 1..n |-> written + i])
           b == written - Bytes
<1>1. /\ n \in Nat \ {0} /\ buffers \in Queues /\ written \in Nat /\ Bytes \in Nat
      /\ Content(buffers, written - Offsets(buffers)[Len(buffers)])
      /\ buffers' = p /\ written' = written + n
  BY ChunksAssumption, BytesNat DEF Holds, Push, Bytes, UpTo
<1> HIDE DEF p
<1>2. /\ p \in Queues
      /\ Offsets(p)[Len(p)] = Offsets(buffers)[Len(buffers)] + n
      /\ Content(p, written - Offsets(buffers)[Len(buffers)])
  BY <1>1, ContentGrows DEF p
<1>3. Bytes' = Bytes + n /\ Content(p, b)
  BY <1>1, <1>2 DEF Bytes, UpTo
<1>4. (written - Bytes)' = b
  BY <1>1, <1>3
<1> HIDE DEF b
<1>5. Content(buffers, written - Bytes)'
  BY <1>1, <1>3, <1>4
<1> QED BY <1>1, <1>2, <1>3, <1>5 DEF Holds

(* A packet takes the bytes it carries, and no others, out of the buffer.  *)
LEMMA ReadHolds ==
    ASSUME Holds, ReadAudio
    PROVE  /\ Holds'
           /\ Bytes' = IF Bytes <= PacketSize THEN 0 ELSE Bytes - PacketSize
           /\ written' = written
           /\ Bytes \in Nat
<1>1. /\ buffers' = Rest /\ written' = written /\ written \in Nat /\ Bytes \in Nat
      /\ PacketSize \in Nat
  BY BytesNat, SizesAssumption DEF ReadAudio, Holds
<1>2. Rest \in Queues
  BY RestIs
<1>3. Bytes' = Offsets(Rest)[Len(Rest)]
  BY <1>1 DEF Bytes, UpTo
<1>4. CASE Bytes <= PacketSize
  <2>1. buffers' = <<>> /\ Bytes' = 0
    BY <1>1, <1>3, <1>4, RestIs, EmptyHolds
  <2>2. Content(buffers', (written - Bytes)')
    BY <2>1, EmptyHolds
  <2> QED BY <1>1, <1>2, <1>4, <2>1, <2>2 DEF Holds
<1>5. CASE ~(Bytes <= PacketSize)
  <2>1. /\ Bytes' = Bytes - PacketSize
        /\ Content(Rest, (written - Bytes) + PacketSize)
    BY <1>1, <1>3, <1>5, RestIs
  <2>2. (written - Bytes)' = (written - Bytes) + PacketSize
    BY <1>1, <2>1
  <2>3. Content(buffers', (written - Bytes)')
    BY <1>1, <2>1, <2>2
  <2> QED BY <1>1, <1>2, <1>5, <2>1, <2>3 DEF Holds
<1> QED BY <1>4, <1>5

LEMMA NextAudioInv == AudioInv /\ [Next]_vars => AudioInv'
<1> SUFFICES ASSUME AudioInv, [Next]_vars PROVE AudioInv'
  OBVIOUS
<1>1. /\ TypeOK /\ IInv /\ SizeIsExact /\ Holds /\ Bytes \in Nat /\ currentSize \in Int
  BY BytesNat DEF AudioInv, Holds, TypeOK
<1>2. IInv'
  BY <1>1, NextIInv
<1>3. status' \in Status /\ currentSize' \in Int
  BY <1>2 DEF IInv, Control
<1>4. ASSUME NEW n \in ChunkSizes, Write(n) \/ WriteClosed(n) PROVE AudioInv'
  <2>1. Push(n)
    BY <1>4 DEF Write, WriteClosed
  <2>2. Holds' /\ Bytes' = Bytes + n /\ n \in Nat \ {0} /\ written' \in Nat
    BY <1>1, <2>1, PushHolds
  <2>3. packet' = packet /\ patient' = patient /\ currentSize' = currentSize + n
    BY <2>1 DEF Push
  <2>4. told' \in {told, "playing", "buffering"} /\ throttled' \in {throttled, TRUE}
    BY <1>4 DEF Write, WriteClosed
  <2>5. TypeOK'
    BY <1>1, <1>3, <2>2, <2>3, <2>4 DEF Holds, TypeOK, Queues
  <2>6. \/ status # "ENDED" /\ ~(status = "ENDING" /\ told = "end")
        \/ ~(status' # "ENDED" /\ ~(status' = "ENDING" /\ told' = "end"))
    BY <1>4 DEF Write, WriteClosed, Closed
  <2>7. SizeIsExact'
    BY <1>1, <2>2, <2>3, <2>6 DEF SizeIsExact
  <2> QED BY <1>2, <2>2, <2>5, <2>7 DEF AudioInv
<1>5. CASE ReadAudio
  <2> DEFINE size == currentSize - PacketSize
  <2>1. /\ Holds' /\ Bytes' = IF Bytes <= PacketSize THEN 0 ELSE Bytes - PacketSize
    BY <1>1, <1>5, ReadHolds
  <2>2. /\ Closed \/ ~TooLittle
        /\ packet' = Audio
        /\ currentSize' = IF Ends(size) THEN 0 ELSE size
        /\ status' = IF Ends(size) THEN "ENDED"
                     ELSE IF Drains(size) THEN "NORMAL" ELSE status
        /\ told' = IF Ends(size) THEN "end" ELSE told
        /\ throttled' = (throttled /\ ~Drains(size))
        /\ patient' = patient /\ written' = written
    BY <1>5 DEF ReadAudio
  <2>3. size \in Int /\ PacketSize \in Nat
    BY <1>1, SizesAssumption
  <2>4. TypeOK'
    <3>1. throttled' \in BOOLEAN
      BY <2>2
    <3>2. told' \in {"none", "buffering", "playing", "end"}
      <4> HIDE DEF size
      <4> QED BY <1>1, <2>2 DEF TypeOK, Queues
    <3>3. packet' \in [1..PacketSize -> Nat]
      BY <1>1, <2>2, AudioIs
    <3> HIDE DEF size
    <3> QED BY <1>1, <1>3, <2>1, <2>2, <3>1, <3>2, <3>3 DEF Holds, TypeOK, Queues
  <2>5. SizeIsExact'
    <3> SUFFICES ASSUME status' # "ENDED", ~(status' = "ENDING" /\ told' = "end")
                 PROVE  currentSize' = Bytes'
      BY DEF SizeIsExact
    <3> HIDE DEF size
    <3>1. ~Ends(size)
      BY <2>2
    <3>2. status # "ENDED" /\ ~(status = "ENDING" /\ told = "end") /\ currentSize' = size
      BY <2>2, <3>1 DEF Drains
    <3>3. currentSize = Bytes
      BY <1>1, <3>2 DEF SizeIsExact
    <3>4. size >= 0
      <4>1. CASE Closed
        <5>1. status = "ENDING"
          BY <3>2, <4>1 DEF Closed
        <5> QED BY <2>3, <3>1, <5>1 DEF Ends
      <4>2. CASE ~TooLittle
        <5>1. ~(currentSize < PacketSize)
          BY <4>2 DEF TooLittle
        <5> QED BY <1>1, <2>3, <5>1 DEF size
      <4> QED BY <2>2, <4>1, <4>2
    <3>5. size = Bytes - PacketSize
      BY <3>3 DEF size
    <3> QED BY <1>1, <2>1, <2>3, <3>2, <3>4, <3>5
  <2> QED BY <1>2, <2>1, <2>4, <2>5 DEF AudioInv
<1>6. CASE ReadSilence
  <2>1. UNCHANGED <<buffers, currentSize, written, patient, throttled>> /\ ~Closed
    BY <1>6 DEF ReadSilence
  <2>2. Holds' /\ Bytes' = Bytes
    BY <1>1, <2>1 DEF Holds, Bytes, UpTo
  <2>3. packet' \in [1..PacketSize -> Nat]
    BY <1>6 DEF ReadSilence, Silence
  <2>4. told' \in {told, "buffering"}
    BY <1>6 DEF ReadSilence
  <2>5. TypeOK'
    BY <1>1, <1>3, <2>1, <2>2, <2>3, <2>4 DEF Holds, TypeOK, Queues
  <2>6. SizeIsExact'
    BY <1>1, <2>1, <2>2 DEF SizeIsExact, Closed
  <2> QED BY <1>2, <2>2, <2>5, <2>6 DEF AudioInv
<1>7. CASE End
  <2>1. /\ UNCHANGED <<buffers, currentSize, packet, written, patient, throttled>>
        /\ status' = "ENDING" /\ told' \in {told, "playing"}
        /\ told' # "end" => told # "end" \/ status = "FILLING"
    BY <1>7 DEF End
  <2>2. Holds' /\ Bytes' = Bytes
    BY <1>1, <2>1 DEF Holds, Bytes, UpTo
  <2>3. TypeOK'
    BY <1>1, <1>3, <2>1, <2>2 DEF Holds, TypeOK, Queues
  <2>4. SizeIsExact'
    BY <1>1, <2>1, <2>2 DEF SizeIsExact, IInv, StatusIsTold
  <2> QED BY <1>2, <2>2, <2>3, <2>4 DEF AudioInv
<1>8. CASE Reset
  <2>1. /\ UNCHANGED <<told, packet, written, patient, throttled>>
        /\ buffers' = <<>> /\ currentSize' = 0
    BY <1>8 DEF Reset
  <2>2. Bytes' = 0 /\ buffers' \in Queues
    BY <2>1, EmptyHolds DEF Bytes, UpTo
  <2>3. Holds'
    BY <1>1, <2>1, <2>2, EmptyHolds DEF Holds
  <2>4. TypeOK'
    BY <1>1, <1>3, <2>1, <2>2 DEF TypeOK, Queues
  <2>5. SizeIsExact'
    BY <2>1, <2>2 DEF SizeIsExact
  <2> QED BY <1>2, <2>3, <2>4, <2>5 DEF AudioInv
<1>9. CASE UNCHANGED vars
  <2>1. UNCHANGED <<buffers, currentSize, status, told, packet, written, patient, throttled>>
    BY <1>9 DEF vars
  <2>2. Holds' /\ Bytes' = Bytes
    BY <1>1, <2>1 DEF Holds, Bytes, UpTo
  <2>3. TypeOK'
    BY <1>1, <2>1 DEF TypeOK, Queues
  <2>4. SizeIsExact'
    BY <1>1, <2>1, <2>2 DEF SizeIsExact
  <2> QED BY <1>2, <2>2, <2>3, <2>4 DEF AudioInv
<1> QED BY <1>4, <1>5, <1>6, <1>7, <1>8, <1>9 DEF Next, ReadPacket

LEMMA AudioInductive == Spec => []AudioInv
BY InitAudioInv, NextAudioInv, PTL DEF Spec

(* Every field of the buffer keeps its kind; packets have their length.    *)
THEOREM TypeCorrect == Spec => []TypeOK
<1>1. AudioInv => TypeOK
  BY DEF AudioInv
<1> QED BY <1>1, AudioInductive, PTL

(* currentSize, kept by hand in four places, is the number of bytes in the *)
(* queue until 'end' has been told, for all chunk and packet sizes.        *)
THEOREM SizeExact == Spec => []SizeIsExact
<1>1. AudioInv => SizeIsExact
  BY DEF AudioInv
<1> QED BY <1>1, AudioInductive, PTL

(* 'end' is not told while a byte written is still in the queue.           *)
THEOREM EndLast == Spec => EndComesLast
<1>1. ASSUME AudioInv, [Next]_vars, told # "end", told' = "end" PROVE Bytes' = 0
  <2>1. ASSUME NEW n \in ChunkSizes PROVE ~Write(n) /\ ~WriteClosed(n)
    BY <1>1 DEF Write, WriteClosed
  <2>2. ~ReadSilence /\ ~End /\ ~Reset /\ ~UNCHANGED vars
    BY <1>1 DEF ReadSilence, End, Reset, vars
  <2>3. ReadAudio
    BY <1>1, <2>1, <2>2 DEF Next, ReadPacket
  <2>4. status = "ENDING" /\ currentSize - PacketSize <= 0
    BY <1>1, <2>3 DEF ReadAudio, Ends
  <2>5. Holds /\ currentSize = Bytes /\ currentSize \in Int
    BY <1>1, <2>4 DEF AudioInv, SizeIsExact, TypeOK
  <2>6. Bytes <= PacketSize
    BY <2>4, <2>5, SizesAssumption
  <2> QED BY <2>3, <2>5, <2>6, ReadHolds
<1>2. AudioInv /\ [Next]_vars => [told # "end" /\ told' = "end" => Bytes' = 0]_vars
  BY <1>1
<1> QED BY <1>2, AudioInductive, PTL DEF Spec, EndComesLast

(* The packets read are the audio written: in order, without a gap, padded *)
(* at the end only, for all chunk and packet sizes.                        *)
THEOREM PlayoutImplemented == Spec => ImplementsPlayout
<1>1. Init => Abstract!Init
  <2> SUFFICES ASSUME Init PROVE Abstract!Init
    OBVIOUS
  <2>1. Bytes = 0
    BY EmptyHolds DEF Init, Bytes, UpTo
  <2> QED BY <2>1 DEF Init, Abstract!Init, Abstract!Silence, Silence, Closed
<1>2. AudioInv /\ [Next]_vars => [Abstract!Next]_(Abstract!vars)
  <2> SUFFICES ASSUME AudioInv, [Next]_vars PROVE [Abstract!Next]_(Abstract!vars)
    OBVIOUS
  <2>1. /\ Holds /\ SizeIsExact /\ written \in Nat /\ Bytes \in Nat /\ currentSize \in Int
        /\ PacketSize \in Nat \ {0}
    BY BytesNat, SizesAssumption DEF AudioInv, TypeOK, Holds
  <2>2. ASSUME NEW n \in ChunkSizes, Write(n) \/ WriteClosed(n) PROVE Abstract!Push
    <3>1. Push(n)
      BY <2>2 DEF Write, WriteClosed
    <3>2. Bytes' = Bytes + n /\ n \in Nat \ {0} /\ written' = written + n /\ packet' = packet
      BY <2>1, <3>1, PushHolds DEF Push
    <3>3. Closed' = Closed
      BY <2>2 DEF Write, WriteClosed, Closed
    <3>4. (written - Bytes)' = written - Bytes /\ written' > written
      BY <2>1, <3>2
    <3> QED BY <3>2, <3>3, <3>4 DEF Abstract!Push
  <2>3. CASE ReadAudio
    <3>1. /\ Bytes' = IF Bytes <= PacketSize THEN 0 ELSE Bytes - PacketSize
          /\ written' = written
      BY <2>1, <2>3, ReadHolds
    <3>2. packet' = Audio /\ (Closed \/ ~TooLittle)
      BY <2>3 DEF ReadAudio
    <3>3. Closed' = Closed
      BY <2>3 DEF ReadAudio, Ends, Drains, Closed
    <3>4. Audio = [k \in 1..PacketSize |->
                     IF k > Bytes THEN 0 ELSE (written - Bytes) + k]
      BY <2>1, AudioIs
    <3>5. CASE Bytes >= PacketSize
      <4>1. (written - Bytes)' = (written - Bytes) + PacketSize
        BY <2>1, <3>1, <3>5
      <4>2. written - (written - Bytes) >= PacketSize
        BY <2>1, <3>5
      <4>3. Audio = Abstract!Audio(PacketSize)
        BY <2>1, <3>4, <3>5 DEF Abstract!Audio
      <4> QED BY <3>1, <3>2, <3>3, <4>1, <4>2, <4>3 DEF Abstract!Next, Abstract!PlayFull
    <3>6. CASE ~(Bytes >= PacketSize)
      <4>1. Closed
        <5> SUFFICES ASSUME ~Closed PROVE FALSE
          OBVIOUS
        <5>1. currentSize = Bytes
          BY <2>1 DEF SizeIsExact, Closed
        <5>2. ~(currentSize < PacketSize)
          BY <3>2 DEF TooLittle
        <5> QED BY <2>1, <3>6, <5>1, <5>2
      <4>2. (written - Bytes)' = written
        BY <2>1, <3>1, <3>6
      <4>3. written - (written - Bytes) = Bytes
        BY <2>1
      <4>4. Audio = Abstract!Audio(Bytes)
        BY <2>1, <3>4 DEF Abstract!Audio
      <4>5. Abstract!PlayRest
        BY <2>1, <3>1, <3>2, <3>3, <3>6, <4>1, <4>2, <4>3, <4>4 DEF Abstract!PlayRest
      <4> QED BY <4>5 DEF Abstract!Next
    <3> QED BY <3>5, <3>6
  <2>4. CASE ReadSilence
    <3>1. buffers' = buffers /\ written' = written /\ ~Closed /\ packet' = Silence
      BY <2>4 DEF ReadSilence
    <3>2. Bytes' = Bytes
      BY <3>1 DEF Bytes, UpTo
    <3>3. Closed' = Closed
      BY <2>4 DEF ReadSilence, Closed
    <3> QED BY <3>1, <3>2, <3>3 DEF Abstract!Next, Abstract!PlaySilence, Abstract!Silence, Silence
  <2>5. CASE End
    <3>1. buffers' = buffers /\ written' = written /\ Closed' /\ packet' = packet
      BY <2>5 DEF End, Closed
    <3>2. Bytes' = Bytes
      BY <3>1 DEF Bytes, UpTo
    <3> QED BY <3>1, <3>2 DEF Abstract!Next, Abstract!Close
  <2>6. CASE Reset
    <3>1. buffers' = <<>> /\ written' = written /\ ~Closed' /\ packet' = packet
      BY <2>6 DEF Reset, Closed
    <3>2. Bytes' = 0
      BY <3>1, EmptyHolds DEF Bytes, UpTo
    <3>3. (written - Bytes)' = written'
      BY <2>1, <3>1, <3>2
    <3> QED BY <3>1, <3>3 DEF Abstract!Next, Abstract!Skip
  <2>7. CASE UNCHANGED vars
    BY <2>7 DEF vars, Bytes, UpTo, Closed, Abstract!vars
  <2> QED
    BY <2>2, <2>3, <2>4, <2>5, <2>6, <2>7 DEF Next, ReadPacket, Abstract!Next
<1> QED
  BY <1>1, <1>2, AudioInductive, PTL DEF Spec, ImplementsPlayout, Abstract!Spec
=============================================================================
