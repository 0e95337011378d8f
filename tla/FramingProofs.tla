--------------------------- MODULE FramingProofs ----------------------------
(***************************************************************************)
(* How replies are found in the stream, for any replies, however it is cut,*)
(* and what the pairing code reads from their bodies.                      *)
(***************************************************************************)
EXTENDS Framing, Induction, SequenceTheorems

Data == Seq(Nat)

-----------------------------------------------------------------------------
(* Sequences.                                                              *)

(* The elements of a concatenation. *)
LEMMA ConcatAt ==
    ASSUME NEW S, NEW s \in Seq(S), NEW t \in Seq(S)
    PROVE  /\ s \o t \in Seq(S)
           /\ Len(s) \in Nat /\ Len(t) \in Nat
           /\ Len(s \o t) = Len(s) + Len(t)
           /\ \A k \in 1..Len(s) : (s \o t)[k] = s[k]
           /\ \A k \in 1..Len(t) : (s \o t)[Len(s) + k] = t[k]
<1>1. /\ s \o t \in Seq(S)
      /\ Len(s) \in Nat /\ Len(t) \in Nat
      /\ Len(s \o t) = Len(s) + Len(t)
      /\ \A k \in 1..Len(s) + Len(t) :
            (s \o t)[k] = IF k <= Len(s) THEN s[k] ELSE t[k - Len(s)]
  BY ConcatProperties
<1> DEFINE m == Len(s)
           n == Len(t)
           c == s \o t
<1> HIDE DEF m, n, c
<1>2. m \in Nat /\ n \in Nat
  BY <1>1 DEF m, n
<1>3. \A k \in 1..m + n : c[k] = IF k <= m THEN s[k] ELSE t[k - m]
  BY <1>1 DEF m, n, c
<1>4. ASSUME NEW k \in 1..m PROVE c[k] = s[k]
  BY <1>2, <1>3
<1>5. ASSUME NEW k \in 1..n PROVE c[m + k] = t[k]
  <2>1. m + k \in 1..m + n /\ ~(m + k <= m) /\ (m + k) - m = k
    BY <1>2
  <2> QED BY <1>3, <2>1
<1> QED BY <1>1, <1>4, <1>5 DEF m, n, c

(* FlattenSeq concatenates from the left.                                  *)
Flattens(f, seqs, S) ==
    /\ f \in [0..Len(seqs) -> Seq(S)]
    /\ f[0] = <<>>
    /\ \A k \in 1..Len(seqs) : f[k] = f[k - 1] \o seqs[k]

LEMMA FlattenIs ==
    ASSUME NEW S, NEW seqs \in Seq(Seq(S))
    PROVE  \E f : Flattens(f, seqs, S) /\ FlattenSeq(seqs) = f[Len(seqs)]
<1> DEFINE n == Len(seqs)
           Step == [k \in 1..n |-> [x \in Seq(S) |-> x \o seqs[k]]]
           F(g) == [k \in 1..n |-> IF k = 1 THEN seqs[k] ELSE g[k - 1] \o seqs[k]]
<1>1. n \in Nat /\ \A k \in 1..n : seqs[k] \in Seq(S)
  OBVIOUS
<1>2. ASSUME NEW k \in 1..n, NEW x \in Seq(S) PROVE x \o seqs[k] \in Seq(S)
  BY <1>1, ConcatProperties
<1>3. Step \in [1..n -> [Seq(S) -> Seq(S)]]
  <2> HIDE DEF n
  <2> QED BY <1>2
<1>4. <<>> \in Seq(S)
  BY EmptySeq
<1> HIDE DEF n
<1>5. PICK f : Recursive(f, n, Seq(S), <<>>, Step)
  <2> HIDE DEF Step
  <2> QED BY <1>1, <1>3, <1>4, RecursionExists
<1>6. f \in [0..n -> Seq(S)] /\ f[0] = <<>>
  BY <1>5 DEF Recursive
<1>7. ASSUME NEW k \in 1..n PROVE f[k] = f[k - 1] \o seqs[k]
  <2>1. f[k] = Step[k][f[k - 1]]
    <3> HIDE DEF Step
    <3> QED BY <1>5 DEF Recursive
  <2>2. k - 1 \in 0..n
    BY <1>1
  <2>3. f[k - 1] \in Seq(S)
    BY <1>6, <2>2
  <2> QED BY <2>1, <2>3
<1>8. n # 0 => f[1] = seqs[1]
  <2> SUFFICES ASSUME n # 0 PROVE f[1] = seqs[1]
    OBVIOUS
  <2>1. 1 \in 1..n
    BY <1>1
  <2>2. f[1] = f[1 - 1] \o seqs[1]
    BY <1>7, <2>1
  <2>3. 1 - 1 = 0
    OBVIOUS
  <2>4. f[1] = <<>> \o seqs[1]
    BY <1>6, <2>2, <2>3
  <2>5. <<>> \o seqs[1] = seqs[1]
    BY <1>1, <2>1, ConcatEmptySeq
  <2> QED BY <2>4, <2>5
<1>9. CASE n = 0
  <2>1. seqs = <<>>
    BY <1>9 DEF n
  <2>2. FlattenSeq(seqs) = <<>>
    BY <2>1 DEF FlattenSeq
  <2> QED BY <1>6, <1>7, <1>9, <2>2 DEF Flattens, n
<1>10. CASE n # 0
  <2> DEFINE g == [k \in 1..n |-> f[k]]
             h == CHOOSE x : x = F(x)
  <2>1. g = F(g)
    <3>1. ASSUME NEW k \in 1..n
          PROVE  g[k] = IF k = 1 THEN seqs[k] ELSE g[k - 1] \o seqs[k]
      <4>1. CASE k = 1
        BY <1>8, <1>10, <4>1
      <4>2. CASE k # 1
        <5>1. k - 1 \in 1..n
          BY <1>1, <4>2
        <5> QED BY <1>7, <4>2, <5>1
      <4> QED BY <4>1, <4>2
    <3> QED BY <3>1
  <2>2. h = F(h)
    <3> HIDE DEF F, g
    <3> QED BY <2>1
  <2>3. ASSUME NEW k \in 1..n
        PROVE  h[k] = IF k = 1 THEN seqs[k] ELSE h[k - 1] \o seqs[k]
    <3> HIDE DEF h
    <3> QED BY <2>2
  <2>4. FlattenSeq(seqs) = h[n]
    BY <1>10 DEF FlattenSeq, n
  <2> HIDE DEF h
  <2>5. \A k \in Nat : k <= n /\ k # 0 => h[k] = f[k]
    <3> DEFINE T == {k \in Nat : k <= n /\ k # 0 => h[k] = f[k]}
    <3>1. 0 \in T
      OBVIOUS
    <3>2. ASSUME NEW k \in Nat, k \in T PROVE k + 1 \in T
      <4> SUFFICES ASSUME k + 1 <= n PROVE h[k + 1] = f[k + 1]
        OBVIOUS
      <4>1. k + 1 \in 1..n /\ (k + 1) - 1 = k
        BY <1>1
      <4>2. CASE k = 0
        <5>1. h[1] = seqs[1] /\ k + 1 = 1
          BY <2>3, <4>1, <4>2
        <5> QED BY <1>8, <1>10, <5>1
      <4>3. CASE k # 0
        <5>1. h[k] = f[k]
          BY <1>1, <3>2, <4>3
        <5>2. h[k + 1] = h[(k + 1) - 1] \o seqs[k + 1]
          <6>1. \A j \in 1..n : j # 1 => h[j] = h[j - 1] \o seqs[j]
            BY <2>3
          <6>2. k + 1 \in 1..n /\ k + 1 # 1
            BY <4>1, <4>3
          <6> HIDE DEF h
          <6> QED BY ONLY <6>1, <6>2
        <5>3. f[k + 1] = f[(k + 1) - 1] \o seqs[k + 1]
          BY <1>7, <4>1
        <5> QED BY <4>1, <5>1, <5>2, <5>3
      <4> QED BY <4>2, <4>3
    <3> HIDE DEF T
    <3>3. Nat \subseteq T
      BY <3>1, <3>2, SetInduction
    <3> QED BY <3>3 DEF T
  <2>6. h[n] = f[n]
    BY <1>1, <1>10, <2>5
  <2> QED BY <1>6, <1>7, <2>4, <2>6 DEF Flattens, n
<1> QED BY <1>9, <1>10

-----------------------------------------------------------------------------
(* One fragment: its type, its length, its bytes.                          *)

Header(type, value) == <<type, Len(value)>> \o value

LEMMA HeaderIs ==
    ASSUME NEW type \in Nat, NEW value \in Data
    PROVE  /\ Header(type, value) \in Data
           /\ Len(Header(type, value)) = 2 + Len(value)
           /\ Header(type, value)[1] = type
           /\ Header(type, value)[2] = Len(value)
           /\ \A k \in 1..Len(value) : Header(type, value)[2 + k] = value[k]
<1> DEFINE h == <<type, Len(value)>>
<1>1. h \in Seq(Nat) /\ Len(h) = 2 /\ h[1] = type /\ h[2] = Len(value)
  BY DEF Data
<1> HIDE DEF h
<1>2. /\ h \o value \in Seq(Nat) /\ Len(h \o value) = 2 + Len(value)
      /\ \A k \in 1..2 : (h \o value)[k] = h[k]
      /\ \A k \in 1..Len(value) : (h \o value)[2 + k] = value[k]
  <2>1. h \in Seq(Nat) /\ value \in Seq(Nat)
    BY <1>1 DEF Data
  <2>2. /\ h \o value \in Seq(Nat) /\ Len(h \o value) = Len(h) + Len(value)
        /\ \A k \in 1..Len(h) : (h \o value)[k] = h[k]
        /\ \A k \in 1..Len(value) : (h \o value)[Len(h) + k] = value[k]
    BY ONLY <2>1, ConcatAt
  <2>3. Len(h) = 2
    BY <1>1
  <2> QED BY ONLY <2>2, <2>3
<1>3. 1 \in 1..2 /\ 2 \in 1..2
  OBVIOUS
<1> QED BY <1>1, <1>2, <1>3 DEF Header, h, Data

-----------------------------------------------------------------------------
(* Decoding.                                                               *)

(* What decode makes of the bytes from i on, given what it makes of those  *)
(* behind the fragment at i.                                               *)
Onward(data, i) == AtMost(i + 2 + data[i + 1], Len(data) + 1)
Payload(data, i) == SubSeq(data, i + 2, AtMost(i + 1 + data[i + 1], Len(data)))
Decodes(data, i, f) ==
    IF i > Len(data) THEN <<>>
    ELSE IF i = Len(data) THEN Joined(data[i], <<>>, <<>>)
    ELSE Joined(data[i], Payload(data, i), f[Onward(data, i)])

LEMMA OnwardIs ==
    ASSUME NEW data \in Data, NEW i \in Nat, 1 <= i, i < Len(data)
    PROVE  /\ data[i + 1] \in Nat
           /\ Onward(data, i) \in i + 1..Len(data) + 1
<1>1. Len(data) \in Nat /\ i + 1 \in 1..Len(data)
  BY DEF Data
<1>2. data[i + 1] \in Nat
  BY <1>1 DEF Data
<1> DEFINE c == data[i + 1]
           n == Len(data)
<1>3. c \in Nat /\ n \in Nat /\ i < n
  BY <1>1, <1>2
<1> HIDE DEF c, n
<1>4. AtMost(i + 2 + c, n + 1) \in i + 1..n + 1
  BY <1>3 DEF AtMost
<1> QED BY <1>2, <1>4 DEF Onward, c, n

(* Decoding is by recursion towards the end of the data. *)
LEMMA DecodeIs ==
    ASSUME NEW data \in Data
    PROVE  \E f : /\ \A i \in 1..Len(data) + 1 : f[i] = Decodes(data, i, f)
                  /\ Decode(data) = f[1]
<1> DEFINE n == Len(data)
           F(f, m) == [i \in m..n + 1 |-> Decodes(data, i, f)]
           S == {j \in Nat : j <= n => \E f : f = F(f, n + 1 - j)}
<1>1. n \in Nat
  BY DEF Data
<1>2. 0 \in S
  <2> DEFINE f == [i \in n + 1..n + 1 |-> <<>>]
  <2>1. \A i \in n + 1..n + 1 : Decodes(data, i, f) = <<>>
    BY <1>1 DEF Decodes
  <2>2. f = F(f, n + 1)
    BY <2>1
  <2>3. n + 1 - 0 = n + 1
    BY <1>1
  <2>4. \E g : g = F(g, n + 1 - 0)
    BY <2>2, <2>3
  <2> QED BY <2>4
<1>3. ASSUME NEW j \in Nat, j \in S PROVE j + 1 \in S
  <2> DEFINE a == n + 1 - j
             b == n + 1 - (j + 1)
  <2> SUFFICES ASSUME j + 1 <= n PROVE \E g : g = F(g, b)
    OBVIOUS
  <2>1. \E f : f = F(f, a)
    BY <1>1, <1>3
  <2>2. PICK f : f = F(f, a)
    BY <2>1
  <2>3. a \in Nat /\ b \in Nat /\ a = b + 1 /\ 1 <= b /\ b <= n
    BY <1>1
  <2> HIDE DEF a, b
  <2> DEFINE g == [i \in b..n + 1 |-> IF i = b THEN Decodes(data, b, f) ELSE f[i]]
  <2>4. ASSUME NEW i \in b..n + 1 PROVE Decodes(data, i, g) = Decodes(data, i, f)
    <3>1. CASE i >= n
      BY <1>1, <2>3, <3>1 DEF Decodes
    <3>2. CASE i < n
      <4>1. i \in Nat /\ 1 <= i
        BY <1>1, <2>3
      <4>2. Onward(data, i) \in i + 1..n + 1
        BY <3>2, <4>1, OnwardIs
      <4>3. Onward(data, i) \in b..n + 1 /\ Onward(data, i) # b
        BY <1>1, <2>3, <4>2
      <4>4. g[Onward(data, i)] = f[Onward(data, i)]
        BY <4>3
      <4> HIDE DEF g
      <4> QED BY <4>4 DEF Decodes
    <3> QED BY <1>1, <2>3, <3>1, <3>2
  <2>5. ASSUME NEW i \in b..n + 1 PROVE g[i] = Decodes(data, i, g)
    <3>1. CASE i = b
      BY <2>4, <3>1
    <3>2. CASE i # b
      <4>1. i \in a..n + 1
        BY <1>1, <2>3, <3>2
      <4>2. f[i] = Decodes(data, i, f)
        <5>1. F(f, a)[i] = Decodes(data, i, f)
          BY <4>1
        <5> HIDE DEF F
        <5> QED BY <2>2, <5>1
      <4>3. g[i] = f[i]
        BY <3>2
      <4> HIDE DEF g
      <4> QED BY <2>4, <4>2, <4>3
    <3> QED BY <3>1, <3>2
  <2>6. g = F(g, b)
    <3>1. g = [i \in b..n + 1 |-> g[i]]
      OBVIOUS
    <3> HIDE DEF g
    <3> QED BY <2>5, <3>1
  <2> QED BY <2>6
<1> HIDE DEF S
<1>4. n \in S
  BY <1>1, <1>2, <1>3, SetInduction
<1>5. \E f : f = F(f, 1)
  <2>1. n + 1 - n = 1 /\ n <= n
    BY <1>1
  <2>2. \E f : f = F(f, n + 1 - n)
    <3> HIDE DEF F
    <3> QED BY <1>4, <2>1 DEF S
  <2> QED BY <2>1, <2>2
<1> DEFINE h == CHOOSE f : f = F(f, 1)
<1>6. h = F(h, 1)
  <2> HIDE DEF F
  <2> QED BY <1>5
<1>7. Decode(data) = h[1]
  BY DEF Decode, Decodes, Onward, Payload
<1>8. \A i \in 1..n + 1 : h[i] = Decodes(data, i, h)
  <2> HIDE DEF h
  <2> QED BY <1>6
<1> QED BY <1>7, <1>8

(* It sees only what is behind the position it starts at. *)
LEMMA DecodesSuffix ==
    ASSUME NEW pre \in Data, NEW rest \in Data, NEW f, NEW g,
           \A i \in 1..Len(pre \o rest) + 1 : f[i] = Decodes(pre \o rest, i, f),
           \A i \in 1..Len(rest) + 1 : g[i] = Decodes(rest, i, g)
    PROVE  f[Len(pre) + 1] = g[1]
<1> DEFINE data == pre \o rest
           m == Len(pre)
           n == Len(rest)
           S == {j \in Nat : j <= n =>
                    \A i \in Nat : 1 <= i /\ i <= n + 1 /\ n + 1 <= i + j
                        => f[m + i] = g[i]}
<1>1. /\ data \in Data /\ m \in Nat /\ n \in Nat /\ Len(data) = m + n
      /\ \A k \in 1..n : data[m + k] = rest[k]
      /\ \A k \in 1..n : rest[k] \in Nat
  BY ConcatAt DEF Data
<1>2. \A i \in 1..m + n + 1 : f[i] = Decodes(data, i, f)
  BY <1>1
<1>3. \A i \in 1..n + 1 : g[i] = Decodes(rest, i, g)
  OBVIOUS
<1> HIDE DEF data, m, n
<1>4. f[m + (n + 1)] = g[n + 1]
  <2>1. m + (n + 1) \in 1..m + n + 1 /\ n + 1 \in 1..n + 1 /\ m + (n + 1) > m + n
    BY <1>1
  <2>2. Decodes(data, m + (n + 1), f) = <<>>
    BY <1>1, <2>1 DEF Decodes
  <2>3. Decodes(rest, n + 1, g) = <<>>
    BY <1>1 DEF Decodes, n
  <2> QED BY <1>2, <1>3, <2>1, <2>2, <2>3
<1>5. ASSUME NEW i \in 1..n,
             \A k \in i + 1..n + 1 : f[m + k] = g[k]
      PROVE  f[m + i] = g[i]
  <2>1. /\ m + i \in 1..m + n + 1 /\ i \in 1..n + 1
        /\ data[m + i] = rest[i]
    BY <1>1
  <2>2. f[m + i] = Decodes(data, m + i, f) /\ g[i] = Decodes(rest, i, g)
    BY <1>2, <1>3, <2>1
  <2>3. CASE i = n
    <3>1. m + i = Len(data) /\ i = Len(rest)
      BY <1>1, <2>3 DEF n
    <3>2. Decodes(data, m + i, f) = Joined(data[m + i], <<>>, <<>>)
      BY <1>1, <3>1 DEF Decodes
    <3>3. Decodes(rest, i, g) = Joined(rest[i], <<>>, <<>>)
      BY <1>1, <3>1 DEF Decodes
    <3> QED BY <2>1, <2>2, <3>2, <3>3
  <2>4. CASE i # n
    <3> DEFINE c == rest[i + 1]
    <3>1. i + 1 \in 1..n /\ i < n /\ c \in Nat
      BY <1>1, <2>4
    <3>2. data[m + (i + 1)] = c
      BY <1>1, <3>1
    <3>3. m + (i + 1) = (m + i) + 1
      BY <1>1
    <3>4. data[(m + i) + 1] = c
      BY <3>2, <3>3
    <3> HIDE DEF c
    <3>5. AtMost(m + i + 2 + c, m + n + 1) = m + AtMost(i + 2 + c, n + 1)
      BY <1>1, <3>1 DEF AtMost
    <3>6. AtMost(i + 2 + c, n + 1) \in i + 1..n + 1
      BY <1>1, <3>1 DEF AtMost
    <3>7. /\ Onward(data, m + i) = AtMost(m + i + 2 + c, m + n + 1)
          /\ Onward(rest, i) = AtMost(i + 2 + c, n + 1)
      BY <1>1, <3>4 DEF Onward, c, n
    <3>8. f[Onward(data, m + i)] = g[Onward(rest, i)]
      BY <1>5, <3>5, <3>6, <3>7
    <3>9. Payload(data, m + i) = Payload(rest, i)
      <4> DEFINE e == AtMost(i + 1 + c, n)
      <4>1. AtMost(m + i + 1 + c, m + n) = m + e
        BY <1>1, <3>1 DEF AtMost
      <4>2. e \in Nat /\ e <= n /\ e >= i + 1
        BY <1>1, <3>1 DEF AtMost
      <4>3. Payload(data, m + i) = SubSeq(data, m + i + 2, m + e)
        BY <1>1, <3>4, <4>1 DEF Payload
      <4>4. Payload(rest, i) = SubSeq(rest, i + 2, e)
        BY DEF Payload, c, n
      <4> HIDE DEF e
      <4>5. CASE e < i + 2
        <5>1. m + e < m + i + 2 /\ m + e \in Int /\ m + i + 2 \in Int
              /\ e \in Int /\ i + 2 \in Int
          BY <1>1, <4>2, <4>5
        <5>2. SubSeq(data, m + i + 2, m + e) = <<>>
          BY <5>1, SubSeqEmpty
        <5>3. SubSeq(rest, i + 2, e) = <<>>
          BY <4>5, <5>1, SubSeqEmpty
        <5> QED BY <4>3, <4>4, <5>2, <5>3
      <4>6. CASE e >= i + 2
        <5>1. /\ m + i + 2 \in m + 1..m + n /\ m + e \in m + 1..m + n
              /\ (m + i + 2) - m = i + 2 /\ (m + e) - m = e
          BY <1>1, <4>2, <4>6
        <5>2. SubSeq(pre \o rest, m + i + 2, m + e)
                = SubSeq(rest, (m + i + 2) - m, (m + e) - m)
          BY <5>1, SubSeqOfConcat2 DEF Data, m, n
        <5> QED BY <4>3, <4>4, <5>1, <5>2 DEF data
      <4> QED BY <1>1, <4>2, <4>5, <4>6
    <3>10. Decodes(data, m + i, f) =
             Joined(data[m + i], Payload(data, m + i), f[Onward(data, m + i)])
      BY <1>1, <3>1 DEF Decodes
    <3>11. Decodes(rest, i, g) = Joined(rest[i], Payload(rest, i), g[Onward(rest, i)])
      BY <1>1, <3>1 DEF Decodes, n
    <3> QED BY <2>1, <2>2, <3>8, <3>9, <3>10, <3>11
  <2> QED BY <2>3, <2>4
<1>6. 0 \in S
  <2> SUFFICES ASSUME NEW i \in Nat, 1 <= i, i <= n + 1, n + 1 <= i + 0
               PROVE  f[m + i] = g[i]
    OBVIOUS
  <2>1. i = n + 1
    BY <1>1
  <2> QED BY <1>4, <2>1
<1>7. ASSUME NEW j \in Nat, j \in S PROVE j + 1 \in S
  <2> SUFFICES ASSUME j + 1 <= n, NEW i \in Nat, 1 <= i, i <= n + 1,
                      n + 1 <= i + (j + 1)
               PROVE  f[m + i] = g[i]
    OBVIOUS
  <2>1. \A k \in Nat : 1 <= k /\ k <= n + 1 /\ n + 1 <= k + j => f[m + k] = g[k]
    BY <1>1, <1>7
  <2>2. CASE i = n + 1
    BY <1>4, <2>2
  <2>3. CASE i # n + 1
    <3>1. i \in 1..n
      BY <1>1, <2>3
    <3>2. \A k \in i + 1..n + 1 : f[m + k] = g[k]
      BY <1>1, <2>1
    <3> QED BY <1>5, <3>1, <3>2
  <2> QED BY <2>2, <2>3
<1> HIDE DEF S
<1>8. n \in S
  BY <1>1, <1>6, <1>7, SetInduction
<1>9. f[m + 1] = g[1]
  BY <1>1, <1>8 DEF S
<1> QED BY <1>9 DEF m

(* One fragment is read, and what follows it is decoded by itself. *)
LEMMA DecodeFragment ==
    ASSUME NEW type \in Nat, NEW value \in Data, NEW rest \in Data
    PROVE  Decode(Header(type, value) \o rest) = Joined(type, value, Decode(rest))
<1> DEFINE h == Header(type, value)
           data == h \o rest
           v == Len(value)
           n == Len(rest)
<1>1. /\ h \in Data /\ Len(h) = 2 + v /\ h[1] = type /\ h[2] = v
      /\ \A k \in 1..v : h[2 + k] = value[k]
  BY HeaderIs
<1>2. v \in Nat /\ n \in Nat
  BY DEF Data
<1> HIDE DEF h
<1>3. /\ data \in Data /\ Len(data) = 2 + v + n
      /\ \A k \in 1..2 + v : data[k] = h[k]
  <2>1. h \in Seq(Nat) /\ rest \in Seq(Nat)
    BY <1>1 DEF Data
  <2>2. /\ data \in Seq(Nat) /\ Len(data) = Len(h) + Len(rest)
        /\ \A k \in 1..Len(h) : data[k] = h[k]
    BY <2>1, ConcatAt
  <2>3. Len(h) = 2 + v /\ Len(rest) = n
    BY <1>1
  <2> HIDE DEF data, v, n
  <2> QED BY ONLY <2>2, <2>3 DEF Data
<1>4. PICK f : /\ \A i \in 1..Len(data) + 1 : f[i] = Decodes(data, i, f)
               /\ Decode(data) = f[1]
  BY <1>3, DecodeIs
<1>5. PICK g : /\ \A i \in 1..n + 1 : g[i] = Decodes(rest, i, g)
               /\ Decode(rest) = g[1]
  BY DecodeIs
<1>6. f[2 + v + 1] = g[1]
  <2>1. f[Len(h) + 1] = g[1]
    <3>1. \A i \in 1..Len(h \o rest) + 1 : f[i] = Decodes(h \o rest, i, f)
      BY <1>4
    <3>2. \A i \in 1..Len(rest) + 1 : g[i] = Decodes(rest, i, g)
      BY <1>5
    <3>3. h \in Data
      BY <1>1
    <3> QED BY ONLY rest \in Data, <3>1, <3>2, <3>3, DecodesSuffix
  <2> QED BY <1>1, <2>1
<1> HIDE DEF data, v, n
<1>7. data[1] = type /\ data[2] = v
  BY <1>1, <1>2, <1>3
<1>8. Decodes(data, 1, f) = Joined(data[1], Payload(data, 1), f[Onward(data, 1)])
  BY <1>2, <1>3 DEF Decodes
<1>9. Onward(data, 1) = 2 + v + 1
  <2>1. data[1 + 1] = v
    BY <1>7
  <2>2. AtMost(1 + 2 + v, (2 + v + n) + 1) = 2 + v + 1
    BY <1>2 DEF AtMost
  <2> QED BY <1>3, <2>1, <2>2 DEF Onward
<1>10. Payload(data, 1) = value
  <2>1. data[1 + 1] = v
    BY <1>7
  <2>2. AtMost(1 + 1 + v, 2 + v + n) = 2 + v
    BY <1>2 DEF AtMost
  <2>3. Payload(data, 1) = SubSeq(data, 3, 2 + v)
    <3>1. Payload(data, 1) = SubSeq(data, 1 + 2, AtMost(1 + 1 + data[1 + 1], Len(data)))
      BY DEF Payload
    <3>2. 1 + 2 = 3
      OBVIOUS
    <3>3. Len(data) = 2 + v + n
      BY <1>3
    <3> QED BY ONLY <2>1, <2>2, <3>1, <3>2, <3>3
  <2>4. \A k \in 3..2 + v : data[k] \in Nat
    BY <1>2, <1>3 DEF Data
  <2> DEFINE w == SubSeq(data, 3, 2 + v)
  <2>5. /\ w \in Seq(Nat) /\ Len(w) = IF 3 <= 2 + v THEN (2 + v) - 3 + 1 ELSE 0
        /\ \A k \in 1..(2 + v) - 3 + 1 : w[k] = data[3 + k - 1]
    BY <1>2, <2>4, SubSeqProperties
  <2> HIDE DEF w
  <2>6. Len(w) = v
    BY <1>2, <2>5
  <2>7. ASSUME NEW k \in 1..v PROVE w[k] = value[k]
    <3>1. /\ k \in 1..(2 + v) - 3 + 1 /\ 3 + k - 1 = 2 + k /\ 2 + k \in 1..2 + v
      BY <1>2
    <3> QED BY <1>1, <1>3, <2>5, <3>1
  <2>8. value \in Seq(Nat) /\ Len(value) = v
    BY DEF Data, v
  <2>9. w = value
    BY <2>5, <2>6, <2>7, <2>8, SeqEqual
  <2> QED BY <2>3, <2>9 DEF w
<1>11. 1 \in 1..Len(data) + 1
  BY <1>2, <1>3
<1>12. Decode(data) = Joined(type, value, Decode(rest))
  BY <1>4, <1>5, <1>6, <1>7, <1>8, <1>9, <1>10, <1>11
<1> QED BY <1>12 DEF data, h

LEMMA DecodeNothing == Decode(<<>>) = <<>>
<1>1. <<>> \in Data /\ Len(<<>>) = 0
  BY DEF Data
<1>2. PICK f : /\ \A i \in 1..Len(<<>>) + 1 : f[i] = Decodes(<<>>, i, f)
               /\ Decode(<<>>) = f[1]
  BY <1>1, DecodeIs
<1>3. 1 \in 1..Len(<<>>) + 1 /\ Decodes(<<>>, 1, f) = <<>>
  BY <1>1 DEF Decodes
<1> QED BY <1>2, <1>3

-----------------------------------------------------------------------------
(* A value in fragments.                                                   *)

(* What decoding yields: the values by type. *)
Table(r) == /\ r = [t \in DOMAIN r |-> r[t]]
            /\ \A t \in DOMAIN r : r[t] \in Data
At(r, t) == IF t \in DOMAIN r THEN r[t] ELSE <<>>

LEMMA TableOfNothing == Table(<<>>) /\ DOMAIN (<<>>) = {}
<1>1. DOMAIN (<<>>) = {}
  OBVIOUS
<1>2. <<>> = [t \in DOMAIN (<<>>) |-> (<<>>)[t]]
  OBVIOUS
<1> QED BY <1>1, <1>2 DEF Table

LEMMA Together ==
    ASSUME NEW a \in Data, NEW b \in Data
    PROVE  a \o b \in Data
BY ConcatProperties DEF Data

LEMMA Associative ==
    ASSUME NEW a \in Data, NEW b \in Data, NEW c \in Data
    PROVE  (a \o b) \o c = a \o (b \o c)
BY ConcatAssociative DEF Data

LEMMA WithNothing ==
    ASSUME NEW a \in Data
    PROVE  a \o <<>> = a /\ <<>> \o a = a
BY ConcatEmptySeq DEF Data

LEMMA AtIs ==
    ASSUME NEW r, NEW t, Table(r)
    PROVE  At(r, t) \in Data
<1>1. <<>> \in Data
  BY DEF Data
<1> QED BY <1>1 DEF At, Table

LEMMA JoinedIs ==
    ASSUME NEW type, NEW value \in Data, NEW r, Table(r)
    PROVE  /\ DOMAIN Joined(type, value, r) = DOMAIN r \cup {type}
           /\ At(Joined(type, value, r), type) = value \o At(r, type)
<1> DEFINE j == Joined(type, value, r)
<1>1. DOMAIN j = DOMAIN r \cup {type}
  BY DEF Joined
<1>2. j[type] = value \o At(r, type)
  <2>1. CASE type \in DOMAIN r
    BY <2>1 DEF Joined, At
  <2>2. CASE type \notin DOMAIN r
    <3>1. j[type] = value /\ At(r, type) = <<>>
      BY <2>2 DEF Joined, At
    <3> QED BY <3>1, WithNothing
  <2> QED BY <2>1, <2>2
<1> HIDE DEF j
<1>3. At(j, type) = value \o At(r, type)
  BY <1>1, <1>2 DEF At
<1> QED BY <1>1, <1>3 DEF j

LEMMA JoinedElsewhere ==
    ASSUME NEW type, NEW value, NEW r, NEW t, t # type
    PROVE  At(Joined(type, value, r), t) = At(r, t)
BY DEF At, Joined

LEMMA JoinedTable ==
    ASSUME NEW type, NEW value \in Data, NEW r, Table(r)
    PROVE  Table(Joined(type, value, r))
<1> DEFINE j == Joined(type, value, r)
<1>1. j = [t \in DOMAIN j |-> j[t]]
  BY DEF Joined
<1> HIDE DEF j
<1>2. ASSUME NEW t \in DOMAIN j PROVE j[t] \in Data
  <2>1. At(r, t) \in Data
    BY AtIs
  <2>2. value \o At(r, t) \in Data
    BY ONLY value \in Data, <2>1, Together
  <2>3. At(j, t) \in Data
    <3>1. CASE t = type
      BY <2>2, <3>1, JoinedIs DEF j
    <3>2. CASE t # type
      BY <2>1, <3>2, JoinedElsewhere DEF j
    <3> QED BY <3>1, <3>2
  <2> QED BY <2>3 DEF At
<1> QED BY <1>1, <1>2 DEF Table, j

(* Tables are told apart by their types and values. *)
LEMMA TableEqual ==
    ASSUME NEW r, NEW q, Table(r), Table(q), DOMAIN r = DOMAIN q,
           \A t \in DOMAIN r : At(r, t) = At(q, t)
    PROVE  r = q
BY DEF Table, At

(* Fragment after fragment is the value of both. *)
LEMMA JoinedTwice ==
    ASSUME NEW type, NEW a \in Data, NEW b \in Data, NEW r, Table(r)
    PROVE  Joined(type, a, Joined(type, b, r)) = Joined(type, a \o b, r)
<1> DEFINE i == Joined(type, b, r)
           x == Joined(type, a, i)
           y == Joined(type, a \o b, r)
<1>1. a \o b \in Data
  BY Together
<1>2. Table(i)
  BY JoinedTable
<1>3. Table(x)
  <2> HIDE DEF i
  <2> QED BY <1>2, JoinedTable
<1>4. Table(y)
  BY <1>1, JoinedTable
<1>5. DOMAIN i = DOMAIN r \cup {type} /\ At(i, type) = b \o At(r, type)
  BY JoinedIs
<1>6. DOMAIN x = DOMAIN i \cup {type} /\ At(x, type) = a \o At(i, type)
  <2> HIDE DEF i
  <2> QED BY <1>2, JoinedIs
<1>7. DOMAIN y = DOMAIN r \cup {type} /\ At(y, type) = (a \o b) \o At(r, type)
  BY <1>1, JoinedIs
<1>8. (a \o b) \o At(r, type) = a \o (b \o At(r, type))
  BY AtIs, Associative
<1>9. ASSUME NEW t, t # type PROVE At(x, t) = At(y, t)
  <2>1. At(i, t) = At(r, t) /\ At(x, t) = At(i, t) /\ At(y, t) = At(r, t)
    BY <1>9, JoinedElsewhere
  <2> QED BY <2>1
<1> HIDE DEF i, x, y
<1>10. At(x, type) = At(y, type)
  BY <1>5, <1>6, <1>7, <1>8
<1>11. DOMAIN x = DOMAIN y /\ \A t \in DOMAIN x : At(x, t) = At(y, t)
  BY <1>5, <1>6, <1>7, <1>9, <1>10
<1>12. x = y
  BY <1>3, <1>4, <1>11, TableEqual
<1> QED BY <1>12 DEF x, y, i

(* The first parts of a concatenation of many. *)
Parts(seqs) == CHOOSE f : Flattens(f, seqs, Nat) /\ FlattenSeq(seqs) = f[Len(seqs)]
Prefix(seqs, k) == Parts(seqs)[k]

LEMMA PrefixIs ==
    ASSUME NEW seqs \in Seq(Data)
    PROVE  /\ Prefix(seqs, 0) = <<>>
           /\ \A k \in 0..Len(seqs) : Prefix(seqs, k) \in Data
           /\ \A k \in 1..Len(seqs) : Prefix(seqs, k) = Prefix(seqs, k - 1) \o seqs[k]
           /\ FlattenSeq(seqs) = Prefix(seqs, Len(seqs))
<1>1. seqs \in Seq(Seq(Nat))
  BY DEF Data
<1>2. \E f : Flattens(f, seqs, Nat) /\ FlattenSeq(seqs) = f[Len(seqs)]
  BY <1>1, FlattenIs
<1>3. /\ Flattens(Parts(seqs), seqs, Nat)
      /\ FlattenSeq(seqs) = Parts(seqs)[Len(seqs)]
  BY <1>2 DEF Parts
<1> QED BY <1>3 DEF Flattens, Prefix, Data

Fragments(size) ==
    IF size <= MaxFragment THEN 1 ELSE (size + MaxFragment - 1) \div MaxFragment

(* There is a fragment, and the fragments hold all of the value. *)
LEMMA FragmentsAre ==
    ASSUME NEW size \in Nat
    PROVE  /\ Fragments(size) \in Nat /\ 1 <= Fragments(size)
           /\ size <= Fragments(size) * MaxFragment
<1>1. MaxFragment \in Nat /\ MaxFragment > 0
  BY FragmentAssumption
<1>2. CASE size <= MaxFragment
  BY <1>1, <1>2 DEF Fragments
<1>3. CASE size > MaxFragment
  <2> DEFINE x == size + MaxFragment - 1
             q == x \div MaxFragment
             m == x % MaxFragment
  <2>1. x \in Nat /\ x >= MaxFragment
    BY <1>1, <1>3
  <2>2. x = MaxFragment * q + m /\ q \in Int /\ m \in 0..MaxFragment - 1
    <3> HIDE DEF x
    <3> QED BY <1>1, <2>1
  <2>3. Fragments(size) = q
    BY <1>1, <1>3 DEF Fragments
  <2> HIDE DEF q, m
  <2>4. size <= MaxFragment * q
    BY <1>1, <2>2
  <2>5. 1 <= q
    <3>1. q <= 0 => MaxFragment * q <= 0
      BY <1>1, <2>2
    <3> QED BY <1>1, <1>3, <2>2, <2>4, <3>1
  <2>6. MaxFragment * q = q * MaxFragment
    BY <1>1, <2>2
  <2> QED BY <2>2, <2>3, <2>4, <2>5, <2>6
<1> QED BY <1>1, <1>2, <1>3

(* What the first k fragments hold. *)
UpToFragment(value, k) == SubSeq(value, 1, AtMost(k * MaxFragment, Len(value)))

LEMMA NextFragment ==
    ASSUME NEW value \in Data, NEW k \in Nat, 1 <= k
    PROVE  /\ Fragment(value, k) \in Data
           /\ UpToFragment(value, k - 1) \in Data
           /\ UpToFragment(value, k) = UpToFragment(value, k - 1) \o Fragment(value, k)
<1> DEFINE low == (k - 1) * MaxFragment
           high == k * MaxFragment
           size == Len(value)
<1>1. low \in Nat /\ high \in Nat /\ low <= high
  <2>1. MaxFragment \in Nat
    BY FragmentAssumption
  <2>2. k - 1 \in Nat
    OBVIOUS
  <2>3. high = low + MaxFragment
    BY <2>1
  <2>4. low \in Nat
    BY <2>1, <2>2
  <2> HIDE DEF low, high
  <2> QED BY <2>1, <2>3, <2>4
<1>2. /\ size \in Nat /\ value \in Seq(Nat)
      /\ \A i \in 1..size : value[i] \in Nat
  BY DEF Data
<1>3. /\ Fragment(value, k) = SubSeq(value, low + 1, AtMost(high, size))
      /\ UpToFragment(value, k) = SubSeq(value, 1, AtMost(high, size))
      /\ UpToFragment(value, k - 1) = SubSeq(value, 1, AtMost(low, size))
  BY DEF Fragment, UpToFragment
<1> HIDE DEF low, high, size
<1>4. AtMost(low, size) \in 0..size /\ AtMost(high, size) \in AtMost(low, size)..size
  BY <1>1, <1>2 DEF AtMost
<1>5. UpToFragment(value, k - 1) \in Data
  <2>1. AtMost(low, size) \in Int /\ \A i \in 1..AtMost(low, size) : value[i] \in Nat
    BY <1>2, <1>4
  <2>2. SubSeq(value, 1, AtMost(low, size)) \in Seq(Nat)
    BY <2>1, SubSeqProperties
  <2> QED BY <1>3, <2>2 DEF Data
<1>6. Fragment(value, k) \in Data
  <2>1. /\ low + 1 \in Int /\ AtMost(high, size) \in Int
        /\ \A i \in low + 1..AtMost(high, size) : value[i] \in Nat
    BY <1>1, <1>2, <1>4
  <2>2. SubSeq(value, low + 1, AtMost(high, size)) \in Seq(Nat)
    BY <2>1, SubSeqProperties
  <2> QED BY <1>3, <2>2 DEF Data
<1>7. CASE low <= size
  <2>1. AtMost(low, size) = low
    BY <1>7 DEF AtMost
  <2>2. /\ 1 \in 1..size + 1 /\ low \in 1 - 1..size
        /\ AtMost(high, size) \in low..size
    BY <1>1, <1>2, <1>4, <1>7, <2>1
  <2>3. SubSeq(value, 1, low) \o SubSeq(value, low + 1, AtMost(high, size))
          = SubSeq(value, 1, AtMost(high, size))
    BY ONLY <1>2, <2>2, ConcatAdjacentSubSeq DEF size
  <2> QED BY <1>3, <1>5, <1>6, <2>1, <2>3
<1>8. CASE low > size
  <2>1. AtMost(low, size) = size /\ AtMost(high, size) = size
    BY <1>1, <1>2, <1>8 DEF AtMost
  <2>2. low + 1 \in Int /\ size \in Int /\ size < low + 1
    BY <1>1, <1>2, <1>8
  <2>3. SubSeq(value, low + 1, size) = <<>>
    BY <2>2, SubSeqEmpty
  <2>4. UpToFragment(value, k - 1) \o <<>> = UpToFragment(value, k - 1)
    BY <1>5, WithNothing
  <2> QED BY <1>3, <1>5, <1>6, <2>1, <2>3, <2>4
<1> QED BY <1>1, <1>2, <1>7, <1>8

(* An item is read from its fragments, and what follows them by itself. *)
LEMMA DecodeOne ==
    ASSUME NEW item \in [type : Nat, value : Data]
    PROVE  /\ EncodeOne(item) \in Data
           /\ \A r \in Data : Table(Decode(r)) =>
                Decode(EncodeOne(item) \o r) = Joined(item.type, item.value, Decode(r))
<1> DEFINE type == item.type
           value == item.value
           n == Fragments(Len(value))
           pieces == [k \in 1..n |-> Header(type, Fragment(value, k))]
           S == {k \in Nat : 1 <= k /\ k <= n =>
                    \A r \in Data : Table(Decode(r)) =>
                        Decode(Prefix(pieces, k) \o r)
                            = Joined(type, UpToFragment(value, k), Decode(r))}
<1>1. EncodeOne(item) = FlattenSeq(pieces)
  BY DEF EncodeOne, Fragments, Header
<1>2. type \in Nat /\ value \in Data /\ Len(value) \in Nat
  BY DEF Data
<1> HIDE DEF type, value
<1>3. n \in Nat /\ 1 <= n /\ Len(value) <= n * MaxFragment
  BY <1>2, FragmentsAre
<1> HIDE DEF n
<1>4. \A k \in 1..n : Fragment(value, k) \in Data /\ pieces[k] \in Data
  <2> TAKE k \in 1..n
  <2>1. k \in Nat /\ 1 <= k
    BY <1>3
  <2>2. Fragment(value, k) \in Data
    BY <1>2, <2>1, NextFragment
  <2>3. Header(type, Fragment(value, k)) \in Data
    BY <1>2, <2>2, HeaderIs
  <2> QED BY <2>2, <2>3
<1>5. pieces \in Seq(Data) /\ Len(pieces) = n
  BY <1>3, <1>4
<1>6. \A k \in 1..n : pieces[k] = Header(type, Fragment(value, k))
  OBVIOUS
<1> HIDE DEF pieces
<1>7. /\ Prefix(pieces, 0) = <<>>
      /\ \A k \in 0..n : Prefix(pieces, k) \in Data
      /\ \A k \in 1..n : Prefix(pieces, k) = Prefix(pieces, k - 1) \o pieces[k]
      /\ FlattenSeq(pieces) = Prefix(pieces, n)
  BY <1>5, PrefixIs
<1>8. ASSUME NEW k \in 1..n, NEW r \in Data, Table(Decode(r))
      PROVE  Decode(pieces[k] \o r) = Joined(type, Fragment(value, k), Decode(r))
  BY <1>2, <1>4, <1>6, DecodeFragment
<1>9. 0 \in S
  OBVIOUS
<1>10. ASSUME NEW k \in Nat, k \in S PROVE k + 1 \in S
  <2> SUFFICES ASSUME k + 1 <= n, NEW r \in Data, Table(Decode(r))
               PROVE  Decode(Prefix(pieces, k + 1) \o r)
                        = Joined(type, UpToFragment(value, k + 1), Decode(r))
    OBVIOUS
  <2>1. k + 1 \in Nat /\ 1 <= k + 1 /\ k + 1 \in 1..n /\ (k + 1) - 1 = k /\ k \in 0..n
    BY <1>3
  <2>2. Prefix(pieces, k + 1) = Prefix(pieces, k) \o pieces[k + 1]
    BY <1>7, <2>1
  <2>3. /\ Fragment(value, k + 1) \in Data /\ UpToFragment(value, k) \in Data
        /\ UpToFragment(value, k + 1) = UpToFragment(value, k) \o Fragment(value, k + 1)
    <3>1. /\ Fragment(value, k + 1) \in Data
          /\ UpToFragment(value, (k + 1) - 1) \in Data
          /\ UpToFragment(value, k + 1)
                = UpToFragment(value, (k + 1) - 1) \o Fragment(value, k + 1)
      BY <1>2, <2>1, NextFragment
    <3> QED BY ONLY <2>1, <3>1
  <2>4. Decode(pieces[k + 1] \o r) = Joined(type, Fragment(value, k + 1), Decode(r))
    BY <1>8, <2>1
  <2>5. CASE k = 0
    <3>1. Prefix(pieces, k + 1) = pieces[k + 1]
      BY <1>4, <1>7, <2>1, <2>2, <2>5, WithNothing
    <3>2. UpToFragment(value, k) = <<>>
      <4>1. 0 * MaxFragment = 0 /\ AtMost(0, Len(value)) = 0
        BY <1>2, FragmentAssumption DEF AtMost
      <4>2. SubSeq(value, 1, 0) = <<>>
        BY SubSeqEmpty
      <4> QED BY <2>5, <4>1, <4>2 DEF UpToFragment
    <3>3. UpToFragment(value, k + 1) = Fragment(value, k + 1)
      BY <2>3, <3>2, WithNothing
    <3> QED BY <2>4, <3>1, <3>3
  <2>6. CASE k # 0
    <3> DEFINE next == pieces[k + 1] \o r
    <3>1. next \in Data
      BY <1>4, <2>1, Together
    <3>2. Table(Decode(next))
      BY <2>3, <2>4, JoinedTable
    <3>3. Prefix(pieces, k + 1) \o r = Prefix(pieces, k) \o next
      <4>1. Prefix(pieces, k) \in Data /\ pieces[k + 1] \in Data
        BY <1>4, <1>7, <2>1
      <4>2. (Prefix(pieces, k) \o pieces[k + 1]) \o r
              = Prefix(pieces, k) \o (pieces[k + 1] \o r)
        BY ONLY <4>1, r \in Data, Associative
      <4> QED BY <2>2, <4>2
    <3> HIDE DEF next
    <3>4. Decode(Prefix(pieces, k) \o next)
            = Joined(type, UpToFragment(value, k), Decode(next))
      BY <1>10, <2>1, <2>6, <3>1, <3>2
    <3>5. Decode(next) = Joined(type, Fragment(value, k + 1), Decode(r))
      BY <2>4 DEF next
    <3>6. Joined(type, UpToFragment(value, k), Decode(next))
            = Joined(type, UpToFragment(value, k + 1), Decode(r))
      <4>1. Joined(type, UpToFragment(value, k),
                   Joined(type, Fragment(value, k + 1), Decode(r)))
              = Joined(type, UpToFragment(value, k) \o Fragment(value, k + 1), Decode(r))
        BY ONLY <2>3, Table(Decode(r)), JoinedTwice
      <4> QED BY <2>3, <3>5, <4>1
    <3> QED BY <3>3, <3>4, <3>6
  <2> QED BY <2>5, <2>6
<1> HIDE DEF S
<1>11. n \in S
  BY <1>3, <1>9, <1>10, SetInduction
<1>12. UpToFragment(value, n) = value
  <2>1. AtMost(n * MaxFragment, Len(value)) = Len(value)
    <3> DEFINE a == n * MaxFragment
               b == Len(value)
    <3>1. a \in Nat /\ b \in Nat /\ b <= a
      BY <1>2, <1>3, FragmentAssumption
    <3> HIDE DEF a, b
    <3>2. AtMost(a, b) = b
      BY <3>1 DEF AtMost
    <3> QED BY <3>2 DEF a, b
  <2>2. SubSeq(value, 1, Len(value)) = value
    BY <1>2, SubSeqFull DEF Data
  <2> QED BY <2>1, <2>2 DEF UpToFragment
<1>13. ASSUME NEW r \in Data, Table(Decode(r))
       PROVE  Decode(EncodeOne(item) \o r) = Joined(type, value, Decode(r))
  <2>1. Decode(Prefix(pieces, n) \o r) = Joined(type, UpToFragment(value, n), Decode(r))
    BY <1>3, <1>11, <1>13 DEF S
  <2> QED BY <1>1, <1>7, <1>12, <2>1
<1>14. EncodeOne(item) \in Data
  BY <1>1, <1>3, <1>7
<1> QED BY <1>13, <1>14 DEF type, value

(* The values of one type, in the order of the items. *)
ValueParts(items, t) ==
    [k \in 1..Len(items) |-> IF items[k].type = t THEN items[k].value ELSE <<>>]
Valued(items, t, k) == Prefix(ValueParts(items, t), k)
Types(items, k) == {items[j].type : j \in 1..k}

Item == [type : Nat, value : Data]
Items == Seq(Item)

LEMMA ValuedIs ==
    ASSUME NEW items \in Items, NEW t
    PROVE  /\ Valued(items, t, 0) = <<>>
           /\ \A k \in 0..Len(items) : Valued(items, t, k) \in Data
           /\ \A k \in 1..Len(items) :
                Valued(items, t, k) =
                    Valued(items, t, k - 1)
                        \o (IF items[k].type = t THEN items[k].value ELSE <<>>)
           /\ ValueOf(items, t) = Valued(items, t, Len(items))
<1> DEFINE n == Len(items)
           parts == ValueParts(items, t)
<1>1. n \in Nat /\ \A k \in 1..n : items[k] \in Item
  BY DEF Items
<1>2. <<>> \in Data
  BY DEF Data
<1>3. \A k \in 1..n : parts[k] = IF items[k].type = t THEN items[k].value ELSE <<>>
  BY DEF ValueParts
<1>4. \A k \in 1..n : parts[k] \in Data
  BY <1>1, <1>2, <1>3 DEF Item
<1>5. parts \in Seq(Data) /\ Len(parts) = n
  <2>1. parts = [k \in 1..n |-> parts[k]]
    BY DEF ValueParts
  <2> HIDE DEF parts, n
  <2> QED BY <1>1, <1>4, <2>1
<1>6. FlattenSeq(parts) = ValueOf(items, t)
  BY DEF ValueOf, ValueParts
<1> HIDE DEF parts, n
<1>7. /\ Prefix(parts, 0) = <<>>
      /\ \A k \in 0..n : Prefix(parts, k) \in Data
      /\ \A k \in 1..n : Prefix(parts, k) = Prefix(parts, k - 1) \o parts[k]
      /\ FlattenSeq(parts) = Prefix(parts, n)
  BY <1>5, PrefixIs
<1> QED BY <1>3, <1>6, <1>7 DEF Valued, parts, n

(* What is decoded from what the receiver encoded: for every type the      *)
(* values of its items, one after the other, whatever their lengths.       *)
THEOREM RoundTrip ==
    ASSUME NEW items \in Items
    PROVE  Decode(Encode(items)) =
             [t \in {items[j].type : j \in 1..Len(items)} |-> ValueOf(items, t)]
<1> DEFINE n == Len(items)
           ones == [k \in 1..n |-> EncodeOne(items[k])]
           Reads(k, r) ==
               /\ Table(Decode(Prefix(ones, k) \o r))
               /\ DOMAIN Decode(Prefix(ones, k) \o r)
                    = DOMAIN Decode(r) \cup Types(items, k)
               /\ \A t : At(Decode(Prefix(ones, k) \o r), t)
                            = Valued(items, t, k) \o At(Decode(r), t)
           S == {k \in Nat : k <= n =>
                    \A r \in Data : Table(Decode(r)) => Reads(k, r)}
<1>1. n \in Nat /\ \A k \in 1..n : items[k] \in Item
  BY DEF Items
<1>2. Encode(items) = FlattenSeq(ones)
  BY DEF Encode
<1> HIDE DEF n
<1>3. \A k \in 1..n : ones[k] = EncodeOne(items[k]) /\ ones[k] \in Data
  BY <1>1, DecodeOne DEF Item
<1>4. ones \in Seq(Data) /\ Len(ones) = n
  BY <1>1, <1>3
<1> HIDE DEF ones
<1>5. /\ Prefix(ones, 0) = <<>>
      /\ \A k \in 0..n : Prefix(ones, k) \in Data
      /\ \A k \in 1..n : Prefix(ones, k) = Prefix(ones, k - 1) \o ones[k]
      /\ FlattenSeq(ones) = Prefix(ones, n)
  BY <1>4, PrefixIs
<1>6. 0 \in S
  <2> SUFFICES ASSUME NEW r \in Data, Table(Decode(r)) PROVE Reads(0, r)
    OBVIOUS
  <2>1. Prefix(ones, 0) \o r = r
    BY <1>5, WithNothing
  <2>2. Types(items, 0) = {}
    BY DEF Types
  <2>3. \A t : At(Decode(r), t) = Valued(items, t, 0) \o At(Decode(r), t)
    BY AtIs, ValuedIs, WithNothing
  <2> QED BY <2>1, <2>2, <2>3
<1>7. ASSUME NEW k \in Nat, k \in S PROVE k + 1 \in S
  <2> SUFFICES ASSUME k + 1 <= n, NEW r \in Data, Table(Decode(r))
               PROVE  Reads(k + 1, r)
    <3> HIDE DEF Reads
    <3> QED OBVIOUS
  <2>1. k + 1 \in 1..n /\ (k + 1) - 1 = k /\ k \in 0..n
    BY <1>1
  <2> DEFINE type == items[k + 1].type
             value == items[k + 1].value
             next == ones[k + 1] \o r
             d == Decode(next)
             e == Decode(Prefix(ones, k + 1) \o r)
  <2>2. /\ items[k + 1] \in Item
        /\ type \in Nat /\ value \in Data /\ ones[k + 1] \in Data
    BY <1>1, <1>3, <2>1 DEF Item
  <2>3. next \in Data
    BY <2>2, Together
  <2>4. d = Joined(type, value, Decode(r))
    BY <1>3, <2>1, <2>2, DecodeOne DEF Item
  <2>5. Table(d)
    BY ONLY <2>2, <2>4, Table(Decode(r)), JoinedTable
  <2>6. Prefix(ones, k + 1) \o r = Prefix(ones, k) \o next
    <3>1. Prefix(ones, k) \in Data /\ Prefix(ones, k + 1) = Prefix(ones, k) \o ones[k + 1]
      BY <1>5, <2>1
    <3>2. (Prefix(ones, k) \o ones[k + 1]) \o r = Prefix(ones, k) \o (ones[k + 1] \o r)
      BY ONLY <2>2, <3>1, r \in Data, Associative
    <3> QED BY <3>1, <3>2
  <2>7. /\ Table(e) /\ DOMAIN e = DOMAIN d \cup Types(items, k)
        /\ \A t : At(e, t) = Valued(items, t, k) \o At(d, t)
    <3>1. Reads(k, next)
      <4> HIDE DEF Reads, next
      <4> QED BY <1>1, <1>7, <2>1, <2>3, <2>5 DEF S
    <3> HIDE DEF next
    <3> QED BY <2>6, <3>1
  <2> HIDE DEF type, value, next, d
  <2>8. DOMAIN e = DOMAIN Decode(r) \cup Types(items, k + 1)
    <3>1. DOMAIN d = DOMAIN Decode(r) \cup {type}
      BY <2>2, <2>4, JoinedIs
    <3>2. Types(items, k + 1) = Types(items, k) \cup {type}
      <4>1. \A j : j \in 1..k + 1 <=> j \in 1..k \/ j = k + 1
        OBVIOUS
      <4> QED BY <4>1 DEF Types, type
    <3> HIDE DEF e
    <3> QED BY <2>7, <3>1, <3>2
  <2>9. ASSUME NEW t
        PROVE  Valued(items, t, k) \o At(d, t)
                 = Valued(items, t, k + 1) \o At(Decode(r), t)
    <3>1. /\ Valued(items, t, k) \in Data
          /\ Valued(items, t, k + 1) =
                Valued(items, t, k) \o (IF type = t THEN value ELSE <<>>)
      <4>1. /\ \A j \in 0..n : Valued(items, t, j) \in Data
            /\ \A j \in 1..n :
                 Valued(items, t, j) =
                    Valued(items, t, j - 1)
                        \o (IF items[j].type = t THEN items[j].value ELSE <<>>)
        BY ValuedIs DEF n
      <4> QED BY <2>1, <4>1 DEF type, value
    <3>2. At(Decode(r), t) \in Data
      BY AtIs
    <3>3. CASE type = t
      <4>1. At(d, t) = value \o At(Decode(r), t)
        BY <2>2, <2>4, <3>3, JoinedIs
      <4>2. (Valued(items, t, k) \o value) \o At(Decode(r), t)
              = Valued(items, t, k) \o (value \o At(Decode(r), t))
        BY ONLY <2>2, <3>1, <3>2, Associative
      <4> QED BY <3>1, <3>3, <4>1, <4>2
    <3>4. CASE type # t
      <4>1. At(d, t) = At(Decode(r), t)
        BY <2>4, <3>4, JoinedElsewhere
      <4>2. Valued(items, t, k) \o <<>> = Valued(items, t, k)
        BY <3>1, WithNothing
      <4> QED BY <3>1, <3>4, <4>1, <4>2
    <3> QED BY <3>3, <3>4
  <2>10. \A t : At(e, t) = Valued(items, t, k + 1) \o At(Decode(r), t)
    <3> HIDE DEF e
    <3> QED BY <2>7, <2>9
  <2> QED BY <2>7, <2>8, <2>10
<1> HIDE DEF S
<1>8. n \in S
  BY <1>1, <1>6, <1>7, SetInduction
<1>9. <<>> \in Data /\ Table(Decode(<<>>)) /\ DOMAIN Decode(<<>>) = {}
      /\ \A t : At(Decode(<<>>), t) = <<>>
  <2>1. <<>> \in Data
    BY DEF Data
  <2>2. \A t : At(<<>>, t) = <<>>
    BY TableOfNothing DEF At
  <2> QED BY <2>1, <2>2, TableOfNothing, DecodeNothing
<1>10. Reads(n, <<>>)
  <2> HIDE DEF Reads
  <2> QED BY <1>1, <1>8, <1>9 DEF S
<1>11. Prefix(ones, n) \o <<>> = Encode(items)
  BY <1>1, <1>2, <1>5, WithNothing
<1>12. /\ Table(Decode(Encode(items)))
       /\ DOMAIN Decode(Encode(items)) = Types(items, n)
       /\ \A t : At(Decode(Encode(items)), t) = Valued(items, t, n) \o <<>>
  BY <1>9, <1>10, <1>11
<1> DEFINE d == Decode(Encode(items))
<1>13. \A t : Valued(items, t, n) \o <<>> = ValueOf(items, t)
  <2> TAKE t
  <2>1. n \in 0..n
    BY <1>1
  <2>2. Valued(items, t, n) \in Data /\ ValueOf(items, t) = Valued(items, t, n)
    BY <2>1, ValuedIs DEF n
  <2> QED BY <2>2, WithNothing
<1>14. /\ d = [t \in DOMAIN d |-> d[t]]
       /\ DOMAIN d = Types(items, n)
       /\ \A t \in DOMAIN d : d[t] = ValueOf(items, t)
  BY <1>12, <1>13 DEF Table, At
<1> HIDE DEF d
<1>15. d = [t \in Types(items, n) |-> ValueOf(items, t)]
  BY <1>14
<1> QED BY <1>15 DEF d, Types, n

LEMMA EncodeIs ==
    ASSUME NEW items \in Items
    PROVE  Encode(items) \in Data
<1> DEFINE n == Len(items)
           ones == [k \in 1..n |-> EncodeOne(items[k])]
<1>1. n \in Nat /\ \A k \in 1..n : items[k] \in Item
  BY DEF Items
<1>2. Encode(items) = FlattenSeq(ones)
  BY DEF Encode
<1> HIDE DEF n
<1>3. \A k \in 1..n : ones[k] \in Data
  BY <1>1, DecodeOne DEF Item
<1>4. ones \in Seq(Data) /\ Len(ones) = n
  BY <1>1, <1>3
<1> HIDE DEF ones
<1>5. Len(ones) \in 0..Len(ones)
  BY <1>1, <1>4
<1>6. FlattenSeq(ones) = Prefix(ones, Len(ones)) /\ Prefix(ones, Len(ones)) \in Data
  BY <1>4, <1>5, PrefixIs
<1> QED BY <1>2, <1>6

-----------------------------------------------------------------------------
(* The stream.                                                             *)

Tok == [of : Ask, part : {"status", "fields", "end", "body"}, byte : Nat]
Unit == [token : Tok, last : BOOLEAN, seam : BOOLEAN]

BodyOf(i) == Encode(Bodies[i])
ReplySize(i) == 3 + Len(BodyOf(i))

LEMMA BodyIs ==
    ASSUME NEW i \in Ask
    PROVE  /\ Bodies[i] \in Items
           /\ BodyOf(i) \in Data
           /\ ReplySize(i) \in Nat /\ ReplySize(i) >= 3
<1>1. Bodies \in Seq(Items)
  BY BodiesAssumption DEF Items, Item, Data
<1>2. Bodies[i] \in Items
  BY <1>1 DEF Ask
<1>3. BodyOf(i) \in Data
  BY <1>2, EncodeIs DEF BodyOf
<1>4. Len(BodyOf(i)) \in Nat
  BY <1>3 DEF Data
<1> QED BY <1>2, <1>3, <1>4 DEF ReplySize

(* A reply is a head of three tokens and the bytes of its body. *)
LEMMA ReplyIs ==
    ASSUME NEW i \in Ask
    PROVE  /\ Reply(i) \in Seq(Unit)
           /\ Len(Reply(i)) = ReplySize(i)
           /\ \A k \in 1..ReplySize(i) :
                /\ Reply(i)[k].last = (k = ReplySize(i))
                /\ Reply(i)[k].last => Reply(i)[k].seam
           /\ Reply(i)[1].token = Token(i, "status", 0)
           /\ Reply(i)[2].token = Token(i, "fields", 0)
           /\ Reply(i)[3].token = Token(i, "end", 0)
           /\ \A k \in 1..Len(BodyOf(i)) :
                Reply(i)[3 + k].token = Token(i, "body", BodyOf(i)[k])
<1> DEFINE body == BodyOf(i)
           size == Len(body)
           n == ReplySize(i)
           head == <<Token(i, "status", 0), Token(i, "fields", 0), Token(i, "end", 0)>>
           rest == [k \in 1..size |-> Token(i, "body", body[k])]
           tokens == head \o rest
           r == [k \in 1..n |->
                    [token |-> tokens[k], last |-> k = n,
                     seam |-> k = n \/ k % BlockSize = 0]]
<1>1. size \in Nat /\ n = 3 + size /\ \A k \in 1..size : body[k] \in Nat
  <2>1. body \in Seq(Nat)
    BY BodyIs DEF Data
  <2> HIDE DEF body
  <2>2. Len(body) \in Nat /\ \A k \in 1..Len(body) : body[k] \in Nat
    BY <2>1
  <2> QED BY <2>2 DEF ReplySize, body
<1>2. Reply(i) = [k \in 1..Len(tokens) |->
                    [token |-> tokens[k], last |-> k = Len(tokens),
                     seam |-> k = Len(tokens) \/ k % BlockSize = 0]]
  BY DEF Reply, BodyOf
<1> HIDE DEF body, size, n
<1>3. head \in Seq(Tok) /\ Len(head) = 3
  BY DEF Tok, Token
<1>4. rest \in Seq(Tok) /\ Len(rest) = size
  <2>1. \A k \in 1..size : Token(i, "body", body[k]) \in Tok
    BY <1>1 DEF Tok, Token
  <2> QED BY <1>1, <2>1
<1>5. /\ head[1] = Token(i, "status", 0) /\ head[2] = Token(i, "fields", 0)
      /\ head[3] = Token(i, "end", 0)
      /\ \A k \in 1..size : rest[k] = Token(i, "body", body[k])
  OBVIOUS
<1> HIDE DEF head, rest
<1>6. /\ tokens \in Seq(Tok) /\ Len(tokens) = Len(head) + Len(rest)
      /\ \A k \in 1..Len(head) : tokens[k] = head[k]
      /\ \A k \in 1..Len(rest) : tokens[Len(head) + k] = rest[k]
  <2>1. head \in Seq(Tok) /\ rest \in Seq(Tok)
    BY <1>3, <1>4
  <2>2. /\ head \o rest \in Seq(Tok) /\ Len(head \o rest) = Len(head) + Len(rest)
        /\ \A k \in 1..Len(head) : (head \o rest)[k] = head[k]
        /\ \A k \in 1..Len(rest) : (head \o rest)[Len(head) + k] = rest[k]
    BY ONLY <2>1, ConcatAt
  <2> QED BY <2>2
<1>7. /\ tokens \in Seq(Tok) /\ Len(tokens) = n
      /\ \A k \in 1..3 : tokens[k] = head[k]
      /\ \A k \in 1..size : tokens[3 + k] = rest[k]
  BY ONLY <1>1, <1>3, <1>4, <1>6
<1> HIDE DEF tokens
<1>8. Reply(i) = r
  BY <1>2, <1>7
<1>9. ASSUME NEW k \in 1..n
      PROVE  /\ r[k] \in Unit /\ r[k].last = (k = n)
             /\ r[k].last => r[k].seam
             /\ r[k].token = tokens[k]
  <2>1. tokens[k] \in Tok
    BY <1>7
  <2>2. (k = n) \in BOOLEAN /\ (k = n \/ k % BlockSize = 0) \in BOOLEAN
    OBVIOUS
  <2>3. r[k] = [token |-> tokens[k], last |-> k = n,
                seam |-> k = n \/ k % BlockSize = 0]
    OBVIOUS
  <2>4. ASSUME NEW x \in BOOLEAN, NEW y \in BOOLEAN
        PROVE  [token |-> tokens[k], last |-> x, seam |-> y] \in Unit
    BY <2>1 DEF Unit
  <2>5. r[k] \in Unit
    <3> HIDE DEF r
    <3> QED BY ONLY <2>2, <2>3, <2>4, Zenon
  <2>6. r[k].last = (k = n) /\ (r[k].last => r[k].seam) /\ r[k].token = tokens[k]
    OBVIOUS
  <2> HIDE DEF r
  <2> QED BY <2>5, <2>6
<1>10. r \in Seq(Unit) /\ Len(r) = n
  <2>1. r = [k \in 1..n |-> r[k]]
    OBVIOUS
  <2>2. n \in Nat
    BY <1>1
  <2> HIDE DEF r
  <2> QED BY <1>9, <2>1, <2>2
<1> HIDE DEF r
<1>11. 1 \in 1..n /\ 2 \in 1..n /\ 3 \in 1..n /\ \A k \in 1..size : 3 + k \in 1..n
  BY <1>1
<1> QED BY <1>1, <1>5, <1>7, <1>8, <1>9, <1>10, <1>11 DEF n, size, body

(* What is behind the first n elements of a sequence. *)
LEMMA TailIs ==
    ASSUME NEW S, NEW s \in Seq(S), NEW n \in Nat
    PROVE  /\ SubSeq(s, n + 1, Len(s)) \in Seq(S)
           /\ Len(SubSeq(s, n + 1, Len(s))) = IF n <= Len(s) THEN Len(s) - n ELSE 0
           /\ \A k \in 1..Len(SubSeq(s, n + 1, Len(s))) :
                /\ n + k \in n + 1..Len(s)
                /\ SubSeq(s, n + 1, Len(s))[k] = s[n + k]
<1> DEFINE z == Len(s)
           t == SubSeq(s, n + 1, z)
<1>1. z \in Nat /\ \A k \in 1..z : s[k] \in S
  OBVIOUS
<1> HIDE DEF z
<1>2. n + 1 \in Int /\ z \in Int /\ \A k \in n + 1..z : s[k] \in S
  BY <1>1
<1>3. /\ t \in Seq(S)
      /\ Len(t) = IF n + 1 <= z THEN z - (n + 1) + 1 ELSE 0
      /\ \A k \in 1..z - (n + 1) + 1 : t[k] = s[n + 1 + k - 1]
  BY <1>2, SubSeqProperties
<1> HIDE DEF t
<1>4. Len(t) = IF n <= z THEN z - n ELSE 0
  BY <1>1, <1>3
<1>5. ASSUME NEW k \in 1..Len(t) PROVE n + k \in n + 1..z /\ t[k] = s[n + k]
  <2>1. n <= z /\ k \in 1..z - n /\ z - (n + 1) + 1 = z - n /\ n + 1 + k - 1 = n + k
    BY <1>1, <1>4
  <2> QED BY <1>1, <1>3, <2>1
<1> QED BY <1>3, <1>4, <1>5 DEF t, z

Piece(coming, n) == Tokens(SubSeq(coming, 1, n))

LEMMA PieceIs ==
    ASSUME NEW coming \in Seq(Unit), NEW n \in 1..Len(coming)
    PROVE  /\ Piece(coming, n) \in Seq(Tok)
           /\ Len(Piece(coming, n)) = n
           /\ \A k \in 1..n : Piece(coming, n)[k] = coming[k].token
<1> DEFINE s == SubSeq(coming, 1, n)
           t == Tokens(s)
<1>1. n \in Nat /\ n >= 1 /\ \A k \in 1..n : coming[k] \in Unit
  OBVIOUS
<1>2. /\ s \in Seq(Unit) /\ Len(s) = IF 1 <= n THEN n - 1 + 1 ELSE 0
      /\ \A k \in 1..n - 1 + 1 : s[k] = coming[1 + k - 1]
  BY <1>1, SubSeqProperties
<1> HIDE DEF s
<1>3. Len(s) = n /\ \A k \in 1..n : s[k] = coming[k]
  <2>1. n - 1 + 1 = n
    BY <1>1
  <2>2. ASSUME NEW k \in 1..n PROVE s[k] = coming[k]
    <3>1. 1 + k - 1 = k
      BY <1>1
    <3> QED BY <1>2, <2>1, <3>1
  <2> QED BY <1>1, <1>2, <2>1, <2>2
<1>4. t = [k \in 1..n |-> s[k].token]
  BY <1>3 DEF Tokens
<1>5. \A k \in 1..n : s[k].token \in Tok
  BY <1>1, <1>3 DEF Unit
<1>6. t \in Seq(Tok) /\ Len(t) = n
  BY <1>1, <1>4, <1>5
<1>7. \A k \in 1..n : t[k] = coming[k].token
  BY <1>3, <1>4
<1> QED BY <1>6, <1>7 DEF Piece, s

LEMMA TextIs ==
    ASSUME NEW kept \in Seq(Tok), NEW coming \in Seq(Unit), NEW n \in 1..Len(coming)
    PROVE  /\ kept \o Piece(coming, n) \in Seq(Tok)
           /\ Len(kept \o Piece(coming, n)) = Len(kept) + n
           /\ \A k \in 1..Len(kept) : (kept \o Piece(coming, n))[k] = kept[k]
           /\ \A k \in 1..n : (kept \o Piece(coming, n))[Len(kept) + k] = coming[k].token
<1> DEFINE p == Piece(coming, n)
<1>1. p \in Seq(Tok) /\ Len(p) = n /\ \A k \in 1..n : p[k] = coming[k].token
  BY PieceIs
<1> HIDE DEF p
<1>2. /\ kept \o p \in Seq(Tok) /\ Len(kept \o p) = Len(kept) + Len(p)
      /\ \A k \in 1..Len(kept) : (kept \o p)[k] = kept[k]
      /\ \A k \in 1..Len(p) : (kept \o p)[Len(kept) + k] = p[k]
  <2>1. kept \in Seq(Tok) /\ p \in Seq(Tok)
    BY <1>1
  <2> QED BY ONLY <2>1, ConcatAt
<1> QED BY <1>1, <1>2 DEF p

(* The end of the head that is found is the first one. *)
LEMMA EndIs ==
    ASSUME NEW text \in Seq(Tok)
    PROVE  IF EndIndex(text) = 0
           THEN \A k \in 1..Len(text) : text[k].part # "end"
           ELSE /\ EndIndex(text) \in 1..Len(text)
                /\ text[EndIndex(text)].part = "end"
                /\ \A k \in 1..Len(text) : k < EndIndex(text) => text[k].part # "end"
<1> DEFINE ends == {k \in 1..Len(text) : text[k].part = "end"}
           e == CHOOSE k \in ends : \A j \in ends : k <= j
<1>1. Len(text) \in Nat
  OBVIOUS
<1>2. CASE ends = {}
  BY <1>2 DEF EndIndex
<1>3. CASE ends # {}
  <2>1. ends \in SUBSET Nat
    BY <1>1
  <2>2. \E k \in ends : \A j \in ends : k <= j
    <3> HIDE DEF ends
    <3> QED BY <1>3, <2>1, LeastNat
  <2>3. e \in ends /\ \A j \in ends : e <= j
    <3> HIDE DEF ends
    <3> QED BY <2>2
  <2>4. EndIndex(text) = e
    BY <1>3 DEF EndIndex
  <2> HIDE DEF e
  <2>5. e \in 1..Len(text) /\ text[e].part = "end" /\ e # 0
    BY <1>1, <2>3
  <2>6. \A k \in 1..Len(text) : k < e => text[k].part # "end"
    BY <1>1, <2>3, <2>5
  <2> QED BY <2>4, <2>5, <2>6
<1> QED BY <1>2, <1>3

(* A token left over from the body of reply h. *)
Spare(token, h) ==
    /\ token.part = "body"
    /\ h \in Ask
    /\ \E j \in 1..Len(BodyOf(h)) : token.byte = BodyOf(h)[j]

(* Between two replies: of the text kept and of what is coming, all is left*)
(* over from the body of the last reply handled.                           *)
Between(kept, coming, h) ==
    /\ \A k \in 1..Len(kept) : Spare(kept[k], h)
    /\ \A k \in 1..Len(coming) : Spare(coming[k].token, h)

(* During reply i, which follows reply h: both together are m tokens left  *)
(* over from h and then the reply, whose head is not kept to its end.      *)
During(m, kept, coming, h, i) ==
    /\ Len(kept) + Len(coming) = m + ReplySize(i)
    /\ Len(kept) <= m + 2
    /\ \A k \in 1..Len(kept) :
        IF k <= m THEN Spare(kept[k], h) ELSE kept[k] = Reply(i)[k - m].token
    /\ \A k \in 1..Len(coming) :
        IF Len(kept) + k <= m THEN Spare(coming[k].token, h)
        ELSE coming[k] = Reply(i)[Len(kept) + k - m]

LEMMA TextDuring ==
    ASSUME NEW h, NEW i \in Ask, NEW m \in Nat,
           NEW kept \in Seq(Tok), NEW coming \in Seq(Unit), NEW n \in 1..Len(coming),
           During(m, kept, coming, h, i)
    PROVE  \A k \in 1..Len(kept \o Piece(coming, n)) :
                IF k <= m THEN Spare((kept \o Piece(coming, n))[k], h)
                ELSE (kept \o Piece(coming, n))[k] = Reply(i)[k - m].token
<1> DEFINE text == kept \o Piece(coming, n)
           b == Len(kept)
<1>1. /\ text \in Seq(Tok) /\ Len(text) = b + n /\ b \in Nat
      /\ \A k \in 1..b : text[k] = kept[k]
      /\ \A k \in 1..n : text[b + k] = coming[k].token
  BY TextIs
<1>2. n \in Nat /\ \A k \in 1..n : k \in 1..Len(coming)
  OBVIOUS
<1> HIDE DEF text
<1>3. ASSUME NEW k \in 1..Len(text)
      PROVE  IF k <= m THEN Spare(text[k], h) ELSE text[k] = Reply(i)[k - m].token
  <2>1. CASE k <= b
    <3>1. k \in 1..b
      BY <1>1, <2>1
    <3> QED BY <1>1, <3>1 DEF During
  <2>2. CASE k > b
    <3> DEFINE j == k - b
    <3>1. j \in 1..n /\ b + j = k /\ j \in 1..Len(coming)
      BY <1>1, <1>2, <2>2
    <3> HIDE DEF j
    <3>2. text[k] = coming[j].token
      BY <1>1, <3>1
    <3>3. IF k <= m THEN Spare(coming[j].token, h) ELSE coming[j] = Reply(i)[k - m]
      <4>1. IF b + j <= m THEN Spare(coming[j].token, h)
            ELSE coming[j] = Reply(i)[b + j - m]
        BY <3>1 DEF During
      <4> QED BY ONLY <3>1, <4>1
    <3> QED BY <3>2, <3>3
  <2> QED BY <1>1, <2>1, <2>2
<1> QED BY <1>3 DEF text

(* Without the end of the head, the text grows. *)
LEMMA MoreText ==
    ASSUME NEW h, NEW i \in Ask, NEW m \in Nat,
           NEW kept \in Seq(Tok), NEW coming \in Seq(Unit), NEW n \in 1..Len(coming),
           During(m, kept, coming, h, i), EndIndex(kept \o Piece(coming, n)) = 0
    PROVE  During(m, kept \o Piece(coming, n), SubSeq(coming, n + 1, Len(coming)), h, i)
<1> DEFINE text == kept \o Piece(coming, n)
           b == Len(kept)
           rest == SubSeq(coming, n + 1, Len(coming))
<1>1. text \in Seq(Tok) /\ Len(text) = b + n /\ b \in Nat
  BY TextIs
<1>2. \A k \in 1..Len(text) :
        IF k <= m THEN Spare(text[k], h) ELSE text[k] = Reply(i)[k - m].token
  BY TextDuring
<1>3. \A k \in 1..Len(text) : text[k].part # "end"
  BY <1>1, EndIs
<1>4. n \in Nat /\ Len(coming) \in Nat /\ n <= Len(coming)
  OBVIOUS
<1>5. /\ rest \in Seq(Unit)
      /\ Len(rest) = Len(coming) - n
      /\ \A k \in 1..Len(rest) : n + k \in n + 1..Len(coming) /\ rest[k] = coming[n + k]
  BY <1>4, TailIs
<1> HIDE DEF text, rest
<1>6. ReplySize(i) \in Nat /\ ReplySize(i) >= 3
  BY BodyIs
<1>7. Len(text) <= m + 2
  <2> SUFFICES ASSUME Len(text) >= m + 3 PROVE FALSE
    BY <1>1, <1>4
  <2>1. m + 3 \in 1..Len(text) /\ ~(m + 3 <= m) /\ (m + 3) - m = 3
    BY <1>1, <1>4
  <2>2. text[m + 3] = Reply(i)[3].token
    BY <1>2, <2>1
  <2>3. text[m + 3].part = "end"
    <3>1. Reply(i)[3].token = Token(i, "end", 0)
      BY ReplyIs
    <3> QED BY <2>2, <3>1 DEF Token
  <2> QED BY <1>3, <2>1, <2>3
<1>8. Len(text) + Len(rest) = m + ReplySize(i)
  BY <1>1, <1>4, <1>5, <1>6 DEF During
<1>9. ASSUME NEW k \in 1..Len(rest)
      PROVE  IF Len(text) + k <= m THEN Spare(rest[k].token, h)
             ELSE rest[k] = Reply(i)[Len(text) + k - m]
  <2>1. n + k \in 1..Len(coming) /\ b + (n + k) = Len(text) + k
    BY <1>1, <1>4, <1>5
  <2>2. IF b + (n + k) <= m THEN Spare(coming[n + k].token, h)
        ELSE coming[n + k] = Reply(i)[b + (n + k) - m]
    BY <2>1 DEF During
  <2>3. rest[k] = coming[n + k]
    BY <1>5
  <2> DEFINE p == Len(text) + k
  <2>4. b + (n + k) = p
    BY <2>1
  <2> HIDE DEF b, p
  <2>5. IF p <= m THEN Spare(rest[k].token, h) ELSE rest[k] = Reply(i)[p - m]
    <3>1. CASE p <= m
      <4>1. Spare(coming[n + k].token, h)
        BY ONLY <2>2, <2>4, <3>1
      <4> QED BY <2>3, <3>1, <4>1
    <3>2. CASE ~(p <= m)
      <4>1. coming[n + k] = Reply(i)[p - m]
        <5>1. b + (n + k) - m = p - m
          BY <1>1, <1>4, <2>4
        <5> QED BY ONLY <2>2, <2>4, <3>2, <5>1
      <4> QED BY <2>3, <3>2, <4>1
    <3> QED BY <3>1, <3>2
  <2> QED BY <2>5 DEF p
<1> QED BY <1>2, <1>7, <1>8, <1>9 DEF During, text, rest

(* Between replies there is no end to find. *)
LEMMA NoReply ==
    ASSUME NEW h,
           NEW kept \in Seq(Tok), NEW coming \in Seq(Unit), NEW n \in 1..Len(coming),
           Between(kept, coming, h)
    PROVE  /\ EndIndex(kept \o Piece(coming, n)) = 0
           /\ Between(kept \o Piece(coming, n), SubSeq(coming, n + 1, Len(coming)), h)
<1> DEFINE text == kept \o Piece(coming, n)
           b == Len(kept)
           rest == SubSeq(coming, n + 1, Len(coming))
<1>1. /\ text \in Seq(Tok) /\ Len(text) = b + n /\ b \in Nat
      /\ \A k \in 1..b : text[k] = kept[k]
      /\ \A k \in 1..n : text[b + k] = coming[k].token
  BY TextIs
<1>2. n \in Nat /\ Len(coming) \in Nat /\ n <= Len(coming)
  OBVIOUS
<1>3. \A k \in 1..Len(rest) : n + k \in n + 1..Len(coming) /\ rest[k] = coming[n + k]
  BY <1>2, TailIs
<1> HIDE DEF text, rest
<1>4. ASSUME NEW k \in 1..Len(text) PROVE Spare(text[k], h)
  <2>1. CASE k <= b
    <3>1. k \in 1..b
      BY <1>1, <2>1
    <3> QED BY <1>1, <3>1 DEF Between
  <2>2. CASE k > b
    <3> DEFINE j == k - b
    <3>1. j \in 1..n /\ b + j = k /\ j \in 1..Len(coming)
      BY <1>1, <1>2, <2>2
    <3> HIDE DEF j
    <3> QED BY <1>1, <3>1 DEF Between
  <2> QED BY <1>1, <2>1, <2>2
<1>5. ASSUME NEW k \in 1..Len(rest) PROVE Spare(rest[k].token, h)
  <2>1. n + k \in 1..Len(coming)
    BY <1>2, <1>3
  <2> QED BY <1>3, <2>1 DEF Between
<1>6. EndIndex(text) = 0
  <2> SUFFICES ASSUME EndIndex(text) # 0 PROVE FALSE
    OBVIOUS
  <2>1. EndIndex(text) \in 1..Len(text) /\ text[EndIndex(text)].part = "end"
    BY <1>1, EndIs
  <2>2. text[EndIndex(text)].part = "body"
    BY <1>4, <2>1 DEF Spare
  <2> QED BY <2>1, <2>2
<1> QED BY <1>4, <1>5, <1>6 DEF Between, text, rest

LEMMA FrontIs ==
    ASSUME NEW S, NEW s \in Seq(S), NEW n \in 1..Len(s)
    PROVE  /\ SubSeq(s, 1, n) \in Seq(S)
           /\ Len(SubSeq(s, 1, n)) = n
           /\ \A k \in 1..n : SubSeq(s, 1, n)[k] = s[k]
<1> DEFINE t == SubSeq(s, 1, n)
<1>1. n \in Nat /\ n >= 1 /\ \A k \in 1..n : s[k] \in S
  OBVIOUS
<1>2. /\ t \in Seq(S) /\ Len(t) = IF 1 <= n THEN n - 1 + 1 ELSE 0
      /\ \A k \in 1..n - 1 + 1 : t[k] = s[1 + k - 1]
  BY <1>1, SubSeqProperties
<1> HIDE DEF t
<1>3. n - 1 + 1 = n
  BY <1>1
<1>4. ASSUME NEW k \in 1..n PROVE t[k] = s[k]
  <2>1. 1 + k - 1 = k
    BY <1>1
  <2> QED BY <1>2, <1>3, <2>1
<1> QED BY <1>1, <1>2, <1>3, <1>4 DEF t

LEMMA TokenIs ==
    ASSUME NEW i \in Ask, NEW p \in 1..ReplySize(i)
    PROVE  /\ Reply(i)[p].token.of = i
           /\ p = 1 => Reply(i)[p].token.part = "status"
           /\ Reply(i)[p].token.part = "end" <=> p = 3
           /\ p > 3 => /\ Spare(Reply(i)[p].token, i)
                       /\ Reply(i)[p].token.byte = BodyOf(i)[p - 3]
<1>1. BodyOf(i) \in Data /\ ReplySize(i) = 3 + Len(BodyOf(i)) /\ Len(BodyOf(i)) \in Nat
  BY BodyIs DEF ReplySize, Data
<1>2. CASE p = 1
  <2>1. Reply(i)[1].token = Token(i, "status", 0)
    BY ReplyIs
  <2> QED BY <1>2, <2>1 DEF Token
<1>3. CASE p = 2
  <2>1. Reply(i)[2].token = Token(i, "fields", 0)
    BY ReplyIs
  <2> QED BY <1>3, <2>1 DEF Token
<1>4. CASE p = 3
  <2>1. Reply(i)[3].token = Token(i, "end", 0)
    BY ReplyIs
  <2> QED BY <1>4, <2>1 DEF Token
<1>5. CASE p > 3
  <2> DEFINE k == p - 3
             size == Len(BodyOf(i))
  <2>1. k \in 1..size /\ 3 + k = p
    BY <1>1, <1>5
  <2> HIDE DEF k
  <2>2. Reply(i)[3 + k].token = Token(i, "body", BodyOf(i)[k])
    BY <2>1, ReplyIs
  <2>3. Reply(i)[p].token = Token(i, "body", BodyOf(i)[k])
    BY <2>1, <2>2
  <2>4. Spare(Reply(i)[p].token, i)
    BY <2>1, <2>3 DEF Spare, Token
  <2> QED BY <1>5, <2>3, <2>4 DEF Token, k
<1> QED BY <1>1, <1>2, <1>3, <1>4, <1>5

(* What is coming of the reply itself. *)
Comes(m, kept, coming, i) ==
    \A k \in 1..Len(coming) : \A p \in Nat :
        Len(kept) + k = m + p /\ p >= 1 =>
            p \in 1..ReplySize(i) /\ coming[k] = Reply(i)[p]

LEMMA ComingIs ==
    ASSUME NEW h, NEW i \in Ask, NEW m \in Nat,
           NEW kept \in Seq(Tok), NEW coming \in Seq(Unit),
           During(m, kept, coming, h, i)
    PROVE  Comes(m, kept, coming, i)
<1> SUFFICES ASSUME NEW k \in 1..Len(coming), NEW p \in Nat,
                    Len(kept) + k = m + p, p >= 1
             PROVE  p \in 1..ReplySize(i) /\ coming[k] = Reply(i)[p]
  BY DEF Comes
<1> DEFINE b == Len(kept)
           z == Len(coming)
<1>1. b \in Nat /\ z \in Nat /\ ReplySize(i) \in Nat /\ b + z = m + ReplySize(i)
  BY BodyIs DEF During
<1>2. ~(b + k <= m) /\ b + k - m = p /\ k <= z
  BY <1>1
<1>3. coming[k] = Reply(i)[b + k - m]
  BY <1>2 DEF During
<1>4. p \in 1..ReplySize(i)
  BY <1>1, <1>2
<1> QED BY ONLY <1>2, <1>3, <1>4

(* When the end of a head is found it is the reply's, its status line is   *)
(* found but behind a line break left over, and what is kept of the piece  *)
(* is left over from its body, as is what is still to come.                *)
HeadAt(m, kept, coming, h, i, n) ==
    LET piece == Piece(coming, n)
        text == kept \o piece
    IN /\ EndIndex(text) = m + 3
       /\ m + 3 \in 1..Len(text)
       /\ text[m + 3].of = i
       /\ Legible(SubSeq(text, 1, m + 3)) \/ (h \in Ask /\ HasBreak(h))
       /\ Between(Leftover(piece, m + 3), SubSeq(coming, n + 1, Len(coming)), i)

LEMMA HeadIsFound ==
    ASSUME NEW h, NEW i \in Ask, NEW m \in Nat,
           NEW kept \in Seq(Tok), NEW coming \in Seq(Unit), NEW n \in 1..Len(coming),
           During(m, kept, coming, h, i), EndIndex(kept \o Piece(coming, n)) # 0
    PROVE  HeadAt(m, kept, coming, h, i, n)
<1>0. Comes(m, kept, coming, i)
  BY ComingIs
<1> DEFINE piece == Piece(coming, n)
           text == kept \o piece
           b == Len(kept)
           z == Len(coming)
           e == EndIndex(text)
           rest == SubSeq(coming, n + 1, z)
           left == SubSeq(piece, (m + 3) + 1, Len(piece))
           head == SubSeq(text, 1, m + 3)
<1>1. /\ text \in Seq(Tok) /\ Len(text) = b + n /\ b \in Nat /\ z \in Nat
      /\ n \in Nat /\ n <= z /\ n >= 1
  BY TextIs
<1>2. piece \in Seq(Tok) /\ Len(piece) = n /\ \A k \in 1..n : piece[k] = coming[k].token
  BY PieceIs
<1>3. \A k \in 1..Len(text) :
        IF k <= m THEN Spare(text[k], h) ELSE text[k] = Reply(i)[k - m].token
  BY TextDuring
<1>4. ReplySize(i) \in Nat /\ ReplySize(i) >= 3 /\ b + z = m + ReplySize(i)
  BY BodyIs DEF During
<1>5. \A k \in 1..Len(rest) : n + k \in n + 1..z /\ rest[k] = coming[n + k]
  BY <1>1, TailIs
<1>6. \A k \in 1..Len(left) :
        (m + 3) + k \in (m + 3) + 1..n /\ left[k] = piece[(m + 3) + k]
  <2>1. m + 3 \in Nat
    OBVIOUS
  <2> HIDE DEF piece
  <2>2. \A k \in 1..Len(left) :
          (m + 3) + k \in (m + 3) + 1..Len(piece) /\ left[k] = piece[(m + 3) + k]
    BY ONLY <1>2, <2>1, TailIs DEF left
  <2>3. Len(piece) = n
    BY <1>2
  <2> HIDE DEF left
  <2> QED BY ONLY <2>2, <2>3
<1>7. left = Leftover(piece, m + 3)
  BY DEF Leftover
<1> HIDE DEF piece, z, rest, left
<1>8. e \in 1..b + n /\ text[e].part = "end"
  <2> HIDE DEF text
  <2>1. e \in 1..Len(text) /\ text[e].part = "end"
    BY <1>1, EndIs DEF text, piece
  <2> QED BY <1>1, <2>1
<1> HIDE DEF text, e
<1>9. e = m + 3
  <2>1. e \in 1..Len(text)
    BY <1>1, <1>8
  <2>2. ~(e <= m)
    <3> SUFFICES ASSUME e <= m PROVE FALSE
      OBVIOUS
    <3>1. Spare(text[e], h)
      BY <1>3, <2>1
    <3> QED BY <1>8, <3>1 DEF Spare
  <2>3. text[e] = Reply(i)[e - m].token
    BY <1>3, <2>1, <2>2
  <2> DEFINE p == e - m
  <2>4. p \in 1..ReplySize(i) /\ e = m + p
    BY <1>1, <1>4, <1>8, <2>2
  <2>5. Reply(i)[p].token.part = "end"
    BY <1>8, <2>3
  <2> HIDE DEF p
  <2>6. p = 3
    BY <2>4, <2>5, TokenIs
  <2> QED BY <2>4, <2>6
<1>10. m + 3 \in 1..Len(text)
  BY <1>1, <1>8, <1>9
<1>11. text[m + 3].of = i
  <2>1. ~(m + 3 <= m) /\ (m + 3) - m = 3 /\ 3 \in 1..ReplySize(i)
    BY <1>4
  <2>2. text[m + 3] = Reply(i)[3].token
    BY <1>3, <1>10, <2>1
  <2> QED BY <2>1, <2>2, TokenIs
<1>12. Legible(head) \/ (h \in Ask /\ HasBreak(h))
  <2> SUFFICES ASSUME ~(h \in Ask /\ HasBreak(h)) PROVE Legible(head)
    OBVIOUS
  <2>1. /\ Len(head) = m + 3
        /\ \A k \in 1..m + 3 : head[k] = text[k]
    BY <1>1, <1>10, FrontIs
  <2> HIDE DEF head
  <2>2. /\ m + 1 \in 1..m + 3 /\ m + 1 \in 1..Len(text)
        /\ ~(m + 1 <= m) /\ (m + 1) - m = 1 /\ 1 \in 1..ReplySize(i)
    BY <1>1, <1>4, <1>10
  <2>3. head[m + 1].part = "status"
    <3>1. text[m + 1] = Reply(i)[1].token
      BY <1>3, <2>2
    <3>2. Reply(i)[1].token.part = "status"
      BY <2>2, TokenIs
    <3> QED BY <2>1, <2>2, <3>1, <3>2
  <2>4. ASSUME NEW j \in 1..(m + 1) - 1 PROVE head[j].byte # Break
    <3>1. j \in 1..m + 3 /\ j \in 1..Len(text) /\ j <= m
      BY <1>1, <1>10
    <3>2. Spare(text[j], h)
      BY <1>3, <3>1
    <3>3. PICK x \in 1..Len(BodyOf(h)) : text[j].byte = BodyOf(h)[x]
      BY <3>2 DEF Spare
    <3>4. BodyOf(h)[x] # Break
      BY <3>2, <3>3 DEF Spare, HasBreak, BodyOf
    <3> QED BY <2>1, <3>1, <3>3, <3>4
  <2>5. \A j \in 1..(m + 1) - 1 : head[j].part = "body" => head[j].byte # Break
    BY <2>4
  <2> QED BY <2>1, <2>2, <2>3, <2>5 DEF Legible
<1>13. ASSUME NEW k \in 1..Len(left) PROVE Spare(left[k], i)
  <2> DEFINE q == (m + 3) + k
             p == b + (3 + k)
  <2>1. q \in 1..n /\ q \in 1..z /\ p \in Nat /\ p > 3 /\ b + q = m + p
    BY <1>1, <1>6
  <2>2. left[k] = coming[q].token
    BY <1>2, <1>6, <2>1
  <2> HIDE DEF q, p
  <2>3. p \in 1..ReplySize(i) /\ coming[q] = Reply(i)[p]
    <3>1. q \in 1..Len(coming) /\ p \in Nat /\ Len(kept) + q = m + p /\ p >= 1
      BY <2>1 DEF z
    <3> HIDE DEF b
    <3> QED BY ONLY <1>0, <3>1 DEF Comes
  <2>4. Spare(Reply(i)[p].token, i)
    BY <2>1, <2>3, TokenIs
  <2> QED BY <2>2, <2>3, <2>4
<1>14. ASSUME NEW k \in 1..Len(rest) PROVE Spare(rest[k].token, i)
  <2> DEFINE q == n + k
             p == (b + q) - m
  <2>1. q \in 1..z /\ p \in Nat /\ p > 3 /\ b + q = m + p
    BY <1>1, <1>5, <1>8, <1>9
  <2>2. rest[k] = coming[q]
    BY <1>5
  <2> HIDE DEF q, p
  <2>3. p \in 1..ReplySize(i) /\ coming[q] = Reply(i)[p]
    <3>1. q \in 1..Len(coming) /\ p \in Nat /\ Len(kept) + q = m + p /\ p >= 1
      BY <2>1 DEF z
    <3> HIDE DEF b
    <3> QED BY ONLY <1>0, <3>1 DEF Comes
  <2>4. Spare(Reply(i)[p].token, i)
    BY <2>1, <2>3, TokenIs
  <2> QED BY <2>2, <2>3, <2>4
<1>15. Between(left, rest, i)
  BY <1>13, <1>14 DEF Between
<1> QED BY <1>7, <1>9, <1>10, <1>11, <1>12, <1>15
        DEF HeadAt, text, e, piece, rest, z, head

(* The piece that ends a head ends within the head's reply, or with it. *)
LEMMA LastIs ==
    ASSUME NEW h, NEW i \in Ask, NEW m \in Nat,
           NEW kept \in Seq(Tok), NEW coming \in Seq(Unit), NEW n \in 1..Len(coming),
           During(m, kept, coming, h, i), m + 3 <= Len(kept) + n
    PROVE  /\ coming[n].last => n = Len(coming)
           /\ coming[n].token.of = i
           /\ coming[n].token.part \notin {"status", "fields"}
<1>0. Comes(m, kept, coming, i)
  BY ComingIs
<1> DEFINE b == Len(kept)
           z == Len(coming)
           p == (b + n) - m
<1>1. /\ b \in Nat /\ z \in Nat /\ n \in 1..z /\ m + 3 <= b + n
      /\ ReplySize(i) \in Nat /\ b + z = m + ReplySize(i)
  BY BodyIs DEF During
<1>2. p \in Nat /\ p >= 3 /\ b + n = m + p
  BY <1>1
<1> HIDE DEF p
<1>3. p \in 1..ReplySize(i) /\ coming[n] = Reply(i)[p]
  <2>1. Len(kept) + n = m + p /\ p >= 1 /\ p \in Nat
    BY <1>2
  <2> HIDE DEF b, z
  <2> QED BY ONLY <1>0, <2>1, n \in 1..Len(coming) DEF Comes
<1>4. coming[n].last => p = ReplySize(i)
  BY <1>3, ReplyIs
<1>5. coming[n].last => n = z
  BY <1>1, <1>2, <1>4
<1>6. coming[n].token.part \notin {"status", "fields"}
  <2>1. CASE p = 3
    BY <1>3, <2>1, TokenIs
  <2>2. CASE p > 3
    BY <1>3, <2>2, TokenIs DEF Spare
  <2> QED BY <1>2, <2>1, <2>2
<1> QED BY <1>3, <1>5, <1>6, TokenIs

(* A reply that is all in flight and comes in one piece is found.          *)
LEMMA WholeComes ==
    ASSUME NEW h, NEW i \in Ask, NEW m \in Nat,
           NEW kept \in Seq(Tok), NEW coming \in Seq(Unit), NEW n \in 1..Len(coming),
           During(m, kept, coming, h, i), Len(coming) = ReplySize(i), coming[n].last
    PROVE  coming[n].seam /\ EndIndex(kept \o Piece(coming, n)) # 0
<1>0. Comes(m, kept, coming, i)
  BY ComingIs
<1> DEFINE b == Len(kept)
           text == kept \o Piece(coming, n)
<1>1. b \in Nat /\ ReplySize(i) \in Nat /\ ReplySize(i) >= 3 /\ b = m
  BY BodyIs DEF During
<1>2. ASSUME NEW k \in 1..Len(coming) PROVE coming[k] = Reply(i)[k]
  <2>1. Len(kept) + k = m + k /\ k >= 1 /\ k \in Nat
    BY <1>1
  <2> HIDE DEF b, text
  <2> QED BY ONLY <1>0, <2>1, k \in 1..Len(coming) DEF Comes
<1>3. n \in 1..ReplySize(i) /\ coming[n] = Reply(i)[n]
  BY <1>2
<1>4. n = ReplySize(i) /\ coming[n].seam
  BY <1>3, ReplyIs
<1>5. /\ text \in Seq(Tok) /\ Len(text) = b + n
      /\ \A k \in 1..n : text[b + k] = coming[k].token
  BY TextIs
<1> HIDE DEF text
<1>6. 3 \in 1..n /\ 3 \in 1..ReplySize(i) /\ 3 \in 1..Len(coming) /\ b + 3 \in 1..Len(text)
  BY <1>1, <1>4, <1>5
<1>7. text[b + 3].part = "end"
  <2>1. text[b + 3] = coming[3].token
    BY <1>5, <1>6
  <2>2. coming[3] = Reply(i)[3]
    BY <1>2, <1>6
  <2>3. Reply(i)[3].token.part = "end"
    BY <1>6, TokenIs
  <2> QED BY <2>1, <2>2, <2>3
<1>8. EndIndex(text) # 0
  BY <1>5, <1>6, <1>7, EndIs
<1> QED BY <1>4, <1>8 DEF text

(* From a piece that holds the end of the head and all of the body, the    *)
(* body is taken, byte for byte.                                           *)
LEMMA BodyIsTaken ==
    ASSUME NEW h, NEW i \in Ask, NEW m \in Nat,
           NEW kept \in Seq(Tok), NEW coming \in Seq(Unit), NEW n \in 1..Len(coming),
           During(m, kept, coming, h, i), EndIndex(kept \o Piece(coming, n)) # 0,
           n = Len(coming), Legible(SubSeq(kept \o Piece(coming, n), 1, m + 3))
    PROVE  Bytes(Body(SubSeq(kept \o Piece(coming, n), 1, m + 3), Piece(coming, n)))
             = BodyOf(i)
<1>0. Comes(m, kept, coming, i)
  BY ComingIs
<1> DEFINE piece == Piece(coming, n)
           text == kept \o piece
           head == SubSeq(text, 1, m + 3)
           b == Len(kept)
           size == Len(BodyOf(i))
           d == n - size
           body == SubSeq(piece, d + 1, n)
<1>1. /\ n \in Nat /\ b \in Nat /\ size \in Nat /\ b + n = m + (3 + size) /\ b <= m + 2
      /\ BodyOf(i) \in Seq(Nat)
  BY BodyIs DEF During, ReplySize, Data
<1>2. d \in Nat /\ size <= n
  BY <1>1
<1>3. piece \in Seq(Tok) /\ Len(piece) = n /\ \A k \in 1..n : piece[k] = coming[k].token
  BY PieceIs
<1>4. text \in Seq(Tok) /\ m + 3 \in 1..Len(text) /\ text[m + 3].of = i
  <2>1. text \in Seq(Tok)
    BY TextIs
  <2>2. m + 3 \in 1..Len(kept \o Piece(coming, n))
        /\ (kept \o Piece(coming, n))[m + 3].of = i
    <3>1. HeadAt(m, kept, coming, h, i, n)
      BY ONLY i \in Ask, m \in Nat, kept \in Seq(Tok), coming \in Seq(Unit),
              n \in 1..Len(coming), During(m, kept, coming, h, i),
              EndIndex(kept \o Piece(coming, n)) # 0, HeadIsFound
    <3> QED BY ONLY <3>1 DEF HeadAt
  <2> QED BY <2>1, <2>2
<1> HIDE DEF text, piece
<1>5. Len(head) = m + 3 /\ head[Len(head)].of = i
  <2>1. Len(head) = m + 3 /\ \A k \in 1..m + 3 : head[k] = text[k]
    BY <1>4, FrontIs
  <2>2. m + 3 \in 1..m + 3
    OBVIOUS
  <2> QED BY <1>4, <2>1, <2>2
<1>6. Legible(head)
  BY DEF text, piece
<1> HIDE DEF head
<1>7. Body(head, piece) = body
  <2>1. n - size + 1 = d + 1
    BY <1>1
  <2>2. Len(Encode(Bodies[head[Len(head)].of])) = size
    BY <1>5 DEF BodyOf
  <2> HIDE DEF size, d
  <2>3. Body(head, piece) = SubSeq(piece, n - size + 1, n)
    BY <1>2, <1>3, <1>6, <2>2 DEF Body
  <2> QED BY <2>1, <2>3
<1> HIDE DEF size, d
<1>8. n - d = size /\ d <= n
  BY <1>1, <1>2 DEF d
<1>9. /\ Len(body) = size
      /\ \A k \in 1..size : d + k \in 1..n /\ body[k] = piece[d + k]
  <2>1. /\ Len(SubSeq(piece, d + 1, Len(piece)))
              = IF d <= Len(piece) THEN Len(piece) - d ELSE 0
        /\ \A k \in 1..Len(SubSeq(piece, d + 1, Len(piece))) :
            /\ d + k \in d + 1..Len(piece)
            /\ SubSeq(piece, d + 1, Len(piece))[k] = piece[d + k]
    BY <1>2, <1>3, TailIs
  <2>2. body = SubSeq(piece, d + 1, Len(piece))
    BY <1>3
  <2> HIDE DEF body
  <2>3. Len(body) = size
    BY <1>1, <1>3, <1>8, <2>1, <2>2
  <2>4. \A k \in 1..size : d + k \in d + 1..n /\ body[k] = piece[d + k]
    BY ONLY <1>3, <2>1, <2>2, <2>3
  <2>5. \A k \in 1..size : d + k \in 1..n
    <3> SUFFICES ASSUME NEW k \in 1..size PROVE d + k \in 1..n
      OBVIOUS
    <3>1. n \in Nat /\ d \in Nat /\ k \in Int
      BY ONLY <1>1, <1>2, k \in 1..size
    <3>2. d + k \in d + 1..n
      BY ONLY <2>4, k \in 1..size
    <3> QED BY ONLY <3>1, <3>2
  <2> QED BY ONLY <2>3, <2>4, <2>5
<1>10. ASSUME NEW k \in 1..size PROVE body[k].byte = BodyOf(i)[k]
  <2> DEFINE q == d + k
             p == 3 + k
  <2>1. q \in 1..n /\ p \in Nat /\ p > 3 /\ b + q = m + p /\ p - 3 = k
    <3>1. q \in 1..n /\ k \in Nat /\ k >= 1
      <4>1. k \in Nat /\ k >= 1
        BY ONLY <1>1, k \in 1..size
      <4> QED BY ONLY <1>9, <4>1, k \in 1..size
    <3>2. b + (d + k) = m + (3 + k)
      <4>1. /\ b \in Nat /\ n \in Nat /\ size \in Nat /\ d \in Nat /\ k \in Nat
            /\ b + n = m + (3 + size) /\ n - d = size
        BY <1>1, <1>2, <1>8, <3>1 DEF size
      <4> HIDE DEF b
      <4> QED BY ONLY <4>1, m \in Nat
    <3> QED BY <3>1, <3>2
  <2>2. body[k] = coming[q].token
    BY <1>3, <1>9, <2>1
  <2> HIDE DEF q, p
  <2>3. p \in 1..ReplySize(i) /\ coming[q] = Reply(i)[p]
    <3>1. q \in 1..Len(coming) /\ p \in Nat /\ Len(kept) + q = m + p /\ p >= 1
      BY <2>1
    <3> HIDE DEF b
    <3> QED BY ONLY <1>0, <3>1 DEF Comes
  <2>4. Reply(i)[p].token.byte = BodyOf(i)[p - 3]
    BY <2>1, <2>3, TokenIs
  <2> QED BY <2>1, <2>2, <2>3, <2>4
<1> HIDE DEF body
<1>11. Bytes(body) = [k \in 1..size |-> BodyOf(i)[k]]
  BY <1>9, <1>10 DEF Bytes
<1>12. BodyOf(i) = [k \in 1..size |-> BodyOf(i)[k]]
  BY <1>1 DEF size
<1> QED BY <1>7, <1>11, <1>12 DEF head, text, piece

-----------------------------------------------------------------------------
(* The inductive invariant.                                                *)

Handled == Len(read)

(* The client asks for a reply when it has handled the one before, the     *)
(* receiver is never ahead of what it is asked for, and the end of a head  *)
(* is never kept.                                                          *)
Turns ==
    /\ sealed \in BOOLEAN /\ garbled \in BOOLEAN /\ cut \in BOOLEAN
    /\ timeout \in BOOLEAN
    /\ \E S : read \in Seq(S)
    /\ blob \in Seq(Tok)
    /\ inflight \in Seq(Unit)
    /\ bodyCut \subseteq Ask
    /\ asked = IF Handled < Len(Bodies) THEN Handled + 1 ELSE Len(Bodies)
    /\ replied \in {Handled, Handled + 1} /\ replied <= asked
    /\ \A k \in 1..Len(blob) : blob[k].part # "end"

(* Until decryption is out of step, what is kept and what is in flight are *)
(* left over from the last reply handled, followed by at most one other.   *)
Stream ==
    ~garbled =>
        IF replied = Handled THEN Between(blob, inflight, Handled)
        ELSE \E m \in Nat : During(m, blob, inflight, Handled, Handled + 1)

(* As long as replies come whole, one that is written is all in flight.    *)
Uncut ==
    ~cut => /\ ~garbled
            /\ IF replied = Handled THEN inflight = <<>>
               ELSE Len(inflight) = ReplySize(Handled + 1)

Whole == Turns /\ Stream /\ Uncut /\ EveryHeadIsFound /\ ItemsAreRead /\ TimerIsArmed

(* What EveryHeadIsFound and ItemsAreRead say of one reply. *)
Found(reply, k) == reply.of = k /\ (reply.legible \/ (k > 1 /\ HasBreak(k - 1)))
Wanted(items) ==
    [t \in {items[j].type : j \in 1..Len(items)} |-> ValueOf(items, t)]
Right(reply, k, missed) ==
    reply.legible /\ k \notin missed => reply.items = Wanted(Bodies[k])

LEMMA Counted ==
    ASSUME Turns
    PROVE  /\ Handled \in Nat /\ Len(Bodies) \in Nat /\ Len(Bodies) >= 1
           /\ asked \in Ask /\ Handled <= asked
<1>1. Handled \in Nat
  <2>1. PICK S : read \in Seq(S)
    BY DEF Turns
  <2> QED BY <2>1 DEF Handled
<1>2. Len(Bodies) \in Nat /\ Len(Bodies) # 0
  <2>1. Bodies \in Seq(Items) /\ Bodies # <<>>
    BY BodiesAssumption DEF Items, Item, Data
  <2> QED BY <2>1
<1> QED BY <1>1, <1>2 DEF Turns, Ask

LEMMA AppendIs ==
    ASSUME NEW S, NEW s \in Seq(S), NEW e
    PROVE  /\ \E T : Append(s, e) \in Seq(T)
           /\ Len(Append(s, e)) = Len(s) + 1
           /\ \A k \in 1..Len(s) : Append(s, e)[k] = s[k]
           /\ Append(s, e)[Len(s) + 1] = e
<1> DEFINE T == S \cup {e}
<1>1. s \in Seq(T) /\ e \in T
  <2>1. Len(s) \in Nat /\ s = [k \in 1..Len(s) |-> s[k]] /\ \A k \in 1..Len(s) : s[k] \in T
    OBVIOUS
  <2> QED BY <2>1
<1> HIDE DEF T
<1>2. /\ Append(s, e) \in Seq(T) /\ Len(Append(s, e)) = Len(s) + 1
      /\ \A k \in 1..Len(s) : Append(s, e)[k] = s[k]
      /\ Append(s, e)[Len(s) + 1] = e
  BY <1>1, AppendProperties
<1> QED BY <1>2

(* A reply is written behind what is left of the one before. *)
LEMMA Begins ==
    ASSUME NEW h, NEW i \in Ask, NEW kept \in Seq(Tok), NEW coming \in Seq(Unit),
           Between(kept, coming, h)
    PROVE  /\ Len(kept) + Len(coming) \in Nat
           /\ During(Len(kept) + Len(coming), kept, coming \o Reply(i), h, i)
<1> DEFINE b == Len(kept)
           z == Len(coming)
           r == Reply(i)
           all == coming \o r
           m == b + z
<1>1. b \in Nat /\ z \in Nat /\ m \in Nat
  OBVIOUS
<1>2. r \in Seq(Unit) /\ Len(r) = ReplySize(i) /\ ReplySize(i) \in Nat
  BY ReplyIs, BodyIs
<1> HIDE DEF r
<1>3. /\ all \in Seq(Unit) /\ Len(all) = z + Len(r)
      /\ \A k \in 1..z : all[k] = coming[k]
      /\ \A k \in 1..Len(r) : all[z + k] = r[k]
  <2>1. coming \in Seq(Unit) /\ r \in Seq(Unit)
    BY <1>2
  <2> QED BY ONLY <2>1, ConcatAt DEF z, all
<1> HIDE DEF all
<1>4. b + Len(all) = m + ReplySize(i) /\ b <= m + 2
  BY <1>1, <1>2, <1>3
<1>5. ASSUME NEW k \in 1..b
      PROVE  IF k <= m THEN Spare(kept[k], h) ELSE kept[k] = r[k - m].token
  <2>1. k <= m
    BY <1>1
  <2> QED BY <2>1 DEF Between
<1>6. ASSUME NEW k \in 1..Len(all)
      PROVE  IF b + k <= m THEN Spare(all[k].token, h) ELSE all[k] = r[b + k - m]
  <2>1. CASE k <= z
    <3>1. k \in 1..z /\ b + k <= m
      BY <1>1, <1>3, <2>1
    <3>2. Spare(all[k].token, h)
      BY <1>3, <3>1 DEF Between
    <3> QED BY <3>1, <3>2
  <2>2. CASE k > z
    <3> DEFINE j == k - z
    <3>1. j \in 1..Len(r) /\ z + j = k /\ ~(b + k <= m) /\ b + k - m = j
      BY <1>1, <1>2, <1>3, <2>2
    <3> HIDE DEF j
    <3>2. all[k] = r[j]
      BY <1>3, <3>1
    <3> HIDE DEF b, m
    <3> QED BY ONLY <3>1, <3>2
  <2> QED BY <1>1, <1>2, <1>3, <2>1, <2>2
<1> QED BY <1>1, <1>4, <1>5, <1>6 DEF During, all, r

LEMMA WholeInit == Init => Whole
<1> SUFFICES ASSUME Init PROVE Whole
  OBVIOUS
<1>1. Bodies \in Seq(Items) /\ Bodies # <<>>
  BY BodiesAssumption DEF Items, Item, Data
<1>2. Len(Bodies) \in Nat /\ Len(Bodies) >= 1
  BY <1>1
<1>3. read = <<>> /\ blob = <<>> /\ inflight = <<>> /\ Len(<<>>) = 0 /\ Handled = 0
  BY DEF Init, Handled
<1>4. <<>> \in Seq(Nat) /\ <<>> \in Seq(Tok) /\ <<>> \in Seq(Unit)
  BY EmptySeq
<1>5. Turns
  <2>1. \E S : read \in Seq(S)
    BY <1>3, <1>4
  <2>2. /\ asked = IF Handled < Len(Bodies) THEN Handled + 1 ELSE Len(Bodies)
        /\ replied \in {Handled, Handled + 1} /\ replied <= asked
    BY <1>2, <1>3 DEF Init
  <2>3. \A k \in 1..Len(blob) : blob[k].part # "end"
    BY <1>3
  <2>4. /\ sealed \in BOOLEAN /\ garbled \in BOOLEAN /\ cut \in BOOLEAN
        /\ timeout \in BOOLEAN /\ bodyCut \subseteq Ask
        /\ blob \in Seq(Tok) /\ inflight \in Seq(Unit)
    BY <1>3, <1>4 DEF Init
  <2> QED BY <2>1, <2>2, <2>3, <2>4 DEF Turns
<1>6. Stream
  BY <1>3 DEF Init, Stream, Between
<1>7. Uncut
  BY <1>3 DEF Init, Uncut
<1>8. EveryHeadIsFound /\ ItemsAreRead
  BY <1>3 DEF EveryHeadIsFound, ItemsAreRead
<1>9. TimerIsArmed
  BY DEF Init, TimerIsArmed
<1> QED BY <1>5, <1>6, <1>7, <1>8, <1>9 DEF Whole

LEMMA WholeReplies == Whole /\ ReceiverReplies => Whole'
<1> SUFFICES ASSUME Whole, ReceiverReplies PROVE Whole'
  OBVIOUS
<1> DEFINE h == Handled
           i == Handled + 1
<1>1. Turns /\ Stream /\ Uncut
  BY DEF Whole
<1>2. /\ h \in Nat /\ Len(Bodies) \in Nat /\ asked \in Ask /\ h <= asked
  BY <1>1, Counted
<1>3. /\ replied < asked /\ replied' = replied + 1
      /\ inflight' = inflight \o Reply(replied + 1)
      /\ UNCHANGED <<sealed, garbled, asked, blob, timeout, read, cut, bodyCut>>
  BY DEF ReceiverReplies
<1>4. replied = h /\ i \in Ask /\ i <= asked
  BY <1>1, <1>2, <1>3 DEF Turns, Ask
<1>5. Handled' = h
  BY <1>3 DEF Handled
<1>6. inflight' = inflight \o Reply(i) /\ replied' = i
  BY <1>3, <1>4
<1>7. blob \in Seq(Tok) /\ inflight \in Seq(Unit)
  BY <1>1 DEF Turns
<1>8. Reply(i) \in Seq(Unit) /\ Len(Reply(i)) = ReplySize(i) /\ ReplySize(i) \in Nat
  BY <1>4, ReplyIs, BodyIs
<1> HIDE DEF i
<1>9. inflight' \in Seq(Unit) /\ Len(inflight') = Len(inflight) + ReplySize(i)
  BY <1>6, <1>7, <1>8, ConcatProperties
<1>10. i = h + 1
  BY DEF i
<1>11. Turns'
  <2>1. (\E S : read \in Seq(S))'
    BY <1>1, <1>3 DEF Turns
  <2> QED BY <1>1, <1>2, <1>3, <1>4, <1>5, <1>6, <1>9, <1>10, <2>1 DEF Turns
<1>12. Stream'
  <2> SUFFICES ASSUME ~garbled' PROVE \E m \in Nat : During(m, blob, inflight', h, i)
    BY <1>2, <1>3, <1>5, <1>6, <1>10 DEF Stream
  <2>1. Between(blob, inflight, h)
    BY <1>1, <1>3, <1>4 DEF Stream
  <2>2. /\ Len(blob) + Len(inflight) \in Nat
        /\ During(Len(blob) + Len(inflight), blob, inflight \o Reply(i), h, i)
    BY <1>4, <1>7, <2>1, Begins
  <2> QED BY <1>6, <2>2
<1>13. Uncut'
  <2> SUFFICES ASSUME ~cut' PROVE ~garbled' /\ Len(inflight') = ReplySize(i)
    BY <1>2, <1>5, <1>6, <1>10 DEF Uncut
  <2>1. ~garbled /\ inflight = <<>>
    BY <1>1, <1>3, <1>4 DEF Uncut
  <2> QED BY <1>3, <1>8, <1>9, <2>1
<1>14. EveryHeadIsFound' /\ ItemsAreRead' /\ TimerIsArmed'
  BY <1>3 DEF Whole, EveryHeadIsFound, ItemsAreRead, TimerIsArmed
<1> QED BY <1>11, <1>12, <1>13, <1>14 DEF Whole

(* Every reply read is found and right. *)
LEMMA ReadsAre ==
    /\ EveryHeadIsFound <=> \A k \in 1..Len(read) : Found(read[k], k)
    /\ ItemsAreRead <=> \A k \in 1..Len(read) : Right(read[k], k, bodyCut)
    /\ EveryHeadIsFound' <=> \A k \in 1..Len(read') : Found(read'[k], k)
    /\ ItemsAreRead' <=> \A k \in 1..Len(read') : Right(read'[k], k, bodyCut')
BY DEF EveryHeadIsFound, ItemsAreRead, Found, Right, Wanted

LEMMA WholeArrives ==
    ASSUME Whole, NEW n \in 1..Len(inflight), DataArrives(n)
    PROVE  Whole'
<1> DEFINE h == Handled
           i == Handled + 1
           piece == Piece(inflight, n)
           text == blob \o piece
           rest == SubSeq(inflight, n + 1, Len(inflight))
           last == inflight[n]
           more == asked < Len(Bodies)
           head == SubSeq(text, 1, EndIndex(text))
           entry == [of |-> head[EndIndex(text)].of, legible |-> Legible(head),
                     items |-> Decode(Bytes(Body(head, piece)))]
(* What the step does, whichever way it goes. *)
<1>1. Turns /\ Stream /\ Uncut
  BY DEF Whole
<1>2. /\ h \in Nat /\ Len(Bodies) \in Nat /\ asked \in Ask /\ h <= asked
      /\ replied \in {h, i} /\ replied <= asked
  BY <1>1, Counted DEF Turns
<1>3. blob \in Seq(Tok) /\ inflight \in Seq(Unit) /\ bodyCut \subseteq Ask
  BY <1>1 DEF Turns
<1>4. last \in Unit /\ last.last \in BOOLEAN /\ last.seam \in BOOLEAN /\ last.token.of \in Ask
  <2>1. last \in Unit
    BY <1>3
  <2> QED BY <2>1 DEF Unit, Tok
<1>5. text \in Seq(Tok)
  BY <1>3, TextIs
<1>6. /\ rest \in Seq(Unit)
      /\ n = Len(inflight) => rest = <<>>
  <2>1. rest \in Seq(Unit)
    <3>1. n \in Nat
      OBVIOUS
    <3> QED BY <1>3, <3>1, TailIs
  <2>2. n = Len(inflight) => rest = <<>>
    <3> SUFFICES ASSUME n = Len(inflight) PROVE rest = <<>>
      OBVIOUS
    <3>1. n + 1 \in Int /\ n \in Int /\ n < n + 1
      OBVIOUS
    <3> QED BY <3>1, SubSeqEmpty
  <2> QED BY <2>1, <2>2
<1>7. /\ inflight' = rest
      /\ garbled' = (garbled \/ (sealed /\ ~last.seam))
      /\ cut' = (cut \/ ~last.last)
      /\ bodyCut' = IF last.last \/ last.token.part \in {"status", "fields"}
                    THEN bodyCut ELSE bodyCut \cup {last.token.of}
      /\ sealed' = sealed /\ replied' = replied
      /\ IF garbled'
         THEN timeout' = FALSE /\ UNCHANGED <<asked, blob, read>>
         ELSE IF EndIndex(text) = 0
         THEN timeout' = FALSE /\ blob' = text /\ UNCHANGED <<asked, read>>
         ELSE /\ asked' = IF more THEN asked + 1 ELSE asked
              /\ timeout' = more
              /\ read' = Append(read, entry)
              /\ blob' = Leftover(piece, EndIndex(text))
  BY DEF DataArrives, Handle, Piece
<1> HIDE DEF piece, text, rest, last, head, entry
<1>8. /\ garbled' \in BOOLEAN /\ cut' \in BOOLEAN /\ sealed' \in BOOLEAN
      /\ inflight' \in Seq(Unit)
  BY <1>1, <1>4, <1>6, <1>7 DEF Turns
<1>9. bodyCut \subseteq bodyCut' /\ bodyCut' \subseteq Ask
  BY <1>3, <1>4, <1>7
<1>10. ASSUME ~garbled, replied # h
       PROVE  /\ replied = i /\ i \in Ask
              /\ \E m \in Nat : During(m, blob, inflight, h, i)
  BY <1>1, <1>2, <1>10 DEF Stream, Ask
(* A reply that comes whole is found. *)
<1>11. ~cut' => ~garbled' /\ EndIndex(text) # 0 /\ last.last
  <2> SUFFICES ASSUME ~cut' PROVE ~garbled' /\ EndIndex(text) # 0 /\ last.last
    OBVIOUS
  <2>1. ~cut /\ last.last
    BY <1>4, <1>7
  <2>2. ~garbled
    BY <1>1, <2>1 DEF Uncut
  <2>3. replied # h
    <3> SUFFICES ASSUME replied = h PROVE FALSE
      OBVIOUS
    <3>1. inflight = <<>>
      BY <1>1, <2>1 DEF Uncut
    <3> QED BY <3>1
  <2>4. i \in Ask /\ Len(inflight) = ReplySize(i)
    BY <1>1, <1>10, <2>1, <2>2, <2>3 DEF Uncut
  <2>5. PICK m \in Nat : During(m, blob, inflight, h, i)
    BY <1>10, <2>2, <2>3
  <2>6. inflight[n].last
    BY <2>1 DEF last
  <2> HIDE DEF h, i
  <2>7. inflight[n].seam /\ EndIndex(blob \o Piece(inflight, n)) # 0
    BY ONLY <1>3, <2>4, <2>5, <2>6, n \in 1..Len(inflight), WholeComes
  <2> QED BY <1>7, <2>1, <2>2, <2>7 DEF last, text, piece
(* Without the end of a head nothing is read. *)
<1>12. ASSUME read' = read, asked' = asked, timeout' = FALSE,
              garbled' \/ EndIndex(text) = 0,
              blob' \in Seq(Tok), \A k \in 1..Len(blob') : blob'[k].part # "end",
              Stream'
       PROVE  Whole'
  <2>1. Handled' = h /\ cut'
    BY <1>8, <1>11, <1>12 DEF Handled
  <2>2. Turns'
    <3>1. (\E S : read \in Seq(S))'
      BY <1>1, <1>12 DEF Turns
    <3> QED BY <1>1, <1>2, <1>7, <1>8, <1>9, <1>12, <2>1, <3>1 DEF Turns
  <2>3. Uncut'
    BY <2>1 DEF Uncut
  <2>4. EveryHeadIsFound' /\ ItemsAreRead'
    BY <1>9, <1>12, ReadsAre DEF Whole, Right
  <2>5. TimerIsArmed'
    BY <2>1 DEF TimerIsArmed
  <2> QED BY <1>12, <2>2, <2>3, <2>4, <2>5 DEF Whole
<1>13. CASE garbled'
  <2>1. Stream'
    BY <1>13 DEF Stream
  <2> QED BY <1>1, <1>7, <1>12, <1>13, <2>1 DEF Turns
<1>14. CASE ~garbled' /\ EndIndex(text) = 0
  <2>1. ~garbled /\ blob' = text /\ read' = read
    BY <1>4, <1>7, <1>14
  <2>2. Handled' = h
    BY <2>1 DEF Handled
  <2>3. \A k \in 1..Len(text) : text[k].part # "end"
    BY <1>5, <1>14, EndIs
  <2>4. Stream'
    <3>1. CASE replied = h
      <4>1. Between(blob, inflight, h)
        BY <1>1, <2>1, <3>1 DEF Stream
      <4>2. Between(text, rest, h)
        <5> HIDE DEF h, i
        <5> QED BY ONLY <1>3, <4>1, n \in 1..Len(inflight), NoReply DEF text, piece, rest
      <4> QED BY <1>7, <2>1, <2>2, <3>1, <4>2 DEF Stream
    <3>2. CASE replied # h
      <4>1. i \in Ask
        BY <1>10, <2>1, <3>2
      <4>2. PICK m \in Nat : During(m, blob, inflight, h, i)
        BY <1>10, <2>1, <3>2
      <4>3. During(m, text, rest, h, i)
        <5>1. EndIndex(blob \o Piece(inflight, n)) = 0
          BY <1>14 DEF text, piece
        <5> HIDE DEF h, i
        <5> QED BY ONLY <1>3, <4>1, <4>2, <5>1, n \in 1..Len(inflight), MoreText
                   DEF text, piece, rest
      <4>4. \E x \in Nat : During(x, blob', inflight', Handled', Handled' + 1)
        BY <1>7, <2>1, <2>2, <4>3
      <4> QED BY <1>7, <2>2, <3>2, <4>4 DEF Stream
    <3> QED BY <3>1, <3>2
  <2> QED BY <1>5, <1>7, <1>12, <1>14, <2>1, <2>3, <2>4
(* With it, the reply is. *)
<1>15. CASE ~garbled' /\ EndIndex(text) # 0
  <2>1. /\ ~garbled
        /\ asked' = IF more THEN asked + 1 ELSE asked
        /\ timeout' = more /\ read' = Append(read, entry)
        /\ blob' = Leftover(piece, EndIndex(text))
    BY <1>4, <1>7, <1>15
  <2>2. replied # h
    <3> SUFFICES ASSUME replied = h PROVE FALSE
      OBVIOUS
    <3>1. Between(blob, inflight, h)
      BY <1>1, <2>1 DEF Stream
    <3>2. EndIndex(blob \o Piece(inflight, n)) = 0
      <4> HIDE DEF h, i
      <4> QED BY ONLY <1>3, <3>1, n \in 1..Len(inflight), NoReply
    <3> QED BY <1>15, <3>2 DEF text, piece
  <2>3. replied = i /\ i \in Ask
    BY <1>10, <2>1, <2>2
  <2>4. PICK m \in Nat : During(m, blob, inflight, h, i)
    BY <1>10, <2>1, <2>2
  <2>5. EndIndex(blob \o Piece(inflight, n)) # 0
    BY <1>15 DEF text, piece
  <2>6. /\ EndIndex(text) = m + 3
        /\ m + 3 \in 1..Len(text)
        /\ text[m + 3].of = i
        /\ Legible(SubSeq(text, 1, m + 3)) \/ (h \in Ask /\ HasBreak(h))
        /\ Between(Leftover(piece, m + 3), rest, i)
    <3> HIDE DEF h, i
    <3>1. HeadAt(m, blob, inflight, h, i, n)
      BY ONLY <1>3, <2>3, <2>4, <2>5, n \in 1..Len(inflight), HeadIsFound
    <3> QED BY ONLY <3>1 DEF HeadAt, text, piece, rest
  <2>7. head = SubSeq(text, 1, m + 3)
    BY <2>6 DEF head
  <2>8. entry.of = i /\ entry.legible = Legible(head)
        /\ entry.items = Decode(Bytes(Body(head, piece)))
    <3>1. head[m + 3] = text[m + 3]
      <4>1. m + 3 \in 1..m + 3
        OBVIOUS
      <4>2. \A k \in 1..m + 3 : SubSeq(text, 1, m + 3)[k] = text[k]
        BY <1>5, <2>6, FrontIs
      <4> QED BY ONLY <2>7, <4>1, <4>2
    <3> QED BY <2>6, <3>1 DEF entry
  <2>9. /\ \E S : read' \in Seq(S)
        /\ Len(read') = h + 1
        /\ \A k \in 1..h : read'[k] = read[k]
        /\ read'[h + 1] = entry
    <3>1. PICK S : read \in Seq(S)
      BY <1>1 DEF Turns
    <3> HIDE DEF entry
    <3>2. read' = Append(read, entry) /\ h = Len(read)
      BY <2>1 DEF Handled
    <3> HIDE DEF h
    <3>3. /\ \E T : Append(read, entry) \in Seq(T)
          /\ Len(Append(read, entry)) = Len(read) + 1
          /\ \A k \in 1..Len(read) : Append(read, entry)[k] = read[k]
          /\ Append(read, entry)[Len(read) + 1] = entry
      BY ONLY <3>1, AppendIs
    <3> QED BY ONLY <3>2, <3>3
  <2>10. Handled' = i
    BY <2>9 DEF Handled
  <2>11. last.last => n = Len(inflight)
    <3>1. m + 3 <= Len(blob) + n
      <4>1. Len(text) = Len(blob) + n
        BY <1>3, TextIs DEF text, piece
      <4> QED BY <2>6, <4>1
    <3> HIDE DEF h, i
    <3> QED BY ONLY <1>3, <2>3, <2>4, <3>1, n \in 1..Len(inflight), LastIs DEF last
  <2>12. last.token.of = i /\ last.token.part \notin {"status", "fields"}
    <3>1. m + 3 <= Len(blob) + n
      <4>1. Len(text) = Len(blob) + n
        BY <1>3, TextIs DEF text, piece
      <4> QED BY <2>6, <4>1
    <3> HIDE DEF h, i
    <3> QED BY ONLY <1>3, <2>3, <2>4, <3>1, n \in 1..Len(inflight), LastIs DEF last
  <2>13. Between(blob', inflight', i)
    BY <1>7, <2>1, <2>6
  <2>14. blob' \in Seq(Tok)
    <3>1. piece \in Seq(Tok)
      BY <1>3, PieceIs DEF piece
    <3>2. m + 3 \in Nat
      OBVIOUS
    <3>3. SubSeq(piece, (m + 3) + 1, Len(piece)) \in Seq(Tok)
      BY <3>1, <3>2, TailIs
    <3> QED BY <2>1, <2>6, <3>3 DEF Leftover
  <2>15. /\ asked = i /\ asked' = IF i < Len(Bodies) THEN i + 1 ELSE Len(Bodies)
         /\ i <= asked' /\ timeout' \in BOOLEAN
    BY <1>1, <1>2, <2>1, <2>3 DEF Turns, Ask
  <2>16. Turns'
    <3>1. (\E S : read \in Seq(S))'
      BY <2>9
    <3>2. \A k \in 1..Len(blob') : blob'[k].part # "end"
      BY <2>13 DEF Between, Spare
    <3> QED BY <1>7, <1>8, <1>9, <2>3, <2>10, <2>14, <2>15, <3>1, <3>2 DEF Turns
  <2>17. Stream'
    BY <1>7, <2>3, <2>10, <2>13 DEF Stream
  <2>18. Uncut'
    <3> SUFFICES ASSUME ~cut' PROVE inflight' = <<>>
      BY <1>7, <1>15, <2>3, <2>10 DEF Uncut
    <3> QED BY <1>6, <1>7, <1>11, <2>11
  <2>19. EveryHeadIsFound'
    <3>1. \A k \in 1..h : Found(read'[k], k)
      BY <2>9, ReadsAre DEF Whole, Handled
    <3>2. Found(entry, h + 1)
      <4>1. Legible(head) \/ (h + 1 > 1 /\ HasBreak((h + 1) - 1))
        <5>1. (h + 1) - 1 = h /\ (h \in Ask => h + 1 > 1)
          BY <1>2 DEF Ask
        <5> HIDE DEF h
        <5> QED BY <2>6, <2>7, <5>1
      <4> QED BY <2>8, <4>1 DEF Found
    <3>3. \A k \in 1..h + 1 : k \in 1..h \/ k = h + 1
      BY <1>2
    <3>4. \A k \in 1..Len(read') : Found(read'[k], k)
      BY <2>9, <3>1, <3>2, <3>3
    <3> QED BY <3>4, ReadsAre
  <2>20. ItemsAreRead'
    <3>1. \A k \in 1..h : Right(read'[k], k, bodyCut')
      BY <1>9, <2>9, ReadsAre DEF Whole, Handled, Right
    <3>2. Right(entry, i, bodyCut')
      <4> SUFFICES ASSUME entry.legible, i \notin bodyCut'
                   PROVE  entry.items = Wanted(Bodies[i])
        BY DEF Right
      <4>1. last.last
        BY <1>4, <1>7, <2>12
      <4>2. n = Len(inflight)
        BY <2>11, <4>1
      <4>3. Legible(SubSeq(blob \o Piece(inflight, n), 1, m + 3))
        BY <2>7, <2>8 DEF text, piece
      <4>4. Bytes(Body(SubSeq(blob \o Piece(inflight, n), 1, m + 3), Piece(inflight, n)))
              = BodyOf(i)
        <5> HIDE DEF h, i
        <5> QED BY ONLY <1>3, <2>3, <2>4, <2>5, <4>2, <4>3, n \in 1..Len(inflight),
                        BodyIsTaken
      <4>5. entry.items = Decode(Encode(Bodies[i]))
        BY <2>7, <2>8, <4>4 DEF text, piece, BodyOf
      <4>6. Bodies[i] \in Items
        BY <2>3, BodyIs
      <4> QED BY <4>5, <4>6, RoundTrip DEF Wanted
    <3>3. \A k \in 1..h + 1 : k \in 1..h \/ k = h + 1
      BY <1>2
    <3>4. \A k \in 1..Len(read') : Right(read'[k], k, bodyCut')
      BY <2>9, <3>1, <3>2, <3>3
    <3> QED BY <3>4, ReadsAre
  <2>21. TimerIsArmed'
    BY <1>2, <2>1, <2>9, <2>15 DEF TimerIsArmed
  <2> QED BY <2>16, <2>17, <2>18, <2>19, <2>20, <2>21 DEF Whole
<1> QED BY <1>8, <1>13, <1>14, <1>15

-----------------------------------------------------------------------------
(* The theorems.                                                           *)

LEMMA WholeAlways == Spec => []Whole
<1>1. Whole /\ [Next]_vars => Whole'
  <2> SUFFICES ASSUME Whole, [Next]_vars PROVE Whole'
    OBVIOUS
  <2>1. CASE ReceiverReplies
    BY <2>1, WholeReplies
  <2>2. ASSUME NEW n \in 1..Len(inflight), DataArrives(n) PROVE Whole'
    BY <2>2, WholeArrives
  <2>3. CASE UNCHANGED vars
    BY <2>3 DEF vars, Whole, Turns, Stream, Uncut, EveryHeadIsFound, ItemsAreRead,
                TimerIsArmed, Handled
  <2> QED BY <2>1, <2>2, <2>3 DEF Next
<1> QED BY WholeInit, <1>1, PTL DEF Spec

(* The kinds of the fields, the bounds of the counters, and that the       *)
(* collected text never holds the end of a head that is not its last.      *)
THEOREM TypeCorrect == Spec => []TypeOK
<1>1. Whole => TypeOK
  <2> SUFFICES ASSUME Whole PROVE TypeOK
    OBVIOUS
  <2>1. Turns
    BY DEF Whole
  <2>2. /\ Handled \in Nat /\ asked \in Ask /\ asked \in Nat /\ Handled <= asked
    BY <2>1, Counted DEF Ask
  <2>3. replied \in 0..asked /\ Len(read) \in 0..asked
    BY <2>1, <2>2 DEF Turns, Handled
  <2> QED BY <2>1, <2>2, <2>3 DEF Turns, TypeOK
<1> QED BY <1>1, WholeAlways, PTL

(* However the stream is cut, the k-th head handled is the k-th reply's,   *)
(* with its status line, but behind a line break of the body before it.    *)
THEOREM EveryHeadFound == Spec => []EveryHeadIsFound
<1>1. Whole => EveryHeadIsFound
  BY DEF Whole
<1> QED BY <1>1, WholeAlways, PTL

(* The items read are the items written, in fragments or not, if no piece  *)
(* ended within the body or between it and the head.                       *)
THEOREM ItemsRead == Spec => []ItemsAreRead
<1>1. Whole => ItemsAreRead
  BY DEF Whole
<1> QED BY <1>1, WholeAlways, PTL

(* A client that waits for a reply is timed, as long as replies come whole. *)
THEOREM WaitingIsTimed == Spec => []TimerIsArmed
<1>1. Whole => TimerIsArmed
  BY DEF Whole
<1> QED BY <1>1, WholeAlways, PTL
=============================================================================
