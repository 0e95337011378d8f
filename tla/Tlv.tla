-------------------------------- MODULE Tlv ---------------------------------
(***************************************************************************)
(* The type-length-value coding of the HomeKit pairing bodies: src/src/    *)
(* homekit/tlv.ts.  A value longer than one length byte can say goes out   *)
(* in fragments of the same type, which decoding puts together again.  A   *)
(* byte is a number, an item a type and the bytes of its value.            *)
(***************************************************************************)
EXTENDS SequencesExt

CONSTANT MaxFragment \* 255 in the code

ASSUME FragmentAssumption == MaxFragment \in Nat \ {0}

AtMost(a, b) == IF a <= b THEN a ELSE b

(* encodeOne: one fragment, however short, or as many as are needed. *)
Fragment(value, k) ==
    SubSeq(value, (k - 1) * MaxFragment + 1, AtMost(k * MaxFragment, Len(value)))
EncodeOne(item) ==
    LET size == Len(item.value)
        fragments == IF size <= MaxFragment THEN 1
                     ELSE (size + MaxFragment - 1) \div MaxFragment
    IN FlattenSeq([k \in 1..fragments |->
            LET fragment == Fragment(item.value, k)
            IN <<item.type, Len(fragment)>> \o fragment])

(* encode: item after item. *)
Encode(items) == FlattenSeq([k \in 1..Len(items) |-> EncodeOne(items[k])])

(* decode, from position i on: fragments of one type are concatenated; a   *)
(* value that runs past the end is cut short, and so is a lone type.       *)
Joined(type, value, rest) ==
    [t \in DOMAIN rest \cup {type} |->
        IF t # type THEN rest[t]
        ELSE IF t \in DOMAIN rest THEN value \o rest[t] ELSE value]

(* Mutant: a fragment replaces the ones before it. *)
JoinedOver(type, value, rest) ==
    [t \in DOMAIN rest \cup {type} |-> IF t \in DOMAIN rest THEN rest[t] ELSE value]

DecodeOver(data) ==
    LET size == Len(data)
        from[i \in 1..size + 1] ==
            IF i > size THEN <<>>
            ELSE IF i = size THEN JoinedOver(data[i], <<>>, <<>>)
            ELSE JoinedOver(data[i],
                        SubSeq(data, i + 2, AtMost(i + 1 + data[i + 1], size)),
                        from[AtMost(i + 2 + data[i + 1], size + 1)])
    IN from[1]

Decode(data) ==
    LET size == Len(data)
        from[i \in 1..size + 1] ==
            IF i > size THEN <<>>
            ELSE IF i = size THEN Joined(data[i], <<>>, <<>>)
            ELSE Joined(data[i],
                        SubSeq(data, i + 2, AtMost(i + 1 + data[i + 1], size)),
                        from[AtMost(i + 2 + data[i + 1], size + 1)])
    IN from[1]
=============================================================================
