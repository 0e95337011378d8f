----------------------------- MODULE MCFraming ------------------------------
(* An instance of Framing for TLC: fragments of two bytes; a body in one   *)
(* fragment and one whose value needs two, one with a line break and a     *)
(* reply without a body.                                                   *)
EXTENDS Framing

Item(type, value) == [type |-> type, value |-> value]

SomeBodies ==
    << <<Item(3, <<7, 8, 7>>), Item(2, <<9>>)>>,
       <<>>,
       <<Item(6, <<13>>), Item(4, <<>>)>>,
       <<Item(5, <<7, 8, 8, 9>>)>> >>
=============================================================================
