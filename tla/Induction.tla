----------------------------- MODULE Induction ------------------------------
(***************************************************************************)
(* Induction and recursion over the naturals, stated with sets instead of  *)
(* predicates, for the proofs about recursive functions on sequences.  A   *)
(* predicate P is proved for all naturals by citing SetInduction for the   *)
(* set {n \in Nat : P(n)}.                                                 *)
(***************************************************************************)
EXTENDS Integers, WellFoundedInduction, TLAPS

(* A set of naturals that is not empty has a least element.                *)
LEMMA LeastNat ==
    ASSUME NEW S \in SUBSET Nat, S # {}
    PROVE  \E n \in S : \A m \in S : n <= m
<1> DEFINE R == OpToRel(<, Nat)
<1>1. IsWellFoundedOn(R, Nat)
  BY NatLessThanWellFounded
<1>2. \A x, y \in Nat : <<x, y>> \in R <=> x < y
  BY DEF OpToRel
<1> HIDE DEF R
<1>3. PICK x \in S : \A y \in S : ~(<<y, x>> \in R)
  BY <1>1, WFMin
<1>4. ASSUME NEW y \in S PROVE x <= y
  <2>1. x \in Nat /\ y \in Nat /\ ~(y < x)
    BY <1>2, <1>3
  <2> QED BY <2>1
<1> QED BY <1>4

LEMMA SetInduction ==
    ASSUME NEW S, 0 \in S, \A n \in Nat : n \in S => n + 1 \in S
    PROVE  Nat \subseteq S
<1> SUFFICES ASSUME Nat \ S # {} PROVE FALSE
  OBVIOUS
<1>1. PICK n \in Nat \ S : \A m \in Nat \ S : n <= m
  BY LeastNat
<1>2. n - 1 \in Nat /\ n - 1 \in S
  BY <1>1
<1> QED BY <1>1, <1>2

(* A function on 0..N may be defined by its value at 0 and a step.         *)
Recursive(f, m, T, start, Step) ==
    /\ f \in [0..m -> T]
    /\ f[0] = start
    /\ \A n \in 1..m : f[n] = Step[n][f[n - 1]]

LEMMA RecursionGoesOn ==
    ASSUME NEW N \in Nat, NEW T, NEW start, NEW Step \in [1..N -> [T -> T]],
           NEW m \in Nat, m < N, NEW f, Recursive(f, m, T, start, Step)
    PROVE  \E g : Recursive(g, m + 1, T, start, Step)
<1> DEFINE next == Step[m + 1][f[m]]
           g == [n \in 0..m + 1 |-> IF n = m + 1 THEN next ELSE f[n]]
<1>1. f \in [0..m -> T] /\ f[0] = start
  BY DEF Recursive
<1>2. ASSUME NEW n \in 1..m PROVE f[n] = Step[n][f[n - 1]]
  BY DEF Recursive
<1>3. m \in 0..m /\ m + 1 \in 1..N
  OBVIOUS
<1>4. f[m] \in T
  BY <1>1, <1>3
<1>5. next \in T
  BY <1>3, <1>4
<1> HIDE DEF next
<1>6. g \in [0..m + 1 -> T]
  BY <1>1, <1>5
<1>7. g[0] = start
  BY <1>1
<1>8. ASSUME NEW n \in 1..m + 1 PROVE g[n] = Step[n][g[n - 1]]
  <2>1. g[n - 1] = f[n - 1]
    OBVIOUS
  <2>2. CASE n = m + 1
    BY <2>1, <2>2 DEF next
  <2>3. CASE n # m + 1
    BY <1>2, <2>1, <2>3
  <2> QED BY <2>2, <2>3
<1> HIDE DEF g
<1>9. Recursive(g, m + 1, T, start, Step)
  BY <1>6, <1>7, <1>8 DEF Recursive
<1> QED BY <1>9

LEMMA RecursionExists ==
    ASSUME NEW N \in Nat, NEW T, NEW start \in T,
           NEW Step \in [1..N -> [T -> T]]
    PROVE  \E f : Recursive(f, N, T, start, Step)
<1> DEFINE S == {m \in Nat : m <= N => \E f : Recursive(f, m, T, start, Step)}
<1>1. 0 \in S
  <2>1. Recursive([n \in 0..0 |-> start], 0, T, start, Step)
    BY DEF Recursive
  <2> QED BY <2>1
<1>2. ASSUME NEW m \in Nat, m \in S PROVE m + 1 \in S
  BY <1>2, RecursionGoesOn
<1> HIDE DEF S
<1>3. N \in S
  BY <1>1, <1>2, SetInduction
<1> QED BY <1>3 DEF S
=============================================================================
