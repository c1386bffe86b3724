---------------------------- MODULE LeastNatural ----------------------------
(***************************************************************************)
(* Every non-empty set of naturals has a least element: the fact behind    *)
(* "the first free slot" and "the first slot where the search stops".      *)
(* Induction up to a bound, over a set instead of a predicate, follows.    *)
(***************************************************************************)
EXTENDS Naturals, WellFoundedInduction, TLAPS

LEMMA LeastExists ==
  ASSUME NEW T, T \subseteq Nat, T # {}
  PROVE  \E x \in T : \A y \in T : x <= y
  <1>1. IsWellFoundedOn(OpToRel(<, Nat), Nat)
    BY NatLessThanWellFounded
  <1>2. PICK x \in T : \A y \in T : ~ (<<y, x>> \in OpToRel(<, Nat))
    BY <1>1, WFMin
  <1>3. \A y \in T : ~ (y < x)
    BY <1>2, T \subseteq Nat DEF OpToRel
  <1> QED BY <1>3

LEMMA InductionUpTo ==
  ASSUME NEW N \in Nat, NEW T, 0 \in T,
         \A m \in 1..N : m - 1 \in T => m \in T
  PROVE  \A m \in 0..N : m \in T
  <1> DEFINE Bad == {m \in 0..N : m \notin T}
  <1>1. SUFFICES ASSUME Bad # {} PROVE FALSE
    OBVIOUS
  <1>2. PICK m \in Bad : \A n \in Bad : m <= n
    <2>1. Bad \subseteq Nat
      OBVIOUS
    <2> HIDE DEF Bad
    <2> QED BY <1>1, <2>1, LeastExists
  <1>3. m \in 1..N /\ m - 1 \in 0..N /\ m - 1 \notin Bad
    BY <1>2
  <1> QED BY <1>2, <1>3
=============================================================================
