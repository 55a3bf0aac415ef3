------------------------------ MODULE Extrema ------------------------------
(***************************************************************************)
(* Sets of natural numbers have a least element, finite intervals of them  *)
(* a greatest: what the choice of the lowest free descriptor, and of the   *)
(* descriptors for which a message has room, rest on.                      *)
(***************************************************************************)
EXTENDS Integers, FiniteSetTheorems, WellFoundedInduction, TLAPS

(* The part of S up to one of its elements is finite, and so one of these    *)
(* parts has no smaller one.                                                 *)
LEMMA LeastExists ==
  ASSUME NEW S \in SUBSET Nat, S # {}
  PROVE  \E x \in S : \A y \in S : x <= y
  <1> DEFINE UpTo(f) == S \cap (0 .. f)
             Parts == {UpTo(f) : f \in S}
  <1>1. ASSUME NEW f \in S
        PROVE  IsFiniteSet(UpTo(f))
    <2>1. 0 \in Int /\ f \in Int
      OBVIOUS
    <2>2. IsFiniteSet(0 .. f)
      BY <2>1, FS_Interval
    <2>3. UpTo(f) \subseteq 0 .. f
      OBVIOUS
    <2> QED BY <2>2, <2>3, FS_Subset, Zenon
  <1>2. Parts \subseteq FiniteSubsetsOf(S) /\ Parts # {}
    BY <1>1 DEF FiniteSubsetsOf
  <1>3. IsWellFoundedOn(StrictSubsetOrdering(S), FiniteSubsetsOf(S))
    BY FS_StrictSubsetOrderingWellFounded
  <1>4. PICK s \in Parts : \A r \in Parts : ~(<<r, s>> \in StrictSubsetOrdering(S))
    BY <1>2, <1>3, WFMin, Zenon
  <1>5. PICK x \in S : s = UpTo(x)
    BY <1>4
  <1>6. ASSUME NEW y \in S, y < x
        PROVE  FALSE
    <2>1. x \notin UpTo(y) /\ x \in s /\ UpTo(y) \subseteq s
      BY <1>5, <1>6
    <2>2. <<UpTo(y), s>> \in StrictSubsetOrdering(S)
      BY <1>5, <2>1 DEF StrictSubsetOrdering
    <2> QED BY <1>4, <1>6, <2>2
  <1> QED BY <1>6

LEMMA GreatestExists ==
  ASSUME NEW m \in Nat, NEW S \in SUBSET (0 .. m), S # {}
  PROVE  \E x \in S : \A y \in S : y <= x
  <1> DEFINE Distances == {m - x : x \in S}
  <1>1. Distances \in SUBSET Nat /\ Distances # {}
    <2>1. \A x \in S : m - x \in Nat
      OBVIOUS
    <2>2. Distances \subseteq Nat
      BY <2>1
    <2>3. PICK x : x \in S
      OBVIOUS
    <2>4. m - x \in Distances
      BY <2>3
    <2> QED BY <2>2, <2>4
  <1>2. PICK d \in Distances : \A e \in Distances : d <= e
    BY <1>1, LeastExists, Zenon
  <1>3. PICK x \in S : d = m - x
    BY <1>2
  <1>4. ASSUME NEW y \in S
        PROVE  y <= x
    <2>1. m - y \in Distances
      OBVIOUS
    <2>2. d <= m - y
      BY <1>2, <2>1
    <2> QED BY <1>3, <2>2
  <1> QED BY <1>4
=============================================================================
