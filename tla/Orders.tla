------------------------------- MODULE Orders --------------------------------
(***************************************************************************)
(* The places that a strict total order gives to the elements of a finite  *)
(* set: lemmas for the proofs about what the system sorts, the results of  *)
(* a search and the list of events.                                        *)
(***************************************************************************)
EXTENDS Integers, FiniteSets, FiniteSetTheorems, TLAPS

\* The elements that come before x in S.
Below(x, S, R) == {y \in S : <<y, x>> \in R}
Place(x, S, R) == 1 + Cardinality(Below(x, S, R))

StrictTotalOrder(S, R) ==
  /\ \A x \in S : <<x, x>> \notin R
  /\ \A x, y, z \in S : <<x, y>> \in R /\ <<y, z>> \in R => <<x, z>> \in R
  /\ \A x, y \in S : x = y \/ <<x, y>> \in R \/ <<y, x>> \in R

\* What comes before an element is finite, and not the whole set.
LEMMA BelowFinite ==
  ASSUME NEW S, IsFiniteSet(S), NEW R, StrictTotalOrder(S, R), NEW x \in S
  PROVE  /\ IsFiniteSet(Below(x, S, R)) /\ Cardinality(Below(x, S, R)) \in Nat
         /\ Place(x, S, R) \in 1..Cardinality(S)
<1>1. Below(x, S, R) \subseteq S \ {x}
  BY DEF Below, StrictTotalOrder
<1>2. IsFiniteSet(S \ {x}) /\ Cardinality(S \ {x}) = Cardinality(S) - 1
  BY FS_RemoveElement
<1>3. IsFiniteSet(Below(x, S, R)) /\ Cardinality(Below(x, S, R)) <= Cardinality(S) - 1
  BY <1>1, <1>2, FS_Subset
<1>4. Cardinality(Below(x, S, R)) \in Nat /\ Cardinality(S) \in Nat
  BY <1>3, FS_CardinalityType
<1> QED
  BY <1>3, <1>4 DEF Place

\* Places are ordered as the elements are.
LEMMA PlaceMonotone ==
  ASSUME NEW S, IsFiniteSet(S), NEW R, StrictTotalOrder(S, R),
         NEW x \in S, NEW y \in S, <<x, y>> \in R
  PROVE  Place(x, S, R) < Place(y, S, R)
<1>1. Below(x, S, R) \subseteq Below(y, S, R)
  BY DEF Below, StrictTotalOrder
<1>2. x \in Below(y, S, R) /\ x \notin Below(x, S, R)
  BY DEF Below, StrictTotalOrder
<1> DEFINE a == Cardinality(Below(x, S, R))
           b == Cardinality(Below(y, S, R))
<1>3. a <= b /\ (b = a => Below(y, S, R) = Below(x, S, R))
  BY <1>1, BelowFinite, FS_Subset
<1>4. a \in Nat /\ b \in Nat
  BY BelowFinite
<1>5. b # a
  BY <1>2, <1>3
<1> HIDE DEF a, b
<1>6. 1 + a < 1 + b
  BY <1>3, <1>4, <1>5
<1> QED
  BY <1>6 DEF Place, a, b

\* Every place is taken, by one element.
LEMMA PlacesTaken ==
  ASSUME NEW S, IsFiniteSet(S), NEW R, StrictTotalOrder(S, R)
  PROVE  /\ \A n \in 1..Cardinality(S) : \E x \in S : Place(x, S, R) = n
         /\ \A x, y \in S : Place(x, S, R) = Place(y, S, R) => x = y
         /\ \A x, y \in S : Place(x, S, R) < Place(y, S, R) => <<x, y>> \in R
<1> DEFINE N == Cardinality(S)
           f == [x \in S |-> Place(x, S, R)]
<1>1. \A x \in S : Place(x, S, R) \in 1..N /\ Place(x, S, R) \in Nat
  BY BelowFinite DEF Place
<1>2. \A x, y \in S : Place(x, S, R) = Place(y, S, R) => x = y
  <2> SUFFICES ASSUME NEW x \in S, NEW y \in S, Place(x, S, R) = Place(y, S, R), x # y
               PROVE  FALSE
    OBVIOUS
  <2>1. Place(x, S, R) < Place(y, S, R) \/ Place(y, S, R) < Place(x, S, R)
    BY PlaceMonotone DEF StrictTotalOrder
  <2> QED
    BY <1>1, <2>1
<1>3. f \in Injection(S, 1..N)
  BY <1>1, <1>2 DEF Injection, IsInjective
<1>4. N \in Nat /\ IsFiniteSet(1..N) /\ Cardinality(1..N) = N
  <2>1. N \in Nat
    BY FS_CardinalityType
  <2>2. IsFiniteSet(1..N) /\ Cardinality(1..N) = IF 1 > N THEN 0 ELSE N - 1 + 1
    BY <2>1, FS_Interval
  <2> QED
    BY <2>1, <2>2
<1>5. f \in Surjection(S, 1..N)
  <2> HIDE DEF f, N
  <2>1. N = Cardinality(S)
    BY DEF N
  <2> QED
    BY <1>3, <1>4, <2>1, FS_Injection
<1>6. \A n \in 1..N : \E x \in S : Place(x, S, R) = n
  BY <1>5 DEF Surjection
<1>7. \A x, y \in S : Place(x, S, R) < Place(y, S, R) => <<x, y>> \in R
  <2> SUFFICES ASSUME NEW x \in S, NEW y \in S, Place(x, S, R) < Place(y, S, R),
                      <<x, y>> \notin R
               PROVE  FALSE
    OBVIOUS
  <2>1. x = y \/ Place(y, S, R) < Place(x, S, R)
    BY PlaceMonotone DEF StrictTotalOrder
  <2> QED
    BY <1>1, <2>1
<1> QED
  BY <1>2, <1>6, <1>7

\* A finite set that is not empty has an element that comes before the others.
LEMMA LeastElement ==
  ASSUME NEW S, IsFiniteSet(S), S # {}, NEW R, StrictTotalOrder(S, R)
  PROVE  \E x \in S : \A y \in S : x = y \/ <<x, y>> \in R
<1>1. Cardinality(S) \in Nat /\ Cardinality(S) # 0
  BY FS_CardinalityType, FS_EmptySet
<1>2. PICK x \in S : Place(x, S, R) = 1
  BY <1>1, PlacesTaken
<1>3. ASSUME NEW y \in S, x # y PROVE <<x, y>> \in R
  <2>1. Place(y, S, R) \in Nat /\ Place(y, S, R) >= 1 /\ Place(y, S, R) # Place(x, S, R)
    BY <1>3, BelowFinite, PlacesTaken
  <2>2. Place(x, S, R) < Place(y, S, R)
    BY <1>2, <2>1
  <2> QED
    BY <2>2, PlacesTaken
<1> QED
  BY <1>3
=============================================================================
