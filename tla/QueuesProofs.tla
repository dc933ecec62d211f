----------------------------- MODULE QueuesProofs -----------------------------
(* What Kept keeps, and in which order. *)
EXTENDS Queues, Integers, Functions, FiniteSetTheorems, WellFoundedInduction, TLAPS

\* A set of natural numbers has a least one.
LEMMA LeastOf ==
  ASSUME NEW T \in SUBSET Nat, T # {}
  PROVE  \E x \in T : \A y \in T : x <= y
<1> DEFINE R == OpToRel(<, Nat)
<1>1. IsWellFoundedOn(R, Nat)
  BY NatLessThanWellFounded
<1>2. \A x, y \in Nat : y < x => <<y, x>> \in R
  BY DEF OpToRel
<1> HIDE DEF R
<1>3. PICK x \in T : \A y \in T : ~(<<y, x>> \in R)
  BY <1>1, WFMin
<1>4. ASSUME NEW y \in T PROVE x <= y
  <2>1. <<y, x>> \notin R /\ x \in Nat /\ y \in Nat
    BY <1>3
  <2>2. ~(y < x)
    BY <1>2, <2>1
  <2> QED BY <2>1, <2>2
<1> QED BY <1>4

\* Positions have different places, from 1 to the number of positions, and a
\* later position has a later place.
LEMMA Places ==
  ASSUME NEW q, NEW S, q \in Seq(S), NEW K \in SUBSET DOMAIN q
  PROVE  /\ IsFiniteSet(K) /\ Cardinality(K) \in Nat
         /\ \A i \in K : Place(K, i) \in 1..Cardinality(K)
         /\ \A i, j \in K : i < j => Place(K, i) < Place(K, j)
<1>1. K \subseteq 1..Len(q) /\ Len(q) \in Nat /\ K \subseteq Nat
  OBVIOUS
<1>2. IsFiniteSet(K) /\ Cardinality(K) \in Nat
  <2>1. IsFiniteSet(1..Len(q))
    BY <1>1, FS_Interval
  <2>2. IsFiniteSet(K)
    BY <1>1, <2>1, FS_Subset
  <2> QED BY <2>2, FS_CardinalityType
<1>3. ASSUME NEW i \in K
      PROVE  Place(K, i) \in 1..Cardinality(K)
  <2> DEFINE B == {j \in K : j <= i}
  <2>1. IsFiniteSet(B) /\ Cardinality(B) <= Cardinality(K) /\ Cardinality(B) \in Nat
    BY <1>2, FS_Subset, FS_CardinalityType
  <2>2. B # {}
    BY <1>1
  <2>3. Cardinality(B) # 0
    BY <2>1, <2>2, FS_EmptySet
  <2> QED BY <1>2, <2>1, <2>3 DEF Place
<1>4. ASSUME NEW i \in K, NEW j \in K, i < j
      PROVE  Place(K, i) < Place(K, j)
  <2> DEFINE A == {k \in K : k <= i}
             B == {k \in K : k <= j}
  <2>1. A \subseteq B /\ j \in B /\ j \notin A
    BY <1>1, <1>4
  <2>2. IsFiniteSet(B) /\ IsFiniteSet(A)
    BY <1>2, FS_Subset
  <2>3. Cardinality(A) <= Cardinality(B) /\ Cardinality(A) # Cardinality(B)
    BY <2>1, <2>2, FS_Subset
  <2>4. Cardinality(A) \in Nat /\ Cardinality(B) \in Nat
    BY <2>2, FS_CardinalityType
  <2> QED BY <2>3, <2>4 DEF Place
<1> QED BY <1>2, <1>3, <1>4

\* Every place is that of one position.
LEMMA PlacesOnto ==
  ASSUME NEW q, NEW S, q \in Seq(S), NEW K \in SUBSET DOMAIN q,
         NEW n \in 1..Cardinality(K)
  PROVE  \E i \in K : Place(K, i) = n
<1> DEFINE f == [i \in K |-> Place(K, i)]
           N == 1..Cardinality(K)
<1>1. IsFiniteSet(K) /\ Cardinality(K) \in Nat
  BY Places
<1>2. f \in Injection(K, N)
  <2>1. f \in [K -> N]
    BY Places
  <2>2. ASSUME NEW i \in K, NEW j \in K, f[i] = f[j]
        PROVE  i = j
    <3>1. Place(K, i) = Place(K, j) /\ Place(K, i) \in Nat
      BY <1>1, <2>2, Places
    <3>2. ~(i < j) /\ ~(j < i)
      BY <3>1, Places
    <3> QED BY <3>2
  <2> QED BY <2>1, <2>2 DEF Injection, IsInjective
<1>3. IsFiniteSet(N) /\ Cardinality(N) = Cardinality(K)
  BY <1>1, FS_Interval
<1>4. f \in Surjection(K, N)
  BY <1>2, <1>3, FS_Injection
<1> QED BY <1>4 DEF Surjection

\* Kept is a sequence of the elements at K, in the order of q.
LEMMA KeptElements ==
  ASSUME NEW S, NEW q \in Seq(S), NEW K \in SUBSET DOMAIN q
  PROVE  /\ Kept(q, K) \in Seq(S)
         /\ Len(Kept(q, K)) = Cardinality(K)
         /\ \A n \in DOMAIN Kept(q, K) :
              \E i \in K : Place(K, i) = n /\ Kept(q, K)[n] = q[i]
         /\ \A i \in K : /\ Place(K, i) \in DOMAIN Kept(q, K)
                         /\ Kept(q, K)[Place(K, i)] = q[i]
<1> DEFINE N == 1..Cardinality(K)
           at(n) == CHOOSE i \in K : Place(K, i) = n
<1>1. IsFiniteSet(K) /\ Cardinality(K) \in Nat
  BY Places
<1>2. \A n \in N : at(n) \in K /\ Place(K, at(n)) = n
  BY PlacesOnto
<1>3. \A i \in K : Place(K, i) \in N
  BY Places
<1>4. \A i \in K : at(Place(K, i)) = i
  <2> TAKE i \in K
  <2> DEFINE j == at(Place(K, i))
  <2>1. j \in K /\ Place(K, j) = Place(K, i) /\ Place(K, i) \in Nat
    BY <1>1, <1>2, <1>3
  <2> HIDE DEF j
  <2>2. i < j => Place(K, i) < Place(K, j)
    BY <2>1, Places
  <2>3. j < i => Place(K, j) < Place(K, i)
    BY <2>1, Places
  <2>4. i \in Nat /\ j \in Nat
    BY <2>1
  <2> QED BY <2>1, <2>2, <2>3, <2>4 DEF j
<1> HIDE DEF at
<1>5. Kept(q, K) = [n \in N |-> q[at(n)]]
  BY DEF Kept, at
<1>6. \A i \in K : q[i] \in S
  OBVIOUS
<1>7. Kept(q, K) \in Seq(S) /\ Len(Kept(q, K)) = Cardinality(K)
  BY <1>1, <1>2, <1>5, <1>6
<1> QED BY <1>2, <1>3, <1>4, <1>5, <1>7
=============================================================================
