------------------------- MODULE Subsequences_proofs -------------------------
(***************************************************************************)
(* What Kept(s, P) is, for any sequence and any of its positions, and two   *)
(* facts about numbers that more than one proof needs: a set of them has a  *)
(* first one, and what holds of 0 and of every next number holds of all.   *)
(***************************************************************************)
EXTENDS Subsequences, TLAPS, FiniteSetTheorems, SequenceTheorems

(* A non-empty set of numbers has a first one: the intervals below its     *)
(* members are finite sets, and strict inclusion of finite sets is well     *)
(* founded.                                                                *)
LEMMA SmallestIsThere ==
  ASSUME NEW S \in SUBSET Nat, S # {}
  PROVE  \E k \in S : \A j \in S : k <= j
<1> DEFINE below == {0 .. k : k \in S}
           R == StrictSubsetOrdering(Nat)
           F == FiniteSubsetsOf(Nat)
<1>1. below \subseteq F /\ below # {}
  <2>1. \A k \in S : 0 .. k \in SUBSET Nat /\ IsFiniteSet(0 .. k)
    BY FS_Interval
  <2> QED
    BY <2>1 DEF FiniteSubsetsOf
<1>2. IsWellFoundedOn(R, F)
  BY FS_StrictSubsetOrderingWellFounded
<1> HIDE DEF below, R, F
<1>3. PICK x \in below : \A y \in below : ~(<<y, x>> \in R)
  BY <1>1, <1>2, WFMin
<1>4. PICK k \in S : x = 0 .. k
  BY <1>3 DEF below
<1>5. ASSUME NEW j \in S, j < k PROVE FALSE
  <2>1. 0 .. j \in below /\ 0 .. j \subseteq 0 .. k /\ 0 .. j # 0 .. k
    BY <1>5 DEF below
  <2>2. 0 .. j \in SUBSET Nat /\ 0 .. k \in SUBSET Nat
    OBVIOUS
  <2>3. <<0 .. j, 0 .. k>> \in R
    BY <2>1, <2>2 DEF R, StrictSubsetOrdering
  <2> QED
    BY <1>3, <1>4, <2>1, <2>3
<1> QED
  BY <1>5

(* Induction, with a set for the predicate. *)
LEMMA EveryNumber ==
  ASSUME NEW S, 0 \in S, \A k \in Nat : k \in S => k + 1 \in S
  PROVE  \A n \in Nat : n \in S
<1> DEFINE T == {n \in Nat : n \notin S}
<1>1. CASE T = {}
  BY <1>1
<1>2. CASE T # {}
  <2>1. PICK k \in T : \A j \in T : k <= j
    BY <1>2, SmallestIsThere
  <2>2. k \in Nat \ {0} /\ k - 1 \in Nat /\ k - 1 \notin T
    BY <2>1
  <2>3. k - 1 \in S /\ (k - 1) + 1 = k
    BY <2>2
  <2> QED
    BY <2>1, <2>2, <2>3
<1> QED
  BY <1>1, <1>2

-----------------------------------------------------------------------------
(* t has the entries of s at the positions P, at e[1], e[2] and so on. *)
Picks(e, t, s, P) ==
  /\ e \in [1 .. Len(t) -> P]
  /\ \A k \in 1 .. Len(t) : t[k] = s[e[k]]
  /\ \A k, l \in 1 .. Len(t) : k < l => e[k] < e[l]
  /\ \A i \in P : \E k \in 1 .. Len(t) : e[k] = i

UpTo(P, i) == {j \in P : j <= i}
Place(P, i) == Cardinality(UpTo(P, i))

(* The positions of a sequence of length n. *)
LEMMA PositionsAreFinite ==
  ASSUME NEW n \in Nat
  PROVE  IsFiniteSet(1 .. n) /\ Cardinality(1 .. n) = n
<1>1. 1 \in Int /\ n \in Int
  OBVIOUS
<1>2. IsFiniteSet(1 .. n) /\ Cardinality(1 .. n) = IF 1 > n THEN 0 ELSE n - 1 + 1
  BY <1>1, FS_Interval
<1>3. (IF 1 > n THEN 0 ELSE n - 1 + 1) = n
  OBVIOUS
<1> QED
  BY <1>2, <1>3

(* A finite set of numbers is counted through in the order of its members.  *)
LEMMA PlacesGrow ==
  ASSUME NEW P \in SUBSET Nat, IsFiniteSet(P)
  PROVE  /\ \A i \in P : Place(P, i) \in 1 .. Cardinality(P)
         /\ \A i, j \in P : i < j => Place(P, i) < Place(P, j)
<1>1. ASSUME NEW i \in P
      PROVE  /\ IsFiniteSet(UpTo(P, i)) /\ Place(P, i) \in Nat
             /\ Place(P, i) <= Cardinality(P) /\ Place(P, i) # 0
  <2>1. UpTo(P, i) \subseteq P /\ i \in UpTo(P, i)
    BY <1>1 DEF UpTo
  <2>2. IsFiniteSet(UpTo(P, i)) /\ Place(P, i) <= Cardinality(P)
    BY <2>1, FS_Subset DEF Place
  <2>3. Place(P, i) \in Nat
    BY <2>2, FS_CardinalityType DEF Place
  <2>4. Place(P, i) # 0
    BY <2>1, <2>2, FS_EmptySet DEF Place
  <2> QED
    BY <2>2, <2>3, <2>4
<1>2. Cardinality(P) \in Nat
  BY FS_CardinalityType
<1>3. ASSUME NEW i \in P, NEW j \in P, i < j
      PROVE  Place(P, i) < Place(P, j)
  <2>1. UpTo(P, i) \subseteq UpTo(P, j) /\ j \in UpTo(P, j) /\ j \notin UpTo(P, i)
    <3>1. i \in Nat /\ j \in Nat /\ \A m \in P : m \in Nat
      OBVIOUS
    <3>2. \A m \in P : m <= i => m <= j
      BY <1>3, <3>1
    <3>3. j <= j /\ ~(j <= i)
      BY <1>3, <3>1
    <3> QED
      BY <3>2, <3>3 DEF UpTo
  <2>2. IsFiniteSet(UpTo(P, i)) /\ IsFiniteSet(UpTo(P, j))
    BY <1>1
  <2>3. Cardinality(UpTo(P, i)) < Cardinality(UpTo(P, j))
    <3>1. UpTo(P, i) # UpTo(P, j)
      BY <2>1
    <3> QED
      BY <2>1, <2>2, <3>1, FS_Subset, <1>1, <1>3 DEF Place
  <2> QED
    BY <2>3 DEF Place
<1> QED
  BY <1>1, <1>2, <1>3

(* Every place is somebody's. *)
LEMMA EveryPlaceIsTaken ==
  ASSUME NEW P \in SUBSET Nat, IsFiniteSet(P), NEW k \in 1 .. Cardinality(P)
  PROVE  \E i \in P : Place(P, i) = k
<1> DEFINE f == [i \in P |-> Place(P, i)]
<1>1. Cardinality(P) \in Nat
  BY FS_CardinalityType
<1>2. IsFiniteSet(1 .. Cardinality(P)) /\ Cardinality(1 .. Cardinality(P)) = Cardinality(P)
  BY <1>1, FS_Interval
<1>3. f \in Injection(P, 1 .. Cardinality(P))
  <2>1. f \in [P -> 1 .. Cardinality(P)]
    BY PlacesGrow
  <2>2. ASSUME NEW i \in P, NEW j \in P, f[i] = f[j]
        PROVE  i = j
    <3>1. Place(P, i) \in Nat /\ Place(P, j) \in Nat /\ Place(P, i) = Place(P, j)
      BY <1>1, <2>2, PlacesGrow
    <3>2. ~(i < j) /\ ~(j < i)
      BY <3>1, PlacesGrow
    <3> QED
      BY <3>2
  <2> QED
    BY <2>1, <2>2 DEF Injection, IsInjective
<1>4. f \in Surjection(P, 1 .. Cardinality(P))
  BY <1>2, <1>3, FS_Injection
<1> QED
  BY <1>4 DEF Surjection

LEMMA KeptIsPicked ==
  ASSUME NEW S, NEW s \in Seq(S), NEW P \in SUBSET DOMAIN s
  PROVE  /\ Kept(s, P) \in Seq(S)
         /\ Len(Kept(s, P)) = Cardinality(P)
         /\ \E e : Picks(e, Kept(s, P), s, P)
<1> DEFINE n == Cardinality(P)
           e == [k \in 1 .. n |-> CHOOSE i \in P : Place(P, i) = k]
           t == Kept(s, P)
<1>1. P \subseteq Nat /\ IsFiniteSet(P) /\ n \in Nat
  <2>1. Len(s) \in Nat /\ DOMAIN s = 1 .. Len(s)
    BY LenProperties
  <2>2. IsFiniteSet(1 .. Len(s))
    BY <2>1, FS_Interval
  <2> QED
    BY <2>1, <2>2, FS_Subset, FS_CardinalityType
<1>2. t = [k \in 1 .. n |-> s[e[k]]]
  BY DEF Kept, Place, UpTo
<1>3. \A k \in 1 .. n : e[k] \in P /\ Place(P, e[k]) = k
  BY <1>1, EveryPlaceIsTaken
<1>4. \A k \in 1 .. n : s[e[k]] \in S
  BY <1>3, ElementOfSeq, LenProperties
<1>5. t \in Seq(S) /\ Len(t) = n
  <2>1. t \in [1 .. n -> S]
    BY <1>2, <1>4
  <2> QED
    BY <1>1, <2>1, SeqDef, LenProperties
<1> HIDE DEF e
<1>6. \A k, l \in 1 .. n : k < l => e[k] < e[l]
  <2>0. \A k \in 1 .. n : e[k] \in Nat
    BY <1>1, <1>3
  <2> SUFFICES ASSUME NEW k \in 1 .. n, NEW l \in 1 .. n, k < l, e[l] <= e[k]
               PROVE  FALSE
    BY <2>0
  <2>1. Place(P, e[k]) = k /\ Place(P, e[l]) = l /\ e[k] \in P /\ e[l] \in P
    BY <1>3
  <2>2. e[l] = e[k] \/ e[l] < e[k]
    BY <2>0
  <2> QED
    BY <1>1, <2>1, <2>2, PlacesGrow
<1>7. \A i \in P : \E k \in 1 .. n : e[k] = i
  <2> SUFFICES ASSUME NEW i \in P PROVE \E k \in 1 .. n : e[k] = i
    OBVIOUS
  <2>1. PICK k \in 1 .. n : Place(P, i) = k
    BY <1>1, PlacesGrow
  <2>2. e[k] \in P /\ Place(P, e[k]) = k
    BY <1>3
  <2>3. ~(e[k] < i) /\ ~(i < e[k])
    BY <1>1, <2>1, <2>2, PlacesGrow
  <2> QED
    BY <1>1, <2>2, <2>3
<1>8. Picks(e, t, s, P)
  <2>1. e \in [1 .. n -> P]
    BY <1>3 DEF e
  <2> QED
    BY <2>1, <1>2, <1>3, <1>5, <1>6, <1>7 DEF Picks
<1> QED
  BY <1>5, <1>8
=============================================================================
