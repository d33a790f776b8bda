------------------------------ MODULE SetLemmas ------------------------------
(***************************************************************************)
(* Least and greatest elements of sets of identifiers, for the proofs      *)
(* about the window of an encoder and the members of a decoder.            *)
(***************************************************************************)
EXTENDS Integers, FiniteSetsExt, FiniteSetTheorems, WellFoundedInduction, TLAPS

(* A non-empty set of naturals has a least element: the intervals below    *)
(* its elements are finite sets, well-founded under inclusion.             *)
LEMMA LeastElement ==
  ASSUME NEW T \in SUBSET Nat, T # {}
  PROVE  \E n \in T : \A m \in T : n <= m
<1> DEFINE below == {0 .. (n - 1) : n \in T}
<1>1. below \subseteq FiniteSubsetsOf(Nat) /\ below # {}
  <2>1. \A n \in T : 0 .. (n - 1) \in FiniteSubsetsOf(Nat)
    BY FS_Interval DEF FiniteSubsetsOf
  <2>2. QED
    BY <2>1
<1>2. PICK b \in below : \A c \in below : <<c, b>> \notin StrictSubsetOrdering(Nat)
  <2>1. IsWellFoundedOn(StrictSubsetOrdering(Nat), FiniteSubsetsOf(Nat))
    BY FS_StrictSubsetOrderingWellFounded
  <2> HIDE DEF below
  <2>2. QED
    BY <1>1, <2>1, WFMin
<1>3. PICK n \in T : b = 0 .. (n - 1)
  BY <1>2
<1>4. ASSUME NEW m \in T, m < n
      PROVE  FALSE
  <2>1. <<0 .. (m - 1), b>> \in StrictSubsetOrdering(Nat)
    <3>1. m \in 0 .. (n - 1) /\ m \notin 0 .. (m - 1)
      BY <1>4
    <3>2. QED
      BY <3>1, <1>3, <1>4 DEF StrictSubsetOrdering
  <2>2. QED
    BY <2>1, <1>2
<1>5. QED
  BY <1>4

(* Min, as drop_outdated is called with, is the first identifier.          *)
LEMMA MinIs ==
  ASSUME NEW T \in SUBSET Nat, T # {}
  PROVE  Min(T) \in T /\ \A m \in T : Min(T) <= m
BY LeastElement DEF Min

(* Max, the repair given up when an inversion fails, is the last one.      *)
LEMMA MaxIs ==
  ASSUME NEW n \in Nat, NEW T \in SUBSET (0 .. n), T # {}
  PROVE  Max(T) \in T /\ \A m \in T : m <= Max(T)
<1> DEFINE mirror == {n - t : t \in T}
<1>1. mirror \in SUBSET Nat /\ mirror # {}
  <2>1. \A t \in T : n - t \in Nat
    OBVIOUS
  <2>2. QED
    BY <2>1
<1>2. PICK k \in mirror : \A m \in mirror : k <= m
  <2> HIDE DEF mirror
  <2>1. QED
    BY <1>1, LeastElement
<1>3. PICK t \in T : k = n - t
  BY <1>2
<1>4. \A m \in T : t >= m
  <2>1. TAKE m \in T
  <2>2. n - t <= n - m
    BY <1>2, <1>3
  <2>3. QED
    BY <2>2
<1>5. Max(T) \in T /\ \A m \in T : Max(T) >= m
  BY <1>4 DEF Max
<1>6. QED
  BY <1>5

(* Induction on a count, by its least counterexample.                      *)
LEMMA UpTo ==
  ASSUME NEW n \in Nat, NEW T, 0 \in T,
         \A k \in 0 .. (n - 1) : k \in T => k + 1 \in T
  PROVE  \A k \in 0 .. n : k \in T
<1> DEFINE bad == {k \in 0 .. n : k \notin T}
<1>1. SUFFICES ASSUME bad # {}
               PROVE  FALSE
  OBVIOUS
<1>2. PICK k \in bad : \A m \in bad : k <= m
  <2>1. bad \in SUBSET Nat
    OBVIOUS
  <2> HIDE DEF bad
  <2>2. QED
    BY <2>1, <1>1, LeastElement
<1>3. k # 0 /\ k - 1 \in 0 .. (n - 1) /\ k - 1 \notin bad
  BY <1>2
<1>4. QED
  BY <1>2, <1>3

(* A subset of an interval is finite.                                      *)
LEMMA BoundedIsFinite ==
  ASSUME NEW n \in Int, NEW T \in SUBSET (0 .. n)
  PROVE  IsFiniteSet(T) /\ Cardinality(T) \in Nat
<1>1. IsFiniteSet(0 .. n)
  BY FS_Interval
<1>2. QED
  BY <1>1, FS_Subset, FS_CardinalityType
=============================================================================
