------------------------------- MODULE Counting -------------------------------
(* The number of threads at some statement changes by the thread that moves:   *)
(* facts about finite sets that differ in one element at most.                 *)
EXTENDS Integers, FiniteSets, FiniteSetTheorems, TLAPS

(* How much a truth counts.                                                    *)
One(b) == IF b THEN 1 ELSE 0

LEMMA OneIsNumber == \A b \in BOOLEAN : One(b) \in {0, 1}
BY DEF One

(* A set that gains or loses at most one element gains or loses one at most.   *)
LEMMA CountMove ==
    ASSUME NEW A, NEW B, IsFiniteSet(A), NEW t, \A u : u # t => (u \in A <=> u \in B)
    PROVE  /\ IsFiniteSet(B)
           /\ Cardinality(A) \in Nat /\ Cardinality(B) \in Nat
           /\ Cardinality(B) = Cardinality(A) + One(t \in B) - One(t \in A)
<1>1. Cardinality(A) \in Nat
  BY FS_CardinalityType
<1>2. CASE t \in B
  <2>1. B = A \cup {t}
    BY <1>2
  <2> QED BY <1>1, <1>2, <2>1, FS_AddElement, FS_CardinalityType DEF One
<1>3. CASE t \notin B
  <2>1. B = A \ {t}
    BY <1>3
  <2> QED BY <1>1, <1>3, <2>1, FS_RemoveElement, FS_CardinalityType DEF One
<1> QED BY <1>2, <1>3

(* Someone is there when the count says so.                                    *)
LEMMA CountZero ==
    ASSUME NEW A, IsFiniteSet(A)
    PROVE  Cardinality(A) \in Nat /\ (Cardinality(A) = 0 <=> A = {})
BY FS_EmptySet, FS_CardinalityType
=============================================================================
