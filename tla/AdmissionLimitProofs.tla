------------------------- MODULE AdmissionLimitProofs --------------------------
(***************************************************************************)
(* How far a limit that is counted before the write can be passed: by      *)
(* fewer rows than there are requests, for any limit, any rows and any     *)
(* number of requests.                                                     *)
(***************************************************************************)
EXTENDS AdmissionLimit, FiniteSetTheorems, TLAPS

TypeOK == stored \subseteq Things /\ admitted \subseteq Requests
Inv == TypeOK /\ Overshoot

\* A subset of a finite set has at most its cardinality.
LEMMA SubsetCount ==
  ASSUME NEW T, IsFiniteSet(T), NEW S \in SUBSET T
  PROVE  IsFiniteSet(S) /\ Cardinality(S) \in Nat /\ Cardinality(T) \in Nat /\ Cardinality(S) <= Cardinality(T)
  BY FS_Subset, FS_CardinalityType

\* A step that adds one element adds at most one to the cardinality.
LEMMA AddOne ==
  ASSUME NEW S, IsFiniteSet(S), NEW t, NEW T \in SUBSET (S \cup {t})
  PROVE  Cardinality(T) \in Nat /\ Cardinality(T) <= Cardinality(S) + 1
<1>1. Cardinality(S) \in Nat
  BY FS_CardinalityType
<1>2. /\ IsFiniteSet(S \cup {t})
      /\ Cardinality(S \cup {t}) = IF t \in S THEN Cardinality(S) ELSE Cardinality(S) + 1
  BY FS_AddElement
<1>3. /\ Cardinality(T) \in Nat /\ Cardinality(S \cup {t}) \in Nat
      /\ Cardinality(T) <= Cardinality(S \cup {t})
  BY <1>2, SubsetCount
<1> QED
  BY <1>1, <1>2, <1>3

\* Admissions, insertions and departures keep the bound: an insertion moves one
\* from admitted to stored, and who is admitted found room under the limit.
LEMMA StepKeepsOvershoot ==
  ASSUME IsFiniteSet(Things), IsFiniteSet(Requests), MaxStored \in Nat, Inv, [Next]_vars
  PROVE  Inv'
<1> DEFINE n == Cardinality(stored)
           k == Cardinality(admitted)
<1>1. /\ IsFiniteSet(stored) /\ IsFiniteSet(admitted)
      /\ n \in Nat /\ k \in Nat /\ Cardinality(Requests) \in Nat
      /\ n + k < MaxStored + Cardinality(Requests)
  BY SubsetCount DEF Inv, TypeOK, Overshoot
<1>2. CASE UNCHANGED vars
  BY <1>2 DEF vars, Inv, TypeOK, Overshoot
<1>3. ASSUME NEW r \in Requests, Admit(r) PROVE Inv'
  <2>1. TypeOK'
    BY <1>3 DEF Admit, Inv, TypeOK
  <2>2. Cardinality(admitted') \in Nat /\ Cardinality(admitted') <= Cardinality(Requests)
    BY <2>1, SubsetCount DEF TypeOK
  <2>3. Cardinality(stored') < MaxStored /\ Cardinality(stored') \in Nat
    BY <1>1, <1>3 DEF Admit
  <2> QED
    BY <1>1, <2>1, <2>2, <2>3 DEF Inv, Overshoot
<1>4. ASSUME NEW r \in Requests, Commit(r) PROVE Inv'
  <2>1. PICK t \in Things : stored' \subseteq stored \cup {t}
    BY <1>4 DEF Commit
  <2>2. Cardinality(stored') <= n + 1 /\ Cardinality(stored') \in Nat
    BY <1>1, <2>1, AddOne
  <2>3. Cardinality(admitted') = k - 1
    BY <1>1, <1>4, FS_RemoveElement DEF Commit
  <2>4. TypeOK'
    BY <1>4, <2>1 DEF Commit, Inv, TypeOK
  <2> QED
    BY <1>1, <2>1, <2>2, <2>3, <2>4 DEF Inv, Overshoot
<1>5. ASSUME NEW r \in Requests, CountAndCommit(r) PROVE Inv'
  <2>1. PICK t \in Things : stored' \subseteq stored \cup {t}
    BY <1>5 DEF CountAndCommit
  <2>2. Cardinality(stored') <= n + 1 /\ Cardinality(stored') \in Nat
    BY <1>1, <2>1, AddOne
  <2>3. k < Cardinality(Requests)
    <3>1. admitted \in SUBSET (Requests \ {r})
      BY <1>5 DEF CountAndCommit, Inv, TypeOK
    <3>2. IsFiniteSet(Requests \ {r}) /\ Cardinality(Requests \ {r}) = Cardinality(Requests) - 1
      BY FS_RemoveElement
    <3>3. k <= Cardinality(Requests \ {r})
      BY <3>1, <3>2, SubsetCount
    <3> QED
      BY <1>1, <3>2, <3>3
  <2>4. n < MaxStored /\ admitted' = admitted
    BY <1>5 DEF CountAndCommit
  <2>5. TypeOK'
    BY <2>1, <2>4 DEF Inv, TypeOK
  <2> QED
    BY <1>1, <2>1, <2>2, <2>3, <2>4, <2>5 DEF Inv, Overshoot
<1>6. CASE Leave
  <2>1. /\ Cardinality(stored') \in Nat /\ Cardinality(stored') <= n
        /\ Cardinality(admitted') \in Nat /\ Cardinality(admitted') <= k
    BY <1>1, <1>6, SubsetCount DEF Leave
  <2>2. TypeOK'
    BY <1>6 DEF Leave, Inv, TypeOK
  <2> QED
    BY <1>1, <2>1, <2>2 DEF Inv, Overshoot
<1> QED
  BY <1>2, <1>3, <1>4, <1>5, <1>6 DEF Next

\* However many requests count the same rows, the limit is passed by fewer rows
\* than there are requests.
THEOREM OvershootBounded ==
  ASSUME IsFiniteSet(Things), IsFiniteSet(Requests), Requests # {}, MaxStored \in Nat
  PROVE  Spec => []Overshoot
<1>1. Init => Inv
  BY FS_EmptySet, FS_CardinalityType DEF Init, Inv, TypeOK, Overshoot
<1>2. Inv /\ [Next]_vars => Inv'
  BY StepKeepsOvershoot
<1>3. Inv => Overshoot
  BY DEF Inv
<1> QED
  BY <1>1, <1>2, <1>3, PTL DEF Spec
================================================================================
