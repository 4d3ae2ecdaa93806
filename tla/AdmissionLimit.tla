----------------------------- MODULE AdmissionLimit ----------------------------
(***************************************************************************)
(* What a limit that is counted before the write promises.  The use cases  *)
(* that create something count what is stored, go on when the count is     *)
(* below the limit, and insert later, when others may have inserted too.   *)
(* FinancialEvents, CategoryTree and LedgerGrants implement this           *)
(* specification: see Limit, OwnerLimit and AccessLimit there.             *)
(***************************************************************************)
EXTENDS Integers, FiniteSets

CONSTANTS
  Things,     \* what is counted: rows of one table
  Requests,   \* how many requests run at the same time
  MaxStored   \* the documented limit

VARIABLES
  stored,    \* the rows that count
  admitted   \* the requests that passed the count and have not ended

vars == <<stored, admitted>>

Init == stored = {} /\ admitted = {}

\* The count is below the limit.
Admit(r) ==
  /\ Cardinality(stored) < MaxStored
  /\ admitted' = admitted \cup {r}
  /\ stored' = stored

\* An admitted request inserts its row, whatever the count is by now, and may
\* delete others.
Commit(r) ==
  /\ r \in admitted
  /\ admitted' = admitted \ {r}
  /\ \E t \in Things : stored' \subseteq stored \cup {t}

\* A request counts and inserts in one transaction.
CountAndCommit(r) ==
  /\ r \notin admitted
  /\ Cardinality(stored) < MaxStored
  /\ admitted' = admitted
  /\ \E t \in Things : stored' \subseteq stored \cup {t}

\* Rows are deleted, or a request ends without a row.
Leave ==
  /\ stored' \subseteq stored
  /\ admitted' \subseteq admitted

Next ==
  \/ \E r \in Requests : Admit(r) \/ Commit(r) \/ CountAndCommit(r)
  \/ Leave

Spec == Init /\ [][Next]_vars

\* What is stored and what is still to come passes the limit by fewer than there
\* are requests running at a time.
Overshoot == Cardinality(stored) + Cardinality(admitted) < MaxStored + Cardinality(Requests)
================================================================================
