------------------------------- MODULE LedgerStore -----------------------------
(***************************************************************************)
(* What the rows of the registry and the files of the ledgers promise      *)
(* together: one store, in which a ledger is made once, listed once and    *)
(* gone once, never comes back, and has its data untouched while it is     *)
(* listed.  LedgerFiles implements this specification: see Store there.    *)
(***************************************************************************)
CONSTANT Ledgers

VARIABLES
  stage,  \* of each ledger: new, making, listed or gone
  data    \* the ledgers whose data are stored

vars == <<stage, data>>

Stages == {"new", "making", "listed", "gone"}

Init == stage = [l \in Ledgers |-> "new"] /\ data = {}

Make(l) ==
  /\ stage[l] = "new"
  /\ stage' = [stage EXCEPT ![l] = "making"]
  /\ data' = data

Fill(l) ==
  /\ stage[l] = "making"
  /\ stage' = stage
  /\ data' = data \cup {l}

\* A ledger that is made is there for its user.
List(l) ==
  /\ stage[l] = "making" /\ l \in data
  /\ stage' = [stage EXCEPT ![l] = "listed"]
  /\ data' = data

\* Ledgers go together, given up or deleted.  The data of one that was listed
\* go later, those of one that was being made may go at once.
Leave(going) ==
  /\ \A l \in going : stage[l] \in {"making", "listed"}
  /\ stage' = [l \in Ledgers |-> IF l \in going THEN "gone" ELSE stage[l]]
  /\ data' \subseteq data /\ \A l \in data \ data' : l \in going /\ stage[l] = "making"

Erase(l) ==
  /\ stage[l] = "gone"
  /\ stage' = stage
  /\ data' = data \ {l}

Next ==
  \/ \E l \in Ledgers : Make(l) \/ Fill(l) \/ List(l) \/ Erase(l)
  \/ \E going \in SUBSET Ledgers : Leave(going)

Spec == Init /\ [][Next]_vars
================================================================================
