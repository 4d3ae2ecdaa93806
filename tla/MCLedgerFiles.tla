----------------------------- MODULE MCLedgerFiles -----------------------------
(***************************************************************************)
(* Instances of LedgerFiles for TLC.                                       *)
(***************************************************************************)
EXTENDS LedgerFiles, TLC

\* For the runs without a liveness property.
Symmetry == Permutations(Ledgers) \cup Permutations(Requests)
================================================================================
