----------------------------- MODULE MCCategoryTree ----------------------------
(***************************************************************************)
(* Instances of CategoryTree for TLC.                                      *)
(***************************************************************************)
EXTENDS CategoryTree, TLC

Symmetry == Permutations(Categories) \cup Permutations(Requests)
================================================================================
