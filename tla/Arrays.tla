--------------------------------- MODULE Arrays --------------------------------
(***************************************************************************)
(* Arrays of the pages, in forms that can be reasoned about: SelectSeq is  *)
(* recursive, and SequencesExt weighs on every proof below it.             *)
(***************************************************************************)
EXTENDS Naturals, Sequences, FiniteSets, Functions

\* Array.prototype.filter: what remains of a sequence, in its order.
Filter(s, kept) ==
  LET at == {i \in DOMAIN s : s[i] \in kept}
      place(i) == Cardinality({j \in at : j <= i})
  IN  [n \in 1..Cardinality(at) |-> s[CHOOSE i \in at : place(i) = n]]

\* A list that an answer brings: no property looks at its order.
Listed(S) == CHOOSE s \in Injection(1..Cardinality(S), S) : TRUE
================================================================================
