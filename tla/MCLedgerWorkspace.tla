--------------------------- MODULE MCLedgerWorkspace ---------------------------
(***************************************************************************)
(* Two ledgers: l1 may have two currencies, an account and two categories, *)
(* l2 one currency or none, and nothing else.                              *)
(***************************************************************************)
EXTENDS LedgerWorkspace, TLC

CONSTANTS l1, l2, k1, k2, k3, a1, g1, g2, top, w1

AllLedgers == {l1, l2}
TheAccountsOf == l1 :> {a1} @@ l2 :> {}
TheCategoriesOf == l1 :> {g1} @@ l2 :> {}
TheForests ==
  l1 :> {g1 :> top @@ g2 :> top, g1 :> top @@ g2 :> g1, g1 :> g2 @@ g2 :> top, g1 :> top} @@ l2 :> {<<>>}
TheMatching == w1 :> {g2}
TheCurrencyOf == a1 :> k1
TheOffers ==
  l1 :> {[currencies |-> <<k1, k2>>, accounts |-> {a1}], [currencies |-> <<k2>>, accounts |-> {}]}
  @@ l2 :> {[currencies |-> <<k3>>, accounts |-> {}], [currencies |-> <<>>, accounts |-> {}]}
================================================================================
