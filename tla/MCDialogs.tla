------------------------------- MODULE MCDialogs -------------------------------
(***************************************************************************)
(* The user owns two ledgers and may create a third; the name of l1, and   *)
(* of l2 after it is edited, contain the text of the search.               *)
(***************************************************************************)
EXTENDS Dialogs, Integers, TLC

CONSTANTS l1, l2, l3, w1

AllLedgers == {l1, l2, l3}
FirstLedgers == {l1, l2}
TheMatching == w1 :> {[id |-> l1, edited |-> FALSE], [id |-> l2, edited |-> TRUE]}

(* The accounts a1 and a3 are in the same currency, of one decimal, and a2 *)
(* in one without decimals.  The instants 1 and 2 read the same on a clock *)
(* that is put back; "gap" is a time that a clock put forward never shows, *)
(* and "none" one that would fall on another day.                          *)
CONSTANTS a1, a2, a3, c1, c2

TheAccounts == <<a1, a2, a3>>
TheCategories == <<c1, c2>>
TheDecimals == [one |-> 1, zero |-> 0]
TheCurrencies == a1 :> "one" @@ a2 :> "zero" @@ a3 :> "one"
TheLabels == {"twice", "once", "gap", "none"}
TheLocalTimes == <<"twice", "twice", "once">>
TheParsed == [twice |-> 1, once |-> 3, gap |-> 3, none |-> None]

TheEvent(type, time, ms) == [type |-> type, time |-> time, api |-> TRUE, movements |-> ms]
TheMovement(a, c, v, q, fee) == [account |-> a, category |-> c, value |-> v, quantity |-> q, fee |-> fee]

TheFirstEvents == {
  TheEvent("TRANSACTION", 2, <<TheMovement(a1, c2, -5, 2, FALSE)>>),
  TheEvent("TRANSACTION", 3, <<TheMovement(a1, c1, -12, 1, FALSE), TheMovement(a1, c2, -5, 1, TRUE)>>),
  TheEvent("SHOPPING_LIST", 1, <<TheMovement(a2, c1, -12, 1, FALSE), TheMovement(a2, c1, -5, 2, FALSE)>>),
  TheEvent("ACCOUNT_TRANSFER", 1, <<TheMovement(a1, c1, -12, 1, FALSE), TheMovement(a3, c2, 5, 1, FALSE)>>),
  TheEvent("ACCOUNT_TRANSFER", 3, <<TheMovement(a2, c2, -5, 1, FALSE), TheMovement(a3, c2, 12, 1, FALSE),
                                    TheMovement(a3, c1, -5, 1, TRUE)>>)}

\* The first option of the parents is the root, which every list has.
TheOptions == [entity |-> <<l1, l2, l3>>, parent |-> <<l1, l2, l3>>, language |-> <<l1, l2>>, states |-> <<l1, l2, l3>>]
TheFinds == w1 :> {l2, l3}

\* Recovery codes, and passwords, only differ from each other.
Interchangeable == Permutations(RecoveryCodes) \cup Permutations(Passwords)
================================================================================
