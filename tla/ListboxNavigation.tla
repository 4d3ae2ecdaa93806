--------------------------- MODULE ListboxNavigation ---------------------------
(***************************************************************************)
(* The keys of a listbox (shared/ui/listbox-navigation.ts).  Options are   *)
(* numbered from 0, and -1 stands for none.                                *)
(***************************************************************************)
EXTENDS Integers

NavigationKeys == {"ArrowDown", "ArrowUp", "Home", "End"}

NextIndex(current, length, key) ==
  CASE length <= 0 -> -1
    [] length > 0 /\ key = "Home" -> 0
    [] length > 0 /\ key = "End" -> length - 1
    [] length > 0 /\ key \in {"ArrowDown", "ArrowUp"} ->
         IF current \in 0 .. length - 1
         THEN (current + (IF key = "ArrowDown" THEN 1 ELSE length - 1)) % length
         ELSE IF key = "ArrowUp" THEN length - 1 ELSE 0
================================================================================
