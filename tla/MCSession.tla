------------------------------- MODULE MCSession -------------------------------
(***************************************************************************)
(* Instances of Session for TLC: one tab whose page makes two requests at   *)
(* once, and a second tab.                                                  *)
(***************************************************************************)
EXTENDS Session, TLC

CONSTANTS t1, t2, c1, c2

TwoTabs == {t1, t2}
TwoCalls == {c1, c2}
BusyAndQuiet == t1 :> {c1, c2, "landing", "login"} @@ t2 :> {"home", "logout"}
================================================================================
