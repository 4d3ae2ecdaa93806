------------------------------- MODULE MonthSelect -----------------------------
(***************************************************************************)
(* The choice of a month (MonthSelectComponent) for the period of a page.  *)
(* The field of the year is bound to displayYear and takes what is typed;  *)
(* the browser keeps a text that the component does not take, until        *)
(* displayYear changes or the panel is rendered anew.                      *)
(***************************************************************************)
EXTENDS ListboxNavigation

CONSTANTS LastYear, NotAYear

Months == 1 .. 12
Years == 1 .. LastYear
Periods == [year: Years, month: Months]

VARIABLES
  ui,     \* the component
  server  \* the month of the page

vars == <<ui, server>>

TypeOK ==
  /\ server \in Periods
  /\ ui \in [open: BOOLEAN, active: Months, year: Years, text: Years \cup {NotAYear},
             touched: BOOLEAN, stale: BOOLEAN, took: {"none", "shown", "other"}]

\* touched, stale (history): as in SelectList.
\* took (history): whether the month last chosen is in the year on the screen.
Init ==
  /\ server \in Periods
  /\ ui = [open |-> FALSE, active |-> 1, year |-> 1, text |-> 1, touched |-> FALSE, stale |-> FALSE, took |-> "none"]

Show(u) == ui' = u /\ UNCHANGED server

--------------------------------------------------------------------------------
Close(u) == [u EXCEPT !.open = FALSE]

\* The panel opens at the month of the page.
Open(u) ==
  [u EXCEPT !.open = TRUE, !.year = server.year, !.text = server.year, !.active = server.month,
            !.touched = FALSE, !.stale = FALSE]

Toggle == Show(IF ui.open THEN Close(ui) ELSE Open(ui))

Dismiss == ui.open /\ Show(Close(ui))

Navigate(k) ==
  Show(IF ui.open THEN [ui EXCEPT !.active = NextIndex(@ - 1, 12, k) + 1, !.touched = TRUE] ELSE Open(ui))

\* The binding writes the text only when displayYear changes.
SetYear(u, y) == [u EXCEPT !.year = y, !.text = IF y = u.year THEN @ ELSE y, !.touched = TRUE]

Clamped(y) == IF y < 1 THEN 1 ELSE IF y > LastYear THEN LastYear ELSE y

ChangeYear(delta) == ui.open /\ Show(SetYear(ui, Clamped(ui.year + delta)))

\* What is no integer from 1 to 9999 is not taken.
UpdateYear(text) ==
  /\ ui.open /\ text # ui.text
  /\ Show([ui EXCEPT !.text = text, !.year = IF text = NotAYear THEN @ ELSE text, !.touched = TRUE])

\* isSelected: the month that is marked in the panel.
Marked(u, m) == server = [year |-> u.year, month |-> m]

ChooseMonth(m) ==
  /\ ui.open
  /\ server' = [year |-> ui.year, month |-> m]
  /\ ui' = [Close(ui) EXCEPT !.active = m, !.took = IF ui.text \in {ui.year, NotAYear} THEN "shown" ELSE "other"]

\* The keys of the trigger: Enter and space.
Enter == ChooseMonth(ui.active)

\* The page is of another ledger, whose view is restored.
OwnerGives(p) ==
  /\ p # server
  /\ server' = p
  /\ ui' = [ui EXCEPT !.stale = ui.open]

Next ==
  \/ Toggle \/ Dismiss \/ Enter
  \/ \E k \in NavigationKeys : Navigate(k)
  \/ \E delta \in {-1, 1} : ChangeYear(delta)
  \/ \E text \in Years \cup {NotAYear} : UpdateYear(text)
  \/ \E m \in Months : ChooseMonth(m)
  \/ \E p \in Periods : OwnerGives(p)

--------------------------------------------------------------------------------
\* A panel opens at the month of the page, which is marked there, and Enter
\* then changes nothing; and whatever is chosen is in the year on the screen,
\* unless that is no year.
SettledIsServers ==
  /\ ui.open /\ ~ui.stale /\ ~ui.touched => Marked(ui, ui.active)
  /\ ui.took # "other"
  /\ ui.open => ui.text \in {ui.year, NotAYear}
================================================================================
