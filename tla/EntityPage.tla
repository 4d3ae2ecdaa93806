------------------------------- MODULE EntityPage ------------------------------
(***************************************************************************)
(* The page with the accounts of a ledger, or with its currencies (which   *)
(* are two pages of one component): a search, a list with balances, the    *)
(* editor of an entity and the dialog that deletes one.  Conventions as in *)
(* BudgetsPage.  Left out: the rows' texts and the sums of the balances.   *)
(***************************************************************************)
EXTENDS Naturals

CONSTANTS
  Ledgers, Texts, NoText,
  MaxChanges,  \* bound: changes while the page is open
  None

VARIABLES ledger, page, saved

vars == <<ledger, page, saved>>

Open == page # None

Requests == [ledger: Ledgers, fresh: 0..MaxChanges]
Lists == [ledger: Ledgers, fresh: 0..MaxChanges, full: BOOLEAN, any: BOOLEAN]
Pages ==
  [search: Texts, items: Lists \cup {None}, request: Requests \cup {None},
   loading: BOOLEAN, error: BOOLEAN, editor: {"closed", "saving"},
   deleting: Ledgers \cup {None}, deletingBusy: BOOLEAN, deleteRequest: Ledgers \cup {None},
   changes: 0..MaxChanges]

TypeOK == page \in Pages \cup {None} /\ saved \in [Ledgers -> Texts \cup {None}]

Init == page = None /\ saved = [l \in Ledgers |-> None]

--------------------------------------------------------------------------------
(* The handlers.                                                           *)

\* The accounts or currencies, and the balances, arrive together or not at all.
Load(p, l) == [p EXCEPT !.request = [ledger |-> l, fresh |-> p.changes], !.loading = TRUE, !.error = FALSE]

\* What is kept for a ledger is not read again.
Unrestored(l) == NoText
Restored(l) == IF saved[l] = None THEN NoText ELSE saved[l]

Opened(l) ==
  Load([search |-> Restored(l), items |-> None, request |-> None, loading |-> FALSE, error |-> FALSE,
        editor |-> "closed", deleting |-> None, deletingBusy |-> FALSE, deleteRequest |-> None, changes |-> 0], l)

\* A list that was asked for is given up, a deletion under way is not.
Switched(l) == Load([page EXCEPT !.search = Restored(l), !.editor = "closed", !.deleting = None], l)

Become(p) == page' = p /\ UNCHANGED <<ledger, saved>>

Free == Open /\ page.editor = "closed" /\ page.deleting = None
ListShown == ~page.error /\ ~page.loading
RowsShown == ListShown /\ page.items.any
CanCreate == ListShown /\ ~page.items.full

--------------------------------------------------------------------------------
(* The user.                                                               *)

Filter(text) ==
  /\ Free /\ text # page.search
  /\ page' = [page EXCEPT !.search = text]
  /\ saved' = [saved EXCEPT ![ledger] = text]
  /\ UNCHANGED ledger

Retry == Free /\ page.error /\ Become(Load(page, ledger))

\* Changes that are made or under way.
Begun == page.changes + (IF page.deleteRequest = None THEN 0 ELSE 1) + (IF page.editor = "saving" THEN 1 ELSE 0)

SaveEntity ==
  /\ Free /\ (CanCreate \/ RowsShown) /\ Begun < MaxChanges
  /\ Become([page EXCEPT !.editor = "saving"])

\* edit, and from the editor confirmDelete.
ConfirmDelete == Free /\ RowsShown /\ Become([page EXCEPT !.deleting = page.items.ledger])

CloseDelete ==
  /\ Open /\ page.deleting # None /\ ~page.deletingBusy
  /\ Become([page EXCEPT !.deleting = None])

Remove ==
  /\ Open /\ page.deleting # None /\ ~page.deletingBusy /\ Begun < MaxChanges
  /\ Become([page EXCEPT !.deletingBusy = TRUE, !.deleteRequest = ledger])

(* The server.                                                             *)

Answer(full, any) ==
  /\ Open /\ page.request # None /\ (full => any)
  /\ Become([page EXCEPT !.items = [ledger |-> page.request.ledger, fresh |-> page.request.fresh,
                                    full |-> full, any |-> any],
                         !.request = None, !.loading = FALSE])

Fail ==
  /\ Open /\ page.request # None
  /\ Become([page EXCEPT !.request = None, !.loading = FALSE, !.error = TRUE])

Changed(p) == Load([p EXCEPT !.changes = @ + 1], ledger)

SaveAnswer(ok) ==
  /\ Open /\ page.editor = "saving"
  /\ LET over == [page EXCEPT !.editor = "closed"] IN Become(IF ok THEN Changed(over) ELSE over)

\* It reloads the ledger on the screen, and closes the dialog there.
DeleteAnswer(ok) ==
  /\ Open /\ page.deleteRequest # None
  /\ LET over == [page EXCEPT !.deleteRequest = None, !.deletingBusy = FALSE]
     IN  Become(IF ok THEN Changed([over EXCEPT !.deleting = None]) ELSE over)

Next ==
  \/ \E t \in Texts : Filter(t)
  \/ Retry \/ SaveEntity \/ ConfirmDelete \/ CloseDelete \/ Remove \/ Fail
  \/ \E b \in BOOLEAN : SaveAnswer(b) \/ DeleteAnswer(b) \/ \E c \in BOOLEAN : Answer(b, c)

--------------------------------------------------------------------------------
Settled == Open /\ page.request = None /\ ~page.error

\* The list of the ledger before is hidden until the next one comes, and the
\* entity that a dialog asks to delete is one of the ledger on the screen.
ShowsWhatIsAsked ==
  /\ Settled => page.items # None /\ page.items.ledger = ledger
  /\ Open => page.deleting \in {None, ledger}

\* The list loads and a deletion is busy while that is under way.
SpinnerIsPending ==
  Open => /\ page.loading <=> page.request # None
          /\ page.deletingBusy <=> page.deleteRequest # None

\* The search that is kept for a ledger is the one in its box.
SavedIsShown == Open /\ saved[ledger] # None => saved[ledger] = page.search

\* The list contains what the user of this page has saved or deleted.
ChangesAreSeen == Settled => page.items.fresh = page.changes
================================================================================
