----------------------------- MODULE LedgerSelector ----------------------------
(***************************************************************************)
(* The selector of ledgers: the list of LedgerService, a search, a         *)
(* selection, and the dialogs that create, edit and delete a ledger.  The  *)
(* selector comes and goes with its route; LedgerService stays.  Exchanges *)
(* as in SecurityDialog.  A ledger is edited at most once: it then has     *)
(* another name.  One user owns the ledgers, in one tab.                   *)
(*                                                                         *)
(* Left out: the menu of a row, the forms, the keys that move the          *)
(* selection, and what a ledger's own pages do (LedgerWorkspace).          *)
(***************************************************************************)
EXTENDS Naturals, Sequences, Arrays

CONSTANTS
  Ledgers,        \* ledgers that exist or may be created
  Owned,          \* those that exist at first
  Texts, NoText,  \* what is typed into the search
  Matching,       \* Texts -> ledgers [id, edited] whose name contains the text
  MaxChanges,     \* bound: forms that are sent
  None

Slots == {"list", "late list", "save", "delete"}
Rows == [id: Ledgers, edited: BOOLEAN]

VARIABLES
  ui,     \* LedgerSelectorComponent, its dialogs and LedgerService
  server  \* the ledgers of the user: a set of rows

vars == <<ui, server>>

Asked == [at: {"sent", "answered", "refused"}, of: Ledgers \cup {None, "new"}, row: Rows \cup {None}, rows: SUBSET Rows]

Pages == [here: BOOLEAN, ledgers: Seq(Rows), changes: 0..MaxChanges, search: Texts, selected: Ledgers \cup {None},
          editor: Ledgers \cup {None, "new"}, saving: BOOLEAN, deleting: Ledgers \cup {None}, deletingBusy: BOOLEAN,
          loading: BOOLEAN, loadError: BOOLEAN, http: [Slots -> Asked \cup {None}], raced: BOOLEAN, lost: BOOLEAN]

TypeOK == server \subseteq Rows /\ ui \in Pages

Sent == [at |-> "sent", of |-> None, row |-> None, rows |-> {}]

\* The selector is created: the list is asked for.
Created(ledgers, http, raced, changes) ==
  [here |-> TRUE, ledgers |-> ledgers, changes |-> changes, search |-> NoText, selected |-> None,
   editor |-> None, saving |-> FALSE, deleting |-> None, deletingBusy |-> FALSE,
   loading |-> TRUE, loadError |-> FALSE, http |-> [http EXCEPT !["list"] = Sent],
   raced |-> raced,  \* history: a change and a list were under way together
   lost |-> FALSE]   \* history: an answer to a change was lost

Init ==
  /\ server = {[id |-> l, edited |-> FALSE] : l \in Owned}
  /\ ui = Created(<<>>, [k \in Slots |-> None], FALSE, 0)

--------------------------------------------------------------------------------
Become(u) == ui' = u /\ UNCHANGED server

\* filteredLedgers, selectedLedger.
Filtered == {r \in Range(ui.ledgers) : ui.search # NoText => r \in Matching[ui.search]}
Selected(u) == {r \in Range(u.ledgers) : r.id = u.selected}

\* A dialog keeps the rest of the page from the user.
Free == ui.here /\ ui.editor = None /\ ui.deleting = None
RowsShown == Free /\ ~ui.loadError /\ ~ui.loading

\* LedgerService.replace.
Replace(rows, next) ==
  IF \E i \in DOMAIN rows : rows[i].id = next.id
  THEN [i \in DOMAIN rows |-> IF rows[i].id = next.id THEN next ELSE rows[i]]
  ELSE <<next>> \o rows

--------------------------------------------------------------------------------
(* The user.                                                               *)

SetSearch(text) ==
  /\ Free /\ text # ui.search
  /\ LET unmatched == text # NoText /\ Selected(ui) # {} /\ Selected(ui) \cap Matching[text] = {}
     IN  Become([ui EXCEPT !.search = text, !.selected = IF unmatched THEN None ELSE @])

SelectLedger(r) == RowsShown /\ r \in Filtered /\ Become([ui EXCEPT !.selected = r.id])

OpenCreate == Free /\ Become([ui EXCEPT !.editor = "new"])

OpenEdit(r) == RowsShown /\ r \in Filtered /\ ~r.edited /\ Become([ui EXCEPT !.editor = r.id])

CloseEditor == ui.editor # None /\ ~ui.saving /\ Become([ui EXCEPT !.editor = None])

SaveLedger ==
  /\ ui.editor # None /\ ~ui.saving /\ ui.changes < MaxChanges
  /\ Become([ui EXCEPT !.saving = TRUE, !.changes = @ + 1, !.http["save"] = [Sent EXCEPT !.of = ui.editor]])

OpenDelete(r) == RowsShown /\ r \in Filtered /\ Become([ui EXCEPT !.deleting = r.id])

CloseDelete == ui.deleting # None /\ ~ui.deletingBusy /\ Become([ui EXCEPT !.deleting = None])

\* Bound: not beside a deletion that a selector before has left under way.
DeleteLedger ==
  /\ ui.deleting # None /\ ~ui.deletingBusy /\ ui.http["delete"] = None /\ ui.changes < MaxChanges
  /\ Become([ui EXCEPT !.deletingBusy = TRUE, !.changes = @ + 1, !.http["delete"] = [Sent EXCEPT !.of = ui.deleting]])

\* The route leaves the selector, with a selected ledger or by the history.  Its
\* list and its deletion stay under way, a save is unsubscribed from.
Leave ==
  /\ ui.here
  /\ ui.http["late list"] = None
  /\ Become([ui EXCEPT !.here = FALSE, !.editor = None, !.saving = FALSE, !.deleting = None,
                       !.deletingBusy = FALSE, !.selected = None,
                       !.http["save"] = None, !.http["late list"] = ui.http["list"], !.http["list"] = None])

Return ==
  /\ ~ui.here
  /\ Become(Created(ui.ledgers, ui.http, ui.http["late list"] # None \/ ui.http["delete"] # None, ui.changes))

--------------------------------------------------------------------------------
(* The server.                                                             *)

Reply(k, how, row, rows) ==
  ui' = [ui EXCEPT !.http[k] = [@ EXCEPT !.at = how, !.row = row, !.rows = rows],
                   !.raced = @ \/ (k \in {"save", "delete"} /\ \E q \in {"list", "late list"} : ui.http[q] # None)]

ServeList(k) == Reply(k, "answered", None, server) /\ UNCHANGED server

ServeSave ==
  LET of == ui.http["save"].of IN
  \E row \in Rows :
    /\ IF of = "new" THEN ~row.edited /\ row.id \notin {r.id : r \in server}
       ELSE row = [id |-> of, edited |-> TRUE] /\ \E r \in server : r.id = of
    /\ server' = {r \in server : r.id # row.id} \cup {row}
    /\ Reply("save", "answered", row, {})

ServeDelete ==
  LET of == ui.http["delete"].of IN
  /\ \E r \in server : r.id = of
  /\ server' = {r \in server : r.id # of}
  /\ Reply("delete", "answered", None, {})

\* A change may be refused: the limit, no such ledger, the executor is full.
Serve(k) ==
  /\ ui.http[k] # None /\ ui.http[k].at = "sent"
  /\ \/ k \in {"list", "late list"} /\ ServeList(k)
     \/ k = "save" /\ ServeSave
     \/ k = "delete" /\ ServeDelete
     \/ k \in {"save", "delete"} /\ Reply(k, "refused", None, {}) /\ UNCHANGED server

--------------------------------------------------------------------------------
(* The answers.                                                            *)

Answered(k) == ui.http[k] # None /\ ui.http[k].at = "answered"
Q(k) == ui.http[k]

\* A change that ends while a list is under way.
Raced == ui.raced \/ \E k \in {"list", "late list"} : ui.http[k] # None

ListAnswer ==
  /\ Answered("list")
  /\ Become([ui EXCEPT !.http["list"] = None, !.loading = FALSE, !.ledgers = Listed(Q("list").rows),
                       !.selected = IF @ \in {r.id : r \in Q("list").rows} THEN @ ELSE None])

\* It is the list of the service as well.
LateListAnswer ==
  /\ Answered("late list")
  /\ Become([ui EXCEPT !.http["late list"] = None, !.ledgers = Listed(Q("late list").rows)])

SaveAnswer ==
  /\ Answered("save")
  /\ LET row == Q("save").row
     IN  Become([ui EXCEPT !.ledgers = IF Q("save").of = "new" THEN <<row>> \o @ ELSE Replace(@, row),
                           !.http["save"] = None, !.saving = FALSE, !.editor = None,
                           !.selected = row.id, !.raced = Raced])

\* The dialog that asked for it may be gone with its selector.
DeleteAnswer ==
  /\ Answered("delete")
  /\ LET rows == Filter(ui.ledgers, {r \in Rows : r.id # Q("delete").of})
         over == [ui EXCEPT !.http["delete"] = None, !.ledgers = rows, !.raced = Raced]
     IN  Become(IF ui.deletingBusy
                THEN [over EXCEPT !.deletingBusy = FALSE, !.deleting = None,
                                  !.selected = IF @ = Q("delete").of THEN None ELSE @]
                ELSE over)

\* A request or its answer is lost, or the change is refused.
Fail(k) ==
  /\ ui.http[k] # None
  /\ Become([ui EXCEPT !.http[k] = None,
                       !.loading = @ /\ k # "list", !.loadError = @ \/ k = "list",
                       !.saving = @ /\ k # "save", !.deletingBusy = @ /\ k # "delete",
                       !.lost = @ \/ (k \in {"save", "delete"} /\ Answered(k))])

Next ==
  \/ \E t \in Texts : SetSearch(t)
  \/ \E r \in Rows : SelectLedger(r) \/ OpenEdit(r) \/ OpenDelete(r)
  \/ OpenCreate \/ CloseEditor \/ SaveLedger \/ CloseDelete \/ DeleteLedger \/ Leave \/ Return
  \/ \E k \in Slots : Serve(k) \/ Fail(k)
  \/ ListAnswer \/ LateListAnswer \/ SaveAnswer \/ DeleteAnswer

--------------------------------------------------------------------------------
\* The selector loads, saves or deletes while the exchange of that is under
\* way; only a deletion goes on after its dialog.
BusyIsPending ==
  /\ ui.here => (ui.loading <=> ui.http["list"] # None)
  /\ ui.saving <=> ui.http["save"] # None
  /\ ui.deletingBusy => ui.http["delete"] # None

\* A selector that waits for nothing lists the ledgers of the user, each
\* once and as it is, unless an answer was lost or a change and a list were
\* under way together.
SettledIsServers ==
  ui.here /\ ~ui.loadError /\ ~ui.raced /\ ~ui.lost /\ (\A k \in Slots : ui.http[k] = None)
    => Range(ui.ledgers) = server /\ IsInjective(ui.ledgers)
================================================================================
