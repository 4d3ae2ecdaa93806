------------------------------- MODULE BudgetsPage -----------------------------
(***************************************************************************)
(* The page with the budgets of a ledger: filters that take effect at      *)
(* once, a search whose text waits 200 ms, a list that grows page by page, *)
(* the editor of a budget and the dialog that deletes one.  Conventions as *)
(* in FlowsPage and ActivityPage.                                          *)
(*                                                                         *)
(* The filter is a category or None; to choose it stands for choosing the  *)
(* states that are shown, too.  To open the editor and to save or delete   *)
(* from it is one step.                                                    *)
(* Left out: the cards' texts.  outlived is history: a list that was asked  *)
(* for under another ledger, or before the last change of it, may come.    *)
(***************************************************************************)
EXTENDS Naturals

CONSTANTS
  Ledgers,
  CategoriesOf,  \* the categories of each ledger
  MaxPages,      \* bound: pages of a list
  MaxChanges,    \* bound: creations, updates and deletions while the page is open
  Texts,         \* the texts to search for
  NoText,        \* the empty one
  None

VARIABLES ledger, page, saved

vars == <<ledger, page, saved>>

Open == page # None
Categories == UNION {CategoriesOf[l] : l \in Ledgers}
Filters == Categories \cup {None}
Queries == [ledger: Ledgers, filter: Filters, search: Texts]
Lists == [query: Queries, pages: 1..MaxPages, fresh: 0..MaxChanges]

Views == [filter: Filters, search: Texts]
Pages ==
  [filter: Filters, search: Texts, box: Texts, typed: Texts \cup {None}, lastTyped: Texts \cup {None},
   resources: Ledgers \cup {None}, resourcesRequest: Ledgers \cup {None}, resourcesLoading: BOOLEAN,
   items: Lists \cup {None}, nextCursor: BOOLEAN, overviewRequest: Lists \cup {None},
   loading: BOOLEAN, loadingMore: BOOLEAN, error: BOOLEAN, editor: {"closed", "saving"},
   deleting: Ledgers \cup {None}, deletingBusy: BOOLEAN, deleteRequest: Ledgers \cup {None},
   changes: 0..MaxChanges, outlived: BOOLEAN]

TypeOK == page \in Pages \cup {None} /\ saved \in [Ledgers -> Views \cup {None}]

Init == page = None /\ saved = [l \in Ledgers |-> None]

--------------------------------------------------------------------------------
(* The handlers.                                                           *)

FirstView == [filter |-> None, search |-> NoText]
Restored(l) == IF saved[l] = None THEN FirstView ELSE saved[l]
Query(p) == [ledger |-> ledger, filter |-> p.filter, search |-> p.search]

LoadWorkspace(p, l) == [p EXCEPT !.resourcesRequest = l, !.resourcesLoading = TRUE, !.error = FALSE]

Opened(l) ==
  LoadWorkspace(
    [filter |-> Restored(l).filter, search |-> Restored(l).search, box |-> Restored(l).search,
     typed |-> None, lastTyped |-> None,
     resources |-> None, resourcesRequest |-> None, resourcesLoading |-> FALSE,
     items |-> None, nextCursor |-> FALSE, overviewRequest |-> None, loading |-> FALSE, loadingMore |-> FALSE,
     error |-> FALSE, editor |-> "closed", deleting |-> None, deletingBusy |-> FALSE, deleteRequest |-> None,
     changes |-> 0, outlived |-> FALSE], l)

\* Another ledger: the list's exchange, the text that waits and the dialog
\* of a deletion outlive the one before.  The box shows a search that differs.
Switched(l) ==
  LoadWorkspace([page EXCEPT !.filter = Restored(l).filter, !.search = Restored(l).search,
                             !.box = IF Restored(l).search = page.search THEN @ ELSE Restored(l).search,
                             !.items = None, !.nextCursor = FALSE, !.editor = "closed",
                             !.outlived = @ \/ page.overviewRequest # None], l)

\* The exchange of a further page is not given up for the list.
LoadBesideMore(p) ==
  IF p.resourcesLoading \/ p.loadingMore THEN p
  ELSE [p EXCEPT !.loading = TRUE, !.items = None, !.nextCursor = FALSE, !.error = FALSE,
                 !.outlived = FALSE, !.overviewRequest = [query |-> Query(p), pages |-> 1, fresh |-> p.changes]]

\* load(true): not while the resources load, whose answer loads anyway.
Load(p) ==
  IF p.resourcesLoading THEN p
  ELSE [p EXCEPT !.loading = TRUE, !.loadingMore = FALSE, !.items = None, !.nextCursor = FALSE, !.error = FALSE,
                 !.outlived = FALSE, !.overviewRequest = [query |-> Query(p), pages |-> 1, fresh |-> p.changes]]

Become(p) == page' = p /\ UNCHANGED <<ledger, saved>>

\* saveViewState(text)
Save(p, text) ==
  /\ page' = p
  /\ saved' = [saved EXCEPT ![ledger] = [filter |-> p.filter, search |-> text]]
  /\ UNCHANGED ledger

Free == Open /\ page.editor = "closed" /\ page.deleting = None
ListShown == page.items # None /\ ~page.resourcesLoading /\ ~page.loading
CanCreate == page.resources # None /\ CategoriesOf[page.resources] # {} /\ ~page.resourcesLoading /\ ~page.error

--------------------------------------------------------------------------------
(* The user.                                                               *)

UpdateSearch(text) ==
  /\ Free /\ text # page.box
  /\ Save([page EXCEPT !.box = text, !.typed = text], text)

\* updateStates, updateCategoryFilter
UpdateFilter(c) ==
  /\ Free /\ c # page.filter
  /\ c # None => page.resources # None /\ c \in CategoriesOf[page.resources]
  /\ LET p == [page EXCEPT !.filter = c] IN Save(Load(p), p.search)

Retry == Free /\ page.error /\ page.items = None /\ Become(LoadWorkspace(page, ledger))

\* load(false), when the end of the list scrolls into view.
LoadMore ==
  /\ Free /\ ListShown /\ page.nextCursor /\ ~page.loadingMore
  /\ Become([page EXCEPT !.loadingMore = TRUE, !.error = FALSE,
                         !.overviewRequest = [query |-> Query(page), pages |-> page.items.pages + 1,
                                              fresh |-> page.changes]])

\* Changes that are made or under way.
Begun == page.changes + (IF page.deleteRequest = None THEN 0 ELSE 1) + (IF page.editor = "saving" THEN 1 ELSE 0)

SaveBudget ==
  /\ Free /\ (CanCreate \/ ListShown) /\ Begun < MaxChanges
  /\ Become([page EXCEPT !.editor = "saving"])

RequestDelete ==
  /\ Free /\ ListShown
  /\ Become([page EXCEPT !.deleting = page.items.query.ledger])

CloseDelete ==
  /\ Open /\ page.deleting # None /\ ~page.deletingBusy
  /\ Become([page EXCEPT !.deleting = None])

Remove ==
  /\ Open /\ page.deleting # None /\ ~page.deletingBusy /\ Begun < MaxChanges
  /\ Become([page EXCEPT !.deletingBusy = TRUE, !.deleteRequest = ledger])

(* The timer and the server.                                               *)

\* debounceTime, then distinctUntilChanged.
SearchDue ==
  /\ Open /\ page.typed # None
  /\ IF page.typed = page.lastTyped THEN Become([page EXCEPT !.typed = None])
     ELSE Save(Load([page EXCEPT !.search = page.typed, !.box = page.typed,
                                 !.lastTyped = page.typed, !.typed = None]), page.typed)

\* The categories that are listed may lack the one of the filter.
ResourcesAnswer(category) ==
  /\ Open /\ page.resourcesRequest # None
  /\ category \in {page.filter, None}
  /\ category # None => category \in CategoriesOf[page.resourcesRequest]
  /\ LET p == [page EXCEPT !.resources = page.resourcesRequest, !.resourcesRequest = None,
                           !.resourcesLoading = FALSE, !.filter = category]
     IN  Save(Load(p), p.search)

ResourcesFail ==
  /\ Open /\ page.resourcesRequest # None
  /\ Become([page EXCEPT !.resourcesRequest = None, !.resourcesLoading = FALSE, !.error = TRUE])

OverviewAnswer(more) ==
  /\ Open /\ page.overviewRequest # None
  /\ more => page.overviewRequest.pages < MaxPages
  /\ Become([page EXCEPT !.items = IF page.loading \/ @ = None THEN page.overviewRequest
                                   ELSE [@ EXCEPT !.pages = page.overviewRequest.pages],
                         !.overviewRequest = None, !.loading = FALSE, !.loadingMore = FALSE, !.nextCursor = more])

OverviewFail ==
  /\ Open /\ page.overviewRequest # None
  /\ Become([page EXCEPT !.overviewRequest = None, !.loading = FALSE, !.loadingMore = FALSE, !.error = TRUE])

Changed(p) == [p EXCEPT !.changes = @ + 1]

SaveAnswer(ok) ==
  /\ Open /\ page.editor = "saving"
  /\ Become(IF ok THEN Load(Changed([page EXCEPT !.editor = "closed"])) ELSE [page EXCEPT !.editor = "closed"])

DeleteAnswer(ok) ==
  /\ Open /\ page.deleteRequest # None
  /\ LET over == [page EXCEPT !.deleteRequest = None, !.deletingBusy = FALSE]
     IN  Become(IF ok THEN Load(Changed([over EXCEPT !.deleting = None, !.editor = "closed"])) ELSE over)

Next ==
  \/ \E t \in Texts : UpdateSearch(t)
  \/ \E c \in Filters : UpdateFilter(c) \/ ResourcesAnswer(c)
  \/ Retry \/ LoadMore
  \/ SaveBudget \/ RequestDelete \/ CloseDelete \/ Remove
  \/ SearchDue \/ ResourcesFail \/ OverviewFail
  \/ \E b \in BOOLEAN : OverviewAnswer(b) \/ SaveAnswer(b) \/ DeleteAnswer(b)

--------------------------------------------------------------------------------
Settled == Open /\ ~page.resourcesLoading /\ page.overviewRequest = None /\ ~page.error

\* The budgets on the screen, with all their pages, answer the filters and
\* the search in use, for the ledger on the screen, unless they answer what
\* was asked before the ledger changed: such an answer is taken when the
\* resources of the new ledger fail before it comes (LedgersIndependent).
ShowsWhatIsAsked ==
  Settled /\ ~page.outlived => page.items # None /\ page.items.query = Query(page)

\* No budgets are on the screen but those of its ledger.
LedgersIndependent == Open /\ ListShown => page.items.query.ledger = ledger

\* A spinner turns exactly while an answer is under way.
SpinnerIsPending ==
  Open => /\ page.resourcesLoading <=> page.resourcesRequest # None
          /\ page.loading \/ page.loadingMore <=> page.overviewRequest # None
          /\ ~(page.loading /\ page.loadingMore)
          /\ page.deletingBusy <=> page.deleteRequest # None

\* What is kept for the ledger are its filters and the search in the box or
\* in use: they differ while a text waits and when the same text is typed
\* again under another ledger, which distinctUntilChanged drops.
SavedIsShown ==
  Open /\ saved[ledger] # None =>
    saved[ledger].filter = page.filter /\ saved[ledger].search \in {page.box, page.search}

\* A list on the screen contains what the user of this page has changed.
ChangesAreSeen == Settled /\ ~page.outlived => page.items.fresh = page.changes
================================================================================
