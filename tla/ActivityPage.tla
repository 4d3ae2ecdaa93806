------------------------------ MODULE ActivityPage -----------------------------
(***************************************************************************)
(* The page that lists the financial events of a ledger: filters, which    *)
(* take effect when they are applied, a list that grows page by page, the  *)
(* balance and the cash flow of the filter's account, the editor of an     *)
(* event and the dialog that deletes one.  Conventions as in FlowsPage.    *)
(*                                                                         *)
(* The period of a filter stands for its dates, category and description.  *)
(* A list of events is the query it answers, the number of its pages and   *)
(* of the changes of this page that it is sure to contain.                 *)
(* Left out: the rows' texts, the month shown for the dates, the menu.     *)
(***************************************************************************)
EXTENDS Naturals

CONSTANTS
  Ledgers, Periods, Invalid, FirstPeriod,
  AccountsOf,  \* the accounts of each ledger
  MaxPages,    \* bound: pages of a list
  MaxChanges,  \* bound: creations, updates and deletions while the page is open
  None

VARIABLES ledger, page, saved

vars == <<ledger, page, saved>>

Open == page # None
Accounts == UNION {AccountsOf[l] : l \in Ledgers}
Filters == [period: Periods, account: Accounts \cup {None}]
Queries == [ledger: Ledgers, filter: Filters]
Lists == [query: Queries, pages: 1..MaxPages, fresh: 0..MaxChanges]

Further == [query: Queries, pages: 2..MaxPages]
Figures == [of: Queries \cup {None}, request: Queries \cup {None}, loading: BOOLEAN]
Pages ==
  [filter: Filters, applied: Queries \cup {None},
   resources: Ledgers \cup {None}, workspaceRequest: Ledgers \cup {None},
   loading: BOOLEAN, error: BOOLEAN, filterError: BOOLEAN,
   events: Lists \cup {None}, eventsRequest: Lists \cup {None}, nextCursor: BOOLEAN,
   moreRequest: Further \cup {None}, loadingMore: BOOLEAN,
   balance: Figures, summary: Figures, editor: {"closed", "open", "saving"},
   deleting: Ledgers \cup {None}, deletingBusy: BOOLEAN, deleteRequest: Ledgers \cup {None},
   changes: 0..MaxChanges]

TypeOK == page \in Pages \cup {None} /\ saved \in [Ledgers -> Filters \cup {None}]

Init == page = None /\ saved = [l \in Ledgers |-> None]

--------------------------------------------------------------------------------
(* The handlers.                                                           *)

Nothing == [of |-> None, request |-> None, loading |-> FALSE]
FirstFilter == [period |-> FirstPeriod, account |-> None]

Opened(l) ==
  [filter |-> IF saved[l] = None THEN FirstFilter ELSE saved[l], applied |-> None,
   resources |-> None, workspaceRequest |-> l, loading |-> TRUE, error |-> FALSE, filterError |-> FALSE,
   events |-> None, eventsRequest |-> None, nextCursor |-> FALSE, moreRequest |-> None, loadingMore |-> FALSE,
   balance |-> Nothing, summary |-> Nothing,
   editor |-> "closed", deleting |-> None, deletingBusy |-> FALSE, deleteRequest |-> None, changes |-> 0]

\* The ledger of the open page changes: a deletion under way goes on.
Switched(l) ==
  [Opened(l) EXCEPT !.deletingBusy = page.deletingBusy, !.deleteRequest = page.deleteRequest,
                    !.changes = page.changes]

Asked(q) == [of |-> None, request |-> q, loading |-> TRUE]
LoadAccountBalance(q) == IF q.filter.account = None THEN Nothing ELSE Asked(q)
LoadCashFlowSummary(p, q) ==
  IF p.resources # None /\ q.filter.account \in AccountsOf[p.resources] THEN Asked(q) ELSE Nothing

\* A filter without a period leaves everything, an exchange under way too.
LoadEvents(p) ==
  LET q == [ledger |-> ledger, filter |-> p.filter]
  IN  IF p.filter.period = Invalid THEN [p EXCEPT !.loading = FALSE, !.filterError = TRUE]
      ELSE [p EXCEPT
              !.moreRequest = None, !.loadingMore = FALSE, !.nextCursor = FALSE,
              !.loading = TRUE, !.error = FALSE, !.filterError = FALSE, !.applied = q,
              !.balance = LoadAccountBalance(q), !.summary = LoadCashFlowSummary(p, q),
              !.eventsRequest = [query |-> q, pages |-> 1, fresh |-> p.changes]]

Become(p) == page' = p /\ UNCHANGED <<ledger, saved>>

\* A change of the filters' form is saved at once.
SaveFilters(p) ==
  /\ page' = p
  /\ saved' = [saved EXCEPT ![ledger] = p.filter]
  /\ UNCHANGED ledger

Free == Open /\ page.editor = "closed" /\ page.deleting = None
ListShown == page.events # None /\ ~page.error /\ ~page.loading

--------------------------------------------------------------------------------
(* The user.                                                               *)

EditFilter(f) ==
  /\ Free /\ f # page.filter
  /\ f.account \in {None, page.filter.account} \cup (IF page.resources = None THEN {} ELSE AccountsOf[page.resources])
  /\ SaveFilters([page EXCEPT !.filter = f])

ApplyFilters == Free /\ Become(LoadEvents(page))

ClearFilters == Free /\ SaveFilters(LoadEvents([page EXCEPT !.filter = FirstFilter]))

\* The end of the list scrolls into view.
LoadMore ==
  /\ Free /\ ListShown /\ page.nextCursor /\ page.applied # None /\ ~page.loadingMore
  /\ Become([page EXCEPT !.loadingMore = TRUE,
                         !.moreRequest = [query |-> page.applied, pages |-> page.events.pages + 1]])

\* Changes that are made or under way.
Begun == page.changes + (IF page.deleteRequest = None THEN 0 ELSE 1) + (IF page.editor = "saving" THEN 1 ELSE 0)

CanCreate == page.resources # None /\ AccountsOf[page.resources] # {}
OpenEditor == Free /\ (CanCreate \/ ListShown) /\ Become([page EXCEPT !.editor = "open"])
CloseEditor == Open /\ page.editor = "open" /\ Become([page EXCEPT !.editor = "closed"])
SaveEvent ==
  /\ Open /\ page.editor = "open" /\ CanCreate /\ Begun < MaxChanges
  /\ Become([page EXCEPT !.editor = "saving"])

RequestDelete ==
  /\ Open /\ page.editor = "open" /\ page.events # None
  /\ Become([page EXCEPT !.editor = "closed", !.deleting = page.events.query.ledger])

CloseDelete ==
  /\ Open /\ page.deleting # None /\ ~page.deletingBusy
  /\ Become([page EXCEPT !.deleting = None])

Remove ==
  /\ Open /\ page.deleting # None /\ ~page.deletingBusy /\ Begun < MaxChanges
  /\ Become([page EXCEPT !.deletingBusy = TRUE, !.deleteRequest = ledger])

(* The server.                                                             *)

WorkspaceAnswer ==
  /\ Open /\ page.workspaceRequest # None
  /\ Become(LoadEvents([page EXCEPT !.resources = page.workspaceRequest, !.workspaceRequest = None]))

WorkspaceFail ==
  /\ Open /\ page.workspaceRequest # None
  /\ Become([page EXCEPT !.workspaceRequest = None, !.loading = FALSE, !.error = TRUE])

EventsAnswer(more) ==
  /\ Open /\ page.eventsRequest # None
  /\ Become([page EXCEPT !.events = page.eventsRequest, !.eventsRequest = None, !.loading = FALSE,
                         !.nextCursor = more])

EventsFail ==
  /\ Open /\ page.eventsRequest # None
  /\ Become([page EXCEPT !.eventsRequest = None, !.loading = FALSE, !.error = TRUE])

MoreAnswer(more) ==
  /\ Open /\ page.moreRequest # None
  /\ more => page.moreRequest.pages < MaxPages
  /\ Become([page EXCEPT !.events.pages = @ + 1, !.moreRequest = None, !.loadingMore = FALSE,
                         !.nextCursor = more])

MoreFail ==
  /\ Open /\ page.moreRequest # None
  /\ Become([page EXCEPT !.moreRequest = None, !.loadingMore = FALSE, !.error = TRUE])

BalanceAnswer(ok) ==
  /\ Open /\ page.balance.request # None
  /\ Become([page EXCEPT !.balance = [Nothing EXCEPT !.of = IF ok THEN page.balance.request ELSE None]])

SummaryAnswer(ok) ==
  /\ Open /\ page.summary.request # None
  /\ Become([page EXCEPT !.summary = [Nothing EXCEPT !.of = IF ok THEN page.summary.request ELSE None]])

Changed(p) == [p EXCEPT !.changes = @ + 1]

\* editorSaved closes the editor and loads again; an error keeps it open.
SaveAnswer(ok) ==
  /\ Open /\ page.editor = "saving"
  /\ Become(IF ok THEN LoadEvents(Changed([page EXCEPT !.editor = "closed"]))
            ELSE [page EXCEPT !.editor = "open"])

DeleteAnswer(ok) ==
  /\ Open /\ page.deleteRequest # None
  /\ LET over == [page EXCEPT !.deleteRequest = None, !.deletingBusy = FALSE]
     IN  Become(IF ok THEN LoadEvents(Changed([over EXCEPT !.deleting = None])) ELSE over)

Next ==
  \/ \E f \in Filters : EditFilter(f)
  \/ ApplyFilters \/ ClearFilters \/ LoadMore
  \/ OpenEditor \/ CloseEditor \/ SaveEvent \/ RequestDelete \/ CloseDelete \/ Remove
  \/ WorkspaceAnswer \/ WorkspaceFail \/ EventsFail \/ MoreFail
  \/ \E b \in BOOLEAN :
       EventsAnswer(b) \/ MoreAnswer(b) \/ BalanceAnswer(b) \/ SummaryAnswer(b) \/ SaveAnswer(b) \/ DeleteAnswer(b)

--------------------------------------------------------------------------------
Settled == Open /\ page.eventsRequest = None /\ ~page.error

\* The list, its further pages, the balance and the summary all answer the
\* filters that were applied last, which are of the ledger on the screen.
ShowsWhatIsAsked ==
  Open => /\ page.applied # None => page.applied.ledger = ledger
          /\ page.resources \in {None, ledger}
          /\ Settled => (IF page.events = None THEN page.applied = None ELSE page.events.query = page.applied)
          /\ page.moreRequest # None =>
               page.moreRequest.query = page.events.query /\ page.moreRequest.pages = page.events.pages + 1
          /\ {page.balance.of, page.balance.request, page.summary.of, page.summary.request}
               \subseteq {None, page.applied}

\* No spinner turns without an exchange that ends it.
SpinnerIsPending ==
  Open => /\ page.loading => page.workspaceRequest # None \/ page.eventsRequest # None
          /\ page.loadingMore <=> page.moreRequest # None
          /\ page.balance.loading <=> page.balance.request # None
          /\ page.summary.loading <=> page.summary.request # None
          /\ page.deletingBusy <=> page.deleteRequest # None

\* What the page keeps for a ledger, to restore it, is what it shows.
SavedIsShown == Open /\ saved[ledger] # None => saved[ledger] = page.filter

\* A list on the screen contains what the user of this page has saved or
\* deleted, unless the filters' period was refused when it was to be loaded.
ChangesAreSeen ==
  Settled /\ page.events # None /\ ~page.filterError => page.events.fresh = page.changes
================================================================================
