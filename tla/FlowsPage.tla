-------------------------------- MODULE FlowsPage ------------------------------
(***************************************************************************)
(* The page with the cash-flow diagram of a ledger.                        *)
(*                                                                         *)
(* A page is a record of its signals and of the HTTP exchanges that it     *)
(* waits for; None is a page that is not open or an exchange that is not   *)
(* under way.  Handlers are operators on that record.  Angular runs the    *)
(* effect that a changed signal triggers some time later: dirty is an      *)
(* effect that has yet to run.                                             *)
(*                                                                         *)
(* The period stands for its mode, month or range and the level of detail; *)
(* Invalid is a range that gives no period.  An answer is the query that   *)
(* it answers.  Left out: amounts, labels and layout.                      *)
(***************************************************************************)
EXTENDS Naturals, Sequences, FiniteSets

CONSTANTS
  Ledgers,
  Periods,     \* the periods that the user selects, Invalid among them
  Invalid,
  FirstPeriod, \* the current month
  Offers,      \* for each ledger, the lists of currencies and accounts it may have
  CurrencyOf,  \* the currency of each account
  None

VARIABLES
  ledger,  \* context.ledgerUuid
  page,
  saved    \* LedgerWorkspaceStateService: the view state of each ledger

vars == <<ledger, page, saved>>

Open == page # None
Members(list) == {list[i] : i \in DOMAIN list}
Currencies == UNION {Members(o.currencies) : o \in UNION {Offers[l] : l \in Ledgers}}
Queries == [ledger: Ledgers, currency: Currencies, account: DOMAIN CurrencyOf \cup {None},
            period: Periods \ {Invalid}]

Accounts == DOMAIN CurrencyOf \cup {None}
Resources == UNION {[ledger: {l}, offer: Offers[l]] : l \in Ledgers}
Views == [currency: Currencies \cup {None}, account: Accounts, period: Periods]
Pages ==
  [currency: Currencies \cup {None}, account: Accounts, period: Periods,
   resources: Resources \cup {None}, ready: BOOLEAN,
   resourcesRequest: Ledgers \cup {None}, resourcesLoading: BOOLEAN,
   graph: Queries \cup {None}, graphRequest: Queries \cup {None}, loading: BOOLEAN,
   error: BOOLEAN, dirty: BOOLEAN]

TypeOK == page \in Pages \cup {None} /\ saved \in [Ledgers -> Views \cup {None}]

Init == page = None /\ saved = [l \in Ledgers |-> None]

--------------------------------------------------------------------------------
(* The handlers.                                                           *)

Query(p) == [ledger |-> ledger, currency |-> p.currency, account |-> p.account, period |-> p.period]
ViewState(p) == [currency |-> p.currency, account |-> p.account, period |-> p.period]
\* The ledger may have no currency.
RangedByPeriod(p) == p.period # Invalid
Ranged(p) == p.currency # None /\ p.period # Invalid

\* reset: what a page shows of ledger l before anything is loaded.
Reset(l) ==
  LET first == [currency |-> None, account |-> None, period |-> FirstPeriod]
      s == IF saved[l] = None THEN first ELSE saved[l]
  IN  [currency |-> s.currency, account |-> s.account, period |-> s.period,
       resources |-> None, ready |-> FALSE, resourcesRequest |-> None, resourcesLoading |-> FALSE,
       graph |-> None, graphRequest |-> None, loading |-> FALSE, error |-> FALSE, dirty |-> FALSE]

LoadResources(p, l) ==
  [p EXCEPT !.graphRequest = None, !.ready = FALSE, !.resourcesLoading = TRUE,
            !.loading = FALSE, !.error = FALSE, !.resourcesRequest = l]

\* The graph of the previous query stays while the next one loads.
LoadGraphOverOld(p) == [p EXCEPT !.loading = TRUE, !.error = FALSE, !.graphRequest = Query(p)]

LoadGraph(p) ==
  [p EXCEPT !.graph = None, !.loading = TRUE, !.error = FALSE, !.graphRequest = Query(p)]

\* The spinner of the exchange that is given up stays.
QueryEffectSpinning(p) ==
  IF ~p.ready THEN p
  ELSE IF Ranged(p) THEN LoadGraph(p)
  ELSE [p EXCEPT !.graphRequest = None, !.graph = None]

\* The effect that follows the selection and the resources.
QueryEffect(p) ==
  IF ~p.ready THEN p
  ELSE IF Ranged(p) THEN LoadGraph(p)
  ELSE [p EXCEPT !.graphRequest = None, !.graph = None, !.loading = FALSE]

\* The effect of the ledger, when the page is opened or gets another one;
\* the query effect runs after it and finds no resources.
Opened(l) == LoadResources(Reset(l), l)

Save(p) ==
  /\ page' = p
  /\ saved' = [saved EXCEPT ![ledger] = ViewState(p)]
  /\ UNCHANGED ledger

Become(p) == page' = p /\ UNCHANGED <<ledger, saved>>

\* Currency c with the account, if that has it.
Select(p, c, accounts) ==
  [p EXCEPT !.currency = c, !.dirty = TRUE,
            !.account = IF @ \in accounts /\ CurrencyOf[@] = c THEN @ ELSE None]

--------------------------------------------------------------------------------
(* The user.                                                               *)

SelectCurrency(c) ==
  /\ Open /\ ~page.resourcesLoading /\ page.resources # None
  /\ c \in Members(page.resources.offer.currencies) \ {page.currency}
  /\ Save(Select(page, c, page.resources.offer.accounts))

SelectAccount(a) ==
  /\ Open /\ ~page.resourcesLoading /\ page.resources # None /\ a # page.account
  /\ a # None => a \in page.resources.offer.accounts /\ CurrencyOf[a] = page.currency
  /\ Save([page EXCEPT !.account = a, !.dirty = TRUE])

SelectPeriod(t) ==
  /\ Open /\ t # page.period
  /\ Save([page EXCEPT !.period = t, !.dirty = TRUE])

Retry ==
  /\ Open /\ page.error
  /\ Become(IF ~page.ready THEN LoadResources(page, ledger)
            ELSE IF Ranged(page) THEN LoadGraph(page) ELSE page)

(* The scheduler and the server.                                           *)

Effects == Open /\ page.dirty /\ Become([QueryEffect(page) EXCEPT !.dirty = FALSE])

ResourcesAnswer(offer) ==
  /\ Open /\ page.resourcesRequest # None
  /\ offer \in Offers[page.resourcesRequest]
  /\ LET listed == offer.currencies
         c == IF page.currency \in Members(listed) THEN page.currency
              ELSE IF listed = <<>> THEN None ELSE Head(listed)
     IN  Save([Select(page, c, offer.accounts) EXCEPT
                 !.resources = [ledger |-> page.resourcesRequest, offer |-> offer],
                 !.resourcesRequest = None, !.resourcesLoading = FALSE, !.ready = TRUE])

ResourcesFail ==
  /\ Open /\ page.resourcesRequest # None
  /\ Become([page EXCEPT !.resourcesRequest = None, !.resourcesLoading = FALSE, !.error = TRUE])

GraphAnswer ==
  /\ Open /\ page.graphRequest # None
  /\ Become([page EXCEPT !.graph = page.graphRequest, !.graphRequest = None, !.loading = FALSE])

GraphFail ==
  /\ Open /\ page.graphRequest # None
  /\ Become([page EXCEPT !.graphRequest = None, !.loading = FALSE, !.error = TRUE])

Next ==
  \/ \E c \in Currencies : SelectCurrency(c)
  \/ \E a \in DOMAIN CurrencyOf \cup {None} : SelectAccount(a)
  \/ \E t \in Periods : SelectPeriod(t)
  \/ Retry \/ Effects
  \/ \E o \in UNION {Offers[l] : l \in Ledgers} : ResourcesAnswer(o)
  \/ ResourcesFail \/ GraphAnswer \/ GraphFail

--------------------------------------------------------------------------------
\* A diagram on the screen answers the selection beside it: once the effects
\* of a selection have run, no answer to an earlier one is shown, and a page
\* without an error shows its answer or waits for it.
ShowsWhatIsAsked ==
  Open /\ page.ready /\ ~page.dirty =>
    /\ page.resources.ledger = ledger
    /\ page.graph \in {None, Query(page)}
    /\ Ranged(page) /\ ~page.error =>
         IF page.graph = None THEN page.graphRequest = Query(page) ELSE page.graphRequest = None

\* A spinner turns exactly while an answer is under way.
SpinnerIsPending ==
  Open => /\ page.resourcesLoading <=> page.resourcesRequest # None
          /\ page.loading <=> page.graphRequest # None

\* What the page keeps for a ledger, to restore it, is what it shows.
SavedIsShown == Open /\ saved[ledger] # None => saved[ledger] = ViewState(page)
================================================================================
