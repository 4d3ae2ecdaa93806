-------------------------------- MODULE HomePage -------------------------------
(***************************************************************************)
(* The first page of a ledger: the figures of a period (the dashboard) and *)
(* a chart of its cash flow, each with an exchange and an effect of its    *)
(* own, over one error that they share.  Conventions as in FlowsPage.      *)
(*                                                                         *)
(* Left out: how many rows the cards have room for, amounts and labels.    *)
(***************************************************************************)
EXTENDS Naturals, Sequences, FiniteSets

CONSTANTS
  Ledgers, Periods, Invalid, FirstPeriod,
  Offers,      \* for each ledger, the lists of currencies and accounts it may have
  CurrencyOf,  \* the currency of each account
  None

VARIABLES ledger, page, saved

vars == <<ledger, page, saved>>

Open == page # None
Members(list) == {list[i] : i \in DOMAIN list}
Currencies == UNION {Members(o.currencies) : o \in UNION {Offers[l] : l \in Ledgers}}
Modes == {"instant", "cumulative"}
Scopes == [ledger: Ledgers, currency: Currencies, period: Periods \ {Invalid}]
Queries == [scope: Scopes, account: DOMAIN CurrencyOf \cup {None}]

Accounts == DOMAIN CurrencyOf \cup {None}
Resources == UNION {[ledger: {l}, offer: Offers[l]] : l \in Ledgers}
Views == [currency: Currencies \cup {None}, account: Accounts, period: Periods, mode: Modes]
Pages ==
  [currency: Currencies \cup {None}, account: Accounts, period: Periods, mode: Modes,
   resources: Resources \cup {None}, ready: BOOLEAN,
   resourcesRequest: Ledgers \cup {None}, resourcesLoading: BOOLEAN,
   figures: Scopes \cup {None}, dashboardScope: Scopes \cup {None},
   dashboardRequest: Scopes \cup {None}, loading: BOOLEAN,
   chart: Queries \cup {None}, chartRequest: Queries \cup {None}, flowLoading: BOOLEAN,
   error: BOOLEAN, dirty: SUBSET {"dashboard", "chart"}]

TypeOK == page \in Pages \cup {None} /\ saved \in [Ledgers -> Views \cup {None}]

Init == page = None /\ saved = [l \in Ledgers |-> None]

--------------------------------------------------------------------------------
(* The handlers.                                                           *)

Scope(p) == [ledger |-> ledger, currency |-> p.currency, period |-> p.period]
Query(p) == [scope |-> Scope(p), account |-> p.account]
ViewState(p) == [currency |-> p.currency, account |-> p.account, period |-> p.period, mode |-> p.mode]
Ranged(p) == p.currency # None /\ p.period # Invalid

Reset(l) ==
  LET first == [currency |-> None, account |-> None, period |-> FirstPeriod, mode |-> "instant"]
      s == IF saved[l] = None THEN first ELSE saved[l]
  IN  [currency |-> s.currency, account |-> s.account, period |-> s.period, mode |-> s.mode,
       resources |-> None, ready |-> FALSE, resourcesRequest |-> None, resourcesLoading |-> FALSE,
       figures |-> None, dashboardScope |-> None, dashboardRequest |-> None, loading |-> FALSE,
       chart |-> None, chartRequest |-> None, flowLoading |-> FALSE,
       error |-> FALSE, dirty |-> {}]

LoadResources(p, l) ==
  [p EXCEPT !.dashboardRequest = None, !.chartRequest = None, !.loading = FALSE, !.flowLoading = FALSE,
            !.ready = FALSE, !.resourcesLoading = TRUE, !.error = FALSE, !.resourcesRequest = l]

\* Another scope empties the cards; the same one keeps them while it loads.
LoadDashboard(p) ==
  [p EXCEPT !.figures = IF p.dashboardScope = Scope(p) THEN @ ELSE None, !.dashboardScope = Scope(p),
            !.dashboardRequest = Scope(p), !.loading = TRUE, !.error = FALSE]

LoadChart(p) ==
  [p EXCEPT !.chart = None, !.chartRequest = Query(p), !.flowLoading = TRUE, !.error = FALSE]

DashboardEffect(p) ==
  IF ~p.ready \/ "dashboard" \notin p.dirty THEN p
  ELSE IF Ranged(p) THEN LoadDashboard(p)
  ELSE [p EXCEPT !.figures = None, !.dashboardScope = None, !.dashboardRequest = None, !.loading = FALSE]

ChartEffect(p) ==
  IF ~p.ready \/ "chart" \notin p.dirty THEN p
  ELSE IF Ranged(p) THEN LoadChart(p)
  ELSE [p EXCEPT !.chart = None, !.chartRequest = None, !.flowLoading = FALSE]

Opened(l) == LoadResources(Reset(l), l)

Save(p) ==
  /\ page' = p
  /\ saved' = [saved EXCEPT ![ledger] = ViewState(p)]
  /\ UNCHANGED ledger

Become(p) == page' = p /\ UNCHANGED <<ledger, saved>>

Both == {"dashboard", "chart"}

Select(p, c, accounts) ==
  [p EXCEPT !.currency = c, !.dirty = Both,
            !.account = IF @ \in accounts /\ CurrencyOf[@] = c THEN @ ELSE None]

--------------------------------------------------------------------------------
(* The user.                                                               *)

SelectCurrency(c) ==
  /\ Open /\ ~page.resourcesLoading /\ page.resources # None
  /\ c \in Members(page.resources.offer.currencies) \ {page.currency}
  /\ Save(Select(page, c, page.resources.offer.accounts))

\* The cards are shown: no error, no spinner instead of them, a period.
CardsShown ==
  /\ ~page.error /\ ~page.resourcesLoading /\ page.resources # None /\ Ranged(page)
  /\ page.loading => page.figures # None

SelectFlowAccount(a) ==
  /\ Open /\ CardsShown /\ a # page.account
  /\ a # None => a \in page.resources.offer.accounts /\ CurrencyOf[a] = page.currency
  /\ Save([page EXCEPT !.account = a, !.dirty = @ \cup {"chart"}])

SelectPeriod(t) ==
  /\ Open /\ t # page.period
  /\ Save([page EXCEPT !.period = t, !.dirty = Both])

SetFlowMode(m) == Open /\ CardsShown /\ m # page.mode /\ Save([page EXCEPT !.mode = m])

Retry == Open /\ page.error /\ Become([LoadResources(page, ledger) EXCEPT !.dirty = Both])

(* The scheduler and the server.                                           *)

Effects ==
  /\ Open /\ page.dirty # {}
  /\ Become([ChartEffect(DashboardEffect(page)) EXCEPT !.dirty = {}])

ResourcesAnswer(offer) ==
  /\ Open /\ page.resourcesRequest # None
  /\ offer \in Offers[page.resourcesRequest]
  /\ LET listed == offer.currencies
         c == IF page.currency \in Members(listed) THEN page.currency
              ELSE IF listed = <<>> THEN None ELSE Head(listed)
     IN  Save([Select(page, c, offer.accounts) EXCEPT
                 !.resources = [ledger |-> page.resourcesRequest, offer |-> offer],
                 !.resourcesRequest = None, !.resourcesLoading = FALSE, !.ready = TRUE])

ResourcesFail ==
  /\ Open /\ page.resourcesRequest # None
  /\ Become([page EXCEPT !.resourcesRequest = None, !.resourcesLoading = FALSE, !.error = TRUE])

DashboardAnswer(ok) ==
  /\ Open /\ page.dashboardRequest # None
  /\ Become([page EXCEPT !.figures = IF ok THEN page.dashboardRequest ELSE @,
                         !.dashboardRequest = None, !.loading = FALSE, !.error = @ \/ ~ok])

ChartAnswer(ok) ==
  /\ Open /\ page.chartRequest # None
  /\ Become([page EXCEPT !.chart = IF ok THEN page.chartRequest ELSE @,
                         !.chartRequest = None, !.flowLoading = FALSE, !.error = @ \/ ~ok])

Next ==
  \/ \E c \in Currencies : SelectCurrency(c)
  \/ \E a \in DOMAIN CurrencyOf \cup {None} : SelectFlowAccount(a)
  \/ \E t \in Periods : SelectPeriod(t)
  \/ \E m \in Modes : SetFlowMode(m)
  \/ Retry \/ Effects
  \/ \E o \in UNION {Offers[l] : l \in Ledgers} : ResourcesAnswer(o)
  \/ ResourcesFail
  \/ \E ok \in BOOLEAN : DashboardAnswer(ok) \/ ChartAnswer(ok)

--------------------------------------------------------------------------------
\* The figures and the chart answer the selection above them, each its own
\* part of it, and a page without an error shows them or waits for them.
ShowsWhatIsAsked ==
  Open /\ page.ready /\ page.dirty = {} =>
    /\ page.resources.ledger = ledger
    /\ page.figures \in {None, Scope(page)}
    /\ page.chart \in {None, Query(page)}
    /\ Ranged(page) /\ ~page.error =>
         /\ Scope(page) \in {page.figures, page.dashboardRequest}
         /\ Query(page) \in {page.chart, page.chartRequest}

\* A spinner turns exactly while an answer is under way.
SpinnerIsPending ==
  Open => /\ page.resourcesLoading <=> page.resourcesRequest # None
          /\ page.loading <=> page.dashboardRequest # None
          /\ page.flowLoading <=> page.chartRequest # None

\* What the page keeps for a ledger, to restore it, is what it shows.
SavedIsShown == Open /\ saved[ledger] # None => saved[ledger] = ViewState(page)
================================================================================
