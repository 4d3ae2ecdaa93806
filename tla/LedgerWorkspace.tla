----------------------------- MODULE LedgerWorkspace ---------------------------
(***************************************************************************)
(* The pages of a ledger under the router: the layout that loads the       *)
(* ledger, LedgerContextService, and one of the sections.                  *)
(*                                                                         *)
(* The sections share nothing but the ledger (each keeps a view state of   *)
(* its own for each ledger), so that the user of one behaviour visits one  *)
(* section and "elsewhere".  The router reuses the page when only the      *)
(* ledger of the URL changes, as with the browser's history.               *)
(***************************************************************************)
EXTENDS Naturals, Sequences, FiniteSets

CONSTANTS
  Sections,    \* the sections that are visited
  Ledgers, Periods, Invalid, FirstPeriod, Offers, CurrencyOf, AccountsOf,
  CategoriesOf, Forests, Top, Matching, MaxPages, MaxChanges, Texts, NoText, None

VARIABLES
  section,  \* the section that this behaviour visits
  route,    \* "home", "section" or "elsewhere" in the ledger
  ledger,   \* context.ledgerUuid
  known,    \* LedgerService.ledgers
  access,   \* context: "idle", "asked", "failed"
  page, saved

vars == <<section, route, ledger, known, access, page, saved>>
layout == <<section, route, ledger, known, access>>

Flows == INSTANCE FlowsPage
Home == INSTANCE HomePage
Activity == INSTANCE ActivityPage WITH Periods <- {FirstPeriod, Invalid}
Budgets == INSTANCE BudgetsPage
Categories == INSTANCE CategoriesPage WITH MaxChanges <- 2
Entities == INSTANCE EntityPage WITH MaxChanges <- 2

\* None stands for no page, no exchange and no value: it is none of those.
ASSUME NoneAssumption ==
  /\ None \notin Ledgers \cup Texts \cup Categories!Categories
  /\ None \notin Flows!Pages \cup Flows!Views \cup Flows!Queries \cup Flows!Resources
  /\ None \notin Home!Pages \cup Home!Views \cup Home!Scopes \cup Home!Queries \cup Home!Resources
  /\ None \notin Activity!Pages \cup Activity!Filters \cup Activity!Queries \cup Activity!Lists \cup Activity!Further
  /\ None \notin Budgets!Pages \cup Budgets!Views \cup Budgets!Lists
  /\ None \notin Categories!Pages \cup Categories!Views \cup Categories!Loaded \cup Categories!Requests
  /\ None \notin Entities!Pages \cup Entities!Lists \cup Entities!Requests

ASSUME WorkspaceAssumption ==
  /\ Sections \subseteq {"flows", "home", "activity", "budgets", "categories", "entities"}
  /\ FirstPeriod \in Periods /\ NoText \in Texts
  /\ \A l \in Ledgers : \A o \in Offers[l] : o.currencies \in Seq(Flows!Currencies)
  /\ Top \notin Categories!Categories
  /\ MaxPages \in Nat /\ MaxPages >= 2 /\ MaxChanges \in Nat

\* The types of the layout and of the section at hand.
TypeOK ==
  /\ section \in Sections
  /\ route \in {"home", "section", "elsewhere"}
  /\ ledger \in Ledgers \cup {None}
  /\ known \subseteq Ledgers
  /\ access \in {"idle", "asked", "failed"}
  /\ section = "flows" => Flows!TypeOK
  /\ section = "home" => Home!TypeOK
  /\ section = "activity" => Activity!TypeOK
  /\ section = "budgets" => Budgets!TypeOK
  /\ section = "categories" => Categories!TypeOK
  /\ section = "entities" => Entities!TypeOK

Init ==
  /\ section \in Sections
  /\ route = "home" /\ ledger = None /\ access = "idle"
  /\ known \in {{}, Ledgers}
  /\ CASE section = "flows" -> Flows!Init
       [] section = "home" -> Home!Init
       [] section = "activity" -> Activity!Init
       [] section = "budgets" -> Budgets!Init
       [] section = "categories" -> Categories!Init
       [] section = "entities" -> Entities!Init

--------------------------------------------------------------------------------
Opened(l) ==
  CASE section = "flows" -> Flows!Opened(l)
    [] section = "home" -> Home!Opened(l)
    [] section = "activity" -> Activity!Opened(l)
    [] section = "budgets" -> Budgets!Opened(l)
    [] section = "categories" -> Categories!Opened(l)
    [] section = "entities" -> Entities!Opened(l)

\* The page at hand gets ledger l.
Switched(l) ==
  CASE section = "activity" -> Activity!Switched(l)
    [] section = "budgets" -> Budgets!Switched(l)
    [] section = "entities" -> Entities!Switched(l)
    [] OTHER -> Opened(l)

\* The layout shows its outlet: the page exists.
Outlet(l, acc, kn) == acc # "failed" /\ (acc = "asked" => l \in kn)

\* context.load, and the page of the section at ledger l.
Enter(to, l) ==
  /\ route' = to /\ ledger' = l /\ access' = "asked"
  /\ page' = IF to # "section" \/ l \notin known THEN None
             ELSE IF page = None THEN Opened(l) ELSE Switched(l)
  /\ UNCHANGED <<section, known, saved>>

\* A ledger is opened from the selector, a bookmark or the history.
Go(to, l) == (route = "home" \/ l # ledger) /\ Enter(to, l)

\* Another section of the same ledger: the layout and the context stay.
Turn(to) ==
  /\ route # "home" /\ route # to /\ route' = to
  /\ page' = IF to = "section" /\ Outlet(ledger, access, known) THEN Opened(ledger) ELSE None
  /\ UNCHANGED <<section, ledger, known, access, saved>>

LeaveLedger ==
  /\ route # "home" /\ route' = "home" /\ page' = None
  /\ UNCHANGED <<section, ledger, known, access, saved>>

AccessAnswer ==
  /\ access = "asked" /\ access' = "idle"
  /\ known' = known \cup {ledger}
  /\ page' = IF page = None /\ route = "section" THEN Opened(ledger) ELSE page
  /\ UNCHANGED <<section, route, ledger, saved>>

AccessFail ==
  /\ access = "asked" /\ access' = "failed"
  /\ page' = None
  /\ UNCHANGED <<section, route, ledger, known, saved>>

Next ==
  \/ \E to \in {"section", "elsewhere"} : Turn(to) \/ \E l \in Ledgers : Go(to, l)
  \/ LeaveLedger \/ AccessAnswer \/ AccessFail
  \/ /\ \/ section = "flows" /\ Flows!Next
        \/ section = "home" /\ Home!Next
        \/ section = "activity" /\ Activity!Next
        \/ section = "budgets" /\ Budgets!Next
        \/ section = "categories" /\ Categories!Next
        \/ section = "entities" /\ Entities!Next
     /\ UNCHANGED <<section, route, known, access>>

Spec == Init /\ [][Next]_vars

--------------------------------------------------------------------------------
\* What a section shows, once nothing is under way and no error is shown, is
\* what its filters and its ledger ask for: no answer to an earlier filter,
\* period or ledger is left on the screen (the pages unsubscribe from it).
ShowsWhatIsAsked ==
  /\ section = "flows" => Flows!ShowsWhatIsAsked
  /\ section = "home" => Home!ShowsWhatIsAsked
  /\ section = "activity" => Activity!ShowsWhatIsAsked
  /\ section = "budgets" => Budgets!ShowsWhatIsAsked
  /\ section = "categories" => Categories!ShowsWhatIsAsked
  /\ section = "entities" => Entities!ShowsWhatIsAsked
\* A section says that it loads, saves or deletes only while an exchange is
\* under way that will end that: a request that is given up for another one
\* leaves no spinner behind, and no button disabled.
SpinnerIsPending ==
  /\ section = "flows" => Flows!SpinnerIsPending
  /\ section = "home" => Home!SpinnerIsPending
  /\ section = "activity" => Activity!SpinnerIsPending
  /\ section = "budgets" => Budgets!SpinnerIsPending
  /\ section = "categories" => Categories!SpinnerIsPending
  /\ section = "entities" => Entities!SpinnerIsPending
\* The view state that LedgerWorkspaceStateService keeps for a ledger is the
\* one on its screen, through changes of ledger, section and answers.
SavedIsShown ==
  /\ section = "flows" => Flows!SavedIsShown
  /\ section = "home" => Home!SavedIsShown
  /\ section = "activity" => Activity!SavedIsShown
  /\ section = "budgets" => Budgets!SavedIsShown
  /\ section = "categories" => Categories!SavedIsShown
  /\ section = "entities" => Entities!SavedIsShown
\* A list that a section shows was asked for after the last change that the
\* user made in it: a list that was under way is given up for a newer one.
ChangesAreSeen ==
  /\ section = "activity" => Activity!ChangesAreSeen
  /\ section = "budgets" => Budgets!ChangesAreSeen
  /\ section = "categories" => Categories!ChangesAreSeen
  /\ section = "entities" => Entities!ChangesAreSeen
\* A category that is dragged is never asked to move under itself, whatever
\* tree arrives between the start of the drag and the drop.
MovesKeepTheTree == [][section = "categories" => Categories!KeepsTheTree]_vars

\* README: "Multiple independent ledgers".  No budgets of a ledger are on the
\* screen of another one.
LedgersIndependent == section = "budgets" => Budgets!LedgersIndependent
================================================================================
