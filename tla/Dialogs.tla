--------------------------------- MODULE Dialogs -------------------------------
(***************************************************************************)
(* The dialogs of the authenticated pages, the selector of ledgers, the    *)
(* page before a login and the controls of forms, one of them in a         *)
(* behaviour: what they share (the status of TOTP, the list of ledgers)    *)
(* each of them reads anew when it opens.                                  *)
(***************************************************************************)
EXTENDS Naturals, FiniteSets, Sequences

CONSTANTS
  Kinds,  \* the dialogs that are opened
  Secrets, Grants, MaxAccesses, Themes, Languages,
  Ledgers, Owned, Texts, NoText, Matching, MaxChanges,
  Accounts, Categories, Decimals, CurrencyOf, Instants, Labels, LocalTime, ParseTime,
  Typed, Quantities, MaxSafe, FirstEvents, MaxLines, MaxEdits, MaxEvents,
  Invitations, Names, RecoveryCodes, Passwords, MaxCounter, MaxRequests, CardSets,
  OptionsOf, SearchFor, NoSearch, Finds, Spaces, MaxHeight, LastYear, NotAYear,
  Letters, Unknown, Signs, CodeLength, GroupLength, MaxPaste, None

VARIABLES
  dialog,  \* the dialog of this behaviour
  ui, server

vars == <<dialog, ui, server>>

Security == INSTANCE SecurityDialog
Access == INSTANCE ExternalAccessDialog
Preferences == INSTANCE PreferencesDialog
Selector == INSTANCE LedgerSelector
Event == INSTANCE EventEditor
Landing == INSTANCE AuthLanding
List == INSTANCE SelectList
Month == INSTANCE MonthSelect
Code == INSTANCE CodeInput

\* The dialogs and controls that this module has.
ASSUME KindsAssumption ==
  Kinds \subseteq {"security", "access", "preferences", "selector", "event", "landing", "list", "month", "code"}

\* Nothing, null or undefined in the code, is no value of the data.
ASSUME NoneAssumption ==
  /\ None \notin Security!Asked(Security!Snapshots \cup Secrets \cup {None}) \cup Security!Snapshots \cup Secrets
  /\ None \notin Access!Asked((SUBSET Grants) \cup Grants \cup {None}) \cup Grants
  /\ None \notin Preferences!Asked \cup Preferences!Prefs
  /\ None \notin Selector!Asked \cup Selector!Rows
  /\ \A k \in Landing!Cards : None \notin Landing!Asked(k)
  /\ None \notin Nat \cup [minor: Nat, places: Nat]
  /\ \A D, E \in SUBSET Event!Numbers : None \notin [D -> Event!Movement] \cup Event!Asked(D, E)
  /\ None \notin Landing!Told \cup Invitations \cup RecoveryCodes

\* The user owns some ledgers at first, and the search is empty.
ASSUME SelectorAssumption ==
  /\ Owned \subseteq Ledgers /\ IsFiniteSet(Owned)
  /\ NoText \in Texts /\ MaxChanges \in Nat

ASSUME LandingAssumption ==
  MaxCounter \in Nat /\ MaxRequests \in Nat /\ CardSets \subseteq SUBSET Landing!Cards

\* No control lists an option twice, and there are two languages.
ASSUME ListAssumption ==
  /\ List!Controls \subseteq {"entity", "parent", "language", "states"}
  /\ \A c \in List!Controls :
       /\ OptionsOf[c] \in Seq(List!AllOptions)
       /\ \A i, j \in DOMAIN OptionsOf[c] : OptionsOf[c][i] = OptionsOf[c][j] => i = j
  /\ "language" \in List!Controls => Len(OptionsOf["language"]) = 2
  /\ Spaces \subseteq Nat /\ MaxHeight \in Nat

\* Currencies have up to 20 decimals, and powers of ten are positive integers.
ASSUME DecimalsAssumption ==
  \A a \in Event!AllAccounts : Event!Places(a) \in 0..20 /\ \A k \in 0..Event!Places(a) : 10^k \in Nat \ {0}

\* There are a source and a destination to begin with, and a local time that
\* is parsed reads as one that is parsed as the same instant.
ASSUME EventAssumption ==
  /\ Accounts \in Seq(Event!AllAccounts) /\ Len(Accounts) >= 2
  /\ Categories \in Seq(Event!AllCategories) /\ Len(Categories) >= 1
  /\ LocalTime \in [Instants -> Labels] /\ ParseTime \in [Labels -> Instants \cup {None}]
  /\ \A l \in Labels : ParseTime[l] # None => ParseTime[LocalTime[ParseTime[l]]] = ParseTime[l]
  /\ 1 \in Quantities /\ Typed \subseteq Nat /\ MaxSafe \in Nat
  /\ MaxLines \in Nat /\ MaxLines >= 2 /\ MaxEdits \in Nat /\ MaxEvents \in Nat \ {0}
  /\ \A e \in FirstEvents : Event!IsEvent(e) /\ Event!Valid(e) /\ e.api

\* A code is of whole groups, and no letter is the hyphen between them.
ASSUME CodeAssumption ==
  /\ CodeLength \in Nat \ {0} /\ GroupLength \in Nat \ {0} /\ CodeLength % GroupLength = 0
  /\ Code!Hyphen \notin Code!Alphanumeric /\ MaxPaste \in Nat

\* The calendar has a first year (9999 in the code).
ASSUME LastYearAssumption == LastYear \in Nat \ {0}

\* The types of the dialog at hand and of what the server keeps for it.
TypeOK ==
  CASE dialog = "security" -> Security!TypeOK
    [] dialog = "access" -> Access!TypeOK
    [] dialog = "preferences" -> Preferences!TypeOK
    [] dialog = "selector" -> Selector!TypeOK
    [] dialog = "event" -> Event!TypeOK
    [] dialog = "landing" -> Landing!TypeOK
    [] dialog = "list" -> List!TypeOK
    [] dialog = "month" -> Month!TypeOK
    [] dialog = "code" -> Code!TypeOK

Init ==
  /\ dialog \in Kinds
  /\ CASE dialog = "security" -> Security!Init
       [] dialog = "access" -> Access!Init
       [] dialog = "preferences" -> Preferences!Init
       [] dialog = "selector" -> Selector!Init
       [] dialog = "event" -> Event!Init
       [] dialog = "landing" -> Landing!Init
       [] dialog = "list" -> List!Init
       [] dialog = "month" -> Month!Init
       [] dialog = "code" -> Code!Init

Next ==
  /\ \/ dialog = "security" /\ Security!Next
     \/ dialog = "access" /\ Access!Next
     \/ dialog = "preferences" /\ Preferences!Next
     \/ dialog = "selector" /\ Selector!Next
     \/ dialog = "event" /\ Event!Next
     \/ dialog = "landing" /\ Landing!Next
     \/ dialog = "list" /\ List!Next
     \/ dialog = "month" /\ Month!Next
     \/ dialog = "code" /\ Code!Next
  /\ UNCHANGED dialog

Spec == Init /\ [][Next]_vars

--------------------------------------------------------------------------------
\* A dialog says that it loads, saves or deletes while the exchange of that
\* is under way, and so it can be closed again: resets, closings and answers
\* that come late leave no flag behind.
BusyIsPending ==
  CASE dialog = "access" -> Access!BusyIsPending
    [] dialog = "preferences" -> Preferences!BusyIsPending
    [] dialog = "selector" -> Selector!BusyIsPending
    [] dialog = "event" -> Event!BusyIsPending
    [] dialog = "landing" -> Landing!BusyIsPending
    [] dialog = "list" -> List!BusyIsPending
    [] OTHER -> TRUE

\* A secret of TOTP or the token of an access is held only where the user
\* sees it (the specs of the dialogs: "clears transient setup state before
\* closing", "keeps the created plaintext token only in the dialog state and
\* clears it when leaving the created view"), and its picture is its own.
SecretsStayInView ==
  /\ dialog = "security" => Security!SecretsStayInView
  /\ dialog = "access" => Access!SecretsStayInView

\* What a dialog shows once it waits for nothing is what the server has, and
\* a closed dialog leaves nothing of its preview, whatever the order in which
\* answers came or failed.
SettledIsServers ==
  CASE dialog = "security" -> Security!SettledIsServers
    [] dialog = "access" -> Access!SettledIsServers
    [] dialog = "preferences" -> Preferences!SettledIsServers
    [] dialog = "selector" -> Selector!SettledIsServers
    [] dialog = "event" -> Event!SettledIsServers
    [] dialog = "landing" -> Landing!SettledIsServers
    [] dialog = "list" -> List!SettledIsServers
    [] dialog = "month" -> Month!SettledIsServers
    [] dialog = "code" -> Code!SettledIsServers
================================================================================
