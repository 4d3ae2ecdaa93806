# Moedeiro in TLA+

Moedeiro keeps personal ledgers: a FastAPI server and a command line over one
SQLite *registry* (users, sessions, ledgers, grants) and one SQLite file per
*ledger* (accounts, categories, budgets, financial events), with an Angular
frontend. This directory holds TLA+ models of both, TLC runs that check them
on small instances, and TLAPS proofs of what matters most for instances of any
size. Paths are relative to the repository's root or, in the tables, to the
component's directory.

    tlc -config events.cfg MCFinancialEvents.tla      # one run
    tlapm FinancialEventsProofs.tla                   # one module of proofs

## 1. How the program runs

*Requests.* Synchronous handlers run in a thread pool (40 threads), credential
handlers in `CredentialOperationExecutor` (8 at a time, 2 password hashes at a
time). A handler calls one use case inside a unit of work (`SqliteLedgerUnitOfWork`,
`SqliteRegistryUnitOfWork`), which opens its own connection and commits or rolls
back when it is left. No lock of the program's own orders two requests.

*SQLite.* `SqliteDatabase.get_connection` leaves Python's default isolation: a
SELECT before the first INSERT, UPDATE or DELETE is a transaction of its own, with a
snapshot of its own; the first such statement takes the one writer lock, which is
held until commit, and everything after it, SELECTs included, sees a stable state. A
use case is therefore **a few separate reads and one atomic write**, and what it
checked may be stale when it writes. Foreign keys, UNIQUE indexes, CHECKs and
triggers are enforced at the write. Almost all that is hard in this code follows
from this, and every model is built on it: one action per read, one per write.

*Processes.* Each CLI command is a process of its own and, as the server does when it
starts, first runs `SqliteDatabases.initialize` over every ledger file it finds
(`cli.py:41`, `factory.py:44`). Row and file of a ledger are changed in separate
steps. Any process may be killed between two steps.

*The browser.* In a tab one handler at a time runs to its end: a click, a timer, an
answer. What makes the frontend hard is what happens between two handlers: the user
leaves, chooses something else or closes a dialog while an exchange is under way, and
its answer comes later, out of order, refused, or never; Angular runs an effect some
time after the signal that triggers it; the router keeps a page when only the ledger of
the URL changes. Tabs share cookies and `localStorage`. Every frontend model is built
on this: a page is a record of its signals and of the exchanges it waits for, an action
is one handler, and an answer is an action of its own.

## 2. Inventory

| Component | State | Operations | Hard behaviour | Correct when |
|---|---|---|---|---|
| Financial events (`use_cases/financial_event.py`, `repository/financial_event.py`, `financial_movement.py`) | `financial_event`, `financial_movement` | create, update, delete of TRANSACTION, SHOPPING_LIST, ACCOUNT_TRANSFER; reads by page | updates write from the movements read before the lock; accounts and categories go meanwhile; the limit is counted before the write | references exist; an event keeps the structure of its type; identity is stable; the limit is passed by few |
| Category tree (`use_cases/category.py`, `repository/category.py`) | `category.parent_uuid` | create, move, delete, get_tree | a walk over the ancestors one SELECT at a time, moves in between; cascades against RESTRICT | a forest, within depth and size, nothing dangling |
| Ledgers and grants (`use_cases/ledger.py`, registry `grant.py`, `external_access.py`, `user.py`, `cleanup.py`) | `user_account`, `external_access`, `ledger`, `ledger_grant` | create, delete, transfer, grant, revoke, cleanup; by owners, guests and the operator | all checks of ownership and limits are read before the write | one owner; an external access is a guest of one ledger; no dangling grant; history is kept |
| Ledger files and start (`sqlite/databases.py`, `database.py`, `cli.py`) | files in `LEDGER_DBS_DIR`, rows of `ledger` | create, open, delete, initialize, `user delete` | two stores without a common transaction; kills; a start that sees half-made files | a row has its file; data without a row goes away |
| Accounts, currencies, budgets | their tables | create, update, delete, with limits and unique names | the same count before the write | references exist; limits |
| Reports: balances, cash flow, budget usage, pages | none | pure functions and reads | two SELECTs without a transaction; pages while rows change; 64-bit sums | equal to a reference definition |
| Schema migrations (`sqlite/migration.py`) | schema version, backups | migrate registry and ledgers at start | killed half-way; two starts at once | no data lost; versions only grow |
| Sessions (`use_cases/authentication.py`) | `auth_session`, `remember_session` | login, refresh, logout, logout everywhere | two refreshes with one token; a password change between check and insert | a token rotates once; a changed password ends sessions |
| Passwords, recovery codes, TOTP, MFA | `user_account`, codes, secrets, counters | change, recover, set up, confirm, verify, disable | one code presented twice; setups that overlap | a code works once |
| Registration and invitations | `user_invitation` | invite, revoke, register | one invitation used twice, or revoked while used | one user per invitation |
| Credential executor, hash capacity | semaphores, threads | submit, cancel, finish | the slot is freed on cancellation while the thread still runs | capacity is bounded; slots come back |
| Frontend: sessions (`core/auth`) | `authenticated`, the refresh in flight, the cookies of the browser | log in, guards, call, refresh, retry, log out | many 401s at once, two tabs on one cookie, lost answers, a logout in between | one refresh at a time; a remembered browser stays logged in; nobody waits for ever |
| Frontend: layout and sections (`layouts/ledger-layout`, `features/ledgers/workspace`) | the ledger of the context, six pages with filters, lists, spinners, view states per ledger | open, filter, page, save, delete, drag, change of ledger or section | late answers of an earlier filter, period or ledger; effects; a debounced search; two requests over one error | what is shown is what was asked last; no spinner is left; a ledger's data stay under it |
| Frontend: dialogs and selector (`features/security`, `features/preferences`, `features/ledgers`) | forms, lists, secrets, previews | open, close, submit, expire, preview | closed or reset with an exchange under way; two exchanges that overlap | flags end; a secret is held where it is shown; what has settled is the server's |
| Frontend: editors | a form and a payload | open, edit, save | fields that the form hides; local times; amounts in the decimals of a currency | saving what was opened changes nothing |
| Frontend: landing (`features/auth`) | three cards | log in, register, recover | a code used by somebody else, a lost answer and its retry | a code works once, and the card says what is so |
| Frontend: form controls (`shared`) | open list, active option, caret | keys, pointer, typing, pasting | options replaced while a list is open; reformatting under the caret | Enter chooses what is marked; the caret stays |
| Rate limiter, HTTP API, settings, presentation | little or none | input and output | none to interleave | not modelled, see section 8 |

`PROJECT.json` lists every component with its sources and status, every hazard at its
line with the properties that watch it, and for every definition the lines it models.

## 3. Modules

| Module | What it is |
|---|---|
| `AdmissionLimit`, `AdmissionLimitProofs` | abstract: what a limit counted before the write promises |
| `FinancialEvents`, `FinancialEventsProofs`, `MCFinancialEvents` | events of one ledger |
| `CategoryTree`, `CategoryTreeProofs`, `MCCategoryTree` | categories of one ledger |
| `LedgerGrants`, `LedgerGrantsProofs`, `MCLedgerGrants` | the registry's rows about ledgers |
| `LedgerStore` | abstract: a store in which a ledger is one thing and lives once |
| `LedgerFiles`, `LedgerFilesProofs`, `MCLedgerFiles` | rows and files across processes |
| `Session`, `SessionProofs`, `MCSession` | the session of a browser with its tabs, cookies and the rows behind them |
| `FlowsPage`, `HomePage`, `ActivityPage`, `BudgetsPage`, `CategoriesPage`, `EntityPage` | the sections of a ledger, one page each |
| `LedgerWorkspace`, `LedgerWorkspaceProofs`, `MCLedgerWorkspace` | composes a section with the router, the layout and the context |
| `SecurityDialog`, `ExternalAccessDialog`, `PreferencesDialog`, `LedgerSelector` | a dialog or the selector, with what the server keeps for it |
| `EventEditor` | the form of an event, its payload and the stored event |
| `AuthLanding` | the cards before a login, against codes that work once |
| `ListboxNavigation`, `SelectList`, `MonthSelect`, `CodeInput` | the controls of forms |
| `Arrays` | external: `Array.prototype.filter` and the order of an answer's list, which four of the modules above use |
| `Dialogs`, `DialogsProofs`, `MCDialogs` | composes the dialogs, the editor, the landing page and the controls |

The four detailed modules of the backend are independent: they share no row except through foreign
keys, which the modules model on the side they look from (`FinancialEvents` lets
accounts and categories be deleted, `CategoryTree` lets movements and budgets name
and release categories, `LedgerFiles` lets rows come and go without their owners).
Three of them implement `AdmissionLimit`, and `LedgerFiles` implements `LedgerStore`, by
`INSTANCE ... WITH`.

A definition preceded by "Mutant:" is a plausible mistake in the definition that
follows it: put in its place, TLC finds a property violated. Each property of a
passing run has one, listed in `PROJECT.json`. They are not part of any specification.

### AdmissionLimit
`stored` is what is counted, `admitted` the requests that passed the count and have
not ended. `Admit` needs room, `Commit` inserts whatever the count is by then,
`CountAndCommit` does both in one transaction, `Leave` is every departure.
`Overshoot`: stored plus admitted stay below `MaxStored + Cardinality(Requests)`.

### LedgerStore
A ledger is new, making, listed or gone, in this order, and has data or not. `List` needs
data; `Leave` takes any number of ledgers away at once, and may take the data only of those
that were being made; `Erase` is for ledgers that are gone.

### FinancialEvents
`type` and `movement` are the two tables (with the sign of a value, the account, the
category and whether `special_type` is FEE), `accounts` and `categories` the rows they
name. A request goes `Begin` (the body's checks, made before any query) →
`CountEvents` or `GetEvent`, `GetMovements` → `RequireAccounts` →
`RequireCategories` → one write: `CreateSimple`, `CreateShoppingList`,
`CreateTransfer`, `UpdateSimple`, `UpdateTransfer`, `UpdateShoppingList` or
`DeleteEvent`. `read[r]` is the FinancialEvent object an update holds while others
commit. `Input` is the bodies that the routes accept; a creation's names no stored movement,
because only an update's lines carry a uuid. `WriteUpdate` is the whole of an update's statements: UPDATEs of rows that may
be gone, DELETEs, INSERTs under the foreign key. `Fail` is any end with a rollback.
`DeleteAccount` and `DeleteCategory` are other requests, decided by ON DELETE RESTRICT.

### CategoryTree
`parent[c]` is `parent_uuid` (`Root` for NULL, `None` for no row). `WalkUp` is one
SELECT of `_get_ancestors`, so that a creation's walk interleaves with moves. A move
checks the cycle and the depth inside its write (`MoveRefused`), because
`update_name` has taken the lock. Deletion cascades over the subtree unless a
category of it is in `named`.

### LedgerGrants
`Plan` gives the SELECTs of each use case in their order; `todo[r]` is what is left of
it. `row` and `revoking` are what a request carries from its reads to its write. With
TOTP confirmed, `verify_totp` writes first, so `create_access_totp` counts inside the
write and `create_access` before it. `InsertGrant` obeys the UNIQUE indexes. CLI
commands (`revoke_grant`, `set_owner`, `delete_user`, deletion of an access, cleanup)
interleave with requests as other processes.

### LedgerFiles
`file[l]` is absent, incomplete (it exists without its metadata row) or complete. A
creation is `Touch`, `Fill`, `InsertRow` with `FailCreate` as its exception handler; a
deletion `DeleteRow`, `Unlink`; an opening `IsFile`, `Connect` (which *creates* a file
that is not there). A start or a command is `Glob`, `ReadVersion` and `EnableWal` over
the files found, in three passes, and stops at a file without metadata. `user delete`
removes rows, then file after file. `StopServer` and `StopCommand` kill.

### Session
`sessions` and `remembers` are the rows, `jar` the cookies, `tab[t]` the state of
`AuthService` and of the router in a tab, with an exchange for each request that may be
under way. The handlers are operators on a tab: `RefreshSession` (shared by all that
were refused), `RefreshEnds` (all its subscribers hear at once), `Navigate` and
`Guarded` (the two guards and their redirections), `FinishLogout`, and `Answer`, which
says what every answer leads to. `ServeProtected`, `ServeRefresh`, `FindRemembered` and
`ServeLogin` are the use cases: one UPDATE rotates a token; a login or a logout may read
the remember session before its first write. `Expire` ends an auth session,
`ExpireRemembered` a remember session: its 30 days are counted from the login, and a
rotation renews the cookie's `max_age` but not the row's `expires_at`. `Receive` sets cookies and then runs the
handler; `Lose` loses a request or its answer. `excused` is history: why a browser may
have to log in again.

### LedgerWorkspace and the pages
`LedgerWorkspace` has the route, the ledger of `LedgerContextService`, the ledgers that
`LedgerService` knows and the exchange that fetches the ledger of the URL. A page is
`None` while its component does not exist. `Opened(l)` is the component's construction,
`Switched(l)` what its effect does when the router keeps it for another ledger. In each
page the user's handlers come first, then the answers of the server (`Answer` and
`Fail`), and `dirty` names the effects that have yet to run. An answer is
represented by the query that it answers, a list by that query with the number of its
pages and of the user's changes it is sure to contain, which is all that the
properties tell apart. The states of a page are one set of records, `Pages`, and
`TypeOK` says that `page` is one of them or `None`.

### Dialogs
One of the nine modules runs in a behaviour; `ui` and `server` are its two variables.
An exchange is sent, served (or refused), and heard of or lost. `SecurityDialog` has the
TOTP setup with its secrets, QR code and countdown; `ExternalAccessDialog` its host, which
may replace the ledger of an open dialog; `PreferencesDialog` the services of theme and
language, the start and the previews; `LedgerSelector` a route that comes and goes over
`LedgerService`, which stays. In `EventEditor` an event becomes a form and the form a
payload, with amounts in minor units, currencies with and without decimals, and clock times
that read the same twice. `AuthLanding` has a rival client and an operator who use,
replace and revoke the same codes. `SelectList` is the four lists with the room that they are
placed in; `MonthSelect` and `CodeInput` are a panel with a year and a field with a caret.
`Filter` of `Arrays` is what remains of a list, by the places of its elements, and not by
recursion like `SelectSeq`, so that it can be reasoned about.

## 4. What the runs check

| Run | Instance | States | Result |
|---|---|---|---|
| `events` | 1 event, 3 movements, 2 accounts, 1 category, 2 requests, at most 1 event and 2 lines | 1,533,182 | holds |
| `events_structure_race` | the same, bodies that pass the checks of values | – | violation |
| `categories` | 4 uuids, depth 2, size 3, 2 requests | 479,480 | holds |
| `categories_moves` | 3 uuids, depth 3, size 3, 2 requests | 98,420 | holds |
| `categories_limits_race` | 3 uuids, depth 2, size 3, 2 requests | – | violation |
| `grants` | 2 users, 2 accesses, 1 ledger, 3 grants, 2 requests, limits 1 | 437,506 | holds |
| `files` | 2 ledgers, 2 requests, 1 command and the server | 134,996 | holds |
| `files_open_race` | the same | – | violation |
| `session` | 2 tabs (one calls twice at once and logs out, the other is quiet), 2 refreshes per tab, 2 pairs of tokens, 2 excuses | 243,652 | holds |
| `workspace` | 6 sections, 2 ledgers, 2 periods and an invalid one, 2 pages, 1 change (2 for categories and entities), 2 categories | 1,832,741 | holds |
| `workspace_other_ledger` | the budgets of the same | – | violation |
| `dialogs` | 9 kinds; 3 secrets, 3 accesses, 3 ledgers, events of at most 3 movements, 2 codes of each sort, lists of 3 options, codes of 6 characters in pairs | 1,600,877 | holds |

**events.** `ReferentialIntegrity`: no movement without event, account, category.
`MainMovements`: one main movement per transaction, one expense and one income on
different accounts per transfer, only expenses in a list, only negative fees, although
updates write from stale reads. `MainsAsRead`: the mains an update read stay the
event's mains, which is why writing them by uuid is right. `StableIdentity`: a movement
never changes event or `special_type`, an event never its type. `StructureKept`: the
*only* step that can take an event away from its documented structure is the write of
an update whose read went stale. `EventsImplementLimit`: creations implement
`AdmissionLimit`.

**categories_moves.** `Acyclic`, where the depth limit alone does not rule a cycle out:
with depth 2 every move under a descendant is too deep already.

**categories.** `NoDanglingReference` and `NoResurrection` (an update that
found a category does not bring it back). `DepthOvershoot`: never deeper than one
level below the limit; `DepthKept`: a move never passes the limit, and a creation only
when a move made its walk stale. `CategoriesImplementLimit` for the size.

**grants.** `OneActiveEach` (one active owner, one active grant per grantee),
`AccessesAreGuests` (an external access has one grant in its life), `GrantsRefer`.
`OwnerKept`: a ledger that has an owner keeps having one unless the operator revokes
that grant, whatever transfers, revocations and deletions interleave. `HistoryKept`: a
revoked grant stays revoked, and grants are not rewritten. `OwnersImplementLimit` and
`AccessesImplementLimit`: both limits implement `AdmissionLimit`, for each user and
each ledger; the creations that verify TOTP are `CountAndCommit` and add nothing.

**files.** `RowHasFile`: no row is ever without a complete file, kills included.
`OrphansInHand`: until a process is killed, a file without a row is in the hands of a
request that creates or deletes it, or of the command that deletes it.
`DataGoesWithRow` (liveness): a complete file without a row is deleted or gets its row,
unless a process is killed. After a kill nothing in the code removes such a file, so these
two say nothing of crashes; `RowHasFile` and `FilesImplementStore` do. `FilesImplementStore`: row and file, changed in separate steps by
processes that may be killed, implement `LedgerStore`. The types are left to the theorem
`TypeCorrect`.

**session.** `RememberedStaysIn`: unless something excuses it, no request of a
remembered browser fails for its session and no tab is logged out, however many requests
are refused at once. `JarUnbroken`: when no exchange that sets cookies is under way,
the remember token in the cookies is one that the server accepts. Both say "unless",
because the code does lose a session when the answer of a refresh is lost or two tabs
refresh with the same token: the token has rotated, and the browser does not know the
next one. A remember session also ends 30 days after its login, even if it was just
refreshed; from then on the cookie, which lives longer, holds a token that is refused
(`remember_expired`). `CallsEnd` (liveness): a request that waits for a refresh is retried or fails,
and a navigation ends.

**workspace.** `ShowsWhatIsAsked`: once settled, a page shows what its filters and its
ledger ask for. `SpinnerIsPending`: a spinner turns and a button is disabled exactly
while an exchange is under way that ends it. `SavedIsShown`: the view state kept for a
ledger is the one on its screen. `ChangesAreSeen`: a list contains what the user has just
changed. `MovesKeepTheTree`: a drag never asks to move a category under itself, whatever
tree arrives between its start and the drop. Each is the conjunction over the sections;
where a page is known to fall short (see *Observed*), its property names the case.

**dialogs.** `BusyIsPending`: flags end with their exchange, so a dialog can be closed.
`SecretsStayInView`: a TOTP secret or the token of an access is held only where it is
shown, and the QR code is the secret's own. `SettledIsServers`: a list is the server's,
a closed dialog leaves no preview, an event that is opened and saved is stored as it was
shown and once, a code works once and a card says what is so, Enter chooses the option
that is marked, a code reads the same in groups.

### Where the code and the documents disagree
Four runs end in a counterexample; each states a sentence of a document or a test.

- `events_structure_race` (`docs/domain.md:41`). Two updates read a transaction without
  a fee. One moves it to another account and inserts a fee there; the other writes the
  main movement back on the first account. The fee stays on the other one, and every
  later update is refused because the structure is not valid. By the same route a
  transaction gets two fees or an income a fee, and a list loses all its lines or gets
  lines on two accounts.
- `categories_limits_race` (`docs/domain.md:37`). A category one level below the limit.
  The limit of 1,000 nodes is passed in the same way; `get_tree` then fails.
- `files_open_race` (`backend/tests/integration/persistence/sqlite/test_databases.py:361`).
  Opening a ledger that is deleted between `is_file` and `connect` leaves an empty
  file, at which the next start of the server or of any command stops.
- `workspace_other_ledger` (`README.md:33`). The budgets page is kept for another ledger,
  whose resources fail to load; the overview of the ledger before arrives then, and its
  budgets stand under the other ledger's name.

The passing runs bound the first two: one level, and only through a stale
update. The limits of `docs/domain.md:7` and `:9` (10 ledgers, 20 external accesses) are
passed in the same way as the number of events: `OwnersImplementLimit` and
`AccessesImplementLimit` say by how many.

### Observed
Behaviour that the models contain and the properties name as exceptions, because no document
speaks against it; a reader who changes the code will want to know it.

- *Sessions.* A login that checked the old password before a recovery or a change of the
  password inserts its session after it (read in the code; `Session` has no passwords).
- *Budgets.* A deletion dialog is not reset when the ledger changes. A search typed
  under one ledger is applied and saved under the next; `distinctUntilChanged` drops a text
  that is typed again there. After failed resources a change of filter clears the error.
- *Activity and entities.* The answer of a deletion that outlives a change of ledger closes
  the other ledger's dialog and reloads it. With an invalid period a saved event is not
  reloaded. After a failed start the retry loads events only, so that the filters have no
  accounts. *Home.* The chart clears an error of the figures.
- *Categories.* A deletion gives up a move under way; if it is refused, the tree is not
  reloaded. A drag by touch whose row disappears does not end until the ledger changes.
- *Security.* A status that arrives after the dialog was closed keeps a secret and its timer
  there. A setup that expires while it is confirmed says "expired" beside "enabled".
- *External accesses.* In the ledger's layout the answer that names the ledger resets an open
  dialog: the token of a creation under way arrives in the list or in a closed dialog.
- *Preferences.* The preferences of the start may arrive after others were saved, and win.
- *Selector.* A ledger created while the list is under way is dropped by that list, or
  listed twice.
- *Event editor.* A TRANSACTION whose movement has a quantity or an item name (the API
  accepts both) loses them when it is saved unedited; a transfer's second category
  becomes the first; an event in the hour that a clock repeats moves by an hour; a retry after a
  lost answer stores a new event twice.
- *Landing.* After a lost answer the retry of a registration or a recovery says that the code
  is not available. A card that asked for a TOTP code asks for it of every name.
- *Controls.* Options replaced while a list is open leave the active index at another
  option, or at none. A text that is no year stays in the field while the choice is made in
  the year before it. A backspace after a hyphen removes nothing.

### Bounds
Two requests are enough for every race found: each needs one stale request and one that
commits in between; three would add only a second stale one. Limits are 1 to 3 instead
of 10, 20, 1,000 or 100,000, so that they are reached and passed. One event suffices
because events share nothing but the count, and the count's overshoot is visible in
`admitted` with a single uuid; 3 movements hold a transfer with a fee, and two updates
that each insert a fee. Four categories are what a tree of depth 4, two past the limit,
needs. Two ledgers let a command delete one file while another is being made. Uuids are
taken from `used` upwards and never reused, so a behaviour ends when they run out; requests
themselves go on. Symmetric sets are permuted except in `files` and `session`, which
check liveness, and in `workspace`, whose ledgers differ.

In `session` two tabs and two concurrent calls are the least that share a refresh and
contend for a token; two pairs of tokens allow a login and one rotation, after which the
server answers no more (`OutOfTokens`; the run may stop there, hence `CHECK_DEADLOCK
FALSE`). Two of the six excuses in one behaviour combine any two. In `workspace` two
ledgers are what a late answer needs, one of them with nothing in it; two pages are a
list that has grown; the sections do not interact, so a behaviour visits one of them
and "elsewhere". In `dialogs` three secrets or accesses let a second one replace the
first and a third the second; the limit of accesses is 2 so that it is reached;
`MaxEdits`, `MaxChanges` and `MaxRequests` bound what a user does. What is proved (below)
has no bounds.

### Fairness
`LedgerFiles` assumes weak fairness of the steps of a request that has begun
and of a command that has begun deleting (`RequestStep`, `CommandStep`), because the
operating system keeps running a thread and nothing in those steps waits for another
process for longer than SQLite's busy timeout, after which the request fails, which is
a step too. Nothing is assumed of clients that may begin, of the operator, or of
starts. Kills are not fair: they may or may not happen.

`Session` assumes that each request of a slot is served and its answer received
(`Serve \/ Receive`), because a server answers and a browser reports an answer or a
failure; `Lose` counts as neither, so a lost answer is no help. Nothing is assumed of a
user, of a login, of a logout, of the two expiries or of a revocation.

## 5. What is proved

All theorems hold for every value of the constants that the named assumptions of the
modules allow; TLC evaluates those assumptions in the runs.

- `ConstantsAssumption` (the four modules of the backend): the kinds of identifiers are
  disjoint, `None` is none of them, limits are naturals, the sets that are counted are finite.
- `SessionAssumption`: the slots of calls and of refreshes are disjoint and are not
  `login`, `logout` or `guard`; a tab can refresh; `Makes` says what each tab does.
- `NoneAssumption`, `WorkspaceAssumption`: `None` is no ledger, page, query or answer;
  `Sections` are some of the six; the default period is a period, the empty text is a text;
  `Top` is no category; a list may have two pages.
- In `Dialogs`, `KindsAssumption` and `NoneAssumption`: the kinds are some of the nine, and
  `None` is no exchange and no datum. `SelectorAssumption`: finitely many ledgers are owned at
  first, and the search may be empty. `LandingAssumption`: the bounds are naturals and a
  behaviour uses some of the three cards. `ListAssumption`: no list has an option twice, and
  there are two languages (`language-selector.component.ts`). `DecimalsAssumption`: a currency
  has at most 20 decimals, and a power of ten is a positive integer, which TLC computes and
  the provers have to be told. `EventAssumption`: a ledger has two accounts and a category,
  bounds are naturals, the events stored first are valid for the API, and a local time reads as the
  instant that it is parsed to. `CodeAssumption`: a code is of whole groups, and the hyphen is no
  letter. `LastYearAssumption`: there is a last year.

| Module | Theorems |
|---|---|
| `AdmissionLimitProofs` | `OvershootBounded` |
| `FinancialEventsProofs` | `TypeCorrect`, `NoDanglingMovement`, `MainMovementsKept`, `MainsStayAsRead`, `IdentityStable`, `StructureOnlyLostStale`, `EventsKeepToLimit`, `EventOvershootBounded` |
| `CategoryTreeProofs` | `TypeCorrect`, `NeverACycle`, `NothingDangles`, `DeletedStaysDeleted`, `CategoriesKeepToLimit`, `SizeOvershootBounded`, `DepthOvershootBounded`, `DepthIsKept` |
| `LedgerGrantsProofs` | `TypeCorrect`, `OwnersAreUnique`, `AccessesStayGuests`, `GrantsNeverDangle`, `OwnersStay`, `HistoryStands`, `OwnersKeepToLimit`, `AccessesKeepToLimit`, `OwnersOvershootBounded`, `AccessesOvershootBounded` |
| `LedgerFilesProofs` | `TypeCorrect`, `RowsKeepFiles`, `OrphansStayInHand`, `FilesAreOneStore` |
| `SessionProofs` | `TypeCorrect`, `NeverAskedAgain`, `CookiesStayGood` |
| `LedgerWorkspaceProofs` | `TypeCorrect`, `ScreenAnswersTheFilters`, `SpinnersArePending`, `SavedViewIsShown`, `NewestChangesAreSeen`, `MovesAreSound` |
| `DialogsProofs` | `DialogsInvariant`, `DialogsTypeOK`, `DialogsBusyIsPending`, `DialogsSecretsStayInView`, `DialogsSettledIsServers` |

*AdmissionLimit.* The count of what is stored plus the admitted is the invariant: an
insertion moves one from one to the other, and whoever is admitted found room.

*FinancialEvents.* `MainMovements` is not inductive: an update writes rows by what it
read earlier. The invariant `IInv` adds `ReadInv`, what each running update knows: the
movements it read had the right structure, their uuids are used (so never taken by
another movement), those still stored have the event and `special_type` that were read,
and the mains are the same set. `RowsStep` says what any step may do to the rows, so
that another request's step leaves `ReadInv` true (`OtherRequests`), and each action
is proved once. `StructureOnlyLostStale` (`StructureKept`) goes by the writes: a creation
stores exactly the movements of its body, whose structure was checked
(`CreateKeepsStructure`), and an update whose read is still what is stored leaves its event
with what was read, changed as the body asks (`FreshUpdate`), so only a stale update is
left. The refinement maps `CountEvents` to `Admit`, the creations to `Commit` and every
other step to `Leave`.

*CategoryTree.* Acyclicity is stated without paths: no nonempty set of categories
contains all its parents. `Ancestors` is the least set closed upwards, so a move under
a category whose ancestors do not hold the moved one cannot trap a set
(`MoveKeepsAcyclic`). The rest of `IInv` says that rows have used uuids and where the
walk of each creation stands. `DepthOvershootBounded` and `DepthIsKept` need `DepthInv`, what the walk of each creation
has seen: while the parent is below the limit, where no move puts a category, the walk stands
at one of its ancestors and has passed the ones beneath (`WalkSees`), so that it ends with
a refusal; one that ended well found a parent above that (`WalkEnded`). The depth of the
tree is a maximum over the categories; that there is one follows from a minimal element of
a well-founded order (`GreatestExists`), not by induction.

*LedgerGrants.* The inductive invariant `RowsInv` does not mention what the requests
have read: the writes stay right because the UNIQUE indexes, the foreign keys and fresh
uuids hold, not because the checks do. `OwnersStay` is different, because a write revokes
what was read: `RevokingKept` says that a request holds guests' grants, grants for the
ledger it transfers, or what the operator named, and `NextKeepsHistory` that a uuid never
comes to name another grant while the request waits. `HistoryStands` follows from the
same lemma. For the limits, `PlanCounts` says that the plan of every use case that adds an
owner or an access counts them, before or inside the write, and `WritesAreAdmitted` that
what is written was admitted by that count; hence each user's ledgers and each ledger's
accesses implement `AdmissionLimit`, and its theorem, instantiated, bounds them.

*LedgerFiles.* `RowHasFile` needs that a creation's file is nobody else's
(`CreationsApart`), that what is being deleted has no row (`DeletionsSafe`), and that a
row's ledger is not being created (`RowsApart`). `OrphansStayInHand` goes by what each
step does to data without a row (`HandedOn`). `FilesAreOneStore` is a refinement: a ledger is
listed while it has a row, and being made while a request creates it. `Touch`, openings and
starts stutter, because they neither complete a file nor touch a complete one; a deletion may
erase because what it is to delete is gone (`DeletionsSafe`); a kill of the server is one `Leave` of
all that its requests were making.

*Session.* `RememberedStaysIn` and `JarUnbroken` are not inductive: both depend on what is
on its way. `SessionInv` says of each tab that all that wait share the one refresh, and
that the flags agree with the exchanges (`TabsOK`). As long as nothing is excused but a login
that did not ask to be remembered, it adds that at most one answer on its way sets cookies, to
tokens that the server accepts, which the cookies hold when there is none (`SetterInv`); what
a tab may be at while the browser is not remembered (`ForgottenInv`) and while it is
(`RememberedInv`: no refresh checks a session that is gone); and, with no excuse at all,
that whoever has a session is remembered (`LoyalInv`). What each handler does to a tab is a lemma, used for every answer that
leads to it.

*LedgerWorkspace.* No property of a page is inductive without what its exchanges will
answer. `WorkspaceInv` is `LayoutInv` (there is a ledger wherever a page may open) and one
invariant per section. `FlowsInv`: no graph before the resources, and once its effect
has run, what is shown or asked is the selection's. `HomeInv`: figures answer the scope
asked last, and an account is selected only beside figures of the selection.
`ActivityInv`: a first page gives up what was under way, a further one follows what is on
screen. `BudgetsInv`: a list that is not outlived answers the filters and has the
changes, and while resources load everything under way is outlived. `CategoriesInv`,
`EntityInv`: what is under way was asked after the last change. Each section has a lemma
for a page that is opened, one for a page kept for another ledger where that can be, and
one for its steps; the properties follow from the invariant, `MovesAreSound` from the
steps of the categories.

*Dialogs.* `SettledIsServers` speaks of a dialog that waits for nothing; what makes it
inductive is what the answers on their way will say. `DialogsInv` has one invariant for each
of the nine kinds, and the four theorems follow from it.

- `SecurityInv`: an exchange is under way only where the dialog lets one begin
  (`SecurityWaits`); a secret on the screen or on its way is the server's while a setup is
  pending (`SecuritySecrets`); whether TOTP is enabled can be told from the status shown and the
  answers not yet heard (`SecurityShows`).
- `AccessInv`, `SelectorInv`: the server's set can be computed from the list on the screen and the
  answers under way (`AccessShows`, `SelectorShows`), which is what an insertion or a
  `filter` of the list then makes true of the list alone. Both say nothing once history records
  the races of *Observed*. That `Filter` keeps what it should, once each and in order, is
  proved from the places of the elements, a bijection onto `1..n` (`PlacesAreTaken`).
- `PreferencesInv`: every answer on its way is what the server has, and a closed dialog shows
  what was read or saved last.
- `EventInv`: every stored event that an editor wrote is `EventKept`: opened and sent again, it is
  the same. It holds because what is being saved is what some form sent and showed
  (`EventSaved`), and a form and the one that its event opens as are alike (`EventLike`): they
  parse to the same amounts in the same accounts, although not to the same texts. Forms that
  are alike send and show the same.
- `LandingInv`: with `UsedOnce`, a counter above the server's was never checked, and what a card
  says of a code, or is about to say, is true of the registry and stays so.
- `ListInv`: the active index is one of the options shown, and of the value's after an
  opening, unless the options were replaced or the keyboard was used.
- `CodeInv`: there is a raw code that the field shows in groups. The character at `n` stands at
  `n + (n - 1) \div GroupLength`; hence a text that is normalised and formatted is as it
  was, and the caret keeps the number of letters before it.
- The invariant of `MonthSelect` is its `TypeOK` with its `SettledIsServers`.

Out of the prover's reach and left to TLC: `DataGoesWithRow` and `CallsEnd`
(liveness and ENABLED), and what recursive definitions compute for every input, of which
the proved modules have none. Every other property of the passing runs is a theorem.

## 6. Properties and hazards
`PROJECT.json` lists the hazards by line. The backend is exposed to: state read
before the writer lock and used after it (events, tree, grants), limits counted before
the write, two stores changed in two steps and the kills between them, long legal
sequences of grants. The frontend to: answers that arrive after the user has moved on,
exchanges that overlap over one signal, indexes and secrets that outlive what they
were taken from, tokens that several requests and tabs spend. Those not covered yet name
the module that is planned.

Where the code lets a hazard happen and no document speaks against it, the property
excludes that case by a history flag, and the flag is all that the model says of it: `raced`
(the list of ledgers or the preferences of the start arrive over a change),
`rebound` (the external accesses reset with a creation under way), `stale` (the options of
an open list replaced). The "note" of such a hazard, and of those a kill is part
of, says which part is watched. That an event's movements keep their event and role
(`StableIdentity`) and that the tree has no cycle (`Acyclic`) are not hazards of an
interleaving: the UPDATEs never write those columns, and the cycle check runs under the
writer lock. They are checked because the other properties of their modules lean on them.

## 7. Plan
Done: the core of the backend, the session of a browser, the sections of a ledger, and
the dialogs, editors and controls. In this order, the next first:

1. `Logins`: the SELECTs of login, recovery and password changes one at a time; no session
   outlives the password it was opened with. Run: a login and a recovery of one user.
2. `SchemaMigration`: versions of registry and ledgers, backups, kills, two starts.
   Theorem: versions only grow and a backup precedes a change. Composed with
   `LedgerFiles` through the start. Run: two starters, two files, two versions.
3. `CredentialExecutor`: slots, threads, hash capacity, cancellation; liveness of a
   waiting request under fairness of threads.
4. `LedgerEntities`: accounts, currencies, budgets, as further implementations of
   `AdmissionLimit`, with names and references.
5. `EventPages`, `Balances`: reads in two SELECTs, pages while rows change, sums and
   budget usage as folds against reference definitions, 64 bits.

## 8. Left out
In the backend, amounts, quantities, dates and texts (planned with `Balances`). Names and
their UNIQUE checks, icons, colours: they only refuse a request,
which `Fail` covers. Password checks inside grant use cases: they only refuse. Access
times and the attributes of ledgers. The registry's own file, `-wal` and `-shm` files.
The HTTP layer, schemas, settings, proxy and server wiring: they turn bytes into one
call of a use case. The rate limiter: one call of a library.

In the frontend, amounts outside the event editor, charts (`cash-flow-sankey`,
`home-flow-chart`), icons, colours, translations, menus and layout: functions of what the
pages hold. The forms of categories, budgets and entities, whose fields map one to one to
a payload: only that something was saved. Templates (`.html`) are read for the conditions
under which a control is shown or disabled, which are guards in the models.
