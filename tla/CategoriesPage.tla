----------------------------- MODULE CategoriesPage ----------------------------
(***************************************************************************)
(* The page with the tree of categories of a ledger: branches that are     *)
(* collapsed, a search, the editor of a category, the dialog that deletes  *)
(* one, and categories that are moved by dragging their rows.  The old     *)
(* tree stays on the screen while the next one loads.  Conventions as in   *)
(* FlowsPage and BudgetsPage.                                              *)
(*                                                                         *)
(* A tree is the function from its categories to their parents.  Top is    *)
(* the parent of those that have none.  A row is dragged with a finger:    *)
(* what the element under it accepts is found again whenever it moves.     *)
(* Left out: the guides and indents of the rows, scrolling while dragging. *)
(*                                                                         *)
(* unsure is history: a move whose answer was given up may have been made. *)
(***************************************************************************)
EXTENDS Naturals

CONSTANTS
  Ledgers,
  Forests,     \* for each ledger, the trees it may have
  Top,
  Texts, NoText,
  Matching,    \* the categories whose name has the text, for each text
  MaxChanges,  \* bound: changes while the page is open
  None

VARIABLES ledger, page, saved

vars == <<ledger, page, saved>>

Open == page # None
Trees == UNION {Forests[l] : l \in Ledgers}
Categories == UNION {DOMAIN t : t \in Trees}
Views == [search: Texts, collapsed: SUBSET Categories, rootCollapsed: BOOLEAN]

Loaded == UNION {[ledger: {l}, of: Forests[l], fresh: 0..MaxChanges] : l \in Ledgers}
Requests == [ledger: Ledgers, fresh: 0..MaxChanges]
Pages ==
  [view: Views, tree: Loaded \cup {None}, request: Requests \cup {None}, loading: BOOLEAN, error: BOOLEAN,
   dragging: Categories \cup {None}, target: Categories \cup {Top, None}, moving: Categories \cup {None},
   mutation: {"none", "move", "delete"}, editor: {"closed", "saving"},
   deleting: Categories \cup {None}, deletingBusy: BOOLEAN, changes: 0..MaxChanges, unsure: BOOLEAN]

TypeOK == page \in Pages \cup {None} /\ saved \in [Ledgers -> Views \cup {None}]

Init == page = None /\ saved = [l \in Ledgers |-> None]

--------------------------------------------------------------------------------
(* The tree.                                                               *)

Parents(p) == IF p.tree = None THEN <<>> ELSE p.tree.of
ParentOf(p, c) == IF c \in DOMAIN Parents(p) THEN Parents(p)[c] ELSE Top

\* c and the categories above it.
Path(p, c) ==
  LET all == DOMAIN Parents(p) \cup {c}
      up(S) == \A x \in S : ParentOf(p, x) \in S \cup {Top}
  IN  {x \in all : \A S \in SUBSET all : c \in S /\ up(S) => x \in S}

\* visibleRows: those that match and the way to them, or those in open branches.
Rows(p) ==
  IF p.view.search # NoText THEN UNION {Path(p, c) : c \in Matching[p.view.search] \cap DOMAIN Parents(p)}
  ELSE IF p.view.rootCollapsed THEN {}
  ELSE {c \in DOMAIN Parents(p) : (Path(p, c) \ {c}) \cap p.view.collapsed = {}}

CanMove(p, source, parent) ==
  /\ source \in DOMAIN Parents(p) /\ Parents(p)[source] # parent
  /\ parent # Top => source \notin Path(p, parent)

(* The handlers.                                                           *)

FirstView == [search |-> NoText, collapsed |-> {}, rootCollapsed |-> FALSE]

Load(p, l) ==
  [p EXCEPT !.request = [ledger |-> l, fresh |-> p.changes], !.loading = TRUE, !.error = FALSE, !.unsure = FALSE]

\* resetViewState, at first and for another ledger, and load.
Opened(l) ==
  Load([view |-> IF saved[l] = None THEN FirstView ELSE saved[l],
        tree |-> None, request |-> None, loading |-> FALSE, error |-> FALSE,
        dragging |-> None, target |-> None, moving |-> None, mutation |-> "none",
        editor |-> "closed", deleting |-> None, deletingBusy |-> FALSE, changes |-> 0, unsure |-> FALSE], l)

Become(p) == page' = p /\ UNCHANGED <<ledger, saved>>

\* saveViewState
Save(p) ==
  /\ page' = p
  /\ saved' = [saved EXCEPT ![ledger] = p.view]
  /\ UNCHANGED ledger

\* revealParent, and load.  To reveal the top level is not saved.
RevealAndLoad(p, parent) ==
  LET open == [p EXCEPT !.view.rootCollapsed = FALSE,
                        !.view.collapsed = IF parent = Top THEN @ ELSE @ \ Path(p, parent)]
      next == Load([open EXCEPT !.changes = @ + 1], ledger)
  IN  IF parent = Top THEN Become(next) ELSE Save(next)

EndDrag(p) == [p EXCEPT !.dragging = None, !.target = None]

\* Changes that are made or under way.
Begun(p) == p.changes + (IF p.mutation = "none" THEN 0 ELSE 1) + (IF p.editor = "saving" THEN 1 ELSE 0)

Free == Open /\ page.editor = "closed" /\ page.deleting = None
TreeShown == ~page.error /\ (page.loading => Parents(page) # <<>>)
Shown == IF TreeShown THEN Rows(page) ELSE {}

--------------------------------------------------------------------------------
(* The user.                                                               *)

Filter(text) == Free /\ text # page.view.search /\ Save([page EXCEPT !.view.search = text])

ToggleRoot ==
  /\ Free /\ ~page.error /\ Parents(page) # <<>>
  /\ Save([page EXCEPT !.view.rootCollapsed = ~@])

ToggleCategory(c) ==
  /\ Free /\ c \in Shown
  /\ \E d \in DOMAIN Parents(page) : Parents(page)[d] = c
  /\ Save([page EXCEPT !.view.collapsed = IF c \in @ THEN @ \ {c} ELSE @ \cup {c}])

Retry == Free /\ page.error /\ Become(Load(page, ledger))

\* openCreate at the top or in a row, or openEdit of a row, and save.
SaveCategory ==
  /\ Free /\ Begun(page) < MaxChanges
  /\ \/ ~page.error /\ ~page.loading /\ page.moving = None
     \/ Shown # {} /\ (page.moving = None \/ page.dragging = None)
  /\ Become([page EXCEPT !.editor = "saving"])

\* openEdit, and from the editor requestDelete.
RequestDelete(c) ==
  /\ Free /\ page.dragging = None /\ c \in Shown
  /\ Become([page EXCEPT !.deleting = c])

CloseDelete ==
  /\ Open /\ page.deleting # None /\ ~page.deletingBusy
  /\ Become([page EXCEPT !.deleting = None])

\* It takes the place of a move under way, made by then or not.
Remove(made) ==
  /\ Open /\ page.deleting # None /\ ~page.deletingBusy
  /\ made => page.mutation = "move"
  /\ LET p == [page EXCEPT !.mutation = "none", !.moving = None, !.unsure = @ \/ page.mutation = "move",
                           !.changes = IF made THEN @ + 1 ELSE @]
     IN  Begun(p) < MaxChanges /\ Become([p EXCEPT !.deletingBusy = TRUE, !.mutation = "delete"])

StartPointerDrag(c) ==
  /\ Free /\ c \in Shown /\ page.dragging = None /\ page.moving = None
  /\ Become([page EXCEPT !.dragging = c, !.target = None])

\* The element under the finger takes the row only if it may become its parent.
PointerDrag(t) ==
  /\ Free /\ page.dragging \in Shown /\ t \in Shown \cup {Top}
  /\ Become([page EXCEPT !.target = IF CanMove(page, page.dragging, t) THEN t ELSE None])

\* What the target accepted when the finger came to it is not asked again.
DropWhereAccepted ==
  /\ Free /\ page.dragging \in Shown /\ Begun(page) < MaxChanges
  /\ Become(IF page.target = None THEN EndDrag(page)
            ELSE [EndDrag(page) EXCEPT !.moving = page.dragging, !.mutation = "move"])

\* endPointerDrag and moveCategory, which asks again whether it may move.
Drop ==
  /\ Free /\ page.dragging \in Shown /\ Begun(page) < MaxChanges
  /\ Become(IF page.target = None \/ ~CanMove(page, page.dragging, page.target) THEN EndDrag(page)
            ELSE [EndDrag(page) EXCEPT !.moving = page.dragging, !.mutation = "move"])

(* The server.                                                             *)

TreeAnswer(tree) ==
  /\ Open /\ page.request # None /\ tree \in Forests[page.request.ledger]
  /\ Become([page EXCEPT !.tree = [ledger |-> page.request.ledger, of |-> tree, fresh |-> page.request.fresh],
                         !.request = None, !.loading = FALSE])

TreeFail ==
  /\ Open /\ page.request # None
  /\ Become([page EXCEPT !.request = None, !.loading = FALSE, !.error = TRUE])

MoveAnswer(parent) ==
  /\ Open /\ page.mutation = "move" /\ parent \in DOMAIN Parents(page) \cup {Top}
  /\ RevealAndLoad([page EXCEPT !.mutation = "none", !.moving = None], parent)

SaveAnswer(parent) ==
  /\ Open /\ page.editor = "saving" /\ parent \in DOMAIN Parents(page) \cup {Top}
  /\ RevealAndLoad([page EXCEPT !.editor = "closed"], parent)

SaveFail == Open /\ page.editor = "saving" /\ Become([page EXCEPT !.editor = "closed"])
MoveFail == Open /\ page.mutation = "move" /\ Become([page EXCEPT !.mutation = "none", !.moving = None])

DeleteAnswer(ok) ==
  /\ Open /\ page.mutation = "delete"
  /\ LET over == [page EXCEPT !.mutation = "none", !.deletingBusy = FALSE]
     IN  Become(IF ok THEN Load([over EXCEPT !.deleting = None, !.changes = @ + 1], ledger) ELSE over)

Next ==
  \/ \E t \in Texts : Filter(t)
  \/ \E c \in Categories : ToggleCategory(c) \/ RequestDelete(c) \/ StartPointerDrag(c)
  \/ \E c \in Categories \cup {Top} : PointerDrag(c) \/ MoveAnswer(c) \/ SaveAnswer(c)
  \/ ToggleRoot \/ Retry \/ SaveCategory \/ CloseDelete \/ Drop
  \/ \E t \in Trees : TreeAnswer(t)
  \/ TreeFail \/ SaveFail \/ MoveFail
  \/ \E b \in BOOLEAN : Remove(b) \/ DeleteAnswer(b)

--------------------------------------------------------------------------------
Settled == Open /\ page.request = None /\ ~page.error

\* The tree of the ledger before is not on the screen of the next one.
ShowsWhatIsAsked == Settled => page.tree # None /\ page.tree.ledger = ledger

\* The tree loads, a row moves and a deletion is busy while that is under way,
\* though a move and a deletion give each other up.
SpinnerIsPending ==
  Open => /\ page.loading <=> page.request # None
          /\ page.moving # None <=> page.mutation = "move"
          /\ page.deletingBusy <=> page.mutation = "delete"

\* To reveal the top level opens it on the screen only.
SavedIsShown ==
  Open /\ saved[ledger] # None =>
    page.view \in {saved[ledger], [saved[ledger] EXCEPT !.rootCollapsed = FALSE]}

\* A move whose answer a deletion gave up may be missing until the next load.
ChangesAreSeen == Settled /\ ~page.unsure => page.tree.fresh = page.changes

\* A category is asked to move only to a place that is not under itself in
\* the tree on the screen at the drop, though the tree may change during it.
KeepsTheTree ==
  Open /\ page' # None /\ page.moving = None /\ page'.moving # None =>
    /\ page'.moving \in DOMAIN Parents(page)
    /\ page.target # Top => page'.moving \notin Path(page, page.target)
================================================================================
