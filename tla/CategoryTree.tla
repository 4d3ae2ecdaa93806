------------------------------ MODULE CategoryTree -----------------------------
(***************************************************************************)
(* The category tree of one ledger: the rows of category with their        *)
(* parent_uuid, and the requests that create, move and delete categories.  *)
(*                                                                         *)
(* As in FinancialEvents, the SELECTs before the first INSERT, UPDATE or   *)
(* DELETE of a request each see a snapshot of their own, and everything    *)
(* from that statement to commit is one atomic write.  For update_category *)
(* the first statement is update_name, so the checks of update_parent run  *)
(* inside the write; for create_category the depth check runs before it,   *)
(* one SELECT per ancestor.                                                *)
(*                                                                         *)
(* Left out: names, icons and colours.  A request that a name check or the *)
(* UNIQUE index on category_name refuses ends by Fail.                     *)
(***************************************************************************)
EXTENDS Integers, FiniteSets

CONSTANTS
  Categories,  \* uuid4 values that identify category rows
  Requests,    \* request slots: how many requests run at the same time
  MaxDepth,    \* MAX_CATEGORY_DEPTH
  MaxSize,     \* MAX_CATEGORY_TREE_SIZE
  Root,        \* parent_uuid NULL
  None         \* no row, or no argument

ASSUME ConstantsAssumption ==
  /\ Root \notin Categories
  /\ None \notin Categories
  /\ Root # None
  /\ MaxDepth \in Nat \ {0}
  /\ MaxSize \in Nat
  /\ IsFiniteSet(Categories)
  /\ IsFiniteSet(Requests) /\ Requests # {}

VARIABLES
  parent,  \* parent_uuid of each category row, None where there is no row
  named,   \* categories that a financial movement or a budget names
  used,    \* uuids generated so far
  pc,      \* the next step of each request
  call,    \* what each request was called with
  walked,  \* ancestors that a create_category has read
  cursor   \* current_uuid of the walk over the ancestors

vars == <<parent, named, used, pc, call, walked, cursor>>
rows == <<parent, named, used>>

Call == [op: {"create", "update", "delete"}, category: Categories \cup {None},
         parent: Categories \cup {Root}]
NoCall == [op |-> "delete", category |-> None, parent |-> Root]
Steps == {"idle", "category", "parent", "count", "walk", "in_use", "write"}

--------------------------------------------------------------------------------
(* The tree *)

Live(p) == {c \in Categories : p[c] # None}

\* The sets that contain the parent of each of their categories.
UpClosed(p) ==
  {S \in SUBSET Categories : \A c \in S : p[c] \in Categories => p[c] \in S}

\* The category and all that the walk along parent_uuid reaches from it.
Ancestors(p, c) ==
  {x \in Categories : \A S \in UpClosed(p) : c \in S => x \in S}

Subtree(p, c) == {x \in Live(p) : c \in Ancestors(p, x)}

\* Depth of a category, 1 at the root, and height of its subtree.
Depth(p, c) == Cardinality(Ancestors(p, c))
Height(p, c) ==
  CHOOSE h \in 0 .. Cardinality(Categories) :
    /\ \A x \in Subtree(p, c) : Cardinality(Ancestors(p, x) \cap Subtree(p, c)) <= h
    /\ \E x \in Subtree(p, c) : Cardinality(Ancestors(p, x) \cap Subtree(p, c)) = h

\* A row whose parent_uuid is q satisfies its foreign key.
ParentExists(p, q) == q = Root \/ q \in Live(p)

--------------------------------------------------------------------------------
(* Steps of a request before its write *)

Init ==
  /\ parent = [c \in Categories |-> None]
  /\ named = {}
  /\ used = {}
  /\ pc = [r \in Requests |-> "idle"]
  /\ call = [r \in Requests |-> NoCall]
  /\ walked = [r \in Requests |-> {}]
  /\ cursor = [r \in Requests |-> None]

Goto(r, step) == pc' = [pc EXCEPT ![r] = step]

Finish(r) ==
  /\ Goto(r, "idle")
  /\ call' = [call EXCEPT ![r] = NoCall]
  /\ walked' = [walked EXCEPT ![r] = {}]
  /\ cursor' = [cursor EXCEPT ![r] = None]

\* Go to step when the check holds, end the request when it does not.
ContinueIf(r, check, step) ==
  /\ IF check THEN Goto(r, step) /\ UNCHANGED <<call, walked, cursor>> ELSE Finish(r)
  /\ UNCHANGED rows

\* A client names categories whose uuids it was given; they may be gone by now.
BeginCreate(r) ==
  \E q \in used \cup {Root} :
    /\ pc[r] = "idle"
    /\ call' = [call EXCEPT ![r] = [op |-> "create", category |-> None, parent |-> q]]
    /\ cursor' = [cursor EXCEPT ![r] = q]
    /\ Goto(r, IF q = Root THEN "count" ELSE "parent")
    /\ UNCHANGED <<rows, walked>>

BeginUpdate(r) ==
  \E c \in used, q \in used \cup {Root} :
    /\ pc[r] = "idle"
    /\ call' = [call EXCEPT ![r] = [op |-> "update", category |-> c, parent |-> q]]
    /\ Goto(r, "category")
    /\ UNCHANGED <<rows, walked, cursor>>

BeginDelete(r) ==
  \E c \in used :
    /\ pc[r] = "idle"
    /\ call' = [call EXCEPT ![r] = [op |-> "delete", category |-> c, parent |-> Root]]
    /\ Goto(r, "category")
    /\ UNCHANGED <<rows, walked, cursor>>

\* category_repository.get(category_uuid) of update_category and delete_category
GetCategory(r) ==
  /\ pc[r] = "category"
  /\ ContinueIf(r, call[r].category \in Live(parent),
       IF call[r].op = "delete" THEN "in_use"
       ELSE IF call[r].parent = Root THEN "write" ELSE "parent")

\* category_repository.get(parent_uuid)
GetParent(r) ==
  /\ pc[r] = "parent"
  /\ ContinueIf(r, call[r].parent \in Live(parent),
       IF call[r].op = "create" THEN "count" ELSE "write")

\* Mutant: the limit itself is let through.
CountUpToLimit(r) ==
  /\ pc[r] = "count"
  /\ ContinueIf(r, Cardinality(Live(parent)) <= MaxSize,
       IF call[r].parent = Root THEN "write" ELSE "walk")

\* count() >= MAX_CATEGORY_TREE_SIZE
CountCategories(r) ==
  /\ pc[r] = "count"
  /\ ContinueIf(r, Cardinality(Live(parent)) < MaxSize,
       IF call[r].parent = Root THEN "write" ELSE "walk")

\* Mutant: create compares the number of ancestors with > MAX_CATEGORY_DEPTH.
WalkOneTooFar(r) ==
  LET c == cursor[r]
      seen == walked[r] \cup {c}
  IN  /\ pc[r] = "walk"
      /\ \/ /\ c \notin walked[r]
            /\ parent[c] \in Categories
            /\ walked' = [walked EXCEPT ![r] = seen]
            /\ cursor' = [cursor EXCEPT ![r] = parent[c]]
            /\ UNCHANGED <<rows, pc, call>>
         \/ /\ c \in walked[r] \/ parent[c] \notin Categories
            /\ ContinueIf(r, c \notin walked[r] /\ (parent[c] = Root => Cardinality(seen) <= MaxDepth),
                          "write")

\* Mutant: the walk counts the missing parent of a root as an ancestor.
WalkPastRoot(r) ==
  LET c == cursor[r]
  IN  /\ pc[r] = "walk"
      /\ \/ /\ c \in Categories \ walked[r]
            /\ walked' = [walked EXCEPT ![r] = @ \cup {parent[c]}]
            /\ cursor' = [cursor EXCEPT ![r] = parent[c]]
            /\ UNCHANGED <<rows, pc, call>>
         \/ /\ c \in walked[r] \/ c \notin Categories
            /\ ContinueIf(r, Cardinality(walked[r]) < MaxDepth, "write")

\* One SELECT of _get_ancestors.  The walk ends at a root, where the number of
\* ancestors is checked, or at a row that is gone (ancestors is None, which is
\* not checked); a category met twice ends the request.
WalkUp(r) ==
  LET c == cursor[r]
      seen == walked[r] \cup {c}
  IN  /\ pc[r] = "walk"
      /\ \/ /\ c \notin walked[r]
            /\ parent[c] \in Categories
            /\ walked' = [walked EXCEPT ![r] = seen]
            /\ cursor' = [cursor EXCEPT ![r] = parent[c]]
            /\ UNCHANGED <<rows, pc, call>>
         \/ /\ c \in walked[r] \/ parent[c] \notin Categories
            /\ ContinueIf(r, c \notin walked[r] /\ (parent[c] = Root => Cardinality(seen) < MaxDepth),
                          "write")

\* is_in_use: one recursive SELECT over the subtree
CheckInUse(r) ==
  /\ pc[r] = "in_use"
  /\ ContinueIf(r, Subtree(parent, call[r].category) \cap named = {}, "write")

--------------------------------------------------------------------------------
(* The write of a request: from the first INSERT, UPDATE or DELETE to commit *)

\* INSERT INTO category under a fresh uuid.
CreateCategory(r) ==
  LET q == call[r].parent
  IN  /\ pc[r] = "write" /\ call[r].op = "create"
      /\ ParentExists(parent, q)
      /\ \E c \in Categories \ used :
           /\ parent' = [parent EXCEPT ![c] = q]
           /\ used' = used \cup {c}
      /\ Finish(r)
      /\ UNCHANGED named

\* Mutant: the height of the moved subtree is not counted.
MoveRefusedByDepth(c, q) ==
  /\ c \in Live(parent)
  /\ q \in Live(parent)
  /\ c \in Ancestors(parent, q) \/ Depth(parent, q) + 1 > MaxDepth

\* Mutant: a move is compared with the new parent only.
MoveRefusedUnderItself(c, q) ==
  /\ c \in Live(parent)
  /\ q \in Live(parent)
  /\ c = q \/ Depth(parent, q) + 1 > MaxDepth

\* update_parent refuses to move category c under q: a cycle, or too deep.
MoveRefused(c, q) ==
  /\ c \in Live(parent)
  /\ q \in Live(parent)
  /\ \/ c \in Ancestors(parent, q)
     \/ Depth(parent, q) + Height(parent, c) > MaxDepth

\* Mutant: INSERT OR REPLACE in place of UPDATE.
UpsertCategory(r) ==
  LET c == call[r].category
      q == call[r].parent
  IN  /\ pc[r] = "write" /\ call[r].op = "update"
      /\ ~ MoveRefused(c, q)
      /\ ParentExists(parent, q)
      /\ parent' = [parent EXCEPT ![c] = q]
      /\ Finish(r)
      /\ UNCHANGED <<named, used>>

\* UPDATE category: no row is affected when the category is gone by then.
UpdateCategory(r) ==
  LET c == call[r].category
      q == call[r].parent
  IN  /\ pc[r] = "write" /\ call[r].op = "update"
      /\ ~ MoveRefused(c, q)
      /\ IF c \in Live(parent)
         THEN ParentExists(parent, q) /\ parent' = [parent EXCEPT ![c] = q]
         ELSE UNCHANGED parent
      /\ Finish(r)
      /\ UNCHANGED <<named, used>>

\* Mutant: is_in_use decides alone, without ON DELETE RESTRICT.
DeleteWithoutRestrict(r) ==
  LET gone == Subtree(parent, call[r].category)
  IN  /\ pc[r] = "write" /\ call[r].op = "delete"
      /\ parent' = [c \in Categories |-> IF c \in gone THEN None ELSE parent[c]]
      /\ Finish(r)
      /\ UNCHANGED <<named, used>>

\* DELETE FROM category: its subtree goes with it (ON DELETE CASCADE), unless
\* a movement or a budget names a category of it (ON DELETE RESTRICT).
DeleteCategory(r) ==
  LET gone == Subtree(parent, call[r].category)
  IN  /\ pc[r] = "write" /\ call[r].op = "delete"
      /\ gone \cap named = {}
      /\ parent' = [c \in Categories |-> IF c \in gone THEN None ELSE parent[c]]
      /\ Finish(r)
      /\ UNCHANGED <<named, used>>

\* A request ends without writing: a name check, a foreign key or update_parent
\* refused it, the writer lock was not obtained, or the process stopped.
Fail(r) ==
  /\ pc[r] # "idle"
  /\ Finish(r)
  /\ UNCHANGED rows

--------------------------------------------------------------------------------
(* The other use cases of the ledger *)

\* A movement or a budget that names c is stored; its foreign key asks for c.
NameCategory(c) ==
  /\ c \in Live(parent) \ named
  /\ named' = named \cup {c}
  /\ UNCHANGED <<parent, used, pc, call, walked, cursor>>

\* The last movement or budget that names c goes.
ReleaseCategory(c) ==
  /\ c \in named
  /\ named' = named \ {c}
  /\ UNCHANGED <<parent, used, pc, call, walked, cursor>>

RequestStep(r) ==
  \/ BeginCreate(r) \/ BeginUpdate(r) \/ BeginDelete(r)
  \/ GetCategory(r) \/ GetParent(r) \/ CountCategories(r) \/ WalkUp(r) \/ CheckInUse(r)
  \/ CreateCategory(r) \/ UpdateCategory(r) \/ DeleteCategory(r) \/ Fail(r)

Next ==
  \/ \E r \in Requests : RequestStep(r)
  \/ \E c \in Categories : NameCategory(c) \/ ReleaseCategory(c)

Spec == Init /\ [][Next]_vars

--------------------------------------------------------------------------------
(* Properties *)

\* Every variable keeps its type.
TypeOK ==
  /\ parent \in [Categories -> Categories \cup {Root, None}]
  /\ named \subseteq Categories
  /\ used \subseteq Categories
  /\ pc \in [Requests -> Steps]
  /\ call \in [Requests -> Call]
  /\ walked \in [Requests -> SUBSET Categories]
  /\ cursor \in [Requests -> Categories \cup {Root, None}]

\* No set of categories has all its parents within itself: every walk along
\* parent_uuid ends at a root, although the walks of two moves may interleave
\* with each other's writes.
Acyclic ==
  \A S \in SUBSET Live(parent) : S # {} => \E c \in S : parent[c] \notin S

\* The parent of every category exists (get_tree looks it up), and so does every
\* category that a movement or a budget names, whatever is deleted between the
\* checks of a request and its write.
NoDanglingReference ==
  /\ \A c \in Live(parent) : ParentExists(parent, parent[c])
  /\ named \subseteq Live(parent)

\* A category never gets deeper than one level below the documented limit: a
\* creation may place one child under a parent that a move put at the limit
\* after the creation walked over its ancestors, and nothing goes below it.
DepthOvershoot == \A c \in Live(parent) : Depth(parent, c) <= MaxDepth + 1

\* The creations that passed the count and have not ended.
Admitted == {r \in Requests : pc[r] \in {"walk", "write"} /\ call[r].op = "create"}

\* The size is counted before the INSERT, so creations that pass the count
\* together may pass the limit; otherwise they keep to what such a limit
\* promises, and pass it by fewer categories than there are requests at a time.
Limit == INSTANCE AdmissionLimit WITH
  Things <- Categories, MaxStored <- MaxSize, stored <- Live(parent), admitted <- Admitted
CategoriesImplementLimit == Limit!Spec
SizeOvershoot ==
  Cardinality(Live(parent)) + Cardinality(Admitted) < MaxSize + Cardinality(Requests)

\* The ancestors that r walked over are not those of the new parent any more.
Stale(r) ==
  /\ pc[r] = "write" /\ call[r].op = "create"
  /\ walked[r] \cup {cursor[r]} # Ancestors(parent, call[r].parent)

\* A move never puts a category, or one of its subtree, below the depth limit,
\* and a creation only when a move made its walk over the ancestors stale.
DepthKept ==
  [][parent' # parent =>
       \A c \in Live(parent') :
         Depth(parent', c) > MaxDepth =>
           \/ c \in Live(parent) /\ Depth(parent, c) > MaxDepth
           \/ c \notin Live(parent) /\ \E r \in Requests : Stale(r) /\ pc'[r] = "idle"]_vars

\* A category that was deleted never comes back, although an update that found
\* it writes after the deletion.
NoResurrection ==
  [][\A c \in used : parent[c] = None => parent'[c] = None]_vars

\* docs/domain.md: categories form a tree with a maximum depth of five and up to
\* 1,000 nodes.
TreeAsDocumented ==
  /\ \A c \in Live(parent) : Depth(parent, c) <= MaxDepth
  /\ Cardinality(Live(parent)) <= MaxSize
================================================================================
