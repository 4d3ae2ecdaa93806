--------------------------- MODULE CategoryTreeProofs --------------------------
(***************************************************************************)
(* Type correctness and the safety of CategoryTree: no cycle, no dangling  *)
(* reference, no category that comes back, for every number of categories  *)
(* and of concurrent requests.                                             *)
(***************************************************************************)
EXTENDS CategoryTree, FiniteSetTheorems, TLAPS

\* A category that is there has a uuid that was generated.
IdsUsed == Live(parent) \subseteq used

\* Where the walk of a creation stands at each step of its own.
RequestInv(r) ==
  /\ pc[r] \in {"category", "in_use"} => call[r].op # "create"
  /\ pc[r] = "parent" /\ call[r].op = "create" => cursor[r] = call[r].parent
  /\ pc[r] = "count" => cursor[r] = call[r].parent
  /\ pc[r] = "walk" => cursor[r] \in Categories

RequestsInv == \A r \in Requests : RequestInv(r)

IInv == TypeOK /\ RequestsInv /\ IdsUsed /\ NoDanglingReference /\ Acyclic

--------------------------------------------------------------------------------
(* The tree *)

\* The walk from a category stays within every set that is closed upwards.
LEMMA AncestorsLeast ==
  ASSUME NEW p, NEW S \in UpClosed(p), NEW c \in S
  PROVE  Ancestors(p, c) \subseteq S
  BY DEF Ancestors

\* The walk from a category starts at it and goes on to the parent.
LEMMA AncestorsClosed ==
  ASSUME NEW p, NEW c \in Categories
  PROVE  /\ c \in Ancestors(p, c)
         /\ \A x \in Ancestors(p, c) : p[x] \in Categories => p[x] \in Ancestors(p, c)
<1>1. c \in Ancestors(p, c)
  BY DEF Ancestors
<1>2. ASSUME NEW x \in Ancestors(p, c), p[x] \in Categories
      PROVE  p[x] \in Ancestors(p, c)
  <2>1. ASSUME NEW S \in UpClosed(p), c \in S
        PROVE  p[x] \in S
    <3>1. x \in S
      BY <1>2, <2>1 DEF Ancestors
    <3> QED
      BY <1>2, <2>1, <3>1 DEF UpClosed
  <2> QED
    BY <1>2, <2>1 DEF Ancestors
<1> QED
  BY <1>1, <1>2

\* The ancestors of a category are among those of its children.
LEMMA AncestorsOfChild ==
  ASSUME NEW p, NEW x \in Categories, p[x] \in Categories
  PROVE  Ancestors(p, p[x]) \subseteq Ancestors(p, x)
<1>1. \A y \in Ancestors(p, x) : y \in Categories
  BY DEF Ancestors
<1>2. Ancestors(p, x) \in UpClosed(p)
  BY <1>1, AncestorsClosed DEF UpClosed
<1>3. p[x] \in Ancestors(p, x)
  BY AncestorsClosed
<1> QED
  BY <1>2, <1>3, AncestorsLeast

\* A set that its parents never leave, as Acyclic excludes.
Trapped(p, S) == S # {} /\ \A c \in S : p[c] \in S

\* Moving a category under one that it is not an ancestor of closes no cycle.
LEMMA MoveKeepsAcyclic ==
  ASSUME NEW p \in [Categories -> Categories \cup {Root, None}],
         NEW c \in Live(p), NEW q \in Live(p) \cup {Root},
         q \in Live(p) => c \notin Ancestors(p, q),
         \A S \in SUBSET Live(p) : ~ Trapped(p, S),
         NEW S \in SUBSET Live(p)
  PROVE  ~ Trapped([p EXCEPT ![c] = q], S)
<1> DEFINE moved == [p EXCEPT ![c] = q]
<1> SUFFICES ASSUME Trapped(moved, S) PROVE FALSE
  OBVIOUS
<1>0. /\ Live(p) \subseteq Categories
      /\ \A x \in Categories \ {c} : moved[x] = p[x]
      /\ moved[c] = q
  BY DEF Live
<1>1. CASE c \notin S
  <2>1. \A x \in S : moved[x] = p[x]
    BY <1>0, <1>1
  <2> QED
    BY <2>1 DEF Trapped
<1>2. CASE c \in S
  <2>1. q \in S /\ q \in Live(p)
    BY <1>0, <1>2 DEF Trapped
  <2> DEFINE T == S \cap Ancestors(p, q)
  <2>2. q \in T /\ c \notin T
    BY <1>0, <2>1, AncestorsClosed
  <2>3. ASSUME NEW x \in T PROVE p[x] \in T
    <3>1. x \in Categories /\ x # c
      BY <1>0, <2>2
    <3>2. p[x] \in S
      BY <1>0, <3>1 DEF Trapped
    <3>3. p[x] \in Categories
      BY <1>0, <3>2
    <3> QED
      BY <1>0, <2>1, <3>2, <3>3, AncestorsClosed
  <2> QED
    BY <2>2, <2>3 DEF Trapped
<1> QED
  BY <1>1, <1>2

LEMMA AcyclicMeans ==
  Acyclic <=> \A S \in SUBSET Live(parent) : ~ Trapped(parent, S)
  BY DEF Acyclic, Trapped

LEMMA AcyclicMeansNext ==
  Acyclic' <=> \A S \in SUBSET Live(parent') : ~ Trapped(parent', S)
  BY DEF Acyclic, Trapped, Live

--------------------------------------------------------------------------------
(* The steps of a request before its write *)

\* The part of the invariant that speaks of requests, and the one of the rows.
LocalTypes ==
  /\ pc \in [Requests -> Steps]
  /\ call \in [Requests -> Call]
  /\ walked \in [Requests -> SUBSET Categories]
  /\ cursor \in [Requests -> Categories \cup {Root, None}]
RowTypes ==
  /\ parent \in [Categories -> Categories \cup {Root, None}]
  /\ named \subseteq Categories
  /\ used \subseteq Categories
LocalInv == LocalTypes /\ RequestsInv
RowInv == RowTypes /\ IdsUsed /\ NoDanglingReference /\ Acyclic

LEMMA InvariantParts == IInv <=> LocalInv /\ RowInv
  BY DEF IInv, LocalInv, RowInv, TypeOK, LocalTypes, RowTypes

LEMMA InvariantPartsNext == IInv' <=> LocalInv' /\ RowInv'
  BY DEF IInv, LocalInv, RowInv, TypeOK, LocalTypes, RowTypes

LEMMA NoCallType == NoCall \in Call
  BY DEF NoCall, Call

LEMMA FinishKeeps ==
  ASSUME LocalInv, NEW r \in Requests, Finish(r)
  PROVE  LocalInv'
<1>1. LocalTypes'
  BY NoCallType DEF LocalInv, LocalTypes, Finish, Goto, Steps
<1>2. ASSUME NEW s \in Requests PROVE RequestInv(s)'
  BY DEF LocalInv, LocalTypes, RequestsInv, RequestInv, Finish, Goto
<1> QED
  BY <1>1, <1>2 DEF LocalInv, RequestsInv

LEMMA ContinueKeeps ==
  ASSUME LocalInv, NEW r \in Requests, NEW check, NEW step \in Steps,
         ContinueIf(r, check, step), step # "category",
         step = "in_use" => call[r].op # "create",
         check /\ step = "parent" /\ call[r].op = "create" => cursor[r] = call[r].parent,
         check /\ step = "count" => cursor[r] = call[r].parent,
         check /\ step = "walk" => cursor[r] \in Categories
  PROVE  LocalInv' /\ UNCHANGED rows
<1>1. CASE check
  <2>1. Goto(r, step) /\ UNCHANGED <<call, walked, cursor>> /\ UNCHANGED rows
    BY <1>1 DEF ContinueIf, rows
  <2>2. LocalTypes'
    BY <2>1 DEF LocalInv, LocalTypes, Goto
  <2>3. ASSUME NEW s \in Requests PROVE RequestInv(s)'
    BY <1>1, <2>1 DEF LocalInv, LocalTypes, RequestsInv, RequestInv, Goto
  <2> QED
    BY <2>1, <2>2, <2>3 DEF LocalInv, RequestsInv
<1>2. CASE ~ check
  BY <1>2, FinishKeeps DEF ContinueIf, rows
<1> QED
  BY <1>1, <1>2

\* No step before the write touches a row.
LEMMA ReadsKeep ==
  ASSUME LocalInv, RowTypes, NEW r \in Requests,
         \/ BeginCreate(r) \/ BeginUpdate(r) \/ BeginDelete(r) \/ GetCategory(r)
         \/ GetParent(r) \/ CountCategories(r) \/ WalkUp(r) \/ CheckInUse(r) \/ Fail(r)
  PROVE  LocalInv' /\ UNCHANGED rows
<1>1. CASE BeginCreate(r)
  <2>1. PICK q \in Categories \cup {Root} :
          /\ call' = [call EXCEPT ![r] = [op |-> "create", category |-> None, parent |-> q]]
          /\ cursor' = [cursor EXCEPT ![r] = q]
          /\ Goto(r, IF q = Root THEN "count" ELSE "parent")
          /\ UNCHANGED <<parent, named, used, walked>>
    BY <1>1 DEF BeginCreate, RowTypes, rows
  <2>2. LocalTypes'
    BY <2>1 DEF LocalInv, LocalTypes, Goto, Call, Steps
  <2>3. ASSUME NEW s \in Requests PROVE RequestInv(s)'
    BY <2>1 DEF LocalInv, LocalTypes, RequestsInv, RequestInv, Goto
  <2> QED
    BY <2>1, <2>2, <2>3 DEF LocalInv, RequestsInv, rows
<1>2. CASE BeginUpdate(r)
  <2>1. PICK c \in Categories, q \in Categories \cup {Root} :
          /\ call' = [call EXCEPT ![r] = [op |-> "update", category |-> c, parent |-> q]]
          /\ Goto(r, "category")
          /\ UNCHANGED <<parent, named, used, walked, cursor>>
    BY <1>2 DEF BeginUpdate, RowTypes, rows
  <2>2. LocalTypes'
    BY <2>1 DEF LocalInv, LocalTypes, Goto, Call, Steps
  <2>3. ASSUME NEW s \in Requests PROVE RequestInv(s)'
    BY <2>1 DEF LocalInv, LocalTypes, RequestsInv, RequestInv, Goto
  <2> QED
    BY <2>1, <2>2, <2>3 DEF LocalInv, RequestsInv, rows
<1>3. CASE BeginDelete(r)
  <2>1. PICK c \in Categories :
          /\ call' = [call EXCEPT ![r] = [op |-> "delete", category |-> c, parent |-> Root]]
          /\ Goto(r, "category")
          /\ UNCHANGED <<parent, named, used, walked, cursor>>
    BY <1>3 DEF BeginDelete, RowTypes, rows
  <2>2. LocalTypes'
    BY <2>1 DEF LocalInv, LocalTypes, Goto, Call, Steps
  <2>3. ASSUME NEW s \in Requests PROVE RequestInv(s)'
    BY <2>1 DEF LocalInv, LocalTypes, RequestsInv, RequestInv, Goto
  <2> QED
    BY <2>1, <2>2, <2>3 DEF LocalInv, RequestsInv, rows
<1>4. CASE GetCategory(r)
  <2> DEFINE op == call[r].op
             step == IF op = "delete" THEN "in_use"
                     ELSE IF call[r].parent = Root THEN "write" ELSE "parent"
  <2>1. /\ ContinueIf(r, call[r].category \in Live(parent), step)
        /\ step \in Steps
        /\ op # "create"
    BY <1>4 DEF GetCategory, Steps, LocalInv, RequestsInv, RequestInv
  <2>2. step # "count" /\ step # "walk"
    OBVIOUS
  <2> QED
    BY <2>1, <2>2, ContinueKeeps
<1>5. CASE GetParent(r)
  <2> DEFINE step == IF call[r].op = "create" THEN "count" ELSE "write"
  <2>1. /\ ContinueIf(r, call[r].parent \in Live(parent), step)
        /\ step \in Steps
        /\ step = "count" => cursor[r] = call[r].parent
    BY <1>5 DEF GetParent, Steps, LocalInv, RequestsInv, RequestInv
  <2> QED
    BY <2>1, ContinueKeeps
<1>6. CASE CountCategories(r)
  <2> DEFINE step == IF call[r].parent = Root THEN "write" ELSE "walk"
  <2>1. /\ ContinueIf(r, Cardinality(Live(parent)) < MaxSize, step)
        /\ step \in Steps
        /\ step = "walk" => cursor[r] \in Categories
    BY <1>6 DEF CountCategories, Steps, LocalInv, LocalTypes, RequestsInv, RequestInv, Call
  <2> QED
    BY <2>1, ContinueKeeps
<1>7. CASE WalkUp(r)
  <2>1. cursor[r] \in Categories
    BY <1>7 DEF WalkUp, LocalInv, RequestsInv, RequestInv
  <2>2. CASE /\ parent[cursor[r]] \in Categories
             /\ walked' = [walked EXCEPT ![r] = walked[r] \cup {cursor[r]}]
             /\ cursor' = [cursor EXCEPT ![r] = parent[cursor[r]]]
             /\ UNCHANGED <<parent, named, used, pc, call>>
    <3>1. LocalTypes'
      BY <2>1, <2>2 DEF LocalInv, LocalTypes
    <3>2. ASSUME NEW s \in Requests PROVE RequestInv(s)'
      BY <1>7, <2>2 DEF LocalInv, LocalTypes, RequestsInv, RequestInv, WalkUp
    <3> QED
      BY <2>2, <3>1, <3>2 DEF LocalInv, RequestsInv, rows
  <2>3. CASE \E check : ContinueIf(r, check, "write")
    <3>1. "write" \in Steps
      BY DEF Steps
    <3> QED
      BY <2>3, <3>1, ContinueKeeps
  <2> QED
    BY <1>7, <2>2, <2>3 DEF WalkUp, rows
<1>8. CASE CheckInUse(r)
  <2>1. "write" \in Steps
    BY DEF Steps
  <2> QED
    BY <1>8, <2>1, ContinueKeeps DEF CheckInUse
<1>9. CASE Fail(r)
  BY <1>9, FinishKeeps DEF Fail, rows
<1> QED
  BY <1>1, <1>2, <1>3, <1>4, <1>5, <1>6, <1>7, <1>8, <1>9

--------------------------------------------------------------------------------
(* The writes *)

LEMMA RowsUnchanged ==
  ASSUME RowInv, UNCHANGED rows
  PROVE  RowInv'
<1>1. RowTypes' /\ IdsUsed' /\ NoDanglingReference'
  BY DEF RowInv, rows, RowTypes, IdsUsed, NoDanglingReference, Live, ParentExists
<1>2. Acyclic'
  BY DEF RowInv, rows, Acyclic, Live
<1> QED
  BY <1>1, <1>2 DEF RowInv

\* The parent of a category that has none is no category.
LEMMA LiveTypes ==
  ASSUME RowTypes
  PROVE  /\ Live(parent) \subseteq Categories
         /\ \A c \in Categories : c \in Live(parent) <=> parent[c] # None
         /\ \A c \in Categories : parent[c] \in Categories => c \in Live(parent)
  BY ConstantsAssumption DEF RowTypes, Live

LEMMA CreateKeeps ==
  ASSUME RowInv, LocalInv, NEW r \in Requests, CreateCategory(r)
  PROVE  RowInv'
<1> DEFINE q == call[r].parent
<1>1. PICK c \in Categories \ used :
        /\ parent' = [parent EXCEPT ![c] = q]
        /\ used' = used \cup {c}
        /\ UNCHANGED named
        /\ q = Root \/ q \in Live(parent)
  BY DEF CreateCategory, ParentExists
<1>2. q \in Categories \cup {Root} /\ q # None
  BY ConstantsAssumption DEF LocalInv, LocalTypes, Call
<1>3. /\ RowTypes'
      /\ c \notin Live(parent)
      /\ parent'[c] = q
      /\ \A x \in Categories \ {c} : parent'[x] = parent[x]
  BY <1>1, <1>2 DEF RowInv, RowTypes, IdsUsed
<1>4. Live(parent') = Live(parent) \cup {c}
  BY <1>1, <1>2, <1>3 DEF Live
<1>5. IdsUsed'
  BY <1>1, <1>4 DEF RowInv, IdsUsed, Live
<1>6. NoDanglingReference'
  <2>1. ASSUME NEW x \in Live(parent') PROVE ParentExists(parent', parent'[x])
    BY <1>1, <1>3, <1>4, <2>1, LiveTypes DEF RowInv, NoDanglingReference, ParentExists
  <2>2. named' \subseteq Live(parent')
    BY <1>1, <1>4 DEF RowInv, NoDanglingReference
  <2> QED
    BY <2>1, <2>2 DEF NoDanglingReference
<1>7. Acyclic'
  <2> SUFFICES ASSUME NEW S \in SUBSET Live(parent'), Trapped(parent', S) PROVE FALSE
    BY AcyclicMeansNext
  <2> DEFINE T == S \ {c}
  <2>1. T \in SUBSET Live(parent)
    BY <1>4
  <2>2. ASSUME NEW x \in T PROVE parent[x] \in T
    <3>1. parent[x] = parent'[x] /\ parent'[x] \in S
      BY <1>3, <2>1, <2>2, LiveTypes DEF Trapped, RowInv
    <3>2. parent[x] # c
      BY <1>3, <2>1, <2>2, ConstantsAssumption DEF RowInv, NoDanglingReference, ParentExists
    <3> QED
      BY <3>1, <3>2
  <2>3. T # {}
    <3> SUFFICES ASSUME T = {} PROVE FALSE
      OBVIOUS
    <3>1. S = {c} /\ q = c
      BY <1>3 DEF Trapped
    <3> QED
      BY <1>1, <1>3, <3>1, ConstantsAssumption
  <2> QED
    BY <2>1, <2>2, <2>3, AcyclicMeans DEF Trapped, RowInv
<1> QED
  BY <1>3, <1>5, <1>6, <1>7 DEF RowInv

LEMMA UpdateKeeps ==
  ASSUME RowInv, LocalInv, NEW r \in Requests, UpdateCategory(r)
  PROVE  RowInv'
<1> DEFINE c == call[r].category
           q == call[r].parent
<1>1. CASE c \notin Live(parent)
  BY <1>1, RowsUnchanged DEF UpdateCategory, rows
<1>2. CASE c \in Live(parent)
  <2>1. /\ parent' = [parent EXCEPT ![c] = q]
        /\ UNCHANGED <<named, used>>
        /\ q = Root \/ q \in Live(parent)
        /\ q \in Live(parent) => c \notin Ancestors(parent, q)
    BY <1>2 DEF UpdateCategory, ParentExists, MoveRefused
  <2>2. /\ q \in Categories \cup {Root} /\ q # None
        /\ c \in Categories
    BY <1>2, ConstantsAssumption DEF LocalInv, LocalTypes, Call, Live
  <2>3. /\ RowTypes'
        /\ parent'[c] = q
        /\ \A x \in Categories \ {c} : parent'[x] = parent[x]
    BY <2>1, <2>2 DEF RowInv, RowTypes
  <2>4. Live(parent') = Live(parent)
    BY <1>2, <2>2, <2>3 DEF Live
  <2>5. IdsUsed'
    BY <2>1, <2>4 DEF RowInv, IdsUsed
  <2>6. NoDanglingReference'
    BY <2>1, <2>3, <2>4, LiveTypes DEF RowInv, NoDanglingReference, ParentExists
  <2>7. Acyclic'
    <3>1. parent \in [Categories -> Categories \cup {Root, None}]
      BY DEF RowInv, RowTypes
    <3>2. \A S \in SUBSET Live(parent) : ~ Trapped(parent, S)
      BY AcyclicMeans DEF RowInv
    <3>3. ASSUME NEW S \in SUBSET Live(parent) PROVE ~ Trapped([parent EXCEPT ![c] = q], S)
      BY <1>2, <2>1, <3>1, <3>2, MoveKeepsAcyclic
    <3> QED
      BY <2>1, <2>4, <3>3, AcyclicMeansNext
  <2> QED
    BY <2>3, <2>5, <2>6, <2>7 DEF RowInv
<1> QED
  BY <1>1, <1>2

LEMMA DeleteKeeps ==
  ASSUME RowInv, NEW r \in Requests, DeleteCategory(r)
  PROVE  RowInv'
<1> DEFINE root == call[r].category
           gone == Subtree(parent, root)
<1>1. /\ gone \cap named = {}
      /\ parent' = [x \in Categories |-> IF x \in gone THEN None ELSE parent[x]]
      /\ UNCHANGED <<named, used>>
  BY DEF DeleteCategory
<1>2. /\ RowTypes'
      /\ Live(parent') = Live(parent) \ gone
      /\ \A x \in Live(parent') : parent'[x] = parent[x]
  BY <1>1 DEF RowInv, RowTypes, Live
<1>3. IdsUsed'
  BY <1>1, <1>2 DEF RowInv, IdsUsed
<1>4. NoDanglingReference'
  <2>1. ASSUME NEW x \in Live(parent'), parent[x] \in Categories
        PROVE  parent[x] \notin gone
    <3>1. x \in Categories /\ x \in Live(parent) /\ x \notin gone
      BY <1>2, <2>1 DEF Live
    <3>2. Ancestors(parent, parent[x]) \subseteq Ancestors(parent, x)
      BY <2>1, <3>1, AncestorsOfChild
    <3> QED
      BY <3>1, <3>2 DEF Subtree
  <2>2. ASSUME NEW x \in Live(parent') PROVE ParentExists(parent', parent'[x])
    BY <1>2, <2>1, <2>2, LiveTypes DEF RowInv, NoDanglingReference, ParentExists
  <2>3. named' \subseteq Live(parent')
    BY <1>1, <1>2 DEF RowInv, NoDanglingReference
  <2> QED
    BY <2>2, <2>3 DEF NoDanglingReference
<1>5. Acyclic'
  <2> SUFFICES ASSUME NEW S \in SUBSET Live(parent'), Trapped(parent', S) PROVE FALSE
    BY AcyclicMeansNext
  <2>1. S \in SUBSET Live(parent) /\ Trapped(parent, S)
    BY <1>2 DEF Trapped
  <2> QED
    BY <2>1, AcyclicMeans DEF RowInv
<1> QED
  BY <1>2, <1>3, <1>4, <1>5 DEF RowInv

LEMMA NamingKeeps ==
  ASSUME RowInv, NEW c \in Categories, NameCategory(c) \/ ReleaseCategory(c)
  PROVE  RowInv'
<1>1. UNCHANGED <<parent, used>> /\ named' \subseteq named \cup Live(parent)
  BY DEF NameCategory, ReleaseCategory
<1>2. Live(parent') = Live(parent)
  BY <1>1 DEF Live
<1>3. RowTypes'
  BY <1>1, LiveTypes DEF RowInv, RowTypes
<1>4. IdsUsed' /\ Acyclic'
  BY <1>1, <1>2 DEF RowInv, IdsUsed, Acyclic
<1>5. NoDanglingReference'
  BY <1>1, <1>2 DEF RowInv, NoDanglingReference, ParentExists
<1> QED
  BY <1>3, <1>4, <1>5 DEF RowInv

--------------------------------------------------------------------------------
(* Depth and height *)

\* The ancestors of a category are itself and those of its parent.
LEMMA AncestorsStep ==
  ASSUME NEW p, NEW x \in Categories
  PROVE  Ancestors(p, x) = {x} \cup IF p[x] \in Categories THEN Ancestors(p, p[x]) ELSE {}
<1> DEFINE S == {x} \cup IF p[x] \in Categories THEN Ancestors(p, p[x]) ELSE {}
<1>1. S \subseteq Ancestors(p, x)
  BY AncestorsClosed, AncestorsOfChild
<1>2. S \in UpClosed(p)
  <2>1. S \in SUBSET Categories
    BY DEF Ancestors
  <2>2. ASSUME NEW y \in S, p[y] \in Categories PROVE p[y] \in S
    BY <2>2, AncestorsClosed
  <2> QED BY <2>1, <2>2 DEF UpClosed
<1>3. Ancestors(p, x) \subseteq S
  BY <1>2, AncestorsLeast
<1> QED BY <1>1, <1>3

LEMMA AncestorsTransitive ==
  ASSUME NEW p, NEW x \in Categories, NEW y \in Ancestors(p, x)
  PROVE  y \in Categories /\ Ancestors(p, y) \subseteq Ancestors(p, x)
<1>1. Ancestors(p, x) \in UpClosed(p)
  <2>1. Ancestors(p, x) \in SUBSET Categories
    BY DEF Ancestors
  <2> QED BY <2>1, AncestorsClosed DEF UpClosed
<1>2. y \in Categories
  BY DEF Ancestors
<1> QED BY <1>1, <1>2, AncestorsLeast

\* Two tables that agree on the ancestors of a category have the same ancestors
\* of each of them.
LEMMA AncestorsAgree ==
  ASSUME NEW p, NEW t, NEW x \in Categories, \A y \in Ancestors(p, x) : t[y] = p[y]
  PROVE  \A y \in Ancestors(p, x) : Ancestors(t, y) = Ancestors(p, y)
<1> SUFFICES ASSUME NEW y \in Ancestors(p, x)
    PROVE  Ancestors(t, y) = Ancestors(p, y)
  OBVIOUS
<1>1. y \in Categories /\ Ancestors(p, y) \subseteq Ancestors(p, x)
  BY AncestorsTransitive
<1>2. Ancestors(p, y) \subseteq Categories /\ Ancestors(t, y) \subseteq Categories
  BY DEF Ancestors
<1>3. Ancestors(p, y) \in UpClosed(t)
  <2>1. ASSUME NEW z \in Ancestors(p, y), t[z] \in Categories
        PROVE  t[z] \in Ancestors(p, y)
    BY <1>1, <2>1, AncestorsClosed
  <2> QED BY <1>2, <2>1 DEF UpClosed
<1>4. Ancestors(t, y) \subseteq Ancestors(p, y)
  BY <1>1, <1>3, AncestorsClosed, AncestorsLeast
<1>5. Ancestors(t, y) \in UpClosed(p)
  <2>1. ASSUME NEW z \in Ancestors(t, y), p[z] \in Categories
        PROVE  p[z] \in Ancestors(t, y)
    BY <1>1, <1>4, <2>1, AncestorsClosed
  <2> QED BY <1>2, <2>1 DEF UpClosed
<1> QED
  BY <1>1, <1>4, <1>5, AncestorsClosed, AncestorsLeast

\* In a forest no category is an ancestor of its parent.
LEMMA NotAboveParent ==
  ASSUME NEW p \in [Categories -> Categories \cup {Root, None}],
         \A S \in SUBSET Live(p) : ~ Trapped(p, S),
         NEW c \in Categories, p[c] \in Categories
  PROVE  c \notin Ancestors(p, p[c])
<1> SUFFICES ASSUME c \in Ancestors(p, p[c]) PROVE FALSE
  OBVIOUS
<1> DEFINE S == {x \in Ancestors(p, p[c]) : c \in Ancestors(p, x)}
<1>1. c \in S
  BY AncestorsClosed
<1>2. ASSUME NEW x \in S PROVE p[x] \in Categories /\ p[x] \in S
  <2>1. x \in Categories /\ c \in Ancestors(p, x)
    BY DEF Ancestors
  <2>2. CASE x = c
    BY <2>2, AncestorsClosed
  <2>3. CASE x # c
    <3>1. p[x] \in Categories /\ c \in Ancestors(p, p[x])
      BY <2>1, <2>3, AncestorsStep
    <3>2. p[x] \in Ancestors(p, p[c])
      BY <3>1, AncestorsClosed
    <3> QED BY <3>1, <3>2
  <2> QED BY <2>2, <2>3
<1>3. S \in SUBSET Live(p)
  BY <1>2, ConstantsAssumption DEF Live, Ancestors
<1>4. Trapped(p, S)
  BY <1>1, <1>2 DEF Trapped
<1> QED BY <1>3, <1>4

LEMMA CountOfCategories ==
  ASSUME NEW S \in SUBSET Categories
  PROVE  IsFiniteSet(S) /\ Cardinality(S) \in Nat /\ Cardinality(S) <= Cardinality(Categories)
         /\ Cardinality(Categories) \in Nat
  BY FS_Subset, FS_CardinalityType, ConstantsAssumption

LEMMA AncestorsCount ==
  ASSUME NEW p, NEW x
  PROVE  IsFiniteSet(Ancestors(p, x)) /\ Depth(p, x) \in Nat
<1>1. Ancestors(p, x) \in SUBSET Categories
  BY DEF Ancestors
<1> QED BY <1>1, CountOfCategories DEF Depth

\* Bounded numbers have a greatest one.
LEMMA GreatestExists ==
  ASSUME NEW n \in Nat, NEW S, S # {}, NEW f, \A x \in S : f[x] \in 0 .. n
  PROVE  \E h \in 0 .. n : (\A x \in S : f[x] <= h) /\ (\E x \in S : f[x] = h)
<1> DEFINE T == {h \in 0 .. n : \A x \in S : f[x] <= h}
<1>1. n \in T /\ T \subseteq Nat
  OBVIOUS
<1>2. PICK h \in T : \A k \in T : ~ (<<k, h>> \in OpToRel(<, Nat))
  BY <1>1, NatLessThanWellFounded, WFMin
<1>3. \A k \in T : ~ (k < h)
  BY <1>1, <1>2 DEF OpToRel
<1>4. \E x \in S : f[x] = h
  <2> SUFFICES ASSUME \A x \in S : f[x] # h PROVE FALSE
    OBVIOUS
  <2>1. \A x \in S : f[x] \in 0 .. n /\ f[x] <= h /\ f[x] # h
    OBVIOUS
  <2>2. h - 1 \in 0 .. n
    BY <2>1
  <2>3. h - 1 \in T
    BY <2>1, <2>2
  <2> QED BY <1>1, <1>3, <2>3
<1> QED BY <1>4

\* No part of a subtree is higher than its height.
LEMMA HeightBounds ==
  ASSUME NEW p, NEW c, NEW x \in Subtree(p, c)
  PROVE  Height(p, c) \in Nat /\ Cardinality(Ancestors(p, x) \cap Subtree(p, c)) <= Height(p, c)
<1> DEFINE K(y) == Cardinality(Ancestors(p, y) \cap Subtree(p, c))
           n == Cardinality(Categories)
           f == [y \in Subtree(p, c) |-> K(y)]
           Bounds(h) == /\ \A y \in Subtree(p, c) : K(y) <= h
                        /\ \E y \in Subtree(p, c) : K(y) = h
<1>1. n \in Nat /\ \A y \in Subtree(p, c) : K(y) \in Nat /\ K(y) <= n
  <2>1. \A y : Ancestors(p, y) \cap Subtree(p, c) \in SUBSET Categories
    BY DEF Ancestors
  <2>2. {} \in SUBSET Categories
    OBVIOUS
  <2> QED BY <2>1, <2>2, CountOfCategories
<1> HIDE DEF K, n
<1>2. \A y \in Subtree(p, c) : f[y] = K(y) /\ f[y] \in 0 .. n
  BY <1>1
<1> HIDE DEF f
<1>3. \E h \in 0 .. n : (\A y \in Subtree(p, c) : f[y] <= h) /\ (\E y \in Subtree(p, c) : f[y] = h)
  <2> DEFINE S == Subtree(p, c)
  <2>1. S # {} /\ \A y \in S : f[y] \in 0 .. n
    BY <1>2
  <2> HIDE DEF S
  <2>2. \E h \in 0 .. n : (\A y \in S : f[y] <= h) /\ (\E y \in S : f[y] = h)
    BY <1>1, <2>1, GreatestExists
  <2> QED BY <2>2 DEF S
<1>4. \E h \in 0 .. n : Bounds(h)
  <2>1. PICK h \in 0 .. n : (\A y \in Subtree(p, c) : f[y] <= h) /\ (\E y \in Subtree(p, c) : f[y] = h)
    BY <1>3
  <2>2. PICK z \in Subtree(p, c) : f[z] = h
    BY <2>1
  <2>3. K(z) = h /\ \A y \in Subtree(p, c) : K(y) <= h
    BY <1>2, <2>1, <2>2
  <2> QED BY <2>3
<1>5. Height(p, c) = CHOOSE h \in 0 .. n : Bounds(h)
  BY DEF Height, K, n
<1> HIDE DEF Bounds
<1>6. Height(p, c) \in 0 .. n /\ Bounds(Height(p, c))
  BY <1>4, <1>5
<1> QED BY <1>1, <1>6 DEF Bounds, K

\* What a move makes of the depth of a category in the subtree that moves: under
\* a category, no more than its depth and the height of the subtree; to the root,
\* less than before unless the subtree was there already.
LEMMA MoveDepth ==
  ASSUME NEW p \in [Categories -> Categories \cup {Root, None}],
         \A S \in SUBSET Live(p) : ~ Trapped(p, S),
         Live(p) \in UpClosed(p),
         NEW c \in Live(p), NEW q \in Live(p) \cup {Root},
         q \in Live(p) => c \notin Ancestors(p, q),
         NEW x \in Live(p), c \in Ancestors(p, x)
  PROVE  /\ q \in Live(p) => Depth([p EXCEPT ![c] = q], x) <= Depth(p, q) + Height(p, c)
         /\ q = Root /\ p[c] \in Categories => Depth([p EXCEPT ![c] = q], x) < Depth(p, x)
<1> DEFINE t == [p EXCEPT ![c] = q]
           A == {y \in Ancestors(p, x) : c \in Ancestors(p, y)}
<1>1. /\ c \in Categories /\ x \in Categories
      /\ t[c] = q /\ \A y \in Categories \ {c} : t[y] = p[y]
      /\ A \subseteq Categories /\ x \in A
  BY AncestorsClosed DEF Live, Ancestors
<1> HIDE DEF t
<1>2. ASSUME NEW y \in A, y # c, p[y] \in Categories PROVE p[y] \in A
  <2>1. c \in Ancestors(p, p[y])
    BY <1>1, <1>2, AncestorsStep
  <2>2. p[y] \in Ancestors(p, x)
    BY <1>1, <1>2, AncestorsClosed
  <2> QED BY <2>1, <2>2
<1>3. CASE q \in Live(p)
  <2> DEFINE B == Ancestors(p, q)
  <2>1. q \in Categories /\ B \subseteq Categories /\ q \in B
    BY <1>3, AncestorsClosed DEF Live, Ancestors
  <2>2. A \cup B \in UpClosed(t)
    <3>1. ASSUME NEW y \in A \cup B, t[y] \in Categories PROVE t[y] \in A \cup B
      <4>1. CASE y = c
        BY <1>1, <2>1, <4>1
      <4>2. CASE y # c /\ y \in A
        BY <1>1, <1>2, <3>1, <4>2
      <4>3. CASE y # c /\ y \in B
        BY <1>1, <2>1, <3>1, <4>3, AncestorsClosed
      <4> QED BY <4>1, <4>2, <4>3
    <3> QED BY <1>1, <2>1, <3>1 DEF UpClosed
  <2>3. Ancestors(t, x) \in SUBSET (A \cup B)
    BY <1>1, <2>2, AncestorsLeast
  <2>4. A = Ancestors(p, x) \cap Subtree(p, c)
    <3>1. Ancestors(p, x) \subseteq Live(p)
      BY AncestorsLeast
    <3> QED BY <3>1 DEF Subtree
  <2>5. x \in Subtree(p, c)
    BY DEF Subtree
  <2>6. Height(p, c) \in Nat /\ Cardinality(A) <= Height(p, c)
    BY <2>4, <2>5, HeightBounds
  <2>7. /\ IsFiniteSet(A) /\ Cardinality(A) \in Nat
        /\ IsFiniteSet(B) /\ Cardinality(B) \in Nat
        /\ A \cap B \in SUBSET Categories /\ A \cup B \in SUBSET Categories
    BY <1>1, <2>1, CountOfCategories
  <2>8. /\ Cardinality(A \cap B) \in Nat /\ Cardinality(A \cup B) \in Nat /\ IsFiniteSet(A \cup B)
    BY <2>7, CountOfCategories
  <2>9. Cardinality(A \cup B) = Cardinality(A) + Cardinality(B) - Cardinality(A \cap B)
    BY <2>7, FS_Union
  <2>10. Depth(t, x) \in Nat /\ Depth(t, x) <= Cardinality(A \cup B)
    BY <2>3, <2>8, AncestorsCount, FS_Subset DEF Depth
  <2>11. Depth(t, x) <= Depth(p, q) + Height(p, c)
    BY <2>6, <2>7, <2>8, <2>9, <2>10 DEF Depth
  <2>12. q # Root
    BY <2>1, ConstantsAssumption
  <2> QED BY <2>11, <2>12 DEF t
<1>4. CASE q = Root
  <2>1. A \in UpClosed(t)
    BY <1>1, <1>2, <1>4, ConstantsAssumption DEF UpClosed
  <2>2. Ancestors(t, x) \subseteq A
    BY <1>1, <2>1, AncestorsLeast
  <2>3. ASSUME p[c] \in Categories PROVE Depth(t, x) < Depth(p, x)
    <3>1. p[c] \in Ancestors(p, x)
      BY <1>1, <2>3, AncestorsClosed
    <3>2. p[c] \notin A
      BY <1>1, <2>3, NotAboveParent
    <3>3. Ancestors(t, x) \in SUBSET Ancestors(p, x) /\ Ancestors(t, x) # Ancestors(p, x)
      BY <2>2, <3>1, <3>2
    <3> QED BY <3>3, AncestorsCount, FS_Subset DEF Depth
  <2>4. q \notin Live(p)
    BY <1>4, ConstantsAssumption DEF Live
  <2> QED BY <2>3, <2>4 DEF t
<1> QED BY <1>3, <1>4

--------------------------------------------------------------------------------
(* Deleted categories *)

\* A category that is gone stays gone: its uuid is used, and an update of it
\* affects no row.
LEMMA GoneStaysGone ==
  ASSUME IInv, Next, NEW c \in used, parent[c] = None
  PROVE  parent'[c] = None
<1>0. RowInv /\ LocalInv /\ c \in Categories /\ c \notin Live(parent)
  BY InvariantParts DEF RowInv, RowTypes, Live
<1>1. ASSUME NEW r \in Requests, RequestStep(r) PROVE parent'[c] = None
  <2>1. CASE CreateCategory(r)
    BY <1>0, <2>1 DEF CreateCategory, RowInv, RowTypes
  <2>2. CASE UpdateCategory(r)
    BY <1>0, <2>2 DEF UpdateCategory, RowInv, RowTypes
  <2>3. CASE DeleteCategory(r)
    BY <1>0, <2>3 DEF DeleteCategory
  <2>4. CASE ~ (CreateCategory(r) \/ UpdateCategory(r) \/ DeleteCategory(r))
    <3>1. UNCHANGED rows
      BY <1>0, <1>1, <2>4, ReadsKeep DEF RequestStep, RowInv
    <3> QED
      BY <3>1 DEF rows
  <2> QED
    BY <2>1, <2>2, <2>3, <2>4
<1>2. ASSUME NEW x \in Categories, NameCategory(x) \/ ReleaseCategory(x) PROVE parent'[c] = None
  BY <1>2 DEF NameCategory, ReleaseCategory
<1> QED
  BY <1>1, <1>2 DEF Next

--------------------------------------------------------------------------------
(* What becomes of a category below the depth limit *)

LEMMA LiveIsUpClosed ==
  ASSUME RowInv
  PROVE  Live(parent) \in UpClosed(parent)
  BY ConstantsAssumption DEF RowInv, NoDanglingReference, ParentExists, UpClosed, Live

LEMMA AncestorsAreLive ==
  ASSUME RowInv, NEW x \in Live(parent)
  PROVE  x \in Categories /\ Ancestors(parent, x) \subseteq Live(parent)
  BY LiveIsUpClosed, AncestorsLeast DEF Live

\* A step leaves the ancestors of a category as they were when it is below the
\* limit afterwards: moves put none there, and below a category nothing is moved
\* without it.
KeepsDeep(x) ==
  Depth(parent', x) > MaxDepth =>
    \A y \in Ancestors(parent, x) : Ancestors(parent', y) = Ancestors(parent, y)

LEMMA MoveKeepsDeep ==
  ASSUME RowInv, LocalInv, DepthOvershoot, NEW r \in Requests, UpdateCategory(r),
         NEW x \in Live(parent)
  PROVE  KeepsDeep(x)
<1> SUFFICES ASSUME Depth(parent', x) > MaxDepth
    PROVE  \A y \in Ancestors(parent, x) : Ancestors(parent', y) = Ancestors(parent, y)
  BY DEF KeepsDeep
<1> PICK c, q : c = call[r].category /\ q = call[r].parent
  OBVIOUS
<1>1. x \in Categories
  BY AncestorsAreLive
<1>2. CASE \A y \in Ancestors(parent, x) : parent'[y] = parent[y]
  BY <1>1, <1>2, AncestorsAgree
<1>3. CASE ~ \A y \in Ancestors(parent, x) : parent'[y] = parent[y]
  <2>1. /\ c \in Live(parent)
        /\ parent' = [parent EXCEPT ![c] = q]
        /\ q \in Live(parent) \cup {Root}
        /\ q \in Live(parent) => c \notin Ancestors(parent, q)
                                 /\ ~ (Depth(parent, q) + Height(parent, c) > MaxDepth)
    BY <1>3 DEF UpdateCategory, MoveRefused, ParentExists
  <2>2. parent \in [Categories -> Categories \cup {Root, None}] /\ c \in Categories
    BY <2>1 DEF RowInv, RowTypes, Live
  <2>3. c \in Ancestors(parent, x) /\ parent[c] # q
    BY <1>3, <2>1, <2>2 DEF Ancestors
  <2>4. \A S \in SUBSET Live(parent) : ~ Trapped(parent, S)
    BY AcyclicMeans DEF RowInv
  <2>5. /\ q \in Live(parent) => Depth(parent', x) <= Depth(parent, q) + Height(parent, c)
        /\ q = Root /\ parent[c] \in Categories => Depth(parent', x) < Depth(parent, x)
    BY <2>1, <2>2, <2>3, <2>4, LiveIsUpClosed, MoveDepth
  <2>6. /\ Depth(parent', x) \in Nat /\ Depth(parent, q) \in Nat /\ Depth(parent, x) \in Nat
        /\ MaxDepth \in Nat
    BY AncestorsCount, ConstantsAssumption
  <2>7. CASE q \in Live(parent)
    <3>1. Height(parent, c) \in Nat
      BY <2>3, HeightBounds DEF Subtree
    <3> QED BY <2>1, <2>5, <2>6, <2>7, <3>1
  <2>8. CASE q = Root
    <3>1. parent[c] \in Live(parent) /\ parent[c] \in Categories
      BY <2>1, <2>3, <2>8 DEF RowInv, NoDanglingReference, ParentExists, Live
    <3>2. Depth(parent, x) <= MaxDepth + 1
      BY DEF DepthOvershoot
    <3> QED BY <2>5, <2>6, <2>8, <3>1, <3>2
  <2> QED BY <2>1, <2>7, <2>8
<1> QED BY <1>2, <1>3

LEMMA DeleteKeepsDeep ==
  ASSUME RowInv, NEW r \in Requests, DeleteCategory(r),
         NEW x \in Live(parent), x \in Live(parent')
  PROVE  KeepsDeep(x)
<1> PICK root : root = call[r].category
  OBVIOUS
<1>1. parent' = [y \in Categories |-> IF y \in Subtree(parent, root) THEN None ELSE parent[y]]
  BY DEF DeleteCategory
<1>2. x \in Categories /\ x \notin Subtree(parent, root)
  BY <1>1 DEF Live
<1>3. ASSUME NEW y \in Ancestors(parent, x) PROVE parent'[y] = parent[y]
  <2>1. y \in Categories /\ Ancestors(parent, y) \subseteq Ancestors(parent, x)
    BY <1>2, AncestorsTransitive
  <2>2. y \notin Subtree(parent, root)
    BY <1>2, <2>1 DEF Subtree
  <2> QED BY <1>1, <2>1, <2>2
<1> QED BY <1>2, <1>3, AncestorsAgree DEF KeepsDeep

\* A creation changes no ancestors but those of the category it creates, which is
\* one level below its parent.
LEMMA CreateDepth ==
  ASSUME RowInv, LocalInv, NEW r \in Requests, CreateCategory(r), NEW x \in Live(parent')
  PROVE  /\ x \in Live(parent) => KeepsDeep(x)
         /\ x \notin Live(parent) /\ call[r].parent = Root => Depth(parent', x) = 1
         /\ x \notin Live(parent) /\ call[r].parent # Root =>
              call[r].parent \in Live(parent) /\ Depth(parent', x) <= Depth(parent, call[r].parent) + 1
<1> PICK q : q = call[r].parent
  OBVIOUS
<1>1. PICK c \in Categories \ used : parent' = [parent EXCEPT ![c] = q] /\ (q = Root \/ q \in Live(parent))
  BY DEF CreateCategory, ParentExists
<1>2. c \notin Live(parent) /\ parent'[c] = q /\ \A y \in Categories \ {c} : parent'[y] = parent[y]
  BY <1>1 DEF RowInv, RowTypes, IdsUsed
<1>3. ASSUME NEW z \in Live(parent)
      PROVE  \A y \in Ancestors(parent, z) : Ancestors(parent', y) = Ancestors(parent, y)
  <2>1. z \in Categories /\ \A y \in Ancestors(parent, z) : parent'[y] = parent[y]
    BY <1>2, AncestorsAreLive DEF Live
  <2> QED BY <2>1, AncestorsAgree
<1>4. ASSUME x \notin Live(parent) PROVE x = c /\ x \in Categories
  BY <1>2, <1>4 DEF Live
<1>5. ASSUME x \notin Live(parent), q = Root PROVE Depth(parent', x) = 1
  <2>1. Ancestors(parent', x) = {x}
    BY <1>2, <1>4, <1>5, AncestorsStep, ConstantsAssumption
  <2> QED BY <2>1, FS_Singleton DEF Depth
<1>6. ASSUME x \notin Live(parent), q # Root
      PROVE  q \in Live(parent) /\ Depth(parent', x) <= Depth(parent, q) + 1
  <2>1. q \in Live(parent) /\ q \in Categories
    BY <1>1, <1>6 DEF Live
  <2>2. Ancestors(parent', q) = Ancestors(parent, q)
    BY <1>3, <2>1, AncestorsClosed
  <2>3. Ancestors(parent', x) = Ancestors(parent, q) \cup {x}
    BY <1>2, <1>4, <1>6, <2>1, <2>2, AncestorsStep
  <2>4. IsFiniteSet(Ancestors(parent, q)) /\ Depth(parent, q) \in Nat
    BY AncestorsCount
  <2> DEFINE A == Ancestors(parent, q)
  <2>5. Ancestors(parent', x) = A \cup {x} /\ IsFiniteSet(A) /\ Cardinality(A) \in Nat
    BY <2>3, <2>4 DEF Depth
  <2>6. Depth(parent', x) = Cardinality(Ancestors(parent', x)) /\ Depth(parent, q) = Cardinality(A)
    BY DEF Depth
  <2> HIDE DEF A
  <2>7. Cardinality(A \cup {x}) = Cardinality(A) \/ Cardinality(A \cup {x}) = Cardinality(A) + 1
    <3>1. IsFiniteSet(A) => Cardinality(A \cup {x}) = IF x \in A THEN Cardinality(A) ELSE Cardinality(A) + 1
      BY FS_AddElement
    <3> QED BY <2>5, <3>1
  <2> QED BY <2>1, <2>5, <2>6, <2>7
<1> QED BY <1>3, <1>5, <1>6 DEF KeepsDeep

--------------------------------------------------------------------------------
(* What a creation has seen of the ancestors *)

\* A category below the limit is there since its creation and its ancestors have
\* not changed since, so a walk that began at it has seen the first of them and
\* has the others before it.
WalkSees(r) ==
  LET q == call[r].parent
  IN  /\ cursor[r] \in used
      /\ q \in Live(parent) /\ Depth(parent, q) > MaxDepth =>
           /\ cursor[r] \in Ancestors(parent, q)
           /\ walked[r] \cup Ancestors(parent, cursor[r]) = Ancestors(parent, q)

\* A creation that is to write found its parent above the limit, where it still
\* is, and saw fewer ancestors than the limit or met one that is gone.
WalkEnded(r) ==
  LET q == call[r].parent
  IN  /\ q \in Live(parent) => Depth(parent, q) <= MaxDepth
      /\ \/ Cardinality(walked[r] \cup {cursor[r]}) < MaxDepth
         \/ cursor[r] \in used \ Live(parent)

Creates(r) == call[r].op = "create" /\ call[r].parent # Root

WalkInv(r) ==
  /\ pc[r] = "idle" => walked[r] = {} /\ ~ Creates(r)
  /\ Creates(r) =>
       /\ call[r].parent \in used
       /\ pc[r] \in {"parent", "count"} => walked[r] = {}
       /\ pc[r] \in {"parent", "count", "walk"} => WalkSees(r)
       /\ pc[r] = "write" => WalkEnded(r)

DepthInv == DepthOvershoot /\ \A r \in Requests : WalkInv(r)

\* What the walks rely on: uuids stay used, the deleted stay deleted, and what is
\* below the limit keeps its ancestors.
DepthStep ==
  /\ used \subseteq used'
  /\ \A x \in used : x \in Live(parent') => x \in Live(parent)
  /\ \A x \in Live(parent) : x \in Live(parent') => KeepsDeep(x)

LEMMA NextKeepsDeep ==
  ASSUME IInv, DepthOvershoot, Next
  PROVE  DepthStep
<1>0. RowInv /\ LocalInv
  BY InvariantParts
<1>1. ASSUME UNCHANGED parent PROVE \A x \in Live(parent) : KeepsDeep(x)
  BY <1>1 DEF KeepsDeep
<1>2. \A x \in Live(parent) : x \in Live(parent') => KeepsDeep(x)
  <2>1. ASSUME NEW r \in Requests, CreateCategory(r) \/ UpdateCategory(r) \/ DeleteCategory(r)
        PROVE  \A x \in Live(parent) : x \in Live(parent') => KeepsDeep(x)
    BY <1>0, <2>1, CreateDepth, MoveKeepsDeep, DeleteKeepsDeep
  <2>2. ASSUME NEW r \in Requests, RequestStep(r), ~ (CreateCategory(r) \/ UpdateCategory(r) \/ DeleteCategory(r))
        PROVE  UNCHANGED parent
    BY <1>0, <2>2, ReadsKeep DEF RequestStep, RowInv, rows
  <2>3. ASSUME NEW c \in Categories, NameCategory(c) \/ ReleaseCategory(c) PROVE UNCHANGED parent
    BY <2>3 DEF NameCategory, ReleaseCategory
  <2> QED BY <1>1, <2>1, <2>2, <2>3 DEF Next
<1>3. \A x \in used : x \in Live(parent') => x \in Live(parent)
  BY <1>0, GoneStaysGone DEF Live, RowInv, RowTypes
<1>4. used \subseteq used'
  <2>1. ASSUME NEW r \in Requests, RequestStep(r) PROVE used \subseteq used'
    <3>1. CASE CreateCategory(r) \/ UpdateCategory(r) \/ DeleteCategory(r)
      BY <3>1 DEF CreateCategory, UpdateCategory, DeleteCategory
    <3>2. CASE ~ (CreateCategory(r) \/ UpdateCategory(r) \/ DeleteCategory(r))
      BY <1>0, <2>1, <3>2, ReadsKeep DEF RequestStep, RowInv, rows
    <3> QED BY <3>1, <3>2
  <2> QED BY <2>1 DEF Next, NameCategory, ReleaseCategory
<1> QED BY <1>2, <1>3, <1>4 DEF DepthStep

\* A request that takes no step keeps its part of the invariant.
LEMMA OthersKeepWalk ==
  ASSUME IInv, DepthStep, NEW r \in Requests, WalkInv(r), pc'[r] = pc[r], call'[r] = call[r],
         walked'[r] = walked[r], cursor'[r] = cursor[r]
  PROVE  WalkInv(r)'
<1> PICK q, c, W : q = call[r].parent /\ c = cursor[r] /\ W = walked[r]
  OBVIOUS
<1>1. ASSUME q \in used, q \in Live(parent'), Depth(parent', q) > MaxDepth
      PROVE  /\ q \in Live(parent) /\ Depth(parent, q) > MaxDepth
             /\ Ancestors(parent', q) = Ancestors(parent, q)
             /\ \A y \in Ancestors(parent, q) : Ancestors(parent', y) = Ancestors(parent, y)
  <2>1. q \in Live(parent) /\ KeepsDeep(q)
    BY <1>1 DEF DepthStep
  <2>2. q \in Ancestors(parent, q)
    BY <2>1, AncestorsClosed DEF Live
  <2> QED BY <1>1, <2>1, <2>2 DEF KeepsDeep, Depth
<1>2. ASSUME q \in used, WalkSees(r) PROVE WalkSees(r)'
  <2>1. c \in used'
    BY <1>2 DEF WalkSees, DepthStep
  <2>2. ASSUME q \in Live(parent'), Depth(parent', q) > MaxDepth
        PROVE  c \in Ancestors(parent', q) /\ W \cup Ancestors(parent', c) = Ancestors(parent', q)
    <3>1. c \in Ancestors(parent, q) /\ W \cup Ancestors(parent, c) = Ancestors(parent, q)
      BY <1>1, <1>2, <2>2 DEF WalkSees
    <3> QED BY <1>1, <1>2, <2>2, <3>1
  <2> QED BY <2>1, <2>2 DEF WalkSees
<1>3. ASSUME q \in used, WalkEnded(r) PROVE WalkEnded(r)'
  <2>1. q \in Live(parent') => Depth(parent', q) <= MaxDepth
    <3> SUFFICES ASSUME q \in Live(parent'), Depth(parent', q) > MaxDepth PROVE FALSE
      BY AncestorsCount, ConstantsAssumption
    <3>1. q \in Live(parent) /\ Depth(parent, q) > MaxDepth
      BY <1>1, <1>3
    <3> QED BY <1>3, <3>1, AncestorsCount, ConstantsAssumption DEF WalkEnded
  <2>2. c \in used \ Live(parent) => c \in used' \ Live(parent')
    BY DEF DepthStep
  <2> QED BY <1>3, <2>1, <2>2 DEF WalkEnded
<1>4. pc'[r] = "idle" => walked'[r] = {} /\ ~ Creates(r)'
  BY DEF Creates, WalkInv
<1>5. ASSUME Creates(r)' PROVE WalkInv(r)'
  <2>1. Creates(r) /\ q \in used
    BY <1>5 DEF Creates, WalkInv
  <2>2. q \in used' /\ call'[r].parent = q
    BY <2>1 DEF DepthStep
  <2>3. pc'[r] \in {"parent", "count"} => walked'[r] = {}
    BY <2>1 DEF WalkInv
  <2>4. pc'[r] \in {"parent", "count", "walk"} => WalkSees(r)'
    BY <1>2, <2>1 DEF WalkInv
  <2>5. pc'[r] = "write" => WalkEnded(r)'
    BY <1>3, <2>1 DEF WalkInv
  <2> QED BY <1>4, <2>2, <2>3, <2>4, <2>5 DEF WalkInv
<1> QED BY <1>4, <1>5 DEF WalkInv

LEMMA FinishKeepsWalk ==
  ASSUME LocalInv, NEW r \in Requests, Finish(r)
  PROVE  WalkInv(r)'
<1>1. walked'[r] = {} /\ call'[r] = NoCall /\ pc'[r] = "idle"
  BY DEF Finish, Goto, LocalInv, LocalTypes
<1> QED BY <1>1 DEF WalkInv, Creates, NoCall

\* The walk over the ancestors ends in a refusal when the parent is below the
\* limit.
LEMMA WalkUpKeepsWalk ==
  ASSUME IInv, NEW r \in Requests, WalkInv(r), WalkUp(r)
  PROVE  WalkInv(r)'
<1>0. RowInv /\ LocalInv
  BY InvariantParts
<1> PICK q, c, W : q = call[r].parent /\ c = cursor[r] /\ W = walked[r]
  OBVIOUS
<1>1. CASE Finish(r)
  BY <1>0, <1>1, FinishKeepsWalk
<1>2. c \in Categories /\ pc[r] = "walk" /\ W \subseteq Categories
  BY <1>0 DEF WalkUp, LocalInv, RequestsInv, RequestInv, LocalTypes
<1>3. CASE /\ parent[c] \in Categories
           /\ walked' = [walked EXCEPT ![r] = W \cup {c}]
           /\ cursor' = [cursor EXCEPT ![r] = parent[c]]
           /\ UNCHANGED <<rows, pc, call>>
  <2>1. /\ walked'[r] = W \cup {c} /\ cursor'[r] = parent[c] /\ call'[r] = call[r] /\ pc'[r] = "walk"
        /\ parent' = parent /\ used' = used
    BY <1>0, <1>2, <1>3 DEF LocalInv, LocalTypes, rows
  <2>2. ASSUME Creates(r) PROVE WalkSees(r)'
    <3>1. WalkSees(r)
      BY <1>2, <2>2 DEF WalkInv
    <3>2. parent[c] \in used
      <4>1. c \in Live(parent)
        BY <1>0, <1>2, <1>3, LiveTypes DEF RowInv
      <4> QED BY <1>0, <1>3, <4>1, LiveIsUpClosed DEF UpClosed, RowInv, IdsUsed
    <3>3. ASSUME q \in Live(parent), Depth(parent, q) > MaxDepth
          PROVE  /\ parent[c] \in Ancestors(parent, q)
                 /\ (W \cup {c}) \cup Ancestors(parent, parent[c]) = Ancestors(parent, q)
      <4>1. c \in Ancestors(parent, q) /\ W \cup Ancestors(parent, c) = Ancestors(parent, q)
        BY <3>1, <3>3 DEF WalkSees
      <4>2. Ancestors(parent, c) = {c} \cup Ancestors(parent, parent[c])
        BY <1>2, <1>3, AncestorsStep
      <4>3. parent[c] \in Ancestors(parent, q)
        BY <1>3, <3>3, <4>1, AncestorsClosed DEF Live
      <4> QED BY <4>1, <4>2, <4>3
    <3> QED BY <2>1, <3>2, <3>3 DEF WalkSees
  <2> QED BY <1>2, <2>1, <2>2 DEF WalkInv, Creates
<1>4. CASE /\ c \notin W /\ parent[c] \notin Categories
           /\ parent[c] = Root => Cardinality(W \cup {c}) < MaxDepth
           /\ Goto(r, "write") /\ UNCHANGED <<call, walked, cursor>> /\ UNCHANGED rows
  <2>1. /\ walked'[r] = W /\ cursor'[r] = c /\ call'[r] = call[r] /\ pc'[r] = "write"
        /\ parent' = parent /\ used' = used
    BY <1>0, <1>4 DEF LocalInv, LocalTypes, Goto, rows
  <2>2. ASSUME Creates(r) PROVE WalkEnded(r)'
    <3>1. WalkSees(r)
      BY <1>2, <2>2 DEF WalkInv
    <3>2. Ancestors(parent, c) = {c}
      BY <1>2, <1>4, AncestorsStep
    <3>3. parent[c] \in {Root, None}
      BY <1>0, <1>2, <1>4 DEF RowInv, RowTypes
    <3>4. q \in Live(parent) => Depth(parent, q) <= MaxDepth
      <4> SUFFICES ASSUME q \in Live(parent), Depth(parent, q) > MaxDepth PROVE FALSE
        BY AncestorsCount, ConstantsAssumption
      <4>1. c \in Ancestors(parent, q) /\ W \cup {c} = Ancestors(parent, q)
        BY <3>1, <3>2 DEF WalkSees
      <4>2. c \in Live(parent)
        BY <1>0, <4>1, AncestorsAreLive
      <4>3. parent[c] = Root
        BY <3>3, <4>2 DEF Live
      <4>4. Depth(parent, q) < MaxDepth
        BY <1>4, <4>1, <4>3 DEF Depth
      <4> QED BY <4>4, AncestorsCount, ConstantsAssumption
    <3>5. parent[c] = None => c \in used \ Live(parent)
      BY <3>1 DEF WalkSees, Live
    <3> QED BY <1>4, <2>1, <3>3, <3>4, <3>5 DEF WalkEnded
  <2> QED BY <2>1, <2>2 DEF WalkInv, Creates
<1> QED
  BY <1>1, <1>3, <1>4 DEF WalkUp, ContinueIf

LEMMA ReadsKeepWalk ==
  ASSUME IInv, NEW r \in Requests, WalkInv(r),
         \/ BeginCreate(r) \/ BeginUpdate(r) \/ BeginDelete(r) \/ GetCategory(r)
         \/ GetParent(r) \/ CountCategories(r) \/ CheckInUse(r) \/ Fail(r)
  PROVE  WalkInv(r)'
<1>0. RowInv /\ LocalInv
  BY InvariantParts
<1>1. CASE Finish(r)
  BY <1>0, <1>1, FinishKeepsWalk
<1>2. CASE BeginCreate(r)
  <2>1. PICK q \in used \cup {Root} :
          /\ pc[r] = "idle"
          /\ call' = [call EXCEPT ![r] = [op |-> "create", category |-> None, parent |-> q]]
          /\ cursor' = [cursor EXCEPT ![r] = q]
          /\ Goto(r, IF q = Root THEN "count" ELSE "parent")
          /\ UNCHANGED <<parent, used, walked>>
    BY <1>2 DEF BeginCreate, rows
  <2>2. /\ call'[r].op = "create" /\ call'[r].parent = q /\ cursor'[r] = q /\ walked'[r] = {}
        /\ pc'[r] \in {"count", "parent"} /\ parent' = parent /\ used' = used
    BY <1>0, <2>1 DEF LocalInv, LocalTypes, Goto, WalkInv
  <2>3. q # Root => q \in Categories /\ q \in used
    BY <1>0, <2>1 DEF RowInv, RowTypes
  <2>4. q # Root => WalkSees(r)'
    BY <2>2, <2>3, AncestorsClosed DEF WalkSees
  <2> QED BY <2>2, <2>3, <2>4 DEF WalkInv, Creates
<1>3. CASE BeginUpdate(r) \/ BeginDelete(r)
  <2>1. call'[r].op # "create" /\ pc'[r] # "idle"
    BY <1>0, <1>3 DEF BeginUpdate, BeginDelete, Goto, LocalInv, LocalTypes
  <2> QED BY <2>1 DEF WalkInv, Creates
<1>4. CASE (GetCategory(r) \/ CheckInUse(r)) /\ ~ Finish(r)
  <2>1. call'[r] = call[r] /\ pc'[r] # "idle" /\ call[r].op # "create"
    BY <1>0, <1>4 DEF GetCategory, CheckInUse, ContinueIf, Goto, LocalInv, LocalTypes, RequestsInv,
                      RequestInv
  <2> QED BY <2>1 DEF WalkInv, Creates
<1>5. CASE (GetParent(r) \/ CountCategories(r)) /\ ~ Finish(r)
  <2>1. UNCHANGED <<call, walked, cursor, parent, used>>
    BY <1>5 DEF GetParent, CountCategories, ContinueIf, rows
  <2>2. /\ pc[r] \in {"parent", "count"} /\ pc'[r] # "idle"
        /\ Creates(r) => pc'[r] \in {"count", "walk"}
    BY <1>0, <1>5 DEF GetParent, CountCategories, ContinueIf, Goto, LocalInv, LocalTypes, Creates
  <2>3. Creates(r) => WalkSees(r)'
    BY <2>1, <2>2 DEF WalkInv, WalkSees
  <2> QED BY <2>1, <2>2, <2>3 DEF WalkInv, Creates
<1> QED BY <1>1, <1>2, <1>3, <1>4, <1>5 DEF Fail

\* A category that is new below the limit was created from a walk that moves made
\* stale, and is one level below it.
LEMMA NewBelowLimit ==
  ASSUME IInv, DepthInv, Next, NEW x \in Live(parent'), x \notin Live(parent)
  PROVE  /\ Depth(parent', x) <= MaxDepth + 1
         /\ Depth(parent', x) > MaxDepth => \E r \in Requests : Stale(r) /\ pc'[r] = "idle"
<1>0. RowInv /\ LocalInv
  BY InvariantParts
<1>1. PICK r \in Requests : CreateCategory(r)
  <2>1. ASSUME NEW r \in Requests, UpdateCategory(r) \/ DeleteCategory(r) PROVE FALSE
    BY <1>0, <2>1 DEF UpdateCategory, DeleteCategory, Live, RowInv, RowTypes
  <2>2. ASSUME NEW r \in Requests, RequestStep(r),
               ~ (CreateCategory(r) \/ UpdateCategory(r) \/ DeleteCategory(r))
        PROVE  FALSE
    <3>1. UNCHANGED parent
      BY <1>0, <2>2, ReadsKeep DEF RequestStep, RowInv, rows
    <3> QED BY <3>1
  <2>3. ASSUME NEW c \in Categories, NameCategory(c) \/ ReleaseCategory(c) PROVE FALSE
    BY <2>3 DEF NameCategory, ReleaseCategory
  <2> QED BY <2>1, <2>2, <2>3 DEF Next
<1> PICK q : q = call[r].parent
  OBVIOUS
<1>2. pc[r] = "write" /\ call[r].op = "create" /\ pc'[r] = "idle"
  BY <1>0, <1>1 DEF CreateCategory, Finish, Goto, LocalInv, LocalTypes
<1>3. MaxDepth \in Nat \ {0} /\ Depth(parent', x) \in Nat /\ Depth(parent, q) \in Nat
  BY AncestorsCount, ConstantsAssumption
<1>4. CASE q = Root
  <2>1. Depth(parent', x) = 1
    BY <1>0, <1>1, <1>4, CreateDepth
  <2> QED BY <1>3, <2>1
<1>5. CASE q # Root
  <2>1. q \in Live(parent) /\ Depth(parent', x) <= Depth(parent, q) + 1
    BY <1>0, <1>1, <1>5, CreateDepth
  <2>2. WalkEnded(r)
    BY <1>2, <1>5 DEF DepthInv, WalkInv, Creates
  <2>3. Depth(parent, q) <= MaxDepth
    BY <2>1, <2>2 DEF WalkEnded
  <2>4. ASSUME Depth(parent', x) > MaxDepth, walked[r] \cup {cursor[r]} = Ancestors(parent, q)
        PROVE  FALSE
    <3>1. cursor[r] \in Live(parent)
      BY <1>0, <2>1, <2>4, AncestorsAreLive
    <3>2. Depth(parent, q) < MaxDepth
      BY <2>2, <2>4, <3>1 DEF WalkEnded, Depth
    <3> QED BY <1>3, <2>1, <2>4, <3>2
  <2> QED BY <1>2, <1>3, <2>1, <2>3, <2>4 DEF Stale
<1> QED BY <1>4, <1>5

LEMMA NextKeepsDepth ==
  ASSUME IInv, DepthInv, Next
  PROVE  DepthInv'
<1>0. RowInv /\ LocalInv
  BY InvariantParts
<1>1. DepthStep
  BY NextKeepsDeep DEF DepthInv
<1>2. DepthOvershoot'
  <2> SUFFICES ASSUME NEW x \in Live(parent') PROVE Depth(parent', x) <= MaxDepth + 1
    BY DEF DepthOvershoot, Depth, Live
  <2>1. CASE x \notin Live(parent)
    BY <2>1, NewBelowLimit
  <2>2. CASE x \in Live(parent) /\ Depth(parent', x) > MaxDepth
    <3>1. x \in Ancestors(parent, x)
      BY <2>2, AncestorsClosed DEF Live
    <3>2. Depth(parent', x) = Depth(parent, x)
      BY <1>1, <2>2, <3>1 DEF DepthStep, KeepsDeep, Depth
    <3> QED BY <2>2, <3>2 DEF DepthInv, DepthOvershoot
  <2>3. Depth(parent', x) \in Nat /\ MaxDepth \in Nat
    BY AncestorsCount, ConstantsAssumption
  <2> QED BY <2>1, <2>2, <2>3
<1>3. ASSUME NEW r \in Requests PROVE WalkInv(r)'
  <2>1. WalkInv(r)
    BY DEF DepthInv
  <2>2. CASE RequestStep(r)
    <3>1. CASE CreateCategory(r) \/ UpdateCategory(r) \/ DeleteCategory(r)
      BY <1>0, <3>1, FinishKeepsWalk DEF CreateCategory, UpdateCategory, DeleteCategory
    <3>2. CASE ~ (CreateCategory(r) \/ UpdateCategory(r) \/ DeleteCategory(r))
      BY <2>1, <2>2, <3>2, ReadsKeepWalk, WalkUpKeepsWalk DEF RequestStep
    <3> QED BY <3>1, <3>2
  <2>3. CASE ~ RequestStep(r)
    <3>1. /\ pc'[r] = pc[r] /\ call'[r] = call[r] /\ walked'[r] = walked[r] /\ cursor'[r] = cursor[r]
      <4>1. ASSUME NEW s \in Requests, s # r, RequestStep(s)
            PROVE  /\ pc'[r] = pc[r] /\ call'[r] = call[r]
                   /\ walked'[r] = walked[r] /\ cursor'[r] = cursor[r]
        <5>1. CASE Finish(s)
          BY <1>0, <4>1, <5>1 DEF Finish, Goto, LocalInv, LocalTypes
        <5>2. CASE ~ Finish(s)
          BY <1>0, <4>1, <5>2 DEF RequestStep, BeginCreate, BeginUpdate, BeginDelete, GetCategory,
            GetParent, CountCategories, WalkUp, CheckInUse, CreateCategory, UpdateCategory,
            DeleteCategory, Fail, ContinueIf, Goto, LocalInv, LocalTypes
        <5> QED BY <5>1, <5>2
      <4>2. ASSUME NEW c \in Categories, NameCategory(c) \/ ReleaseCategory(c)
            PROVE  /\ pc'[r] = pc[r] /\ call'[r] = call[r]
                   /\ walked'[r] = walked[r] /\ cursor'[r] = cursor[r]
        BY <4>2 DEF NameCategory, ReleaseCategory
      <4> QED BY <2>3, <4>1, <4>2 DEF Next
    <3> QED BY <1>1, <2>1, <3>1, OthersKeepWalk
  <2> QED BY <2>2, <2>3
<1> QED BY <1>2, <1>3 DEF DepthInv

--------------------------------------------------------------------------------
(* The theorems *)

LEMMA InitInvariant == Init => IInv
<1> SUFFICES ASSUME Init PROVE IInv
  OBVIOUS
<1>1. Live(parent) = {}
  BY DEF Init, Live
<1>2. RowInv
  BY <1>1 DEF Init, RowInv, RowTypes, IdsUsed, NoDanglingReference, Acyclic
<1>3. LocalInv
  BY NoCallType DEF Init, LocalInv, LocalTypes, RequestsInv, RequestInv, Steps
<1> QED
  BY <1>2, <1>3, InvariantParts

LEMMA NextKeepsInvariant ==
  ASSUME IInv, [Next]_vars
  PROVE  IInv'
<1>0. LocalInv /\ RowInv
  BY InvariantParts
<1>1. ASSUME NEW r \in Requests, RequestStep(r) PROVE IInv'
  <2>1. CASE CreateCategory(r) \/ UpdateCategory(r) \/ DeleteCategory(r)
    <3>1. Finish(r)
      BY <2>1 DEF CreateCategory, UpdateCategory, DeleteCategory
    <3>2. LocalInv'
      BY <1>0, <1>1, <3>1, FinishKeeps
    <3>3. RowInv'
      BY <1>0, <1>1, <2>1, CreateKeeps, UpdateKeeps, DeleteKeeps
    <3> QED
      BY <3>2, <3>3, InvariantPartsNext
  <2>2. CASE ~ (CreateCategory(r) \/ UpdateCategory(r) \/ DeleteCategory(r))
    <3>1. LocalInv' /\ UNCHANGED rows
      BY <1>0, <1>1, <2>2, ReadsKeep DEF RequestStep, RowInv
    <3> QED
      BY <1>0, <3>1, RowsUnchanged, InvariantPartsNext
  <2> QED
    BY <2>1, <2>2
<1>2. ASSUME NEW c \in Categories, NameCategory(c) \/ ReleaseCategory(c) PROVE IInv'
  <2>1. LocalInv'
    BY <1>0, <1>2 DEF NameCategory, ReleaseCategory, LocalInv, LocalTypes, RequestsInv, RequestInv
  <2> QED
    BY <1>0, <1>2, <2>1, NamingKeeps, InvariantPartsNext
<1>3. CASE UNCHANGED vars
  <2>1. LocalInv'
    BY <1>0, <1>3 DEF vars, LocalInv, LocalTypes, RequestsInv, RequestInv
  <2>2. UNCHANGED rows
    BY <1>3 DEF vars, rows
  <2> QED
    BY <1>0, <2>1, <2>2, RowsUnchanged, InvariantPartsNext
<1> QED
  BY <1>1, <1>2, <1>3 DEF Next

\* The inductive invariant of CategoryTree.
THEOREM Inductive == Spec => []IInv
  BY InitInvariant, NextKeepsInvariant, PTL DEF Spec

\* Every variable keeps its type.
THEOREM TypeCorrect == Spec => []TypeOK
<1>1. IInv => TypeOK
  BY DEF IInv
<1> QED
  BY <1>1, Inductive, PTL

\* Whatever moves, creations and deletions interleave, the categories of a
\* ledger form a forest.
THEOREM NeverACycle == Spec => []Acyclic
<1>1. IInv => Acyclic
  BY DEF IInv
<1> QED
  BY <1>1, Inductive, PTL

\* The parent of every category, and every category that a movement or a budget
\* names, exists.
THEOREM NothingDangles == Spec => []NoDanglingReference
<1>1. IInv => NoDanglingReference
  BY DEF IInv
<1> QED
  BY <1>1, Inductive, PTL

\* A deleted category stays deleted.
THEOREM DeletedStaysDeleted == Spec => NoResurrection
<1> DEFINE Kept == \A c \in used : parent[c] = None => parent'[c] = None
<1>1. IInv /\ [Next]_vars => [Kept]_vars
  BY GoneStaysGone
<1> QED
  BY <1>1, Inductive, PTL DEF Spec, NoResurrection

--------------------------------------------------------------------------------
(* The limit of the tree's size *)

\* The instance counts as this module does.
LEMMA LimitCounts ==
  ASSUME NEW S
  PROVE  /\ Limit!Cardinality(S) = Cardinality(S)
         /\ Limit!IsFiniteSet(S) = IsFiniteSet(S)
<1>1. Limit!Cardinality(S) = Cardinality(S)
  BY DEF Limit!Cardinality, Cardinality
<1>2. Limit!IsFiniteSet(S) = IsFiniteSet(S)
  BY DEF Limit!IsFiniteSet, IsFiniteSet
<1> QED
  BY <1>1, <1>2

LEMMA LimitInit == Init => Limit!Init
  BY DEF Init, Limit!Init, Live, Admitted

\* A creation that passes the count is admitted, one that inserts commits, and
\* every other step stores no new category and admits no request.
LEMMA LimitStep == IInv /\ [Next]_vars => [Limit!Next]_(Limit!vars)
<1> SUFFICES ASSUME LocalInv, RowInv, [Next]_vars PROVE Limit!Next
  BY InvariantParts DEF Limit!Next
<1> DEFINE Leaves == Live(parent)' \subseteq Live(parent) /\ Admitted' \subseteq Admitted
<1>1. Leaves => Limit!Next
  BY DEF Limit!Next, Limit!Leave
<1>2. ASSUME NEW r \in Requests, Finish(r) PROVE Admitted' = Admitted \ {r}
  BY <1>2 DEF Finish, Goto, Admitted, LocalInv, LocalTypes
<1>3. UNCHANGED parent => Live(parent)' = Live(parent)
  BY DEF Live
<1>4. CASE UNCHANGED vars
  BY <1>1, <1>3, <1>4 DEF vars, Admitted
<1>5. ASSUME NEW r \in Requests, CountCategories(r) PROVE Limit!Next
  <2>1. CASE Finish(r) /\ UNCHANGED rows
    BY <1>1, <1>2, <1>3, <2>1 DEF rows
  <2>2. CASE /\ Cardinality(Live(parent)) < MaxSize
             /\ Goto(r, "write") \/ Goto(r, "walk")
             /\ UNCHANGED <<call, parent>>
    <3>1. Admitted' = Admitted \cup {r} \/ Admitted' = Admitted
      BY <2>2 DEF Goto, Admitted, LocalInv, LocalTypes
    <3> QED
      BY <3>1, <2>2, <1>1, <1>3, LimitCounts DEF Limit!Next, Limit!Admit
  <2> QED
    BY <1>5, <2>1, <2>2 DEF CountCategories, ContinueIf, rows
<1>6. ASSUME NEW r \in Requests,
             BeginCreate(r) \/ BeginUpdate(r) \/ BeginDelete(r) \/ GetCategory(r)
               \/ GetParent(r) \/ WalkUp(r) \/ CheckInUse(r) \/ Fail(r)
      PROVE  Leaves
  <2>1. UNCHANGED parent
    BY <1>6, ReadsKeep DEF RowInv, rows
  <2>2. CASE Finish(r)
    BY <1>2, <1>3, <2>1, <2>2
  <2>3. CASE BeginCreate(r) \/ BeginUpdate(r) \/ BeginDelete(r)
    BY <1>3, <2>1, <2>3 DEF BeginCreate, BeginUpdate, BeginDelete, Goto, Admitted, LocalInv, LocalTypes
  <2>4. CASE GetCategory(r) /\ ~ Finish(r)
    BY <1>3, <2>1, <2>4 DEF GetCategory, ContinueIf, Goto, Admitted, LocalInv, LocalTypes,
                            RequestsInv, RequestInv
  <2>5. CASE GetParent(r) /\ ~ Finish(r)
    BY <1>3, <2>1, <2>5 DEF GetParent, ContinueIf, Goto, Admitted, LocalInv, LocalTypes
  <2>6. CASE WalkUp(r) /\ ~ Finish(r)
    BY <1>3, <2>1, <2>6 DEF WalkUp, ContinueIf, Goto, Admitted, LocalInv, LocalTypes
  <2>7. CASE CheckInUse(r) /\ ~ Finish(r)
    <3>1. Goto(r, "write") /\ UNCHANGED call /\ pc[r] = "in_use"
      BY <2>7 DEF CheckInUse, ContinueIf
    <3>2. call[r].op # "create"
      BY <3>1 DEF LocalInv, RequestsInv, RequestInv
    <3> QED
      BY <1>3, <2>1, <3>1, <3>2 DEF Goto, Admitted, LocalInv, LocalTypes
  <2> QED
    BY <1>6, <2>2, <2>3, <2>4, <2>5, <2>6, <2>7 DEF Fail
<1>7. ASSUME NEW r \in Requests, UpdateCategory(r) \/ DeleteCategory(r) PROVE Leaves
  <2>1. Admitted' \subseteq Admitted
    BY <1>2, <1>7 DEF UpdateCategory, DeleteCategory
  <2>2. Live(parent)' \subseteq Live(parent)
    BY <1>7 DEF UpdateCategory, DeleteCategory, Live, RowInv, RowTypes
  <2> QED
    BY <2>1, <2>2
<1>8. ASSUME NEW r \in Requests, CreateCategory(r) PROVE Limit!Next
  <2>1. r \in Admitted /\ Admitted' = Admitted \ {r}
    BY <1>2, <1>8 DEF CreateCategory, Admitted
  <2>2. \E c \in Categories : Live(parent)' \subseteq Live(parent) \cup {c}
    BY <1>8 DEF CreateCategory, Live, RowInv, RowTypes
  <2> QED
    BY <2>1, <2>2 DEF Limit!Next, Limit!Commit
<1>9. ASSUME NEW c \in Categories, NameCategory(c) \/ ReleaseCategory(c) PROVE Limit!Next
  BY <1>1, <1>3, <1>9 DEF NameCategory, ReleaseCategory, Admitted
<1> QED
  BY <1>1, <1>4, <1>5, <1>6, <1>7, <1>8, <1>9 DEF Next, RequestStep

\* The creations of categories implement the specification of a limit that is
\* counted before the write.
THEOREM CategoriesKeepToLimit == Spec => CategoriesImplementLimit
  BY LimitInit, LimitStep, Inductive, PTL DEF Spec, CategoriesImplementLimit, Limit!Spec

\* The limit with its theorem.
Bound == INSTANCE AdmissionLimitProofs WITH
  Things <- Categories, MaxStored <- MaxSize, stored <- Live(parent), admitted <- Admitted

LEMMA BoundCounts ==
  ASSUME NEW S
  PROVE  /\ Bound!Cardinality(S) = Cardinality(S)
         /\ Bound!IsFiniteSet(S) = IsFiniteSet(S)
<1>1. Bound!Cardinality(S) = Cardinality(S)
  BY DEF Bound!Cardinality, Cardinality
<1>2. Bound!IsFiniteSet(S) = IsFiniteSet(S)
  BY DEF Bound!IsFiniteSet, IsFiniteSet
<1> QED BY <1>1, <1>2

LEMMA BoundIsLimit ==
  /\ Limit!Init => Bound!Init
  /\ [Limit!Next]_(Limit!vars) => [Bound!Next]_(Bound!vars)
<1>1. \A S : Limit!Cardinality(S) = Bound!Cardinality(S)
  BY LimitCounts, BoundCounts
<1>2. Limit!Init => Bound!Init
  BY DEF Limit!Init, Bound!Init
<1>3. [Limit!Next]_(Limit!vars) => [Bound!Next]_(Bound!vars)
  BY <1>1 DEF Limit!Next, Bound!Next, Limit!vars, Bound!vars, Limit!Admit, Bound!Admit,
              Limit!Commit, Bound!Commit, Limit!CountAndCommit, Bound!CountAndCommit,
              Limit!Leave, Bound!Leave
<1> QED BY <1>2, <1>3

\* However many creations pass the count together, fewer categories than there
\* are requests pass the limit of the tree's size.
THEOREM SizeOvershootBounded == Spec => []SizeOvershoot
<1>1. Bound!Spec => []Bound!Overshoot
  <2>1. Bound!IsFiniteSet(Categories) /\ Bound!IsFiniteSet(Requests)
    BY BoundCounts, ConstantsAssumption
  <2>2. MaxSize \in Nat /\ Requests # {}
    BY ConstantsAssumption
  <2> QED
    BY <2>1, <2>2, Bound!OvershootBounded
<1>2. Bound!Overshoot => SizeOvershoot
  BY BoundCounts DEF Bound!Overshoot, SizeOvershoot
<1> QED
  BY <1>1, <1>2, BoundIsLimit, CategoriesKeepToLimit, PTL
  DEF CategoriesImplementLimit, Limit!Spec, Bound!Spec

--------------------------------------------------------------------------------
(* The depth of the tree *)

LEMMA DepthInductive == Spec => []DepthInv
<1>1. Init => DepthInv
  <2> SUFFICES ASSUME Init PROVE DepthInv
    OBVIOUS
  <2>1. Live(parent) = {}
    BY DEF Init, Live
  <2>2. \A r \in Requests : pc[r] = "idle" /\ walked[r] = {} /\ call[r].op = "delete"
    BY DEF Init, NoCall
  <2> QED BY <2>1, <2>2 DEF DepthInv, DepthOvershoot, WalkInv, Creates
<1>2. IInv /\ DepthInv /\ [Next]_vars => DepthInv'
  <2>1. ASSUME DepthInv, UNCHANGED vars PROVE DepthInv'
    <3>1. Live(parent') = Live(parent) /\ parent' = parent
      BY <2>1 DEF vars, Live
    <3>2. DepthOvershoot'
      BY <2>1, <3>1 DEF DepthInv, DepthOvershoot
    <3>3. ASSUME NEW r \in Requests PROVE WalkInv(r)'
      <4>1. WalkInv(r) /\ used' = used /\ pc' = pc /\ call' = call /\ cursor' = cursor /\ walked' = walked
        BY <2>1 DEF DepthInv, vars
      <4>2. (WalkSees(r)' <=> WalkSees(r)) /\ (WalkEnded(r)' <=> WalkEnded(r)) /\ (Creates(r)' <=> Creates(r))
        BY <3>1, <4>1, Zenon DEF WalkSees, WalkEnded, Creates
      <4> QED BY <4>1, <4>2 DEF WalkInv
    <3> QED BY <3>2, <3>3 DEF DepthInv
  <2> QED BY <2>1, NextKeepsDepth
<1> QED BY Inductive, <1>1, <1>2, PTL DEF Spec

\* Whatever moves and creations interleave, no category gets deeper than one level
\* below the limit: the creations that a move overtakes do not add up.
THEOREM DepthOvershootBounded == Spec => []DepthOvershoot
<1>1. DepthInv => DepthOvershoot
  BY DEF DepthInv
<1> QED BY <1>1, DepthInductive, PTL

\* A move puts nothing below the depth limit, and a creation only when a move made
\* its walk over the ancestors stale.
THEOREM DepthIsKept == Spec => DepthKept
<1> DEFINE Kept ==
      parent' # parent =>
        \A c \in Live(parent') :
          Depth(parent', c) > MaxDepth =>
            \/ c \in Live(parent) /\ Depth(parent, c) > MaxDepth
            \/ c \notin Live(parent) /\ \E r \in Requests : Stale(r) /\ pc'[r] = "idle"
<1>1. ASSUME IInv, DepthInv, [Next]_vars PROVE [Kept]_vars
  <2> SUFFICES ASSUME Next, NEW c \in Live(parent'), Depth(parent', c) > MaxDepth
      PROVE  \/ c \in Live(parent) /\ Depth(parent, c) > MaxDepth
             \/ c \notin Live(parent) /\ \E r \in Requests : Stale(r) /\ pc'[r] = "idle"
    BY <1>1
  <2>1. CASE c \in Live(parent)
    <3>1. KeepsDeep(c)
      BY <1>1, <2>1, NextKeepsDeep DEF DepthInv, DepthStep
    <3>2. c \in Ancestors(parent, c)
      BY <2>1, AncestorsClosed DEF Live
    <3> QED BY <2>1, <3>1, <3>2 DEF KeepsDeep, Depth
  <2>2. CASE c \notin Live(parent)
    BY <1>1, <2>2, NewBelowLimit
  <2> QED BY <2>1, <2>2
<1>2. IInv /\ DepthInv /\ [Next]_vars => [Kept]_vars
  BY <1>1
<1> QED BY Inductive, DepthInductive, <1>2, PTL DEF Spec, DepthKept
================================================================================
