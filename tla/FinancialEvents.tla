---------------------------- MODULE FinancialEvents ----------------------------
(***************************************************************************)
(* Financial events of one ledger: the rows of financial_event and         *)
(* financial_movement in the ledger's SQLite file, and the requests that   *)
(* create, update and delete events over them.                             *)
(*                                                                         *)
(* SqliteDatabase.get_connection opens a connection in Python's default    *)
(* isolation mode: every SELECT before the first INSERT, UPDATE or DELETE  *)
(* runs in its own snapshot, and the first such statement takes the single *)
(* writer lock, held until commit or rollback.  A use case is therefore a  *)
(* few separate reads, between which other requests may commit, and one    *)
(* atomic write.  Each read and each write is an action here.              *)
(*                                                                         *)
(* Data kept: the sign of a value, the account and category of a movement, *)
(* and whether special_type is FEE.  Data left out: amounts, quantity,     *)
(* item_name, occurred_at, description.  All the movements of one request  *)
(* take one category: every category goes through the same check.          *)
(***************************************************************************)
EXTENDS Integers, FiniteSets

CONSTANTS
  EventIds,      \* uuid4 values that identify financial_event rows
  MovementIds,   \* uuid4 values that identify financial_movement rows
  Accounts,      \* accounts of the ledger when the behaviour starts
  Categories,    \* categories of the ledger when the behaviour starts
  Requests,      \* request slots: how many requests run at the same time
  Inputs,        \* the request bodies that clients send
  MaxEvents,     \* MAXIMUM_FINANCIAL_EVENTS
  MaxMovements,  \* MAX_SHOPPING_LIST_MOVEMENTS
  None           \* Python's None, or a row that is not there

EventTypes == {"TRANSACTION", "SHOPPING_LIST", "ACCOUNT_TRANSFER"}
Signs == {-1, 0, 1}

\* A row of financial_movement.  The uuid is the index of the row.
Movement == [event: EventIds, account: Accounts, category: Categories,
             value: {-1, 1}, fee: BOOLEAN]

\* A call of a use case.  account is the account, or a transfer's source;
\* value the main value, a list line's, or the source's; fee the value of the
\* optional FinancialEventFee; kept the uuids of the list lines supplied with
\* one (a creation's lines have none), added the number of list lines supplied
\* without.
Input ==
  {i \in [op: {"create", "update", "delete"}, type: EventTypes,
          event: EventIds, account: Accounts, destination: Accounts,
          category: Categories, value: Signs, destinationValue: Signs,
          fee: Signs \cup {None}, kept: SUBSET MovementIds, added: Nat] :
     i.op = "create" => i.kept = {}}

ASSUME ConstantsAssumption ==
  /\ None \notin EventTypes
  /\ None \notin Signs
  /\ None \notin Movement
  /\ EventIds \cap MovementIds = {}
  /\ Inputs \subseteq Input
  /\ MaxEvents \in Nat
  /\ MaxMovements \in Nat
  /\ IsFiniteSet(EventIds)
  /\ IsFiniteSet(Requests) /\ Requests # {}

VARIABLES
  accounts,    \* rows of account
  categories,  \* rows of category
  type,        \* type of each financial_event row, None where there is no row
  movement,    \* financial_movement rows, None where there is no row
  used,        \* uuids generated so far: uuid4 never repeats one
  pc,          \* the next step of each request
  input,       \* what each request was called with
  read         \* the movements each update read, its FinancialEvent object

vars == <<accounts, categories, type, movement, used, pc, input, read>>
rows == <<accounts, categories, type, movement, used>>
locals == <<pc, input, read>>

NoRows == [m \in MovementIds |-> None]

--------------------------------------------------------------------------------
(* Reading an event *)

\* SELECT ... FROM financial_movement WHERE financial_event_uuid = e
MovementsOf(table, e) ==
  {m \in MovementIds : table[m] # None /\ table[m].event = e}
MainsOf(table, e) == {m \in MovementsOf(table, e) : ~ table[m].fee}
FeesOf(table, e) == {m \in MovementsOf(table, e) : table[m].fee}
Rows(table, e) ==
  [m \in MovementIds |-> IF m \in MovementsOf(table, e) THEN table[m] ELSE None]

\* At most one fee, negative, on the account that the main movement names.
FeeFits(table, e, account) ==
  \A f \in FeesOf(table, e) :
    /\ FeesOf(table, e) = {f}
    /\ table[f].value < 0
    /\ table[f].account = account

\* _simple_movements
SimpleStructure(table, e) ==
  \E m \in MovementIds :
    /\ MainsOf(table, e) = {m}
    /\ FeesOf(table, e) # {} => table[m].value < 0
    /\ FeeFits(table, e, table[m].account)

\* the two structure checks of update_shopping_list_financial_event
ListStructure(table, e) ==
  /\ MovementsOf(table, e) # {}
  /\ FeesOf(table, e) = {}
  /\ \A m \in MainsOf(table, e) : table[m].value < 0
  /\ \A m, n \in MainsOf(table, e) : table[m].account = table[n].account

\* _transfer_movements
TransferStructure(table, e) ==
  \E source, destination \in MovementIds :
    /\ MainsOf(table, e) = {source, destination}
    /\ table[source].value < 0
    /\ table[destination].value > 0
    /\ table[source].account # table[destination].account
    /\ FeeFits(table, e, table[destination].account)

Structure(table, e, t) ==
  \/ t = "TRANSACTION" /\ SimpleStructure(table, e)
  \/ t = "SHOPPING_LIST" /\ ListStructure(table, e)
  \/ t = "ACCOUNT_TRANSFER" /\ TransferStructure(table, e)

--------------------------------------------------------------------------------
(* What a request asks for *)

FeeAsked(i) == i.fee # None

\* Mutant: a movement of value zero is let through.
ZeroAllowed(i) ==
  \/ i.op = "delete"
  \/ i.type = "TRANSACTION" /\ (FeeAsked(i) => i.value < 0 /\ i.fee < 0)
  \/ /\ i.type = "SHOPPING_LIST"
     /\ Cardinality(i.kept) + i.added \in 1 .. MaxMovements
     /\ i.value < 0
  \/ /\ i.type = "ACCOUNT_TRANSFER"
     /\ i.account # i.destination
     /\ i.value < 0
     /\ i.destinationValue > 0
     /\ FeeAsked(i) => i.fee < 0

\* Mutant: a transfer within one account is let through.
SelfTransferAllowed(i) ==
  \/ i.op = "delete"
  \/ i.type = "TRANSACTION" /\ i.value # 0 /\ (FeeAsked(i) => i.value < 0 /\ i.fee < 0)
  \/ /\ i.type = "SHOPPING_LIST"
     /\ Cardinality(i.kept) + i.added \in 1 .. MaxMovements
     /\ i.value < 0
  \/ /\ i.type = "ACCOUNT_TRANSFER"
     /\ i.value < 0
     /\ i.destinationValue > 0
     /\ FeeAsked(i) => i.fee < 0

\* The InvalidFinancialEventError checks, made before any query.
ValidInput(i) ==
  \/ i.op = "delete"
  \/ /\ i.type = "TRANSACTION"
     /\ i.value # 0
     /\ FeeAsked(i) => i.value < 0 /\ i.fee < 0
  \/ /\ i.type = "SHOPPING_LIST"
     /\ Cardinality(i.kept) + i.added \in 1 .. MaxMovements
     /\ i.value < 0
  \/ /\ i.type = "ACCOUNT_TRANSFER"
     /\ i.account # i.destination
     /\ i.value < 0
     /\ i.destinationValue > 0
     /\ FeeAsked(i) => i.fee < 0

\* The accounts given to _require_accounts.
AccountsNamed(i) ==
  {i.account} \cup (IF i.type = "ACCOUNT_TRANSFER" THEN {i.destination} ELSE {})

\* The rows that a request stores in event e for its main (or source)
\* movement or list line, for a transfer's destination and for the fee.
MainRow(e, i) ==
  [event |-> e, account |-> i.account, category |-> i.category,
   value |-> i.value, fee |-> FALSE]
DestinationRow(e, i) ==
  [MainRow(e, i) EXCEPT !.account = i.destination, !.value = i.destinationValue]
\* Mutant: a transfer's fee is charged to the source account.
FeeOnSource(e, i) ==
  [event |-> e, account |-> i.account, category |-> i.category, value |-> i.fee, fee |-> TRUE]
FeeRow(e, i) ==
  [event |-> e,
   account |-> IF i.type = "ACCOUNT_TRANSFER" THEN i.destination ELSE i.account,
   category |-> i.category, value |-> i.fee, fee |-> TRUE]

\* Mutant: special_type is not carried over from the row that was read.
SpecialTypeLost(i, row) ==
  IF i.type = "ACCOUNT_TRANSFER" /\ row.value > 0 THEN DestinationRow(i.event, i)
  ELSE MainRow(i.event, i)

\* The rows of an update, by the row that was read: special_type is written
\* back as it was read, account, category and value as asked.
RewrittenRow(i, row) ==
  IF row.fee THEN FeeRow(i.event, i)
  ELSE IF i.type = "ACCOUNT_TRANSFER" /\ row.value > 0 THEN DestinationRow(i.event, i)
  ELSE MainRow(i.event, i)

--------------------------------------------------------------------------------
(* The steps of a request *)

Init ==
  /\ accounts = Accounts
  /\ categories = Categories
  /\ type = [e \in EventIds |-> None]
  /\ movement = NoRows
  /\ used = {}
  /\ pc = [r \in Requests |-> "idle"]
  /\ input = [r \in Requests |-> None]
  /\ read = [r \in Requests |-> NoRows]

Goto(r, step) == pc' = [pc EXCEPT ![r] = step]

Finish(r) ==
  /\ Goto(r, "idle")
  /\ input' = [input EXCEPT ![r] = None]
  /\ read' = [read EXCEPT ![r] = NoRows]

\* A client calls a use case.
Begin(r) ==
  \E i \in Inputs :
    /\ pc[r] = "idle"
    /\ ValidInput(i)
    /\ input' = [input EXCEPT ![r] = i]
    /\ Goto(r, IF i.op = "create" THEN "count" ELSE "event")
    /\ UNCHANGED <<rows, read>>

\* Mutant: the limit itself is let through.
CountUpToLimit(r) ==
  /\ pc[r] = "count"
  /\ IF Cardinality({e \in EventIds : type[e] # None}) <= MaxEvents
     THEN Goto(r, "accounts") /\ UNCHANGED <<input, read>>
     ELSE Finish(r)
  /\ UNCHANGED rows

\* _create_financial_event: count() >= MAXIMUM_FINANCIAL_EVENTS
CountEvents(r) ==
  /\ pc[r] = "count"
  /\ IF Cardinality({e \in EventIds : type[e] # None}) < MaxEvents
     THEN Goto(r, "accounts") /\ UNCHANGED <<input, read>>
     ELSE Finish(r)
  /\ UNCHANGED rows

\* The first SELECT of get: is there an event and, for an update, of this type.
GetEvent(r) ==
  LET i == input[r]
      found == type[i.event] # None /\ (i.op = "update" => type[i.event] = i.type)
  IN  /\ pc[r] = "event"
      /\ IF found
         THEN Goto(r, IF i.op = "delete" THEN "write" ELSE "movements") /\ UNCHANGED <<input, read>>
         ELSE Finish(r)
      /\ UNCHANGED rows

\* The second SELECT of get, the structure checks on what it returned and the
\* check that the supplied list lines are among them.
GetMovements(r) ==
  LET i == input[r]
      table == Rows(movement, i.event)
  IN  /\ pc[r] = "movements"
      /\ IF Structure(table, i.event, i.type) /\ i.kept \subseteq MovementsOf(table, i.event)
         THEN /\ read' = [read EXCEPT ![r] = table]
              /\ Goto(r, "accounts")
              /\ UNCHANGED input
         ELSE Finish(r)
      /\ UNCHANGED rows

RequireAccounts(r) ==
  /\ pc[r] = "accounts"
  /\ IF AccountsNamed(input[r]) \subseteq accounts
     THEN Goto(r, "categories") /\ UNCHANGED <<input, read>>
     ELSE Finish(r)
  /\ UNCHANGED rows

RequireCategories(r) ==
  /\ pc[r] = "categories"
  /\ IF input[r].category \in categories
     THEN Goto(r, "write") /\ UNCHANGED <<input, read>>
     ELSE Finish(r)
  /\ UNCHANGED rows

--------------------------------------------------------------------------------
(* The write of a request: from the first INSERT, UPDATE or DELETE to commit *)

\* Mutant: PRAGMA foreign_keys is off for the connection.
ForeignKeysOff(row) == TRUE

\* FOREIGN KEY account_uuid and category_uuid of financial_movement, checked
\* for every row a statement stores.
ReferencesExist(row) == row.account \in accounts /\ row.category \in categories

\* INSERT INTO financial_event and one INSERT per movement.  table holds the
\* inserted rows under fresh uuids.
InsertEvent(r, e, table) ==
  LET inserted == {m \in MovementIds : table[m] # None}
  IN  /\ e \notin used
      /\ inserted \cap used = {}
      /\ \A m \in inserted : ReferencesExist(table[m])
      /\ type' = [type EXCEPT ![e] = input[r].type]
      /\ movement' = [m \in MovementIds |-> IF m \in inserted THEN table[m] ELSE movement[m]]
      /\ used' = used \cup inserted \cup {e}
      /\ Finish(r)
      /\ UNCHANGED <<accounts, categories>>

CreateSimple(r) ==
  LET i == input[r]
  IN  /\ pc[r] = "write" /\ i.op = "create" /\ i.type = "TRANSACTION"
      /\ \E e \in EventIds, main, fee \in MovementIds :
           /\ main # fee
           /\ InsertEvent(r, e, [m \in MovementIds |->
                IF m = main THEN MainRow(e, i)
                ELSE IF m = fee /\ FeeAsked(i) THEN FeeRow(e, i)
                ELSE None])

CreateShoppingList(r) ==
  LET i == input[r]
  IN  /\ pc[r] = "write" /\ i.op = "create" /\ i.type = "SHOPPING_LIST"
      /\ \E e \in EventIds, lines \in SUBSET MovementIds :
           /\ Cardinality(lines) = i.added
           /\ InsertEvent(r, e, [m \in MovementIds |->
                IF m \in lines THEN MainRow(e, i) ELSE None])

CreateTransfer(r) ==
  LET i == input[r]
  IN  /\ pc[r] = "write" /\ i.op = "create" /\ i.type = "ACCOUNT_TRANSFER"
      /\ \E e \in EventIds, source, destination, fee \in MovementIds :
           /\ source # destination /\ fee \notin {source, destination}
           /\ InsertEvent(r, e, [m \in MovementIds |->
                IF m = source THEN MainRow(e, i)
                ELSE IF m = destination THEN DestinationRow(e, i)
                ELSE IF m = fee /\ FeeAsked(i) THEN FeeRow(e, i)
                ELSE None])

\* UPDATE each rewritten movement (no row is affected when it is gone), DELETE
\* and INSERT movements; table holds the inserted rows under fresh uuids, and
\* FOREIGN KEY financial_event_uuid asks for the event they belong to.
WriteUpdate(r, rewritten, deleted, table) ==
  LET i == input[r]
      present == {m \in rewritten : movement[m] # None}
      inserted == {m \in MovementIds : table[m] # None}
  IN  /\ inserted \cap used = {}
      /\ inserted # {} => type[i.event] # None
      /\ \A m \in present : ReferencesExist(RewrittenRow(i, read[r][m]))
      /\ \A m \in inserted : ReferencesExist(table[m])
      /\ movement' = [m \in MovementIds |->
                        IF m \in inserted THEN table[m]
                        ELSE IF m \in deleted THEN None
                        ELSE IF m \in present THEN RewrittenRow(i, read[r][m])
                        ELSE movement[m]]
      /\ used' = used \cup inserted
      /\ Finish(r)
      /\ UNCHANGED <<accounts, categories, type>>

\* Mutant: the update deletes the rows it read and stores the main movement
\* under a new uuid.
ReplaceMain(r) ==
  LET i == input[r]
  IN  \E main \in MovementIds :
        WriteUpdate(r, {}, MovementsOf(read[r], i.event), [NoRows EXCEPT ![main] = MainRow(i.event, i)])

\* The fee of an event follows the one that was read: created when none was,
\* rewritten when there was one, deleted when the request names none.
WriteMainsAndFee(r) ==
  LET i == input[r]
      mains == MainsOf(read[r], i.event)
      fees == FeesOf(read[r], i.event)
  IN  IF ~ FeeAsked(i)
      THEN WriteUpdate(r, mains, fees, NoRows)
      ELSE IF fees # {}
      THEN WriteUpdate(r, mains \cup fees, {}, NoRows)
      ELSE \E fee \in MovementIds :
             WriteUpdate(r, mains, {}, [NoRows EXCEPT ![fee] = FeeRow(i.event, i)])

UpdateSimple(r) ==
  /\ pc[r] = "write" /\ input[r].op = "update" /\ input[r].type = "TRANSACTION"
  /\ WriteMainsAndFee(r)

UpdateTransfer(r) ==
  /\ pc[r] = "write" /\ input[r].op = "update" /\ input[r].type = "ACCOUNT_TRANSFER"
  /\ WriteMainsAndFee(r)

UpdateShoppingList(r) ==
  LET i == input[r]
  IN  /\ pc[r] = "write" /\ i.op = "update" /\ i.type = "SHOPPING_LIST"
      /\ \E lines \in SUBSET MovementIds :
           /\ Cardinality(lines) = i.added
           /\ WriteUpdate(r, i.kept, MovementsOf(read[r], i.event) \ i.kept,
                [m \in MovementIds |-> IF m \in lines THEN MainRow(i.event, i) ELSE None])

\* DELETE FROM financial_event; its movements go with it (ON DELETE CASCADE).
DeleteEvent(r) ==
  LET e == input[r].event
  IN  /\ pc[r] = "write" /\ input[r].op = "delete"
      /\ type' = [type EXCEPT ![e] = None]
      /\ movement' = [m \in MovementIds |->
                        IF m \in MovementsOf(movement, e) THEN None ELSE movement[m]]
      /\ Finish(r)
      /\ UNCHANGED <<accounts, categories, used>>

\* A request ends without writing: the writer lock was not obtained within the
\* busy timeout, a foreign key refused a statement, or the process stopped.
\* Leaving the unit of work rolls back.
Fail(r) ==
  /\ pc[r] # "idle"
  /\ Finish(r)
  /\ UNCHANGED rows

--------------------------------------------------------------------------------
(* Deletions by the other use cases of the ledger *)

\* delete_account and delete_category.  What they check before the DELETE can
\* only refuse it; ON DELETE RESTRICT decides when the DELETE runs.
DeleteAccount(a) ==
  /\ a \in accounts
  /\ \A m \in MovementIds : movement[m] # None => movement[m].account # a
  /\ accounts' = accounts \ {a}
  /\ UNCHANGED <<categories, type, movement, used, locals>>

DeleteCategory(c) ==
  /\ c \in categories
  /\ \A m \in MovementIds : movement[m] # None => movement[m].category # c
  /\ categories' = categories \ {c}
  /\ UNCHANGED <<accounts, type, movement, used, locals>>

RequestStep(r) ==
  \/ Begin(r) \/ CountEvents(r) \/ GetEvent(r) \/ GetMovements(r)
  \/ RequireAccounts(r) \/ RequireCategories(r)
  \/ CreateSimple(r) \/ CreateShoppingList(r) \/ CreateTransfer(r)
  \/ UpdateSimple(r) \/ UpdateShoppingList(r) \/ UpdateTransfer(r)
  \/ DeleteEvent(r) \/ Fail(r)

Next ==
  \/ \E r \in Requests : RequestStep(r)
  \/ \E a \in Accounts : DeleteAccount(a)
  \/ \E c \in Categories : DeleteCategory(c)

Spec == Init /\ [][Next]_vars

--------------------------------------------------------------------------------
(* Properties *)

\* Every variable keeps its type.
TypeOK ==
  /\ accounts \subseteq Accounts
  /\ categories \subseteq Categories
  /\ type \in [EventIds -> EventTypes \cup {None}]
  /\ movement \in [MovementIds -> Movement \cup {None}]
  /\ used \subseteq EventIds \cup MovementIds
  /\ pc \in [Requests -> {"idle", "count", "event", "movements", "accounts", "categories", "write"}]
  /\ input \in [Requests -> Input \cup {None}]
  /\ read \in [Requests -> [MovementIds -> Movement \cup {None}]]

\* No stored movement is left without its event, its account or its category,
\* whatever deletions run between the checks of a request and its write.
ReferentialIntegrity ==
  \A m \in MovementIds :
    movement[m] # None =>
      /\ type[movement[m].event] # None
      /\ movement[m].account \in accounts
      /\ movement[m].category \in categories

\* The shape of an event of type t, its fees' number and accounts left aside.
MainShape(table, e, t) ==
  /\ t = "TRANSACTION" => \E m \in MovementIds : MainsOf(table, e) = {m}
  /\ t = "ACCOUNT_TRANSFER" =>
       \E source, destination \in MovementIds :
         /\ MainsOf(table, e) = {source, destination}
         /\ table[source].value < 0
         /\ table[destination].value > 0
         /\ table[source].account # table[destination].account
  /\ t = "SHOPPING_LIST" =>
       /\ FeesOf(table, e) = {}
       /\ \A m \in MainsOf(table, e) : table[m].value < 0
  /\ \A f \in FeesOf(table, e) : table[f].value < 0

\* The main movements keep the shape of the event's type although updates write
\* from a stale read: a transaction has exactly one, a transfer exactly one
\* expense and one income on different accounts, a list only expenses; and
\* every fee is an expense.
MainMovements == \A e \in EventIds : MainShape(movement, e, type[e])

\* While a transaction or a transfer exists, its main movements are those that
\* any update still running read of it, however many updates ran since.
MainsAsRead ==
  \A r \in Requests :
    pc[r] \in {"accounts", "categories", "write"} /\ input[r].op = "update" =>
      LET i == input[r]
      IN  type[i.event] # None /\ i.type # "SHOPPING_LIST" =>
            MainsOf(movement, i.event) = MainsOf(read[r], i.event)

\* The creations that passed the check of the limit and have not ended.
Admitted ==
  {r \in Requests : pc[r] \in {"accounts", "categories", "write"} /\ input[r].op = "create"}
StoredEvents == {e \in EventIds : type[e] # None}

\* count() is read before the INSERT takes the lock, so creations that pass the
\* check together may pass the limit; otherwise they keep to what such a limit
\* promises, and pass it by fewer events than there are requests at a time.
Limit == INSTANCE AdmissionLimit WITH
  Things <- EventIds, MaxStored <- MaxEvents, stored <- StoredEvents, admitted <- Admitted
EventsImplementLimit == Limit!Spec
EventLimitOvershoot ==
  Cardinality(StoredEvents) + Cardinality(Admitted) < MaxEvents + Cardinality(Requests)

\* What docs/domain.md says of the three types of events, fees and accounts
\* included.
StructureAsDocumented == \A e \in StoredEvents : Structure(movement, e, type[e])

\* An update of e that other requests made stale: the movements it read are not
\* the event's movements any more.
Stale(r, e) ==
  /\ pc[r] \in {"accounts", "categories", "write"}
  /\ input[r].op = "update" /\ input[r].event = e
  /\ read[r] # Rows(movement, e)

\* Only the write of an update whose read is stale takes an event away from its
\* documented structure: creations and fresh updates store what the documents
\* say, whatever else runs.
StructureKept ==
  [][<<type, movement>>' # <<type, movement>> =>
       \A e \in EventIds :
         /\ type'[e] # None
         /\ type[e] # None => Structure(movement, e, type[e])
         => \/ Structure(movement', e, type'[e])
            \/ \E r \in Requests : Stale(r, e) /\ pc'[r] = "idle"]_vars

\* A movement never changes its event or its special_type, and an event its
\* type, although the rewritten rows come from an earlier read.
StableIdentity ==
  [][/\ \A m \in MovementIds :
          movement[m] # None /\ movement'[m] # None =>
            movement'[m].event = movement[m].event /\ movement'[m].fee = movement[m].fee
     /\ \A e \in EventIds :
          type[e] # None /\ type'[e] # None => type'[e] = type[e]]_vars
================================================================================
