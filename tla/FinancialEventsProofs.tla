------------------------- MODULE FinancialEventsProofs -------------------------
(***************************************************************************)
(* Type correctness and the main safety invariants of FinancialEvents, for *)
(* every number of events, movements, accounts, categories and concurrent  *)
(* requests.                                                               *)
(***************************************************************************)
EXTENDS FinancialEvents, FiniteSetTheorems, TLAPS

\* A stored row has a uuid that was generated.
IdsUsed ==
  /\ \A m \in MovementIds : movement[m] # None => m \in used
  /\ \A e \in EventIds : type[e] # None => e \in used

\* What a request carries at each step of its own.
RequestInv(r) ==
  /\ pc[r] # "idle" => input[r] \in Input /\ ValidInput(input[r])
  /\ pc[r] = "count" => input[r].op = "create"
  /\ pc[r] = "event" => input[r].op # "create"
  /\ pc[r] \in {"accounts", "categories"} => input[r].op # "delete"
  /\ pc[r] = "movements" => input[r].op = "update"

Updating(r) == input[r] \in Input /\ input[r].op = "update"

\* The event that a running update found had a uuid that is used, so no other
\* event takes it: it still has its type or it is gone.
EventInv(r) ==
  pc[r] \in {"movements", "accounts", "categories", "write"} /\ Updating(r) =>
    LET e == input[r].event
    IN  e \in used /\ type[e] \in {None, input[r].type}

\* What a running update knows of the rows it read.
ReadInv(r) ==
  pc[r] \in {"accounts", "categories", "write"} /\ Updating(r) =>
    LET e == input[r].event
    IN  /\ Structure(read[r], e, input[r].type)
        /\ input[r].kept \subseteq MovementsOf(read[r], e)
        /\ \A m \in MovementIds : read[r][m] # None =>
             /\ read[r][m].event = e
             /\ m \in used
             /\ movement[m] # None =>
                  /\ movement[m].event = e
                  /\ movement[m].fee = read[r][m].fee
                  /\ input[r].type = "ACCOUNT_TRANSFER" /\ ~ read[r][m].fee =>
                       movement[m].value = read[r][m].value
        /\ type[e] # None /\ input[r].type # "SHOPPING_LIST" =>
             MainsOf(movement, e) = MainsOf(read[r], e)

RequestsInv == \A r \in Requests : RequestInv(r) /\ EventInv(r) /\ ReadInv(r)

IInv == TypeOK /\ IdsUsed /\ ReferentialIntegrity /\ MainMovements /\ RequestsInv

--------------------------------------------------------------------------------
(* The rows that requests store *)

LEMMA NoRowsType == NoRows \in [MovementIds -> Movement \cup {None}]
  BY DEF NoRows

\* What the checks of the request body leave of the signs.
LEMMA ValidSigns ==
  ASSUME NEW i \in Input, ValidInput(i), i.op # "delete"
  PROVE  /\ i.value \in {-1, 1}
         /\ i.type # "TRANSACTION" => i.value = -1
         /\ i.type = "ACCOUNT_TRANSFER" => i.destinationValue = 1 /\ i.account # i.destination
         /\ i.type # "SHOPPING_LIST" /\ FeeAsked(i) => i.fee = -1
  BY DEF Input, ValidInput, FeeAsked, Signs, EventTypes

\* A valid creation or update stores rows of the right type: no zero value.
LEMMA RowTypes ==
  ASSUME NEW i \in Input, ValidInput(i), i.op # "delete", NEW e \in EventIds
  PROVE  /\ MainRow(e, i) \in Movement
         /\ i.type = "ACCOUNT_TRANSFER" => DestinationRow(e, i) \in Movement
         /\ i.type # "SHOPPING_LIST" /\ FeeAsked(i) => FeeRow(e, i) \in Movement
  <1>1. i.account \in Accounts /\ i.destination \in Accounts /\ i.category \in Categories
    BY DEF Input
  <1>2. MainRow(e, i) \in Movement
    BY <1>1, ValidSigns DEF Movement, MainRow
  <1>3. ASSUME i.type = "ACCOUNT_TRANSFER" PROVE DestinationRow(e, i) \in Movement
    BY <1>1, <1>3, ValidSigns DEF Movement, MainRow, DestinationRow
  <1>4. ASSUME i.type # "SHOPPING_LIST", FeeAsked(i) PROVE FeeRow(e, i) \in Movement
    BY <1>1, <1>4, ValidSigns DEF Movement, FeeRow
  <1>5. QED
    BY <1>2, <1>3, <1>4

LEMMA RewrittenType ==
  ASSUME NEW i \in Input, ValidInput(i), i.op = "update",
         NEW row \in Movement,
         row.fee => i.type # "SHOPPING_LIST" /\ FeeAsked(i)
  PROVE  /\ RewrittenRow(i, row) \in Movement
         /\ RewrittenRow(i, row).event = i.event
         /\ RewrittenRow(i, row).fee = row.fee
         /\ i.type = "ACCOUNT_TRANSFER" /\ ~ row.fee => RewrittenRow(i, row).value = row.value
         /\ row.fee \/ i.type = "SHOPPING_LIST" => RewrittenRow(i, row).value = -1
  <1>1. /\ i.event \in EventIds
        /\ i.op # "delete"
        /\ row.fee \in BOOLEAN
        /\ row.value \in {-1, 1}
    BY DEF Input, Movement
  <1>2. CASE row.fee
    <2>1. RewrittenRow(i, row) = FeeRow(i.event, i)
      BY <1>2 DEF RewrittenRow
    <2>2. /\ FeeRow(i.event, i) \in Movement
          /\ FeeRow(i.event, i).event = i.event
          /\ FeeRow(i.event, i).fee = TRUE
          /\ FeeRow(i.event, i).value = -1
      BY <1>1, <1>2, RowTypes, ValidSigns DEF FeeRow
    <2>3. row.fee = TRUE
      BY <1>1, <1>2
    <2>4. QED
      BY <2>1, <2>2, <2>3
  <1>3. CASE ~ row.fee /\ i.type = "ACCOUNT_TRANSFER" /\ row.value > 0
    <2>1. RewrittenRow(i, row) = DestinationRow(i.event, i)
      BY <1>3 DEF RewrittenRow
    <2>2. /\ DestinationRow(i.event, i) \in Movement
          /\ DestinationRow(i.event, i).event = i.event
          /\ DestinationRow(i.event, i).fee = FALSE
          /\ DestinationRow(i.event, i).value = 1
      BY <1>1, <1>3, RowTypes, ValidSigns DEF DestinationRow, MainRow
    <2>3. row.fee = FALSE /\ row.value = 1
      BY <1>1, <1>3
    <2>4. QED
      BY <1>3, <2>1, <2>2, <2>3
  <1>4. CASE ~ row.fee /\ ~ (i.type = "ACCOUNT_TRANSFER" /\ row.value > 0)
    <2>1. RewrittenRow(i, row) = MainRow(i.event, i)
      BY <1>4 DEF RewrittenRow
    <2>2. /\ MainRow(i.event, i) \in Movement
          /\ MainRow(i.event, i).event = i.event
          /\ MainRow(i.event, i).fee = FALSE
          /\ i.type # "TRANSACTION" => MainRow(i.event, i).value = -1
      BY <1>1, RowTypes, ValidSigns DEF MainRow
    <2>3. row.fee = FALSE /\ (i.type = "ACCOUNT_TRANSFER" => row.value = -1)
      BY <1>1, <1>4
    <2>4. QED
      BY <2>1, <2>2, <2>3
  <1>5. QED
    BY <1>2, <1>3, <1>4

--------------------------------------------------------------------------------
(* What the steps of other requests leave of a request's knowledge *)

\* What every step does to the rows: no uuid is used again, a movement that
\* stays keeps its event and special_type, a transfer's main movements their
\* sign, and transactions and transfers that stay their main movements.
RowsStep ==
  /\ used \subseteq used'
  /\ \A m \in used \cap MovementIds : movement[m] = None => movement'[m] = None
  /\ \A m \in MovementIds : movement[m] # None /\ movement'[m] # None =>
       /\ movement'[m].event = movement[m].event
       /\ movement'[m].fee = movement[m].fee
       /\ type[movement[m].event] = "ACCOUNT_TRANSFER" /\ ~ movement[m].fee =>
            movement'[m].value = movement[m].value
  /\ \A e \in used \cap EventIds : type'[e] \in {type[e], None}
  /\ \A e \in EventIds : type[e] # None /\ type'[e] # None /\ type[e] # "SHOPPING_LIST" =>
       MainsOf(movement', e) = MainsOf(movement, e)

\* A step of another request leaves what this one knows true.
LEMMA OtherRequests ==
  ASSUME TypeOK, ReferentialIntegrity, RowsStep,
         NEW r \in Requests, RequestInv(r), EventInv(r), ReadInv(r),
         pc'[r] = pc[r], input'[r] = input[r], read'[r] = read[r]
  PROVE  RequestInv(r)' /\ EventInv(r)' /\ ReadInv(r)'
  <1>1. RequestInv(r)'
    BY DEF RequestInv
  <1>2. Updating(r)' <=> Updating(r)
    BY DEF Updating
  <1>3. ASSUME Updating(r) PROVE input[r] \in Input /\ input[r].event \in EventIds
    BY <1>3 DEF Updating, TypeOK, Input
  <1>4. EventInv(r)'
    BY <1>2, <1>3 DEF EventInv, RowsStep
  <1>5. ASSUME pc[r] \in {"accounts", "categories", "write"}, Updating(r)
        PROVE  ReadInv(r)'
    <2> DEFINE e == input[r].event
    <2>1. e \in EventIds /\ e \in used /\ type[e] \in {None, input[r].type} /\ type'[e] \in {None, type[e]}
      BY <1>3, <1>5 DEF EventInv, RowsStep
    <2>2. /\ Structure(read[r], e, input[r].type)
          /\ input[r].kept \subseteq MovementsOf(read[r], e)
      BY <1>5 DEF ReadInv
    <2>3. ASSUME NEW m \in MovementIds, read[r][m] # None
          PROVE  /\ read[r][m].event = e
                 /\ m \in used'
                 /\ movement'[m] # None =>
                      /\ movement'[m].event = e
                      /\ movement'[m].fee = read[r][m].fee
                      /\ input[r].type = "ACCOUNT_TRANSFER" /\ ~ read[r][m].fee =>
                           movement'[m].value = read[r][m].value
      <3>1. /\ read[r][m].event = e
            /\ m \in used
            /\ movement[m] # None =>
                 /\ movement[m].event = e
                 /\ movement[m].fee = read[r][m].fee
                 /\ input[r].type = "ACCOUNT_TRANSFER" /\ ~ read[r][m].fee =>
                      movement[m].value = read[r][m].value
        BY <1>5, <2>3 DEF ReadInv
      <3>2. ASSUME movement'[m] # None PROVE movement[m] # None
        BY <3>1, <3>2 DEF RowsStep
      <3>3. ASSUME movement[m] # None PROVE type[e] = input[r].type
        BY <2>1, <3>1, <3>3 DEF ReferentialIntegrity
      <3>4. QED
        BY <3>1, <3>2, <3>3 DEF RowsStep
    <2>4. ASSUME type'[e] # None, input[r].type # "SHOPPING_LIST"
          PROVE  MainsOf(movement', e) = MainsOf(read[r], e)
      BY <1>5, <2>1, <2>4 DEF ReadInv, RowsStep
    <2>5. QED
      BY <2>2, <2>3, <2>4 DEF ReadInv
  <1>6. ReadInv(r)'
    BY <1>2, <1>5 DEF ReadInv
  <1>7. QED
    BY <1>1, <1>4, <1>6

--------------------------------------------------------------------------------
(* Steps that read *)

LEMMA InitInv == Init => IInv
  <1> SUFFICES ASSUME Init PROVE IInv
    OBVIOUS
  <1>1. TypeOK
    BY NoRowsType DEF Init, TypeOK
  <1>2. IdsUsed /\ ReferentialIntegrity
    BY DEF Init, IdsUsed, ReferentialIntegrity, NoRows
  <1>3. MainMovements
    BY ConstantsAssumption DEF Init, MainMovements, MainShape, FeesOf, MainsOf, MovementsOf, NoRows, EventTypes
  <1>4. RequestsInv
    BY DEF Init, RequestsInv, RequestInv, EventInv, ReadInv
  <1>5. QED
    BY <1>1, <1>2, <1>3, <1>4 DEF IInv

\* Ending a request keeps its variables typed and the other requests unchanged.
LEMMA FinishStep ==
  ASSUME TypeOK, NEW r \in Requests, Finish(r)
  PROVE  /\ pc' \in [Requests -> {"idle", "count", "event", "movements", "accounts", "categories", "write"}]
         /\ input' \in [Requests -> Input \cup {None}]
         /\ read' \in [Requests -> [MovementIds -> Movement \cup {None}]]
         /\ pc'[r] = "idle"
         /\ \A q \in Requests \ {r} : pc'[q] = pc[q] /\ input'[q] = input[q] /\ read'[q] = read[q]
  BY NoRowsType DEF TypeOK, Finish, Goto

\* An idle request knows nothing.
LEMMA IdleKnows ==
  ASSUME NEW r \in Requests, pc'[r] = "idle"
  PROVE  RequestInv(r)' /\ EventInv(r)' /\ ReadInv(r)'
  BY DEF RequestInv, EventInv, ReadInv

\* A step that changes no row.
LEMMA SameRows ==
  ASSUME TypeOK, UNCHANGED rows
  PROVE  RowsStep
  BY DEF RowsStep, rows, TypeOK

\* A request's step that changes no row keeps the invariant when its variables
\* stay typed and what it knows holds.
LEMMA ReadStep ==
  ASSUME IInv, NEW r \in Requests, UNCHANGED rows,
         pc' \in [Requests -> {"idle", "count", "event", "movements", "accounts", "categories", "write"}],
         input' \in [Requests -> Input \cup {None}],
         read' \in [Requests -> [MovementIds -> Movement \cup {None}]],
         \A q \in Requests \ {r} : pc'[q] = pc[q] /\ input'[q] = input[q] /\ read'[q] = read[q],
         RequestInv(r)' /\ EventInv(r)' /\ ReadInv(r)'
  PROVE  IInv' /\ RowsStep
  <1>1. TypeOK'
    BY DEF IInv, TypeOK, rows
  <1>2. IdsUsed' /\ ReferentialIntegrity'
    BY DEF IInv, IdsUsed, ReferentialIntegrity, rows
  <1>3. MainMovements'
    BY DEF IInv, MainMovements, rows
  <1>4. ASSUME NEW q \in Requests PROVE RequestInv(q)' /\ EventInv(q)' /\ ReadInv(q)'
    <2>1. CASE q = r
      BY <2>1
    <2>2. CASE q # r
      <3>1. RequestInv(q) /\ EventInv(q) /\ ReadInv(q)
        BY DEF IInv, RequestsInv
      <3>2. QED
        BY <2>2, <3>1, OtherRequests, SameRows DEF IInv
    <2>3. QED
      BY <2>1, <2>2
  <1>5. QED
    BY <1>1, <1>2, <1>3, <1>4, SameRows DEF IInv, RequestsInv

LEMMA FinishReadStep ==
  ASSUME IInv, NEW r \in Requests, Finish(r), UNCHANGED rows
  PROVE  IInv' /\ RowsStep
  <1>1. TypeOK
    BY DEF IInv
  <1>2. QED
    BY <1>1, FinishStep, IdleKnows, ReadStep

\* Moving on to step next without reading anything to keep.
LEMMA GotoReadStep ==
  ASSUME IInv, NEW r \in Requests, UNCHANGED <<rows, input, read>>,
         NEW next \in {"movements", "accounts", "categories", "write"}, Goto(r, next),
         pc[r] # "idle",
         next \in {"accounts", "categories"} => input[r].op # "delete",
         next = "movements" => input[r].op = "update",
         Updating(r) =>
           LET e == input[r].event
           IN  e \in used /\ type[e] \in {None, input[r].type},
         next \in {"accounts", "categories", "write"} /\ Updating(r) =>
           pc[r] \in {"accounts", "categories", "write"}
  PROVE  IInv' /\ RowsStep
  <1>1. TypeOK /\ RequestInv(r) /\ EventInv(r) /\ ReadInv(r) /\ RowsStep
    BY SameRows DEF IInv, RequestsInv
  <1>2. /\ pc' \in [Requests -> {"idle", "count", "event", "movements", "accounts", "categories", "write"}]
        /\ pc'[r] = next
        /\ \A q \in Requests \ {r} : pc'[q] = pc[q]
    BY <1>1 DEF Goto, TypeOK
  <1>3. RequestInv(r)'
    BY <1>1, <1>2 DEF RequestInv
  <1>4. EventInv(r)'
    BY <1>2 DEF EventInv, Updating, rows
  <1>5. ReadInv(r)'
    <2>1. SUFFICES ASSUME pc'[r] \in {"accounts", "categories", "write"}, Updating(r)
                   PROVE  ReadInv(r)'
      BY DEF ReadInv, Updating
    <2>2. pc[r] \in {"accounts", "categories", "write"}
      BY <1>2, <2>1
    <2>3. QED
      BY <1>1, <2>1, <2>2 DEF ReadInv, rows, MainsOf, MovementsOf
  <1>6. QED
    BY <1>1, <1>2, <1>3, <1>4, <1>5, ReadStep DEF TypeOK

LEMMA BeginInv ==
  ASSUME IInv, NEW r \in Requests, Begin(r)
  PROVE  IInv' /\ RowsStep
  <1>1. PICK i \in Inputs :
          /\ pc[r] = "idle" /\ ValidInput(i)
          /\ input' = [input EXCEPT ![r] = i]
          /\ Goto(r, IF i.op = "create" THEN "count" ELSE "event")
          /\ UNCHANGED <<rows, read>>
    BY DEF Begin
  <1>2. i \in Input
    BY ConstantsAssumption
  <1>3. TypeOK
    BY DEF IInv
  <1>4. /\ pc' \in [Requests -> {"idle", "count", "event", "movements", "accounts", "categories", "write"}]
        /\ input' \in [Requests -> Input \cup {None}]
        /\ pc'[r] = IF i.op = "create" THEN "count" ELSE "event"
        /\ input'[r] = i
        /\ \A q \in Requests \ {r} : pc'[q] = pc[q] /\ input'[q] = input[q] /\ read'[q] = read[q]
    BY <1>1, <1>2, <1>3 DEF Goto, TypeOK
  <1>5. RequestInv(r)' /\ EventInv(r)' /\ ReadInv(r)'
    BY <1>1, <1>2, <1>4 DEF RequestInv, EventInv, ReadInv
  <1>6. QED
    BY <1>1, <1>3, <1>4, <1>5, ReadStep DEF TypeOK

LEMMA CountEventsInv ==
  ASSUME IInv, NEW r \in Requests, CountEvents(r)
  PROVE  IInv' /\ RowsStep
  <1>1. CASE Finish(r)
    BY <1>1, FinishReadStep DEF CountEvents
  <1>2. CASE Goto(r, "accounts") /\ UNCHANGED <<input, read>>
    <2>1. pc[r] = "count" /\ input[r].op = "create"
      BY DEF CountEvents, IInv, RequestsInv, RequestInv
    <2>2. ~ Updating(r)
      BY <2>1 DEF Updating
    <2>3. QED
      BY <1>2, <2>1, <2>2, GotoReadStep DEF CountEvents
  <1>3. QED
    BY <1>1, <1>2 DEF CountEvents

LEMMA GetEventInv ==
  ASSUME IInv, NEW r \in Requests, GetEvent(r)
  PROVE  IInv' /\ RowsStep
  <1> DEFINE i == input[r]
  <1>1. CASE Finish(r)
    BY <1>1, FinishReadStep DEF GetEvent
  <1>2. CASE /\ type[i.event] # None /\ (i.op = "update" => type[i.event] = i.type)
             /\ Goto(r, IF i.op = "delete" THEN "write" ELSE "movements")
             /\ UNCHANGED <<input, read>>
    <2>1. pc[r] = "event" /\ i.op # "create" /\ i \in Input /\ UNCHANGED rows
      BY DEF GetEvent, IInv, RequestsInv, RequestInv
    <2>2. i.op \in {"update", "delete"} /\ i.event \in EventIds
      BY <2>1 DEF Input
    <2>3. i.event \in used
      BY <1>2, <2>2 DEF IInv, IdsUsed
    <2>4. CASE i.op = "delete"
      <3>1. ~ Updating(r)
        BY <2>4 DEF Updating
      <3>2. QED
        BY <1>2, <2>1, <2>4, <3>1, GotoReadStep
    <2>5. CASE i.op = "update"
      BY <1>2, <2>1, <2>3, <2>5, GotoReadStep
    <2>6. QED
      BY <2>2, <2>4, <2>5
  <1>3. QED
    BY <1>1, <1>2 DEF GetEvent

LEMMA GetMovementsInv ==
  ASSUME IInv, NEW r \in Requests, GetMovements(r)
  PROVE  IInv' /\ RowsStep
  <1> DEFINE i == input[r]
             e == i.event
             table == Rows(movement, e)
  <1>1. CASE Finish(r)
    BY <1>1, FinishReadStep DEF GetMovements
  <1>2. CASE /\ Structure(table, e, i.type) /\ i.kept \subseteq MovementsOf(table, e)
             /\ read' = [read EXCEPT ![r] = table]
             /\ Goto(r, "accounts")
             /\ UNCHANGED input
    <2>1. /\ TypeOK /\ IdsUsed /\ i.op = "update" /\ i \in Input /\ ValidInput(i)
          /\ pc[r] = "movements" /\ UNCHANGED rows
      BY DEF GetMovements, IInv, RequestsInv, RequestInv
    <2>2. e \in used /\ type[e] \in {None, i.type} /\ e \in EventIds
      BY <2>1 DEF IInv, RequestsInv, EventInv, Updating, TypeOK, Input
    <2>3. table \in [MovementIds -> Movement \cup {None}]
      BY <2>1 DEF Rows, MovementsOf, TypeOK
    <2>4. /\ pc' \in [Requests -> {"idle", "count", "event", "movements", "accounts", "categories", "write"}]
          /\ read' \in [Requests -> [MovementIds -> Movement \cup {None}]]
          /\ pc'[r] = "accounts" /\ read'[r] = table
          /\ \A q \in Requests \ {r} : pc'[q] = pc[q] /\ input'[q] = input[q] /\ read'[q] = read[q]
      BY <1>2, <2>1, <2>3 DEF Goto, TypeOK
    <2>5. RequestInv(r)'
      BY <1>2, <2>1, <2>4 DEF RequestInv
    <2>6. EventInv(r)'
      BY <1>2, <2>1, <2>2 DEF EventInv, rows
    <2>7. MainsOf(movement, e) = MainsOf(table, e)
      BY DEF MainsOf, MovementsOf, Rows
    <2>8. \A m \in MovementIds : table[m] # None =>
             table[m] = movement[m] /\ movement[m] # None /\ movement[m].event = e
      BY DEF MovementsOf, Rows
    <2>9. ReadInv(r)'
      <3>1. MainsOf(movement', e) = MainsOf(table, e)
        BY <2>1, <2>7 DEF MainsOf, MovementsOf, rows
      <3>2. \A m \in MovementIds : table[m] # None => m \in used
        BY <2>1, <2>8 DEF IdsUsed
      <3>3. QED
        BY <1>2, <2>1, <2>4, <2>8, <3>1, <3>2 DEF ReadInv, rows
    <2>10. QED
      BY <1>2, <2>1, <2>4, <2>5, <2>6, <2>9, ReadStep DEF TypeOK
  <1>3. QED
    BY <1>1, <1>2 DEF GetMovements

LEMMA RequireInv ==
  ASSUME IInv, NEW r \in Requests, RequireAccounts(r) \/ RequireCategories(r)
  PROVE  IInv' /\ RowsStep
  <1>1. CASE Finish(r)
    BY <1>1, FinishReadStep DEF RequireAccounts, RequireCategories
  <1>2. CASE \E next \in {"categories", "write"} : Goto(r, next) /\ UNCHANGED <<input, read>>
    <2>1. /\ pc[r] \in {"accounts", "categories"} /\ UNCHANGED rows
          /\ input[r].op # "delete"
      BY DEF RequireAccounts, RequireCategories, IInv, RequestsInv, RequestInv
    <2>2. ASSUME Updating(r)
          PROVE  LET e == input[r].event
                 IN  e \in used /\ type[e] \in {None, input[r].type}
      BY <2>1, <2>2 DEF IInv, RequestsInv, EventInv
    <2>3. QED
      BY <1>2, <2>1, <2>2, GotoReadStep
  <1>3. QED
    BY <1>1, <1>2 DEF RequireAccounts, RequireCategories

--------------------------------------------------------------------------------
(* Steps that write *)

LEMMA WriteStep ==
  ASSUME IInv, NEW r \in Requests, Finish(r), RowsStep,
         UNCHANGED <<accounts, categories>>,
         type' \in [EventIds -> EventTypes \cup {None}],
         movement' \in [MovementIds -> Movement \cup {None}],
         used' \subseteq EventIds \cup MovementIds,
         IdsUsed', ReferentialIntegrity', MainMovements'
  PROVE  IInv' /\ RowsStep
  <1>1. TypeOK
    BY DEF IInv
  <1>2. TypeOK'
    BY <1>1, FinishStep DEF TypeOK
  <1>3. ASSUME NEW q \in Requests PROVE RequestInv(q)' /\ EventInv(q)' /\ ReadInv(q)'
    <2>1. CASE q = r
      BY <1>1, <2>1, FinishStep, IdleKnows
    <2>2. CASE q # r
      <3>1. RequestInv(q) /\ EventInv(q) /\ ReadInv(q) /\ ReferentialIntegrity
        BY DEF IInv, RequestsInv
      <3>2. pc'[q] = pc[q] /\ input'[q] = input[q] /\ read'[q] = read[q]
        BY <1>1, <2>2, FinishStep
      <3>3. QED
        BY <1>1, <3>1, <3>2, OtherRequests
    <2>3. QED
      BY <2>1, <2>2
  <1>4. QED
    BY <1>2, <1>3 DEF IInv, RequestsInv

\* The shape of an event depends on its rows only.
LEMMA SameEventRows ==
  ASSUME NEW t1, NEW t2, NEW e,
         \A m \in MovementIds :
           (t1[m] # None /\ t1[m].event = e) \/ (t2[m] # None /\ t2[m].event = e) => t1[m] = t2[m]
  PROVE  /\ MainsOf(t1, e) = MainsOf(t2, e)
         /\ FeesOf(t1, e) = FeesOf(t2, e)
         /\ \A t : MainShape(t1, e, t) <=> MainShape(t2, e, t)
  <1>1. MovementsOf(t1, e) = MovementsOf(t2, e)
    BY DEF MovementsOf
  <1>2. \A m \in MovementsOf(t1, e) : t1[m] = t2[m]
    BY DEF MovementsOf
  <1>3. MainsOf(t1, e) = MainsOf(t2, e) /\ FeesOf(t1, e) = FeesOf(t2, e)
    BY <1>1, <1>2 DEF MainsOf, FeesOf
  <1>4. \A m \in MainsOf(t1, e) \cup FeesOf(t1, e) : t1[m] = t2[m]
    BY <1>2 DEF MainsOf, FeesOf
  <1>5. ASSUME NEW t PROVE MainShape(t1, e, t) <=> MainShape(t2, e, t)
    BY <1>3, <1>4 DEF MainShape
  <1>6. QED
    BY <1>3, <1>5

\* Inserting an event whose rows have the shape of its type.
LEMMA InsertEventInv ==
  ASSUME IInv, NEW r \in Requests, pc[r] = "write", input[r].op = "create",
         NEW e \in EventIds, NEW table \in [MovementIds -> Movement \cup {None}],
         InsertEvent(r, e, table),
         \A m \in MovementIds : table[m] # None => table[m].event = e,
         MainShape(table, e, input[r].type)
  PROVE  IInv' /\ RowsStep
  <1> DEFINE i == input[r]
             inserted == {m \in MovementIds : table[m] # None}
  <1>1. /\ TypeOK /\ IdsUsed /\ ReferentialIntegrity /\ MainMovements
        /\ i \in Input /\ i.type \in EventTypes
    BY DEF IInv, RequestsInv, RequestInv, Input
  <1>2. /\ e \notin used /\ inserted \cap used = {}
        /\ \A m \in inserted : table[m].account \in accounts /\ table[m].category \in categories
        /\ type' = [type EXCEPT ![e] = i.type]
        /\ movement' = [m \in MovementIds |-> IF m \in inserted THEN table[m] ELSE movement[m]]
        /\ used' = used \cup inserted \cup {e}
        /\ Finish(r)
        /\ UNCHANGED <<accounts, categories>>
    BY DEF InsertEvent, ReferencesExist
  <1>3. \A m \in inserted : movement[m] = None
    BY <1>1, <1>2 DEF IdsUsed
  <1>4. type[e] = None /\ \A m \in MovementIds : movement[m] # None => movement[m].event # e
    BY <1>1, <1>2 DEF IdsUsed, ReferentialIntegrity, TypeOK
  <1>5. /\ type' \in [EventIds -> EventTypes \cup {None}]
        /\ movement' \in [MovementIds -> Movement \cup {None}]
        /\ used' \subseteq EventIds \cup MovementIds
    BY <1>1, <1>2 DEF TypeOK
  <1>6. IdsUsed'
    BY <1>1, <1>2 DEF IdsUsed, TypeOK
  <1>7. ReferentialIntegrity'
    BY <1>1, <1>2, <1>4, ConstantsAssumption DEF ReferentialIntegrity, TypeOK, Movement
  <1>8. ASSUME NEW x \in EventIds, x # e
        PROVE  /\ MainsOf(movement', x) = MainsOf(movement, x)
               /\ \A t : MainShape(movement', x, t) <=> MainShape(movement, x, t)
    <2>1. \A m \in MovementIds :
            (movement'[m] # None /\ movement'[m].event = x) \/ (movement[m] # None /\ movement[m].event = x)
              => movement'[m] = movement[m]
      BY <1>2, <1>3, <1>8
    <2>2. QED
      BY <2>1, SameEventRows
  <1>9. MainShape(movement', e, i.type)
    <2>1. \A m \in MovementIds :
            (movement'[m] # None /\ movement'[m].event = e) \/ (table[m] # None /\ table[m].event = e)
              => movement'[m] = table[m]
      BY <1>2, <1>4
    <2>2. QED
      BY <2>1, SameEventRows
  <1>10. MainMovements'
    <2>1. ASSUME NEW x \in EventIds PROVE MainShape(movement', x, type'[x])
      <3>1. CASE x = e
        BY <1>1, <1>2, <1>9, <3>1 DEF TypeOK
      <3>2. CASE x # e
        BY <1>1, <1>2, <1>8, <3>2 DEF TypeOK, MainMovements
      <3>3. QED
        BY <3>1, <3>2
    <2>2. QED
      BY <2>1 DEF MainMovements
  <1>11. RowsStep
    <2>1. \A m \in used \cap MovementIds : movement[m] = None => movement'[m] = None
      BY <1>2
    <2>2. \A m \in MovementIds : movement[m] # None => movement'[m] = movement[m]
      BY <1>2, <1>3
    <2>3. \A x \in used \cap EventIds : type'[x] = type[x]
      BY <1>1, <1>2 DEF TypeOK
    <2>4. \A x \in EventIds : type[x] # None => MainsOf(movement', x) = MainsOf(movement, x)
      BY <1>4, <1>8
    <2>5. QED
      BY <1>2, <2>1, <2>2, <2>3, <2>4 DEF RowsStep
  <1>12. QED
    BY <1>2, <1>5, <1>6, <1>7, <1>10, <1>11, WriteStep

LEMMA CreateSimpleInv ==
  ASSUME IInv, NEW r \in Requests, CreateSimple(r)
  PROVE  IInv' /\ RowsStep
  <1> DEFINE i == input[r]
  <1>1. PICK e \in EventIds, main \in MovementIds, fee \in MovementIds :
          /\ main # fee
          /\ InsertEvent(r, e, [m \in MovementIds |->
               IF m = main THEN MainRow(e, i)
               ELSE IF m = fee /\ FeeAsked(i) THEN FeeRow(e, i)
               ELSE None])
    BY DEF CreateSimple
  <1> DEFINE table == [m \in MovementIds |->
               IF m = main THEN MainRow(e, i)
               ELSE IF m = fee /\ FeeAsked(i) THEN FeeRow(e, i)
               ELSE None]
  <1>2. /\ pc[r] = "write" /\ i.op = "create" /\ i.type = "TRANSACTION"
        /\ i \in Input /\ ValidInput(i)
    BY DEF CreateSimple, IInv, RequestsInv, RequestInv
  <1>3. /\ MainRow(e, i) \in Movement /\ MainRow(e, i) # None
        /\ MainRow(e, i).event = e /\ MainRow(e, i).fee = FALSE
    BY <1>2, RowTypes, ConstantsAssumption DEF MainRow
  <1>4. ASSUME FeeAsked(i)
        PROVE  /\ FeeRow(e, i) \in Movement /\ FeeRow(e, i) # None
               /\ FeeRow(e, i).event = e /\ FeeRow(e, i).fee = TRUE /\ FeeRow(e, i).value = -1
    BY <1>2, <1>4, RowTypes, ValidSigns, ConstantsAssumption DEF FeeRow
  <1>5. table \in [MovementIds -> Movement \cup {None}]
    BY <1>3, <1>4
  <1>6. \A m \in MovementIds : table[m] # None => table[m].event = e
    BY <1>3, <1>4
  <1>7. MainsOf(table, e) = {main}
    BY <1>1, <1>3, <1>4 DEF MainsOf, MovementsOf
  <1>8. \A f \in FeesOf(table, e) : table[f].value = -1
    BY <1>1, <1>3, <1>4 DEF FeesOf, MovementsOf
  <1>9. MainShape(table, e, i.type)
    BY <1>2, <1>7, <1>8 DEF MainShape
  <1>10. QED
    BY <1>1, <1>2, <1>5, <1>6, <1>9, InsertEventInv

LEMMA CreateTransferInv ==
  ASSUME IInv, NEW r \in Requests, CreateTransfer(r)
  PROVE  IInv' /\ RowsStep
  <1> DEFINE i == input[r]
  <1>1. PICK e \in EventIds, source \in MovementIds, destination \in MovementIds, fee \in MovementIds :
          /\ source # destination /\ fee \notin {source, destination}
          /\ InsertEvent(r, e, [m \in MovementIds |->
               IF m = source THEN MainRow(e, i)
               ELSE IF m = destination THEN DestinationRow(e, i)
               ELSE IF m = fee /\ FeeAsked(i) THEN FeeRow(e, i)
               ELSE None])
    BY DEF CreateTransfer
  <1> DEFINE table == [m \in MovementIds |->
               IF m = source THEN MainRow(e, i)
               ELSE IF m = destination THEN DestinationRow(e, i)
               ELSE IF m = fee /\ FeeAsked(i) THEN FeeRow(e, i)
               ELSE None]
  <1>2. /\ pc[r] = "write" /\ i.op = "create" /\ i.type = "ACCOUNT_TRANSFER"
        /\ i \in Input /\ ValidInput(i)
    BY DEF CreateTransfer, IInv, RequestsInv, RequestInv
  <1>3. /\ MainRow(e, i) \in Movement /\ MainRow(e, i) # None
        /\ MainRow(e, i).event = e /\ MainRow(e, i).fee = FALSE
        /\ MainRow(e, i).value = -1 /\ MainRow(e, i).account = i.account
    BY <1>2, RowTypes, ValidSigns, ConstantsAssumption DEF MainRow
  <1>4. /\ DestinationRow(e, i) \in Movement /\ DestinationRow(e, i) # None
        /\ DestinationRow(e, i).event = e /\ DestinationRow(e, i).fee = FALSE
        /\ DestinationRow(e, i).value = 1 /\ DestinationRow(e, i).account = i.destination
    BY <1>2, RowTypes, ValidSigns, ConstantsAssumption DEF DestinationRow, MainRow
  <1>5. ASSUME FeeAsked(i)
        PROVE  /\ FeeRow(e, i) \in Movement /\ FeeRow(e, i) # None
               /\ FeeRow(e, i).event = e /\ FeeRow(e, i).fee = TRUE /\ FeeRow(e, i).value = -1
    BY <1>2, <1>5, RowTypes, ValidSigns, ConstantsAssumption DEF FeeRow
  <1>6. table \in [MovementIds -> Movement \cup {None}]
    BY <1>3, <1>4, <1>5
  <1>7. \A m \in MovementIds : table[m] # None => table[m].event = e
    BY <1>3, <1>4, <1>5
  <1>8. MainsOf(table, e) = {source, destination}
    BY <1>1, <1>3, <1>4, <1>5 DEF MainsOf, MovementsOf
  <1>9. \A f \in FeesOf(table, e) : table[f].value = -1
    BY <1>1, <1>3, <1>4, <1>5 DEF FeesOf, MovementsOf
  <1>10. i.account # i.destination
    BY <1>2, ValidSigns
  <1>11. table[source] = MainRow(e, i) /\ table[destination] = DestinationRow(e, i)
    BY <1>1
  <1>12. MainShape(table, e, i.type)
    BY <1>2, <1>3, <1>4, <1>8, <1>9, <1>10, <1>11 DEF MainShape
  <1>13. QED
    BY <1>1, <1>2, <1>6, <1>7, <1>12, InsertEventInv

LEMMA CreateShoppingListInv ==
  ASSUME IInv, NEW r \in Requests, CreateShoppingList(r)
  PROVE  IInv' /\ RowsStep
  <1> DEFINE i == input[r]
  <1>1. PICK e \in EventIds, lines \in SUBSET MovementIds :
          InsertEvent(r, e, [m \in MovementIds |-> IF m \in lines THEN MainRow(e, i) ELSE None])
    BY DEF CreateShoppingList
  <1> DEFINE table == [m \in MovementIds |-> IF m \in lines THEN MainRow(e, i) ELSE None]
  <1>2. /\ pc[r] = "write" /\ i.op = "create" /\ i.type = "SHOPPING_LIST"
        /\ i \in Input /\ ValidInput(i)
    BY DEF CreateShoppingList, IInv, RequestsInv, RequestInv
  <1>3. /\ MainRow(e, i) \in Movement /\ MainRow(e, i) # None
        /\ MainRow(e, i).event = e /\ MainRow(e, i).fee = FALSE /\ MainRow(e, i).value = -1
    BY <1>2, RowTypes, ValidSigns, ConstantsAssumption DEF MainRow
  <1>4. /\ table \in [MovementIds -> Movement \cup {None}]
        /\ \A m \in MovementIds : table[m] # None => table[m].event = e
    BY <1>3
  <1>5. /\ FeesOf(table, e) = {}
        /\ \A m \in MainsOf(table, e) : table[m].value = -1
    BY <1>3 DEF FeesOf, MainsOf, MovementsOf
  <1>6. MainShape(table, e, i.type)
    BY <1>2, <1>5 DEF MainShape
  <1>7. QED
    BY <1>1, <1>2, <1>4, <1>6, InsertEventInv

\* An update that rewrites movements it read, keeps a transaction's and a
\* transfer's main movements and inserts only fees in them.
LEMMA WriteUpdateInv ==
  ASSUME IInv, NEW r \in Requests, pc[r] = "write", input[r].op = "update",
         NEW rewritten, NEW deleted, NEW table \in [MovementIds -> Movement \cup {None}],
         WriteUpdate(r, rewritten, deleted, table),
         rewritten \subseteq MovementsOf(read[r], input[r].event),
         deleted \subseteq MovementsOf(read[r], input[r].event),
         \A m \in rewritten : read[r][m].fee => FeeAsked(input[r]),
         \A m \in MovementIds : table[m] # None =>
            /\ table[m].event = input[r].event
            /\ table[m].value = -1
            /\ table[m].fee <=> input[r].type # "SHOPPING_LIST",
         input[r].type # "SHOPPING_LIST" =>
            /\ deleted \subseteq FeesOf(read[r], input[r].event)
            /\ MainsOf(read[r], input[r].event) \subseteq rewritten
  PROVE  IInv' /\ RowsStep
  <1> DEFINE i == input[r]
             e == i.event
             present == {m \in rewritten : movement[m] # None}
             inserted == {m \in MovementIds : table[m] # None}
  <1>1. /\ TypeOK /\ IdsUsed /\ ReferentialIntegrity /\ MainMovements
        /\ i \in Input /\ ValidInput(i) /\ i.type \in EventTypes /\ e \in EventIds
        /\ Updating(r)
    BY DEF IInv, RequestsInv, RequestInv, Input, Updating
  <1>2. /\ inserted \cap used = {}
        /\ inserted # {} => type[e] # None
        /\ \A m \in present : /\ RewrittenRow(i, read[r][m]).account \in accounts
                              /\ RewrittenRow(i, read[r][m]).category \in categories
        /\ \A m \in inserted : table[m].account \in accounts /\ table[m].category \in categories
        /\ movement' = [m \in MovementIds |->
                          IF m \in inserted THEN table[m]
                          ELSE IF m \in deleted THEN None
                          ELSE IF m \in present THEN RewrittenRow(i, read[r][m])
                          ELSE movement[m]]
        /\ used' = used \cup inserted
        /\ Finish(r)
        /\ UNCHANGED <<accounts, categories, type>>
    BY DEF WriteUpdate, ReferencesExist
  <1>3. /\ Structure(read[r], e, i.type)
        /\ e \in used /\ type[e] \in {None, i.type}
        /\ type[e] # None /\ i.type # "SHOPPING_LIST" =>
             MainsOf(movement, e) = MainsOf(read[r], e)
    BY <1>1 DEF IInv, RequestsInv, EventInv, ReadInv
  <1>4. ASSUME NEW m \in MovementsOf(read[r], e)
        PROVE  /\ m \in MovementIds /\ m \in used /\ read[r][m] \in Movement
               /\ movement[m] # None =>
                    /\ movement[m].event = e
                    /\ movement[m].fee = read[r][m].fee
                    /\ i.type = "ACCOUNT_TRANSFER" /\ ~ read[r][m].fee =>
                         movement[m].value = read[r][m].value
    <2>1. m \in MovementIds /\ read[r][m] # None
      BY DEF MovementsOf
    <2>2. read[r][m] \in Movement
      BY <1>1, <2>1 DEF TypeOK
    <2>3. QED
      BY <1>1, <2>1, <2>2 DEF IInv, RequestsInv, ReadInv
  <1>5. i.type = "SHOPPING_LIST" => FeesOf(read[r], e) = {}
    BY <1>3 DEF Structure, ListStructure
  <1>6. ASSUME NEW m \in present
        PROVE  /\ m \in MovementIds /\ movement[m] # None
               /\ RewrittenRow(i, read[r][m]) \in Movement
               /\ RewrittenRow(i, read[r][m]) # None
               /\ RewrittenRow(i, read[r][m]).event = movement[m].event
               /\ RewrittenRow(i, read[r][m]).event = e
               /\ RewrittenRow(i, read[r][m]).fee = movement[m].fee
               /\ i.type = "ACCOUNT_TRANSFER" /\ ~ movement[m].fee =>
                    RewrittenRow(i, read[r][m]).value = movement[m].value
               /\ movement[m].fee \/ i.type = "SHOPPING_LIST" =>
                    RewrittenRow(i, read[r][m]).value = -1
    <2>1. m \in MovementsOf(read[r], e) /\ movement[m] # None
      OBVIOUS
    <2>2. read[r][m].fee => i.type # "SHOPPING_LIST" /\ FeeAsked(i)
      BY <1>5, <2>1 DEF FeesOf
    <2>3. QED
      BY <1>1, <1>4, <2>1, <2>2, RewrittenType, ConstantsAssumption
  <1>7. \A m \in inserted : movement[m] = None
    BY <1>1, <1>2 DEF IdsUsed
  <1>8. /\ movement' \in [MovementIds -> Movement \cup {None}]
        /\ used' \subseteq EventIds \cup MovementIds
        /\ IdsUsed'
    BY <1>1, <1>2, <1>6 DEF TypeOK, IdsUsed
  <1>9. ReferentialIntegrity'
    <2>1. ASSUME NEW m \in MovementIds, movement'[m] # None
          PROVE  /\ type[movement'[m].event] # None
                 /\ movement'[m].account \in accounts
                 /\ movement'[m].category \in categories
      BY <1>1, <1>2, <1>6, <2>1 DEF ReferentialIntegrity
    <2>2. QED
      BY <1>2, <2>1 DEF ReferentialIntegrity
  <1>10. ASSUME NEW m \in deleted, movement[m] # None
         PROVE  movement[m].event = e /\ (i.type # "SHOPPING_LIST" => movement[m].fee)
    BY <1>4, <1>10 DEF FeesOf
  <1>11. ASSUME NEW x \in EventIds, x # e
         PROVE  /\ MainsOf(movement', x) = MainsOf(movement, x)
                /\ \A t : MainShape(movement', x, t) <=> MainShape(movement, x, t)
    <2>1. \A m \in MovementIds :
            (movement'[m] # None /\ movement'[m].event = x) \/ (movement[m] # None /\ movement[m].event = x)
              => movement'[m] = movement[m]
      BY <1>2, <1>6, <1>7, <1>10, <1>11
    <2>2. QED
      BY ONLY <2>1, SameEventRows, Zenon
  <1>12. ASSUME type[e] # None, i.type # "SHOPPING_LIST"
         PROVE  MainsOf(movement', e) = MainsOf(movement, e)
    <2>1. ASSUME NEW m \in MainsOf(movement', e) PROVE m \in MainsOf(movement, e)
      BY <1>2, <1>6, <1>12 DEF MainsOf, MovementsOf
    <2>2. ASSUME NEW m \in MainsOf(movement, e) PROVE m \in MainsOf(movement', e)
      <3>1. /\ m \in MovementIds /\ movement[m] # None
            /\ movement[m].event = e /\ ~ movement[m].fee
        BY DEF MainsOf, MovementsOf
      <3>2. m \in present /\ m \notin inserted /\ m \notin deleted
        BY <1>3, <1>7, <1>10, <1>12, <3>1
      <3>3. movement'[m] = RewrittenRow(i, read[r][m])
        BY <1>2, <3>1, <3>2
      <3>4. QED
        BY <1>6, <3>1, <3>2, <3>3 DEF MainsOf, MovementsOf
    <2>3. QED
      BY <2>1, <2>2
  <1>13. ASSUME NEW m \in MovementIds, movement'[m] # None
         PROVE  \/ movement[m] # None /\ movement'[m] = movement[m]
                \/ m \in inserted /\ movement'[m] = table[m]
                \/ m \in present /\ movement'[m] = RewrittenRow(i, read[r][m])
    BY <1>2, <1>13
  <1>14. MainShape(movement, e, type[e])
    BY <1>1 DEF MainMovements
  <1>15. \A f \in FeesOf(movement', e) : movement'[f].value < 0
    <2>1. SUFFICES ASSUME NEW f \in FeesOf(movement', e) PROVE movement'[f].value < 0
      OBVIOUS
    <2>2. f \in MovementIds /\ movement'[f] # None /\ movement'[f].event = e /\ movement'[f].fee
      BY DEF FeesOf, MovementsOf
    <2>3. CASE movement[f] # None /\ movement'[f] = movement[f]
      BY <1>14, <2>2, <2>3 DEF MainShape, FeesOf, MovementsOf
    <2>4. CASE f \in inserted /\ movement'[f] = table[f]
      BY <2>4
    <2>5. CASE f \in present /\ movement'[f] = RewrittenRow(i, read[r][f])
      BY <1>6, <2>2, <2>5
    <2>6. QED
      BY <1>13, <2>2, <2>3, <2>4, <2>5
  <1>16. MainShape(movement', e, type[e])
    <2>1. CASE type[e] = None
      BY <1>15, <2>1, ConstantsAssumption DEF MainShape, EventTypes
    <2>2. CASE type[e] = "TRANSACTION"
      <3>1. MainsOf(movement', e) = MainsOf(movement, e)
        BY <1>3, <1>12, <2>2, ConstantsAssumption DEF EventTypes
      <3>2. QED
        BY <1>14, <1>15, <2>2, <3>1 DEF MainShape
    <2>3. CASE type[e] = "ACCOUNT_TRANSFER"
      <3>1. i.type = "ACCOUNT_TRANSFER" /\ type[e] # None
        BY <1>3, <2>3, ConstantsAssumption DEF EventTypes
      <3>2. MainsOf(movement', e) = MainsOf(movement, e) /\ MainsOf(movement, e) = MainsOf(read[r], e)
        BY <1>3, <1>12, <3>1
      <3>3. PICK source \in MovementIds, destination \in MovementIds :
              /\ MainsOf(movement, e) = {source, destination}
              /\ movement[source].value < 0
              /\ movement[destination].value > 0
        BY <1>14, <2>3 DEF MainShape
      <3>4. ASSUME NEW m \in {source, destination}
            PROVE  /\ movement'[m] = RewrittenRow(i, read[r][m])
                   /\ movement'[m].value = movement[m].value
                   /\ read[r][m].value = movement[m].value
                   /\ read[r][m].value \in {-1, 1}
                   /\ ~ read[r][m].fee
        <4>1. /\ movement[m] # None /\ movement[m].event = e /\ ~ movement[m].fee
              /\ m \in MainsOf(read[r], e)
          BY <3>2, <3>3 DEF MainsOf, MovementsOf
        <4>2. m \in MovementsOf(read[r], e) /\ ~ read[r][m].fee
          BY <4>1 DEF MainsOf
        <4>3. m \in present /\ m \notin inserted /\ m \notin deleted
          BY <1>7, <1>10, <3>1, <4>1
        <4>4. movement'[m] = RewrittenRow(i, read[r][m])
          BY <1>2, <4>3
        <4>5. read[r][m].value = movement[m].value /\ read[r][m].value \in {-1, 1}
          <5>1. read[r][m] \in Movement /\ MovementsOf(read[r], e) \subseteq MovementIds
            BY <1>4, <4>2 DEF MovementsOf
          <5>2. QED
            BY <1>4, <3>1, <4>1, <4>2, <5>1 DEF Movement
        <4>6. QED
          BY <1>6, <3>1, <4>1, <4>2, <4>3, <4>4, <4>5
      <3>5. /\ RewrittenRow(i, read[r][source]).account = i.account
            /\ RewrittenRow(i, read[r][destination]).account = i.destination
        <4>1. ~ read[r][source].fee /\ ~ (read[r][source].value > 0)
          <5>1. read[r][source].value < 0 /\ read[r][source].value \in {-1, 1}
            BY <3>3, <3>4
          <5>2. ~ read[r][source].fee
            BY <3>4
          <5>3. QED
            BY <5>1, <5>2
        <4>2. ~ read[r][destination].fee /\ read[r][destination].value > 0
          BY <3>3, <3>4
        <4>3. RewrittenRow(i, read[r][source]) = MainRow(e, i)
          BY <4>1 DEF RewrittenRow
        <4>4. RewrittenRow(i, read[r][destination]) = DestinationRow(e, i)
          BY <3>1, <4>2 DEF RewrittenRow
        <4>5. QED
          BY <4>3, <4>4 DEF MainRow, DestinationRow
      <3>6. i.account # i.destination
        BY <1>1, <3>1, ValidSigns
      <3>7. /\ MainsOf(movement', e) = {source, destination}
            /\ movement'[source].value < 0
            /\ movement'[destination].value > 0
            /\ movement'[source].account # movement'[destination].account
        BY <3>2, <3>3, <3>4, <3>5, <3>6
      <3>8. QED
        BY <1>15, <2>3, <3>7 DEF MainShape
    <2>4. CASE type[e] = "SHOPPING_LIST"
      <3>1. i.type = "SHOPPING_LIST"
        BY <1>3, <2>4, ConstantsAssumption DEF EventTypes
      <3>2. FeesOf(movement', e) = {}
        <4>1. SUFFICES ASSUME NEW f \in FeesOf(movement', e) PROVE FALSE
          OBVIOUS
        <4>2. f \in MovementIds /\ movement'[f] # None /\ movement'[f].event = e /\ movement'[f].fee
          BY DEF FeesOf, MovementsOf
        <4>3. f \notin inserted
          BY <1>2, <3>1, <4>2
        <4>4. movement[f] # None /\ movement[f].event = e /\ movement[f].fee
          BY <1>6, <1>13, <4>2, <4>3
        <4>5. f \in FeesOf(movement, e)
          BY <4>2, <4>4 DEF FeesOf, MovementsOf
        <4>6. QED
          BY <1>14, <2>4, <4>5 DEF MainShape
      <3>3. ASSUME NEW m \in MainsOf(movement', e) PROVE movement'[m].value < 0
        <4>1. m \in MovementIds /\ movement'[m] # None /\ movement'[m].event = e /\ ~ movement'[m].fee
          BY DEF MainsOf, MovementsOf
        <4>2. CASE movement[m] # None /\ movement'[m] = movement[m]
          BY <1>14, <2>4, <4>1, <4>2 DEF MainShape, MainsOf, MovementsOf
        <4>3. CASE m \in inserted /\ movement'[m] = table[m]
          BY <4>3
        <4>4. CASE m \in present /\ movement'[m] = RewrittenRow(i, read[r][m])
          BY <1>6, <3>1, <4>4
        <4>5. QED
          BY <1>13, <4>1, <4>2, <4>3, <4>4
      <3>4. QED
        BY <1>15, <2>4, <3>2, <3>3 DEF MainShape
    <2>5. QED
      BY <1>1, <2>1, <2>2, <2>3, <2>4 DEF TypeOK, EventTypes
  <1>17. MainMovements'
    <2>1. ASSUME NEW x \in EventIds PROVE MainShape(movement', x, type[x])
      <3>1. CASE x = e
        BY <1>16, <3>1
      <3>2. CASE x # e
        BY <1>1, <1>11, <3>2 DEF MainMovements
      <3>3. QED
        BY <3>1, <3>2
    <2>2. QED
      BY <1>2, <2>1 DEF MainMovements
  <1>18. RowsStep
    <2>1. \A m \in used \cap MovementIds : movement[m] = None => movement'[m] = None
      BY <1>2
    <2>2. ASSUME NEW m \in MovementIds, movement[m] # None, movement'[m] # None
          PROVE  /\ movement'[m].event = movement[m].event
                 /\ movement'[m].fee = movement[m].fee
                 /\ type[movement[m].event] = "ACCOUNT_TRANSFER" /\ ~ movement[m].fee =>
                      movement'[m].value = movement[m].value
      <3>1. CASE movement'[m] = movement[m]
        BY <3>1
      <3>2. CASE m \in present /\ movement'[m] = RewrittenRow(i, read[r][m])
        <4>1. movement[m].event = e /\ (type[e] = "ACCOUNT_TRANSFER" => i.type = "ACCOUNT_TRANSFER")
          BY <1>3, <1>6, <3>2, ConstantsAssumption DEF EventTypes
        <4>2. QED
          BY <1>6, <3>2, <4>1
      <3>3. QED
        BY <1>7, <1>13, <2>2, <3>1, <3>2
    <2>3. ASSUME NEW x \in EventIds, type[x] # None, type[x] # "SHOPPING_LIST"
          PROVE  MainsOf(movement', x) = MainsOf(movement, x)
      BY <1>3, <1>11, <1>12, <2>3
    <2>4. QED
      BY <1>2, <2>1, <2>2, <2>3 DEF RowsStep
  <1>19. QED
    BY <1>1, <1>2, <1>8, <1>9, <1>17, <1>18, WriteStep DEF TypeOK

\* The two updates that have one fee at most.
LEMMA WriteMainsAndFeeInv ==
  ASSUME IInv, NEW r \in Requests, UpdateSimple(r) \/ UpdateTransfer(r)
  PROVE  IInv' /\ RowsStep
  <1> DEFINE i == input[r]
             e == i.event
             mains == MainsOf(read[r], e)
             fees == FeesOf(read[r], e)
  <1>1. /\ pc[r] = "write" /\ i.op = "update" /\ i.type # "SHOPPING_LIST"
        /\ i \in Input /\ ValidInput(i) /\ e \in EventIds
        /\ WriteMainsAndFee(r)
    BY DEF UpdateSimple, UpdateTransfer, IInv, RequestsInv, RequestInv, Input
  <1>2. mains \subseteq MovementsOf(read[r], e) /\ fees \subseteq MovementsOf(read[r], e)
    BY DEF MainsOf, FeesOf
  <1>3. \A m \in mains : ~ read[r][m].fee
    BY DEF MainsOf
  <1>4. \A m \in MovementIds : NoRows[m] = None
    BY DEF NoRows
  <1>5. CASE ~ FeeAsked(i)
    <2>1. WriteUpdate(r, mains, fees, NoRows)
      BY <1>1, <1>5 DEF WriteMainsAndFee
    <2>2. QED
      BY <1>1, <1>2, <1>3, <1>4, <2>1, NoRowsType, WriteUpdateInv
  <1>6. CASE FeeAsked(i) /\ fees # {}
    <2>1. WriteUpdate(r, mains \cup fees, {}, NoRows)
      BY <1>1, <1>6 DEF WriteMainsAndFee
    <2>2. mains \cup fees \subseteq MovementsOf(read[r], e)
      BY <1>2
    <2>3. QED
      BY <1>1, <1>2, <1>3, <1>4, <1>6, <2>1, <2>2, NoRowsType, WriteUpdateInv
  <1>7. CASE FeeAsked(i) /\ fees = {}
    <2>1. PICK fee \in MovementIds :
            WriteUpdate(r, mains, {}, [NoRows EXCEPT ![fee] = FeeRow(e, i)])
      BY <1>1, <1>7 DEF WriteMainsAndFee
    <2> DEFINE table == [NoRows EXCEPT ![fee] = FeeRow(e, i)]
    <2>2. /\ FeeRow(e, i) \in Movement
          /\ FeeRow(e, i).event = e /\ FeeRow(e, i).fee = TRUE /\ FeeRow(e, i).value = -1
      BY <1>1, <1>7, RowTypes, ValidSigns DEF FeeRow
    <2>3. table \in [MovementIds -> Movement \cup {None}]
      BY <2>2, NoRowsType
    <2>4. \A m \in MovementIds : table[m] # None =>
            table[m].event = e /\ table[m].value = -1 /\ table[m].fee
      BY <2>2 DEF NoRows
    <2>5. \A m \in MovementIds : table[m] # None =>
            table[m].event = e /\ table[m].value = -1 /\ (table[m].fee <=> i.type # "SHOPPING_LIST")
      BY <1>1, <2>4
    <2>6. /\ \A m \in mains : read[r][m].fee => FeeAsked(i)
          /\ i.type # "SHOPPING_LIST" => {} \subseteq fees /\ mains \subseteq mains
          /\ {} \subseteq MovementsOf(read[r], e)
      BY <1>3
    <2> HIDE DEF table
    <2>7. WriteUpdate(r, mains, {}, table)
      BY <2>1 DEF table
    <2>8. QED
      BY <1>1, <1>2, <2>3, <2>5, <2>6, <2>7, WriteUpdateInv
  <1>8. QED
    BY <1>5, <1>6, <1>7

LEMMA UpdateShoppingListInv ==
  ASSUME IInv, NEW r \in Requests, UpdateShoppingList(r)
  PROVE  IInv' /\ RowsStep
  <1> DEFINE i == input[r]
             e == i.event
  <1>1. /\ pc[r] = "write" /\ i.op = "update" /\ i.type = "SHOPPING_LIST"
        /\ i \in Input /\ ValidInput(i) /\ e \in EventIds /\ Updating(r)
    BY DEF UpdateShoppingList, IInv, RequestsInv, RequestInv, Input, Updating
  <1>2. PICK lines \in SUBSET MovementIds :
          WriteUpdate(r, i.kept, MovementsOf(read[r], e) \ i.kept,
            [m \in MovementIds |-> IF m \in lines THEN MainRow(e, i) ELSE None])
    BY DEF UpdateShoppingList
  <1> DEFINE table == [m \in MovementIds |-> IF m \in lines THEN MainRow(e, i) ELSE None]
  <1>3. /\ MainRow(e, i) \in Movement
        /\ MainRow(e, i).event = e /\ MainRow(e, i).fee = FALSE /\ MainRow(e, i).value = -1
    BY <1>1, RowTypes, ValidSigns DEF MainRow
  <1>4. /\ table \in [MovementIds -> Movement \cup {None}]
        /\ \A m \in MovementIds : table[m] # None =>
             table[m].event = e /\ table[m].value = -1 /\ ~ table[m].fee
    BY <1>3
  <1>5. Structure(read[r], e, i.type) /\ i.kept \subseteq MovementsOf(read[r], e)
    BY <1>1 DEF IInv, RequestsInv, ReadInv
  <1>6. FeesOf(read[r], e) = {}
    BY <1>1, <1>5 DEF Structure, ListStructure
  <1>7. \A m \in i.kept : ~ read[r][m].fee
    BY <1>5, <1>6 DEF FeesOf
  <1>8. QED
    BY <1>1, <1>2, <1>4, <1>5, <1>7, WriteUpdateInv

LEMMA DeleteEventInv ==
  ASSUME IInv, NEW r \in Requests, DeleteEvent(r)
  PROVE  IInv' /\ RowsStep
  <1> DEFINE e == input[r].event
  <1>1. /\ TypeOK /\ IdsUsed /\ ReferentialIntegrity /\ MainMovements
        /\ e \in EventIds
    BY DEF DeleteEvent, IInv, RequestsInv, RequestInv, Input
  <1>2. /\ type' = [type EXCEPT ![e] = None]
        /\ movement' = [m \in MovementIds |->
                          IF m \in MovementsOf(movement, e) THEN None ELSE movement[m]]
        /\ Finish(r)
        /\ UNCHANGED <<accounts, categories, used>>
    BY DEF DeleteEvent
  <1>3. \A m \in MovementIds :
          movement'[m] # None => movement'[m] = movement[m] /\ movement[m] # None /\ movement[m].event # e
    BY <1>2 DEF MovementsOf
  <1>4. /\ type' \in [EventIds -> EventTypes \cup {None}]
        /\ movement' \in [MovementIds -> Movement \cup {None}]
        /\ used' \subseteq EventIds \cup MovementIds
    BY <1>1, <1>2 DEF TypeOK
  <1>5. IdsUsed'
    BY <1>1, <1>2, <1>3 DEF IdsUsed, TypeOK
  <1>6. ReferentialIntegrity'
    BY <1>1, <1>2, <1>3 DEF ReferentialIntegrity, TypeOK
  <1>7. ASSUME NEW x \in EventIds, x # e
        PROVE  /\ MainsOf(movement', x) = MainsOf(movement, x)
               /\ \A t : MainShape(movement', x, t) <=> MainShape(movement, x, t)
    <2>1. \A m \in MovementIds :
            (movement'[m] # None /\ movement'[m].event = x) \/ (movement[m] # None /\ movement[m].event = x)
              => movement'[m] = movement[m]
      BY <1>2, <1>7 DEF MovementsOf
    <2>2. QED
      BY ONLY <2>1, SameEventRows, Zenon
  <1>8. FeesOf(movement', e) = {}
    BY <1>3 DEF FeesOf, MovementsOf
  <1>9. MainMovements'
    <2>1. ASSUME NEW x \in EventIds PROVE MainShape(movement', x, type'[x])
      <3>1. CASE x = e
        BY <1>1, <1>2, <1>8, <3>1, ConstantsAssumption DEF MainShape, EventTypes, TypeOK
      <3>2. CASE x # e
        BY <1>1, <1>2, <1>7, <3>2 DEF MainMovements, TypeOK
      <3>3. QED
        BY <3>1, <3>2
    <2>2. QED
      BY <2>1 DEF MainMovements
  <1>10. RowsStep
    <2>1. \A x \in EventIds : type'[x] # None => x # e
      BY <1>1, <1>2 DEF TypeOK
    <2>2. \A x \in EventIds : type'[x] \in {type[x], None}
      BY <1>1, <1>2 DEF TypeOK
    <2>3. \A m \in MovementIds : movement[m] = None => movement'[m] = None
      BY <1>3
    <2>4. QED
      BY <1>2, <1>3, <1>7, <2>1, <2>2, <2>3 DEF RowsStep
  <1>11. QED
    BY <1>2, <1>4, <1>5, <1>6, <1>9, <1>10, WriteStep

\* Deleting an account or a category that no movement names.
LEMMA DeleteReferenceInv ==
  ASSUME IInv,
         \/ \E a \in Accounts : DeleteAccount(a)
         \/ \E c \in Categories : DeleteCategory(c)
  PROVE  IInv' /\ RowsStep
  <1>1. /\ UNCHANGED <<type, movement, used, pc, input, read>>
        /\ accounts' \subseteq accounts /\ categories' \subseteq categories
        /\ \A m \in MovementIds : movement[m] # None =>
             /\ movement[m].account \in accounts => movement[m].account \in accounts'
             /\ movement[m].category \in categories => movement[m].category \in categories'
    BY DEF DeleteAccount, DeleteCategory, locals
  <1>2. TypeOK' /\ IdsUsed' /\ ReferentialIntegrity'
    BY <1>1 DEF IInv, TypeOK, IdsUsed, ReferentialIntegrity
  <1>3. MainMovements'
    BY <1>1 DEF IInv, MainMovements
  <1>4. RowsStep
    BY <1>1 DEF RowsStep, IInv, TypeOK
  <1>5. RequestsInv'
    <2>1. ASSUME NEW q \in Requests PROVE RequestInv(q)' /\ EventInv(q)' /\ ReadInv(q)'
      <3>1. TypeOK /\ ReferentialIntegrity /\ RequestInv(q) /\ EventInv(q) /\ ReadInv(q)
        BY DEF IInv, RequestsInv
      <3>2. pc'[q] = pc[q] /\ input'[q] = input[q] /\ read'[q] = read[q]
        BY <1>1
      <3>3. QED
        BY <1>4, <3>1, <3>2, OtherRequests
    <2>2. QED
      BY <2>1 DEF RequestsInv
  <1>6. QED
    BY <1>2, <1>3, <1>4, <1>5 DEF IInv

--------------------------------------------------------------------------------
(* The theorems *)

LEMMA StepInv ==
  ASSUME IInv, [Next]_vars
  PROVE  IInv' /\ RowsStep
  <1>1. ASSUME NEW r \in Requests, RequestStep(r) PROVE IInv' /\ RowsStep
    <2>1. CASE Begin(r)
      BY <2>1, BeginInv
    <2>2. CASE CountEvents(r)
      BY <2>2, CountEventsInv
    <2>3. CASE GetEvent(r)
      BY <2>3, GetEventInv
    <2>4. CASE GetMovements(r)
      BY <2>4, GetMovementsInv
    <2>5. CASE RequireAccounts(r) \/ RequireCategories(r)
      BY <2>5, RequireInv
    <2>6. CASE CreateSimple(r)
      BY <2>6, CreateSimpleInv
    <2>7. CASE CreateShoppingList(r)
      BY <2>7, CreateShoppingListInv
    <2>8. CASE CreateTransfer(r)
      BY <2>8, CreateTransferInv
    <2>9. CASE UpdateSimple(r) \/ UpdateTransfer(r)
      BY <2>9, WriteMainsAndFeeInv
    <2>10. CASE UpdateShoppingList(r)
      BY <2>10, UpdateShoppingListInv
    <2>11. CASE DeleteEvent(r)
      BY <2>11, DeleteEventInv
    <2>12. CASE Fail(r)
      BY <2>12, FinishReadStep DEF Fail
    <2>13. QED
      BY <1>1, <2>1, <2>2, <2>3, <2>4, <2>5, <2>6, <2>7, <2>8, <2>9, <2>10, <2>11, <2>12 DEF RequestStep
  <1>2. CASE (\E a \in Accounts : DeleteAccount(a)) \/ (\E c \in Categories : DeleteCategory(c))
    BY <1>2, DeleteReferenceInv
  <1>3. CASE UNCHANGED vars
    <2>1. UNCHANGED rows /\ UNCHANGED <<pc, input, read>> /\ TypeOK
      BY <1>3 DEF vars, rows, IInv
    <2>2. TypeOK' /\ IdsUsed' /\ ReferentialIntegrity'
      BY <2>1 DEF rows, IInv, TypeOK, IdsUsed, ReferentialIntegrity
    <2>3. MainMovements'
      BY <2>1 DEF rows, IInv, MainMovements
    <2>4. ASSUME NEW q \in Requests PROVE RequestInv(q)' /\ EventInv(q)' /\ ReadInv(q)'
      BY <2>1, SameRows, OtherRequests DEF IInv, RequestsInv
    <2>5. QED
      BY <2>1, <2>2, <2>3, <2>4, SameRows DEF IInv, RequestsInv
  <1>4. QED
    BY <1>1, <1>2, <1>3 DEF Next

\* The inductive invariant holds in every reachable state.
THEOREM Inductive == Spec => []IInv
  <1>1. IInv /\ [Next]_vars => IInv'
    BY StepInv
  <1>2. QED
    BY InitInv, <1>1, PTL DEF Spec

\* Every variable keeps its type: no request stores a movement of value zero.
THEOREM TypeCorrect == Spec => []TypeOK
  <1>1. IInv => TypeOK
    BY DEF IInv
  <1>2. QED
    BY Inductive, <1>1, PTL

\* Movements keep their event, account and category under any interleaving of
\* requests and deletions.
THEOREM NoDanglingMovement == Spec => []ReferentialIntegrity
  <1>1. IInv => ReferentialIntegrity
    BY DEF IInv
  <1>2. QED
    BY Inductive, <1>1, PTL

\* Updates that write from stale reads keep the main movements of every event
\* in the shape of its type, with any number of concurrent requests.
THEOREM MainMovementsKept == Spec => []MainMovements
  <1>1. IInv => MainMovements
    BY DEF IInv
  <1>2. QED
    BY Inductive, <1>1, PTL

\* The main movements that a running update read stay those of its event.
THEOREM MainsStayAsRead == Spec => []MainsAsRead
  <1>1. IInv => MainsAsRead
    BY DEF IInv, TypeOK, RequestsInv, RequestInv, ReadInv, Updating, MainsAsRead
  <1>2. QED
    BY Inductive, <1>1, PTL

\* No step changes the event or special_type of a movement that stays, or the
\* type of an event that stays.
THEOREM IdentityStable == Spec => StableIdentity
  <1> DEFINE Stable == /\ \A m \in MovementIds :
                            movement[m] # None /\ movement'[m] # None =>
                              movement'[m].event = movement[m].event /\ movement'[m].fee = movement[m].fee
                       /\ \A e \in EventIds :
                            type[e] # None /\ type'[e] # None => type'[e] = type[e]
  <1>1. IInv /\ [Next]_vars => [Stable]_vars
    <2>1. SUFFICES ASSUME IInv, [Next]_vars PROVE Stable
      OBVIOUS
    <2>2. RowsStep /\ IdsUsed
      BY <2>1, StepInv DEF IInv
    <2>3. QED
      BY <2>2 DEF RowsStep, IdsUsed
  <1>2. QED
    BY Inductive, <1>1, PTL DEF Spec, StableIdentity

--------------------------------------------------------------------------------
(* The documented structure *)

LEMMA SameStructure ==
  ASSUME NEW t1, NEW t2, NEW e,
         \A m \in MovementIds :
           (t1[m] # None /\ t1[m].event = e) \/ (t2[m] # None /\ t2[m].event = e) => t1[m] = t2[m]
  PROVE  \A t : Structure(t1, e, t) <=> Structure(t2, e, t)
<1>1. MovementsOf(t1, e) = MovementsOf(t2, e) /\ \A m \in MovementsOf(t1, e) : t1[m] = t2[m]
  BY DEF MovementsOf
<1>2. MainsOf(t1, e) = MainsOf(t2, e) /\ FeesOf(t1, e) = FeesOf(t2, e)
  BY SameEventRows
<1>3. \A m \in MainsOf(t1, e) \cup FeesOf(t1, e) : t1[m] = t2[m]
  BY <1>1 DEF MainsOf, FeesOf
<1>4. \A a : FeeFits(t1, e, a) <=> FeeFits(t2, e, a)
  BY <1>2, <1>3 DEF FeeFits
<1>5. SimpleStructure(t1, e) <=> SimpleStructure(t2, e)
  BY <1>2, <1>3, <1>4 DEF SimpleStructure
<1>6. ListStructure(t1, e) <=> ListStructure(t2, e)
  BY <1>1, <1>2, <1>3 DEF ListStructure
<1>7. TransferStructure(t1, e) <=> TransferStructure(t2, e)
  BY <1>2, <1>3, <1>4 DEF TransferStructure
<1> QED BY <1>5, <1>6, <1>7 DEF Structure

\* The rows of event e are those that a request asks for.
AsAsked(table, e, i) ==
  /\ \A f \in FeesOf(table, e) :
       FeesOf(table, e) = {f} /\ i.type # "SHOPPING_LIST" /\ FeeAsked(i) /\ table[f] = FeeRow(e, i)
  /\ i.type = "TRANSACTION" =>
       \E m \in MovementIds : MainsOf(table, e) = {m} /\ table[m] = MainRow(e, i)
  /\ i.type = "SHOPPING_LIST" =>
       MainsOf(table, e) # {} /\ \A m \in MainsOf(table, e) : table[m] = MainRow(e, i)
  /\ i.type = "ACCOUNT_TRANSFER" =>
       \E source, destination \in MovementIds :
         /\ MainsOf(table, e) = {source, destination}
         /\ table[source] = MainRow(e, i) /\ table[destination] = DestinationRow(e, i)

\* What a request asks for has the structure of its type.
LEMMA AskedHasStructure ==
  ASSUME NEW i \in Input, ValidInput(i), i.op # "delete", NEW e, NEW table, AsAsked(table, e, i)
  PROVE  Structure(table, e, i.type)
<1>1. /\ i.type \in EventTypes
      /\ MainRow(e, i).value = i.value /\ MainRow(e, i).account = i.account
      /\ DestinationRow(e, i).value = i.destinationValue
      /\ DestinationRow(e, i).account = i.destination
      /\ FeeRow(e, i).value = i.fee
      /\ FeeRow(e, i).account = IF i.type = "ACCOUNT_TRANSFER" THEN i.destination ELSE i.account
  BY DEF Input, MainRow, DestinationRow, FeeRow
<1>2. i.type # "SHOPPING_LIST" /\ FeeAsked(i) => i.fee < 0
  BY ValidSigns
<1>3. ASSUME i.type # "SHOPPING_LIST",
             NEW a, a = IF i.type = "ACCOUNT_TRANSFER" THEN i.destination ELSE i.account
      PROVE  FeeFits(table, e, a)
  BY <1>1, <1>2, <1>3 DEF FeeFits, AsAsked
<1>4. CASE i.type = "TRANSACTION"
  <2>1. PICK m \in MovementIds : MainsOf(table, e) = {m} /\ table[m] = MainRow(e, i)
    BY <1>4 DEF AsAsked
  <2>2. FeesOf(table, e) # {} => i.value < 0
    BY <1>4 DEF AsAsked, ValidInput
  <2>3. FeeFits(table, e, table[m].account)
    BY <1>1, <1>3, <1>4, <2>1
  <2> QED BY <1>1, <1>4, <2>1, <2>2, <2>3 DEF Structure, SimpleStructure
<1>5. CASE i.type = "SHOPPING_LIST"
  <2>1. FeesOf(table, e) = {} /\ MovementsOf(table, e) # {}
    BY <1>5 DEF AsAsked, MainsOf
  <2>2. i.value < 0
    BY <1>5, ValidSigns
  <2> QED BY <1>1, <1>5, <2>1, <2>2 DEF Structure, ListStructure, AsAsked
<1>6. CASE i.type = "ACCOUNT_TRANSFER"
  <2>1. PICK source, destination \in MovementIds :
          /\ MainsOf(table, e) = {source, destination}
          /\ table[source] = MainRow(e, i) /\ table[destination] = DestinationRow(e, i)
    BY <1>6 DEF AsAsked
  <2>2. i.value < 0 /\ i.destinationValue > 0 /\ i.account # i.destination
    BY <1>6, ValidSigns
  <2>3. FeeFits(table, e, table[destination].account)
    BY <1>1, <1>3, <1>6, <2>1
  <2> QED BY <1>1, <1>6, <2>1, <2>2, <2>3 DEF Structure, TransferStructure
<1> QED BY <1>1, <1>4, <1>5, <1>6 DEF EventTypes

\* A valid list has a line: one that it keeps or one that it adds.
LEMMA NoLinesAdded ==
  ASSUME NEW i \in Input, ValidInput(i), i.op # "delete", i.type = "SHOPPING_LIST", i.kept = {},
         NEW lines, Cardinality(lines) = i.added
  PROVE  lines # {}
<1>1. Cardinality(i.kept) + i.added \in 1 .. MaxMovements /\ i.added \in Nat
  BY DEF ValidInput, Input
<1> SUFFICES ASSUME lines = {} PROVE FALSE
  OBVIOUS
<1>2. Cardinality({}) = 0
  BY FS_EmptySet
<1>3. Cardinality(i.kept) = 0 /\ i.added = 0
  BY <1>2
<1> QED BY <1>1, <1>3

\* A step keeps the structure of event x, unless it is the write of an update
\* that read something else.
KeepsStructure(x) ==
  /\ type'[x] # None
  /\ type[x] # None => Structure(movement, x, type[x])
  => \/ Structure(movement', x, type'[x])
     \/ \E r \in Requests : Stale(r, x) /\ pc'[r] = "idle"

LEMMA InsertKeepsStructure ==
  ASSUME IInv, NEW r \in Requests, pc[r] = "write", input[r].op = "create",
         NEW e \in EventIds, NEW table \in [MovementIds -> Movement \cup {None}],
         InsertEvent(r, e, table),
         \A m \in MovementIds : table[m] # None => table[m].event = e,
         AsAsked(table, e, input[r]), NEW x \in EventIds
  PROVE  KeepsStructure(x)
<1> PICK i : i = input[r]
  OBVIOUS
<1> DEFINE inserted == {m \in MovementIds : table[m] # None}
<1>1. /\ TypeOK /\ IdsUsed /\ ReferentialIntegrity
      /\ i \in Input /\ ValidInput(i) /\ i.op # "delete"
  BY DEF IInv, RequestsInv, RequestInv
<1>2. /\ e \notin used /\ inserted \cap used = {}
      /\ type' = [type EXCEPT ![e] = i.type]
      /\ movement' = [m \in MovementIds |-> IF m \in inserted THEN table[m] ELSE movement[m]]
  BY DEF InsertEvent
<1>3. \A m \in inserted : movement[m] = None
  BY <1>1, <1>2 DEF IdsUsed
<1>4. \A m \in MovementIds : movement[m] # None => movement[m].event # e
  BY <1>1, <1>2 DEF IdsUsed, ReferentialIntegrity, TypeOK
<1>5. CASE x = e
  <2>1. \A m \in MovementIds :
          (movement'[m] # None /\ movement'[m].event = e) \/ (table[m] # None /\ table[m].event = e)
            => movement'[m] = table[m]
    BY <1>2, <1>4
  <2>2. Structure(movement', e, i.type) <=> Structure(table, e, i.type)
    BY <2>1, SameStructure
  <2> QED BY <1>1, <1>2, <1>5, <2>2, AskedHasStructure DEF KeepsStructure, TypeOK
<1>6. CASE x # e
  <2>1. \A m \in MovementIds :
          (movement'[m] # None /\ movement'[m].event = x) \/ (movement[m] # None /\ movement[m].event = x)
            => movement'[m] = movement[m]
    BY <1>2, <1>3, <1>6
  <2>2. \A t : Structure(movement', x, t) <=> Structure(movement, x, t)
    BY <2>1, SameStructure
  <2> QED BY <1>1, <1>2, <1>6, <2>2 DEF KeepsStructure, TypeOK
<1> QED BY <1>5, <1>6

LEMMA CreateKeepsStructure ==
  ASSUME IInv, NEW r \in Requests, CreateSimple(r) \/ CreateShoppingList(r) \/ CreateTransfer(r),
         NEW x \in EventIds
  PROVE  KeepsStructure(x)
<1> DEFINE i == input[r]
<1>1. pc[r] = "write" /\ i.op = "create" /\ i \in Input /\ ValidInput(i)
  BY DEF CreateSimple, CreateShoppingList, CreateTransfer, IInv, RequestsInv, RequestInv
<1>2. ASSUME NEW e \in EventIds
      PROVE  /\ MainRow(e, i) \in Movement /\ MainRow(e, i).event = e /\ MainRow(e, i).fee = FALSE
             /\ i.type = "ACCOUNT_TRANSFER" =>
                  /\ DestinationRow(e, i) \in Movement
                  /\ DestinationRow(e, i).event = e /\ DestinationRow(e, i).fee = FALSE
             /\ i.type # "SHOPPING_LIST" /\ FeeAsked(i) =>
                  FeeRow(e, i) \in Movement /\ FeeRow(e, i).event = e /\ FeeRow(e, i).fee = TRUE
  BY <1>1, RowTypes DEF MainRow, DestinationRow, FeeRow
<1>3. None \notin Movement
  BY ConstantsAssumption
<1>4. CASE CreateSimple(r)
  <2>1. i.type = "TRANSACTION"
    BY <1>4 DEF CreateSimple
  <2>2. PICK e \in EventIds, main \in MovementIds, fee \in MovementIds :
          /\ main # fee
          /\ InsertEvent(r, e, [m \in MovementIds |->
               IF m = main THEN MainRow(e, i)
               ELSE IF m = fee /\ FeeAsked(i) THEN FeeRow(e, i)
               ELSE None])
    BY <1>4 DEF CreateSimple
  <2> DEFINE table == [m \in MovementIds |->
               IF m = main THEN MainRow(e, i)
               ELSE IF m = fee /\ FeeAsked(i) THEN FeeRow(e, i)
               ELSE None]
  <2>3. table \in [MovementIds -> Movement \cup {None}]
    BY <1>2, <2>1
  <2>4. \A m \in MovementIds : table[m] # None => table[m].event = e
    BY <1>2, <2>1
  <2>5. MainsOf(table, e) = {main} /\ table[main] = MainRow(e, i)
    BY <1>2, <1>3, <2>1, <2>2 DEF MainsOf, MovementsOf
  <2>6. \A f \in FeesOf(table, e) : f = fee /\ FeeAsked(i) /\ table[f] = FeeRow(e, i)
    BY <1>2, <1>3, <2>1, <2>2 DEF FeesOf, MovementsOf
  <2>7. AsAsked(table, e, i)
    BY <2>1, <2>5, <2>6 DEF AsAsked
  <2>8. InsertEvent(r, e, table)
    BY <2>2
  <2> HIDE DEF table
  <2> QED BY <1>1, <2>3, <2>4, <2>7, <2>8, InsertKeepsStructure
<1>5. CASE CreateShoppingList(r)
  <2>1. i.type = "SHOPPING_LIST"
    BY <1>5 DEF CreateShoppingList
  <2>2. PICK e \in EventIds, lines \in SUBSET MovementIds :
          /\ Cardinality(lines) = i.added
          /\ InsertEvent(r, e, [m \in MovementIds |-> IF m \in lines THEN MainRow(e, i) ELSE None])
    BY <1>5 DEF CreateShoppingList
  <2> DEFINE table == [m \in MovementIds |-> IF m \in lines THEN MainRow(e, i) ELSE None]
  <2>3. table \in [MovementIds -> Movement \cup {None}]
    BY <1>2
  <2>4. \A m \in MovementIds : table[m] # None => table[m].event = e
    BY <1>2
  <2>5. MainsOf(table, e) = lines /\ FeesOf(table, e) = {} /\ \A m \in lines : table[m] = MainRow(e, i)
    BY <1>2, <1>3 DEF MainsOf, FeesOf, MovementsOf
  <2>6. AsAsked(table, e, i) \/ lines = {}
    BY <2>1, <2>5 DEF AsAsked
  <2>7. InsertEvent(r, e, table)
    BY <2>2
  <2>8. lines # {}
    BY <1>1, <2>1, <2>2, NoLinesAdded DEF Input
  <2> HIDE DEF table
  <2> QED BY <1>1, <2>3, <2>4, <2>6, <2>7, <2>8, InsertKeepsStructure
<1>6. CASE CreateTransfer(r)
  <2>1. i.type = "ACCOUNT_TRANSFER"
    BY <1>6 DEF CreateTransfer
  <2>2. PICK e \in EventIds, source \in MovementIds, destination \in MovementIds, fee \in MovementIds :
          /\ source # destination /\ fee \notin {source, destination}
          /\ InsertEvent(r, e, [m \in MovementIds |->
               IF m = source THEN MainRow(e, i)
               ELSE IF m = destination THEN DestinationRow(e, i)
               ELSE IF m = fee /\ FeeAsked(i) THEN FeeRow(e, i)
               ELSE None])
    BY <1>6 DEF CreateTransfer
  <2> DEFINE table == [m \in MovementIds |->
               IF m = source THEN MainRow(e, i)
               ELSE IF m = destination THEN DestinationRow(e, i)
               ELSE IF m = fee /\ FeeAsked(i) THEN FeeRow(e, i)
               ELSE None]
  <2>3. table \in [MovementIds -> Movement \cup {None}]
    BY <1>2, <2>1
  <2>4. \A m \in MovementIds : table[m] # None => table[m].event = e
    BY <1>2, <2>1
  <2>5. /\ MainsOf(table, e) = {source, destination}
        /\ table[source] = MainRow(e, i) /\ table[destination] = DestinationRow(e, i)
    BY <1>2, <1>3, <2>1, <2>2 DEF MainsOf, MovementsOf
  <2>6. \A f \in FeesOf(table, e) : f = fee /\ FeeAsked(i) /\ table[f] = FeeRow(e, i)
    BY <1>2, <1>3, <2>1, <2>2 DEF FeesOf, MovementsOf
  <2>7. AsAsked(table, e, i)
    BY <2>1, <2>5, <2>6 DEF AsAsked
  <2>8. InsertEvent(r, e, table)
    BY <2>2
  <2> HIDE DEF table
  <2> QED BY <1>1, <2>3, <2>4, <2>7, <2>8, InsertKeepsStructure
<1> QED BY <1>4, <1>5, <1>6

\* What the write of an update leaves of another event.
LEMMA UpdateKeepsOthers ==
  ASSUME IInv, NEW r \in Requests, pc[r] = "write", input[r].op = "update",
         NEW rewritten, NEW deleted, NEW table, WriteUpdate(r, rewritten, deleted, table),
         rewritten \cup deleted = MovementsOf(read[r], input[r].event),
         \A m \in MovementIds : table[m] # None => table[m].event = input[r].event,
         NEW x \in EventIds, x # input[r].event
  PROVE  KeepsStructure(x)
<1> PICK i, known : i = input[r] /\ known = read[r]
  OBVIOUS
<1> DEFINE present == {m \in rewritten : movement[m] # None}
           inserted == {m \in MovementIds : table[m] # None}
<1>1. /\ IdsUsed /\ TypeOK /\ UNCHANGED type
      /\ inserted \cap used = {}
      /\ movement' = [m \in MovementIds |->
                        IF m \in inserted THEN table[m]
                        ELSE IF m \in deleted THEN None
                        ELSE IF m \in present THEN RewrittenRow(i, known[m])
                        ELSE movement[m]]
  BY DEF WriteUpdate, IInv
<1>2. Updating(r) /\ ReadInv(r)
  BY DEF IInv, RequestsInv, RequestInv, Updating
<1>3. \A m \in rewritten \cup deleted : m \in MovementIds /\ (movement[m] # None => movement[m].event = i.event)
  BY <1>2 DEF ReadInv, MovementsOf
<1>4. \A m : RewrittenRow(i, known[m]).event = i.event
  BY DEF RewrittenRow, MainRow, DestinationRow, FeeRow
<1>5. \A m \in inserted : movement[m] = None
  BY <1>1 DEF IdsUsed
<1>6. \A m \in MovementIds :
        (movement'[m] # None /\ movement'[m].event = x) \/ (movement[m] # None /\ movement[m].event = x)
          => movement'[m] = movement[m]
  BY <1>1, <1>3, <1>4, <1>5
<1>7. \A t : Structure(movement', x, t) <=> Structure(movement, x, t)
  BY <1>6, SameStructure
<1> QED BY <1>1, <1>7 DEF KeepsStructure

\* What the write of an update leaves of its own event when nothing has changed
\* since it read the event: the rows it rewrote and those it inserted.
LEMMA FreshUpdate ==
  ASSUME IInv, NEW r \in Requests, pc[r] = "write", input[r].op = "update",
         read[r] = Rows(movement, input[r].event),
         NEW rewritten, NEW deleted, NEW table, WriteUpdate(r, rewritten, deleted, table),
         rewritten \cap deleted = {},
         rewritten \cup deleted = MovementsOf(read[r], input[r].event),
         \A m \in MovementIds : table[m] # None => table[m].event = input[r].event,
         \A m \in rewritten : RewrittenRow(input[r], read[r][m]) # None
  PROVE  /\ MovementsOf(movement', input[r].event) =
              rewritten \cup {m \in MovementIds : table[m] # None}
         /\ \A m \in rewritten :
              movement'[m] = RewrittenRow(input[r], read[r][m]) /\ table[m] = None /\ m \in MovementIds
         /\ \A m \in MovementIds : table[m] # None => movement'[m] = table[m]
<1> PICK i, e, known : i = input[r] /\ e = i.event /\ known = read[r]
  OBVIOUS
<1> DEFINE present == {m \in rewritten : movement[m] # None}
           inserted == {m \in MovementIds : table[m] # None}
<1>1. /\ IdsUsed
      /\ inserted \cap used = {}
      /\ movement' = [m \in MovementIds |->
                        IF m \in inserted THEN table[m]
                        ELSE IF m \in deleted THEN None
                        ELSE IF m \in present THEN RewrittenRow(i, known[m])
                        ELSE movement[m]]
  BY DEF WriteUpdate, IInv
<1>2. MovementsOf(known, e) = MovementsOf(movement, e)
  BY DEF Rows, MovementsOf
<1>3. \A m \in MovementIds : m \in rewritten \cup deleted <=> movement[m] # None /\ movement[m].event = e
  BY <1>2 DEF MovementsOf
<1>4. rewritten \cup deleted \subseteq MovementIds
  BY DEF MovementsOf
<1>5. \A m \in inserted : movement[m] = None
  BY <1>1 DEF IdsUsed
<1>6. \A m : RewrittenRow(i, known[m]).event = e
  BY DEF RewrittenRow, MainRow, DestinationRow, FeeRow
<1>7. \A m \in rewritten : movement'[m] = RewrittenRow(i, known[m]) /\ table[m] = None /\ m \in MovementIds
  BY <1>1, <1>3, <1>4, <1>5
<1>8. \A m \in MovementIds : table[m] # None => movement'[m] = table[m]
  BY <1>1
<1>9. MovementsOf(movement', e) = rewritten \cup inserted
  <2>1. ASSUME NEW m \in MovementIds
        PROVE  movement'[m] # None /\ movement'[m].event = e <=> m \in rewritten \cup inserted
    <3>1. CASE m \in rewritten \cup inserted
      BY <1>6, <1>7, <1>8, <3>1
    <3>2. CASE m \notin rewritten \cup inserted
      BY <1>1, <1>3, <3>2
    <3> QED BY <3>1, <3>2
  <2> QED BY <1>4, <2>1 DEF MovementsOf
<1> QED BY <1>7, <1>8, <1>9

\* The write of an update of its own event keeps the structure, or was stale.
LEMMA OwnEventKept ==
  ASSUME IInv, NEW r \in Requests, pc[r] = "write", input[r].op = "update", Finish(r), UNCHANGED type,
         NEW e, e = input[r].event,
         read[r] = Rows(movement, e) => AsAsked(movement', e, input[r])
  PROVE  KeepsStructure(e)
<1> PICK i : i = input[r]
  OBVIOUS
<1>1. TypeOK /\ i \in Input /\ ValidInput(i) /\ type[e] \in {None, i.type} /\ pc'[r] = "idle"
  BY DEF IInv, RequestsInv, RequestInv, EventInv, Updating, Finish, Goto, TypeOK
<1>2. CASE read[r] = Rows(movement, e)
  BY <1>1, <1>2, AskedHasStructure DEF KeepsStructure
<1>3. CASE read[r] # Rows(movement, e)
  BY <1>1, <1>3 DEF KeepsStructure, Stale
<1> QED BY <1>2, <1>3

LEMMA MainsAndFeeKeepStructure ==
  ASSUME IInv, NEW r \in Requests, UpdateSimple(r) \/ UpdateTransfer(r), NEW x \in EventIds
  PROVE  KeepsStructure(x)
<1> PICK i, e, known : i = input[r] /\ e = i.event /\ known = read[r]
  OBVIOUS
<1> PICK mains, fees : mains = MainsOf(known, e) /\ fees = FeesOf(known, e)
  OBVIOUS
<1>1. /\ pc[r] = "write" /\ i.op = "update" /\ i.type \in {"TRANSACTION", "ACCOUNT_TRANSFER"}
      /\ i \in Input /\ ValidInput(i) /\ e \in EventIds /\ TypeOK /\ Updating(r) /\ ReadInv(r)
      /\ WriteMainsAndFee(r)
  BY DEF UpdateSimple, UpdateTransfer, IInv, RequestsInv, RequestInv, Updating, Input
<1>2. Structure(known, e, i.type) /\ known \in [MovementIds -> Movement \cup {None}]
  BY <1>1 DEF ReadInv, TypeOK
<1>3. MovementsOf(known, e) = mains \cup fees /\ mains \cap fees = {}
  BY DEF MainsOf, FeesOf
<1>4. /\ \A m \in mains : m \in MovementIds /\ known[m] \in Movement /\ ~ known[m].fee
      /\ \A m \in fees : m \in MovementIds /\ known[m] \in Movement /\ known[m].fee
  BY <1>2 DEF MainsOf, FeesOf, MovementsOf
<1>5. /\ \A f \in fees : fees = {f}
      /\ i.type = "TRANSACTION" =>
           \E m \in MovementIds : mains = {m} /\ RewrittenRow(i, known[m]) = MainRow(e, i)
      /\ i.type = "ACCOUNT_TRANSFER" =>
           \E source, destination \in MovementIds :
             /\ mains = {source, destination}
             /\ RewrittenRow(i, known[source]) = MainRow(e, i)
             /\ RewrittenRow(i, known[destination]) = DestinationRow(e, i)
  <2>1. CASE i.type = "TRANSACTION"
    <3>1. PICK m \in MovementIds : mains = {m} /\ FeeFits(known, e, known[m].account)
      BY <1>2, <2>1 DEF Structure, SimpleStructure
    <3>2. RewrittenRow(i, known[m]) = MainRow(e, i)
      BY <1>4, <2>1, <3>1 DEF RewrittenRow
    <3> QED BY <2>1, <3>1, <3>2 DEF FeeFits
  <2>2. CASE i.type = "ACCOUNT_TRANSFER"
    <3>1. PICK source, destination \in MovementIds :
            /\ mains = {source, destination}
            /\ known[source].value < 0 /\ known[destination].value > 0
            /\ FeeFits(known, e, known[destination].account)
      BY <1>2, <2>2 DEF Structure, TransferStructure
    <3>2. known[source].value \in {-1, 1}
      BY <1>4, <3>1 DEF Movement
    <3>3. RewrittenRow(i, known[source]) = MainRow(e, i)
      BY <1>4, <3>1, <3>2 DEF RewrittenRow
    <3>4. RewrittenRow(i, known[destination]) = DestinationRow(e, i)
      BY <1>4, <2>2, <3>1 DEF RewrittenRow
    <3> QED BY <2>2, <3>1, <3>3, <3>4 DEF FeeFits
  <2> QED BY <1>1, <2>1, <2>2
<1>6. \A m \in fees : RewrittenRow(i, known[m]) = FeeRow(e, i)
  BY <1>4 DEF RewrittenRow
<1>7. /\ \A m \in mains : RewrittenRow(i, known[m]) # None /\ RewrittenRow(i, known[m]).fee = FALSE
      /\ FeeAsked(i) => FeeRow(e, i) \in Movement /\ FeeRow(e, i) # None /\ FeeRow(e, i).fee = TRUE
                        /\ FeeRow(e, i).event = e
  <2>1. \A m \in mains : RewrittenRow(i, known[m]) \in Movement /\ RewrittenRow(i, known[m]).fee = known[m].fee
    BY <1>1, <1>4, RewrittenType
  <2>2. \A m \in mains : known[m].fee \in BOOLEAN
    BY <1>4 DEF Movement
  <2>3. FeeAsked(i) => FeeRow(e, i) \in Movement
    BY <1>1, RowTypes
  <2>4. \A m \in mains : RewrittenRow(i, known[m]) # None /\ RewrittenRow(i, known[m]).fee = FALSE
    BY <1>4, <2>1, <2>2, ConstantsAssumption
  <2>5. FeeRow(e, i).fee = TRUE /\ FeeRow(e, i).event = e
    BY DEF FeeRow
  <2> QED BY <2>3, <2>4, <2>5, ConstantsAssumption
\* What follows from the rows that the write stores.
<1>8. ASSUME NEW rewritten, NEW deleted, NEW table, WriteUpdate(r, rewritten, deleted, table),
             rewritten \cup deleted = mains \cup fees, mains \subseteq rewritten,
             rewritten \cap deleted = {},
             \A m \in rewritten \ mains : m \in fees /\ FeeAsked(i),
             \A m \in MovementIds : table[m] # None =>
               /\ table[m] = FeeRow(e, i) /\ FeeAsked(i) /\ fees = {}
               /\ \A n \in MovementIds : table[n] # None => n = m
      PROVE  KeepsStructure(x)
  <2>1. \A m \in MovementIds : table[m] # None => table[m].event = e
    BY <1>7, <1>8
  <2>2. Finish(r) /\ UNCHANGED type
    BY <1>8 DEF WriteUpdate
  <2>3. ASSUME known = Rows(movement, e) PROVE AsAsked(movement', e, i)
    <3>1. \A m \in rewritten : RewrittenRow(i, known[m]) # None
      BY <1>6, <1>7, <1>8
    <3>2. /\ MovementsOf(movement', e) = rewritten \cup {m \in MovementIds : table[m] # None}
          /\ \A m \in rewritten :
               movement'[m] = RewrittenRow(i, known[m]) /\ table[m] = None /\ m \in MovementIds
          /\ \A m \in MovementIds : table[m] # None => movement'[m] = table[m]
      <4>1. /\ pc[r] = "write" /\ input[r].op = "update" /\ read[r] = Rows(movement, input[r].event)
            /\ rewritten \cup deleted = MovementsOf(read[r], input[r].event)
        BY <1>1, <1>3, <1>8, <2>3
      <4> QED BY <1>8, <2>1, <3>1, <4>1, FreshUpdate
    <3>3. MainsOf(movement', e) = mains /\ \A m \in mains : movement'[m] = RewrittenRow(i, known[m])
      BY <1>6, <1>7, <1>8, <3>2 DEF MainsOf
    <3>4. \A f \in FeesOf(movement', e) :
             f \notin mains /\ FeeAsked(i) /\ movement'[f] = FeeRow(e, i)
             /\ (f \in fees \/ (table[f] # None /\ f \in MovementIds))
      BY <1>6, <1>7, <1>8, <3>2 DEF FeesOf
    <3>5. \A f, g \in FeesOf(movement', e) : f = g
      <4> SUFFICES ASSUME NEW f \in FeesOf(movement', e), NEW g \in FeesOf(movement', e) PROVE f = g
        OBVIOUS
      <4>1. CASE f \in fees
        BY <1>5, <1>8, <3>4, <4>1
      <4>2. CASE f \notin fees
        BY <1>5, <1>8, <3>4, <4>2
      <4> QED BY <4>1, <4>2
    <3>6. \A f \in FeesOf(movement', e) : FeesOf(movement', e) = {f}
      BY <3>5
    <3> QED BY <1>1, <1>5, <3>3, <3>4, <3>6 DEF AsAsked
  <2>4. CASE x = e
    BY <1>1, <2>2, <2>3, <2>4, OwnEventKept
  <2>5. CASE x # e
    BY <1>1, <1>3, <1>8, <2>1, <2>5, UpdateKeepsOthers
  <2> QED BY <2>4, <2>5
<1>9. \A m \in MovementIds : NoRows[m] = None
  BY DEF NoRows
<1>10. CASE ~ FeeAsked(i)
  <2>1. WriteUpdate(r, mains, fees, NoRows)
    BY <1>1, <1>10 DEF WriteMainsAndFee
  <2> QED BY <1>3, <1>8, <1>9, <2>1
<1>11. CASE FeeAsked(i) /\ fees # {}
  <2>1. WriteUpdate(r, mains \cup fees, {}, NoRows)
    BY <1>1, <1>11 DEF WriteMainsAndFee
  <2> DEFINE both == mains \cup fees
  <2>2. both \cup {} = mains \cup fees /\ mains \subseteq both /\ both \cap {} = {}
        /\ (\A m \in both \ mains : m \in fees)
    OBVIOUS
  <2>3. WriteUpdate(r, both, {}, NoRows)
    BY <2>1
  <2> HIDE DEF both
  <2> QED BY <1>8, <1>9, <1>11, <2>2, <2>3
<1>12. CASE FeeAsked(i) /\ fees = {}
  <2>1. PICK fee \in MovementIds : WriteUpdate(r, mains, {}, [NoRows EXCEPT ![fee] = FeeRow(e, i)])
    BY <1>1, <1>12 DEF WriteMainsAndFee
  <2> DEFINE table == [NoRows EXCEPT ![fee] = FeeRow(e, i)]
  <2>2. \A m \in MovementIds : table[m] # None => m = fee /\ table[m] = FeeRow(e, i)
    BY <1>9 DEF NoRows
  <2>3. WriteUpdate(r, mains, {}, table)
    BY <2>1
  <2> HIDE DEF table
  <2>4. mains \cup {} = mains \cup fees /\ mains \cap {} = {} /\ mains \ mains = {}
    BY <1>12
  <2> QED BY <1>8, <1>12, <2>2, <2>3, <2>4
<1> QED BY <1>10, <1>11, <1>12

LEMMA ListKeepsStructure ==
  ASSUME IInv, NEW r \in Requests, UpdateShoppingList(r), NEW x \in EventIds
  PROVE  KeepsStructure(x)
<1> PICK i, e, known : i = input[r] /\ e = i.event /\ known = read[r]
  OBVIOUS
<1>1. /\ pc[r] = "write" /\ i.op = "update" /\ i.type = "SHOPPING_LIST"
      /\ i \in Input /\ ValidInput(i) /\ e \in EventIds /\ TypeOK /\ Updating(r) /\ ReadInv(r)
  BY DEF UpdateShoppingList, IInv, RequestsInv, RequestInv, Updating, Input
<1>2. PICK lines \in SUBSET MovementIds :
        /\ Cardinality(lines) = i.added
        /\ WriteUpdate(r, i.kept, MovementsOf(known, e) \ i.kept,
             [m \in MovementIds |-> IF m \in lines THEN MainRow(e, i) ELSE None])
  BY DEF UpdateShoppingList
<1> DEFINE table == [m \in MovementIds |-> IF m \in lines THEN MainRow(e, i) ELSE None]
           deleted == MovementsOf(known, e) \ i.kept
<1>3. Structure(known, e, i.type) /\ i.kept \subseteq MovementsOf(known, e)
  BY <1>1 DEF ReadInv
<1>4. MainRow(e, i) # None /\ MainRow(e, i).event = e /\ MainRow(e, i).fee = FALSE
  BY <1>1, RowTypes, ConstantsAssumption DEF MainRow
<1>5. \A m \in MovementIds : table[m] # None => table[m].event = e /\ m \in lines /\ table[m] = MainRow(e, i)
  BY <1>4
<1>6. {m \in MovementIds : table[m] # None} = lines
  BY <1>4
<1>7. WriteUpdate(r, i.kept, deleted, table)
  BY <1>2
<1>8. i.kept \cup deleted = MovementsOf(known, e) /\ i.kept \cap deleted = {}
  BY <1>3
<1> HIDE DEF table, deleted
<1>9. \A m \in i.kept : RewrittenRow(i, known[m]) = MainRow(e, i)
  <2>1. FeesOf(known, e) = {}
    BY <1>1, <1>3 DEF Structure, ListStructure
  <2>2. \A m \in i.kept : ~ known[m].fee
    BY <1>3, <2>1 DEF FeesOf
  <2> QED BY <1>1, <2>2 DEF RewrittenRow
<1>10. i.kept # {} \/ lines # {}
  BY <1>1, <1>2, NoLinesAdded
<1>11. Finish(r) /\ UNCHANGED type
  BY <1>7 DEF WriteUpdate
<1>12. ASSUME known = Rows(movement, e) PROVE AsAsked(movement', e, i)
  <2>1. /\ MovementsOf(movement', e) = i.kept \cup lines
        /\ \A m \in i.kept : movement'[m] = MainRow(e, i)
        /\ \A m \in MovementIds : table[m] # None => movement'[m] = table[m]
    <3>1. \A m \in i.kept : RewrittenRow(i, known[m]) # None
      BY <1>4, <1>9
    <3>2. /\ pc[r] = "write" /\ input[r].op = "update" /\ read[r] = Rows(movement, input[r].event)
          /\ i.kept \cup deleted = MovementsOf(read[r], input[r].event)
          /\ \A m \in MovementIds : table[m] # None => table[m].event = input[r].event
      BY <1>1, <1>5, <1>8, <1>12
    <3>3. /\ MovementsOf(movement', e) = i.kept \cup {m \in MovementIds : table[m] # None}
          /\ \A m \in i.kept : movement'[m] = RewrittenRow(i, known[m])
          /\ \A m \in MovementIds : table[m] # None => movement'[m] = table[m]
      BY <1>7, <1>8, <3>1, <3>2, FreshUpdate
    <3> QED BY <1>6, <1>9, <3>3
  <2>2. \A m \in i.kept \cup lines : movement'[m] = MainRow(e, i)
    BY <1>5, <1>6, <2>1
  <2>3. FeesOf(movement', e) = {} /\ MainsOf(movement', e) = i.kept \cup lines
    BY <1>4, <2>1, <2>2 DEF FeesOf, MainsOf
  <2> QED BY <1>1, <1>10, <2>2, <2>3 DEF AsAsked
<1>13. CASE x = e
  BY <1>1, <1>11, <1>12, <1>13, OwnEventKept
<1>14. CASE x # e
  BY <1>1, <1>5, <1>7, <1>8, <1>14, UpdateKeepsOthers
<1> QED BY <1>13, <1>14

LEMMA DeleteKeepsStructure ==
  ASSUME IInv, NEW r \in Requests, DeleteEvent(r), NEW x \in EventIds
  PROVE  KeepsStructure(x)
<1> PICK e : e = input[r].event
  OBVIOUS
<1>1. /\ TypeOK
      /\ type' = [type EXCEPT ![e] = None]
      /\ movement' = [m \in MovementIds |->
                        IF m \in MovementsOf(movement, e) THEN None ELSE movement[m]]
  BY DEF DeleteEvent, IInv
<1>2. CASE x = e
  BY <1>1, <1>2 DEF KeepsStructure, TypeOK
<1>3. CASE x # e
  <2>1. \A m \in MovementIds :
          (movement'[m] # None /\ movement'[m].event = x) \/ (movement[m] # None /\ movement[m].event = x)
            => movement'[m] = movement[m]
    BY <1>1, <1>3 DEF MovementsOf
  <2>2. \A t : Structure(movement', x, t) <=> Structure(movement, x, t)
    BY <2>1, SameStructure
  <2> QED BY <1>1, <1>3, <2>2 DEF KeepsStructure, TypeOK
<1> QED BY <1>2, <1>3

\* Only the write of an update whose read is stale takes an event away from its
\* documented structure: creations and fresh updates store what the documents
\* say, whatever else runs.
THEOREM StructureOnlyLostStale == Spec => StructureKept
  <1> DEFINE Kept ==
        <<type, movement>>' # <<type, movement>> =>
          \A e \in EventIds :
            /\ type'[e] # None
            /\ type[e] # None => Structure(movement, e, type[e])
            => \/ Structure(movement', e, type'[e])
               \/ \E r \in Requests : Stale(r, e) /\ pc'[r] = "idle"
  <1>1. ASSUME IInv, [Next]_vars PROVE Kept
    <2>1. SUFFICES ASSUME <<type, movement>>' # <<type, movement>>, NEW x \in EventIds
                   PROVE  KeepsStructure(x)
      BY DEF KeepsStructure
    <2>2. PICK r \in Requests :
            \/ CreateSimple(r) \/ CreateShoppingList(r) \/ CreateTransfer(r)
            \/ UpdateSimple(r) \/ UpdateShoppingList(r) \/ UpdateTransfer(r)
            \/ DeleteEvent(r)
      BY <1>1, <2>1 DEF Next, RequestStep, vars, rows, locals, Begin, CountEvents, GetEvent, GetMovements,
                        RequireAccounts, RequireCategories, Fail, DeleteAccount, DeleteCategory
    <2>3. QED
      BY <1>1, <2>2, CreateKeepsStructure, MainsAndFeeKeepStructure, ListKeepsStructure,
         DeleteKeepsStructure
  <1>2. IInv /\ [Next]_vars => [Kept]_vars
    BY <1>1
  <1>3. QED
    BY Inductive, <1>2, PTL DEF Spec, StructureKept

--------------------------------------------------------------------------------
(* The limit of events *)

\* The instance counts as this module does.
LEMMA LimitCounts ==
  ASSUME NEW S
  PROVE  /\ Limit!Cardinality(S) = Cardinality(S)
         /\ Limit!IsFiniteSet(S) = IsFiniteSet(S)
<1>1. Limit!Cardinality(S) = Cardinality(S)
  BY DEF Limit!Cardinality, Cardinality
<1>2. Limit!IsFiniteSet(S) = IsFiniteSet(S)
  BY DEF Limit!IsFiniteSet, IsFiniteSet
<1> QED
  BY <1>1, <1>2

LEMMA LimitInit == Init => Limit!Init
  BY DEF Init, Limit!Init, StoredEvents, Admitted

\* A creation that passes the count is admitted, one that inserts commits, and
\* every other step stores no new event and admits no request.
LEMMA LimitStep == IInv /\ [Next]_vars => [Limit!Next]_(Limit!vars)
<1> SUFFICES ASSUME TypeOK, RequestsInv, [Next]_vars PROVE Limit!Next
  BY DEF Limit!Next, IInv
<1> DEFINE Stays == type' = type /\ Admitted' \subseteq Admitted
<1>1. Stays => Limit!Next
  BY DEF Limit!Next, Limit!Leave, StoredEvents
<1>2. ASSUME NEW r \in Requests, Finish(r) PROVE Admitted' = Admitted \ {r}
  BY <1>2 DEF Finish, Goto, Admitted, TypeOK
<1>3. CASE UNCHANGED vars
  BY <1>1, <1>3 DEF vars, Admitted
<1>4. ASSUME NEW r \in Requests, CountEvents(r) PROVE Limit!Next
  <2>1. CASE Finish(r) /\ UNCHANGED rows
    BY <1>1, <1>2, <2>1 DEF rows
  <2>2. CASE /\ Cardinality(StoredEvents) < MaxEvents
             /\ Goto(r, "accounts") /\ UNCHANGED <<input, read, type>>
    <3>1. Admitted' = Admitted \cup {r} \/ Admitted' = Admitted
      BY <2>2, <1>4 DEF Goto, Admitted, TypeOK, CountEvents
    <3> QED
      BY <3>1, <2>2, <1>1, LimitCounts DEF Limit!Next, Limit!Admit, StoredEvents
  <2> QED
    BY <1>4, <2>1, <2>2 DEF CountEvents, StoredEvents, rows
<1>5. ASSUME NEW r \in Requests,
             Begin(r) \/ GetEvent(r) \/ GetMovements(r) \/ RequireAccounts(r)
               \/ RequireCategories(r) \/ Fail(r)
      PROVE  Stays
  <2>1. CASE Begin(r)
    <3>1. PICK i \in Inputs : /\ input' = [input EXCEPT ![r] = i]
                              /\ Goto(r, IF i.op = "create" THEN "count" ELSE "event")
                              /\ UNCHANGED type
      BY <2>1 DEF Begin, rows
    <3> QED
      BY <3>1 DEF Goto, Admitted, TypeOK
  <2>2. CASE Finish(r) /\ UNCHANGED rows
    BY <2>2, <1>2 DEF rows
  <2>3. CASE UNCHANGED <<rows, input>> /\ Goto(r, "movements")
    BY <2>3 DEF Goto, Admitted, TypeOK, rows
  <2>4. CASE UNCHANGED <<rows, input>> /\ Goto(r, "accounts") /\ input[r].op = "update"
    BY <2>4 DEF Goto, Admitted, TypeOK, rows
  <2>5. CASE UNCHANGED <<rows, input>> /\ Goto(r, "write") /\ input[r].op = "delete"
    BY <2>5 DEF Goto, Admitted, TypeOK, rows
  <2>6. CASE /\ UNCHANGED <<rows, input>>
             /\ pc[r] \in {"accounts", "categories"}
             /\ Goto(r, "categories") \/ Goto(r, "write")
    BY <2>6 DEF Goto, Admitted, TypeOK, rows
  <2>7. pc[r] = "movements" => input[r].op = "update"
    BY DEF RequestsInv, RequestInv
  <2> QED
    BY <1>5, <2>1, <2>2, <2>3, <2>4, <2>5, <2>6, <2>7
    DEF GetEvent, GetMovements, RequireAccounts, RequireCategories, Fail, rows
<1>6. ASSUME NEW r \in Requests,
             UpdateSimple(r) \/ UpdateTransfer(r) \/ UpdateShoppingList(r)
      PROVE  Stays
  BY <1>6, <1>2 DEF UpdateSimple, UpdateTransfer, UpdateShoppingList, WriteMainsAndFee, WriteUpdate
<1>7. ASSUME NEW r \in Requests, DeleteEvent(r) PROVE Limit!Next
  <2>1. StoredEvents' \subseteq StoredEvents /\ Admitted' \subseteq Admitted
    BY <1>7, <1>2 DEF DeleteEvent, StoredEvents, TypeOK
  <2> QED
    BY <2>1 DEF Limit!Next, Limit!Leave
<1>8. ASSUME NEW r \in Requests,
             CreateSimple(r) \/ CreateShoppingList(r) \/ CreateTransfer(r)
      PROVE  Limit!Next
  <2>1. r \in Admitted
    BY <1>8 DEF CreateSimple, CreateShoppingList, CreateTransfer, Admitted
  <2>2. Admitted' = Admitted \ {r} /\ \E e \in EventIds : StoredEvents' \subseteq StoredEvents \cup {e}
    <3>1. PICK e \in EventIds : \E table : InsertEvent(r, e, table)
      BY <1>8 DEF CreateSimple, CreateShoppingList, CreateTransfer
    <3>2. PICK table : InsertEvent(r, e, table)
      BY <3>1
    <3> QED
      BY <3>2, <1>2 DEF InsertEvent, StoredEvents, TypeOK
  <2> QED
    BY <2>1, <2>2 DEF Limit!Next, Limit!Commit
<1>9. CASE \E a \in Accounts : DeleteAccount(a)
  BY <1>1, <1>9 DEF DeleteAccount, locals, Admitted
<1>10. CASE \E c \in Categories : DeleteCategory(c)
  BY <1>1, <1>10 DEF DeleteCategory, locals, Admitted
<1> QED
  BY <1>1, <1>3, <1>4, <1>5, <1>6, <1>7, <1>8, <1>9, <1>10 DEF Next, RequestStep

\* The creations of events implement the specification of a limit that is
\* counted before the write.
THEOREM EventsKeepToLimit == Spec => EventsImplementLimit
  <1>1. QED
    BY LimitInit, LimitStep, Inductive, PTL DEF Spec, EventsImplementLimit, Limit!Spec

\* The limit with its theorem.
Bound == INSTANCE AdmissionLimitProofs WITH
  Things <- EventIds, MaxStored <- MaxEvents, stored <- StoredEvents, admitted <- Admitted

LEMMA BoundCounts ==
  ASSUME NEW S
  PROVE  /\ Bound!Cardinality(S) = Cardinality(S)
         /\ Bound!IsFiniteSet(S) = IsFiniteSet(S)
<1>1. Bound!Cardinality(S) = Cardinality(S)
  BY DEF Bound!Cardinality, Cardinality
<1>2. Bound!IsFiniteSet(S) = IsFiniteSet(S)
  BY DEF Bound!IsFiniteSet, IsFiniteSet
<1> QED BY <1>1, <1>2

LEMMA BoundIsLimit ==
  /\ Limit!Init => Bound!Init
  /\ [Limit!Next]_(Limit!vars) => [Bound!Next]_(Bound!vars)
<1>1. \A S : Limit!Cardinality(S) = Bound!Cardinality(S)
  BY LimitCounts, BoundCounts
<1>2. Limit!Init => Bound!Init
  BY DEF Limit!Init, Bound!Init
<1>3. [Limit!Next]_(Limit!vars) => [Bound!Next]_(Bound!vars)
  BY <1>1 DEF Limit!Next, Bound!Next, Limit!vars, Bound!vars, Limit!Admit, Bound!Admit,
              Limit!Commit, Bound!Commit, Limit!CountAndCommit, Bound!CountAndCommit,
              Limit!Leave, Bound!Leave
<1> QED BY <1>2, <1>3

\* However many creations pass the count together, fewer events than there are
\* requests pass the limit.
THEOREM EventOvershootBounded == Spec => []EventLimitOvershoot
  <1>1. Bound!Spec => []Bound!Overshoot
    <2>1. Bound!IsFiniteSet(EventIds) /\ Bound!IsFiniteSet(Requests)
      BY BoundCounts, ConstantsAssumption
    <2>2. MaxEvents \in Nat /\ Requests # {}
      BY ConstantsAssumption
    <2>3. QED
      BY <2>1, <2>2, Bound!OvershootBounded
  <1>2. Bound!Overshoot => EventLimitOvershoot
    BY BoundCounts DEF Bound!Overshoot, EventLimitOvershoot
  <1>3. QED
    BY <1>1, <1>2, BoundIsLimit, EventsKeepToLimit, PTL
    DEF EventsImplementLimit, Limit!Spec, Bound!Spec
================================================================================
