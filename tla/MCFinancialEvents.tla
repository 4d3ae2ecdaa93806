--------------------------- MODULE MCFinancialEvents ---------------------------
(***************************************************************************)
(* Instances of FinancialEvents for TLC: the request bodies of each run,   *)
(* in which a field that the use case does not take has one fixed value.   *)
(***************************************************************************)
EXTENDS FinancialEvents, TLC

AnyAccount == CHOOSE a \in Accounts : TRUE
AnyEvent == CHOOSE e \in EventIds : TRUE

Body(op, type_, event, account, destination, category, value, destinationValue, fee, kept, added) ==
  [op |-> op, type |-> type_, event |-> event, account |-> account, destination |-> destination,
   category |-> category, value |-> value, destinationValue |-> destinationValue,
   fee |-> fee, kept |-> kept, added |-> added]

SimpleBodies(values, fees) ==
  {Body(x[1], "TRANSACTION", x[2], x[3], x[3], c, v, 0, f, {}, 0) :
     x \in {"create", "update"} \X EventIds \X Accounts, c \in Categories, v \in values, f \in fees}
ListCreations(most) ==
  {Body("create", "SHOPPING_LIST", e, a, a, c, -1, 0, None, {}, n) :
     e \in EventIds, a \in Accounts, c \in Categories, n \in 0 .. most}
ListUpdates ==
  {Body("update", "SHOPPING_LIST", x[1], x[2], x[2], c, -1, 0, None, kept, n) :
     x \in EventIds \X Accounts, c \in Categories, kept \in SUBSET MovementIds, n \in 0 .. 1}
TransferBodies ==
  {Body(x[1], "ACCOUNT_TRANSFER", x[2], x[3], x[4], c, -1, v, f, {}, 0) :
     x \in {"create", "update"} \X EventIds \X Accounts \X Accounts, c \in Categories, v \in {-1, 1}, f \in {None, -1}}
DeleteBodies ==
  {Body("delete", "TRANSACTION", e, a, a, c, 0, 0, None, {}, 0) :
     e \in EventIds, a \in {AnyAccount}, c \in Categories}

\* A creation names no event: its bodies differ only in the rest.
OneCreation(bodies) ==
  {i \in bodies : i.op = "create" => i.event = AnyEvent}

\* Every kind of body, the invalid ones included.
AllInputs ==
  OneCreation(SimpleBodies(Signs, {None, -1, 1}) \cup ListCreations(2) \cup ListUpdates \cup TransferBodies)
  \cup DeleteBodies

\* The bodies that pass the checks of values.
ValidInputs ==
  OneCreation(SimpleBodies({-1, 1}, {None, -1}) \cup ListCreations(2) \cup ListUpdates \cup TransferBodies)
  \cup DeleteBodies

CreateAndDeleteInputs ==
  OneCreation({i \in SimpleBodies({-1}, {None}) : i.op = "create"}) \cup DeleteBodies

Symmetry == Permutations(MovementIds) \cup Permutations(Requests)
================================================================================
