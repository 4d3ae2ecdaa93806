------------------------------- MODULE EventEditor -----------------------------
(***************************************************************************)
(* FinancialEventEditorComponent of the activity page: an event, or a new  *)
(* one, becomes a form of local times and amounts in the decimals of a     *)
(* currency; the form becomes a payload; the API stores its movements.     *)
(*                                                                         *)
(* The accounts, categories and currencies are those of the page at hand,  *)
(* and the event is opened as the server has it (ActivityPage has the list *)
(* that ages).  Descriptions and item names are left out.  A line of a     *)
(* shopping list has a number, which is also its uuid once it is stored.   *)
(***************************************************************************)
EXTENDS Integers, Sequences, FiniteSets, FiniteSetsExt

CONSTANTS
  Accounts, Categories,  \* sequences, in the order of the selects
  Decimals,              \* of the currency of an account
  CurrencyOf,
  Instants, Labels,      \* instants, and what a local date and time may read
  LocalTime, ParseTime,  \* [Instants -> Labels] and the instants of Date.parse
  Typed, Quantities,     \* what is typed as an amount, in minor units, 0 for nothing
  MaxSafe,               \* Number.MAX_SAFE_INTEGER
  FirstEvents,           \* one of these, stored through the API, or none
  MaxLines, MaxEdits, MaxEvents, None

VARIABLES
  ui,     \* the editor and the history of its exchanges
  server  \* the events of the ledger

vars == <<ui, server>>

Types == {"TRANSACTION", "SHOPPING_LIST", "ACCOUNT_TRANSFER"}
Numbers == 1..(2 * MaxLines)
AllAccounts == Range(Accounts)
AllCategories == Range(Categories)

AccountNames == {"account", "source", "destination"}
CategoryNames == {"category", "feeCategory"}
AmountNames == {"amount", "sourceAmount", "destinationAmount", "feeAmount"}

\* What a text field of an amount holds: digits with that many decimals.
Text == [minor: Nat, places: Nat] \cup {None}
Line == [category: AllCategories, quantity: Quantities, amount: Text]
Movement == [account: AllAccounts, category: AllCategories, value: Int, quantity: Quantities, fee: BOOLEAN]

\* Members of S that have some of the numbers.
IsNumbered(ms, S) == DOMAIN ms \subseteq Numbers /\ ms \in [DOMAIN ms -> S]
IsMovements(ms) == IsNumbered(ms, Movement)

IsEvent(e) ==
  /\ e \in [type: Types, time: Instants, movements: {e.movements}, api: BOOLEAN]
  /\ IsMovements(e.movements)

IsForm(f) ==
  /\ f \in [time: Labels, account: AllAccounts, category: AllCategories, amount: Text, income: BOOLEAN,
            source: AllAccounts, destination: AllAccounts, sourceAmount: Text, destinationAmount: Text,
            feeEnabled: BOOLEAN, feeAmount: Text, feeCategory: AllCategories, lines: {f.lines}]
  /\ IsNumbered(f.lines, Line)

\* What is saved, and what the fields of the screen read then.
Asked(D, E) ==
  [at: {"sent", "answered"}, time: Instants, movements: [D -> Movement],
   screen: [time: Labels, income: BOOLEAN, accounts: SUBSET (AccountNames \X AllAccounts),
            categories: SUBSET (CategoryNames \X AllCategories), amounts: SUBSET (AmountNames \X (Nat \cup {None})),
            lines: [E -> [category: AllCategories, quantity: Quantities, amount: Nat \cup {None}]]]]

TypeOK ==
  /\ ui \in [open: BOOLEAN, event: 0..MaxEvents, type: Types, form: {ui.form}, saving: BOOLEAN, error: BOOLEAN,
             http: {ui.http}, edits: 0..MaxEdits, kept: Nat, lost: BOOLEAN]
  /\ ui.open => IsForm(ui.form)
  /\ ui.http # None => \E D, E \in SUBSET Numbers : ui.http \in Asked(D, E)
  /\ server \in Seq(Range(server)) /\ Len(server) <= MaxEvents
  /\ \A i \in DOMAIN server : IsEvent(server[i])

--------------------------------------------------------------------------------
(* The amounts: currency-format.ts and CurrencyAmountInputComponent.       *)

Places(a) == Decimals[CurrencyOf[a]]

\* parseCurrencyAmount.
ParseAmount(t, a) ==
  IF t = None \/ t.places > Places(a) THEN None
  ELSE LET minor == t.minor * 10^(Places(a) - t.places)
       IN  IF minor > MaxSafe THEN None ELSE minor

\* currencyAmountInput.
AmountInput(v, a) == [minor |-> IF v < 0 THEN -v ELSE v, places |-> Places(a)]

\* onInput: the digits are minor units of the currency shown beside the field.
Input(minor, a) == IF minor = 0 THEN None ELSE AmountInput(minor, a)

--------------------------------------------------------------------------------
(* From an event to the form.                                              *)

Mains(e) == {m \in {e.movements[n] : n \in DOMAIN e.movements} : ~m.fee}
Fees(e) == {m \in {e.movements[n] : n \in DOMAIN e.movements} : m.fee}

\* What the API validates of the events that it stores.
Valid(e) ==
  /\ Mains(e) # {} /\ \A n \in DOMAIN e.movements : e.movements[n].value # 0
  /\ e.type = "ACCOUNT_TRANSFER" =>
       /\ \E m \in Mains(e) : m.value > 0
       /\ \A m \in Mains(e) : m.value > 0 => \E n \in Mains(e) : n.value < 0 /\ n.account # m.account

\* createMovementGroup.
NewLine == [category |-> Categories[1], quantity |-> 1, amount |-> None]

\* form.reset: the form of a new event.
Blank(time) ==
  [time |-> time, account |-> Accounts[1], category |-> Categories[1], amount |-> None, income |-> FALSE,
   source |-> Accounts[1], destination |-> Accounts[2], sourceAmount |-> None, destinationAmount |-> None,
   feeEnabled |-> FALSE, feeAmount |-> None, feeCategory |-> Categories[1], lines |-> <<>>]

WithFee(f, e) ==
  IF Fees(e) = {} THEN f
  ELSE LET fee == CHOOSE m \in Fees(e) : TRUE
       IN  [f EXCEPT !.feeEnabled = TRUE, !.feeCategory = fee.category,
                     !.feeAmount = AmountInput(fee.value, fee.account)]

TransactionForm(f, e) ==
  LET main == CHOOSE m \in Mains(e) : TRUE
  IN  WithFee([f EXCEPT !.account = main.account, !.category = main.category,
                        !.amount = AmountInput(main.value, main.account), !.income = main.value > 0], e)

ShoppingListForm(f, e) ==
  LET ms == e.movements
  IN  [f EXCEPT !.account = (CHOOSE m \in Mains(e) : TRUE).account,
                !.lines = [n \in DOMAIN ms |-> [category |-> ms[n].category, quantity |-> ms[n].quantity,
                                                amount |-> AmountInput(ms[n].value, ms[n].account)]]]

TransferForm(f, e) ==
  LET to == CHOOSE m \in Mains(e) : m.value > 0
      from == CHOOSE m \in Mains(e) : m.value < 0 /\ m.account # to.account
  IN  WithFee([f EXCEPT !.source = from.account, !.destination = to.account, !.category = from.category,
                        !.sourceAmount = AmountInput(from.value, from.account),
                        !.destinationAmount = AmountInput(to.value, to.account)], e)

\* reset(event, type).
FormOf(e) ==
  LET f == Blank(LocalTime[e.time])
  IN  CASE e.type = "TRANSACTION" -> TransactionForm(f, e)
        [] e.type = "SHOPPING_LIST" -> ShoppingListForm(f, e)
        [] e.type = "ACCOUNT_TRANSFER" -> TransferForm(f, e)

NewForm(type, now) ==
  LET f == Blank(LocalTime[now])
  IN  IF type = "SHOPPING_LIST" THEN [f EXCEPT !.lines = [n \in {1} |-> NewLine]] ELSE f

--------------------------------------------------------------------------------
(* From the form to the movements that the API stores for the payload:     *)
(* buildPayload, None where it refuses.                                    *)

Entry(a, c, v, q, fee) == [account |-> a, category |-> c, value |-> v, quantity |-> q, fee |-> fee]

\* The movements with a fee in that account, numbered after the others.
AddFee(ms, f, a) == Append(ms, Entry(a, f.feeCategory, -ParseAmount(f.feeAmount, a), 1, TRUE))

\* A fee that is not on the screen is sent too.
TransactionPayloadHidden(f) ==
  LET amount == ParseAmount(f.amount, f.account)
      fee == f.feeEnabled
      main == Entry(f.account, f.category, IF f.income THEN amount ELSE -amount, 1, FALSE)
  IN  CASE amount = None \/ (fee /\ ParseAmount(f.feeAmount, f.account) = None) -> None
        [] OTHER -> IF fee THEN AddFee(<<main>>, f, f.account) ELSE <<main>>

TransactionPayload(f) ==
  LET amount == ParseAmount(f.amount, f.account)
      fee == ~f.income /\ f.feeEnabled
      main == Entry(f.account, f.category, IF f.income THEN amount ELSE -amount, 1, FALSE)
  IN  CASE amount = None \/ (fee /\ ParseAmount(f.feeAmount, f.account) = None) -> None
        [] OTHER -> IF fee THEN AddFee(<<main>>, f, f.account) ELSE <<main>>

ShoppingListPayload(f) ==
  LET amount(n) == ParseAmount(f.lines[n].amount, f.account) IN
  IF \E n \in DOMAIN f.lines : amount(n) = None THEN None
  ELSE [n \in DOMAIN f.lines |-> Entry(f.account, f.lines[n].category, -amount(n), f.lines[n].quantity, FALSE)]

SameTransferCurrency(f) == CurrencyOf[f.source] = CurrencyOf[f.destination]

TransferPayload(f) ==
  LET from == ParseAmount(f.sourceAmount, f.source)
      to == IF SameTransferCurrency(f) THEN from ELSE ParseAmount(f.destinationAmount, f.destination)
      mains == <<Entry(f.source, f.category, -from, 1, FALSE), Entry(f.destination, f.category, to, 1, FALSE)>>
      refused ==
        \/ f.source = f.destination \/ from = None \/ to = None
        \/ f.feeEnabled /\ ParseAmount(f.feeAmount, f.destination) = None
  IN  CASE refused -> None
        [] OTHER -> IF f.feeEnabled THEN AddFee(mains, f, f.destination) ELSE mains

Payload(type, f) ==
  CASE type = "TRANSACTION" -> TransactionPayload(f)
    [] type = "SHOPPING_LIST" -> ShoppingListPayload(f)
    [] type = "ACCOUNT_TRANSFER" -> TransferPayload(f)

--------------------------------------------------------------------------------
(* The screen: the fields that the template has, as they read.             *)

FeeShown(type, f) == type = "ACCOUNT_TRANSFER" \/ (type = "TRANSACTION" /\ ~f.income)

AccountFields(type) == IF type = "ACCOUNT_TRANSFER" THEN {"source", "destination"} ELSE {"account"}

\* The fields of amounts, with the account whose currency they are shown in.
AmountFields(type, f) ==
  CASE type = "TRANSACTION" -> {<<"amount", f.account>>}
    [] type = "SHOPPING_LIST" -> {}
    [] type = "ACCOUNT_TRANSFER" -> {<<"sourceAmount", f.source>>} \cup
         (IF SameTransferCurrency(f) THEN {} ELSE {<<"destinationAmount", f.destination>>})

FeeField(type, f) ==
  IF FeeShown(type, f) /\ f.feeEnabled
  THEN {<<"feeAmount", IF type = "ACCOUNT_TRANSFER" THEN f.destination ELSE f.account>>}
  ELSE {}

CategoryFields(type, f) ==
  (IF type = "SHOPPING_LIST" THEN {} ELSE {"category"})
    \cup (IF FeeField(type, f) = {} THEN {} ELSE {"feeCategory"})

\* displayValue: an amount that does not fit the currency reads as nothing.
Screen(type, f) ==
  [time |-> f.time, income |-> type = "TRANSACTION" /\ f.income,
   accounts |-> {<<a, f[a]>> : a \in AccountFields(type)},
   categories |-> {<<c, f[c]>> : c \in CategoryFields(type, f)},
   amounts |-> {<<t[1], ParseAmount(f[t[1]], t[2])>> : t \in AmountFields(type, f) \cup FeeField(type, f)},
   lines |-> [n \in DOMAIN f.lines |-> [f.lines[n] EXCEPT !.amount = ParseAmount(@, f.account)]]]

--------------------------------------------------------------------------------
(* The user.  The fields stay enabled while the event is saved.            *)

Closed ==
  [open |-> FALSE, event |-> 0, type |-> "TRANSACTION", form |-> None, saving |-> FALSE, error |-> FALSE,
   http |-> None, edits |-> 0, kept |-> 0, lost |-> FALSE]

Init == ui = Closed /\ server \in {<<>>} \cup {<<e>> : e \in FirstEvents}

Become(u) == ui' = u /\ UNCHANGED server

Opened(type, event, form) ==
  Become([ui EXCEPT !.open = TRUE, !.type = type, !.event = event, !.form = form, !.error = FALSE,
                    !.kept = 0,        \* history: creations stored for this form
                    !.lost = FALSE])   \* history: one of them was not answered

OpenNew(type, now) == ~ui.open /\ Opened(type, 0, NewForm(type, now))

OpenEvent(i) == ~ui.open /\ i \in DOMAIN server /\ Opened(server[i].type, i, FormOf(server[i]))

\* Any change of the form clears what was said of it.
Edit(f) ==
  /\ f # ui.form /\ ui.edits < MaxEdits
  /\ Become([ui EXCEPT !.form = f, !.error = FALSE, !.edits = @ + 1])

SetTime(l) == ui.open /\ Edit([ui.form EXCEPT !.time = l])
SetDirection(b) == ui.open /\ ui.type = "TRANSACTION" /\ Edit([ui.form EXCEPT !.income = b])
SetAccount(field, a) == ui.open /\ field \in AccountFields(ui.type) /\ Edit([ui.form EXCEPT ![field] = a])
SetCategory(field, c) == ui.open /\ field \in CategoryFields(ui.type, ui.form) /\ Edit([ui.form EXCEPT ![field] = c])
ToggleFee == ui.open /\ FeeShown(ui.type, ui.form) /\ Edit([ui.form EXCEPT !.feeEnabled = ~@])

SetAmount(minor) ==
  /\ ui.open
  /\ \E t \in AmountFields(ui.type, ui.form) \cup FeeField(ui.type, ui.form) :
       Edit([ui.form EXCEPT ![t[1]] = Input(minor, t[2])])

\* The numbers of the lines that are stored belong to them.
AddMovement ==
  LET used == DOMAIN ui.form.lines \cup (IF ui.event = 0 THEN {} ELSE DOMAIN server[ui.event].movements)
      n == Max(used) + 1
  IN  /\ n \in Numbers /\ Cardinality(DOMAIN ui.form.lines) < MaxLines
      /\ Edit([ui.form EXCEPT !.lines = [k \in DOMAIN @ \cup {n} |-> IF k = n THEN NewLine ELSE @[k]]])

RemoveMovement(n) ==
  /\ Cardinality(DOMAIN ui.form.lines) > 1
  /\ Edit([ui.form EXCEPT !.lines = [k \in DOMAIN @ \ {n} |-> @[k]]])

SetMovement(n) ==
  \/ \E c \in AllCategories : Edit([ui.form EXCEPT !.lines[n].category = c])
  \/ \E q \in Quantities : Edit([ui.form EXCEPT !.lines[n].quantity = q])
  \/ \E minor \in Typed : Edit([ui.form EXCEPT !.lines[n].amount = Input(minor, ui.form.account)])

EditLines ==
  /\ ui.open /\ ui.type = "SHOPPING_LIST"
  /\ \/ AddMovement
     \/ \E n \in DOMAIN ui.form.lines : RemoveMovement(n) \/ SetMovement(n)

Save ==
  /\ ui.open /\ ~ui.saving
  /\ LET ms == Payload(ui.type, ui.form) IN
     Become(IF ms = None \/ ParseTime[ui.form.time] = None THEN [ui EXCEPT !.error = TRUE]
            ELSE [ui EXCEPT !.saving = TRUE, !.error = FALSE,
                            !.http = [at |-> "sent", time |-> ParseTime[ui.form.time], movements |-> ms,
                                      screen |-> Screen(ui.type, ui.form)]])  \* history: what was saved

RequestClose == ui.open /\ ~ui.saving /\ Become([Closed EXCEPT !.edits = ui.edits])

\* The page or the ledger is left: the answer is not waited for.
Leave == ui.open /\ Become([Closed EXCEPT !.edits = ui.edits])

--------------------------------------------------------------------------------
(* The server, and its answers.                                            *)

Stored(q) == [type |-> ui.type, time |-> q.time, movements |-> q.movements, api |-> FALSE]

\* api tells the events that no editor wrote yet.
Serve ==
  LET q == ui.http IN
  /\ q # None /\ q.at = "sent"
  /\ ui.event = 0 => Len(server) < MaxEvents
  /\ server' = IF ui.event = 0 THEN Append(server, Stored(q)) ELSE [server EXCEPT ![ui.event] = Stored(q)]
  /\ ui' = [ui EXCEPT !.http.at = "answered", !.kept = IF ui.event = 0 THEN @ + 1 ELSE @]

\* editorSaved of the page closes the editor.
SaveAnswer == ui.http # None /\ ui.http.at = "answered" /\ Become([Closed EXCEPT !.edits = ui.edits])

\* The request is refused or lost, or its answer is lost.
Fail ==
  /\ ui.http # None
  /\ Become([ui EXCEPT !.http = None, !.saving = FALSE, !.error = TRUE, !.lost = @ \/ ui.http.at = "answered"])

Next ==
  \/ \E type \in Types, now \in Instants : OpenNew(type, now)
  \/ \E i \in 1..MaxEvents : OpenEvent(i)
  \/ \E l \in Labels : SetTime(l)
  \/ \E b \in BOOLEAN : SetDirection(b)
  \/ \E field \in AccountNames, a \in AllAccounts : SetAccount(field, a)
  \/ \E field \in CategoryNames, c \in AllCategories : SetCategory(field, c)
  \/ \E minor \in Typed : SetAmount(minor)
  \/ ToggleFee \/ EditLines \/ Save \/ RequestClose \/ Leave
  \/ Serve \/ SaveAnswer \/ Fail

--------------------------------------------------------------------------------
\* The editor says that it saves while the save is under way.
BusyIsPending == ui.saving <=> ui.http # None

\* An event that an editor wrote is stored as it was when it is opened and
\* saved again: no conversion of its time, its amounts or its fee loses
\* anything.  (Not so the events of other clients of the API.)
OpeningLosesNothing ==
  \A i \in DOMAIN server :
    LET e == server[i] IN
    ~e.api => /\ ParseTime[LocalTime[e.time]] = e.time
              /\ Payload(e.type, FormOf(e)) = e.movements

\* Every amount of an event that is saved was on the screen, and the event
\* reads, when it is opened again, as the screen read: nothing hidden was sent
\* and nothing shown was dropped; unless that local time did not exist.
SavedAsShown ==
  ui.http # None =>
    LET e == Stored(ui.http)
        screen == ui.http.screen
        lines == {screen.lines[n].amount : n \in DOMAIN screen.lines}
    IN  /\ \A n \in DOMAIN e.movements :
             AmountInput(e.movements[n].value, e.movements[n].account).minor \in {t[2] : t \in screen.amounts} \cup lines
        /\ LocalTime[e.time] = screen.time => Screen(e.type, FormOf(e)) = screen

\* A new event is stored once, unless an answer of the server was lost.
SettledIsServers == OpeningLosesNothing /\ SavedAsShown /\ (ui.kept > 1 => ui.lost)
================================================================================
