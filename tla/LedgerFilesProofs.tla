---------------------------- MODULE LedgerFilesProofs ---------------------------
(***************************************************************************)
(* Proofs about LedgerFiles: for any number of ledgers, requests and       *)
(* commands, every row of the registry has a complete file.                *)
(*                                                                         *)
(* RowHasFile is not inductive: a step that deletes a file is safe only    *)
(* because its ledger has no row and never gets one.  Inv adds that a      *)
(* ledger under creation belongs to one request, has no row, and is not    *)
(* being deleted by anyone, and that what is being deleted has no row.     *)
(*                                                                         *)
(* OrphansInHand is inductive under Inv: a step takes data without a row   *)
(* into its hand, gets rid of it, or leaves it to whoever has it.          *)
(***************************************************************************)
EXTENDS LedgerFiles, TLAPS

\* A request that runs has a ledger.
TargetsKnown == \A r \in Requests : pc[r] # "idle" => target[r] \in Ledgers

\* The ledger under creation is this request's alone.
CreationsApart ==
  \A r \in Requests : Creating(r) =>
    /\ target[r] \in used \ rows
    /\ pc[r] = "insert" => file[target[r]] = "complete"
    /\ \A q \in Requests : q # r /\ Creating(q) => target[q] # target[r]

\* The ledgers whose files a process is to delete have no row and get none.
Doomed(l) ==
  /\ l \in used \ rows
  /\ \A r \in Requests : Creating(r) => target[r] # l

DeletionsSafe ==
  /\ \A r \in Requests : pc[r] = "unlink" => Doomed(target[r])
  /\ \A c \in Commands : pc[c] = "unlink" => \A l \in left[c] : Doomed(l)

\* A row that a request is to delete is not under creation.
RowsApart ==
  \A r \in Requests : pc[r] = "delete row" =>
    /\ target[r] \in used
    /\ \A q \in Requests : Creating(q) => target[q] # target[r]

Inv ==
  /\ TypeOK
  /\ TargetsKnown
  /\ rows \subseteq used
  /\ RowHasFile
  /\ CreationsApart
  /\ DeletionsSafe
  /\ RowsApart

LEMMA InitInv == Init => Inv
  BY ConstantsAssumption
  DEF Init, Inv, TypeOK, RowHasFile, CreationsApart, DeletionsSafe, RowsApart, Doomed, Creating,
      TargetsKnown, Processes, Starters

--------------------------------------------------------------------------------
(* Types *)

LEMMA RequestType ==
  ASSUME TypeOK, TargetsKnown, NEW r \in Requests, RequestStep(r)
  PROVE  TypeOK' /\ TargetsKnown'
<1> USE ConstantsAssumption DEF TypeOK, TargetsKnown, Processes, Starters
<1>1. pc[r] # "idle" /\ r \in Processes
  BY DEF RequestStep, Touch, Fill, InsertRow, FailCreate, DeleteRow, Unlink, IsFile, Connect, Refuse
<1>2. target[r] \in Ledgers
  BY <1>1
<1>3. CASE Touch(r) \/ Fill(r)
  BY <1>2, <1>3 DEF Touch, Fill, Goto, Become
<1>4. CASE InsertRow(r)
  BY <1>2, <1>4 DEF InsertRow, End, Goto
<1>5. CASE FailCreate(r) \/ Unlink(r)
  BY <1>2, <1>5 DEF FailCreate, Unlink, End, Goto, Become
<1>6. CASE DeleteRow(r) \/ IsFile(r) \/ Refuse(r)
  BY <1>2, <1>6 DEF DeleteRow, IsFile, Refuse, End, Goto
<1>7. CASE Connect(r)
  BY <1>2, <1>7 DEF Connect, Connected, End, Goto
<1> QED BY <1>3, <1>4, <1>5, <1>6, <1>7 DEF RequestStep

LEMMA BeginType ==
  ASSUME TypeOK, TargetsKnown, NEW r \in Requests, NEW l \in Ledgers,
         NEW s \in {"touch", "delete row", "is_file"}, Begin(r, l, s), used' \subseteq Ledgers
  PROVE  TypeOK' /\ TargetsKnown'
  BY ConstantsAssumption DEF TypeOK, TargetsKnown, Processes, Starters, Begin, Goto

LEMMA ConnectedType ==
  ASSUME TypeOK, NEW l \in Ledgers
  PROVE  Connected(l) \in [Ledgers -> {"absent", "incomplete", "complete"}]
  BY DEF TypeOK, Connected

LEMMA StarterType ==
  ASSUME TypeOK, TargetsKnown, NEW p \in Starters, Glob(p) \/ StarterStep(p)
  PROVE  TypeOK' /\ TargetsKnown'
<1> USE ConstantsAssumption DEF TypeOK, TargetsKnown, Processes
<1>1. p \in Processes /\ p \notin Requests /\ left[p] \in SUBSET Ledgers
  OBVIOUS
<1>2. CASE Glob(p)
  BY <1>1, <1>2 DEF Glob, Goto, Found
<1>3. CASE ReadVersion(p)
  <2>1. PICK l \in left[p] :
          /\ file' = Connected(l)
          /\ IF file[l] = "complete"
             THEN left' = [left EXCEPT ![p] = @ \ {l}] /\ UNCHANGED <<pc, paths>>
             ELSE Quit(p)
    BY <1>3 DEF ReadVersion
  <2>2. UNCHANGED <<rows, used, target, stopped>>
    BY <1>3 DEF ReadVersion
  <2>3. file' \in [Ledgers -> {"absent", "incomplete", "complete"}]
    BY <1>1, <2>1, ConnectedType
  <2>4. CASE left' = [left EXCEPT ![p] = @ \ {l}] /\ UNCHANGED <<pc, paths>>
    BY <1>1, <2>2, <2>3, <2>4
  <2>5. CASE Quit(p)
    BY <1>1, <2>2, <2>3, <2>5 DEF Quit, Goto
  <2> QED BY <2>1, <2>4, <2>5
<1>4. CASE EnableWal(p)
  <2>1. PICK l \in left[p] : file' = Connected(l) /\ left' = [left EXCEPT ![p] = @ \ {l}]
    BY <1>4 DEF EnableWal
  <2>2. file' \in [Ledgers -> {"absent", "incomplete", "complete"}]
    BY <1>1, <2>1, ConnectedType
  <2> QED BY <1>1, <1>4, <2>1, <2>2 DEF EnableWal
<1>5. CASE NextPass(p)
  BY <1>1, <1>5 DEF NextPass, Goto
<1> QED BY <1>2, <1>3, <1>4, <1>5 DEF StarterStep

LEMMA CommandType ==
  ASSUME TypeOK, TargetsKnown, NEW c \in Commands, CommandStep(c) \/ StopCommand(c)
  PROVE  TypeOK' /\ TargetsKnown'
<1> USE ConstantsAssumption DEF TypeOK, TargetsKnown, Processes, Starters
<1>1. c \in Processes /\ c \notin Requests /\ left[c] \in SUBSET Ledgers
  OBVIOUS
<1>2. CASE DeleteUserRows(c)
  <2>1. PICK owned \in SUBSET rows : rows' = rows \ owned /\ left' = [left EXCEPT ![c] = owned]
    BY <1>2 DEF DeleteUserRows
  <2>2. pc' = [pc EXCEPT ![c] = "unlink"] /\ UNCHANGED <<file, used, target, paths, stopped>>
    BY <1>2 DEF DeleteUserRows, Goto
  <2>3. owned \in SUBSET Ledgers /\ rows' \subseteq Ledgers
    BY <2>1
  <2> QED BY <1>1, <2>1, <2>2, <2>3
<1>3. CASE UnlinkNext(c)
  <2>1. PICK l \in left[c] : Become(l, "absent") /\ left' = [left EXCEPT ![c] = @ \ {l}]
    BY <1>3 DEF UnlinkNext
  <2> QED BY <1>1, <1>3, <2>1 DEF UnlinkNext, Become
<1>4. CASE EndCommand(c)
  BY <1>1, <1>4 DEF EndCommand, Quit, Goto
<1>5. CASE StopCommand(c)
  BY <1>1, <1>5 DEF StopCommand, Quit, Goto
<1> QED BY <1>2, <1>3, <1>4, <1>5 DEF CommandStep

LEMMA StopServerType ==
  ASSUME TypeOK, TargetsKnown, StopServer
  PROVE  TypeOK' /\ TargetsKnown'
  BY ConstantsAssumption DEF TypeOK, TargetsKnown, Processes, Starters, StopServer

LEMMA NextType ==
  ASSUME TypeOK, TargetsKnown, Next
  PROVE  TypeOK' /\ TargetsKnown'
<1>1. ASSUME NEW r \in Requests, BeginCreate(r) \/ BeginDelete(r) \/ BeginOpen(r)
      PROVE  TypeOK' /\ TargetsKnown'
  <2>1. PICK l \in Ledgers, s \in {"touch", "delete row", "is_file"} : Begin(r, l, s) /\ used' \subseteq Ledgers
    BY <1>1 DEF BeginCreate, BeginDelete, BeginOpen, TypeOK
  <2> QED BY <2>1, BeginType
<1> QED
  BY <1>1, RequestType, StarterType, CommandType, StopServerType DEF Next

--------------------------------------------------------------------------------
(* Steps that leave the rows and the complete files alone *)

\* What a step may do that no part of Inv depends on: create an incomplete
\* file, move processes that neither create nor delete, and end any process.
Harmless ==
  /\ rows' = rows
  /\ used' = used
  /\ \A l \in Ledgers : file[l] = "complete" => file'[l] = "complete"
  /\ \A r \in Requests : pc'[r] \in {"touch", "fill", "insert", "unlink", "delete row"} =>
       pc'[r] = pc[r] /\ target'[r] = target[r]
  /\ \A c \in Commands : pc'[c] = "unlink" => pc[c] = "unlink" /\ left'[c] \subseteq left[c]

LEMMA HarmlessKeepsInv ==
  ASSUME Inv, Next, Harmless
  PROVE  Inv'
<1>1. TypeOK' /\ TargetsKnown'
  BY NextType DEF Inv
<1>2. \A r \in Requests : Creating(r)' => Creating(r) /\ target'[r] = target[r] /\ pc'[r] = pc[r]
  BY DEF Harmless, Creating
<1>3. rows' \subseteq used' /\ RowHasFile'
  BY DEF Inv, TypeOK, RowHasFile, Harmless
<1>4. CreationsApart'
  <2> SUFFICES ASSUME NEW r \in Requests, Creating(r)'
      PROVE  /\ target'[r] \in used' \ rows'
             /\ pc'[r] = "insert" => file'[target'[r]] = "complete"
             /\ \A q \in Requests : q # r /\ Creating(q)' => target'[q] # target'[r]
    BY DEF CreationsApart
  <2>1. Creating(r) /\ target'[r] = target[r] /\ pc'[r] = pc[r]
    BY <1>2
  <2>2. target[r] \in Ledgers
    BY <2>1 DEF Inv, TargetsKnown, Creating
  <2>3. target'[r] \in used' \ rows' /\ (pc'[r] = "insert" => file'[target'[r]] = "complete")
    BY <2>1, <2>2 DEF Inv, CreationsApart, Harmless
  <2>4. \A q \in Requests : q # r /\ Creating(q)' => target'[q] # target'[r]
    BY <1>2, <2>1 DEF Inv, CreationsApart
  <2> QED BY <2>3, <2>4
<1>5. \A l : Doomed(l) => Doomed(l)'
  BY <1>2 DEF Doomed, Harmless
<1>6. DeletionsSafe'
  BY <1>5 DEF Inv, DeletionsSafe, Harmless
<1>7. RowsApart'
  <2> SUFFICES ASSUME NEW r \in Requests, pc'[r] = "delete row"
      PROVE  /\ target'[r] \in used'
             /\ \A q \in Requests : Creating(q)' => target'[q] # target'[r]
    BY DEF RowsApart
  <2>1. pc[r] = "delete row" /\ target'[r] = target[r]
    BY DEF Harmless
  <2> QED BY <1>2, <2>1 DEF Inv, RowsApart, Harmless
<1> QED BY <1>1, <1>3, <1>4, <1>6, <1>7 DEF Inv

LEMMA EndHarmless ==
  ASSUME TypeOK, NEW r \in Requests, End(r), UNCHANGED <<file, rows, used, left>>
  PROVE  Harmless
  BY ConstantsAssumption DEF TypeOK, Harmless, End, Goto, Processes, Starters

LEMMA ConnectedKeepsComplete ==
  ASSUME TypeOK, NEW m \in Ledgers, file' = Connected(m)
  PROVE  \A l \in Ledgers : file[l] = "complete" => file'[l] = "complete"
  BY DEF TypeOK, Connected

LEMMA HarmlessSteps ==
  ASSUME Inv, Next
  PROVE  /\ \A r \in Requests : BeginOpen(r) \/ IsFile(r) \/ Connect(r) \/ Refuse(r) => Harmless
         /\ \A p \in Starters : Glob(p) \/ StarterStep(p) => Harmless
         /\ \A c \in Commands : EndCommand(c) \/ StopCommand(c) => Harmless
         /\ StopServer => Harmless
<1> USE ConstantsAssumption DEF Inv, TypeOK, Processes, Starters
<1>1. ASSUME NEW r \in Requests, BeginOpen(r) \/ IsFile(r) \/ Connect(r) \/ Refuse(r)
      PROVE  Harmless
  <2>1. CASE BeginOpen(r)
    BY <2>1 DEF BeginOpen, Begin, Goto, Harmless
  <2>2. CASE IsFile(r)
    BY <2>2 DEF IsFile, End, Goto, Harmless
  <2>3. CASE Connect(r)
    <3>1. target[r] \in Ledgers
      BY <2>3 DEF Connect, TargetsKnown
    <3>2. \A l \in Ledgers : file[l] = "complete" => file'[l] = "complete"
      BY <2>3, <3>1, ConnectedKeepsComplete DEF Connect
    <3> QED BY <2>3, <3>2 DEF Connect, End, Goto, Harmless
  <2>4. CASE Refuse(r)
    BY <2>4, EndHarmless DEF Refuse
  <2> QED BY <1>1, <2>1, <2>2, <2>3, <2>4
<1>2. ASSUME NEW p \in Starters, Glob(p) \/ StarterStep(p)
      PROVE  Harmless
  <2>0. p \in Processes /\ p \notin Requests /\ left[p] \in SUBSET Ledgers
    OBVIOUS
  <2>1. CASE Glob(p)
    BY <2>0, <2>1 DEF Glob, Goto, Harmless
  <2>2. CASE ReadVersion(p)
    <3>1. PICK l \in left[p] :
            /\ file' = Connected(l)
            /\ IF file[l] = "complete"
               THEN left' = [left EXCEPT ![p] = @ \ {l}] /\ UNCHANGED <<pc, paths>>
               ELSE Quit(p)
      BY <2>2 DEF ReadVersion
    <3>2. \A m \in Ledgers : file[m] = "complete" => file'[m] = "complete"
      BY <2>0, <3>1, ConnectedKeepsComplete
    <3>3. UNCHANGED <<rows, used, target>> /\ pc[p] # "unlink"
      BY <2>2 DEF ReadVersion
    <3>4. CASE left' = [left EXCEPT ![p] = @ \ {l}] /\ UNCHANGED <<pc, paths>>
      BY <2>0, <3>2, <3>3, <3>4 DEF Harmless
    <3>5. CASE Quit(p)
      BY <2>0, <3>2, <3>3, <3>5 DEF Quit, Goto, Harmless
    <3> QED BY <3>1, <3>4, <3>5
  <2>3. CASE EnableWal(p)
    <3>1. PICK l \in left[p] : file' = Connected(l) /\ left' = [left EXCEPT ![p] = @ \ {l}]
      BY <2>3 DEF EnableWal
    <3>2. \A m \in Ledgers : file[m] = "complete" => file'[m] = "complete"
      BY <2>0, <3>1, ConnectedKeepsComplete
    <3> QED BY <2>0, <2>3, <3>1, <3>2 DEF EnableWal, Harmless
  <2>4. CASE NextPass(p)
    BY <2>0, <2>4 DEF NextPass, Goto, Harmless
  <2> QED BY <1>2, <2>1, <2>2, <2>3, <2>4 DEF StarterStep
<1>3. ASSUME NEW c \in Commands, EndCommand(c) \/ StopCommand(c)
      PROVE  Harmless
  BY <1>3 DEF EndCommand, StopCommand, Quit, Goto, Harmless
<1>4. ASSUME StopServer PROVE Harmless
  BY <1>4 DEF StopServer, Harmless
<1> QED BY <1>1, <1>2, <1>3, <1>4

--------------------------------------------------------------------------------
(* Steps that create and delete *)

\* Only one request's pc and target change.
Alone(r) ==
  /\ \A q \in Requests : q # r => pc'[q] = pc[q] /\ target'[q] = target[q]
  /\ \A c \in Commands : pc'[c] = pc[c] /\ left'[c] = left[c]

LEMMA BeginCreateKeepsInv ==
  ASSUME Inv, NEW r \in Requests, BeginCreate(r)
  PROVE  Inv'
<1> USE ConstantsAssumption DEF Processes, Starters
<1>1. PICK l \in Ledgers \ used :
        /\ used' = used \cup {l}
        /\ target' = [target EXCEPT ![r] = l]
        /\ pc' = [pc EXCEPT ![r] = "touch"]
        /\ UNCHANGED <<file, rows, paths, left, stopped>>
  BY DEF BeginCreate, Begin, Goto
<1>2. TypeOK' /\ TargetsKnown'
  BY NextType DEF Inv, Next
<1>3. pc'[r] = "touch" /\ target'[r] = l /\ Alone(r)
  BY <1>1 DEF Inv, TypeOK, Alone
<1>4. Creating(r)' /\ \A q \in Requests : q # r => (Creating(q)' <=> Creating(q))
  BY <1>3 DEF Alone, Creating
<1>5. rows' \subseteq used' /\ RowHasFile'
  BY <1>1 DEF Inv, RowHasFile
<1>6. \A q \in Requests : Creating(q) => target[q] # l
  BY <1>1 DEF Inv, CreationsApart
<1>7. CreationsApart'
  BY <1>1, <1>3, <1>4, <1>6 DEF Inv, CreationsApart, Alone
<1>8. \A m : Doomed(m) => m # l /\ Doomed(m)'
  BY <1>1, <1>3, <1>4 DEF Doomed, Alone
<1>9. DeletionsSafe'
  BY <1>3, <1>8 DEF Inv, DeletionsSafe, Alone
<1>10. RowsApart'
  <2> SUFFICES ASSUME NEW q \in Requests, pc'[q] = "delete row"
      PROVE  /\ target'[q] \in used'
             /\ \A k \in Requests : Creating(k)' => target'[k] # target'[q]
    BY DEF RowsApart
  <2>1. q # r /\ pc[q] = "delete row" /\ target'[q] = target[q]
    BY <1>3 DEF Alone
  <2>2. target[q] \in used /\ target[q] # l
    BY <1>1, <2>1 DEF Inv, RowsApart
  <2>4. target'[q] \in used'
    <3>1. used \subseteq used'
      BY <1>1
    <3> QED BY ONLY <2>1, <2>2, <3>1
  <2>3. ASSUME NEW k \in Requests, Creating(k)'
        PROVE  target'[k] # target'[q]
    <3>1. CASE k = r
      BY <1>3, <2>1, <2>2, <3>1
    <3>2. CASE k # r
      BY <1>3, <1>4, <2>1, <2>3, <3>2 DEF Inv, RowsApart, Alone
    <3> QED BY <3>1, <3>2
  <2> QED BY ONLY <2>3, <2>4, Zenon
<1> QED BY <1>2, <1>5, <1>7, <1>9, <1>10 DEF Inv

\* A step that lets no file become incomplete or absent whose ledger is not
\* doomed, that dooms only what has no row and is not under creation, and that
\* begins no creation.
LEMMA OrderlyStepKeepsInv ==
  ASSUME Inv, Next, used' = used, rows' \subseteq used,
         RowHasFile', DeletionsSafe',
         \A r \in Requests : Creating(r)' =>
           /\ Creating(r)
           /\ target'[r] = target[r]
           /\ target[r] \notin rows'
           /\ pc'[r] = "insert" => file'[target[r]] = "complete",
         \A r \in Requests : pc'[r] = "delete row" => pc[r] = "delete row" /\ target'[r] = target[r]
  PROVE  Inv'
<1>1. TypeOK' /\ TargetsKnown'
  BY NextType DEF Inv
<1>2. CreationsApart'
  <2> SUFFICES ASSUME NEW r \in Requests, Creating(r)'
      PROVE  /\ target'[r] \in used' \ rows'
             /\ pc'[r] = "insert" => file'[target'[r]] = "complete"
             /\ \A q \in Requests : q # r /\ Creating(q)' => target'[q] # target'[r]
    BY DEF CreationsApart
  <2>1. Creating(r) /\ target'[r] = target[r] /\ target[r] \in used
    BY DEF Inv, CreationsApart
  <2>2. \A q \in Requests : q # r /\ Creating(q)' => target'[q] # target'[r]
    <3> SUFFICES ASSUME NEW q \in Requests, q # r, Creating(q)'
        PROVE  target'[q] # target'[r]
      OBVIOUS
    <3>1. Creating(q) /\ target'[q] = target[q]
      OBVIOUS
    <3>2. target[q] # target[r]
      BY <2>1, <3>1 DEF Inv, CreationsApart
    <3> QED BY ONLY <2>1, <3>1, <3>2
  <2> QED BY <2>1, <2>2
<1>3. RowsApart'
  <2> SUFFICES ASSUME NEW r \in Requests, pc'[r] = "delete row"
      PROVE  /\ target'[r] \in used'
             /\ \A q \in Requests : Creating(q)' => target'[q] # target'[r]
    BY DEF RowsApart
  <2>1. target'[r] = target[r] /\ pc[r] = "delete row"
    OBVIOUS
  <2>2. target'[r] \in used'
    BY <2>1 DEF Inv, RowsApart
  <2>3. ASSUME NEW q \in Requests, Creating(q)' PROVE target'[q] # target'[r]
    <3>1. Creating(q) /\ target'[q] = target[q]
      BY <2>3
    <3>2. target[q] # target[r]
      BY <2>1, <3>1 DEF Inv, RowsApart
    <3> QED BY ONLY <2>1, <3>1, <3>2
  <2> QED BY <2>2, <2>3
<1> QED BY <1>1, <1>2, <1>3 DEF Inv

LEMMA BeginDeleteKeepsInv ==
  ASSUME Inv, NEW r \in Requests, BeginDelete(r)
  PROVE  Inv'
<1> USE ConstantsAssumption DEF Processes, Starters
<1>1. PICK l \in rows :
        /\ target' = [target EXCEPT ![r] = l]
        /\ pc' = [pc EXCEPT ![r] = "delete row"]
        /\ UNCHANGED <<file, rows, used, paths, left, stopped>>
  BY DEF BeginDelete, Begin, Goto
<1>2. TypeOK' /\ TargetsKnown'
  BY NextType DEF Inv, Next
<1>3. pc'[r] = "delete row" /\ target'[r] = l /\ Alone(r)
  BY <1>1 DEF Inv, TypeOK, Alone
<1>4. \A q \in Requests : Creating(q)' => q # r /\ Creating(q) /\ target'[q] = target[q] /\ pc'[q] = pc[q]
  BY <1>3 DEF Alone, Creating
<1>5. rows' \subseteq used' /\ RowHasFile'
  BY <1>1 DEF Inv, RowHasFile
<1>6. CreationsApart'
  BY <1>1, <1>4 DEF Inv, CreationsApart
<1>7. \A m : Doomed(m) => Doomed(m)'
  BY <1>1, <1>4 DEF Doomed
<1>8. DeletionsSafe'
  BY <1>3, <1>7 DEF Inv, DeletionsSafe, Alone
<1>9. l \in used /\ \A q \in Requests : Creating(q) => target[q] # l
  BY <1>1 DEF Inv, CreationsApart
<1>10. RowsApart'
  <2> SUFFICES ASSUME NEW q \in Requests, pc'[q] = "delete row"
      PROVE  /\ target'[q] \in used'
             /\ \A k \in Requests : Creating(k)' => target'[k] # target'[q]
    BY DEF RowsApart
  <2>1. CASE q = r
    <3>1. target'[q] = l /\ l \in used'
      BY <1>1, <1>3, <1>9, <2>1
    <3>2. \A k \in Requests : Creating(k)' => target'[k] # l
      BY <1>4, <1>9
    <3> QED BY <3>1, <3>2
  <2>2. CASE q # r
    <3>1. pc[q] = "delete row" /\ target'[q] = target[q]
      BY <1>3, <2>2 DEF Alone
    <3>2. target'[q] \in used'
      <4>1. target[q] \in used
        BY <3>1 DEF Inv, RowsApart
      <4>2. used' = used
        BY <1>1
      <4> QED BY ONLY <3>1, <4>1, <4>2
    <3>3. \A k \in Requests : Creating(k)' => target'[k] # target'[q]
      BY <1>4, <3>1 DEF Inv, RowsApart
    <3> QED BY <3>2, <3>3
  <2> QED BY <2>1, <2>2
<1> QED BY <1>2, <1>5, <1>6, <1>8, <1>10 DEF Inv

LEMMA TouchFillKeepsInv ==
  ASSUME Inv, NEW r \in Requests, Touch(r) \/ Fill(r)
  PROVE  Inv'
<1> USE ConstantsAssumption DEF Processes, Starters
<1>1. Next
  BY DEF Next, RequestStep
<1>2. Creating(r) /\ target[r] \in Ledgers
  BY DEF Inv, TargetsKnown, Touch, Fill, Creating
<1>3. /\ Alone(r)
      /\ UNCHANGED <<rows, used, target>>
      /\ pc'[r] = "fill" \/ (pc'[r] = "insert" /\ file'[target[r]] = "complete")
      /\ \A l \in Ledgers : l # target[r] => file'[l] = file[l]
  <2>1. CASE Touch(r)
    BY <1>2, <2>1 DEF Inv, TypeOK, Touch, Goto, Become, Alone
  <2>2. CASE Fill(r)
    BY <1>2, <2>2 DEF Inv, TypeOK, Fill, Goto, Become, Alone
  <2> QED BY <2>1, <2>2
<1>4. \A q \in Requests : Creating(q)' => Creating(q)
  BY <1>2, <1>3 DEF Alone, Creating
<1>5. RowHasFile' /\ rows' \subseteq used
  BY <1>2, <1>3 DEF Inv, TypeOK, RowHasFile, CreationsApart
<1>6. \A m : Doomed(m) => Doomed(m)'
  BY <1>3, <1>4 DEF Doomed
<1>7. DeletionsSafe'
  BY <1>3, <1>6 DEF Inv, DeletionsSafe, Alone
<1>8. ASSUME NEW q \in Requests, Creating(q)'
      PROVE  /\ target[q] \notin rows'
             /\ pc'[q] = "insert" => file'[target[q]] = "complete"
  <2>1. CASE q = r
    BY <1>2, <1>3, <2>1 DEF Inv, CreationsApart
  <2>2. CASE q # r
    <3>1. Creating(q) /\ pc'[q] = pc[q] /\ target[q] \in Ledgers /\ target[q] # target[r]
      BY <1>2, <1>3, <1>4, <1>8, <2>2 DEF Inv, TargetsKnown, CreationsApart, Creating, Alone
    <3> QED BY <1>3, <3>1 DEF Inv, CreationsApart
  <2> QED BY <2>1, <2>2
<1>9. \A q \in Requests : pc'[q] = "delete row" => pc[q] = "delete row"
  BY <1>3 DEF Alone
<1> QED BY <1>1, <1>3, <1>4, <1>5, <1>7, <1>8, <1>9, OrderlyStepKeepsInv

LEMMA InsertRowKeepsInv ==
  ASSUME Inv, NEW r \in Requests, InsertRow(r)
  PROVE  Inv'
<1> USE ConstantsAssumption DEF Processes, Starters
<1>1. Next
  BY DEF Next, RequestStep
<1>2. Creating(r) /\ pc[r] = "insert" /\ target[r] \in Ledgers
  BY DEF Inv, TargetsKnown, InsertRow, Creating
<1>3. /\ Alone(r)
      /\ UNCHANGED <<file, used>>
      /\ rows' = rows \cup {target[r]}
      /\ pc'[r] = "idle"
  BY DEF Inv, TypeOK, InsertRow, End, Goto, Alone
<1>4. \A q \in Requests : Creating(q)' => q # r /\ Creating(q) /\ target'[q] = target[q] /\ pc'[q] = pc[q]
  BY <1>3 DEF Alone, Creating
<1>5. RowHasFile' /\ rows' \subseteq used
  BY <1>2, <1>3 DEF Inv, RowHasFile, CreationsApart
<1>6. \A m : Doomed(m) => Doomed(m)'
  BY <1>2, <1>3, <1>4 DEF Doomed
<1>7. DeletionsSafe'
  BY <1>3, <1>6 DEF Inv, DeletionsSafe, Alone
<1>8. \A q \in Requests : Creating(q)' =>
        target[q] \notin rows' /\ (pc'[q] = "insert" => file'[target[q]] = "complete")
  BY <1>2, <1>3, <1>4 DEF Inv, CreationsApart
<1>9. \A q \in Requests : pc'[q] = "delete row" => pc[q] = "delete row" /\ target'[q] = target[q]
  BY <1>3 DEF Alone
<1> QED BY <1>1, <1>3, <1>4, <1>5, <1>7, <1>8, <1>9, OrderlyStepKeepsInv

LEMMA DeleteRowKeepsInv ==
  ASSUME Inv, NEW r \in Requests, DeleteRow(r)
  PROVE  Inv'
<1> USE ConstantsAssumption DEF Processes, Starters
<1>1. Next
  BY DEF Next, RequestStep
<1>2. pc[r] = "delete row"
  BY DEF DeleteRow
<1>3. /\ Alone(r)
      /\ UNCHANGED <<file, used, target>>
      /\ rows' = rows \ {target[r]}
      /\ pc'[r] = "unlink"
  BY DEF Inv, TypeOK, DeleteRow, Goto, Alone
<1>4. \A q \in Requests : Creating(q)' => q # r /\ Creating(q) /\ pc'[q] = pc[q]
  BY <1>3 DEF Alone, Creating
<1>5. RowHasFile' /\ rows' \subseteq used
  BY <1>3 DEF Inv, RowHasFile
<1>6. \A m : Doomed(m) => Doomed(m)'
  BY <1>3, <1>4 DEF Doomed
<1>7. Doomed(target[r])'
  BY <1>2, <1>3, <1>4 DEF Inv, RowsApart, Doomed
<1>8. DeletionsSafe'
  <2>1. \A q \in Requests : pc'[q] = "unlink" => Doomed(target[q])'
    BY <1>3, <1>6, <1>7 DEF Inv, DeletionsSafe, Alone
  <2>2. \A c \in Commands : pc'[c] = "unlink" => \A l \in left'[c] : Doomed(l)'
    BY <1>3, <1>6 DEF Inv, DeletionsSafe, Alone
  <2> QED BY <1>3, <2>1, <2>2 DEF DeletionsSafe, Doomed
<1>9. \A q \in Requests : Creating(q)' =>
        target[q] \notin rows' /\ (pc'[q] = "insert" => file'[target[q]] = "complete")
  BY <1>3, <1>4 DEF Inv, CreationsApart
<1>10. \A q \in Requests : pc'[q] = "delete row" => pc[q] = "delete row"
  BY <1>2, <1>3 DEF Alone
<1> QED BY <1>1, <1>3, <1>4, <1>5, <1>8, <1>9, <1>10, OrderlyStepKeepsInv

\* The end of a creation that failed, or of a deletion, by request r.
LEMMA FailUnlinkKeepsInv ==
  ASSUME Inv, NEW r \in Requests, FailCreate(r) \/ Unlink(r)
  PROVE  Inv'
<1> USE ConstantsAssumption DEF Processes, Starters
<1>1. Next
  BY DEF Next, RequestStep
<1>2. (Creating(r) \/ pc[r] = "unlink") /\ target[r] \in Ledgers
  BY DEF Inv, TargetsKnown, FailCreate, Unlink, Creating
<1>3. /\ Alone(r)
      /\ UNCHANGED <<rows, used>>
      /\ pc'[r] = "idle"
      /\ \A l \in Ledgers : l # target[r] => file'[l] = file[l]
  <2>1. file' = file \/ Become(target[r], "absent")
    BY DEF FailCreate, Unlink
  <2>2. \A l \in Ledgers : l # target[r] => file'[l] = file[l]
    BY <2>1 DEF Inv, TypeOK, Become
  <2>3. UNCHANGED <<rows, used, left>> /\ End(r)
    BY DEF FailCreate, Unlink
  <2> QED BY <2>2, <2>3 DEF Inv, TypeOK, End, Goto, Alone
<1>4. \A q \in Requests : Creating(q)' => q # r /\ Creating(q) /\ target'[q] = target[q] /\ pc'[q] = pc[q]
  BY <1>3 DEF Alone, Creating
<1>5. target[r] \notin rows /\ \A q \in Requests : q # r /\ Creating(q) => target[q] # target[r]
  BY <1>2 DEF Inv, CreationsApart, DeletionsSafe, Doomed
<1>6. RowHasFile' /\ rows' \subseteq used
  BY <1>3, <1>5 DEF Inv, TypeOK, RowHasFile
<1>7. \A m : Doomed(m) => Doomed(m)'
  BY <1>3, <1>4 DEF Doomed
<1>8. DeletionsSafe'
  BY <1>3, <1>7 DEF Inv, DeletionsSafe, Alone
<1>9. ASSUME NEW q \in Requests, Creating(q)'
      PROVE  target[q] \notin rows' /\ (pc'[q] = "insert" => file'[target[q]] = "complete")
  <2>1. target[q] \in Ledgers /\ target[q] # target[r] /\ Creating(q)
    BY <1>4, <1>5, <1>9 DEF Inv, TargetsKnown, Creating
  <2> QED BY <1>3, <1>4, <1>9, <2>1 DEF Inv, CreationsApart
<1>10. \A q \in Requests : pc'[q] = "delete row" => pc[q] = "delete row" /\ target'[q] = target[q]
  BY <1>3 DEF Alone
<1> QED BY <1>1, <1>3, <1>4, <1>6, <1>8, <1>9, <1>10, OrderlyStepKeepsInv

LEMMA DeleteUserRowsKeepsInv ==
  ASSUME Inv, NEW c \in Commands, DeleteUserRows(c)
  PROVE  Inv'
<1> USE ConstantsAssumption DEF Processes, Starters
<1>1. Next
  BY DEF Next, CommandStep
<1>2. PICK owned \in SUBSET rows : rows' = rows \ owned /\ left' = [left EXCEPT ![c] = owned]
  BY DEF DeleteUserRows
<1>3. pc' = [pc EXCEPT ![c] = "unlink"] /\ UNCHANGED <<file, used, target>>
  BY DEF DeleteUserRows, Goto
<1>4. \A q \in Requests : pc'[q] = pc[q] /\ (Creating(q)' <=> Creating(q))
  BY <1>3 DEF Inv, TypeOK, Creating
<1>5. left'[c] = owned /\ \A d \in Commands : d # c => pc'[d] = pc[d] /\ left'[d] = left[d]
  BY <1>2, <1>3 DEF Inv, TypeOK
<1>6. RowHasFile' /\ rows' \subseteq used
  BY <1>2, <1>3 DEF Inv, RowHasFile
<1>7. \A m : Doomed(m) => Doomed(m)'
  BY <1>2, <1>3, <1>4 DEF Doomed
<1>8. \A m \in owned : Doomed(m)'
  BY <1>2, <1>3, <1>4 DEF Inv, CreationsApart, Doomed
<1>9. DeletionsSafe'
  <2>1. \A q \in Requests : pc'[q] = "unlink" => Doomed(target[q])'
    BY <1>3, <1>4, <1>7 DEF Inv, DeletionsSafe, Doomed
  <2>2. \A d \in Commands : pc'[d] = "unlink" => \A l \in left'[d] : Doomed(l)'
    BY <1>5, <1>7, <1>8 DEF Inv, DeletionsSafe
  <2> QED BY <1>3, <2>1, <2>2 DEF DeletionsSafe, Doomed
<1>10. \A q \in Requests : Creating(q)' =>
         target[q] \notin rows' /\ (pc'[q] = "insert" => file'[target[q]] = "complete")
  BY <1>2, <1>3, <1>4 DEF Inv, CreationsApart
<1> QED BY <1>1, <1>3, <1>4, <1>6, <1>9, <1>10, OrderlyStepKeepsInv

LEMMA UnlinkNextKeepsInv ==
  ASSUME Inv, NEW c \in Commands, UnlinkNext(c)
  PROVE  Inv'
<1> USE ConstantsAssumption DEF Processes, Starters
<1>1. Next
  BY DEF Next, CommandStep
<1>2. PICK l \in left[c] : file' = [file EXCEPT ![l] = "absent"] /\ left' = [left EXCEPT ![c] = @ \ {l}]
  BY DEF UnlinkNext, Become
<1>3. UNCHANGED <<rows, used, pc, target>>
  BY DEF UnlinkNext
<1>4. Doomed(l) /\ \A m \in Ledgers : m # l => file'[m] = file[m]
  BY <1>2 DEF Inv, TypeOK, DeletionsSafe, UnlinkNext
<1>5. \A d \in Commands : left'[d] \subseteq left[d]
  BY <1>2 DEF Inv, TypeOK
<1>6. RowHasFile' /\ rows' \subseteq used
  BY <1>3, <1>4 DEF Inv, TypeOK, RowHasFile, Doomed
<1>7. \A q \in Requests : Creating(q)' <=> Creating(q)
  BY <1>3 DEF Creating
<1>8. \A m : Doomed(m) => Doomed(m)'
  BY <1>3, <1>7 DEF Doomed
<1>9. DeletionsSafe'
  BY <1>3, <1>5, <1>8 DEF Inv, DeletionsSafe
<1>10. ASSUME NEW q \in Requests, Creating(q)
       PROVE  target[q] \notin rows' /\ (pc'[q] = "insert" => file'[target[q]] = "complete")
  <2>1. target[q] \in Ledgers /\ target[q] # l
    BY <1>4, <1>10 DEF Inv, TargetsKnown, Creating, Doomed
  <2> QED BY <1>3, <1>4, <1>10, <2>1 DEF Inv, CreationsApart
<1> QED BY <1>1, <1>3, <1>6, <1>7, <1>9, <1>10, OrderlyStepKeepsInv

--------------------------------------------------------------------------------
(* The theorems *)

LEMMA NextKeepsInv ==
  ASSUME Inv, Next
  PROVE  Inv'
<1>1. ASSUME NEW r \in Requests, BeginCreate(r) \/ BeginDelete(r) \/ BeginOpen(r) \/ RequestStep(r)
      PROVE  Inv'
  BY <1>1, BeginCreateKeepsInv, BeginDeleteKeepsInv, TouchFillKeepsInv, InsertRowKeepsInv,
     FailUnlinkKeepsInv, DeleteRowKeepsInv, HarmlessSteps, HarmlessKeepsInv DEF RequestStep
<1>2. ASSUME NEW p \in Starters, Glob(p) \/ StarterStep(p)
      PROVE  Inv'
  BY <1>2, HarmlessSteps, HarmlessKeepsInv
<1>3. ASSUME NEW c \in Commands, CommandStep(c) \/ StopCommand(c)
      PROVE  Inv'
  BY <1>3, DeleteUserRowsKeepsInv, UnlinkNextKeepsInv, HarmlessSteps, HarmlessKeepsInv DEF CommandStep
<1>4. CASE StopServer
  BY <1>4, HarmlessSteps, HarmlessKeepsInv
<1> QED BY <1>1, <1>2, <1>3, <1>4 DEF Next

LEMMA StutterKeepsInv ==
  ASSUME Inv, UNCHANGED vars
  PROVE  Inv'
  BY DEF vars, Inv, TypeOK, TargetsKnown, RowHasFile, CreationsApart, DeletionsSafe, RowsApart,
         Doomed, Creating

\* Inv holds in every state, for any ledgers, requests and commands.
THEOREM Inductive == Spec => []Inv
<1>1. Inv /\ [Next]_vars => Inv'
  BY NextKeepsInv, StutterKeepsInv
<1> QED BY InitInv, <1>1, PTL DEF Spec

\* The state of creations, deletions, openings and starts keeps its type.
THEOREM TypeCorrect == Spec => []TypeOK
<1>1. Inv => TypeOK
  BY DEF Inv
<1> QED BY Inductive, <1>1, PTL

\* No row of the registry is ever without a complete file: create_ledger writes
\* the file before the row, delete_owned_ledger and user delete remove the row
\* before the file, and a process killed between the two leaves only a file.
THEOREM RowsKeepFiles == Spec => []RowHasFile
<1>1. Inv => RowHasFile
  BY DEF Inv
<1> QED BY Inductive, <1>1, PTL
--------------------------------------------------------------------------------
(* Data without a row *)

InHand(l) ==
  \/ \E r \in Requests : target[r] = l /\ pc[r] \in {"insert", "unlink"}
  \/ \E c \in Commands : pc[c] = "unlink" /\ l \in left[c]

\* Data without a row after a step is in hand then, or had no row before and
\* whoever had it in hand still does.
HandedOn(l) ==
  \/ InHand(l)'
  \/ /\ l \notin rows
     /\ file[l] = "complete"
     /\ \A r \in Requests : target[r] = l /\ pc[r] \in {"insert", "unlink"} =>
          target'[r] = l /\ pc'[r] \in {"insert", "unlink"}
     /\ \A c \in Commands : pc[c] = "unlink" /\ l \in left[c] => pc'[c] = "unlink" /\ l \in left'[c]

StepHandsOn == \A l \in Ledgers \ rows' : file'[l] = "complete" => HandedOn(l)

LEMMA HandingOnKeepsOrphans ==
  ASSUME OrphansInHand, stopped' = stopped, StepHandsOn
  PROVE  OrphansInHand'
<1> SUFFICES ASSUME ~ stopped, NEW l \in Ledgers \ rows', file'[l] = "complete"
    PROVE  InHand(l)'
  BY DEF OrphansInHand, InHand
<1>1. HandedOn(l)
  BY DEF StepHandsOn
<1>2. ASSUME ~ InHand(l)' PROVE InHand(l)
  BY <1>1, <1>2 DEF HandedOn, OrphansInHand, InHand
<1> QED BY <1>1, <1>2 DEF HandedOn, InHand

LEMMA RequestHandsOn ==
  ASSUME Inv, NEW r \in Requests,
         BeginCreate(r) \/ BeginDelete(r) \/ BeginOpen(r) \/ RequestStep(r)
  PROVE  StepHandsOn /\ stopped' = stopped
<1> USE ConstantsAssumption DEF Inv, TypeOK, Processes, Starters
<1>1. Alone(r) /\ stopped' = stopped
  <2>1. CASE BeginCreate(r) \/ BeginDelete(r) \/ BeginOpen(r)
    BY <2>1 DEF BeginCreate, BeginDelete, BeginOpen, Begin, Goto, Alone
  <2>2. CASE Touch(r) \/ Fill(r) \/ DeleteRow(r)
    BY <2>2 DEF Touch, Fill, DeleteRow, Goto, Alone
  <2>3. CASE InsertRow(r) \/ FailCreate(r) \/ Unlink(r) \/ IsFile(r) \/ Connect(r) \/ Refuse(r)
    BY <2>3 DEF InsertRow, FailCreate, Unlink, IsFile, Connect, Refuse, End, Goto, Alone
  <2> QED BY <2>1, <2>2, <2>3 DEF RequestStep
\* A ledger that r does not hold, and that the step leaves alone, is handed on.
<1>2. ASSUME NEW l \in Ledgers, l \notin rows, file[l] = "complete",
             target[r] # l \/ pc[r] \notin {"insert", "unlink"}
      PROVE  HandedOn(l)
  BY <1>1, <1>2 DEF HandedOn, Alone
<1>3. ASSUME NEW l \in Ledgers \ rows', file'[l] = "complete"
      PROVE  HandedOn(l)
  <2>1. CASE BeginCreate(r) \/ BeginDelete(r) \/ BeginOpen(r) \/ IsFile(r) \/ Refuse(r)
    BY <1>2, <1>3, <2>1 DEF BeginCreate, BeginDelete, BeginOpen, Begin, IsFile, Refuse
  <2>2. CASE Touch(r)
    BY <1>2, <1>3, <2>2 DEF Touch, Become, TargetsKnown
  <2>3. CASE Fill(r)
    <3>1. CASE l = target[r]
      BY <2>3, <3>1 DEF Fill, Goto, HandedOn, InHand
    <3>2. CASE l # target[r]
      BY <1>2, <1>3, <2>3, <3>2 DEF Fill, Become
    <3> QED BY <3>1, <3>2
  <2>4. CASE InsertRow(r)
    BY <1>2, <1>3, <2>4 DEF InsertRow
  <2>5. CASE FailCreate(r) \/ Unlink(r)
    <3>1. target[r] \in Ledgers
      BY <2>5 DEF FailCreate, Unlink, TargetsKnown
    <3> QED BY <1>2, <1>3, <2>5, <3>1 DEF FailCreate, Unlink, Become
  <2>6. CASE DeleteRow(r)
    <3>1. CASE l = target[r]
      BY <2>6, <3>1 DEF DeleteRow, Goto, HandedOn, InHand
    <3>2. CASE l # target[r]
      BY <1>2, <1>3, <2>6, <3>2 DEF DeleteRow
    <3> QED BY <3>1, <3>2
  <2>7. CASE Connect(r)
    BY <1>2, <1>3, <2>7 DEF Connect, Connected
  <2> QED BY <2>1, <2>2, <2>3, <2>4, <2>5, <2>6, <2>7 DEF RequestStep
<1> QED BY <1>1, <1>3 DEF StepHandsOn

LEMMA ConnectedCompletesNothing ==
  ASSUME TypeOK, NEW m \in Ledgers, file' = Connected(m), NEW l \in Ledgers, file'[l] = "complete"
  PROVE  file[l] = "complete"
  BY DEF TypeOK, Connected

LEMMA StarterHandsOn ==
  ASSUME Inv, NEW p \in Starters, Glob(p) \/ StarterStep(p)
  PROVE  StepHandsOn /\ stopped' = stopped
<1> USE ConstantsAssumption DEF Inv, TypeOK, Processes, Starters
<1>1. p \in Processes /\ p \notin Requests /\ left[p] \in SUBSET Ledgers
  OBVIOUS
<1>2. /\ pc[p] # "unlink"
      /\ UNCHANGED <<rows, target, stopped>>
      /\ \A q \in Processes : q # p => pc'[q] = pc[q]
      /\ \A q \in Starters : q # p => left'[q] = left[q]
  <2>1. CASE Glob(p) \/ NextPass(p)
    BY <1>1, <2>1 DEF Glob, NextPass, Goto
  <2>2. CASE ReadVersion(p)
    BY <1>1, <2>2 DEF ReadVersion, Quit, Goto
  <2>3. CASE EnableWal(p)
    BY <1>1, <2>3 DEF EnableWal
  <2> QED BY <2>1, <2>2, <2>3 DEF StarterStep
<1>3. ASSUME NEW l \in Ledgers, file'[l] = "complete"
      PROVE  file[l] = "complete"
  <2>1. CASE Glob(p) \/ NextPass(p)
    BY <1>3, <2>1 DEF Glob, NextPass
  <2>2. CASE ReadVersion(p) \/ EnableWal(p)
    <3>1. PICK m \in left[p] : file' = Connected(m)
      BY <2>2 DEF ReadVersion, EnableWal
    <3> QED BY <1>1, <1>3, <3>1, ConnectedCompletesNothing
  <2> QED BY <2>1, <2>2 DEF StarterStep
<1> QED BY <1>1, <1>2, <1>3 DEF StepHandsOn, HandedOn

LEMMA CommandHandsOn ==
  ASSUME Inv, NEW c \in Commands, CommandStep(c)
  PROVE  StepHandsOn /\ stopped' = stopped
<1> USE ConstantsAssumption DEF Inv, TypeOK, Processes, Starters
<1>1. c \in Processes /\ c \notin Requests /\ left[c] \in SUBSET Ledgers
  OBVIOUS
<1>2. CASE DeleteUserRows(c)
  <2>1. PICK owned \in SUBSET rows : rows' = rows \ owned /\ left' = [left EXCEPT ![c] = owned]
    BY <1>2 DEF DeleteUserRows
  <2>2. pc[c] = "command" /\ pc' = [pc EXCEPT ![c] = "unlink"] /\ UNCHANGED <<file, target, stopped>>
    BY <1>2 DEF DeleteUserRows, Goto
  <2>3. pc'[c] = "unlink" /\ left'[c] = owned
    BY <1>1, <2>1, <2>2
  <2>4. ASSUME NEW l \in owned PROVE InHand(l)'
    BY <2>3 DEF InHand
  <2>5. ASSUME NEW l \in Ledgers \ rows', file'[l] = "complete", l \notin owned
        PROVE  HandedOn(l)
    BY <1>1, <2>1, <2>2, <2>5 DEF HandedOn
  <2> QED BY <2>2, <2>4, <2>5 DEF StepHandsOn, HandedOn
<1>3. CASE UnlinkNext(c)
  <2>1. PICK m \in left[c] : file' = [file EXCEPT ![m] = "absent"] /\ left' = [left EXCEPT ![c] = @ \ {m}]
    BY <1>3 DEF UnlinkNext, Become
  <2>2. UNCHANGED <<rows, pc, target, stopped>>
    BY <1>3 DEF UnlinkNext
  <2>3. ASSUME NEW l \in Ledgers \ rows', file'[l] = "complete"
        PROVE  HandedOn(l)
    <3>1. l # m /\ file[l] = "complete"
      BY <1>1, <2>1, <2>3
    <3>2. \A d \in Commands : l \in left[d] => l \in left'[d]
      BY <2>1, <3>1
    <3> QED BY <2>2, <2>3, <3>1, <3>2 DEF HandedOn
  <2> QED BY <2>2, <2>3 DEF StepHandsOn
<1>4. CASE EndCommand(c)
  BY <1>1, <1>4 DEF EndCommand, Quit, Goto, StepHandsOn, HandedOn
<1> QED BY <1>2, <1>3, <1>4 DEF CommandStep

LEMMA NextKeepsOrphans ==
  ASSUME Inv, OrphansInHand, Next
  PROVE  OrphansInHand'
<1>1. ASSUME NEW c \in Commands, StopCommand(c)
      PROVE  OrphansInHand'
  BY <1>1 DEF StopCommand, OrphansInHand
<1>2. CASE StopServer
  BY <1>2 DEF StopServer, OrphansInHand
<1> QED
  BY <1>1, <1>2, RequestHandsOn, StarterHandsOn, CommandHandsOn, HandingOnKeepsOrphans DEF Next

\* While no process has been killed, every complete file without a row is in
\* hand: its creation is about to insert the row, or a deletion is about to
\* delete the file, however many of them run at the same time.
THEOREM OrphansStayInHand == Spec => []OrphansInHand
<1>1. Init => OrphansInHand
  BY DEF Init, OrphansInHand
<1>2. OrphansInHand /\ UNCHANGED vars => OrphansInHand'
  BY DEF vars, OrphansInHand
<1>3. Inv /\ OrphansInHand /\ [Next]_vars => OrphansInHand'
  BY <1>2, NextKeepsOrphans
<1> QED BY Inductive, <1>1, <1>3, PTL DEF Spec
--------------------------------------------------------------------------------
(* One store *)

LEMMA StageSame ==
  ASSUME rows' = rows, used' = used, InMaking' = InMaking
  PROVE  Stage' = Stage
  BY DEF Stage

\* What the step of one request does to the ledgers that are being made.
LEMMA MakingMoves ==
  ASSUME CreationsApart, NEW r \in Requests, \A q \in Requests : q # r => pc'[q] = pc[q] /\ target'[q] = target[q]
  PROVE  /\ (Creating(r)' <=> Creating(r)) /\ (Creating(r) => target'[r] = target[r]) => InMaking' = InMaking
         /\ ~ Creating(r) /\ Creating(r)' => InMaking' = InMaking \cup {target'[r]}
         /\ Creating(r) /\ ~ Creating(r)' => InMaking' = InMaking \ {target[r]}
<1>1. \A q \in Requests : q # r => (Creating(q)' <=> Creating(q)) /\ target'[q] = target[q]
  BY DEF Creating
<1>2. \A l : l \in InMaking <=> \E q \in Requests : Creating(q) /\ target[q] = l
  BY DEF InMaking
<1>3. \A l : l \in InMaking' <=> \E q \in Requests : Creating(q)' /\ target'[q] = l
  BY DEF InMaking
<1>4. CASE (Creating(r)' <=> Creating(r)) /\ (Creating(r) => target'[r] = target[r])
  BY <1>1, <1>2, <1>3, <1>4
<1>5. CASE ~ Creating(r) /\ Creating(r)'
  BY <1>1, <1>2, <1>3, <1>5
<1>6. CASE Creating(r) /\ ~ Creating(r)'
  <2>1. \A q \in Requests : q # r /\ Creating(q) => target[q] # target[r]
    BY <1>6 DEF CreationsApart
  <2> QED BY <1>1, <1>2, <1>3, <1>6, <2>1
<1> QED BY <1>4, <1>5, <1>6

\* The ledgers in the making have uuids and no rows.
LEMMA MakingApart ==
  ASSUME Inv
  PROVE  InMaking \subseteq used \ rows /\ rows \subseteq used /\ used \subseteq Ledgers
<1>1. rows \subseteq used /\ used \subseteq Ledgers /\ \A r \in Requests : Creating(r) => target[r] \in used \ rows
  BY DEF Inv, TypeOK, CreationsApart
<1> QED BY <1>1 DEF InMaking

\* What TypeOK says of a process and of the files.
Steps == {"idle", "touch", "fill", "insert", "delete row", "unlink", "is_file",
          "connect", "version", "validate", "wal", "serving", "command"}

LEMMA StoreTypes ==
  ASSUME Inv
  PROVE  /\ pc \in [Requests \cup Commands \cup {Server} -> Steps] /\ target \in [Requests -> Ledgers \cup {None}]
         /\ file \in [Ledgers -> {"absent", "incomplete", "complete"}]
         /\ left \in [Commands \cup {Server} -> SUBSET Ledgers]
  BY DEF Inv, TypeOK, Steps, Processes, Starters

LEMMA RequestStores ==
  ASSUME Inv, NEW r \in Requests, RequestStep(r)
  PROVE  Store!Next \/ UNCHANGED <<Stage, Stored>>
<1> USE ConstantsAssumption DEF Processes, Starters
<1>1. pc \in [Processes -> Steps] /\ target \in [Requests -> Ledgers \cup {None}] /\ r \in Processes
      /\ file \in [Ledgers -> {"absent", "incomplete", "complete"}]
  BY StoreTypes
<1>2. pc[r] # "idle" /\ target[r] \in Ledgers /\ used' = used
  BY DEF RequestStep, Touch, Fill, InsertRow, FailCreate, DeleteRow, Unlink, IsFile, Connect, Refuse, Inv, TargetsKnown
<1>3. /\ \A q \in Requests : q # r => pc'[q] = pc[q] /\ target'[q] = target[q]
      /\ target'[r] \in {target[r], None}
  BY <1>1 DEF RequestStep, Touch, Fill, InsertRow, FailCreate, DeleteRow, Unlink, IsFile, Connect, Refuse, End, Goto
<1>4. CreationsApart /\ InMaking \subseteq used \ rows /\ rows \subseteq used /\ used \subseteq Ledgers
  BY MakingApart DEF Inv
<1>5. Creating(r) => target[r] \in InMaking
  BY DEF InMaking
<1>6. CASE Touch(r)
  <2>1. Creating(r) /\ Creating(r)' /\ target' = target /\ rows' = rows
    BY <1>1, <1>6 DEF Touch, Goto, Creating
  <2>2. InMaking' = InMaking
    BY <1>3, <1>4, <2>1, MakingMoves
  <2>3. Stored' = Stored
    BY <1>1, <1>2, <1>6 DEF Touch, Become, Stored
  <2> QED BY <1>2, <2>1, <2>2, <2>3, StageSame
<1>7. CASE Fill(r)
  <2>1. Creating(r) /\ Creating(r)' /\ target' = target /\ rows' = rows
    BY <1>1, <1>7 DEF Fill, Goto, Creating
  <2>2. Stage' = Stage
    BY <1>2, <1>3, <1>4, <2>1, MakingMoves, StageSame
  <2>3. Stored' = Stored \cup {target[r]}
    BY <1>1, <1>2, <1>7 DEF Fill, Become, Stored
  <2>4. Stage[target[r]] = "making"
    BY <1>2, <1>4, <1>5, <2>1 DEF Stage
  <2> QED BY <1>2, <2>2, <2>3, <2>4 DEF Store!Next, Store!Fill
<1>8. CASE InsertRow(r)
  <2>1. Creating(r) /\ ~ Creating(r)' /\ rows' = rows \cup {target[r]} /\ file' = file
    BY <1>1, <1>8 DEF InsertRow, End, Goto, Creating
  <2>2. InMaking' = InMaking \ {target[r]}
    BY <1>3, <1>4, <2>1, MakingMoves
  <2>3. Stage' = [Stage EXCEPT ![target[r]] = "listed"] /\ Stage[target[r]] = "making"
    BY <1>2, <1>4, <1>5, <2>1, <2>2 DEF Stage
  <2>4. target[r] \in Stored /\ Stored' = Stored
    BY <1>2, <1>4, <1>8, <2>1 DEF Stored, InsertRow, CreationsApart
  <2> QED BY <1>2, <2>3, <2>4 DEF Store!Next, Store!List
<1>9. CASE FailCreate(r)
  <2>1. Creating(r) /\ ~ Creating(r)' /\ rows' = rows
    BY <1>1, <1>9 DEF FailCreate, End, Goto, Creating
  <2>2. InMaking' = InMaking \ {target[r]}
    BY <1>3, <1>4, <2>1, MakingMoves
  <2>3. /\ Stage' = [l \in Ledgers |-> IF l \in {target[r]} THEN "gone" ELSE Stage[l]]
        /\ Stage[target[r]] = "making"
    BY <1>2, <1>4, <1>5, <2>1, <2>2 DEF Stage
  <2>4. Stored' \subseteq Stored /\ Stored \ Stored' \subseteq {target[r]}
    BY <1>1, <1>2, <1>9 DEF FailCreate, Become, Stored
  <2>5. Store!Leave({target[r]})
    BY <2>3, <2>4 DEF Store!Leave
  <2> QED BY <1>2, <2>5 DEF Store!Next
<1>10. CASE DeleteRow(r)
  <2>1. ~ Creating(r) /\ ~ Creating(r)' /\ rows' = rows \ {target[r]} /\ file' = file
    BY <1>1, <1>10 DEF DeleteRow, Goto, Creating
  <2>2. InMaking' = InMaking
    BY <1>3, <1>4, <2>1, MakingMoves
  <2>3. CASE target[r] \in rows
    <3>1. /\ Stage' = [l \in Ledgers |-> IF l \in {target[r]} THEN "gone" ELSE Stage[l]]
          /\ Stage[target[r]] = "listed" /\ Stored' = Stored
      BY <1>2, <1>4, <2>1, <2>2, <2>3 DEF Stage, Stored
    <3>2. Store!Leave({target[r]})
      BY <3>1 DEF Store!Leave
    <3> QED BY <1>2, <3>2 DEF Store!Next
  <2>4. CASE target[r] \notin rows
    <3>1. rows' = rows /\ Stored' = Stored
      BY <2>1, <2>4 DEF Stored
    <3> QED BY <1>2, <2>2, <3>1, StageSame
  <2> QED BY <2>3, <2>4
<1>11. CASE Unlink(r)
  <2>1. ~ Creating(r) /\ ~ Creating(r)' /\ rows' = rows
    BY <1>1, <1>11 DEF Unlink, End, Goto, Creating
  <2>2. Stage' = Stage
    BY <1>2, <1>3, <1>4, <2>1, MakingMoves, StageSame
  <2>3. Doomed(target[r])
    BY <1>11 DEF Unlink, Inv, DeletionsSafe
  <2>4. Stage[target[r]] = "gone"
    BY <1>2, <2>3 DEF Doomed, Stage, InMaking
  <2>5. Stored' = Stored \ {target[r]}
    BY <1>1, <1>2, <1>11 DEF Unlink, Become, Stored
  <2> QED BY <1>2, <2>2, <2>4, <2>5 DEF Store!Next, Store!Erase
<1>12. CASE IsFile(r) \/ Connect(r) \/ Refuse(r)
  <2>1. ~ Creating(r) /\ ~ Creating(r)' /\ rows' = rows
    BY <1>1, <1>12 DEF IsFile, Connect, Refuse, End, Goto, Creating
  <2>2. Stage' = Stage
    BY <1>2, <1>3, <1>4, <2>1, MakingMoves, StageSame
  <2>3. Stored' = Stored
    BY <1>1, <1>2, <1>12 DEF IsFile, Connect, Refuse, Connected, Stored
  <2> QED BY <2>2, <2>3
<1> QED BY <1>6, <1>7, <1>8, <1>9, <1>10, <1>11, <1>12 DEF RequestStep

LEMMA BeginStores ==
  ASSUME Inv, NEW r \in Requests, BeginCreate(r) \/ BeginDelete(r) \/ BeginOpen(r)
  PROVE  Store!Next \/ UNCHANGED <<Stage, Stored>>
<1> USE ConstantsAssumption DEF Processes, Starters
<1>1. pc \in [Processes -> Steps] /\ target \in [Requests -> Ledgers \cup {None}] /\ r \in Processes
  BY StoreTypes
<1>2. CreationsApart /\ InMaking \subseteq used \ rows /\ rows \subseteq used /\ used \subseteq Ledgers
  BY MakingApart DEF Inv
<1>3. /\ \A q \in Requests : q # r => pc'[q] = pc[q] /\ target'[q] = target[q]
      /\ rows' = rows /\ Stored' = Stored /\ ~ Creating(r)
  BY <1>1 DEF BeginCreate, BeginDelete, BeginOpen, Begin, Goto, Creating, Stored
<1>4. CASE BeginCreate(r)
  <2>1. PICK l \in Ledgers \ used : used' = used \cup {l} /\ Begin(r, l, "touch")
    BY <1>4 DEF BeginCreate
  <2>2. Creating(r)' /\ target'[r] = l
    BY <1>1, <2>1 DEF Begin, Goto, Creating
  <2>3. InMaking' = InMaking \cup {l}
    BY <1>2, <1>3, <2>2, MakingMoves
  <2>4. Stage' = [Stage EXCEPT ![l] = "making"] /\ Stage[l] = "new"
    BY <1>2, <1>3, <2>1, <2>3 DEF Stage
  <2> QED BY <1>3, <2>4 DEF Store!Next, Store!Make
<1>5. CASE BeginDelete(r) \/ BeginOpen(r)
  <2>1. used' = used /\ ~ Creating(r)'
    BY <1>1, <1>5 DEF BeginDelete, BeginOpen, Begin, Goto, Creating
  <2> QED BY <1>2, <1>3, <2>1, MakingMoves, StageSame
<1> QED BY <1>4, <1>5

LEMMA ProcessStores ==
  ASSUME Inv, NEW p \in Starters, Glob(p) \/ StarterStep(p) \/ (p \in Commands /\ (CommandStep(p) \/ StopCommand(p)))
  PROVE  Store!Next \/ UNCHANGED <<Stage, Stored>>
<1> USE ConstantsAssumption DEF Processes, Starters
<1>1. /\ pc \in [Processes -> Steps] /\ p \in Processes /\ p \notin Requests
      /\ file \in [Ledgers -> {"absent", "incomplete", "complete"}] /\ left[p] \in SUBSET Ledgers
  BY StoreTypes
<1>2. InMaking \subseteq used \ rows /\ rows \subseteq used /\ used \subseteq Ledgers
  BY MakingApart
<1>3. used' = used /\ target' = target /\ \A r \in Requests : pc'[r] = pc[r]
  BY <1>1 DEF Glob, StarterStep, ReadVersion, EnableWal, NextPass, CommandStep, DeleteUserRows, UnlinkNext, EndCommand,
              StopCommand, Quit, Goto
<1>4. InMaking' = InMaking
  BY <1>3 DEF InMaking, Creating
<1>5. CASE Glob(p) \/ StarterStep(p) \/ EndCommand(p) \/ StopCommand(p)
  <2>1. rows' = rows
    BY <1>5 DEF Glob, StarterStep, ReadVersion, EnableWal, NextPass, EndCommand, StopCommand
  <2>2. file' = file \/ \E m \in Ledgers : file' = Connected(m)
    BY <1>1, <1>5 DEF Glob, StarterStep, ReadVersion, EnableWal, NextPass, EndCommand, StopCommand
  <2>3. Stored' = Stored
    BY <1>1, <2>2 DEF Connected, Stored
  <2> QED BY <1>3, <1>4, <2>1, <2>3, StageSame
<1>6. CASE p \in Commands /\ DeleteUserRows(p)
  <2>1. PICK owned \in SUBSET rows : rows' = rows \ owned
    BY <1>6 DEF DeleteUserRows
  <2>2. /\ Stage' = [l \in Ledgers |-> IF l \in owned THEN "gone" ELSE Stage[l]]
        /\ \A l \in owned : Stage[l] = "listed"
    BY <1>2, <1>3, <1>4, <2>1 DEF Stage
  <2>3. Stored' = Stored
    BY <1>6 DEF DeleteUserRows, Stored
  <2>4. Store!Leave(owned)
    BY <2>2, <2>3 DEF Store!Leave
  <2> QED BY <1>2, <2>1, <2>4 DEF Store!Next
<1>7. CASE p \in Commands /\ UnlinkNext(p)
  <2>1. PICK l \in left[p] : Become(l, "absent")
    BY <1>7 DEF UnlinkNext
  <2>2. l \in Ledgers /\ Doomed(l)
    BY <1>1, <1>7, <2>1 DEF UnlinkNext, Inv, DeletionsSafe
  <2>3. Stage[l] = "gone"
    BY <2>2 DEF Doomed, Stage, InMaking
  <2>4. Stored' = Stored \ {l}
    BY <1>1, <2>1, <2>2 DEF Become, Stored
  <2>5. Stage' = Stage
    BY <1>3, <1>4, <1>7, StageSame DEF UnlinkNext
  <2> QED BY <2>2, <2>3, <2>4, <2>5 DEF Store!Next, Store!Erase
<1> QED BY <1>5, <1>6, <1>7 DEF CommandStep

LEMMA StopStores ==
  ASSUME Inv, StopServer
  PROVE  Store!Next
<1>1. InMaking \subseteq used \ rows /\ rows \subseteq used /\ used \subseteq Ledgers
  BY MakingApart
<1>2. UNCHANGED <<rows, used>> /\ Stored' = Stored
  BY DEF StopServer, Stored
<1>3. InMaking' = {}
  BY ConstantsAssumption DEF StopServer, InMaking, Creating, Processes, Starters
<1>4. /\ Stage' = [l \in Ledgers |-> IF l \in InMaking THEN "gone" ELSE Stage[l]]
      /\ \A l \in InMaking : Stage[l] = "making"
  BY <1>1, <1>2, <1>3 DEF Stage
<1>5. Store!Leave(InMaking)
  BY <1>2, <1>4 DEF Store!Leave
<1> QED BY <1>1, <1>5 DEF Store!Next

LEMMA StoreInit == Init => Store!Init
<1> SUFFICES ASSUME Init
             PROVE  Store!Init
  OBVIOUS
<1>1. InMaking = {}
  BY ConstantsAssumption DEF Init, InMaking, Creating, Processes
<1> QED BY <1>1 DEF Init, Store!Init, Stage, Stored

LEMMA StoreStep == Inv /\ [Next]_vars => [Store!Next]_(Store!vars)
<1> SUFFICES ASSUME Inv, [Next]_vars
             PROVE  Store!Next \/ UNCHANGED <<Stage, Stored>>
  BY DEF Store!vars
<1>1. CASE UNCHANGED vars
  BY <1>1 DEF vars, Stage, Stored, InMaking, Creating
<1>2. CASE Next
  <2>1. ASSUME NEW r \in Requests, BeginCreate(r) \/ BeginDelete(r) \/ BeginOpen(r) \/ RequestStep(r)
        PROVE  Store!Next \/ UNCHANGED <<Stage, Stored>>
    BY <2>1, RequestStores, BeginStores
  <2>2. ASSUME NEW p \in Starters, Glob(p) \/ StarterStep(p)
        PROVE  Store!Next \/ UNCHANGED <<Stage, Stored>>
    BY <2>2, ProcessStores
  <2>3. ASSUME NEW c \in Commands, CommandStep(c) \/ StopCommand(c)
        PROVE  Store!Next \/ UNCHANGED <<Stage, Stored>>
    BY <2>3, ProcessStores DEF Starters
  <2> QED BY <1>2, <2>1, <2>2, <2>3, StopStores DEF Next
<1> QED BY <1>1, <1>2

\* Rows and files are one store: a ledger is made once, listed with its data,
\* which nobody touches until its row goes, and never comes back, whatever
\* requests, commands, starts and kills interleave.
THEOREM FilesAreOneStore == Spec => FilesImplementStore
  BY StoreInit, StoreStep, Inductive, PTL DEF Spec, FilesImplementStore, Store!Spec
================================================================================
