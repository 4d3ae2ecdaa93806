------------------------------- MODULE LedgerFiles ------------------------------
(***************************************************************************)
(* Each ledger is a row of the registry and a SQLite file of its own in    *)
(* LEDGER_DBS_DIR, changed in separate steps: no transaction spans both.   *)
(*                                                                         *)
(* Requests are threads of the one server process.  A command is a CLI     *)
(* process.  The server when it starts and every command run               *)
(* SqliteDatabases.initialize, which opens the files it finds three times; *)
(* a file without schema metadata stops it.  Connecting to a path with no  *)
(* file creates an empty file.  A process may be killed between any two    *)
(* steps.                                                                  *)
(*                                                                         *)
(* Left out: who owns a ledger (LedgerGrants), what a complete file holds, *)
(* migrations (every file has the current version), the registry's own     *)
(* file and the -wal and -shm files.                                       *)
(***************************************************************************)
EXTENDS Naturals, FiniteSets

CONSTANTS
  Ledgers,   \* uuid4 values; each names a row and a file
  Requests,  \* threads of the server that serve ledgers
  Commands,  \* CLI processes
  Server,    \* the server while it starts
  None       \* no ledger

Starters == Commands \cup {Server}
Processes == Requests \cup Starters

ASSUME ConstantsAssumption ==
  /\ None \notin Ledgers
  /\ Server \notin Commands
  /\ Requests \cap Starters = {}

VARIABLES
  file,     \* each ledger's file: absent, incomplete (no metadata row) or complete
  rows,     \* rows of ledger in the registry
  used,     \* uuids generated so far
  pc,       \* the next step of each process; "idle" also when it does not run
  target,   \* the ledger of each request
  paths,    \* the files that a starting process found
  left,     \* those of them it has not opened yet, or the files left to delete
  stopped   \* a process was killed

vars == <<file, rows, used, pc, target, paths, left, stopped>>

Goto(p, step) == pc' = [pc EXCEPT ![p] = step]
Become(l, state) == file' = [file EXCEPT ![l] = state]

\* sqlite3.connect
Connected(l) == IF file[l] = "absent" THEN [file EXCEPT ![l] = "incomplete"] ELSE file

Init ==
  /\ file = [l \in Ledgers |-> "absent"]
  /\ rows = {}
  /\ used = {}
  /\ pc = [p \in Processes |-> "idle"]
  /\ target = [r \in Requests |-> None]
  /\ paths = [p \in Starters |-> {}]
  /\ left = [p \in Starters |-> {}]
  /\ stopped = FALSE

--------------------------------------------------------------------------------
(* Requests *)

Serving == pc[Server] = "serving"

Begin(r, l, step) ==
  /\ Serving
  /\ pc[r] = "idle"
  /\ target' = [target EXCEPT ![r] = l]
  /\ Goto(r, step)
  /\ UNCHANGED <<file, rows, paths, left, stopped>>

End(r) == target' = [target EXCEPT ![r] = None] /\ Goto(r, "idle")

BeginCreate(r) ==
  \E l \in Ledgers \ used : used' = used \cup {l} /\ Begin(r, l, "touch")

\* SqliteDatabase.initialize: touch(exist_ok=False) and the schema
Touch(r) ==
  /\ pc[r] = "touch"
  /\ file[target[r]] = "absent"
  /\ Become(target[r], "incomplete")
  /\ Goto(r, "fill")
  /\ UNCHANGED <<rows, used, target, paths, left, stopped>>

\* The transaction of initialize_ledger: metadata, currencies and categories
Fill(r) ==
  /\ pc[r] = "fill"
  /\ Become(target[r], "complete")
  /\ Goto(r, "insert")
  /\ UNCHANGED <<rows, used, target, paths, left, stopped>>

\* Mutant: the registry's rows are committed before the file is written.
InsertBeforeFill(r) ==
  /\ pc[r] \in {"fill", "insert"}
  /\ rows' = rows \cup {target[r]}
  /\ End(r)
  /\ UNCHANGED <<file, used, paths, left, stopped>>

\* The registry's transaction: the rows of the ledger and of its owner's grant
InsertRow(r) ==
  /\ pc[r] = "insert"
  /\ rows' = rows \cup {target[r]}
  /\ End(r)
  /\ UNCHANGED <<file, used, paths, left, stopped>>

\* Mutant: the file stays when create_ledger fails.
FailWithoutCleanup(r) ==
  /\ pc[r] \in {"touch", "fill", "insert"}
  /\ End(r)
  /\ UNCHANGED <<file, rows, used, paths, left, stopped>>

\* An exception in create_ledger: the file is deleted if it was created.
FailCreate(r) ==
  /\ pc[r] \in {"touch", "fill", "insert"}
  /\ IF pc[r] = "touch" THEN UNCHANGED file ELSE Become(target[r], "absent")
  /\ End(r)
  /\ UNCHANGED <<rows, used, paths, left, stopped>>

\* delete_owned_ledger has found the ledger.
BeginDelete(r) ==
  \E l \in rows : Begin(r, l, "delete row") /\ UNCHANGED used

\* Mutant: the file goes before the row.
DeleteFileFirst(r) ==
  /\ pc[r] = "delete row"
  /\ Become(target[r], "absent")
  /\ Goto(r, "unlink")
  /\ UNCHANGED <<rows, used, target, paths, left, stopped>>

DeleteRow(r) ==
  /\ pc[r] = "delete row"
  /\ rows' = rows \ {target[r]}
  /\ Goto(r, "unlink")
  /\ UNCHANGED <<file, used, target, paths, left, stopped>>

\* delete_ledger_database: unlink(missing_ok=True)
Unlink(r) ==
  /\ pc[r] = "unlink"
  /\ Become(target[r], "absent")
  /\ End(r)
  /\ UNCHANGED <<rows, used, paths, left, stopped>>

\* access_granted_ledger has found the ledger.
BeginOpen(r) ==
  \E l \in rows : Begin(r, l, "is_file") /\ UNCHANGED used

\* open_ledger
IsFile(r) ==
  /\ pc[r] = "is_file"
  /\ IF file[target[r]] # "absent" THEN Goto(r, "connect") /\ UNCHANGED target ELSE End(r)
  /\ UNCHANGED <<file, rows, used, paths, left, stopped>>

\* SqliteLedgerUnitOfWork.__enter__
Connect(r) ==
  /\ pc[r] = "connect"
  /\ file' = Connected(target[r])
  /\ End(r)
  /\ UNCHANGED <<rows, used, paths, left, stopped>>

\* A deletion or an opening fails before it changes anything.
Refuse(r) ==
  /\ pc[r] \in {"delete row", "is_file", "connect"}
  /\ End(r)
  /\ UNCHANGED <<file, rows, used, paths, left, stopped>>

--------------------------------------------------------------------------------
(* The server and the commands start *)

Found == {l \in Ledgers : file[l] # "absent"}

Quit(p) == Goto(p, "idle") /\ paths' = [paths EXCEPT ![p] = {}] /\ left' = [left EXCEPT ![p] = {}]

\* _ledger_paths
Glob(p) ==
  /\ pc[p] = "idle"
  /\ paths' = [paths EXCEPT ![p] = Found]
  /\ left' = [left EXCEPT ![p] = Found]
  /\ Goto(p, "version")
  /\ UNCHANGED <<file, rows, used, target, stopped>>

\* requires_migration, then validate, of one file
ReadVersion(p) ==
  /\ pc[p] \in {"version", "validate"}
  /\ \E l \in left[p] :
       /\ file' = Connected(l)
       /\ IF file[l] = "complete"
          THEN left' = [left EXCEPT ![p] = @ \ {l}] /\ UNCHANGED <<pc, paths>>
          ELSE Quit(p)
  /\ UNCHANGED <<rows, used, target, stopped>>

EnableWal(p) ==
  /\ pc[p] = "wal"
  /\ \E l \in left[p] :
       /\ file' = Connected(l)
       /\ left' = [left EXCEPT ![p] = @ \ {l}]
  /\ UNCHANGED <<rows, used, pc, target, paths, stopped>>

\* The next pass over the files, or the end of initialize.
NextPass(p) ==
  /\ left[p] = {}
  /\ \/ pc[p] = "version" /\ Goto(p, "validate") /\ left' = [left EXCEPT ![p] = paths[p]]
     \/ pc[p] = "validate" /\ Goto(p, "wal") /\ left' = [left EXCEPT ![p] = paths[p]]
     \/ pc[p] = "wal" /\ Goto(p, IF p = Server THEN "serving" ELSE "command") /\ UNCHANGED left
  /\ UNCHANGED <<file, rows, used, target, paths, stopped>>

--------------------------------------------------------------------------------
(* Commands *)

\* delete_user: the rows of the ledgers that the user owns go.
DeleteUserRows(c) ==
  /\ pc[c] = "command"
  /\ \E owned \in SUBSET rows :
       /\ rows' = rows \ owned
       /\ left' = [left EXCEPT ![c] = owned]
  /\ Goto(c, "unlink")
  /\ UNCHANGED <<file, used, target, paths, stopped>>

\* Mutant: user delete deletes one file only.
UnlinkFirst(c) ==
  /\ pc[c] = "unlink"
  /\ \E l \in left[c] : Become(l, "absent")
  /\ Quit(c)
  /\ UNCHANGED <<rows, used, target, stopped>>

\* _delete_user of the CLI: the files of those ledgers, one by one
UnlinkNext(c) ==
  /\ pc[c] = "unlink"
  /\ \E l \in left[c] :
       /\ Become(l, "absent")
       /\ left' = [left EXCEPT ![c] = @ \ {l}]
  /\ UNCHANGED <<rows, used, pc, target, paths, stopped>>

\* A command ends: this one had nothing to delete, or deletes no user.
EndCommand(c) ==
  /\ pc[c] = "command" \/ (pc[c] = "unlink" /\ left[c] = {})
  /\ Quit(c)
  /\ UNCHANGED <<file, rows, used, target, stopped>>

--------------------------------------------------------------------------------
(* Processes are killed *)

StopCommand(c) ==
  /\ pc[c] # "idle"
  /\ stopped' = TRUE
  /\ Quit(c)
  /\ UNCHANGED <<file, rows, used, target>>

\* The server's threads go with it.
StopServer ==
  /\ pc[Server] # "idle"
  /\ stopped' = TRUE
  /\ pc' = [p \in Processes |-> IF p \in Commands THEN pc[p] ELSE "idle"]
  /\ target' = [r \in Requests |-> None]
  /\ paths' = [paths EXCEPT ![Server] = {}]
  /\ left' = [left EXCEPT ![Server] = {}]
  /\ UNCHANGED <<file, rows, used>>

\* The steps that a running process takes on its own.
RequestStep(r) ==
  \/ Touch(r) \/ Fill(r) \/ InsertRow(r) \/ FailCreate(r)
  \/ DeleteRow(r) \/ Unlink(r) \/ IsFile(r) \/ Connect(r) \/ Refuse(r)

CommandStep(c) == DeleteUserRows(c) \/ UnlinkNext(c) \/ EndCommand(c)
StarterStep(p) == ReadVersion(p) \/ EnableWal(p) \/ NextPass(p)

Next ==
  \/ \E r \in Requests : BeginCreate(r) \/ BeginDelete(r) \/ BeginOpen(r) \/ RequestStep(r)
  \/ \E p \in Starters : Glob(p) \/ StarterStep(p)
  \/ \E c \in Commands : CommandStep(c) \/ StopCommand(c)
  \/ StopServer

\* A thread or a process that runs goes on until it ends or is killed.  Nothing
\* is assumed of clients and operators: no request or command need begin.
Fairness ==
  /\ \A r \in Requests : WF_vars(RequestStep(r))
  /\ \A c \in Commands : WF_vars(CommandStep(c))

Spec == Init /\ [][Next]_vars /\ Fairness

--------------------------------------------------------------------------------
(* Properties *)

Creating(r) == pc[r] \in {"touch", "fill", "insert"}

\* Every variable keeps its type.
TypeOK ==
  /\ file \in [Ledgers -> {"absent", "incomplete", "complete"}]
  /\ rows \subseteq Ledgers
  /\ used \subseteq Ledgers
  /\ pc \in [Processes -> {"idle", "touch", "fill", "insert", "delete row", "unlink", "is_file",
                           "connect", "version", "validate", "wal", "serving", "command"}]
  /\ target \in [Requests -> Ledgers \cup {None}]
  /\ paths \in [Starters -> SUBSET Ledgers]
  /\ left \in [Starters -> SUBSET Ledgers]
  /\ stopped \in BOOLEAN

\* Every ledger of the registry has a complete file, whatever is created,
\* deleted, opened or started at the same time and wherever a process is killed:
\* no user finds a ledger that cannot be opened.
RowHasFile == \A l \in rows : file[l] = "complete"

\* While no process has been killed, a ledger's data without a row is in hand:
\* a creation is about to insert the row, or a deletion to delete the file.
OrphansInHand ==
  ~ stopped =>
    \A l \in Ledgers \ rows :
      file[l] = "complete" =>
        \/ \E r \in Requests : target[r] = l /\ pc[r] \in {"insert", "unlink"}
        \/ \E c \in Commands : pc[c] = "unlink" /\ l \in left[c]

\* Where a ledger is in its life: it is listed while it has a row, and being
\* made while a request creates it.
InMaking == {target[r] : r \in {q \in Requests : Creating(q)}}
Stage ==
  [l \in Ledgers |->
     IF l \in rows THEN "listed" ELSE IF l \in InMaking THEN "making" ELSE IF l \in used THEN "gone" ELSE "new"]
Stored == {l \in Ledgers : file[l] = "complete"}

\* Row and file, changed in separate steps by any number of processes that may
\* be killed, are one store: a ledger appears with all its data, keeps them
\* until it is deleted, and never comes back, and no file of another is erased.
Store == INSTANCE LedgerStore WITH stage <- Stage, data <- Stored
FilesImplementStore == Store!Spec

\* A ledger's data without a row goes, unless its row is inserted after all or a
\* process is killed: delete_owned_ledger and user delete remove what they say,
\* and a failed creation leaves nothing behind.
DataGoesWithRow ==
  \A l \in Ledgers :
    (file[l] = "complete" /\ l \notin rows) ~> (file[l] # "complete" \/ l \in rows \/ stopped)

\* test_open_ledger_does_not_create_a_missing_database: opening a ledger whose
\* file is missing raises and creates no file.
OpeningCreatesNoFile ==
  [][\A r \in Requests :
       pc[r] = "connect" /\ pc'[r] = "idle" =>
         \A l \in Ledgers : file[l] = "absent" => file'[l] = "absent"]_vars
================================================================================
