------------------------------ MODULE LedgerGrants -----------------------------
(***************************************************************************)
(* The registry's rows about ledgers: user_account, external_access,       *)
(* ledger and ledger_grant, and the requests and CLI commands that grant,  *)
(* transfer and revoke access to a ledger.                                 *)
(*                                                                         *)
(* The registry is one SQLite file, opened as the ledgers' files are: the  *)
(* SELECTs before the first INSERT, UPDATE or DELETE of a use case each    *)
(* see a snapshot of their own, and everything from that statement to      *)
(* commit is one atomic write.  Where the caller has confirmed TOTP,       *)
(* verify_totp's UPDATE is the first statement: what follows it is inside  *)
(* the write.                                                              *)
(*                                                                         *)
(* Left out: names, tokens, password checks (they can only refuse a call)  *)
(* and timestamps: a grant is active or revoked.  The ledger's file is in  *)
(* LedgerFiles.                                                            *)
(***************************************************************************)
EXTENDS Integers, FiniteSets, Sequences

CONSTANTS
  Users,        \* users registered when the behaviour starts
  Accesses,     \* uuid4 values that identify external_access rows
  Ledgers,      \* uuid4 values that identify ledger rows
  GrantIds,     \* uuid4 values that identify ledger_grant rows
  Requests,     \* how many requests and CLI commands run at the same time
  Calls,        \* the calls that clients and the operator make
  MaxLedgers,   \* MAXIMUM_LEDGERS_PER_USER
  MaxAccesses,  \* MAXIMUM_EXTERNAL_ACCESSES_PER_LEDGER
  None          \* no row

\* The SELECTs of each use case, in order, and its write.
Plan ==
  [create_ledger |-> <<"user", "owned", "write">>,
   delete_ledger |-> <<"owner", "ledger", "write">>,
   set_owner |-> <<"user", "ledger", "other_owner", "owned", "active_grant", "write">>,
   revoke_grant |-> <<"grant", "write">>,
   create_access |-> <<"owner", "accesses", "write">>,
   create_access_totp |-> <<"owner", "write">>,
   revoke_access |-> <<"owner", "grant", "access", "write">>,
   revoke_owned |-> <<"grant", "owner", "write">>,
   delete_user |-> <<"user", "write">>]

Operations == DOMAIN Plan
Steps == {"user", "owned", "owner", "ledger", "other_owner", "active_grant",
          "grant", "accesses", "access", "write"}

Grant == [grantee: Users \cup Accesses, ledger: Ledgers, role: {"OWNER", "GUEST"}, active: BOOLEAN]
\* A field that the use case does not take is None.
Call == [op: Operations, user: Users \cup {None}, ledger: Ledgers \cup {None},
         grant: GrantIds \cup {None}]

ASSUME ConstantsAssumption ==
  /\ Users \cap Accesses = {}
  /\ Users \cap (Ledgers \cup GrantIds) = {}
  /\ Accesses \cap (Ledgers \cup GrantIds) = {}
  /\ Ledgers \cap GrantIds = {}
  /\ None \notin Users /\ None \notin Accesses
  /\ None \notin Ledgers /\ None \notin GrantIds
  /\ None \notin Grant
  /\ None \notin Call
  /\ Calls \subseteq Call
  /\ MaxLedgers \in Nat
  /\ MaxAccesses \in Nat

VARIABLES
  users,     \* rows of user_account
  accesses,  \* rows of external_access
  ledgers,   \* rows of ledger
  grant,     \* ledger_grant rows, None where there is no row
  used,      \* uuids generated so far
  todo,      \* the steps each request has left
  call,      \* what each request was called with
  row,       \* the grant that a request read
  revoking   \* the grants that a request is to revoke

vars == <<users, accesses, ledgers, grant, used, todo, call, row, revoking>>
rows == <<users, accesses, ledgers, grant, used>>
locals == <<todo, call, row, revoking>>

--------------------------------------------------------------------------------
(* Queries *)

Stored == {g \in GrantIds : grant[g] # None}
Active(l) == {g \in Stored : grant[g].ledger = l /\ grant[g].active}

\* get_active_owner_by_ledger
OwnersOf(l) == {g \in Active(l) : grant[g].role = "OWNER"}
IsOwner(u, l) == \E g \in OwnersOf(l) : grant[g].grantee = u

\* count_owned_by_user and count_active_external_accesses_by_ledger
OwnedBy(u) ==
  {g \in Stored : grant[g].grantee = u /\ grant[g].role = "OWNER" /\ grant[g].active}
AccessesTo(l) ==
  {g \in Active(l) : grant[g].grantee \in accesses /\ grant[g].role = "GUEST"}

\* ON DELETE CASCADE from ledger and from ledger_grantee
Without(goneLedgers, goneGrantees) ==
  [g \in GrantIds |->
     IF grant[g] # None /\ (grant[g].ledger \in goneLedgers \/ grant[g].grantee \in goneGrantees)
     THEN None ELSE grant[g]]

--------------------------------------------------------------------------------
(* The steps of a request before its write *)

Init ==
  /\ users = Users
  /\ accesses = {}
  /\ ledgers = {}
  /\ grant = [g \in GrantIds |-> None]
  /\ used = {}
  /\ todo = [r \in Requests |-> <<>>]
  /\ call = [r \in Requests |-> None]
  /\ row = [r \in Requests |-> None]
  /\ revoking = [r \in Requests |-> {}]

At(r, step) == todo[r] # <<>> /\ Head(todo[r]) = step

Finish(r) ==
  /\ todo' = [todo EXCEPT ![r] = <<>>]
  /\ call' = [call EXCEPT ![r] = None]
  /\ row' = [row EXCEPT ![r] = None]
  /\ revoking' = [revoking EXCEPT ![r] = {}]

\* Go on when the check holds, keeping the row read and the grants to revoke;
\* end the request when it does not.
ContinueKeeping(r, check, found, grants) ==
  /\ IF check
     THEN /\ todo' = [todo EXCEPT ![r] = Tail(todo[r])]
          /\ row' = [row EXCEPT ![r] = found]
          /\ revoking' = [revoking EXCEPT ![r] = grants]
          /\ UNCHANGED call
     ELSE Finish(r)
  /\ UNCHANGED rows

ContinueIf(r, check) == ContinueKeeping(r, check, row[r], revoking[r])

\* The ledger whose owner a request must be: the one it names, or the one of
\* the grant it read.
LedgerOf(r) == IF call[r].op = "revoke_owned" THEN row[r].ledger ELSE call[r].ledger

Begin(r) ==
  \E c \in Calls :
    /\ todo[r] = <<>>
    /\ call' = [call EXCEPT ![r] = c]
    /\ todo' = [todo EXCEPT ![r] = Plan[c.op]]
    /\ UNCHANGED <<rows, row, revoking>>

GetUser(r) == At(r, "user") /\ ContinueIf(r, call[r].user \in users)

GetLedger(r) == At(r, "ledger") /\ ContinueIf(r, call[r].ledger \in ledgers)

\* _get_owned_ledger and the owner checks of the grant use cases
GetOwner(r) == At(r, "owner") /\ ContinueIf(r, IsOwner(call[r].user, LedgerOf(r)))

\* set_ledger_owner: the active owner, which must be another user
GetOtherOwner(r) ==
  /\ At(r, "other_owner")
  /\ ContinueKeeping(r, ~ IsOwner(call[r].user, call[r].ledger), row[r], OwnersOf(call[r].ledger))

\* set_ledger_owner: the active grant of the user
GetActiveGrant(r) ==
  /\ At(r, "active_grant")
  /\ ContinueKeeping(r, TRUE, row[r],
       revoking[r] \cup {g \in Active(call[r].ledger) : grant[g].grantee = call[r].user})

\* Mutant: one more is admitted than the limit.
CountOwnedUpToLimit(r) ==
  /\ At(r, "owned")
  /\ ContinueIf(r, Cardinality(OwnedBy(call[r].user)) <= MaxLedgers)

CountOwned(r) ==
  /\ At(r, "owned")
  /\ ContinueIf(r, Cardinality(OwnedBy(call[r].user)) < MaxLedgers)

CountAccesses(r) ==
  /\ At(r, "accesses")
  /\ ContinueIf(r, Cardinality(AccessesTo(call[r].ledger)) < MaxAccesses)

\* The grant must be active; a ledger's owner may revoke a GUEST grant only.
GetGrant(r) ==
  LET g == call[r].grant
      c == call[r]
  IN  /\ At(r, "grant")
      /\ ContinueKeeping(r,
           /\ g \in Stored
           /\ grant[g].active
           /\ c.op # "revoke_grant" => grant[g].role = "GUEST"
           /\ c.op = "revoke_access" => grant[g].ledger = c.ledger,
           grant[g], {g})

GetAccess(r) == At(r, "access") /\ ContinueIf(r, row[r].grantee \in accesses)

--------------------------------------------------------------------------------
(* The write of a request *)

\* The grants after the given ones are revoked; one that is gone or revoked
\* already is left alone.
Revoked(grants) ==
  [g \in GrantIds |-> IF g \in grants \cap Stored THEN [grant[g] EXCEPT !.active = FALSE] ELSE grant[g]]

\* Mutant: the index on the active owner is missing.
OwnerIndexMissing(table, new) ==
  \A g \in GrantIds :
    table[g] # None /\ table[g].active /\ table[g].ledger = new.ledger => table[g].grantee # new.grantee

\* The UNIQUE indexes of ledger_grant admit an active grant in the table.  Its
\* triggers, which refuse an external access a second grant and the OWNER role,
\* have nothing to refuse: the access that is granted is always a new one.
IndexesAdmit(table, new) ==
  \A g \in GrantIds :
    table[g] # None /\ table[g].active /\ table[g].ledger = new.ledger =>
      table[g].grantee # new.grantee /\ ~ (table[g].role = "OWNER" /\ new.role = "OWNER")

\* Mutant: INSERT OR REPLACE under a uuid that may be taken.
ReplaceGrant(grants, new) ==
  /\ IndexesAdmit(Revoked(grants), new)
  /\ \E g \in GrantIds :
       /\ grant' = [Revoked(grants) EXCEPT ![g] = new]
       /\ used' = used \cup {g} \cup ({new.grantee, new.ledger} \ Users)

\* INSERT INTO ledger_grant under a fresh uuid, after the grants are revoked.
InsertGrant(grants, new) ==
  /\ IndexesAdmit(Revoked(grants), new)
  /\ \E g \in GrantIds \ used :
       /\ grant' = [Revoked(grants) EXCEPT ![g] = new]
       /\ used' = used \cup {g} \cup ({new.grantee, new.ledger} \ Users)

ActiveGrant(grantee, l, role) ==
  [grantee |-> grantee, ledger |-> l, role |-> role, active |-> TRUE]

CreateLedger(r) ==
  LET u == call[r].user
  IN  /\ At(r, "write") /\ call[r].op = "create_ledger"
      /\ u \in users
      /\ \E l \in Ledgers \ used :
           /\ ledgers' = ledgers \cup {l}
           /\ InsertGrant({}, ActiveGrant(u, l, "OWNER"))
      /\ Finish(r)
      /\ UNCHANGED <<users, accesses>>

DeleteLedger(r) ==
  LET l == call[r].ledger
  IN  /\ At(r, "write") /\ call[r].op = "delete_ledger"
      /\ ledgers' = ledgers \ {l}
      /\ grant' = Without({l}, {})
      /\ Finish(r)
      /\ UNCHANGED <<users, accesses, used>>

\* Mutant: foreign keys are not enforced.
SetOwnerUnreferenced(r) ==
  LET c == call[r]
  IN  /\ At(r, "write") /\ c.op = "set_owner"
      /\ InsertGrant(revoking[r], ActiveGrant(c.user, c.ledger, "OWNER"))
      /\ Finish(r)
      /\ UNCHANGED <<users, accesses, ledgers>>

SetOwner(r) ==
  LET c == call[r]
  IN  /\ At(r, "write") /\ c.op = "set_owner"
      /\ c.user \in users /\ c.ledger \in ledgers
      /\ InsertGrant(revoking[r], ActiveGrant(c.user, c.ledger, "OWNER"))
      /\ Finish(r)
      /\ UNCHANGED <<users, accesses, ledgers>>

RevokeGrant(r) ==
  /\ At(r, "write") /\ call[r].op \in {"revoke_grant", "revoke_access", "revoke_owned"}
  /\ grant' = Revoked(revoking[r])
  /\ Finish(r)
  /\ UNCHANGED <<users, accesses, ledgers, used>>

\* Mutant: the accesses are not counted once the write has begun.
CreateAccessUncounted(r) ==
  LET l == call[r].ledger
  IN  /\ At(r, "write") /\ call[r].op \in {"create_access", "create_access_totp"}
      /\ l \in ledgers
      /\ \E x \in Accesses \ used :
           /\ accesses' = accesses \cup {x}
           /\ InsertGrant({}, ActiveGrant(x, l, "GUEST"))
      /\ Finish(r)
      /\ UNCHANGED <<users, ledgers>>

\* Mutant: an access that exists is granted again.
CreateAccessAgain(r) ==
  LET l == call[r].ledger
  IN  /\ At(r, "write") /\ call[r].op \in {"create_access", "create_access_totp"}
      /\ call[r].op = "create_access_totp" => Cardinality(AccessesTo(l)) < MaxAccesses
      /\ l \in ledgers
      /\ \E x \in Accesses :
           /\ accesses' = accesses \cup {x}
           /\ InsertGrant({}, ActiveGrant(x, l, "GUEST"))
      /\ Finish(r)
      /\ UNCHANGED <<users, ledgers>>

\* With TOTP the accesses are counted inside the write.
CreateAccess(r) ==
  LET l == call[r].ledger
  IN  /\ At(r, "write") /\ call[r].op \in {"create_access", "create_access_totp"}
      /\ call[r].op = "create_access_totp" => Cardinality(AccessesTo(l)) < MaxAccesses
      /\ l \in ledgers
      /\ \E x \in Accesses \ used :
           /\ accesses' = accesses \cup {x}
           /\ InsertGrant({}, ActiveGrant(x, l, "GUEST"))
      /\ Finish(r)
      /\ UNCHANGED <<users, ledgers>>

\* Mutant: the user's ledgers stay.
DeleteUserOnly(r) ==
  LET u == call[r].user
  IN  /\ At(r, "write") /\ call[r].op = "delete_user"
      /\ users' = users \ {u}
      /\ grant' = Without({}, {u})
      /\ Finish(r)
      /\ UNCHANGED <<accesses, ledgers, used>>

\* The ledgers that the user owns when the DELETE runs go with the user.
DeleteUser(r) ==
  LET u == call[r].user
      owned == {grant[g].ledger : g \in OwnedBy(u)}
  IN  /\ At(r, "write") /\ call[r].op = "delete_user"
      /\ users' = users \ {u}
      /\ ledgers' = ledgers \ owned
      /\ grant' = Without(owned, {u})
      /\ Finish(r)
      /\ UNCHANGED <<accesses, used>>

\* A request ends without writing: a constraint or a check inside the write
\* refused it, the writer lock was not obtained, or the process stopped.
Fail(r) ==
  /\ todo[r] # <<>>
  /\ Finish(r)
  /\ UNCHANGED rows

--------------------------------------------------------------------------------
(* Commands of one statement, or that read nothing before they write *)

DeleteExternalAccess(x) ==
  /\ x \in accesses
  /\ accesses' = accesses \ {x}
  /\ grant' = Without({}, {x})
  /\ UNCHANGED <<users, ledgers, used, locals>>

\* Mutant: the accesses left are the grantees left.
RemoveInactiveGrantees ==
  \E gone \in SUBSET {g \in Stored : ~ grant[g].active} :
    LET left == [g \in GrantIds |-> IF g \in gone THEN None ELSE grant[g]]
    IN  /\ grant' = left
        /\ accesses' = {left[g].grantee : g \in {h \in GrantIds : left[h] # None}}
        /\ UNCHANGED <<users, ledgers, used, locals>>

\* remove_inactive_records: revoked grants of some age, then external accesses
\* without a grant.
RemoveInactive ==
  \E gone \in SUBSET {g \in Stored : ~ grant[g].active} :
    LET left == [g \in GrantIds |-> IF g \in gone THEN None ELSE grant[g]]
    IN  /\ grant' = left
        /\ accesses' = {x \in accesses : \E g \in GrantIds : left[g] # None /\ left[g].grantee = x}
        /\ UNCHANGED <<users, ledgers, used, locals>>

RequestStep(r) ==
  \/ Begin(r) \/ GetUser(r) \/ GetLedger(r) \/ GetOwner(r) \/ GetOtherOwner(r)
  \/ GetActiveGrant(r) \/ CountOwned(r) \/ CountAccesses(r) \/ GetGrant(r) \/ GetAccess(r)
  \/ CreateLedger(r) \/ DeleteLedger(r) \/ SetOwner(r) \/ RevokeGrant(r)
  \/ CreateAccess(r) \/ DeleteUser(r) \/ Fail(r)

Next ==
  \/ \E r \in Requests : RequestStep(r)
  \/ \E x \in Accesses : DeleteExternalAccess(x)
  \/ RemoveInactive

Spec == Init /\ [][Next]_vars

--------------------------------------------------------------------------------
(* Properties *)

\* Every variable keeps its type.
TypeOK ==
  /\ users \subseteq Users
  /\ accesses \subseteq Accesses
  /\ ledgers \subseteq Ledgers
  /\ grant \in [GrantIds -> Grant \cup {None}]
  /\ used \subseteq Accesses \cup Ledgers \cup GrantIds
  /\ todo \in [Requests -> Seq(Steps)]
  /\ call \in [Requests -> Call \cup {None}]
  /\ row \in [Requests -> Grant \cup {None}]
  /\ revoking \in [Requests -> SUBSET GrantIds]

\* docs/domain.md: a ledger has at most one active owner, and a grantee at most
\* one active grant for a ledger, although two transfers or a transfer and a
\* revocation may interleave.
OneActiveEach ==
  \A l \in Ledgers : \A g, h \in Active(l) :
    g # h => /\ grant[g].grantee # grant[h].grantee
             /\ (grant[g].role # "OWNER" \/ grant[h].role # "OWNER")

\* docs/domain.md: an owner is a user; an external access has the GUEST role, and
\* on one ledger only: no history of grants lets its token into another one.
AccessesAreGuests ==
  \A g \in Stored :
    /\ grant[g].role = "OWNER" => grant[g].grantee \in Users
    /\ grant[g].grantee \in Accesses =>
         \A h \in Stored : grant[h].grantee = grant[g].grantee => h = g

\* Every grant's grantee and ledger exist, whatever is deleted between the
\* checks of a request and its write.
GrantsRefer ==
  \A g \in Stored : grant[g].grantee \in users \cup accesses /\ grant[g].ledger \in ledgers

\* The requests past their count of the user's ledgers or the ledger's accesses.
Counted(r, step) == \A i \in DOMAIN todo[r] : todo[r][i] # step
AdmittedOwners(u) ==
  {r \in Requests : /\ todo[r] # <<>> /\ Counted(r, "owned")
                    /\ call[r].op \in {"create_ledger", "set_owner"} /\ call[r].user = u}
AdmittedAccesses(l) ==
  {r \in Requests : /\ todo[r] # <<>> /\ Counted(r, "accesses")
                    /\ call[r].op = "create_access" /\ call[r].ledger = l}

\* The ledgers of a user are counted before the write, so creations and transfers
\* that pass the count together may pass the limit; otherwise they keep to what
\* such a limit promises, and pass it by fewer ledgers than there are requests.
OwnerLimit(u) == INSTANCE AdmissionLimit WITH
  Things <- GrantIds, MaxStored <- MaxLedgers, stored <- OwnedBy(u), admitted <- AdmittedOwners(u)
OwnersImplementLimit ==
  /\ \A u \in Users : OwnerLimit(u)!Init
  /\ [][\A u \in Users : OwnerLimit(u)!Next]_vars

\* The same of a ledger's external accesses, where a creation that verifies a
\* TOTP code counts inside its write and adds nothing to the overshoot.
AccessLimit(l) == INSTANCE AdmissionLimit WITH
  Things <- GrantIds, MaxStored <- MaxAccesses, stored <- AccessesTo(l), admitted <- AdmittedAccesses(l)
AccessesImplementLimit ==
  /\ \A l \in Ledgers : AccessLimit(l)!Init
  /\ [][\A l \in Ledgers : AccessLimit(l)!Next]_vars

\* A ledger that has an owner keeps having one as long as it exists, unless the
\* operator revokes the owner's grant: a transfer hands it over in one step, a
\* deleted user takes the ledgers along, and an owner's request, whose checks
\* may be stale, revokes no owner.
OwnerKept ==
  [][\A l \in ledgers \cap ledgers' :
       OwnersOf(l) # {} /\ OwnersOf(l)' = {} =>
         \E r \in Requests : At(r, "write") /\ call[r].op = "revoke_grant" /\ call'[r] = None]_vars

\* A revoked grant never becomes active again, and a grant keeps its grantee,
\* ledger and role: the history that grant list shows is not rewritten.
HistoryKept ==
  [][\A g \in Stored :
       grant'[g] # None =>
         /\ grant'[g].active => grant[g].active
         /\ [grant'[g] EXCEPT !.active = TRUE] = [grant[g] EXCEPT !.active = TRUE]]_vars
================================================================================
