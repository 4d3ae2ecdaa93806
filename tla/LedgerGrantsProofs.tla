--------------------------- MODULE LedgerGrantsProofs --------------------------
(***************************************************************************)
(* Proofs about LedgerGrants: for any users, any number of requests and    *)
(* commands at a time and any calls, a ledger has one active owner and a   *)
(* grantee one active grant for it, and grants refer to rows that exist.   *)
(*                                                                         *)
(* RowsInv, about the rows alone, is the inductive invariant: what the     *)
(* requests remember of their reads is never trusted by a write, which is  *)
(* why no part of it mentions them.  That a ledger keeps an owner is       *)
(* different: a write revokes what its request has read, and RevokingKept  *)
(* says what that can be.                                                  *)
(***************************************************************************)
EXTENDS LedgerGrants, TLAPS

\* What is proved of one user and one ledger, whichever they are, holds of each.
CONSTANTS AnyUser, AnyLedger

RowTypes ==
  /\ users \subseteq Users
  /\ accesses \subseteq Accesses
  /\ ledgers \subseteq Ledgers
  /\ grant \in [GrantIds -> Grant \cup {None}]
  /\ used \subseteq Accesses \cup Ledgers \cup GrantIds

LocalTypes ==
  /\ todo \in [Requests -> Seq(Steps)]
  /\ call \in [Requests -> Call \cup {None}]
  /\ row \in [Requests -> Grant \cup {None}]
  /\ revoking \in [Requests -> SUBSET GrantIds]

\* The uuids of rows are used, so a fresh one refers to nothing.
RowsUsed == accesses \cup ledgers \cup Stored \subseteq used

RowsInv == RowTypes /\ RowsUsed /\ OneActiveEach /\ AccessesAreGuests /\ GrantsRefer

Inv == RowsInv /\ LocalTypes

\* Grants may go and be revoked, and do not change otherwise.
GrantsOnlyEnd ==
  /\ grant' \in [GrantIds -> Grant \cup {None}]
  /\ \A g \in GrantIds :
       grant'[g] # None =>
         /\ grant[g] # None
         /\ grant'[g].grantee = grant[g].grantee
         /\ grant'[g].ledger = grant[g].ledger
         /\ grant'[g].role = grant[g].role
         /\ grant'[g].active => grant[g].active

--------------------------------------------------------------------------------
(* What the writes do to the table of grants *)

LEMMA EndingKeepsUniqueness ==
  ASSUME OneActiveEach, AccessesAreGuests, GrantsOnlyEnd
  PROVE  OneActiveEach' /\ AccessesAreGuests'
<1>1. OneActiveEach'
  BY DEF OneActiveEach, GrantsOnlyEnd, Active, Stored
<1>2. AccessesAreGuests'
  BY DEF AccessesAreGuests, GrantsOnlyEnd, Stored
<1> QED BY <1>1, <1>2

LEMMA WithoutIsEnding ==
  ASSUME RowTypes, NEW L, NEW G, grant' = Without(L, G)
  PROVE  /\ GrantsOnlyEnd
         /\ \A g \in Stored' : grant'[g].ledger \notin L /\ grant'[g].grantee \notin G
         /\ \A g \in Stored' : g \in Stored /\ grant'[g] = grant[g]
  BY DEF RowTypes, Without, GrantsOnlyEnd, Stored

LEMMA RevokedType ==
  ASSUME RowTypes, NEW S
  PROVE  /\ Revoked(S) \in [GrantIds -> Grant \cup {None}]
         /\ \A g \in GrantIds :
              /\ Revoked(S)[g] # None <=> grant[g] # None
              /\ grant[g] # None =>
                   /\ Revoked(S)[g].grantee = grant[g].grantee
                   /\ Revoked(S)[g].ledger = grant[g].ledger
                   /\ Revoked(S)[g].role = grant[g].role
                   /\ Revoked(S)[g].active => grant[g].active
<1> SUFFICES ASSUME NEW g \in GrantIds
    PROVE  /\ Revoked(S)[g] \in Grant \cup {None}
           /\ Revoked(S)[g] # None <=> grant[g] # None
           /\ grant[g] # None =>
                /\ Revoked(S)[g].grantee = grant[g].grantee
                /\ Revoked(S)[g].ledger = grant[g].ledger
                /\ Revoked(S)[g].role = grant[g].role
                /\ Revoked(S)[g].active => grant[g].active
  BY DEF Revoked
<1>1. CASE grant[g] = None
  BY <1>1 DEF Revoked, Stored
<1>2. CASE grant[g] # None
  <2>1. grant[g] \in Grant
    BY <1>2 DEF RowTypes
  <2>2. [grant[g] EXCEPT !.active = FALSE] \in Grant
    BY <2>1 DEF Grant
  <2>3. [grant[g] EXCEPT !.active = FALSE] # None
    BY <2>2, ConstantsAssumption
  <2> QED BY <1>2, <2>1, <2>2, <2>3 DEF Revoked, Stored, Grant
<1> QED BY <1>1, <1>2

\* An insertion that the indexes admit keeps every row invariant, given that
\* the grantee and the ledger of the new grant exist then.
LEMMA InsertKeepsRows ==
  ASSUME RowsInv, NEW S, NEW new \in Grant, InsertGrant(S, new), new.active,
         users' = users, accesses \subseteq accesses', ledgers \subseteq ledgers',
         accesses' \subseteq Accesses, ledgers' \subseteq Ledgers,
         accesses' \subseteq accesses \cup {new.grantee}, ledgers' \subseteq ledgers \cup {new.ledger},
         new.grantee \in users' \cup accesses', new.ledger \in ledgers',
         new.role = "OWNER" => new.grantee \in users,
         new.grantee \in Accesses => new.grantee \notin used
  PROVE  RowsInv'
<1> USE DEF RowsInv
<1>1. PICK g \in GrantIds \ used :
        /\ grant' = [Revoked(S) EXCEPT ![g] = new]
        /\ used' = used \cup {g} \cup ({new.grantee, new.ledger} \ Users)
  BY DEF InsertGrant
<1>2. Revoked(S) \in [GrantIds -> Grant \cup {None}]
  BY RevokedType
<1>3. grant'[g] = new /\ \A h \in GrantIds : h # g => grant'[h] = Revoked(S)[h]
  BY <1>1, <1>2
<1>4. grant[g] = None
  BY <1>1 DEF RowsUsed, Stored
<1>5. Stored' = Stored \cup {g}
  BY <1>3, RevokedType, ConstantsAssumption DEF Stored
<1>6. RowTypes'
  BY <1>1, <1>2, ConstantsAssumption DEF RowTypes, Grant
<1>7. RowsUsed'
  <2>1. users \cap (Accesses \cup Ledgers) = {}
    BY ConstantsAssumption DEF RowTypes
  <2>2. new.ledger \in used'
    BY <1>1, ConstantsAssumption DEF Grant
  <2>3. accesses' \subseteq used'
    BY <1>1, ConstantsAssumption DEF RowsUsed
  <2> QED BY <1>1, <1>5, <2>2, <2>3 DEF RowsUsed
<1>8. OneActiveEach'
  <2> SUFFICES ASSUME NEW l \in Ledgers, NEW h \in Active(l)', NEW k \in Active(l)', h # k
      PROVE  /\ grant'[h].grantee # grant'[k].grantee
             /\ (grant'[h].role # "OWNER" \/ grant'[k].role # "OWNER")
    BY DEF OneActiveEach
  <2>1. h \in GrantIds /\ k \in GrantIds /\ grant'[h] # None /\ grant'[k] # None
    BY DEF Active, Stored
  <2>2. grant'[h].ledger = l /\ grant'[h].active /\ grant'[k].ledger = l /\ grant'[k].active
    BY DEF Active
  <2>3. IndexesAdmit(Revoked(S), new)
    BY DEF InsertGrant
  <2>4. CASE h = g
    BY <2>1, <2>2, <2>3, <2>4, <1>3 DEF IndexesAdmit
  <2>5. CASE k = g
    BY <2>1, <2>2, <2>3, <2>5, <1>3 DEF IndexesAdmit
  <2>6. CASE h # g /\ k # g
    <3>1. h \in Active(l) /\ k \in Active(l)
      BY <2>1, <2>2, <2>6, <1>3, RevokedType DEF Active, Stored
    <3>2. grant'[h].grantee = grant[h].grantee /\ grant'[k].grantee = grant[k].grantee
          /\ grant'[h].role = grant[h].role /\ grant'[k].role = grant[k].role
      BY <2>1, <2>6, <1>3, RevokedType
    <3> QED BY <3>1, <3>2 DEF OneActiveEach
  <2> QED BY <2>4, <2>5, <2>6
<1>9. AccessesAreGuests'
  <2>1. \A h \in Stored : h # g /\ grant'[h].grantee = grant[h].grantee /\ grant'[h].role = grant[h].role
    BY <1>3, <1>4, RevokedType DEF Stored
  <2>2. \A h \in Stored : grant[h].grantee \in Accesses => grant[h].grantee # new.grantee
    BY ConstantsAssumption DEF GrantsRefer, RowTypes, RowsUsed
  <2> QED BY <1>3, <1>5, <2>1, <2>2, ConstantsAssumption DEF AccessesAreGuests, RowTypes, Grant
<1>10. GrantsRefer'
  <2>1. \A h \in Stored : h # g /\ grant'[h].grantee = grant[h].grantee /\ grant'[h].ledger = grant[h].ledger
    BY <1>3, <1>4, RevokedType DEF Stored
  <2> QED BY <1>3, <1>5, <2>1 DEF GrantsRefer
<1> QED BY <1>6, <1>7, <1>8, <1>9, <1>10

--------------------------------------------------------------------------------
(* Each write keeps the row invariant *)

LEMMA ActiveGrantType ==
  ASSUME NEW grantee \in Users \cup Accesses, NEW l \in Ledgers, NEW r \in {"OWNER", "GUEST"}
  PROVE  /\ ActiveGrant(grantee, l, r) \in Grant
         /\ ActiveGrant(grantee, l, r).active
         /\ ActiveGrant(grantee, l, r).grantee = grantee
         /\ ActiveGrant(grantee, l, r).ledger = l
         /\ ActiveGrant(grantee, l, r).role = r
  BY DEF ActiveGrant, Grant

LEMMA CreateLedgerKeepsRows ==
  ASSUME RowsInv, NEW r \in Requests, CreateLedger(r)
  PROVE  RowsInv'
<1> DEFINE u == call[r].user
<1>1. PICK l \in Ledgers \ used :
        ledgers' = ledgers \cup {l} /\ InsertGrant({}, ActiveGrant(u, l, "OWNER"))
  BY DEF CreateLedger
<1>2. u \in users /\ users' = users /\ accesses' = accesses
  BY DEF CreateLedger
<1>3. u \in Users /\ users \subseteq Users /\ accesses \subseteq Accesses /\ ledgers \subseteq Ledgers
  BY <1>2 DEF RowsInv, RowTypes
<1> DEFINE new == ActiveGrant(u, l, "OWNER")
<1>4. new \in Grant /\ new.active /\ new.grantee = u /\ new.ledger = l /\ new.role = "OWNER"
  BY <1>3, ActiveGrantType
<1>5. u \notin Accesses
  BY <1>3, ConstantsAssumption
<1> HIDE DEF new, u
<1>6. InsertGrant({}, new)
  BY <1>1 DEF new
<1> QED
  BY <1>1, <1>2, <1>3, <1>4, <1>5, <1>6, InsertKeepsRows

LEMMA SetOwnerKeepsRows ==
  ASSUME RowsInv, NEW r \in Requests, SetOwner(r)
  PROVE  RowsInv'
<1> DEFINE u == call[r].user
           l == call[r].ledger
           new == ActiveGrant(u, l, "OWNER")
<1>1. /\ u \in users /\ l \in ledgers /\ InsertGrant(revoking[r], new)
      /\ users' = users /\ accesses' = accesses /\ ledgers' = ledgers
  BY DEF SetOwner
<1>2. users \subseteq Users /\ accesses \subseteq Accesses /\ ledgers \subseteq Ledgers
  BY DEF RowsInv, RowTypes
<1>3. new \in Grant /\ new.active /\ new.grantee = u /\ new.ledger = l /\ new.role = "OWNER"
  BY <1>1, <1>2, ActiveGrantType
<1>4. u \notin Accesses
  BY <1>1, <1>2, ConstantsAssumption
<1> HIDE DEF new, u, l
<1> QED
  BY <1>1, <1>2, <1>3, <1>4, InsertKeepsRows

LEMMA CreateAccessKeepsRows ==
  ASSUME RowsInv, NEW r \in Requests, CreateAccess(r)
  PROVE  RowsInv'
<1> DEFINE l == call[r].ledger
<1>1. PICK x \in Accesses \ used :
        accesses' = accesses \cup {x} /\ InsertGrant({}, ActiveGrant(x, l, "GUEST"))
  BY DEF CreateAccess
<1>2. l \in ledgers /\ users' = users /\ ledgers' = ledgers
  BY DEF CreateAccess
<1>3. users \subseteq Users /\ accesses \subseteq Accesses /\ ledgers \subseteq Ledgers
  BY DEF RowsInv, RowTypes
<1> DEFINE new == ActiveGrant(x, l, "GUEST")
<1>4. new \in Grant /\ new.active /\ new.grantee = x /\ new.ledger = l /\ new.role = "GUEST"
  BY <1>1, <1>2, <1>3, ActiveGrantType
<1> HIDE DEF new, l
<1>5. InsertGrant({}, new)
  BY <1>1 DEF new
<1> QED
  BY <1>1, <1>2, <1>3, <1>4, <1>5, InsertKeepsRows

LEMMA WithoutKeepsRows ==
  ASSUME RowsInv, NEW L, NEW G, grant' = Without(L, G),
         users' \subseteq users, accesses' \subseteq accesses, ledgers' \subseteq ledgers, used' = used,
         ledgers \ ledgers' \subseteq L,
         (users \cup accesses) \ (users' \cup accesses') \subseteq G
  PROVE  RowsInv'
<1>1. /\ GrantsOnlyEnd
      /\ \A g \in Stored' : grant'[g].ledger \notin L /\ grant'[g].grantee \notin G
      /\ \A g \in Stored' : g \in Stored /\ grant'[g] = grant[g]
  BY WithoutIsEnding DEF RowsInv
<1>2. RowTypes'
  BY <1>1 DEF RowsInv, RowTypes, GrantsOnlyEnd
<1>3. RowsUsed'
  BY <1>1 DEF RowsInv, RowsUsed
<1>4. OneActiveEach' /\ AccessesAreGuests'
  BY <1>1, EndingKeepsUniqueness DEF RowsInv
<1>5. GrantsRefer'
  BY <1>1 DEF RowsInv, GrantsRefer
<1> QED BY <1>2, <1>3, <1>4, <1>5 DEF RowsInv

LEMMA RevokeKeepsRows ==
  ASSUME RowsInv, NEW S, grant' = Revoked(S), UNCHANGED <<users, accesses, ledgers, used>>
  PROVE  RowsInv'
<1>1. GrantsOnlyEnd
  BY RevokedType DEF GrantsOnlyEnd, RowsInv
<1>2. Stored' = Stored
  BY RevokedType DEF Stored, RowsInv
<1>3. RowTypes' /\ RowsUsed'
  BY <1>1, <1>2 DEF RowsInv, RowTypes, RowsUsed, GrantsOnlyEnd
<1>4. OneActiveEach' /\ AccessesAreGuests'
  BY <1>1, EndingKeepsUniqueness DEF RowsInv
<1>5. GrantsRefer'
  BY <1>1, <1>2 DEF RowsInv, GrantsRefer, GrantsOnlyEnd, Stored
<1> QED BY <1>3, <1>4, <1>5 DEF RowsInv

LEMMA RemoveInactiveKeepsRows ==
  ASSUME RowsInv, RemoveInactive
  PROVE  RowsInv'
<1>1. PICK gone \in SUBSET {g \in Stored : ~ grant[g].active} :
        /\ grant' = [g \in GrantIds |-> IF g \in gone THEN None ELSE grant[g]]
        /\ accesses' = {x \in accesses : \E g \in GrantIds : grant'[g] # None /\ grant'[g].grantee = x}
        /\ UNCHANGED <<users, ledgers, used>>
  BY DEF RemoveInactive
<1>2. GrantsOnlyEnd
  BY <1>1 DEF GrantsOnlyEnd, RowsInv, RowTypes
<1>3. \A g \in Stored' : g \in Stored /\ grant'[g] = grant[g]
  BY <1>1 DEF Stored
<1>4. RowTypes'
  BY <1>1, <1>2 DEF RowsInv, RowTypes, GrantsOnlyEnd
<1>5. RowsUsed'
  BY <1>1, <1>3 DEF RowsInv, RowsUsed
<1>6. OneActiveEach' /\ AccessesAreGuests'
  BY <1>2, EndingKeepsUniqueness DEF RowsInv
<1>7. GrantsRefer'
  BY <1>1, <1>3 DEF RowsInv, GrantsRefer, Stored
<1> QED BY <1>4, <1>5, <1>6, <1>7 DEF RowsInv

LEMMA UnchangedRows ==
  ASSUME RowsInv, UNCHANGED rows
  PROVE  RowsInv'
  BY DEF RowsInv, RowTypes, RowsUsed, OneActiveEach, AccessesAreGuests, GrantsRefer, Active, Stored, rows

LEMMA StepKeepsRows ==
  ASSUME RowsInv, [Next]_vars
  PROVE  RowsInv'
<1>1. CASE \E r \in Requests : RequestStep(r)
  <2>1. PICK r \in Requests : RequestStep(r)
    BY <1>1
  <2>2. CASE Begin(r)
    BY <2>2, UnchangedRows DEF Begin
  <2>3. CASE GetUser(r) \/ GetLedger(r) \/ GetOwner(r) \/ GetOtherOwner(r) \/ GetActiveGrant(r)
             \/ CountOwned(r) \/ CountAccesses(r) \/ GetGrant(r) \/ GetAccess(r)
    <3>1. UNCHANGED rows
      BY <2>3 DEF GetUser, GetLedger, GetOwner, GetOtherOwner, GetActiveGrant, CountOwned,
                  CountAccesses, GetGrant, GetAccess, ContinueIf, ContinueKeeping
    <3> QED BY <3>1, UnchangedRows
  <2>4. CASE CreateLedger(r)
    BY <2>4, CreateLedgerKeepsRows
  <2>5. CASE DeleteLedger(r)
    BY <2>5, WithoutKeepsRows DEF DeleteLedger
  <2>6. CASE SetOwner(r)
    BY <2>6, SetOwnerKeepsRows
  <2>7. CASE RevokeGrant(r)
    BY <2>7, RevokeKeepsRows DEF RevokeGrant
  <2>8. CASE CreateAccess(r)
    BY <2>8, CreateAccessKeepsRows
  <2>9. CASE DeleteUser(r)
    BY <2>9, WithoutKeepsRows DEF DeleteUser
  <2>10. CASE Fail(r)
    BY <2>10, UnchangedRows DEF Fail
  <2> QED
    BY <2>1, <2>2, <2>3, <2>4, <2>5, <2>6, <2>7, <2>8, <2>9, <2>10 DEF RequestStep
<1>2. CASE \E x \in Accesses : DeleteExternalAccess(x)
  BY <1>2, WithoutKeepsRows DEF DeleteExternalAccess
<1>3. CASE RemoveInactive
  BY <1>3, RemoveInactiveKeepsRows
<1>4. CASE UNCHANGED vars
  BY <1>4, UnchangedRows DEF vars, rows
<1> QED BY <1>1, <1>2, <1>3, <1>4 DEF Next

--------------------------------------------------------------------------------
(* What a request keeps has its type *)

LEMMA PlanSteps == \A op \in Operations : Plan[op] \in Seq(Steps)
<1>1. /\ Plan["create_ledger"] \in Seq(Steps)
      /\ Plan["delete_ledger"] \in Seq(Steps)
      /\ Plan["set_owner"] \in Seq(Steps)
      /\ Plan["revoke_grant"] \in Seq(Steps)
      /\ Plan["create_access"] \in Seq(Steps)
      /\ Plan["create_access_totp"] \in Seq(Steps)
      /\ Plan["revoke_access"] \in Seq(Steps)
      /\ Plan["revoke_owned"] \in Seq(Steps)
      /\ Plan["delete_user"] \in Seq(Steps)
  BY DEF Plan, Steps
<1>2. Operations = {"create_ledger", "delete_ledger", "set_owner", "revoke_grant", "create_access",
                    "create_access_totp", "revoke_access", "revoke_owned", "delete_user"}
  BY DEF Operations, Plan
<1> QED BY <1>1, <1>2

LEMMA FinishTypes ==
  ASSUME LocalTypes, NEW r \in Requests, Finish(r)
  PROVE  LocalTypes'
<1>1. <<>> \in Seq(Steps)
  OBVIOUS
<1> QED BY <1>1 DEF LocalTypes, Finish

LEMMA ContinueTypes ==
  ASSUME LocalTypes, NEW r \in Requests, todo[r] # <<>>, NEW check, NEW found, NEW S,
         check => found \in Grant \cup {None} /\ S \in SUBSET GrantIds,
         ContinueKeeping(r, check, found, S)
  PROVE  LocalTypes'
<1>1. CASE Finish(r)
  BY <1>1, FinishTypes
<1>2. CASE ~ Finish(r)
  <2>1. Tail(todo[r]) \in Seq(Steps)
    BY DEF LocalTypes
  <2>2. /\ check
        /\ todo' = [todo EXCEPT ![r] = Tail(todo[r])]
        /\ row' = [row EXCEPT ![r] = found]
        /\ revoking' = [revoking EXCEPT ![r] = S]
        /\ call' = call
    BY <1>2 DEF ContinueKeeping
  <2> QED BY <2>1, <2>2 DEF LocalTypes
<1> QED BY <1>1, <1>2

LEMMA StepKeepsLocalTypes ==
  ASSUME RowsInv, LocalTypes, [Next]_vars
  PROVE  LocalTypes'
<1>1. CASE \E r \in Requests : RequestStep(r)
  <2>1. PICK r \in Requests : RequestStep(r)
    BY <1>1
  <2>2. row[r] \in Grant \cup {None} /\ revoking[r] \in SUBSET GrantIds
    BY DEF LocalTypes
  <2>3. CASE Begin(r)
    <3>1. PICK c \in Call :
            /\ call' = [call EXCEPT ![r] = c]
            /\ todo' = [todo EXCEPT ![r] = Plan[c.op]]
            /\ row' = row /\ revoking' = revoking
      BY <2>3, ConstantsAssumption DEF Begin
    <3>2. Plan[c.op] \in Seq(Steps)
      BY PlanSteps DEF Call
    <3> QED BY <3>1, <3>2 DEF LocalTypes
  <2>4. CASE GetUser(r) \/ GetLedger(r) \/ GetOwner(r) \/ CountOwned(r) \/ CountAccesses(r) \/ GetAccess(r)
    <3>1. PICK check : todo[r] # <<>> /\ ContinueKeeping(r, check, row[r], revoking[r])
      BY <2>4 DEF GetUser, GetLedger, GetOwner, CountOwned, CountAccesses, GetAccess, ContinueIf, At
    <3> QED BY <2>2, <3>1, ContinueTypes
  <2>5. CASE GetOtherOwner(r)
    <3>1. OwnersOf(call[r].ledger) \in SUBSET GrantIds
      BY DEF OwnersOf, Active, Stored
    <3>2. PICK check : todo[r] # <<>> /\ ContinueKeeping(r, check, row[r], OwnersOf(call[r].ledger))
      BY <2>5 DEF GetOtherOwner, At
    <3> QED BY <2>2, <3>1, <3>2, ContinueTypes
  <2>6. CASE GetActiveGrant(r)
    <3> DEFINE S == revoking[r] \cup {g \in Active(call[r].ledger) : grant[g].grantee = call[r].user}
    <3>1. S \in SUBSET GrantIds
      BY <2>2 DEF Active, Stored
    <3>2. todo[r] # <<>> /\ ContinueKeeping(r, TRUE, row[r], S)
      BY <2>6 DEF GetActiveGrant, At
    <3> HIDE DEF S
    <3> QED BY <2>2, <3>1, <3>2, ContinueTypes
  <2>7. CASE GetGrant(r)
    <3> DEFINE g == call[r].grant
               check == /\ g \in Stored
                        /\ grant[g].active
                        /\ call[r].op # "revoke_grant" => grant[g].role = "GUEST"
                        /\ call[r].op = "revoke_access" => grant[g].ledger = call[r].ledger
    <3>1. todo[r] # <<>> /\ ContinueKeeping(r, check, grant[g], {g})
      BY <2>7 DEF GetGrant, At
    <3>2. check => grant[g] \in Grant \cup {None} /\ {g} \in SUBSET GrantIds
      BY DEF Stored, RowsInv, RowTypes
    <3> HIDE DEF check, g
    <3> QED BY <3>1, <3>2, ContinueTypes
  <2>8. CASE CreateLedger(r) \/ DeleteLedger(r) \/ SetOwner(r) \/ RevokeGrant(r)
             \/ CreateAccess(r) \/ DeleteUser(r) \/ Fail(r)
    <3>1. Finish(r)
      BY <2>8 DEF CreateLedger, DeleteLedger, SetOwner, RevokeGrant, CreateAccess, DeleteUser, Fail
    <3> QED BY <3>1, FinishTypes
  <2> QED
    BY <2>1, <2>3, <2>4, <2>5, <2>6, <2>7, <2>8 DEF RequestStep
<1>2. CASE UNCHANGED locals
  BY <1>2 DEF LocalTypes, locals
<1> QED
  BY <1>1, <1>2 DEF Next, DeleteExternalAccess, RemoveInactive, vars, locals

--------------------------------------------------------------------------------
(* The history of grants *)

\* A uuid that was used names the grant it named before the step, active only if
\* it was, or none.
HistoryStep ==
  /\ used \subseteq used'
  /\ \A g \in GrantIds \cap used : grant'[g] # None =>
       /\ grant[g] # None
       /\ grant'[g].grantee = grant[g].grantee
       /\ grant'[g].ledger = grant[g].ledger
       /\ grant'[g].role = grant[g].role
       /\ grant'[g].active => grant[g].active

LEMMA EndingKeepsHistory ==
  ASSUME GrantsOnlyEnd, used' = used
  PROVE  HistoryStep
  BY DEF GrantsOnlyEnd, HistoryStep

LEMMA InsertKeepsHistory ==
  ASSUME RowsInv, NEW S, NEW new, InsertGrant(S, new)
  PROVE  HistoryStep
<1>1. PICK g \in GrantIds \ used :
        /\ grant' = [Revoked(S) EXCEPT ![g] = new]
        /\ used \subseteq used'
  BY DEF InsertGrant
<1>2. \A h \in GrantIds \cap used : grant'[h] = Revoked(S)[h]
  BY <1>1, RevokedType DEF RowsInv
<1> QED BY <1>1, <1>2, RevokedType DEF RowsInv, HistoryStep

LEMMA NextKeepsHistory ==
  ASSUME RowsInv, Next
  PROVE  HistoryStep
<1>1. ASSUME NEW r \in Requests, CreateLedger(r) \/ SetOwner(r) \/ CreateAccess(r)
      PROVE  HistoryStep
  BY <1>1, InsertKeepsHistory DEF CreateLedger, SetOwner, CreateAccess
<1>2. ASSUME NEW r \in Requests, DeleteLedger(r) \/ DeleteUser(r)
      PROVE  HistoryStep
  <2>1. PICK L, G : grant' = Without(L, G)
    BY <1>2 DEF DeleteLedger, DeleteUser
  <2>2. used' = used
    BY <1>2 DEF DeleteLedger, DeleteUser
  <2> QED BY <2>1, <2>2, WithoutIsEnding, EndingKeepsHistory DEF RowsInv
<1>3. ASSUME NEW r \in Requests, RevokeGrant(r)
      PROVE  HistoryStep
  BY <1>3, RevokedType, EndingKeepsHistory DEF RevokeGrant, RowsInv, GrantsOnlyEnd
<1>4. ASSUME NEW r \in Requests,
             Begin(r) \/ GetUser(r) \/ GetLedger(r) \/ GetOwner(r) \/ GetOtherOwner(r)
             \/ GetActiveGrant(r) \/ CountOwned(r) \/ CountAccesses(r) \/ GetGrant(r)
             \/ GetAccess(r) \/ Fail(r)
      PROVE  HistoryStep
  <2>1. UNCHANGED rows
    BY <1>4 DEF Begin, GetUser, GetLedger, GetOwner, GetOtherOwner, GetActiveGrant, CountOwned,
                CountAccesses, GetGrant, GetAccess, Fail, ContinueIf, ContinueKeeping
  <2> QED BY <2>1 DEF rows, HistoryStep
<1>5. ASSUME NEW x \in Accesses, DeleteExternalAccess(x)
      PROVE  HistoryStep
  BY <1>5, WithoutIsEnding, EndingKeepsHistory DEF DeleteExternalAccess, RowsInv
<1>6. CASE RemoveInactive
  BY <1>6 DEF RemoveInactive, HistoryStep
<1> QED
  BY <1>1, <1>2, <1>3, <1>4, <1>5, <1>6 DEF Next, RequestStep

--------------------------------------------------------------------------------
(* What a request is to revoke *)

\* The steps of a transfer alone, and that steps end with their one write.
Transfers(steps) == \E i \in 1 .. Len(steps) : steps[i] \in {"other_owner", "active_grant"}
EndsInWrite(steps) ==
  steps # <<>> =>
    /\ steps[Len(steps)] = "write"
    /\ \A i \in 1 .. Len(steps) : steps[i] = "write" => i = Len(steps)

\* Only a transfer looks for the owner and the grants of the new one, and a
\* request ends with its write.
PlanKept ==
  \A r \in Requests :
    EndsInWrite(todo[r]) /\ (Transfers(todo[r]) => call[r].op = "set_owner")

\* A request revokes a guest's grant, one that the operator named, or, in a
\* transfer, one for the ledger transferred.
MayRevoke(r, g) ==
  /\ g \in GrantIds \cap used
  /\ grant[g] # None =>
       \/ grant[g].role = "GUEST"
       \/ call[r].op = "revoke_grant"
       \/ call[r].op = "set_owner" /\ grant[g].ledger = call[r].ledger

RevokingKept ==
  \A r \in Requests :
    /\ todo[r] = <<>> => revoking[r] = {}
    /\ \A g \in revoking[r] : MayRevoke(r, g)

LEMMA NoStepsLeft == ~ Transfers(<<>>) /\ EndsInWrite(<<>>)
  BY DEF Transfers, EndsInWrite

LEMMA HeadTransfers ==
  ASSUME NEW s \in Seq(Steps), s # <<>>, Head(s) \in {"other_owner", "active_grant"}
  PROVE  Transfers(s)
<1>1. 1 \in 1 .. Len(s) /\ Head(s) = s[1]
  OBVIOUS
<1> QED BY <1>1 DEF Transfers

LEMMA TailSteps ==
  ASSUME NEW s \in Seq(Steps), s # <<>>, Head(s) # "write", EndsInWrite(s)
  PROVE  Tail(s) # <<>> /\ EndsInWrite(Tail(s)) /\ (Transfers(Tail(s)) => Transfers(s))
<1> DEFINE t == Tail(s)
<1>1. /\ t \in Seq(Steps) /\ Len(t) = Len(s) - 1 /\ Len(s) \in Nat
      /\ \A i \in 1 .. Len(t) : i + 1 \in 1 .. Len(s) /\ t[i] = s[i + 1]
  OBVIOUS
<1>2. s[Len(s)] = "write" /\ Head(s) = s[1]
  BY DEF EndsInWrite
<1> HIDE DEF t
<1>6. Len(s) > 1
  BY <1>1, <1>2
<1>7. Len(t) \in 1 .. Len(t) /\ t # <<>>
  BY <1>1, <1>6
<1>8. t[Len(t)] = "write"
  BY <1>1, <1>2, <1>7
<1>3. ASSUME NEW i \in 1 .. Len(t), t[i] = "write"
      PROVE  i = Len(t)
  <2>1. i + 1 \in 1 .. Len(s) /\ s[i + 1] = "write"
    BY <1>1, <1>3
  <2>2. i + 1 = Len(s)
    BY <2>1 DEF EndsInWrite
  <2> QED BY <1>1, <2>2
<1>4. EndsInWrite(t)
  BY <1>7, <1>8, <1>3 DEF EndsInWrite
<1>5. Transfers(t) => Transfers(s)
  BY <1>1 DEF Transfers
<1> QED BY <1>4, <1>5, <1>7 DEF t

LEMMA PlanShape ==
  \A op \in Operations : EndsInWrite(Plan[op]) /\ (Transfers(Plan[op]) => op = "set_owner")
<1>1. Operations = {"create_ledger", "delete_ledger", "set_owner", "revoke_grant", "create_access",
                    "create_access_totp", "revoke_access", "revoke_owned", "delete_user"}
  BY DEF Operations, Plan
<1>2. EndsInWrite(Plan["create_ledger"]) /\ ~ Transfers(Plan["create_ledger"])
  <2> DEFINE p == Plan["create_ledger"]
  <2>1. Len(p) = 3 /\ p[1] = "user" /\ p[2] = "owned" /\ p[3] = "write"
    BY DEF Plan
  <2> HIDE DEF p
  <2>2. EndsInWrite(p) /\ ~ Transfers(p)
    BY <2>1 DEF Transfers, EndsInWrite
  <2> QED BY <2>2 DEF p
<1>3. EndsInWrite(Plan["delete_ledger"]) /\ ~ Transfers(Plan["delete_ledger"])
  <2> DEFINE p == Plan["delete_ledger"]
  <2>1. Len(p) = 3 /\ p[1] = "owner" /\ p[2] = "ledger" /\ p[3] = "write"
    BY DEF Plan
  <2> HIDE DEF p
  <2>2. EndsInWrite(p) /\ ~ Transfers(p)
    BY <2>1 DEF Transfers, EndsInWrite
  <2> QED BY <2>2 DEF p
<1>4. EndsInWrite(Plan["set_owner"])
  <2> DEFINE p == Plan["set_owner"]
  <2>1. Len(p) = 6 /\ p[1] = "user" /\ p[2] = "ledger" /\ p[3] = "other_owner" /\ p[4] = "owned" /\ p[5] = "active_grant"
      /\ p[6] = "write"
    BY DEF Plan
  <2> HIDE DEF p
  <2>2. EndsInWrite(p)
    BY <2>1 DEF Transfers, EndsInWrite
  <2> QED BY <2>2 DEF p
<1>5. EndsInWrite(Plan["revoke_grant"]) /\ ~ Transfers(Plan["revoke_grant"])
  <2> DEFINE p == Plan["revoke_grant"]
  <2>1. Len(p) = 2 /\ p[1] = "grant" /\ p[2] = "write"
    BY DEF Plan
  <2> HIDE DEF p
  <2>2. EndsInWrite(p) /\ ~ Transfers(p)
    BY <2>1 DEF Transfers, EndsInWrite
  <2> QED BY <2>2 DEF p
<1>6. EndsInWrite(Plan["create_access"]) /\ ~ Transfers(Plan["create_access"])
  <2> DEFINE p == Plan["create_access"]
  <2>1. Len(p) = 3 /\ p[1] = "owner" /\ p[2] = "accesses" /\ p[3] = "write"
    BY DEF Plan
  <2> HIDE DEF p
  <2>2. EndsInWrite(p) /\ ~ Transfers(p)
    BY <2>1 DEF Transfers, EndsInWrite
  <2> QED BY <2>2 DEF p
<1>7. EndsInWrite(Plan["create_access_totp"]) /\ ~ Transfers(Plan["create_access_totp"])
  <2> DEFINE p == Plan["create_access_totp"]
  <2>1. Len(p) = 2 /\ p[1] = "owner" /\ p[2] = "write"
    BY DEF Plan
  <2> HIDE DEF p
  <2>2. EndsInWrite(p) /\ ~ Transfers(p)
    BY <2>1 DEF Transfers, EndsInWrite
  <2> QED BY <2>2 DEF p
<1>8. EndsInWrite(Plan["revoke_access"]) /\ ~ Transfers(Plan["revoke_access"])
  <2> DEFINE p == Plan["revoke_access"]
  <2>1. Len(p) = 4 /\ p[1] = "owner" /\ p[2] = "grant" /\ p[3] = "access" /\ p[4] = "write"
    BY DEF Plan
  <2> HIDE DEF p
  <2>2. EndsInWrite(p) /\ ~ Transfers(p)
    BY <2>1 DEF Transfers, EndsInWrite
  <2> QED BY <2>2 DEF p
<1>9. EndsInWrite(Plan["revoke_owned"]) /\ ~ Transfers(Plan["revoke_owned"])
  <2> DEFINE p == Plan["revoke_owned"]
  <2>1. Len(p) = 3 /\ p[1] = "grant" /\ p[2] = "owner" /\ p[3] = "write"
    BY DEF Plan
  <2> HIDE DEF p
  <2>2. EndsInWrite(p) /\ ~ Transfers(p)
    BY <2>1 DEF Transfers, EndsInWrite
  <2> QED BY <2>2 DEF p
<1>10. EndsInWrite(Plan["delete_user"]) /\ ~ Transfers(Plan["delete_user"])
  <2> DEFINE p == Plan["delete_user"]
  <2>1. Len(p) = 2 /\ p[1] = "user" /\ p[2] = "write"
    BY DEF Plan
  <2> HIDE DEF p
  <2>2. EndsInWrite(p) /\ ~ Transfers(p)
    BY <2>1 DEF Transfers, EndsInWrite
  <2> QED BY <2>2 DEF p
<1> QED BY <1>1, <1>2, <1>3, <1>4, <1>5, <1>6, <1>7, <1>8, <1>9, <1>10

\* A request whose call stays may revoke after a step what it might before.
LEMMA HistoryKeepsMay ==
  ASSUME HistoryStep, NEW r \in Requests, call'[r] = call[r], NEW g, MayRevoke(r, g)
  PROVE  MayRevoke(r, g)'
  BY DEF HistoryStep, MayRevoke

\* The step of one request leaves the others alone.
OthersAlone(r) ==
  \A q \in Requests : q # r =>
    todo'[q] = todo[q] /\ call'[q] = call[q] /\ revoking'[q] = revoking[q]

\* It is enough to look at the request that takes the step.
LEMMA OneRequestKeepsRevoking ==
  ASSUME PlanKept, RevokingKept, HistoryStep, NEW r \in Requests, OthersAlone(r),
         EndsInWrite(todo'[r]), Transfers(todo'[r]) => call'[r].op = "set_owner",
         todo'[r] = <<>> => revoking'[r] = {},
         \A g \in revoking'[r] : MayRevoke(r, g)'
  PROVE  PlanKept' /\ RevokingKept'
<1>1. PlanKept'
  BY DEF PlanKept, OthersAlone
<1>2. RevokingKept'
  BY HistoryKeepsMay DEF RevokingKept, OthersAlone
<1> QED BY <1>1, <1>2

LEMMA FinishKeepsRevoking ==
  ASSUME LocalTypes, PlanKept, RevokingKept, HistoryStep, NEW r \in Requests, Finish(r)
  PROVE  PlanKept' /\ RevokingKept'
<1>1. OthersAlone(r) /\ todo'[r] = <<>> /\ revoking'[r] = {}
  BY DEF LocalTypes, Finish, OthersAlone
<1> QED BY <1>1, NoStepsLeft, OneRequestKeepsRevoking

LEMMA ContinueKeepsRevoking ==
  ASSUME LocalTypes, PlanKept, RevokingKept, HistoryStep, NEW r \in Requests, todo[r] # <<>>,
         Head(todo[r]) # "write", NEW check, NEW found, NEW S, ContinueKeeping(r, check, found, S),
         check => \A g \in S : MayRevoke(r, g)
  PROVE  PlanKept' /\ RevokingKept'
<1>1. CASE Finish(r)
  BY <1>1, FinishKeepsRevoking
<1>2. CASE ~ Finish(r)
  <2>1. /\ check
        /\ todo' = [todo EXCEPT ![r] = Tail(todo[r])]
        /\ revoking' = [revoking EXCEPT ![r] = S]
        /\ call' = call
    BY <1>2 DEF ContinueKeeping
  <2>2. todo[r] \in Seq(Steps) /\ todo'[r] = Tail(todo[r]) /\ revoking'[r] = S /\ OthersAlone(r)
    BY <2>1 DEF LocalTypes, OthersAlone
  <2>3. todo'[r] # <<>> /\ EndsInWrite(todo'[r]) /\ (Transfers(todo'[r]) => Transfers(todo[r]))
    BY <2>2, TailSteps DEF PlanKept
  <2>4. Transfers(todo'[r]) => call'[r].op = "set_owner"
    BY <2>1, <2>3 DEF PlanKept
  <2>5. \A g \in revoking'[r] : MayRevoke(r, g)'
    BY <2>1, <2>2, HistoryKeepsMay
  <2> QED BY <2>2, <2>3, <2>4, <2>5, OneRequestKeepsRevoking
<1> QED BY <1>1, <1>2

LEMMA BeginKeepsRevoking ==
  ASSUME LocalTypes, PlanKept, RevokingKept, HistoryStep, NEW r \in Requests, Begin(r)
  PROVE  PlanKept' /\ RevokingKept'
<1>1. PICK c \in Call :
        /\ todo[r] = <<>>
        /\ call' = [call EXCEPT ![r] = c]
        /\ todo' = [todo EXCEPT ![r] = Plan[c.op]]
        /\ revoking' = revoking
  BY ConstantsAssumption DEF Begin
<1>2. c.op \in Operations
  BY DEF Call
<1>3. call'[r] = c /\ todo'[r] = Plan[c.op] /\ revoking'[r] = {} /\ OthersAlone(r)
  BY <1>1 DEF LocalTypes, OthersAlone, RevokingKept
<1>4. EndsInWrite(todo'[r]) /\ (Transfers(todo'[r]) => call'[r].op = "set_owner")
  BY <1>2, <1>3, PlanShape
<1> QED BY <1>3, <1>4, OneRequestKeepsRevoking

LEMMA NextKeepsRevoking ==
  ASSUME Inv, PlanKept, RevokingKept, Next
  PROVE  PlanKept' /\ RevokingKept'
<1>1. HistoryStep
  BY NextKeepsHistory DEF Inv
<1> USE <1>1 DEF Inv
<1>2. Stored \subseteq used
  BY DEF RowsInv, RowsUsed
<1>3. ASSUME NEW r \in Requests,
             GetUser(r) \/ GetLedger(r) \/ GetOwner(r) \/ CountOwned(r) \/ CountAccesses(r) \/ GetAccess(r)
      PROVE  PlanKept' /\ RevokingKept'
  <2>1. PICK check : /\ todo[r] # <<>> /\ Head(todo[r]) # "write"
                     /\ ContinueKeeping(r, check, row[r], revoking[r])
    BY <1>3 DEF GetUser, GetLedger, GetOwner, CountOwned, CountAccesses, GetAccess, ContinueIf, At
  <2>2. \A g \in revoking[r] : MayRevoke(r, g)
    BY DEF RevokingKept
  <2> QED BY <2>1, <2>2, ContinueKeepsRevoking
<1>4. ASSUME NEW r \in Requests, GetOtherOwner(r) \/ GetActiveGrant(r)
      PROVE  PlanKept' /\ RevokingKept'
  <2>1. call[r].op = "set_owner" /\ todo[r] # <<>> /\ Head(todo[r]) # "write"
    <3>1. todo[r] # <<>> /\ Head(todo[r]) \in {"other_owner", "active_grant"}
      BY <1>4 DEF GetOtherOwner, GetActiveGrant, At
    <3>2. todo[r] \in Seq(Steps)
      BY DEF LocalTypes
    <3> QED BY <3>1, <3>2, HeadTransfers DEF PlanKept
  <2> DEFINE l == call[r].ledger
             S == revoking[r] \cup {g \in Active(l) : grant[g].grantee = call[r].user}
  <2>2. \A g \in Active(l) : MayRevoke(r, g)
    BY <1>2, <2>1 DEF Active, Stored, MayRevoke
  <2>3. \A g \in OwnersOf(l) \cup S : MayRevoke(r, g)
    BY <2>2 DEF OwnersOf, RevokingKept
  <2>4. CASE GetOtherOwner(r)
    <3>1. PICK check : ContinueKeeping(r, check, row[r], OwnersOf(l))
      BY <2>4 DEF GetOtherOwner
    <3> QED BY <2>1, <2>3, <3>1, ContinueKeepsRevoking
  <2>5. CASE GetActiveGrant(r)
    <3>1. ContinueKeeping(r, TRUE, row[r], S)
      BY <2>5 DEF GetActiveGrant
    <3> HIDE DEF S
    <3> QED BY <2>1, <2>3, <3>1, ContinueKeepsRevoking
  <2> QED BY <1>4, <2>4, <2>5
<1>5. ASSUME NEW r \in Requests, GetGrant(r)
      PROVE  PlanKept' /\ RevokingKept'
  <2> DEFINE g == call[r].grant
             check == /\ g \in Stored
                      /\ grant[g].active
                      /\ call[r].op # "revoke_grant" => grant[g].role = "GUEST"
                      /\ call[r].op = "revoke_access" => grant[g].ledger = call[r].ledger
  <2>1. todo[r] # <<>> /\ Head(todo[r]) # "write" /\ ContinueKeeping(r, check, grant[g], {g})
    BY <1>5 DEF GetGrant, At
  <2>2. check => MayRevoke(r, g)
    BY <1>2 DEF Stored, MayRevoke
  <2> HIDE DEF check, g
  <2> QED BY <2>1, <2>2, ContinueKeepsRevoking
<1>6. ASSUME NEW r \in Requests,
             CreateLedger(r) \/ DeleteLedger(r) \/ SetOwner(r) \/ RevokeGrant(r)
             \/ CreateAccess(r) \/ DeleteUser(r) \/ Fail(r)
      PROVE  PlanKept' /\ RevokingKept'
  <2>1. Finish(r)
    BY <1>6 DEF CreateLedger, DeleteLedger, SetOwner, RevokeGrant, CreateAccess, DeleteUser, Fail
  <2> QED BY <2>1, FinishKeepsRevoking
<1>7. ASSUME UNCHANGED locals
      PROVE  PlanKept' /\ RevokingKept'
  <2>1. PlanKept'
    BY <1>7 DEF PlanKept, locals
  <2>2. RevokingKept'
    BY <1>7, HistoryKeepsMay DEF RevokingKept, locals
  <2> QED BY <2>1, <2>2
<1> QED
  BY <1>3, <1>4, <1>5, <1>6, <1>7, BeginKeepsRevoking
  DEF Next, RequestStep, DeleteExternalAccess, RemoveInactive

--------------------------------------------------------------------------------
(* A ledger keeps an owner *)

LEMMA OwnerRemains ==
  ASSUME NEW l, NEW g \in OwnersOf(l), grant'[g] = grant[g]
  PROVE  OwnersOf(l)' # {}
  BY DEF OwnersOf, Active, Stored

LEMMA InsertKeepsOwner ==
  ASSUME RowsInv, NEW S, NEW new, InsertGrant(S, new), NEW l, NEW g \in OwnersOf(l), g \notin S
  PROVE  OwnersOf(l)' # {}
<1>1. PICK h \in GrantIds \ used : grant' = [Revoked(S) EXCEPT ![h] = new]
  BY DEF InsertGrant
<1>2. g \in GrantIds /\ g # h
  BY <1>1 DEF OwnersOf, Active, Stored, RowsInv, RowsUsed
<1>3. grant'[g] = grant[g]
  BY <1>1, <1>2 DEF Revoked
<1> QED BY <1>3, OwnerRemains

OwnerStep(l) ==
  OwnersOf(l) # {} /\ OwnersOf(l)' = {} =>
    \E r \in Requests : At(r, "write") /\ call[r].op = "revoke_grant" /\ call'[r] = None

LEMMA NextKeepsOwner ==
  ASSUME Inv, RevokingKept, Next, NEW l \in ledgers \cap ledgers'
  PROVE  OwnerStep(l)
<1> USE DEF Inv
<1> SUFFICES ASSUME NEW g \in OwnersOf(l), OwnersOf(l)' = {}
    PROVE  \E r \in Requests : At(r, "write") /\ call[r].op = "revoke_grant" /\ call'[r] = None
  BY DEF OwnerStep
<1>1. /\ g \in GrantIds /\ g \in Stored /\ grant[g] # None /\ grant[g] \in Grant
      /\ grant[g].ledger = l /\ grant[g].active /\ grant[g].role = "OWNER"
  BY DEF OwnersOf, Active, Stored, RowsInv, RowTypes
<1>2. grant'[g] # grant[g]
  BY OwnerRemains
<1>3. ASSUME NEW r \in Requests, CreateLedger(r) \/ CreateAccess(r)
      PROVE  FALSE
  BY <1>3, InsertKeepsOwner DEF CreateLedger, CreateAccess
<1>4. ASSUME NEW r \in Requests, DeleteLedger(r)
      PROVE  FALSE
  BY <1>1, <1>2, <1>4 DEF DeleteLedger, Without
<1>5. ASSUME NEW r \in Requests, SetOwner(r)
      PROVE  FALSE
  <2> DEFINE new == ActiveGrant(call[r].user, call[r].ledger, "OWNER")
  <2>1. InsertGrant(revoking[r], new) /\ call[r].op = "set_owner"
    BY <1>5 DEF SetOwner
  <2>2. CASE call[r].ledger = l
    <3>1. PICK h \in GrantIds \ used : grant' = [Revoked(revoking[r]) EXCEPT ![h] = new]
      BY <2>1 DEF InsertGrant
    <3>2. grant'[h] = new
      BY <3>1 DEF Revoked
    <3>3. call[r].user \in Users /\ l \in Ledgers
      BY <1>5 DEF SetOwner, RowsInv, RowTypes
    <3>4. new \in Grant /\ new.active /\ new.ledger = l /\ new.role = "OWNER"
      BY <2>2, <3>3, ActiveGrantType
    <3>5. h \in OwnersOf(l)'
      BY <3>2, <3>4, ConstantsAssumption DEF OwnersOf, Active, Stored
    <3> QED BY <3>5
  <2>3. CASE call[r].ledger # l
    <3>1. g \notin revoking[r]
      BY <1>1, <2>1, <2>3 DEF RevokingKept, MayRevoke
    <3> HIDE DEF new
    <3> QED BY <2>1, <3>1, InsertKeepsOwner
  <2> QED BY <2>2, <2>3
<1>6. ASSUME NEW r \in Requests, RevokeGrant(r)
      PROVE  At(r, "write") /\ call[r].op = "revoke_grant" /\ call'[r] = None
  <2>1. At(r, "write") /\ call'[r] = None
    BY <1>6 DEF RevokeGrant, Finish, LocalTypes
  <2>2. g \in revoking[r]
    BY <1>1, <1>2, <1>6 DEF RevokeGrant, Revoked
  <2>3. call[r].op # "set_owner"
    BY <1>6 DEF RevokeGrant
  <2> QED BY <1>1, <2>1, <2>2, <2>3 DEF RevokingKept, MayRevoke
<1>7. ASSUME NEW r \in Requests, DeleteUser(r)
      PROVE  FALSE
  <2> DEFINE u == call[r].user
             owned == {grant[h].ledger : h \in OwnedBy(u)}
  <2>1. ledgers' = ledgers \ owned /\ grant' = Without(owned, {u})
    BY <1>7 DEF DeleteUser
  <2>2. l \notin owned
    BY <2>1
  <2>3. grant[g].grantee # u
    BY <1>1, <2>2 DEF OwnedBy
  <2> QED BY <1>1, <1>2, <2>1, <2>2, <2>3 DEF Without
<1>8. ASSUME NEW x \in Accesses, DeleteExternalAccess(x)
      PROVE  FALSE
  <2>1. grant[g].grantee # x
    BY <1>1, ConstantsAssumption DEF RowsInv, AccessesAreGuests
  <2> QED BY <1>1, <1>2, <1>8, <2>1 DEF DeleteExternalAccess, Without
<1>9. CASE RemoveInactive
  BY <1>1, <1>2, <1>9 DEF RemoveInactive
<1>10. ASSUME NEW r \in Requests,
             Begin(r) \/ GetUser(r) \/ GetLedger(r) \/ GetOwner(r) \/ GetOtherOwner(r)
             \/ GetActiveGrant(r) \/ CountOwned(r) \/ CountAccesses(r) \/ GetGrant(r)
             \/ GetAccess(r) \/ Fail(r)
      PROVE  FALSE
  <2>1. UNCHANGED rows
    BY <1>10 DEF Begin, GetUser, GetLedger, GetOwner, GetOtherOwner, GetActiveGrant, CountOwned,
                CountAccesses, GetGrant, GetAccess, Fail, ContinueIf, ContinueKeeping
  <2> QED BY <1>2, <2>1 DEF rows
<1> QED
  BY <1>3, <1>4, <1>5, <1>6, <1>7, <1>8, <1>9, <1>10 DEF Next, RequestStep

--------------------------------------------------------------------------------
(* The limits of ledgers and of external accesses *)

\* The instances count as this module does.
LEMMA LimitsCount ==
  ASSUME NEW x, NEW S
  PROVE  /\ OwnerLimit(x)!Cardinality(S) = Cardinality(S)
         /\ AccessLimit(x)!Cardinality(S) = Cardinality(S)
<1>1. OwnerLimit(x)!Cardinality(S) = Cardinality(S)
  BY DEF OwnerLimit!Cardinality, Cardinality
<1>2. AccessLimit(x)!Cardinality(S) = Cardinality(S)
  BY DEF AccessLimit!Cardinality, Cardinality
<1> QED BY <1>1, <1>2

\* The step is not among the steps.
Lacks(steps, step) == \A i \in DOMAIN steps : steps[i] # step

LEMMA TailCounts ==
  ASSUME NEW s \in Seq(Steps), s # <<>>, NEW step, Head(s) # step, Lacks(Tail(s), step)
  PROVE  Lacks(s, step)
<1> DEFINE t == Tail(s)
<1>1. /\ DOMAIN s = 1 .. Len(s) /\ DOMAIN t = 1 .. Len(t) /\ Len(s) \in Nat
      /\ Len(t) = Len(s) - 1 /\ Head(s) = s[1]
      /\ \A i \in 1 .. Len(t) : t[i] = s[i + 1]
  OBVIOUS
<1> HIDE DEF t
<1>2. ASSUME NEW i \in 1 .. Len(s) PROVE s[i] # step
  <2>1. CASE i = 1
    BY <1>1, <2>1
  <2>2. CASE i # 1
    <3>1. i - 1 \in 1 .. Len(t) /\ (i - 1) + 1 = i
      BY <1>1, <2>2
    <3>2. t[i - 1] = s[i] /\ t[i - 1] # step
      BY <1>1, <3>1 DEF t, Lacks
    <3> QED BY <3>2
  <2> QED BY <2>1, <2>2
<1> QED BY <1>1, <1>2 DEF Lacks

\* A request that is to write has counted what it counts.
LEMMA WriteIsAlone ==
  ASSUME NEW s \in Seq(Steps), s # <<>>, Head(s) = "write", EndsInWrite(s),
         NEW step, step # "write"
  PROVE  Lacks(s, step)
<1>1. DOMAIN s = 1 .. Len(s) /\ Len(s) \in Nat /\ 1 \in 1 .. Len(s) /\ s[1] = "write"
  OBVIOUS
<1>2. Len(s) = 1
  BY <1>1 DEF EndsInWrite
<1> QED BY <1>1, <1>2 DEF Lacks

\* Who creates a ledger, takes one over or creates an access without TOTP begins
\* before the count.
LEMMA PlanCounts ==
  /\ ~ Lacks(Plan["create_ledger"], "owned")
  /\ ~ Lacks(Plan["set_owner"], "owned")
  /\ ~ Lacks(Plan["create_access"], "accesses")
<1>1. ~ Lacks(Plan["create_ledger"], "owned")
  <2> DEFINE p == Plan["create_ledger"]
  <2>1. 2 \in DOMAIN p /\ p[2] = "owned"
    BY DEF Plan
  <2> HIDE DEF p
  <2>2. ~ Lacks(p, "owned")
    BY <2>1 DEF Lacks
  <2> QED BY <2>2 DEF p
<1>2. ~ Lacks(Plan["set_owner"], "owned")
  <2> DEFINE p == Plan["set_owner"]
  <2>1. 4 \in DOMAIN p /\ p[4] = "owned"
    BY DEF Plan
  <2> HIDE DEF p
  <2>2. ~ Lacks(p, "owned")
    BY <2>1 DEF Lacks
  <2> QED BY <2>2 DEF p
<1>3. ~ Lacks(Plan["create_access"], "accesses")
  <2> DEFINE p == Plan["create_access"]
  <2>1. 2 \in DOMAIN p /\ p[2] = "accesses"
    BY DEF Plan
  <2> HIDE DEF p
  <2>2. ~ Lacks(p, "accesses")
    BY <2>1 DEF Lacks
  <2> QED BY <2>2 DEF p
<1> QED BY <1>1, <1>2, <1>3

LEMMA CountedMeans ==
  /\ \A u : AdmittedOwners(u) =
       {r \in Requests : /\ todo[r] # <<>> /\ Lacks(todo[r], "owned")
                         /\ call[r].op \in {"create_ledger", "set_owner"} /\ call[r].user = u}
  /\ \A l : AdmittedAccesses(l) =
       {r \in Requests : /\ todo[r] # <<>> /\ Lacks(todo[r], "accesses")
                         /\ call[r].op = "create_access" /\ call[r].ledger = l}
  BY DEF AdmittedOwners, AdmittedAccesses, Counted, Lacks

\* A step of a request admits no request but that one, and one that ends it
\* takes it from those admitted.
LEMMA OneRequestAdmits ==
  ASSUME NEW r \in Requests, OthersAlone(r)
  PROVE  /\ \A u : AdmittedOwners(u)' \ {r} = AdmittedOwners(u) \ {r}
         /\ \A l : AdmittedAccesses(l)' \ {r} = AdmittedAccesses(l) \ {r}
  BY CountedMeans DEF OthersAlone, AdmittedOwners, AdmittedAccesses, Counted

LEMMA FinishLeaves ==
  ASSUME LocalTypes, NEW r \in Requests, Finish(r)
  PROVE  /\ \A u : AdmittedOwners(u)' = AdmittedOwners(u) \ {r}
         /\ \A l : AdmittedAccesses(l)' = AdmittedAccesses(l) \ {r}
<1>1. OthersAlone(r) /\ todo'[r] = <<>>
  BY DEF LocalTypes, Finish, OthersAlone
<1>2. \A u, l : r \notin AdmittedOwners(u)' /\ r \notin AdmittedAccesses(l)'
  BY <1>1 DEF AdmittedOwners, AdmittedAccesses
<1> QED BY <1>1, <1>2, OneRequestAdmits

\* Grants that end count no more than before.
LEMMA EndingCountsLess ==
  ASSUME GrantsOnlyEnd, accesses' \subseteq accesses
  PROVE  /\ \A u : OwnedBy(u)' \subseteq OwnedBy(u)
         /\ \A l : AccessesTo(l)' \subseteq AccessesTo(l)
  BY DEF GrantsOnlyEnd, OwnedBy, AccessesTo, Active, Stored

\* An insertion adds the one grant to what is counted, where it counts.
LEMMA InsertCounts ==
  ASSUME RowsInv, NEW S, NEW new, InsertGrant(S, new), accesses \subseteq accesses',
         \A x \in accesses' \ accesses : x \notin used \cup users
  PROVE  \E g \in GrantIds :
           /\ \A u : OwnedBy(u)' \subseteq OwnedBy(u) \cup
                IF new.role = "OWNER" /\ new.grantee = u THEN {g} ELSE {}
           /\ \A l : AccessesTo(l)' \subseteq AccessesTo(l) \cup
                IF new.role = "GUEST" /\ new.ledger = l THEN {g} ELSE {}
<1>1. PICK g \in GrantIds \ used : grant' = [Revoked(S) EXCEPT ![g] = new]
  BY DEF InsertGrant
<1>2. /\ grant'[g] = new
      /\ \A h \in GrantIds : h # g => grant'[h] = Revoked(S)[h]
  BY <1>1, RevokedType DEF RowsInv
<1>3. \A h \in GrantIds : h # g /\ grant'[h] # None =>
        /\ h \in Stored
        /\ grant'[h].grantee = grant[h].grantee
        /\ grant'[h].ledger = grant[h].ledger
        /\ grant'[h].role = grant[h].role
        /\ grant'[h].active => grant[h].active
        /\ grant'[h].grantee \in accesses' => grant[h].grantee \in accesses
  <2> SUFFICES ASSUME NEW h \in GrantIds, h # g, grant'[h] # None
      PROVE  /\ h \in Stored
             /\ grant'[h].grantee = grant[h].grantee
             /\ grant'[h].ledger = grant[h].ledger
             /\ grant'[h].role = grant[h].role
             /\ grant'[h].active => grant[h].active
             /\ grant'[h].grantee \in accesses' => grant[h].grantee \in accesses
    OBVIOUS
  <2>1. /\ h \in Stored
        /\ grant'[h].grantee = grant[h].grantee
        /\ grant'[h].ledger = grant[h].ledger
        /\ grant'[h].role = grant[h].role
        /\ grant'[h].active => grant[h].active
    BY <1>2, RevokedType DEF RowsInv, Stored
  <2>2. grant[h].grantee \in users \cup accesses /\ accesses \subseteq used
    BY <2>1 DEF RowsInv, GrantsRefer, RowsUsed
  <2> QED BY <2>1, <2>2
<1>4. \A u : OwnedBy(u)' \subseteq OwnedBy(u) \cup
        IF new.role = "OWNER" /\ new.grantee = u THEN {g} ELSE {}
  BY <1>2, <1>3 DEF OwnedBy, Stored
<1>5. \A l : AccessesTo(l)' \subseteq AccessesTo(l) \cup
        IF new.role = "GUEST" /\ new.ledger = l THEN {g} ELSE {}
  BY <1>2, <1>3 DEF AccessesTo, Active, Stored
<1> QED BY <1>4, <1>5

LEMMA LimitsInit ==
  ASSUME Init
  PROVE  /\ \A u : OwnerLimit(u)!Init
         /\ \A l : AccessLimit(l)!Init
<1>1. Stored = {} /\ \A r \in Requests : todo[r] = <<>>
  BY DEF Init, Stored
<1>2. \A x : OwnedBy(x) = {} /\ AdmittedOwners(x) = {} /\ AccessesTo(x) = {} /\ AdmittedAccesses(x) = {}
  BY <1>1 DEF OwnedBy, AdmittedOwners, AccessesTo, Active, AdmittedAccesses
<1> QED BY <1>2 DEF OwnerLimit!Init, AccessLimit!Init

LimitsStep ==
  /\ \A u : OwnerLimit(u)!Next
  /\ \A l : AccessLimit(l)!Next

\* Where nothing more is counted and nobody more admitted, both limits see a
\* departure.
LEMMA LeavingKeepsLimits ==
  ASSUME \A u : OwnedBy(u)' \subseteq OwnedBy(u) /\ AdmittedOwners(u)' \subseteq AdmittedOwners(u),
         \A l : AccessesTo(l)' \subseteq AccessesTo(l) /\ AdmittedAccesses(l)' \subseteq AdmittedAccesses(l)
  PROVE  LimitsStep
  BY DEF LimitsStep, OwnerLimit!Next, OwnerLimit!Leave, AccessLimit!Next, AccessLimit!Leave

\* A step of a request that reads admits nobody but the request, and only when it
\* counts.
LEMMA ContinueAdmits ==
  ASSUME LocalTypes, NEW r \in Requests, todo[r] # <<>>, NEW check, NEW found, NEW S,
         ContinueKeeping(r, check, found, S)
  PROVE  /\ \A u : OwnedBy(u)' = OwnedBy(u)
         /\ \A l : AccessesTo(l)' = AccessesTo(l)
         /\ \A u : \/ AdmittedOwners(u)' \subseteq AdmittedOwners(u)
                   \/ /\ check /\ Head(todo[r]) = "owned" /\ call[r].user = u
                      /\ AdmittedOwners(u)' = AdmittedOwners(u) \cup {r}
         /\ \A l : \/ AdmittedAccesses(l)' \subseteq AdmittedAccesses(l)
                   \/ /\ check /\ Head(todo[r]) = "accesses" /\ call[r].ledger = l
                      /\ AdmittedAccesses(l)' = AdmittedAccesses(l) \cup {r}
<1>1. /\ \A u : OwnedBy(u)' = OwnedBy(u)
      /\ \A l : AccessesTo(l)' = AccessesTo(l)
  BY DEF ContinueKeeping, rows, OwnedBy, AccessesTo, Active, Stored
<1>2. CASE Finish(r)
  BY <1>1, <1>2, FinishLeaves
<1>3. CASE ~ Finish(r)
  <2>1. /\ check
        /\ todo' = [todo EXCEPT ![r] = Tail(todo[r])]
        /\ revoking' = [revoking EXCEPT ![r] = S]
        /\ call' = call
    BY <1>3 DEF ContinueKeeping
  <2>2. todo[r] \in Seq(Steps) /\ todo'[r] = Tail(todo[r]) /\ OthersAlone(r)
    BY <2>1 DEF LocalTypes, OthersAlone
  <2>3. ASSUME NEW step, Lacks(todo'[r], step), Head(todo[r]) # step
        PROVE  Lacks(todo[r], step)
    BY <2>2, <2>3, TailCounts
  <2>4. \A u : r \in AdmittedOwners(u)' /\ Head(todo[r]) # "owned" => r \in AdmittedOwners(u)
    <3>1. Lacks(todo'[r], "owned") /\ Head(todo[r]) # "owned" => Lacks(todo[r], "owned")
      BY <2>3
    <3> QED BY <2>1, <3>1 DEF AdmittedOwners, Counted, Lacks
  <2>5. \A l : r \in AdmittedAccesses(l)' /\ Head(todo[r]) # "accesses" => r \in AdmittedAccesses(l)
    <3>1. Lacks(todo'[r], "accesses") /\ Head(todo[r]) # "accesses" => Lacks(todo[r], "accesses")
      BY <2>3
    <3> QED BY <2>1, <3>1 DEF AdmittedAccesses, Counted, Lacks
  <2>6. /\ \A u : r \in AdmittedOwners(u)' => call[r].user = u
        /\ \A l : r \in AdmittedAccesses(l)' => call[r].ledger = l
    BY <2>1 DEF AdmittedOwners, AdmittedAccesses
  <2>7. /\ \A u : AdmittedOwners(u)' \ {r} = AdmittedOwners(u) \ {r}
        /\ \A l : AdmittedAccesses(l)' \ {r} = AdmittedAccesses(l) \ {r}
    BY <2>2, OneRequestAdmits
  <2>8. \A u : \/ AdmittedOwners(u)' \subseteq AdmittedOwners(u)
               \/ /\ check /\ Head(todo[r]) = "owned" /\ call[r].user = u
                  /\ AdmittedOwners(u)' = AdmittedOwners(u) \cup {r}
    BY <2>1, <2>4, <2>6, <2>7
  <2>9. \A l : \/ AdmittedAccesses(l)' \subseteq AdmittedAccesses(l)
               \/ /\ check /\ Head(todo[r]) = "accesses" /\ call[r].ledger = l
                  /\ AdmittedAccesses(l)' = AdmittedAccesses(l) \cup {r}
    BY <2>1, <2>5, <2>6, <2>7
  <2> QED BY <1>1, <2>8, <2>9
<1> QED BY <1>2, <1>3

LEMMA BeginAdmitsNobody ==
  ASSUME LocalTypes, NEW r \in Requests, Begin(r)
  PROVE  /\ \A u : AdmittedOwners(u)' \subseteq AdmittedOwners(u)
         /\ \A l : AdmittedAccesses(l)' \subseteq AdmittedAccesses(l)
<1>1. PICK c \in Call :
        /\ call' = [call EXCEPT ![r] = c]
        /\ todo' = [todo EXCEPT ![r] = Plan[c.op]]
        /\ revoking' = revoking
  BY ConstantsAssumption DEF Begin
<1>2. call'[r] = c /\ todo'[r] = Plan[c.op] /\ OthersAlone(r)
  BY <1>1 DEF LocalTypes, OthersAlone
<1>3. c.op = "create_access" => ~ Lacks(todo'[r], "accesses")
  BY <1>2, PlanCounts
<1>4. c.op \in {"create_ledger", "set_owner"} => ~ Lacks(todo'[r], "owned")
  BY <1>2, PlanCounts
<1>5. \A u : r \notin AdmittedOwners(u)'
  BY <1>2, <1>4 DEF AdmittedOwners, Counted, Lacks
<1>6. \A l : r \notin AdmittedAccesses(l)'
  BY <1>2, <1>3 DEF AdmittedAccesses, Counted, Lacks
<1> QED BY <1>2, <1>5, <1>6, OneRequestAdmits

\* A write by a request that is past its count stores a row for the user or the
\* ledger it counted for, and ends.
LEMMA WritesAreAdmitted ==
  ASSUME LocalTypes, PlanKept, NEW r \in Requests, At(r, "write")
  PROVE  /\ call[r].op \in {"create_ledger", "set_owner"} => r \in AdmittedOwners(call[r].user)
         /\ call[r].op = "create_access" => r \in AdmittedAccesses(call[r].ledger)
<1>1. todo[r] \in Seq(Steps) /\ todo[r] # <<>> /\ Head(todo[r]) = "write" /\ EndsInWrite(todo[r])
  BY DEF LocalTypes, PlanKept, At
<1>2. Lacks(todo[r], "owned") /\ Lacks(todo[r], "accesses")
  BY <1>1, WriteIsAlone
<1> QED BY <1>1, <1>2 DEF AdmittedOwners, AdmittedAccesses, Counted, Lacks

LEMMA WriteKeepsLimits ==
  ASSUME Inv, PlanKept, NEW r \in Requests, CreateLedger(r) \/ SetOwner(r) \/ CreateAccess(r)
  PROVE  LimitsStep
<1> USE DEF Inv
<1> PICK u, l : u = call[r].user /\ l = call[r].ledger
  OBVIOUS
<1>1. At(r, "write") /\ Finish(r)
  BY DEF CreateLedger, SetOwner, CreateAccess
<1>2. /\ \A v : AdmittedOwners(v)' = AdmittedOwners(v) \ {r}
      /\ \A m : AdmittedAccesses(m)' = AdmittedAccesses(m) \ {r}
  BY <1>1, FinishLeaves
<1>3. CASE CreateLedger(r) \/ SetOwner(r)
  <2>1. PICK S, new : /\ InsertGrant(S, new) /\ new.role = "OWNER" /\ new.grantee = u
                      /\ accesses' = accesses
    <3>1. CASE CreateLedger(r)
      <4>1. PICK k \in Ledgers : InsertGrant({}, ActiveGrant(u, k, "OWNER"))
        BY <3>1 DEF CreateLedger
      <4>2. ActiveGrant(u, k, "OWNER").role = "OWNER" /\ ActiveGrant(u, k, "OWNER").grantee = u
        BY DEF ActiveGrant
      <4> QED BY <3>1, <4>1, <4>2 DEF CreateLedger
    <3>2. CASE SetOwner(r)
      <4>1. ActiveGrant(u, l, "OWNER").role = "OWNER" /\ ActiveGrant(u, l, "OWNER").grantee = u
        BY DEF ActiveGrant
      <4>2. InsertGrant(revoking[r], ActiveGrant(u, l, "OWNER")) /\ accesses' = accesses
        BY <3>2 DEF SetOwner
      <4> QED BY <4>1, <4>2
    <3> QED BY <1>3, <3>1, <3>2
  <2>2. PICK g \in GrantIds :
          /\ \A v : OwnedBy(v)' \subseteq OwnedBy(v) \cup
               IF new.role = "OWNER" /\ new.grantee = v THEN {g} ELSE {}
          /\ \A m : AccessesTo(m)' \subseteq AccessesTo(m) \cup
               IF new.role = "GUEST" /\ new.ledger = m THEN {g} ELSE {}
    BY <2>1, InsertCounts
  <2>3. call[r].op \in {"create_ledger", "set_owner"}
    BY <1>3 DEF CreateLedger, SetOwner
  <2>4. r \in AdmittedOwners(u)
    BY <1>1, <2>3, WritesAreAdmitted
  <2>5. \A m : AccessLimit(m)!Next
    <3>1. \A m : AccessesTo(m)' \subseteq AccessesTo(m) /\ AdmittedAccesses(m)' \subseteq AdmittedAccesses(m)
      BY <1>2, <2>1, <2>2
    <3> QED BY <3>1 DEF AccessLimit!Next, AccessLimit!Leave
  <2>6. OwnerLimit(u)!Next
    <3>1. OwnerLimit(u)!Commit(r)
      BY <1>2, <2>2, <2>4 DEF OwnerLimit!Commit
    <3> QED BY <3>1 DEF OwnerLimit!Next
  <2>7. ASSUME NEW v, v # u PROVE OwnerLimit(v)!Next
    <3>1. OwnedBy(v)' \subseteq OwnedBy(v) /\ AdmittedOwners(v)' \subseteq AdmittedOwners(v)
      BY <1>2, <2>1, <2>2, <2>7
    <3> QED BY <3>1 DEF OwnerLimit!Next, OwnerLimit!Leave
  <2> QED BY <2>5, <2>6, <2>7 DEF LimitsStep
<1>4. CASE CreateAccess(r)
  <2>1. PICK x \in Accesses \ used :
          accesses' = accesses \cup {x} /\ InsertGrant({}, ActiveGrant(x, l, "GUEST"))
    BY <1>4 DEF CreateAccess
  <2> DEFINE new == ActiveGrant(x, l, "GUEST")
  <2>2. new.role = "GUEST" /\ new.ledger = l
    BY DEF ActiveGrant
  <2>3. x \notin users
    BY <2>1, ConstantsAssumption DEF RowsInv, RowTypes
  <2> HIDE DEF new
  <2>4. PICK g \in GrantIds :
          /\ \A v : OwnedBy(v)' \subseteq OwnedBy(v) \cup
               IF new.role = "OWNER" /\ new.grantee = v THEN {g} ELSE {}
          /\ \A m : AccessesTo(m)' \subseteq AccessesTo(m) \cup
               IF new.role = "GUEST" /\ new.ledger = m THEN {g} ELSE {}
    <3>1. InsertGrant({}, new)
      BY <2>1 DEF new
    <3> QED BY <2>1, <2>3, <3>1, InsertCounts
  <2>5. \A v : OwnerLimit(v)!Next
    <3>1. \A v : OwnedBy(v)' \subseteq OwnedBy(v) /\ AdmittedOwners(v)' \subseteq AdmittedOwners(v)
      BY <1>2, <2>2, <2>4
    <3> QED BY <3>1 DEF OwnerLimit!Next, OwnerLimit!Leave
  <2>6. ASSUME NEW m, m # l PROVE AccessLimit(m)!Next
    <3>1. AccessesTo(m)' \subseteq AccessesTo(m) /\ AdmittedAccesses(m)' \subseteq AdmittedAccesses(m)
      BY <1>2, <2>2, <2>4, <2>6
    <3> QED BY <3>1 DEF AccessLimit!Next, AccessLimit!Leave
  <2>7. AccessLimit(l)!Next
    <3>1. AccessesTo(l)' \subseteq AccessesTo(l) \cup {g}
      BY <2>2, <2>4
    <3>2. CASE call[r].op = "create_access"
      <4>1. AccessLimit(l)!Commit(r)
        BY <1>1, <1>2, <3>1, <3>2, WritesAreAdmitted DEF AccessLimit!Commit
      <4> QED BY <4>1 DEF AccessLimit!Next
    <3>3. CASE call[r].op = "create_access_totp"
      <4>1. r \notin AdmittedAccesses(l)
        BY <3>3 DEF AdmittedAccesses
      <4>2. AccessLimit(l)!Cardinality(AccessesTo(l)) < MaxAccesses
        BY <1>4, <3>3, LimitsCount DEF CreateAccess
      <4>3. AccessLimit(l)!CountAndCommit(r)
        BY <1>2, <3>1, <4>1, <4>2 DEF AccessLimit!CountAndCommit
      <4> QED BY <4>3 DEF AccessLimit!Next
    <3> QED BY <1>4, <3>2, <3>3 DEF CreateAccess
  <2> QED BY <2>5, <2>6, <2>7 DEF LimitsStep
<1> QED BY <1>3, <1>4

LEMMA CountKeepsLimits ==
  ASSUME LocalTypes, NEW r \in Requests, CountOwned(r) \/ CountAccesses(r)
  PROVE  LimitsStep
<1> DEFINE owned == Cardinality(OwnedBy(call[r].user)) < MaxLedgers
           guests == Cardinality(AccessesTo(call[r].ledger)) < MaxAccesses
<1>4. /\ todo[r] # <<>>
      /\ \/ Head(todo[r]) = "owned" /\ ContinueKeeping(r, owned, row[r], revoking[r])
         \/ Head(todo[r]) = "accesses" /\ ContinueKeeping(r, guests, row[r], revoking[r])
  BY DEF CountOwned, CountAccesses, ContinueIf, At
<1> HIDE DEF owned, guests
<1>1. PICK check : /\ todo[r] # <<>> /\ ContinueKeeping(r, check, row[r], revoking[r])
                   /\ check /\ Head(todo[r]) = "owned" => owned
                   /\ check /\ Head(todo[r]) = "accesses" => guests
  <2>1. CASE Head(todo[r]) = "owned"
    BY <1>4, <2>1
  <2>2. CASE Head(todo[r]) = "accesses"
    BY <1>4, <2>2
  <2> QED BY <1>4, <2>1, <2>2
<1>2. ASSUME NEW u PROVE OwnerLimit(u)!Next
  <2>1. CASE AdmittedOwners(u)' \subseteq AdmittedOwners(u)
    BY <1>1, <2>1, ContinueAdmits DEF OwnerLimit!Next, OwnerLimit!Leave
  <2>2. CASE /\ check /\ Head(todo[r]) = "owned" /\ call[r].user = u
             /\ AdmittedOwners(u)' = AdmittedOwners(u) \cup {r}
    <3>1. OwnerLimit(u)!Cardinality(OwnedBy(u)) < MaxLedgers
      BY <1>1, <2>2, LimitsCount DEF owned
    <3>2. OwnerLimit(u)!Admit(r)
      BY <1>1, <2>2, <3>1, ContinueAdmits DEF OwnerLimit!Admit
    <3> QED BY <3>2 DEF OwnerLimit!Next
  <2> QED BY <1>1, <2>1, <2>2, ContinueAdmits
<1>3. ASSUME NEW l PROVE AccessLimit(l)!Next
  <2>1. CASE AdmittedAccesses(l)' \subseteq AdmittedAccesses(l)
    BY <1>1, <2>1, ContinueAdmits DEF AccessLimit!Next, AccessLimit!Leave
  <2>2. CASE /\ check /\ Head(todo[r]) = "accesses" /\ call[r].ledger = l
             /\ AdmittedAccesses(l)' = AdmittedAccesses(l) \cup {r}
    <3>1. AccessLimit(l)!Cardinality(AccessesTo(l)) < MaxAccesses
      BY <1>1, <2>2, LimitsCount DEF guests
    <3>2. AccessLimit(l)!Admit(r)
      BY <1>1, <2>2, <3>1, ContinueAdmits DEF AccessLimit!Admit
    <3> QED BY <3>2 DEF AccessLimit!Next
  <2> QED BY <1>1, <2>1, <2>2, ContinueAdmits
<1> QED BY <1>2, <1>3 DEF LimitsStep

LEMMA NextKeepsLimits ==
  ASSUME Inv, PlanKept, Next
  PROVE  LimitsStep
<1> USE DEF Inv
<1>1. ASSUME NEW r \in Requests, Begin(r) \/ Fail(r) PROVE LimitsStep
  <2>1. UNCHANGED rows
    BY <1>1 DEF Begin, Fail
  <2>2. \A x : OwnedBy(x)' = OwnedBy(x) /\ AccessesTo(x)' = AccessesTo(x)
    BY <2>1 DEF rows, OwnedBy, AccessesTo, Active, Stored
  <2> QED BY <1>1, <2>2, BeginAdmitsNobody, FinishLeaves, LeavingKeepsLimits DEF Fail
<1>2. ASSUME NEW r \in Requests,
             GetUser(r) \/ GetLedger(r) \/ GetOwner(r) \/ GetOtherOwner(r) \/ GetActiveGrant(r)
             \/ GetGrant(r) \/ GetAccess(r)
      PROVE  LimitsStep
  <2>1. PICK check, found, S :
          /\ todo[r] # <<>> /\ Head(todo[r]) \notin {"owned", "accesses"}
          /\ ContinueKeeping(r, check, found, S)
    BY <1>2 DEF GetUser, GetLedger, GetOwner, GetOtherOwner, GetActiveGrant, GetGrant, GetAccess,
                ContinueIf, At
  <2> QED BY <2>1, ContinueAdmits, LeavingKeepsLimits
<1>3. ASSUME NEW r \in Requests, DeleteLedger(r) \/ DeleteUser(r) \/ RevokeGrant(r)
      PROVE  LimitsStep
  <2>1. Finish(r) /\ accesses' = accesses
    BY <1>3 DEF DeleteLedger, DeleteUser, RevokeGrant
  <2>2. CASE DeleteLedger(r) \/ DeleteUser(r)
    <3>1. PICK L, G : grant' = Without(L, G)
      BY <2>2 DEF DeleteLedger, DeleteUser
    <3> QED BY <2>1, <3>1, WithoutIsEnding, EndingCountsLess, FinishLeaves, LeavingKeepsLimits DEF RowsInv
  <2>3. CASE RevokeGrant(r)
    <3>1. GrantsOnlyEnd
      BY <2>3, RevokedType DEF RevokeGrant, GrantsOnlyEnd, RowsInv
    <3> QED BY <2>1, <3>1, EndingCountsLess, FinishLeaves, LeavingKeepsLimits
  <2> QED BY <1>3, <2>2, <2>3
<1>4. ASSUME GrantsOnlyEnd, accesses' \subseteq accesses, UNCHANGED locals
      PROVE  LimitsStep
  <2>1. \A x : AdmittedOwners(x)' = AdmittedOwners(x) /\ AdmittedAccesses(x)' = AdmittedAccesses(x)
    BY <1>4 DEF locals, AdmittedOwners, AdmittedAccesses, Counted
  <2> QED BY <1>4, <2>1, EndingCountsLess, LeavingKeepsLimits
<1>5. ASSUME NEW x \in Accesses, DeleteExternalAccess(x)
      PROVE  LimitsStep
  BY <1>4, <1>5, WithoutIsEnding DEF DeleteExternalAccess, RowsInv
<1>6. CASE RemoveInactive
  <2>1. GrantsOnlyEnd
    BY <1>6 DEF RemoveInactive, GrantsOnlyEnd, RowsInv, RowTypes
  <2>2. accesses' \subseteq accesses /\ UNCHANGED locals
    BY <1>6 DEF RemoveInactive
  <2> QED BY <1>4, <2>1, <2>2
<1> QED
  BY <1>1, <1>2, <1>3, <1>5, <1>6, WriteKeepsLimits, CountKeepsLimits DEF Next, RequestStep

--------------------------------------------------------------------------------
(* Theorems *)

\* Whatever reads, writes, failures and commands interleave, the rows keep
\* their invariant: it holds initially and every step preserves it.
THEOREM Inductive == Spec => []Inv
<1>1. Init => Inv
  <2> SUFFICES ASSUME Init PROVE Inv
    OBVIOUS
  <2>1. Stored = {}
    BY DEF Init, Stored
  <2>2. RowTypes /\ RowsUsed /\ OneActiveEach /\ AccessesAreGuests /\ GrantsRefer
    BY <2>1 DEF Init, RowTypes, RowsUsed, OneActiveEach, AccessesAreGuests, GrantsRefer, Active
  <2>3. LocalTypes
    BY DEF Init, LocalTypes
  <2> QED BY <2>2, <2>3 DEF Inv, RowsInv
<1>2. Inv /\ [Next]_vars => Inv'
  BY StepKeepsRows, StepKeepsLocalTypes DEF Inv
<1> QED BY <1>1, <1>2, PTL DEF Spec

\* Every variable keeps its type, for any constants.
THEOREM TypeCorrect == Spec => []TypeOK
<1>1. Inv => TypeOK
  BY DEF Inv, RowsInv, RowTypes, LocalTypes, TypeOK
<1> QED BY <1>1, Inductive, PTL

\* docs/domain.md: a ledger has one active owner and a grantee one active grant
\* for it at most, for any number of transfers, creations and revocations that
\* decide on stale reads.
THEOREM OwnersAreUnique == Spec => []OneActiveEach
<1>1. Inv => OneActiveEach
  BY DEF Inv, RowsInv
<1> QED BY <1>1, Inductive, PTL

\* docs/domain.md: owners are users, and an external access has one grant in its
\* whole life, so its token never opens a second ledger.
THEOREM AccessesStayGuests == Spec => []AccessesAreGuests
<1>1. Inv => AccessesAreGuests
  BY DEF Inv, RowsInv
<1> QED BY <1>1, Inductive, PTL

\* Every grant refers to a grantee and a ledger that exist, whatever is deleted
\* while a request is between its checks and its write.
THEOREM GrantsNeverDangle == Spec => []GrantsRefer
<1>1. Inv => GrantsRefer
  BY DEF Inv, RowsInv
<1> QED BY <1>1, Inductive, PTL

\* A revoked grant never becomes active again and no grant changes its grantee,
\* ledger or role: a step revokes and removes grants and adds one under a uuid
\* that was never used.
THEOREM HistoryStands == Spec => HistoryKept
<1>1. ASSUME Inv, [Next]_vars
      PROVE  [\A g \in Stored :
                grant'[g] # None =>
                  /\ grant'[g].active => grant[g].active
                  /\ [grant'[g] EXCEPT !.active = TRUE] = [grant[g] EXCEPT !.active = TRUE]]_vars
  <2>1. CASE UNCHANGED vars
    BY <2>1
  <2>2. CASE Next
    <3> SUFFICES ASSUME NEW g \in Stored, grant'[g] # None
        PROVE  /\ grant'[g].active => grant[g].active
               /\ [grant'[g] EXCEPT !.active = TRUE] = [grant[g] EXCEPT !.active = TRUE]
      OBVIOUS
    <3>1. g \in GrantIds \cap used /\ grant[g] \in Grant
      BY <1>1 DEF Inv, RowsInv, RowsUsed, RowTypes, Stored
    <3>2. grant'[g] \in Grant
      BY <1>1, <3>1, StepKeepsRows DEF Inv, RowsInv, RowTypes
    <3>3. /\ grant'[g].grantee = grant[g].grantee
          /\ grant'[g].ledger = grant[g].ledger
          /\ grant'[g].role = grant[g].role
          /\ grant'[g].active => grant[g].active
      BY <1>1, <2>2, <3>1, NextKeepsHistory DEF Inv, HistoryStep
    <3> QED BY <3>1, <3>2, <3>3 DEF Grant
  <2> QED BY <1>1, <2>1, <2>2
<1>2. Inv /\ [Next]_vars =>
        [\A g \in Stored :
           grant'[g] # None =>
             /\ grant'[g].active => grant[g].active
             /\ [grant'[g] EXCEPT !.active = TRUE] = [grant[g] EXCEPT !.active = TRUE]]_vars
  BY <1>1
<1> QED BY Inductive, <1>2, PTL DEF Spec, HistoryKept

\* What a request is to revoke, and the steps it has left, stay as planned.
LEMMA RequestsKeepPlan == Spec => [](PlanKept /\ RevokingKept)
<1>1. Init => PlanKept /\ RevokingKept
  BY NoStepsLeft DEF Init, PlanKept, RevokingKept
<1>2. Inv /\ PlanKept /\ RevokingKept /\ [Next]_vars => PlanKept' /\ RevokingKept'
  <2>1. ASSUME PlanKept, RevokingKept, UNCHANGED vars
        PROVE  PlanKept' /\ RevokingKept'
    BY <2>1 DEF vars, PlanKept, RevokingKept, MayRevoke
  <2> QED BY <2>1, NextKeepsRevoking
<1> QED BY Inductive, <1>1, <1>2, PTL DEF Spec

\* A ledger that exists before and after a step keeps its owner, unless the
\* operator's revocation takes it: a transfer revokes no owner of another ledger,
\* an owner's request revokes guests, and a user goes with what the user owns.
THEOREM OwnersStay == Spec => OwnerKept
<1>1. Inv /\ RevokingKept /\ [Next]_vars =>
        [\A l \in ledgers \cap ledgers' :
           OwnersOf(l) # {} /\ OwnersOf(l)' = {} =>
             \E r \in Requests : At(r, "write") /\ call[r].op = "revoke_grant" /\ call'[r] = None]_vars
  BY NextKeepsOwner DEF OwnerStep
<1> QED BY Inductive, RequestsKeepPlan, <1>1, PTL DEF Spec, OwnerKept

\* The ledgers of each user implement the specification of a limit that is
\* counted before the write: creations and transfers are admitted by the count
\* and add one grant, and nothing else adds one.
THEOREM OwnersKeepToLimit == Spec => OwnersImplementLimit
<1>1. Init => \A u \in Users : OwnerLimit(u)!Init
  BY LimitsInit
<1>2. Inv /\ PlanKept /\ [Next]_vars => [\A u \in Users : OwnerLimit(u)!Next]_vars
  BY NextKeepsLimits DEF LimitsStep
<1> QED BY Inductive, RequestsKeepPlan, <1>1, <1>2, PTL DEF Spec, OwnersImplementLimit

\* The external accesses of each ledger do the same, where a creation that
\* verifies a TOTP code counts and inserts in one step.
THEOREM AccessesKeepToLimit == Spec => AccessesImplementLimit
<1>1. Init => \A l \in Ledgers : AccessLimit(l)!Init
  BY LimitsInit
<1>2. Inv /\ PlanKept /\ [Next]_vars => [\A l \in Ledgers : AccessLimit(l)!Next]_vars
  BY NextKeepsLimits DEF LimitsStep
<1> QED BY Inductive, RequestsKeepPlan, <1>1, <1>2, PTL DEF Spec, AccessesImplementLimit

--------------------------------------------------------------------------------
(* By how much the limits are passed *)

OwnersBound == INSTANCE AdmissionLimitProofs WITH
  Things <- GrantIds, MaxStored <- MaxLedgers, stored <- OwnedBy(AnyUser), admitted <- AdmittedOwners(AnyUser)
AccessesBound == INSTANCE AdmissionLimitProofs WITH
  Things <- GrantIds, MaxStored <- MaxAccesses, stored <- AccessesTo(AnyLedger), admitted <- AdmittedAccesses(AnyLedger)

LEMMA OwnersBoundCounts ==
  ASSUME NEW S
  PROVE  /\ OwnersBound!Cardinality(S) = Cardinality(S)
         /\ OwnersBound!IsFiniteSet(S) = IsFiniteSet(S)
<1>1. OwnersBound!Cardinality(S) = Cardinality(S)
  BY DEF OwnersBound!Cardinality, Cardinality
<1>2. OwnersBound!IsFiniteSet(S) = IsFiniteSet(S)
  BY DEF OwnersBound!IsFiniteSet, IsFiniteSet
<1> QED BY <1>1, <1>2

LEMMA AccessesBoundCounts ==
  ASSUME NEW S
  PROVE  /\ AccessesBound!Cardinality(S) = Cardinality(S)
         /\ AccessesBound!IsFiniteSet(S) = IsFiniteSet(S)
<1>1. AccessesBound!Cardinality(S) = Cardinality(S)
  BY DEF AccessesBound!Cardinality, Cardinality
<1>2. AccessesBound!IsFiniteSet(S) = IsFiniteSet(S)
  BY DEF AccessesBound!IsFiniteSet, IsFiniteSet
<1> QED BY <1>1, <1>2

\* However many creations and transfers count a user's ledgers together, the user
\* passes the limit by fewer ledgers than there are requests.
THEOREM OwnersOvershootBounded ==
  ASSUME IsFiniteSet(GrantIds), IsFiniteSet(Requests), Requests # {}
  PROVE  Spec => [](Cardinality(OwnedBy(AnyUser)) + Cardinality(AdmittedOwners(AnyUser)) < MaxLedgers + Cardinality(Requests))
<1>1. OwnersBound!Spec => []OwnersBound!Overshoot
  <2>1. OwnersBound!IsFiniteSet(GrantIds) /\ OwnersBound!IsFiniteSet(Requests) /\ MaxLedgers \in Nat
    BY OwnersBoundCounts, ConstantsAssumption
  <2> QED BY <2>1, OwnersBound!OvershootBounded
<1>2. Init => OwnersBound!Init
  BY LimitsInit DEF OwnerLimit!Init, OwnersBound!Init
<1>3. Inv /\ PlanKept /\ [Next]_vars => [OwnersBound!Next]_(OwnersBound!vars)
  <2>1. ASSUME Inv, PlanKept, Next PROVE OwnersBound!Next
    <3>1. OwnerLimit(AnyUser)!Next
      BY <2>1, NextKeepsLimits DEF LimitsStep
    <3>2. \A S : OwnerLimit(AnyUser)!Cardinality(S) = OwnersBound!Cardinality(S)
      BY LimitsCount, OwnersBoundCounts
    <3> QED
      BY <3>1, <3>2 DEF OwnerLimit!Next, OwnerLimit!Admit, OwnerLimit!Commit, OwnerLimit!CountAndCommit, OwnerLimit!Leave,
        OwnersBound!Next, OwnersBound!Admit, OwnersBound!Commit, OwnersBound!CountAndCommit, OwnersBound!Leave
  <2>2. UNCHANGED vars => UNCHANGED OwnersBound!vars
    BY DEF vars, OwnersBound!vars, OwnedBy, Active, Stored, AdmittedOwners, Counted
  <2> QED BY <2>1, <2>2
<1>4. OwnersBound!Overshoot => Cardinality(OwnedBy(AnyUser)) + Cardinality(AdmittedOwners(AnyUser)) < MaxLedgers + Cardinality(Requests)
  BY OwnersBoundCounts DEF OwnersBound!Overshoot
<1> QED
  BY Inductive, RequestsKeepPlan, <1>1, <1>2, <1>3, <1>4, PTL DEF Spec, OwnersBound!Spec

\* However many creations of accesses count together, with TOTP or without, a
\* ledger passes the limit by fewer accesses than there are requests.
THEOREM AccessesOvershootBounded ==
  ASSUME IsFiniteSet(GrantIds), IsFiniteSet(Requests), Requests # {}
  PROVE  Spec => [](Cardinality(AccessesTo(AnyLedger)) + Cardinality(AdmittedAccesses(AnyLedger)) < MaxAccesses + Cardinality(Requests))
<1>1. AccessesBound!Spec => []AccessesBound!Overshoot
  <2>1. AccessesBound!IsFiniteSet(GrantIds) /\ AccessesBound!IsFiniteSet(Requests) /\ MaxAccesses \in Nat
    BY AccessesBoundCounts, ConstantsAssumption
  <2> QED BY <2>1, AccessesBound!OvershootBounded
<1>2. Init => AccessesBound!Init
  BY LimitsInit DEF AccessLimit!Init, AccessesBound!Init
<1>3. Inv /\ PlanKept /\ [Next]_vars => [AccessesBound!Next]_(AccessesBound!vars)
  <2>1. ASSUME Inv, PlanKept, Next PROVE AccessesBound!Next
    <3>1. AccessLimit(AnyLedger)!Next
      BY <2>1, NextKeepsLimits DEF LimitsStep
    <3>2. \A S : AccessLimit(AnyLedger)!Cardinality(S) = AccessesBound!Cardinality(S)
      BY LimitsCount, AccessesBoundCounts
    <3> QED
      BY <3>1, <3>2 DEF AccessLimit!Next, AccessLimit!Admit, AccessLimit!Commit, AccessLimit!CountAndCommit, AccessLimit!Leave,
        AccessesBound!Next, AccessesBound!Admit, AccessesBound!Commit, AccessesBound!CountAndCommit, AccessesBound!Leave
  <2>2. UNCHANGED vars => UNCHANGED AccessesBound!vars
    BY DEF vars, AccessesBound!vars, AccessesTo, Active, Stored, AdmittedAccesses, Counted
  <2> QED BY <2>1, <2>2
<1>4. AccessesBound!Overshoot => Cardinality(AccessesTo(AnyLedger)) + Cardinality(AdmittedAccesses(AnyLedger)) < MaxAccesses + Cardinality(Requests)
  BY AccessesBoundCounts DEF AccessesBound!Overshoot
<1> QED
  BY Inductive, RequestsKeepPlan, <1>1, <1>2, <1>3, <1>4, PTL DEF Spec, AccessesBound!Spec
================================================================================
