----------------------------- MODULE MCLedgerGrants ----------------------------
(***************************************************************************)
(* Instances of LedgerGrants for TLC: the calls of each run.                *)
(***************************************************************************)
EXTENDS LedgerGrants, TLC

CallsOf(ops, us, ls, gs) ==
  {[op |-> op, user |-> u, ledger |-> l, grant |-> g] : op \in ops, u \in us, l \in ls, g \in gs}

UserCalls == CallsOf({"create_ledger", "delete_user"}, Users, {None}, {None})
LedgerCalls(ops) == CallsOf(ops, Users, Ledgers, {None})
GrantCalls ==
  CallsOf({"revoke_grant"}, {None}, {None}, GrantIds)
  \cup CallsOf({"revoke_owned"}, Users, {None}, GrantIds)
  \cup CallsOf({"revoke_access"}, Users, Ledgers, GrantIds)

\* Ledgers, their owners and their guests.
AllCalls ==
  UserCalls \cup GrantCalls
  \cup LedgerCalls({"delete_ledger", "set_owner", "create_access", "create_access_totp"})

\* Creations that verify a TOTP code.
TotpCalls ==
  {c \in UserCalls : c.op = "create_ledger"}
  \cup LedgerCalls({"create_access_totp"})
  \cup {c \in GrantCalls : c.op # "revoke_grant"}

\* Creations without TOTP.
PlainCalls ==
  {c \in UserCalls : c.op = "create_ledger"} \cup LedgerCalls({"create_access"})

\* How many ledgers a user owns.
OwningCalls ==
  {c \in UserCalls : c.op = "create_ledger"} \cup LedgerCalls({"delete_ledger", "set_owner"})

Symmetry == Permutations(GrantIds) \cup Permutations(Requests) \cup Permutations(Users)
================================================================================
