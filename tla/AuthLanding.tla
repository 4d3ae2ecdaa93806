------------------------------- MODULE AuthLanding -----------------------------
(***************************************************************************)
(* The page before a session: AuthLandingComponent with its cards of login *)
(* and registration, and PasswordRecoveryDialogComponent; and, behind it,  *)
(* what the API does with what can be used once: invitations, recovery     *)
(* codes and TOTP codes.  A rival client presents the same ones at the     *)
(* same time; the operator revokes, replaces and changes them.             *)
(*                                                                         *)
(* A use case reads without a lock and then writes: its first write takes  *)
(* the lock of SQLite until it commits, so that all its writes are one     *)
(* step.  The sessions that a login opens belong to Session.  A wrong code *)
(* reads like a used one, and a name like another.                         *)
(***************************************************************************)
EXTENDS Naturals

CONSTANTS
  Invitations, Names, RecoveryCodes, Passwords,
  MaxCounter,   \* TOTP codes are the counters 1..MaxCounter of their time windows
  MaxRequests,  \* of the page and of the rival
  CardSets,     \* the cards that are used in one behaviour
  None

Clients == {"page", "rival"}
Cards == {"login", "registration", "recovery"}

VARIABLES
  ui,     \* the cards of the page, and the exchanges of both clients
  server  \* the registry

vars == <<ui, server>>

Totp == 1..MaxCounter \cup {None}

Forms(k) ==
  CASE k = "login" -> [password: Passwords, totp: Totp]
    [] k = "registration" -> [code: Invitations, name: Names]
    [] k = "recovery" -> [code: RecoveryCodes, password: Passwords, totp: Totp]

Told == {"ok", "rejected", "totp", "error"}
Asked(k) == [at: {"sent", "read", "answered"}, form: Forms(k), seen: Passwords \cup {None}, told: Told \cup {None}]
Exchanges == {None} \cup UNION {Asked(k) : k \in Cards}

CardPages == [code: Invitations \cup RecoveryCodes \cup {None}, loading: BOOLEAN, says: Told \cup {None}, asksTotp: BOOLEAN]
Pages == [card: [Cards -> CardPages], open: BOOLEAN, requests: 0..MaxRequests, uses: CardSets,
          http: [Clients -> [Cards -> Exchanges]]]

TypeOK ==
  /\ ui \in Pages
  /\ \A c \in Clients, k \in Cards : ui.http[c][k] \in Asked(k) \cup {None}
  /\ server \in [password: Passwords, totp: BOOLEAN, counter: 0..MaxCounter, members: SUBSET Names,
                 invitation: [Invitations -> {"active", "used", "revoked"}],
                 recovery: [RecoveryCodes -> {"none", "active", "used", "replaced"}],
                 admitted: [Invitations -> Nat], reset: [RecoveryCodes -> Nat],
                 checked: [1..MaxCounter -> Nat]]

\* code is the invitation or recovery code of the form that was sent, None once
\* the fields are changed or emptied; asksTotp is the validator that makes a
\* TOTP code required.
NewCard == [code |-> None, loading |-> FALSE, says |-> None, asksTotp |-> FALSE]

Init ==
  /\ \E uses \in CardSets :
       ui = [card |-> [k \in Cards |-> NewCard], open |-> FALSE, requests |-> 0, uses |-> uses,
             http |-> [c \in Clients |-> [k \in Cards |-> None]]]
  /\ \E t \in BOOLEAN, p \in Passwords :
       server = [password |-> p, totp |-> t, counter |-> 0, members |-> {},
                 invitation |-> [i \in Invitations |-> "active"],
                 recovery |-> [r \in RecoveryCodes |-> "none"],
                 \* history: users that a code admitted, passwords it set, checks a TOTP code passed
                 admitted |-> [i \in Invitations |-> 0], reset |-> [r \in RecoveryCodes |-> 0],
                 checked |-> [n \in 1..MaxCounter |-> 0]]

Become(u) == ui' = u /\ UNCHANGED server

--------------------------------------------------------------------------------
(* The page.                                                               *)

Sent(form) == [at |-> "sent", form |-> form, seen |-> None, told |-> None]

\* A code is presented once the operator has given it out.
Known(k, form) == k = "recovery" => server.recovery[form.code] # "none"

Ask(u, c, k, form) == [u EXCEPT !.http[c][k] = Sent(form), !.requests = @ + 1]

\* submitLogin, submitRegistration and the submit of the recovery.
Submit(k) ==
  LET card == ui.card[k] IN
  /\ ui.requests < MaxRequests
  /\ ~card.loading /\ (k = "recovery" => ui.open /\ card.says # "ok")
  /\ \E form \in Forms(k) :
       /\ Known(k, form)
       /\ card.asksTotp => form.totp # None
       /\ k = "recovery" /\ ~card.asksTotp => form.totp = None  \* the field is not there
       /\ Become(Ask([ui EXCEPT !.card[k] = [@ EXCEPT !.code = IF k = "login" THEN None ELSE form.code, !.loading = TRUE, !.says = None]],
                     "page", k, form))

\* A rejection is cleared by a change of the fields, an error is not; the
\* fields stay enabled while a form is sent.
Edit(k) ==
  /\ k = "recovery" => ui.open /\ ui.card[k].says # "ok"
  /\ Become([ui EXCEPT !.card[k] = [ui.card[k] EXCEPT !.code = None, !.says = IF @ \in {"rejected", "totp"} THEN None ELSE @]])

\* The animation of a rejection ends, or the timer of a registration.
Fade(k) ==
  /\ ui.card[k].says \in {"rejected", "totp"} \/ (k = "registration" /\ ui.card[k].says = "ok")
  /\ Become([ui EXCEPT !.card[k].says = None])

\* ngOnChanges: the dialog is reset when it opens.
OpenRecovery == "recovery" \in ui.uses /\ ~ui.open /\ Become([ui EXCEPT !.open = TRUE, !.card["recovery"] = NewCard])

CloseRecovery == ui.open /\ ~ui.card["recovery"].loading /\ Become([ui EXCEPT !.open = FALSE])

\* The page that is left and visited again is a new one: what was under way
\* is not waited for.
NewPage ==
  [ui EXCEPT !.card = [k \in Cards |-> NewCard], !.open = FALSE, !.http["page"] = [k \in Cards |-> None]]

Reload == Become(NewPage)

--------------------------------------------------------------------------------
(* The answers.                                                            *)

\* The card says what it was told; a code of TOTP is required from then on.
\* (A registration that succeeds also writes the name into the login card.)
Says(k, told) ==
  [ui EXCEPT !.http["page"][k] = None,
             !.card[k] = [ui.card[k] EXCEPT !.loading = FALSE, !.says = told, !.asksTotp = @ \/ told = "totp"]]

Answer(k) ==
  LET q == ui.http["page"][k]
      u == Says(k, q.told)
  IN  /\ q # None /\ q.at = "answered"
      /\ Become(CASE q.told # "ok" \/ k = "recovery" -> u
                  [] q.told = "ok" /\ k = "login" -> NewPage  \* the authenticated pages, until a logout
                  [] q.told = "ok" /\ k = "registration" -> [u EXCEPT !.card[k].code = None])

\* The request or its answer is lost, or the API refuses for other reasons.
Fail(k) == ui.http["page"][k] # None /\ Become(Says(k, "error"))

\* A rival sends the same forms; nothing depends on what it is answered.
RivalSubmit(k) ==
  /\ ui.requests < MaxRequests
  /\ ui.http["rival"][k] = None
  /\ \E form \in Forms(k) : Known(k, form) /\ Become(Ask(ui, "rival", k, form))

--------------------------------------------------------------------------------
(* The use cases: what they read first.                                    *)

\* The answer that what was read allows, None where the use case goes on.
Refused(k, form) ==
  CASE k = "login" -> IF form.password # server.password THEN "rejected" ELSE None
    [] k = "registration" -> IF server.invitation[form.code] # "active" THEN "rejected" ELSE None
    [] k = "recovery" -> IF server.recovery[form.code] # "active" THEN "rejected" ELSE None

Read(c, k) ==
  LET q == ui.http[c][k] IN
  /\ q # None /\ q.at = "sent"
  /\ LET told == Refused(k, q.form) IN
     Become([ui EXCEPT !.http[c][k] =
               IF told # None /\ c = "rival" THEN None
               ELSE IF told = None THEN [q EXCEPT !.at = "read", !.seen = IF k = "recovery" THEN server.password ELSE None]
               ELSE [q EXCEPT !.at = "answered", !.told = told]])

--------------------------------------------------------------------------------
(* The use cases: what they write, with the conditions of their UPDATEs.   *)

\* verify_totp: the answer of a refusal, or None.
TotpRefused(form) ==
  CASE ~server.totp -> None
    [] server.totp /\ form.totp = None -> "totp"
    [] OTHER -> IF form.totp > server.counter THEN None ELSE "error"

\* The counter moves on with the rest of the transaction.
Checked(form) ==
  IF server.totp THEN [server EXCEPT !.counter = form.totp, !.checked[form.totp] = @ + 1] ELSE server

\* login: the sessions themselves are left to Session.
Login(form) ==
  LET refused == TotpRefused(form)
  IN  IF refused # None THEN <<refused, server>> ELSE <<"ok", Checked(form)>>

\* register_user.
Register(form) ==
  CASE server.invitation[form.code] # "active" -> <<"rejected", server>>
    [] server.invitation[form.code] = "active" /\ form.name \in server.members -> <<"error", server>>  \* rolls back
    [] OTHER -> <<"ok", [server EXCEPT !.invitation[form.code] = "used", !.admitted[form.code] = @ + 1,
                                       !.members = @ \cup {form.name}]>>

\* recover_password, with the password that was read.
Recover(form, seen) ==
  LET refused == TotpRefused(form) IN
  CASE refused # None -> <<refused, server>>
    [] refused = None /\ server.recovery[form.code] # "active" -> <<"rejected", server>>
    [] refused = None /\ server.recovery[form.code] = "active" /\ server.password # seen -> <<"error", server>>
    [] OTHER -> <<"ok", [Checked(form) EXCEPT !.recovery[form.code] = "used", !.reset[form.code] = @ + 1,
                                              !.password = form.password]>>

Write(c, k) ==
  LET q == ui.http[c][k] IN
  /\ q # None /\ q.at = "read"
  /\ LET done == CASE k = "login" -> Login(q.form)
                   [] k = "registration" -> Register(q.form)
                   [] k = "recovery" -> Recover(q.form, q.seen)
     IN  /\ ui' = [ui EXCEPT !.http[c][k] = IF c = "rival" THEN None ELSE [q EXCEPT !.at = "answered", !.told = done[1]]]
         /\ server' = done[2]

--------------------------------------------------------------------------------
(* The operator, and another session of the user.                          *)

RevokeInvitation(i) ==
  /\ "registration" \in ui.uses
  /\ server.invitation[i] = "active"
  /\ server' = [server EXCEPT !.invitation[i] = "revoked"] /\ UNCHANGED ui

\* create_recovery_code: it replaces the active one.
CreateRecoveryCode(r) ==
  /\ "recovery" \in ui.uses
  /\ server.recovery[r] = "none"
  /\ server' = [server EXCEPT !.recovery = [s \in RecoveryCodes |->
                  CASE s = r -> "active" [] @[s] = "active" -> "replaced" [] OTHER -> @[s]]]
  /\ UNCHANGED ui

\* change_password by a session of the user.
ChangePassword(p) ==
  /\ "recovery" \in ui.uses
  /\ p # server.password /\ server' = [server EXCEPT !.password = p] /\ UNCHANGED ui

Next ==
  \/ \E k \in ui.uses : Submit(k) \/ Edit(k) \/ Fade(k) \/ Answer(k) \/ Fail(k) \/ RivalSubmit(k)
  \/ OpenRecovery \/ CloseRecovery \/ Reload
  \/ \E c \in Clients, k \in Cards : Read(c, k) \/ Write(c, k)
  \/ \E i \in Invitations : RevokeInvitation(i)
  \/ \E r \in RecoveryCodes : CreateRecoveryCode(r)
  \/ \E p \in Passwords : ChangePassword(p)

--------------------------------------------------------------------------------
\* A card is loading while its exchange is under way.
BusyIsPending == \A k \in Cards : ui.card[k].loading <=> ui.http["page"][k] # None

\* An invitation admits one user, a recovery code resets the password once,
\* a TOTP code passes once (docs/security.md: "one-time invitation",
\* "one-time code", "the same code cannot be replayed"), whoever presents
\* them at the same time; and a code that was revoked or replaced does nothing.
UsedOnce ==
  /\ \A i \in Invitations : server.admitted[i] = IF server.invitation[i] = "used" THEN 1 ELSE 0
  /\ \A r \in RecoveryCodes : server.reset[r] = IF server.recovery[r] = "used" THEN 1 ELSE 0
  /\ \A n \in 1..MaxCounter : server.checked[n] <= 1

\* What a card says of the code that its fields hold is so: a rejected code is
\* of no use, and the recovery that is done used its code.
SaysWhatIsSo ==
  LET says(k, told) == ui.card[k].says = told /\ ui.card[k].code # None
      code(k) == ui.card[k].code
  IN  /\ says("registration", "rejected") => server.invitation[code("registration")] # "active"
      /\ says("recovery", "rejected") => server.recovery[code("recovery")] # "active"
      /\ says("recovery", "ok") => server.recovery[code("recovery")] = "used"

SettledIsServers == UsedOnce /\ SaysWhatIsSo
================================================================================
