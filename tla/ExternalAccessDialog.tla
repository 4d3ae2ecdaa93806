-------------------------- MODULE ExternalAccessDialog -------------------------
(***************************************************************************)
(* The dialog with the external accesses of a ledger: its list, a form     *)
(* that creates an access and shows its token once, a form that revokes    *)
(* one.  It hangs in the selector, on a ledger that stays, or in the       *)
(* ledger's layout, on the ledger of the context: that one is replaced     *)
(* when the answer to its access arrives or the URL goes to another        *)
(* ledger, which resets the dialog.  Exchanges as in SecurityDialog.       *)
(*                                                                         *)
(* Left out: the forms and their validation (with the code that they ask   *)
(* of a user with TOTP), the wording of messages, the copying of a token.  *)
(***************************************************************************)
EXTENDS Naturals, Sequences, FiniteSets, Arrays

CONSTANTS
  Ledgers,
  Grants,       \* the accesses that the server may create, with a token each
  MaxAccesses,  \* MAXIMUM_EXTERNAL_ACCESSES_PER_LEDGER
  None

Slots == {"list", "totp", "create", "revoke"}

VARIABLES
  ui,     \* ExternalAccessDialogComponent and its host
  server  \* the active accesses of each ledger, and all that were ever created

vars == <<ui, server>>

Asked(what) == [at: {"sent", "answered", "refused"}, ledger: Ledgers, what: what]
Exchanges(what) == Asked(what) \cup {None}

Pages == [host: {"selector", "layout"}, ledger: Ledgers, open: BOOLEAN, view: {"list", "create", "created", "revoke"},
          accesses: Seq(Grants), selected: Grants \cup {None}, token: Grants \cup {None},
          http: [Slots -> Exchanges((SUBSET Grants) \cup Grants \cup {None})],
          loading: BOOLEAN, loadError: BOOLEAN, loadingTotp: BOOLEAN, totpError: BOOLEAN, totpKnown: BOOLEAN,
          creating: BOOLEAN, revoking: BOOLEAN, rebound: BOOLEAN, lost: BOOLEAN]

TypeOK ==
  /\ server \in [active: [Ledgers -> SUBSET Grants], created: SUBSET Grants]
  /\ ui \in Pages
  /\ ui.http["list"] \in Exchanges(SUBSET Grants)
  /\ \A k \in Slots \ {"list"} : ui.http[k] \in Exchanges(Grants \cup {None})

Init ==
  /\ server = [active |-> [l \in Ledgers |-> {}], created |-> {}]
  /\ ui \in {[host |-> h, ledger |-> l, open |-> FALSE, view |-> "list", accesses |-> <<>>,
              selected |-> None, token |-> None, http |-> [k \in Slots |-> None],
              loading |-> FALSE, loadError |-> FALSE, loadingTotp |-> FALSE, totpError |-> FALSE,
              totpKnown |-> FALSE, creating |-> FALSE, revoking |-> FALSE,
              rebound |-> FALSE, lost |-> FALSE] : h \in {"selector", "layout"}, l \in Ledgers}

--------------------------------------------------------------------------------
(* The handlers.                                                           *)

Ask(u, k, what) == [u EXCEPT !.http[k] = [at |-> "sent", ledger |-> u.ledger, what |-> what]]

\* The reads go on.
ResetButReads(u) ==
  [u EXCEPT !.view = "list", !.accesses = <<>>, !.selected = None, !.token = None,
            !.loading = FALSE, !.loadingTotp = FALSE, !.creating = FALSE, !.revoking = FALSE,
            !.loadError = FALSE, !.totpError = FALSE]

\* The reads are given up (dialogReset), a creation or revocation is not.
ResetDialog(u) ==
  [u EXCEPT !.view = "list", !.accesses = <<>>, !.selected = None, !.token = None,
            !.http["list"] = None, !.http["totp"] = None,
            !.loading = FALSE, !.loadingTotp = FALSE, !.creating = FALSE, !.revoking = FALSE,
            !.loadError = FALSE, !.totpError = FALSE]

LoadAccesses(u) == Ask([u EXCEPT !.loading = TRUE, !.loadError = FALSE], "list", {})

LoadTotpStatus(u) ==
  Ask([u EXCEPT !.loadingTotp = TRUE, !.totpError = FALSE, !.totpKnown = FALSE], "totp", None)

\* The effect on open and ledger.
Effect(u) ==
  IF u.open THEN LoadTotpStatus(LoadAccesses(ResetDialog(u))) ELSE [u EXCEPT !.token = None]

Become(u) == ui' = u /\ UNCHANGED server

Busy == ui.creating \/ ui.revoking
LimitReached == Len(ui.accesses) >= MaxAccesses
ListShown == ui.open /\ ui.view = "list"

--------------------------------------------------------------------------------
(* The user, and the host.                                                 *)

Open == ~ui.open /\ Become(Effect([ui EXCEPT !.open = TRUE]))

\* The context of the layout gets the ledger anew, or another one.  Bound:
\* once, and a form is not sent again beside what that left under way.
Rebind(l) ==
  /\ ui.host = "layout" /\ ~ui.rebound
  /\ Become(Effect([ui EXCEPT !.ledger = l, !.rebound = TRUE]))

RequestClose == ui.open /\ ~Busy /\ Become(Effect([ResetDialog(ui) EXCEPT !.open = FALSE]))

RetryAccesses == ListShown /\ ui.loadError /\ ~ui.loading /\ Become(LoadAccesses(ui))

RetryTotpStatus == ListShown /\ ui.totpError /\ ~ui.loadingTotp /\ Become(LoadTotpStatus(ui))

ShowCreate ==
  /\ ListShown /\ ~ui.loading /\ ui.totpKnown /\ ~LimitReached
  /\ Become([ui EXCEPT !.token = None, !.selected = None, !.view = "create"])

ShowRevoke(g) ==
  /\ ListShown /\ ~ui.loading /\ ~ui.loadError /\ ui.totpKnown /\ g \in Range(ui.accesses)
  /\ Become([ui EXCEPT !.token = None, !.selected = g, !.view = "revoke"])

\* showList, from a form, and finishCreated.
ShowList ==
  /\ ui.open /\ ui.view \in {"create", "created", "revoke"} /\ ~Busy
  /\ Become([ui EXCEPT !.token = None, !.selected = None, !.view = "list"])

CreateAccess ==
  /\ ui.open /\ ui.view = "create" /\ ui.totpKnown /\ ~LimitReached /\ ~ui.creating
  /\ ui.http["create"] = None
  /\ Become(Ask([ui EXCEPT !.creating = TRUE], "create", None))

RevokeAccess ==
  /\ ui.open /\ ui.view = "revoke" /\ ui.selected # None /\ ui.totpKnown /\ ~ui.revoking
  /\ ui.http["revoke"] = None
  /\ Become(Ask([ui EXCEPT !.revoking = TRUE], "revoke", ui.selected))

--------------------------------------------------------------------------------
(* The server, as the dialog sees it.                                      *)

Reply(k, how, what) == ui' = [ui EXCEPT !.http[k] = [at |-> how, ledger |-> @.ledger, what |-> what]]

ServeList ==
  /\ Reply("list", "answered", server.active[ui.http["list"].ledger])
  /\ UNCHANGED server

ServeCreate ==
  LET l == ui.http["create"].ledger IN
  /\ Cardinality(server.active[l]) < MaxAccesses
  /\ \E g \in Grants \ server.created :
       /\ server' = [server EXCEPT !.active[l] = @ \cup {g}, !.created = @ \cup {g}]
       /\ Reply("create", "answered", g)

ServeRevoke ==
  LET q == ui.http["revoke"] IN
  /\ q.what \in server.active[q.ledger]
  /\ server' = [server EXCEPT !.active[q.ledger] = @ \ {q.what}]
  /\ Reply("revoke", "answered", q.what)

\* A form may be refused: wrong credentials, the limit, no such access.
Serve(k) ==
  /\ ui.http[k] # None /\ ui.http[k].at = "sent"
  /\ \/ k \in {"create", "revoke"} /\ Reply(k, "refused", ui.http[k].what) /\ UNCHANGED server
     \/ k = "list" /\ ServeList
     \/ k = "totp" /\ Reply(k, "answered", None) /\ UNCHANGED server
     \/ k = "create" /\ ServeCreate
     \/ k = "revoke" /\ ServeRevoke

--------------------------------------------------------------------------------
(* The answers.                                                            *)

Answered(k) == ui.http[k] # None /\ ui.http[k].at = "answered"
Ended(k) ==
  CASE k = "list" -> [ui EXCEPT !.http[k] = None, !.loading = FALSE]
    [] k = "totp" -> [ui EXCEPT !.http[k] = None, !.loadingTotp = FALSE]
    [] k = "create" -> [ui EXCEPT !.http[k] = None, !.creating = FALSE]
    [] k = "revoke" -> [ui EXCEPT !.http[k] = None, !.revoking = FALSE]

ListAnswer ==
  /\ Answered("list")
  /\ Become([Ended("list") EXCEPT !.accesses = Listed(ui.http["list"].what), !.lost = FALSE])

TotpAnswer == Answered("totp") /\ Become([Ended("totp") EXCEPT !.totpKnown = TRUE])

CreateAnswer ==
  /\ Answered("create")
  /\ LET g == ui.http["create"].what
     IN  Become([Ended("create") EXCEPT !.accesses = <<g>> \o @, !.token = g, !.view = "created"])

RevokeAnswer ==
  /\ Answered("revoke")
  /\ Become([Ended("revoke") EXCEPT !.accesses = Filter(@, Grants \ {ui.http["revoke"].what}),
                                    !.selected = None, !.view = "list"])

\* handleCredentialError leaves the form as it is.
Refused(k) == ui.http[k] # None /\ ui.http[k].at = "refused" /\ Become(Ended(k))

\* The request or its answer is lost.
Lose(k) ==
  /\ ui.http[k] # None /\ ui.http[k].at # "refused"
  /\ Become([Ended(k) EXCEPT
       !.loadError = @ \/ k = "list", !.totpError = @ \/ k = "totp",
       !.lost = @ \/ (k \in {"create", "revoke"} /\ ui.http[k].at = "answered")])

Next ==
  \/ Open \/ RequestClose \/ RetryAccesses \/ RetryTotpStatus \/ ShowCreate \/ ShowList
  \/ CreateAccess \/ RevokeAccess
  \/ \E l \in Ledgers : Rebind(l)
  \/ \E g \in Grants : ShowRevoke(g)
  \/ \E k \in Slots : Serve(k) \/ Refused(k) \/ Lose(k)
  \/ ListAnswer \/ TotpAnswer \/ CreateAnswer \/ RevokeAnswer

--------------------------------------------------------------------------------
\* A read is shown as loading, and a form as busy, while it is under way; a
\* reset by the host forgets only the forms.
BusyIsPending ==
  /\ ui.loading <=> ui.http["list"] # None
  /\ ui.loadingTotp <=> ui.http["totp"] # None
  /\ ui.creating => ui.http["create"] # None
  /\ ui.revoking => ui.http["revoke"] # None
  /\ ~ui.rebound => /\ ui.http["create"] # None => ui.creating
                    /\ ui.http["revoke"] # None => ui.revoking

\* A token is held only by the screen that shows it once; a creation that a
\* reset by the host outlives may bring it elsewhere.
SecretsStayInView == ui.token # None /\ ~ui.rebound => ui.open /\ ui.view = "created"

\* A dialog that waits for nothing lists the active accesses, each once,
\* unless an answer was lost or the host has reset it.
SettledIsServers ==
  ui.open /\ ~ui.loadError /\ ~ui.rebound /\ ~ui.lost /\ (\A k \in Slots \ {"totp"} : ui.http[k] = None)
    => /\ Range(ui.accesses) = server.active[ui.ledger]
       /\ IsInjective(ui.accesses)
       /\ ui.view = "revoke" => ui.selected \in Range(ui.accesses)
================================================================================
