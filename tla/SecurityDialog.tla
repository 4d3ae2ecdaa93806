----------------------------- MODULE SecurityDialog ----------------------------
(***************************************************************************)
(* The security dialog of a user: the password, and the setup of TOTP with *)
(* its secret, QR code and countdown.  The user has one tab.               *)
(*                                                                         *)
(* An exchange is None or a record with what was asked; the server serves  *)
(* it ("answered" or "refused") and then the browser hears of it, or it is *)
(* lost on either way.  Handlers run to their end (the event loop).        *)
(*                                                                         *)
(* Left out: the forms and their validation, the wording of messages, the  *)
(* visibility and the copying of the secret, and clocks: a setup expires   *)
(* at any time, for the server and for the dialog.                         *)
(***************************************************************************)
EXTENDS Naturals

CONSTANTS
  Secrets,  \* the setups that the server may start, one secret each
  None

Slots == {"status", "password", "setup", "confirm", "disable"}
States == {"DISABLED", "PENDING", "ENABLED"}

VARIABLES
  ui,     \* SecurityDialogComponent, SecurityService and the shell
  server  \* the TOTP of the user: its state, the secret of a pending setup, those issued

vars == <<ui, server>>

Asked(what) == [at: {"sent", "answered", "refused"}, what: what]
Exchanges(what) == Asked(what) \cup {None}
Snapshots == [state: States, secret: Secrets \cup {None}]

Pages == [here: BOOLEAN, open: BOOLEAN, totpStatus: States \cup {"unknown"}, secret: Secrets \cup {None},
          qr: Secrets \cup {None}, drawing: SUBSET Secrets, timer: BOOLEAN,
          http: [Slots -> Exchanges(Snapshots \cup Secrets \cup {None})], outlived: BOOLEAN, lost: BOOLEAN]

TypeOK ==
  /\ server \in [state: States, secret: Secrets \cup {None}, issued: SUBSET Secrets]
  /\ ui \in Pages
  /\ ui.http["status"] \in Exchanges(Snapshots \cup {None})
  /\ \A k \in Slots \ {"status"} : ui.http[k] \in Exchanges(Secrets \cup {None})

Init ==
  /\ server \in {[state |-> s, secret |-> None, issued |-> {}] : s \in {"DISABLED", "ENABLED"}}
  /\ ui = [here |-> TRUE, open |-> FALSE, totpStatus |-> "unknown", secret |-> None, qr |-> None,
           drawing |-> {}, timer |-> FALSE, http |-> [k \in Slots |-> None],
           outlived |-> FALSE, lost |-> FALSE]

--------------------------------------------------------------------------------
(* The handlers.                                                           *)

Ask(u, k, what) == [u EXCEPT !.http[k] = [at |-> "sent", what |-> what]]

ResetTotp(u) == [u EXCEPT !.secret = None, !.qr = None, !.timer = FALSE]

\* A status that is asked for is not asked for again, nor is it given up
\* when the dialog closes.
LoadTotpStatus(u) ==
  IF u.http["status"] # None THEN u
  ELSE Ask([ResetTotp(u) EXCEPT !.totpStatus = "unknown"], "status", None)

\* applyPendingTotpSetup: its setup may have expired already; the code is
\* drawn all the same.
Apply(u, secret, expired) ==
  [(IF expired THEN ResetTotp(u) ELSE [u EXCEPT !.secret = secret, !.timer = TRUE])
     EXCEPT !.drawing = @ \cup {secret}, !.outlived = ~u.open /\ ~expired]

Become(u) == ui' = u /\ UNCHANGED server

Loading == ui.http["status"] # None
Busy == \E k \in Slots \ {"status"} : ui.http[k] # None
Shown == ui.here /\ ui.open
SetupShown == Shown /\ ~Loading /\ ui.totpStatus \in {"DISABLED", "PENDING"}

--------------------------------------------------------------------------------
(* The user.                                                               *)

Open ==
  /\ ui.here /\ ~ui.open
  /\ Become(LoadTotpStatus([ResetTotp(ui) EXCEPT !.open = TRUE, !.outlived = FALSE]))

RequestClose == Shown /\ ~Busy /\ Become([ResetTotp(ui) EXCEPT !.open = FALSE])

ChangePassword ==
  /\ Shown /\ ~Loading /\ ui.totpStatus # "unknown" /\ ui.http["password"] = None
  /\ Become(Ask(ui, "password", None))

StartTotpSetup ==
  /\ SetupShown /\ ui.secret = None /\ ui.http["setup"] = None
  /\ Become(Ask(ui, "setup", None))

\* The code that is presented is one for the secret on the screen.
ConfirmTotp ==
  /\ SetupShown /\ ui.secret # None /\ ui.http["confirm"] = None
  /\ Become(Ask(ui, "confirm", ui.secret))

DisableTotp ==
  /\ Shown /\ ~Loading /\ ui.totpStatus = "ENABLED" /\ ui.http["disable"] = None
  /\ Become(Ask(ui, "disable", None))

\* The user logs in again: the dialog that the shell left open opens again.
Return ==
  /\ ~ui.here
  /\ Become(LoadTotpStatus([ui EXCEPT !.here = TRUE]))

--------------------------------------------------------------------------------
(* Timers and promises.                                                    *)

\* updateSetupExpiry, of the countdown or when the tab is visible again.
UpdateSetupExpiry == ui.timer /\ Become(ResetTotp(ui))

\* The code of the secret that was drawn last.
DrawUnchecked(s) ==
  s \in ui.drawing /\ Become([ui EXCEPT !.drawing = @ \ {s}, !.qr = s])

RenderQrCode(s) ==
  /\ s \in ui.drawing
  /\ \E drawn \in {s, None} :
       Become([ui EXCEPT !.drawing = @ \ {s}, !.qr = IF ui.secret = s THEN drawn ELSE @])

--------------------------------------------------------------------------------
(* The server, as the dialog sees it.                                      *)

Reply(k, how, what) == ui' = [ui EXCEPT !.http[k] = [at |-> how, what |-> what]]

\* Any operation may be refused: a wrong password or code, too many requests.
Refuse(k) ==
  /\ k # "status" /\ Reply(k, "refused", None)
  /\ UNCHANGED server

ServeStatus ==
  /\ Reply("status", "answered", [state |-> server.state, secret |-> server.secret])
  /\ UNCHANGED server

\* A setup takes the place of a pending one.
ServeSetup ==
  /\ server.state # "ENABLED"
  /\ \E s \in Secrets \ server.issued :
       /\ server' = [state |-> "PENDING", secret |-> s, issued |-> server.issued \cup {s}]
       /\ Reply("setup", "answered", s)

ServeConfirm ==
  /\ server.state = "PENDING" /\ server.secret = ui.http["confirm"].what
  /\ server' = [server EXCEPT !.state = "ENABLED", !.secret = None]
  /\ Reply("confirm", "answered", None)

ServeDisable ==
  /\ server.state = "ENABLED"
  /\ server' = [server EXCEPT !.state = "DISABLED"]
  /\ Reply("disable", "answered", None)

Serve(k) ==
  /\ ui.http[k] # None /\ ui.http[k].at = "sent"
  /\ \/ Refuse(k)
     \/ k = "status" /\ ServeStatus
     \/ k = "password" /\ Reply(k, "answered", None) /\ UNCHANGED server
     \/ k = "setup" /\ ServeSetup
     \/ k = "confirm" /\ ServeConfirm
     \/ k = "disable" /\ ServeDisable

ServerExpires ==
  /\ server.state = "PENDING"
  /\ server' = [server EXCEPT !.state = "DISABLED", !.secret = None]
  /\ UNCHANGED ui

--------------------------------------------------------------------------------
(* The answers.                                                            *)

Done(k) == [ui EXCEPT !.http[k] = None]

StatusAnswer(expired) ==
  LET q == ui.http["status"]
      known == [Done("status") EXCEPT !.totpStatus = q.what.state, !.lost = FALSE]
  IN  /\ q # None /\ q.at = "answered"
      /\ Become(IF q.what.state = "PENDING" THEN Apply(known, q.what.secret, expired) ELSE known)

\* finishLogout: the dialog goes with its page, and with what it waits for.
PasswordAnswer ==
  /\ ui.http["password"] # None /\ ui.http["password"].at = "answered"
  /\ Become([ResetTotp(ui) EXCEPT !.here = FALSE, !.drawing = {}, !.http = [k \in Slots |-> None]])

SetupAnswer(expired) ==
  LET q == ui.http["setup"]
  IN  q # None /\ q.at = "answered" /\ Become(Apply(Done("setup"), q.what, expired))

ConfirmAnswer ==
  /\ ui.http["confirm"] # None /\ ui.http["confirm"].at = "answered"
  /\ Become([ResetTotp(Done("confirm")) EXCEPT !.totpStatus = "ENABLED"])

DisableAnswer ==
  /\ ui.http["disable"] # None /\ ui.http["disable"].at = "answered"
  /\ Become([ResetTotp(Done("disable")) EXCEPT !.totpStatus = "DISABLED"])

Refused(k) == ui.http[k] # None /\ ui.http[k].at = "refused" /\ Become(Done(k))

\* The request or its answer is lost.
Lose(k) ==
  /\ ui.http[k] # None /\ ui.http[k].at # "refused"
  /\ Become([Done(k) EXCEPT !.lost = @ \/ (ui.http[k].at = "answered" /\ k \in {"confirm", "disable"})])

Next ==
  \/ Open \/ RequestClose \/ ChangePassword \/ StartTotpSetup \/ ConfirmTotp \/ DisableTotp \/ Return
  \/ UpdateSetupExpiry
  \/ \E s \in Secrets : RenderQrCode(s)
  \/ \E k \in Slots : Serve(k) \/ Refused(k) \/ Lose(k)
  \/ ServerExpires
  \/ \E expired \in BOOLEAN : StatusAnswer(expired) \/ SetupAnswer(expired)
  \/ PasswordAnswer \/ ConfirmAnswer \/ DisableAnswer

--------------------------------------------------------------------------------
\* The QR code is the one of the secret beside it, a secret is held exactly
\* while its countdown runs, and in a closed dialog only when a late status
\* brought it there.
SecretsStayInView ==
  /\ ui.qr # None => ui.qr = ui.secret
  /\ ui.timer <=> ui.secret # None
  /\ ui.secret # None => ui.open \/ ui.outlived

\* A dialog that waits for nothing shows whether TOTP is enabled, unless an
\* answer was lost, and never a secret that another setup has replaced.
SettledIsServers ==
  /\ Shown /\ ~Loading /\ ~Busy /\ ~ui.lost /\ ui.totpStatus # "unknown"
       => (ui.totpStatus = "ENABLED" <=> server.state = "ENABLED")
  /\ ui.secret # None /\ server.state = "PENDING" /\ ~Busy => ui.secret = server.secret
================================================================================
