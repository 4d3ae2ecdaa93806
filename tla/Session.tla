--------------------------------- MODULE Session -------------------------------
(***************************************************************************)
(* The session of a browser: the backend's auth and remember sessions, the *)
(* cookies that the tabs share, and in each tab AuthService, its guards    *)
(* and the interceptor that renews an expired session.                     *)
(*                                                                         *)
(* A tab is a record that its handlers transform; each handler runs to its *)
(* end before the next one (the browser's event loop).  An HTTP exchange   *)
(* takes the cookies when it is sent, is served later, and its answer sets *)
(* the cookies when it arrives.  Tokens are numbered as they are issued.   *)
(*                                                                         *)
(* Left out: which user logs in and the name that is stored, the checks of *)
(* passwords and TOTP (they can only refuse a login), rate limits (a lost  *)
(* answer), loading the code of a page, a clock that is set back (rotate   *)
(* then refuses), and the max_age of the remember cookie: it is counted    *)
(* anew at each refresh, so the cookie outlives the row.                   *)
(***************************************************************************)
EXTENDS Integers, FiniteSets

CONSTANTS
  Tabs,       \* the tabs of one browser
  Calls,      \* protected requests
  Makes,      \* what each tab's user does: calls, "login", "logout", and opens
  Refreshes,  \* observables of a refresh that a tab can hold at once
  MaxTokens,  \* bound: pairs of tokens that the server issues
  MaxExcuses, \* bound: kinds of events after which a login may be lost
  None        \* no refresh, no row

\* Why a remembered browser may have to log in again.
Excuses == {"lost_answer", "logged_out", "all_sessions_revoked", "remember_expired",
            "not_remembered", "other_tab"}

NoToken == 0
NoCookies == [session |-> NoToken, remember |-> NoToken]
Slots == {"login", "logout", "guard"} \cup Calls \cup Refreshes
Requests == {"login", "remembered_login", "logout", "session", "refresh", "call", "retry"}

ASSUME SessionAssumption ==
  /\ Calls \cap Refreshes = {}
  /\ (Calls \cup Refreshes) \cap {"login", "logout", "guard"} = {}
  /\ Refreshes # {} /\ None \notin Refreshes
  /\ Makes \in [Tabs -> SUBSET (Calls \cup {"login", "logout", "landing", "home"})]
  /\ MaxTokens \in Nat /\ MaxExcuses \in Nat

VARIABLES
  sessions,   \* tokens of the auth sessions that are active
  remembers,  \* remember sessions not expired: a row, known by its first token, and its token now
  issued,     \* tokens issued so far
  jar,        \* the cookies of the browser
  tab,        \* the state of each tab
  excused     \* history: what has happened after which a login may be lost

vars == <<sessions, remembers, issued, jar, tab, excused>>

Tokens == 0..MaxTokens
Cookies == [session: Tokens, remember: Tokens]
Idle == [at |-> "idle", req |-> "session", cookie |-> NoCookies, row |-> NoToken, on |-> None]
Exchange ==
  [at: {"idle", "sent", "found", "answered", "refused", "waiting", "failed"},
   req: Requests, cookie: Cookies, row: Tokens, on: Refreshes \cup {None}]
TabState ==
  [authenticated: {"unknown", "yes", "no"}, page: {"none", "landing", "home"},
   nav: {"none", "landing", "home"}, refreshRequest: Refreshes \cup {None},
   http: [Slots -> Exchange]]

TypeOK ==
  /\ sessions \subseteq Tokens \ {NoToken}
  /\ remembers \subseteq [row: Tokens \ {NoToken}, token: Tokens \ {NoToken}]
  /\ issued \in Tokens
  /\ jar \in Cookies
  /\ tab \in [Tabs -> TabState]
  /\ excused \subseteq Excuses

Live == {m.token : m \in remembers}

Init ==
  /\ sessions = {} /\ remembers = {} /\ issued = 0
  /\ jar = NoCookies
  /\ tab = [t \in Tabs |-> [authenticated |-> "unknown", page |-> "none", nav |-> "none",
                            refreshRequest |-> None, http |-> [k \in Slots |-> Idle]]]
  /\ excused = {}

--------------------------------------------------------------------------------
(* The handlers of a tab b; c are the cookies of the browser.              *)

\* The cookies of c that the request presents and the server looks at.
Presents(req, c) ==
  CASE req = "refresh" -> [c EXCEPT !.session = NoToken]
    [] req \in {"session", "call", "retry"} -> [c EXCEPT !.remember = NoToken]
    [] OTHER -> c

Sent(req, c) == [Idle EXCEPT !.at = "sent", !.req = req, !.cookie = Presents(req, c)]
Ask(b, k, req, c) == [b EXCEPT !.http[k] = Sent(req, c)]

Await(b, k, r) == [b EXCEPT !.http[k].at = "waiting", !.http[k].on = r]

\* Every call gets an exchange of its own.
RefreshUnshared(b, k, c) ==
  LET r == CHOOSE r \in Refreshes : b.http[r].at = "idle"
  IN  IF \E f \in Refreshes : b.http[f].at = "idle"
      THEN Await([Ask(b, r, "refresh", c) EXCEPT !.refreshRequest = r], k, r)
      ELSE b

\* AuthService.refreshSession, and the subscription of slot k to it.
RefreshSession(b, k, c) ==
  IF b.refreshRequest # None THEN Await(b, k, b.refreshRequest)
  ELSE LET r == CHOOSE r \in Refreshes : b.http[r].at = "idle"
       IN  Await([Ask(b, r, "refresh", c) EXCEPT !.refreshRequest = r], k, r)

\* The router enters target: guestGuard before the landing page, authGuard
\* before the others.  ensureSession asks the server unless it knows.
Navigate(b, target, c) ==
  IF b.authenticated = "yes"
  THEN [b EXCEPT !.page = "home", !.nav = "none", !.http["guard"] = Idle]
  ELSE Ask([b EXCEPT !.nav = target], "guard", "session", c)

\* The guard of the navigation gets its answer: it lets the navigation
\* through or redirects to the page of the other guard.
Guarded(b, valid, c) ==
  LET known == [b EXCEPT !.authenticated = IF valid THEN "yes" ELSE "no", !.http["guard"] = Idle]
  IN  IF valid # (b.nav = "home") THEN Navigate(known, IF valid THEN "home" ELSE "landing", c)
      ELSE [known EXCEPT !.page = b.nav, !.nav = "none"]

\* AuthService.finishLogout: the router ignores the URL it is already at.
FinishLogout(b, c) ==
  LET out == [b EXCEPT !.authenticated = "no"]
  IN  IF b.page = "landing" /\ b.nav = "none" THEN out ELSE Navigate(out, "landing", c)

\* Only one of the callers hears the end of a refresh.
RefreshTellsOne(b, r, valid, c) ==
  LET over == [b EXCEPT !.authenticated = IF valid THEN "yes" ELSE "no",
                        !.refreshRequest = None, !.http[r] = Idle]
      told == {l \in Slots : b.http[l].at = "waiting" /\ b.http[l].on = r}
      k == CHOOSE l \in told : TRUE
  IN  IF told = {} THEN over
      ELSE IF k = "guard" THEN Guarded(over, valid, c)
      ELSE IF valid THEN Ask(over, k, "retry", c)
      ELSE FinishLogout([over EXCEPT !.http[k] = [Idle EXCEPT !.at = "failed"]], c)

\* The exchange of a refresh is over; all its subscribers hear at once.
RefreshEnds(b, r, valid, c) ==
  LET over == [b EXCEPT !.authenticated = IF valid THEN "yes" ELSE "no",
                        !.refreshRequest = None, !.http[r] = Idle]
      waiting == {k \in Calls : b.http[k].at = "waiting" /\ b.http[k].on = r}
      told == [over EXCEPT !.http =
                 [k \in Slots |-> CASE k \in waiting /\ valid -> Sent("retry", c)
                                    [] k \in waiting /\ ~valid -> [Idle EXCEPT !.at = "failed"]
                                    [] OTHER -> over.http[k]]]
  IN  IF waiting # {} /\ ~valid THEN FinishLogout(told, c)
      ELSE IF b.http["guard"].at = "waiting" /\ b.http["guard"].on = r
      THEN Guarded(told, valid, c)
      ELSE told

\* The tab after the answer to slot k: "answered", "refused" or "lost".
Answer(b, k, how, c) ==
  LET req == b.http[k].req
      done == [b EXCEPT !.http[k] = Idle]
  IN CASE k = "login" /\ how = "answered" ->
            Navigate([done EXCEPT !.authenticated = "yes"], "home", c)
       [] k = "login" /\ how # "answered" -> done
       [] k = "logout" /\ how # "lost" -> FinishLogout(done, c)
       [] k = "logout" /\ how = "lost" -> done
       [] k = "guard" /\ how = "refused" -> RefreshSession(b, k, c)
       [] k = "guard" /\ how # "refused" -> Guarded(b, how = "answered", c)
       [] k \in Refreshes /\ how = "answered" /\ req = "refresh" -> Ask(b, k, "session", c)
       [] k \in Refreshes /\ (how # "answered" \/ req = "session") ->
            RefreshEnds(b, k, how = "answered", c)
       [] k \in Calls /\ how = "refused" /\ req = "call" -> RefreshSession(b, k, c)
       [] k \in Calls /\ how = "refused" /\ req = "retry" ->
            FinishLogout([b EXCEPT !.http[k] = [Idle EXCEPT !.at = "failed"]], c)
       [] k \in Calls /\ how # "refused" -> done

--------------------------------------------------------------------------------
(* The user.                                                               *)

Server == <<sessions, remembers, issued>>

\* A login that is not remembered, a logout, a lost answer, a revocation or
\* the end of a remember session, once each and as long as the bound allows.
Excuse(reason) ==
  /\ reason \notin excused
  /\ Cardinality(excused \cup {reason}) <= MaxExcuses
  /\ excused' = excused \cup {reason}

\* A tab is opened at a page of the application.
Open(t, target) ==
  /\ target \in Makes[t]
  /\ tab[t].page = "none" /\ tab[t].nav = "none"
  /\ tab' = [tab EXCEPT ![t] = Navigate(@, target, jar)]
  /\ UNCHANGED <<Server, jar, excused>>

\* submitLogin: one at a time, from the landing page.
Login(t, req) ==
  /\ "login" \in Makes[t]
  /\ tab[t].page = "landing" /\ tab[t].nav = "none"
  /\ tab[t].http["login"].at = "idle"
  /\ tab' = [tab EXCEPT ![t] = Ask(@, "login", req, jar)]
  /\ IF req = "login" THEN Excuse("not_remembered") ELSE UNCHANGED excused
  /\ UNCHANGED <<Server, jar>>

\* AuthenticatedShellService.logout: one at a time.
Logout(t) ==
  /\ "logout" \in Makes[t]
  /\ tab[t].page = "home"
  /\ tab[t].http["logout"].at = "idle"
  /\ tab' = [tab EXCEPT ![t] = Ask(@, "logout", "logout", jar)]
  /\ Excuse("logged_out")
  /\ UNCHANGED <<Server, jar>>

\* A page of the application asks the API for something.
Call(t, k) ==
  /\ k \in Makes[t]
  /\ tab[t].page = "home"
  /\ tab[t].http[k].at = "idle"
  /\ tab' = [tab EXCEPT ![t] = Ask(@, k, "call", jar)]
  /\ UNCHANGED <<Server, jar, excused>>

--------------------------------------------------------------------------------
(* The server.  SELECTs before the first write of a use case are outside   *)
(* of its transaction.                                                     *)

Reply(t, k, how, cookies) ==
  tab' = [tab EXCEPT ![t].http[k] = [@ EXCEPT !.at = how, !.cookie = cookies, !.row = NoToken]]

\* A token that no row has is taken for one of row NoToken.
RowUpserted(token) ==
  LET found == {m.row : m \in {n \in remembers : n.token = token}}
  IN  IF found = {} THEN {NoToken} ELSE found

\* The row of the remember session with this token, if there is one.
Row(token) == {m.row : m \in {n \in remembers : n.token = token}}

\* Another tab has an exchange under way that spends or replaces tokens.
Contended(t) ==
  \E u \in Tabs \ {t} : \E k \in Slots :
    /\ tab[u].http[k].at \in {"sent", "found", "answered"}
    /\ tab[u].http[k].req \in {"refresh", "login", "remembered_login"}

\* require_authenticated_user, for every request that needs a session.
ServeProtected(t, k) ==
  LET q == tab[t].http[k] IN
  /\ q.at = "sent" /\ q.req \in {"session", "call", "retry"}
  /\ Reply(t, k, IF q.cookie.session \in sessions THEN "answered" ELSE "refused", NoCookies)
  /\ UNCHANGED <<Server, jar, excused>>

\* refresh_session: rotate is one UPDATE of the row that has that token and
\* has not expired; it leaves expires_at as it is.
ServeRefresh(t, k) ==
  LET q == tab[t].http[k]
      row == Row(q.cookie.remember)
      new == issued + 1
  IN
  /\ q.at = "sent" /\ q.req = "refresh"
  /\ IF row = {}
     THEN /\ Reply(t, k, "refused", NoCookies)
          /\ UNCHANGED Server
     ELSE /\ issued < MaxTokens
          /\ issued' = new
          /\ sessions' = sessions \cup {new}
          /\ remembers' = {m \in remembers : m.token # q.cookie.remember}
                          \cup {[row |-> r, token |-> new] : r \in row}
          /\ Reply(t, k, "answered", [session |-> new, remember |-> new])
  /\ excused' = IF Contended(t) \/ q.cookie.remember # jar.remember
                THEN excused \cup {"other_tab"} ELSE excused
  /\ UNCHANGED jar

\* _delete_presented_sessions reads the remember session before the first
\* write unless it has deleted an auth session.
FindRemembered(t, k) ==
  LET q == tab[t].http[k] IN
  /\ q.at = "sent" /\ k \in {"login", "logout"}
  /\ q.cookie.session \notin sessions
  /\ \E r \in Row(q.cookie.remember) :
       tab' = [tab EXCEPT ![t].http[k] = [@ EXCEPT !.at = "found", !.row = r]]
  /\ UNCHANGED <<Server, jar, excused>>

\* _delete_presented_sessions, then the new sessions of login.
ServeLogin(t, k) ==
  LET q == tab[t].http[k]
      row == IF q.at = "found" THEN {q.row} ELSE Row(q.cookie.remember)
      kept == {m \in remembers : m.row \notin row}
      new == issued + 1
      remembered == q.req = "remembered_login"
  IN
  /\ k \in {"login", "logout"}
  /\ \/ q.at = "found"
     \/ q.at = "sent" /\ (q.cookie.session \in sessions \/ Row(q.cookie.remember) = {})
  /\ IF k = "logout"
     THEN /\ sessions' = sessions \ {q.cookie.session}
          /\ remembers' = kept
          /\ Reply(t, k, "answered", NoCookies)
          /\ UNCHANGED issued
     ELSE /\ issued < MaxTokens
          /\ issued' = new
          /\ sessions' = (sessions \ {q.cookie.session}) \cup {new}
          /\ remembers' = kept \cup (IF remembered THEN {[row |-> new, token |-> new]} ELSE {})
          /\ Reply(t, k, "answered",
                   [session |-> new, remember |-> IF remembered THEN new ELSE NoToken])
  /\ excused' = IF Contended(t) \/ \E u \in Tabs \ {t} : tab[u].page = "home"
                THEN excused \cup {"other_tab"} ELSE excused
  /\ UNCHANGED jar

\* The timeouts of an auth session that somebody still presents.  They are
\* longer than the exchanges that follow its creation.
Expire(s) ==
  /\ s \in sessions
  /\ s = jar.session \/ \E t \in Tabs : \E k \in Slots : tab[t].http[k].cookie.session = s
  /\ \A t \in Tabs :
       /\ tab[t].refreshRequest = None
       /\ \A k \in Slots : tab[t].http[k].cookie.session = s =>
            tab[t].http[k].at = "sent" /\ tab[t].http[k].req = "call"
  /\ sessions' = sessions \ {s}
  /\ UNCHANGED <<remembers, issued, jar, tab, excused>>

\* 30 days after its login a remember session that somebody still presents
\* expires, however often it was refreshed.  From then on its row does what
\* no row does: rotate refuses it, and a login or a logout deletes it.
ExpireRemembered(m) ==
  /\ m \in remembers
  /\ m.token = jar.remember
     \/ \E t \in Tabs : \E k \in Slots : tab[t].http[k].cookie.remember = m.token
  /\ remembers' = remembers \ {m}
  /\ Excuse("remember_expired")
  /\ UNCHANGED <<sessions, issued, jar, tab>>

\* A password recovery, or user disable-mfa, revokes the user's sessions.
Revoke ==
  /\ sessions' = {} /\ remembers' = {}
  /\ Excuse("all_sessions_revoked")
  /\ UNCHANGED <<issued, jar, tab>>

--------------------------------------------------------------------------------
(* The network.                                                            *)

\* The cookies of a refresh are not kept.
SetsCookiesOnLogin(q) == q.at = "answered" /\ q.req \in {"login", "remembered_login", "logout"}

SetsCookies(q) == q.at = "answered" /\ q.req \in {"login", "remembered_login", "logout", "refresh"}

\* The answer arrives: the browser sets its cookies, then the tab handles it.
Receive(t, k) ==
  LET q == tab[t].http[k]
      cookies == IF SetsCookies(q) THEN q.cookie ELSE jar
  IN
  /\ q.at \in {"answered", "refused"}
  /\ jar' = cookies
  /\ tab' = [tab EXCEPT ![t] = Answer(@, k, q.at, cookies)]
  /\ UNCHANGED <<Server, excused>>

\* The request or its answer is lost.
Lose(t, k) ==
  /\ tab[t].http[k].at \in {"sent", "answered", "refused"}
  /\ tab' = [tab EXCEPT ![t] = Answer(@, k, "lost", jar)]
  /\ Excuse("lost_answer")
  /\ UNCHANGED <<Server, jar>>

--------------------------------------------------------------------------------
Serve(t, k) == ServeProtected(t, k) \/ ServeRefresh(t, k) \/ FindRemembered(t, k) \/ ServeLogin(t, k)

Next ==
  \/ \E t \in Tabs :
       \/ \E target \in {"landing", "home"} : Open(t, target)
       \/ \E req \in {"login", "remembered_login"} : Login(t, req)
       \/ Logout(t)
       \/ \E k \in Calls : Call(t, k)
       \/ \E k \in Slots : Serve(t, k) \/ Receive(t, k) \/ Lose(t, k)
  \/ \E s \in sessions : Expire(s)
  \/ \E m \in remembers : ExpireRemembered(m)
  \/ Revoke

\* The server answers each request and the browser hears of it: a slot is
\* served and received in turn.  Nothing is asked of a login or a logout.
Fairness ==
  \A t \in Tabs : \A k \in Slots \ {"login", "logout"} : WF_vars(Serve(t, k) \/ Receive(t, k))

Spec == Init /\ [][Next]_vars /\ Fairness

--------------------------------------------------------------------------------
\* While nothing has excused it (a lost answer, a logout, a revocation, the
\* 30 days of a remembered login, a login that asked not to be remembered,
\* another tab that spent the same token), no request of a remembered browser fails for its session and no
\* tab with the application open is logged out: the refresh that
\* concurrent requests share never presents a token that is already spent.
RememberedStaysIn ==
  excused = {} => \A t \in Tabs :
    /\ \A k \in Calls : tab[t].http[k].at # "failed"
    /\ tab[t].page = "home" => tab[t].authenticated = "yes" \/ tab[t].http["guard"].at # "idle"

\* When no exchange that sets cookies is under way, the remember token of
\* the browser is one that the server accepts: the answers of several tabs,
\* in any order, never leave a spent token in the cookies.  A lost answer
\* may, a revocation and the end of the 30 days do, and so may a login or a
\* logout that races a refresh of another tab.
JarUnbroken ==
  (/\ excused \subseteq {"not_remembered"}
   /\ \A t \in Tabs : \A k \in Slots :
        ~(tab[t].http[k].req \in Requests \ {"session", "call", "retry"}
          /\ tab[t].http[k].at \in {"sent", "found", "answered", "refused"}))
  => jar.remember \in Live \cup {NoToken}

\* The bound keeps the server from answering a login or a refresh.
OutOfTokens ==
  issued = MaxTokens /\ \E t \in Tabs : \E k \in Slots :
    tab[t].http[k].at = "sent" /\ tab[t].http[k].req \in {"login", "remembered_login", "refresh"}

\* A request that was refused and waits for a new session is retried or
\* fails, and every navigation ends, unless the bound stops the server: no
\* refresh leaves its callers waiting.
CallsEnd ==
  \A t \in Tabs :
    (tab[t].nav # "none" \/ \E k \in Calls : tab[t].http[k].at = "waiting")
    ~> (OutOfTokens \/ (tab[t].nav = "none" /\ \A k \in Calls : tab[t].http[k].at # "waiting"))
================================================================================
