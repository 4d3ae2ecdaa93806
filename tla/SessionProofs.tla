----------------------------- MODULE SessionProofs -----------------------------
(***************************************************************************)
(* Type correctness of Session and the two promises of its tokens, for any *)
(* number of tabs, requests and tokens.                                    *)
(*                                                                         *)
(* The handlers of a tab come first, each with what it leaves of the tab;  *)
(* then what holds of a tab by itself; then the cookies and the server.    *)
(***************************************************************************)
EXTENDS Session, TLAPS

--------------------------------------------------------------------------------
(* What the handlers leave of a tab *)

LEMMA SlotsDiffer ==
  /\ \A k \in Calls : k \in Slots /\ k \notin Refreshes /\ k # "login" /\ k # "logout" /\ k # "guard"
  /\ \A k \in Refreshes : k \in Slots /\ k \notin Calls /\ k # "login" /\ k # "logout" /\ k # "guard"
                          /\ k # None
  /\ "login" \in Slots /\ "logout" \in Slots /\ "guard" \in Slots
  /\ "login" # "logout" /\ "login" # "guard" /\ "logout" # "guard"
  /\ \A k \in Slots : k \in Calls \/ k \in Refreshes \/ k \in {"login", "logout", "guard"}
  BY SessionAssumption DEF Slots

LEMMA TokenTypes ==
  /\ NoToken \in Tokens /\ NoCookies \in Cookies
  /\ Idle \in Exchange /\ Idle.at = "idle" /\ Idle.req = "session" /\ Idle.cookie = NoCookies
  BY SessionAssumption DEF NoToken, Tokens, NoCookies, Cookies, Idle, Exchange, Requests

LEMMA ExchangeSent ==
  ASSUME NEW req \in Requests, NEW c \in Cookies
  PROVE  /\ Sent(req, c) \in Exchange
         /\ Sent(req, c).at = "sent" /\ Sent(req, c).req = req
         /\ Sent(req, c).cookie = Presents(req, c)
         /\ Presents(req, c) \in Cookies
<1>1. Presents(req, c) \in Cookies
  BY TokenTypes DEF Presents, Cookies
<1>2. Idle \in Exchange
  BY TokenTypes
<1>3. Sent(req, c) = [Idle EXCEPT !.at = "sent", !.req = req, !.cookie = Presents(req, c)]
  BY DEF Sent
<1> QED BY <1>1, <1>2, <1>3 DEF Exchange

LEMMA AskEffect ==
  ASSUME NEW b \in TabState, NEW k \in Slots, NEW req \in Requests, NEW c \in Cookies
  PROVE  LET n == Ask(b, k, req, c) IN
         /\ n \in TabState
         /\ n.authenticated = b.authenticated /\ n.page = b.page /\ n.nav = b.nav
         /\ n.refreshRequest = b.refreshRequest
         /\ n.http[k] = Sent(req, c)
         /\ \A l \in Slots \ {k} : n.http[l] = b.http[l]
  BY ExchangeSent DEF Ask, TabState

LEMMA NavigateEffect ==
  ASSUME NEW b \in TabState, NEW target \in {"landing", "home"}, NEW c \in Cookies
  PROVE  LET n == Navigate(b, target, c) IN
         /\ n \in TabState
         /\ n.authenticated = b.authenticated
         /\ n.refreshRequest = b.refreshRequest
         /\ \A l \in Slots \ {"guard"} : n.http[l] = b.http[l]
         /\ b.authenticated = "yes" =>
              n.page = "home" /\ n.nav = "none" /\ n.http["guard"] = Idle
         /\ b.authenticated # "yes" =>
              n.page = b.page /\ n.nav = target /\ n.http["guard"] = Sent("session", c)
<1> DEFINE n == Navigate(b, target, c)
           m == [b EXCEPT !.nav = target]
<1>1. CASE b.authenticated = "yes"
  BY <1>1, TokenTypes, SlotsDiffer DEF Navigate, TabState
<1>2. CASE b.authenticated # "yes"
  <2>1. /\ m \in TabState /\ m.nav = target /\ m.authenticated = b.authenticated /\ m.page = b.page
        /\ m.refreshRequest = b.refreshRequest /\ m.http = b.http
    BY DEF TabState
  <2>2. n = Ask(m, "guard", "session", c)
    BY <1>2 DEF Navigate
  <2>3. "guard" \in Slots /\ "session" \in Requests
    BY SlotsDiffer DEF Requests
  <2> HIDE DEF m, n
  <2>4. /\ n \in TabState
        /\ n.authenticated = m.authenticated /\ n.page = m.page /\ n.nav = m.nav
        /\ n.refreshRequest = m.refreshRequest
        /\ n.http["guard"] = Sent("session", c)
        /\ \A l \in Slots \ {"guard"} : n.http[l] = m.http[l]
    BY <2>1, <2>2, <2>3, AskEffect
  <2> USE DEF n
  <2> QED BY <1>2, <2>1, <2>4
<1> QED BY <1>1, <1>2

\* The answer of the session check, true or false, ends the navigation or turns it.
LEMMA GuardedEffect ==
  ASSUME NEW b \in TabState, b.nav # "none", NEW valid \in BOOLEAN, NEW c \in Cookies
  PROVE  LET n == Guarded(b, valid, c) IN
         /\ n \in TabState
         /\ n.refreshRequest = b.refreshRequest
         /\ \A l \in Slots \ {"guard"} : n.http[l] = b.http[l]
         /\ valid => n.authenticated = "yes" /\ n.page = "home" /\ n.nav = "none"
                     /\ n.http["guard"] = Idle
         /\ ~ valid /\ b.nav = "home" =>
              n.page = b.page /\ n.nav = "landing" /\ n.http["guard"] = Sent("session", c)
         /\ ~ valid /\ b.nav = "landing" =>
              n.page = "landing" /\ n.nav = "none" /\ n.http["guard"] = Idle
<1> DEFINE n == Guarded(b, valid, c)
           known == [b EXCEPT !.authenticated = IF valid THEN "yes" ELSE "no", !.http["guard"] = Idle]
           target == IF valid THEN "home" ELSE "landing"
<1>1. /\ known \in TabState
      /\ known.authenticated = (IF valid THEN "yes" ELSE "no")
      /\ known.page = b.page /\ known.nav = b.nav /\ known.refreshRequest = b.refreshRequest
      /\ known.http["guard"] = Idle
      /\ \A l \in Slots \ {"guard"} : known.http[l] = b.http[l]
  BY TokenTypes, SlotsDiffer DEF TabState
<1>2. b.nav \in {"landing", "home"}
  BY DEF TabState
<1>3. n = IF valid # (b.nav = "home") THEN Navigate(known, target, c)
          ELSE [known EXCEPT !.page = b.nav, !.nav = "none"]
  BY DEF Guarded
<1> HIDE DEF known, n
<1>4. CASE valid # (b.nav = "home")
  <2>1. n = Navigate(known, target, c) /\ target \in {"landing", "home"}
    BY <1>3, <1>4
  <2>2. /\ n \in TabState /\ n.authenticated = known.authenticated
        /\ n.refreshRequest = known.refreshRequest
        /\ \A l \in Slots \ {"guard"} : n.http[l] = known.http[l]
        /\ known.authenticated = "yes" =>
             n.page = "home" /\ n.nav = "none" /\ n.http["guard"] = Idle
        /\ known.authenticated # "yes" =>
             n.page = known.page /\ n.nav = target /\ n.http["guard"] = Sent("session", c)
    <3> HIDE DEF target
    <3> QED BY <1>1, <2>1, NavigateEffect
  <2>3. /\ n \in TabState
        /\ n.refreshRequest = b.refreshRequest
        /\ \A l \in Slots \ {"guard"} : n.http[l] = b.http[l]
    BY <1>1, <2>2
  <2>4. valid => n.authenticated = "yes" /\ n.page = "home" /\ n.nav = "none" /\ n.http["guard"] = Idle
    BY <1>1, <2>2
  <2>5. ~ valid => b.nav = "home" /\ n.page = b.page /\ n.nav = "landing" /\ n.http["guard"] = Sent("session", c)
    BY <1>1, <1>4, <2>2
  <2> USE DEF n
  <2> QED BY <2>3, <2>4, <2>5
<1>5. CASE valid = (b.nav = "home")
  <2>1. /\ n \in TabState /\ n.page = b.nav /\ n.nav = "none" /\ n.authenticated = known.authenticated
        /\ n.refreshRequest = known.refreshRequest /\ n.http = known.http
    BY <1>1, <1>2, <1>3, <1>5 DEF TabState
  <2>2. valid => b.nav = "home" /\ known.authenticated = "yes"
    BY <1>1, <1>5
  <2>3. ~ valid => b.nav = "landing"
    BY <1>2, <1>5
  <2>4. /\ n.refreshRequest = b.refreshRequest /\ n.http["guard"] = Idle
        /\ \A l \in Slots \ {"guard"} : n.http[l] = b.http[l]
    BY <1>1, <2>1
  <2> USE DEF n
  <2> QED BY <2>1, <2>2, <2>3, <2>4
<1> QED BY <1>4, <1>5

LEMMA FinishLogoutEffect ==
  ASSUME NEW b \in TabState, NEW c \in Cookies
  PROVE  LET n == FinishLogout(b, c) IN
         /\ n \in TabState
         /\ n.page = b.page /\ n.refreshRequest = b.refreshRequest
         /\ \A l \in Slots \ {"guard"} : n.http[l] = b.http[l]
         /\ b.page = "landing" /\ b.nav = "none" => n.nav = "none" /\ n.http["guard"] = b.http["guard"]
         /\ ~ (b.page = "landing" /\ b.nav = "none") =>
              n.nav = "landing" /\ n.http["guard"] = Sent("session", c)
<1> DEFINE n == FinishLogout(b, c)
           out == [b EXCEPT !.authenticated = "no"]
<1>1. /\ out \in TabState /\ out.authenticated = "no" /\ out.page = b.page /\ out.nav = b.nav
      /\ out.refreshRequest = b.refreshRequest /\ out.http = b.http
  BY DEF TabState
<1>2. n = IF b.page = "landing" /\ b.nav = "none" THEN out ELSE Navigate(out, "landing", c)
  BY DEF FinishLogout
<1> HIDE DEF out
<1>3. LET m == Navigate(out, "landing", c) IN
      /\ m \in TabState /\ m.refreshRequest = out.refreshRequest
      /\ \A l \in Slots \ {"guard"} : m.http[l] = out.http[l]
      /\ m.page = out.page /\ m.nav = "landing" /\ m.http["guard"] = Sent("session", c)
  BY <1>1, NavigateEffect
<1>4. CASE b.page = "landing" /\ b.nav = "none"
  BY <1>1, <1>2, <1>4
<1>5. CASE ~ (b.page = "landing" /\ b.nav = "none")
  <2>1. n = Navigate(out, "landing", c)
    BY <1>2, <1>5
  <2> QED BY <1>1, <1>3, <1>5, <2>1
<1> QED BY <1>4, <1>5

LEMMA AwaitEffect ==
  ASSUME NEW b \in TabState, NEW k \in Slots, NEW r \in Refreshes
  PROVE  LET n == Await(b, k, r) IN
         /\ n \in TabState
         /\ n.authenticated = b.authenticated /\ n.page = b.page /\ n.nav = b.nav
         /\ n.refreshRequest = b.refreshRequest
         /\ n.http[k].at = "waiting" /\ n.http[k].req = b.http[k].req
         /\ n.http[k].cookie = b.http[k].cookie
         /\ \A l \in Slots \ {k} : n.http[l] = b.http[l]
<1> DEFINE n == Await(b, k, r)
           e == [b.http[k] EXCEPT !.at = "waiting", !.on = r]
<1>1. b.http[k] \in Exchange
  BY DEF TabState
<1>2. e \in Exchange /\ e.at = "waiting" /\ e.req = b.http[k].req /\ e.cookie = b.http[k].cookie
  BY <1>1 DEF Exchange
<1>3. n = [b EXCEPT !.http = [b.http EXCEPT ![k] = e]]
  BY DEF Await, TabState
<1> HIDE DEF e, n
<1>4. /\ n \in TabState
      /\ n.authenticated = b.authenticated /\ n.page = b.page /\ n.nav = b.nav
      /\ n.refreshRequest = b.refreshRequest
      /\ n.http[k] = e
      /\ \A l \in Slots \ {k} : n.http[l] = b.http[l]
  BY <1>2, <1>3 DEF TabState
<1> USE DEF n
<1> QED BY <1>2, <1>4

\* The refresh that is under way is shared; a new one takes a slot of its own.
LEMMA RefreshSessionEffect ==
  ASSUME NEW b \in TabState, NEW k \in Slots \ Refreshes, NEW c \in Cookies,
         \A r \in Refreshes : b.http[r].at # "idle" <=> b.refreshRequest = r
  PROVE  LET n == RefreshSession(b, k, c) IN
         /\ n \in TabState
         /\ n.authenticated = b.authenticated /\ n.page = b.page /\ n.nav = b.nav
         /\ n.http[k].at = "waiting" /\ n.http[k].req = b.http[k].req
         /\ n.http[k].cookie = b.http[k].cookie
         /\ \A l \in Slots \ (Refreshes \cup {k}) : n.http[l] = b.http[l]
         /\ \E r \in Refreshes :
              /\ n.refreshRequest = r
              /\ \A l \in Refreshes \ {r} : n.http[l] = b.http[l]
              /\ b.refreshRequest # None => b.refreshRequest = r /\ n.http[r] = b.http[r]
              /\ b.refreshRequest = None => n.http[r] = Sent("refresh", c)
<1> DEFINE n == RefreshSession(b, k, c)
<1>0. b.refreshRequest \in Refreshes \cup {None} /\ k \in Slots
  BY DEF TabState
<1>1. CASE b.refreshRequest # None
  <2>1. n = Await(b, k, b.refreshRequest) /\ b.refreshRequest \in Refreshes
    BY <1>0, <1>1 DEF RefreshSession
  <2> HIDE DEF n
  <2>2. /\ n \in TabState
        /\ n.authenticated = b.authenticated /\ n.page = b.page /\ n.nav = b.nav
        /\ n.refreshRequest = b.refreshRequest
        /\ n.http[k].at = "waiting" /\ n.http[k].req = b.http[k].req
        /\ n.http[k].cookie = b.http[k].cookie
        /\ \A l \in Slots \ {k} : n.http[l] = b.http[l]
    BY <1>0, <2>1, AwaitEffect
  <2>3. \A l \in Refreshes : n.http[l] = b.http[l]
    BY <2>2, SlotsDiffer
  <2>4. \A l \in Slots \ (Refreshes \cup {k}) : n.http[l] = b.http[l]
    BY <2>2
  <2> USE DEF n
  <2> QED BY <1>1, <2>1, <2>2, <2>3, <2>4
<1>2. CASE b.refreshRequest = None
  <2> DEFINE r == CHOOSE r \in Refreshes : b.http[r].at = "idle"
             a == Ask(b, r, "refresh", c)
             m == [a EXCEPT !.refreshRequest = r]
  <2>1. \E q \in Refreshes : b.http[q].at = "idle"
    BY <1>2, SessionAssumption, SlotsDiffer
  <2>2. r \in Refreshes /\ r # k /\ r \in Slots
    BY <2>1, SlotsDiffer
  <2>3. n = Await(m, k, r)
    BY <1>2 DEF RefreshSession
  <2> HIDE DEF r
  <2>4. /\ a \in TabState
        /\ a.authenticated = b.authenticated /\ a.page = b.page /\ a.nav = b.nav
        /\ a.http[r] = Sent("refresh", c)
        /\ \A l \in Slots \ {r} : a.http[l] = b.http[l]
    <3>1. "refresh" \in Requests
      BY DEF Requests
    <3> QED BY <2>2, <3>1, AskEffect
  <2> HIDE DEF a
  <2>5. /\ m \in TabState
        /\ m.authenticated = a.authenticated /\ m.page = a.page /\ m.nav = a.nav
        /\ m.refreshRequest = r /\ m.http = a.http
    BY <2>2, <2>4 DEF TabState
  <2> HIDE DEF m, n
  <2>12. m \in TabState /\ k \in Slots /\ r \in Refreshes
    BY <1>0, <2>2, <2>5
  <2>6. /\ n \in TabState
        /\ n.authenticated = m.authenticated /\ n.page = m.page /\ n.nav = m.nav
        /\ n.refreshRequest = m.refreshRequest
        /\ n.http[k].at = "waiting" /\ n.http[k].req = m.http[k].req
        /\ n.http[k].cookie = m.http[k].cookie
        /\ \A l \in Slots \ {k} : n.http[l] = m.http[l]
    BY <2>3, <2>12, AwaitEffect
  <2>7. \A l \in Refreshes : l \in Slots /\ l # k
    BY SlotsDiffer
  <2>8. \A l \in Slots \ (Refreshes \cup {k}) : n.http[l] = b.http[l]
    BY <2>2, <2>4, <2>5, <2>6
  <2>9. /\ n.refreshRequest = r /\ n.http[r] = Sent("refresh", c)
        /\ \A l \in Refreshes \ {r} : n.http[l] = b.http[l]
    BY <2>2, <2>4, <2>5, <2>6, <2>7
  <2>10. m.http[k] = b.http[k]
    BY <1>0, <2>2, <2>4, <2>5
  <2>11. /\ n.authenticated = b.authenticated /\ n.page = b.page /\ n.nav = b.nav
         /\ n.http[k].at = "waiting" /\ n.http[k].req = b.http[k].req
         /\ n.http[k].cookie = b.http[k].cookie
    BY <2>4, <2>5, <2>6, <2>10
  <2> USE DEF n
  <2> QED BY <1>2, <2>2, <2>6, <2>8, <2>9, <2>11
<1> QED BY <1>1, <1>2
\* What the end of a session leaves of the page: nothing moves, or the tab
\* asks on its way to the landing page, or it is at the landing page.
LoggedOut(n, b, c) ==
  \/ n.page = b.page /\ n.nav = b.nav /\ n.http["guard"] = b.http["guard"]
  \/ /\ b.page # "landing" \/ b.nav # "none"
     /\ n.page = b.page /\ n.nav = "landing" /\ n.http["guard"] = Sent("session", c)
  \/ b.nav = "landing" /\ n.page = "landing" /\ n.nav = "none" /\ n.http["guard"] = Idle

Failed == [Idle EXCEPT !.at = "failed"]

Waiting(b, r) == {k \in Calls : b.http[k].at = "waiting" /\ b.http[k].on = r}
GuardWaits(b, r) == b.http["guard"].at = "waiting" /\ b.http["guard"].on = r

LEMMA FailedIs ==
  Failed \in Exchange /\ Failed.at = "failed" /\ Failed.req = "session" /\ Failed.cookie = NoCookies
  BY TokenTypes DEF Failed, Exchange, Idle

\* The end of a refresh reaches all who wait for it, the guard among them.
LEMMA RefreshEndsEffect ==
  ASSUME NEW b \in TabState, NEW r \in Refreshes, NEW valid \in BOOLEAN, NEW c \in Cookies,
         b.nav = "none" => b.http["guard"].at = "idle"
  PROVE  LET n == RefreshEnds(b, r, valid, c) IN
         /\ n \in TabState
         /\ n.refreshRequest = None
         /\ n.http[r] = Idle
         /\ \A l \in (Refreshes \ {r}) \cup {"login", "logout"} \cup (Calls \ Waiting(b, r)) :
              n.http[l] = b.http[l]
         /\ \A k \in Waiting(b, r) : n.http[k] = IF valid THEN Sent("retry", c) ELSE Failed
         /\ valid => n.authenticated = "yes"
         /\ valid /\ GuardWaits(b, r) => n.page = "home" /\ n.nav = "none" /\ n.http["guard"] = Idle
         /\ valid /\ ~ GuardWaits(b, r) =>
              n.page = b.page /\ n.nav = b.nav /\ n.http["guard"] = b.http["guard"]
         /\ ~ valid => LoggedOut(n, b, c)
<1> DEFINE n == RefreshEnds(b, r, valid, c)
           over == [b EXCEPT !.authenticated = IF valid THEN "yes" ELSE "no",
                             !.refreshRequest = None, !.http[r] = Idle]
           slot(k) == CASE k \in Waiting(b, r) /\ valid -> Sent("retry", c)
                        [] k \in Waiting(b, r) /\ ~ valid -> Failed
                        [] OTHER -> over.http[k]
           told == [over EXCEPT !.http = [k \in Slots |-> slot(k)]]
<1>1. /\ over \in TabState
      /\ over.authenticated = (IF valid THEN "yes" ELSE "no")
      /\ over.page = b.page /\ over.nav = b.nav /\ over.refreshRequest = None
      /\ over.http[r] = Idle
      /\ \A l \in Slots \ {r} : over.http[l] = b.http[l]
  BY TokenTypes, SlotsDiffer DEF TabState
<1>2. n = IF Waiting(b, r) # {} /\ ~ valid THEN FinishLogout(told, c)
          ELSE IF GuardWaits(b, r) THEN Guarded(told, valid, c) ELSE told
  BY DEF RefreshEnds, Waiting, GuardWaits, Failed
<1> HIDE DEF over, n
<1>3. "retry" \in Requests
  BY DEF Requests
<1>4. Sent("retry", c) \in Exchange /\ Failed \in Exchange
  BY <1>3, ExchangeSent, FailedIs
<1>5. \A l \in Slots : over.http[l] \in Exchange
  BY <1>1 DEF TabState
<1>6. /\ told \in TabState
      /\ told.authenticated = over.authenticated
      /\ told.page = b.page /\ told.nav = b.nav /\ told.refreshRequest = None
      /\ \A l \in Slots : told.http[l] = slot(l)
  BY <1>1, <1>4, <1>5 DEF TabState
<1>7. Waiting(b, r) \subseteq Calls
  BY DEF Waiting
<1>8. /\ told.http[r] = Idle
      /\ \A l \in (Refreshes \ {r}) \cup {"login", "logout", "guard"} \cup (Calls \ Waiting(b, r)) :
           told.http[l] = b.http[l]
      /\ \A k \in Waiting(b, r) : told.http[k] = IF valid THEN Sent("retry", c) ELSE Failed
  BY <1>1, <1>6, <1>7, SlotsDiffer
<1> HIDE DEF told
<1>9. CASE Waiting(b, r) # {} /\ ~ valid
  <2>1. n = FinishLogout(told, c)
    BY <1>2, <1>9
  <2>2. /\ n \in TabState
        /\ n.page = told.page /\ n.refreshRequest = told.refreshRequest
        /\ \A l \in Slots \ {"guard"} : n.http[l] = told.http[l]
        /\ told.page = "landing" /\ told.nav = "none" =>
             n.nav = "none" /\ n.http["guard"] = told.http["guard"]
        /\ ~ (told.page = "landing" /\ told.nav = "none") =>
             n.nav = "landing" /\ n.http["guard"] = Sent("session", c)
    BY <1>6, <2>1, FinishLogoutEffect
  <2>3. LoggedOut(n, b, c)
    BY <1>6, <1>8, <2>2 DEF LoggedOut
  <2>4. /\ \A l \in (Refreshes \ {r}) \cup {"login", "logout"} \cup (Calls \ Waiting(b, r)) :
             n.http[l] = b.http[l]
        /\ n.http[r] = Idle
        /\ \A k \in Waiting(b, r) : n.http[k] = told.http[k]
    BY <1>7, <1>8, <2>2, SlotsDiffer
  <2> USE DEF n
  <2> QED BY <1>6, <1>8, <1>9, <2>2, <2>3, <2>4
<1>10. CASE ~ (Waiting(b, r) # {} /\ ~ valid) /\ GuardWaits(b, r)
  <2>1. n = Guarded(told, valid, c)
    BY <1>2, <1>10
  <2>2. told.nav # "none"
    BY <1>6, <1>10 DEF GuardWaits
  <2>3. /\ n \in TabState
        /\ n.refreshRequest = told.refreshRequest
        /\ \A l \in Slots \ {"guard"} : n.http[l] = told.http[l]
        /\ valid => n.authenticated = "yes" /\ n.page = "home" /\ n.nav = "none"
                    /\ n.http["guard"] = Idle
        /\ ~ valid /\ told.nav = "home" =>
             n.page = told.page /\ n.nav = "landing" /\ n.http["guard"] = Sent("session", c)
        /\ ~ valid /\ told.nav = "landing" =>
             n.page = "landing" /\ n.nav = "none" /\ n.http["guard"] = Idle
    BY <1>6, <2>1, <2>2, GuardedEffect
  <2>4. told.nav \in {"landing", "home"}
    BY <1>6, <2>2 DEF TabState
  <2>5. ~ valid => LoggedOut(n, b, c)
    BY <1>6, <2>3, <2>4 DEF LoggedOut
  <2>6. /\ \A l \in (Refreshes \ {r}) \cup {"login", "logout"} \cup (Calls \ Waiting(b, r)) :
             n.http[l] = b.http[l]
        /\ n.http[r] = Idle
        /\ \A k \in Waiting(b, r) : n.http[k] = told.http[k]
    BY <1>7, <1>8, <2>3, SlotsDiffer
  <2> USE DEF n
  <2> QED BY <1>6, <1>8, <1>10, <2>3, <2>5, <2>6
<1>11. CASE ~ (Waiting(b, r) # {} /\ ~ valid) /\ ~ GuardWaits(b, r)
  <2>1. n = told
    BY <1>2, <1>11
  <2>2. ~ valid => LoggedOut(n, b, c)
    BY <1>6, <1>8, <2>1 DEF LoggedOut
  <2>3. valid => n.authenticated = "yes"
    BY <1>1, <1>6, <2>1
  <2> USE DEF n
  <2> QED BY <1>6, <1>8, <1>11, <2>1, <2>2, <2>3
<1> QED BY <1>9, <1>10, <1>11

--------------------------------------------------------------------------------
(* What a tab is by itself *)

\* The slots that are busy agree with the page, the navigation and the
\* shared refresh of the tab.
TabInv(b) ==
  /\ \A r \in Refreshes : b.http[r].at # "idle" <=> b.refreshRequest = r
  /\ b.nav = "none" <=> b.http["guard"].at = "idle"
  /\ b.page = "landing" => b.nav = "none"
  /\ b.page = "none" => /\ b.nav = "none" => b.authenticated = "unknown"
                        /\ b.refreshRequest # None => b.http["guard"].at = "waiting"
                        /\ \A k \in Slots \ (Refreshes \cup {"guard"}) : b.http[k].at = "idle"
  /\ b.http["login"].at # "idle" =>
       /\ b.page = "landing"
       /\ b.http["login"].req \in {"login", "remembered_login"}
  /\ b.http["login"].at \in {"idle", "sent", "found", "answered"}
  /\ b.http["logout"].at # "idle" => b.http["logout"].req = "logout"
  /\ b.http["logout"].at \in {"idle", "sent", "found", "answered"}
  /\ b.http["guard"].at \in {"idle", "sent", "answered", "refused", "waiting"}
  /\ b.http["guard"].req = "session"
  /\ \A k \in Calls : /\ b.http[k].at \in {"idle", "sent", "answered", "refused", "waiting", "failed"}
                      /\ b.http[k].at \in {"idle", "failed"} \/ b.http[k].req \in {"call", "retry"}
  /\ \A r \in Refreshes : /\ b.http[r].at \in {"idle", "sent", "answered", "refused"}
                          /\ b.http[r].req \in {"refresh", "session"}

\* What a handler leaves of tab b, as n, when slot k is answered.
Rest(n, b, S) == n.refreshRequest = b.refreshRequest /\ \A l \in Slots \ S : n.http[l] = b.http[l]
Still(n, b) == n.authenticated = b.authenticated /\ n.page = b.page /\ n.nav = b.nav

Enters(n, b, k) ==
  /\ n.authenticated = "yes" /\ n.page = "home" /\ n.nav = "none"
  /\ n.http["guard"] = Idle /\ n.http[k] = Idle
  /\ Rest(n, b, {k, "guard"})

Drops(n, b, k) == Still(n, b) /\ n.http[k] = Idle /\ Rest(n, b, {k})

Awaits(n, b, k, c) ==
  /\ Still(n, b)
  /\ n.http[k].at = "waiting" /\ n.http[k].req = b.http[k].req /\ n.http[k].cookie = b.http[k].cookie
  /\ \A l \in Slots \ (Refreshes \cup {k}) : n.http[l] = b.http[l]
  /\ \E r \in Refreshes :
       /\ n.refreshRequest = r
       /\ \A l \in Refreshes \ {r} : n.http[l] = b.http[l]
       /\ b.refreshRequest # None => b.refreshRequest = r /\ n.http[r] = b.http[r]
       /\ b.refreshRequest = None => n.http[r] = Sent("refresh", c)

Rechecks(n, b, k, c) == Still(n, b) /\ n.http[k] = Sent("session", c) /\ Rest(n, b, {k})

\* The end of a session that slot k, left as e, tells of.
Leaves(n, b, k, e, c) ==
  n.page = b.page /\ LoggedOut(n, b, c) /\ n.http[k] = e /\ Rest(n, b, {k, "guard"})

Checked(n, b, valid, c) ==
  /\ Rest(n, b, {"guard"})
  /\ IF valid THEN Enters(n, b, "guard")
     ELSE \/ b.nav = "home" /\ n.page = b.page /\ n.nav = "landing"
             /\ n.http["guard"] = Sent("session", c)
          \/ b.nav = "landing" /\ n.page = "landing" /\ n.nav = "none" /\ n.http["guard"] = Idle

Refreshed(n, b, r, valid, c) ==
  /\ n.refreshRequest = None /\ n.http[r] = Idle
  /\ \A l \in (Refreshes \ {r}) \cup {"login", "logout"} \cup (Calls \ Waiting(b, r)) :
       n.http[l] = b.http[l]
  /\ \A k \in Waiting(b, r) : n.http[k] = IF valid THEN Sent("retry", c) ELSE Failed
  /\ valid => n.authenticated = "yes"
  /\ valid /\ GuardWaits(b, r) => n.page = "home" /\ n.nav = "none" /\ n.http["guard"] = Idle
  /\ valid /\ ~ GuardWaits(b, r) =>
       n.page = b.page /\ n.nav = b.nav /\ n.http["guard"] = b.http["guard"]
  /\ ~ valid => LoggedOut(n, b, c)

Outcome(n, b, k, how, c) ==
  \/ k = "login" /\ how = "answered" /\ Enters(n, b, k)
  \/ /\ \/ k = "login" /\ how # "answered"
        \/ k = "logout" /\ how = "lost"
        \/ k \in Calls /\ how # "refused"
     /\ Drops(n, b, k)
  \/ k = "logout" /\ how # "lost" /\ Leaves(n, b, k, Idle, c)
  \/ k \in Calls /\ how = "refused" /\ b.http[k].req = "retry" /\ Leaves(n, b, k, Failed, c)
  \/ /\ how = "refused"
     /\ k = "guard" \/ (k \in Calls /\ b.http[k].req = "call")
     /\ Awaits(n, b, k, c)
  \/ k = "guard" /\ how # "refused" /\ Checked(n, b, how = "answered", c)
  \/ k \in Refreshes /\ how = "answered" /\ b.http[k].req = "refresh" /\ Rechecks(n, b, k, c)
  \/ /\ k \in Refreshes /\ (how # "answered" \/ b.http[k].req = "session")
     /\ Refreshed(n, b, k, how = "answered", c)

LEMMA SlotIsIdle ==
  ASSUME NEW b \in TabState, NEW k \in Slots, NEW e \in Exchange
  PROVE  LET n == [b EXCEPT !.http[k] = e] IN
         n \in TabState /\ Still(n, b) /\ n.http[k] = e /\ Rest(n, b, {k})
  BY DEF TabState, Still, Rest

LEMMA GuardedChecks ==
  ASSUME NEW b \in TabState, b.nav # "none", NEW valid \in BOOLEAN, NEW c \in Cookies
  PROVE  Guarded(b, valid, c) \in TabState /\ Checked(Guarded(b, valid, c), b, valid, c)
<1>1. b.nav \in {"landing", "home"}
  BY DEF TabState
<1> QED BY <1>1, GuardedEffect DEF Checked, Enters, Rest

LEMMA RefreshEndsRefreshed ==
  ASSUME NEW b \in TabState, NEW r \in Refreshes, NEW valid \in BOOLEAN, NEW c \in Cookies,
         b.nav = "none" => b.http["guard"].at = "idle"
  PROVE  RefreshEnds(b, r, valid, c) \in TabState
         /\ Refreshed(RefreshEnds(b, r, valid, c), b, r, valid, c)
  BY RefreshEndsEffect DEF Refreshed

LEMMA RefreshSessionAwaits ==
  ASSUME NEW b \in TabState, NEW k \in Slots \ Refreshes, NEW c \in Cookies,
         \A r \in Refreshes : b.http[r].at # "idle" <=> b.refreshRequest = r
  PROVE  RefreshSession(b, k, c) \in TabState /\ Awaits(RefreshSession(b, k, c), b, k, c)
  BY RefreshSessionEffect DEF Awaits, Still

\* Each answer has one of these outcomes.
LEMMA AnswerOutcome ==
  ASSUME NEW b \in TabState, TabInv(b), NEW k \in Slots, NEW c \in Cookies,
         NEW how \in {"answered", "refused", "lost"},
         b.http[k].at \notin {"idle", "failed"}
  PROVE  Answer(b, k, how, c) \in TabState /\ Outcome(Answer(b, k, how, c), b, k, how, c)
<1> DEFINE n == Answer(b, k, how, c)
           done == [b EXCEPT !.http[k] = Idle]
<1>0. /\ \A r \in Refreshes : b.http[r].at # "idle" <=> b.refreshRequest = r
      /\ b.nav = "none" <=> b.http["guard"].at = "idle"
      /\ k \in Calls => b.http[k].req \in {"call", "retry"}
      /\ k \in Refreshes => b.http[k].req \in {"refresh", "session"}
  BY DEF TabInv
<1>1. done \in TabState /\ Still(done, b) /\ done.http[k] = Idle /\ Rest(done, b, {k})
  BY SlotIsIdle, TokenTypes
<1>2. CASE k = "login" /\ how = "answered"
  <2> DEFINE m == [done EXCEPT !.authenticated = "yes"]
  <2>1. n = Navigate(m, "home", c)
    BY <1>2, SlotsDiffer DEF Answer
  <2> HIDE DEF done, n
  <2>2. m \in TabState /\ m.authenticated = "yes" /\ m.refreshRequest = done.refreshRequest
        /\ m.http = done.http
    BY <1>1 DEF TabState
  <2> HIDE DEF m
  <2>3. /\ n \in TabState /\ n.authenticated = m.authenticated /\ n.refreshRequest = m.refreshRequest
        /\ \A l \in Slots \ {"guard"} : n.http[l] = m.http[l]
        /\ n.page = "home" /\ n.nav = "none" /\ n.http["guard"] = Idle
    BY <2>1, <2>2, NavigateEffect
  <2>4. Enters(n, b, k)
    BY <1>1, <1>2, <2>2, <2>3, SlotsDiffer DEF Enters, Rest
  <2> USE DEF n
  <2> QED BY <1>2, <2>3, <2>4 DEF Outcome
<1>3. CASE \/ k = "login" /\ how # "answered"
           \/ k = "logout" /\ how = "lost"
           \/ k \in Calls /\ how # "refused"
  <2>1. n = done
    BY <1>3, SlotsDiffer DEF Answer
  <2>2. Drops(n, b, k)
    <3> HIDE DEF done, n
    <3> QED BY <1>1, <2>1 DEF Drops
  <2> QED BY <1>1, <1>3, <2>1, <2>2 DEF Outcome
<1>4. CASE k = "logout" /\ how # "lost"
  <2>1. n = FinishLogout(done, c)
    BY <1>4, SlotsDiffer DEF Answer
  <2> HIDE DEF done, n
  <2>2. n \in TabState /\ Leaves(n, b, k, Idle, c)
    <3>1. /\ n \in TabState
          /\ n.page = done.page /\ n.refreshRequest = done.refreshRequest
          /\ \A l \in Slots \ {"guard"} : n.http[l] = done.http[l]
          /\ done.page = "landing" /\ done.nav = "none" =>
               n.nav = "none" /\ n.http["guard"] = done.http["guard"]
          /\ ~ (done.page = "landing" /\ done.nav = "none") =>
               n.nav = "landing" /\ n.http["guard"] = Sent("session", c)
      BY <1>1, <2>1, FinishLogoutEffect
    <3>2. LoggedOut(n, b, c)
      BY <1>1, <1>4, <3>1, SlotsDiffer DEF LoggedOut, Still, Rest
    <3> QED BY <1>1, <1>4, <3>1, <3>2, SlotsDiffer DEF Leaves, Rest, Still
  <2> USE DEF n
  <2> QED BY <1>4, <2>2 DEF Outcome
<1>5. CASE k \in Calls /\ how = "refused" /\ b.http[k].req = "retry"
  <2> DEFINE f == [b EXCEPT !.http[k] = Failed]
  <2>1. f \in TabState /\ Still(f, b) /\ f.http[k] = Failed /\ Rest(f, b, {k})
    BY SlotIsIdle, FailedIs
  <2>2. n = FinishLogout(f, c)
    BY <1>5, SlotsDiffer DEF Answer, Failed
  <2> HIDE DEF f, n
  <2>3. n \in TabState /\ Leaves(n, b, k, Failed, c)
    <3>1. /\ n \in TabState
          /\ n.page = f.page /\ n.refreshRequest = f.refreshRequest
          /\ \A l \in Slots \ {"guard"} : n.http[l] = f.http[l]
          /\ f.page = "landing" /\ f.nav = "none" =>
               n.nav = "none" /\ n.http["guard"] = f.http["guard"]
          /\ ~ (f.page = "landing" /\ f.nav = "none") =>
               n.nav = "landing" /\ n.http["guard"] = Sent("session", c)
      BY <2>1, <2>2, FinishLogoutEffect
    <3>2. LoggedOut(n, b, c)
      BY <2>1, <1>5, <3>1, SlotsDiffer DEF LoggedOut, Still, Rest
    <3> QED BY <2>1, <1>5, <3>1, <3>2, SlotsDiffer DEF Leaves, Rest, Still
  <2> USE DEF n
  <2> QED BY <1>5, <2>3 DEF Outcome
<1>6. CASE how = "refused" /\ (k = "guard" \/ (k \in Calls /\ b.http[k].req = "call"))
  <2>1. n = RefreshSession(b, k, c)
    BY <1>6, SlotsDiffer DEF Answer
  <2>2. k \in Slots \ Refreshes
    BY <1>6, SlotsDiffer
  <2> HIDE DEF n
  <2>3. n \in TabState /\ Awaits(n, b, k, c)
    BY <1>0, <2>1, <2>2, RefreshSessionAwaits
  <2> USE DEF n
  <2> QED BY <1>6, <2>3 DEF Outcome
<1>7. CASE k = "guard" /\ how # "refused"
  <2>1. n = Guarded(b, how = "answered", c)
    BY <1>7, SlotsDiffer DEF Answer
  <2>2. b.nav # "none"
    BY <1>0, <1>7
  <2> HIDE DEF n
  <2>4. n \in TabState /\ Checked(n, b, how = "answered", c)
    <3>1. CASE how = "answered"
      <4>1. n = Guarded(b, TRUE, c)
        BY <2>1, <3>1
      <4>2. n \in TabState /\ Checked(n, b, TRUE, c)
        BY <2>2, <4>1, GuardedChecks
      <4> QED BY <3>1, <4>2 DEF Checked
    <3>2. CASE how # "answered"
      <4>1. n = Guarded(b, FALSE, c)
        BY <2>1, <3>2
      <4>2. n \in TabState /\ Checked(n, b, FALSE, c)
        BY <2>2, <4>1, GuardedChecks
      <4> QED BY <3>2, <4>2 DEF Checked
    <3> QED BY <3>1, <3>2
  <2> USE DEF n
  <2> QED BY <1>7, <2>4 DEF Outcome
<1>8. CASE k \in Refreshes /\ how = "answered" /\ b.http[k].req = "refresh"
  <2>1. n = Ask(b, k, "session", c) /\ "session" \in Requests
    BY <1>8, SlotsDiffer DEF Answer, Requests
  <2> HIDE DEF n
  <2>2. n \in TabState /\ Rechecks(n, b, k, c)
    BY <2>1, AskEffect DEF Rechecks, Still, Rest
  <2> USE DEF n
  <2> QED BY <1>8, <2>2 DEF Outcome
<1>9. CASE k \in Refreshes /\ (how # "answered" \/ b.http[k].req = "session")
  <2>1. n = RefreshEnds(b, k, how = "answered", c)
    BY <1>9, SlotsDiffer DEF Answer
  <2> HIDE DEF n
  <2>2. n \in TabState /\ Refreshed(n, b, k, how = "answered", c)
    <3>1. CASE how = "answered"
      <4>1. n = RefreshEnds(b, k, TRUE, c) /\ k \in Refreshes
        BY <1>9, <2>1, <3>1
      <4>2. n \in TabState /\ Refreshed(n, b, k, TRUE, c)
        BY <1>0, <4>1, RefreshEndsRefreshed
      <4> QED BY <3>1, <4>2 DEF Refreshed
    <3>2. CASE how # "answered"
      <4>1. n = RefreshEnds(b, k, FALSE, c) /\ k \in Refreshes
        BY <1>9, <2>1, <3>2
      <4>2. n \in TabState /\ Refreshed(n, b, k, FALSE, c)
        BY <1>0, <4>1, RefreshEndsRefreshed
      <4> QED BY <3>2, <4>2 DEF Refreshed
    <3> QED BY <3>1, <3>2
  <2> USE DEF n
  <2> QED BY <1>9, <2>2 DEF Outcome
<1> QED BY <1>0, <1>2, <1>3, <1>4, <1>5, <1>6, <1>7, <1>8, <1>9, SlotsDiffer

LEMMA SentIs ==
  ASSUME NEW c \in Cookies
  PROVE  /\ \A req \in Requests : Sent(req, c).at = "sent" /\ Sent(req, c).req = req
         /\ \A req \in {"session", "call", "retry"} :
              /\ Sent(req, c).at = "sent" /\ Sent(req, c).req = req
              /\ Sent(req, c).cookie.session = c.session /\ Sent(req, c).cookie.remember = NoToken
         /\ Sent("refresh", c).at = "sent" /\ Sent("refresh", c).req = "refresh"
         /\ Sent("refresh", c).cookie.session = NoToken
         /\ Sent("refresh", c).cookie.remember = c.remember
         /\ \A req \in {"login", "remembered_login", "logout"} : Sent(req, c).cookie = c
<1>1. \A req \in Requests : /\ Sent(req, c).at = "sent" /\ Sent(req, c).req = req
                            /\ Sent(req, c).cookie = Presents(req, c)
  BY ExchangeSent
<1>2. c = [session |-> c.session, remember |-> c.remember]
  BY DEF Cookies
<1>3. \A req \in {"session", "call", "retry"} :
        Presents(req, c).session = c.session /\ Presents(req, c).remember = NoToken
  BY <1>2 DEF Presents
<1>4. Presents("refresh", c).session = NoToken /\ Presents("refresh", c).remember = c.remember
  BY <1>2 DEF Presents
<1>5. \A req \in {"login", "remembered_login", "logout"} : Presents(req, c) = c
  BY DEF Presents
<1> QED BY <1>1, <1>3, <1>4, <1>5 DEF Requests

LEMMA IdleIs ==
  Idle.at = "idle" /\ Idle.req = "session" /\ Idle.cookie.session = NoToken
  /\ Idle.cookie.remember = NoToken
  BY DEF Idle, NoCookies

\* The end of a session leaves the tab as it must be, wherever it was.
LEMMA LoggedOutKeeps ==
  ASSUME NEW b \in TabState, TabInv(b), NEW c \in Cookies, NEW n \in TabState,
         LoggedOut(n, b, c)
  PROVE  /\ n.nav = "none" <=> n.http["guard"].at = "idle"
         /\ n.page = "landing" => n.nav = "none"
         /\ n.page = "none" => b.page = "none" /\ (n.nav = "none" => b.nav = "none")
         /\ b.page = "landing" => n.page = "landing"
         /\ n.http["guard"].at \in {"idle", "sent", "answered", "refused", "waiting"}
         /\ n.http["guard"].req = "session"
         /\ n.page = "home" => b.page = "home"
<1>1. /\ b.nav = "none" <=> b.http["guard"].at = "idle"
      /\ b.page = "landing" => b.nav = "none"
      /\ b.http["guard"].at \in {"idle", "sent", "answered", "refused", "waiting"}
      /\ b.http["guard"].req = "session"
  BY DEF TabInv
<1>2. Sent("session", c).at = "sent" /\ Sent("session", c).req = "session"
  BY SentIs
<1> QED BY <1>1, <1>2, IdleIs DEF LoggedOut

\* Whatever a handler does, the tab stays as it must be.
LEMMA AnswerKeepsTab ==
  ASSUME NEW b \in TabState, TabInv(b), NEW k \in Slots, NEW c \in Cookies,
         NEW how \in {"answered", "refused", "lost"},
         NEW n \in TabState, Outcome(n, b, k, how, c),
         b.http[k].at \in {"sent", "answered", "refused"},
         how # "lost" => b.http[k].at = how
  PROVE  TabInv(n)
<1>1. CASE k = "login" /\ how = "answered" /\ Enters(n, b, k)
  <2>1. /\ n.refreshRequest = b.refreshRequest /\ n.page = "home" /\ n.nav = "none"
        /\ n.http["guard"] = Idle /\ n.http["login"] = Idle
        /\ \A l \in Calls \cup Refreshes \cup {"logout"} : n.http[l] = b.http[l]
    BY <1>1, SlotsDiffer DEF Enters, Rest
  <2> QED BY <2>1, SlotsDiffer, IdleIs DEF TabInv
<1>2. CASE Drops(n, b, k) /\ (k = "login" \/ k = "logout" \/ k \in Calls)
  BY <1>2, SlotsDiffer, IdleIs DEF TabInv, Drops, Rest, Still
<1>3. CASE k = "logout" /\ Leaves(n, b, k, Idle, c)
  <2>1. b.page # "none"
    BY <1>3, SlotsDiffer DEF TabInv
  <2>2. /\ n.refreshRequest = b.refreshRequest /\ n.http["logout"] = Idle
        /\ \A l \in Calls \cup Refreshes \cup {"login"} : n.http[l] = b.http[l]
        /\ LoggedOut(n, b, c)
    BY <1>3, SlotsDiffer DEF Leaves, Rest
  <2>3. /\ n.nav = "none" <=> n.http["guard"].at = "idle"
        /\ n.page = "landing" => n.nav = "none"
        /\ n.page # "none"
        /\ b.page = "landing" => n.page = "landing"
        /\ n.http["guard"].at \in {"idle", "sent", "answered", "refused", "waiting"}
        /\ n.http["guard"].req = "session"
    BY <2>1, <2>2, LoggedOutKeeps
  <2> QED BY <2>2, <2>3, SlotsDiffer, IdleIs DEF TabInv
<1>4. CASE k \in Calls /\ Leaves(n, b, k, Failed, c)
  <2>1. b.page # "none"
    BY <1>4, SlotsDiffer DEF TabInv
  <2>2. /\ n.refreshRequest = b.refreshRequest /\ n.http[k] = Failed
        /\ \A l \in (Calls \ {k}) \cup Refreshes \cup {"login", "logout"} : n.http[l] = b.http[l]
        /\ LoggedOut(n, b, c)
    BY <1>4, SlotsDiffer DEF Leaves, Rest
  <2>3. /\ n.nav = "none" <=> n.http["guard"].at = "idle"
        /\ n.page = "landing" => n.nav = "none"
        /\ n.page # "none"
        /\ b.page = "landing" => n.page = "landing"
        /\ n.http["guard"].at \in {"idle", "sent", "answered", "refused", "waiting"}
        /\ n.http["guard"].req = "session"
    BY <2>1, <2>2, LoggedOutKeeps
  <2> QED BY <2>2, <2>3, SlotsDiffer, FailedIs DEF TabInv
<1>5. CASE /\ how = "refused"
           /\ k = "guard" \/ (k \in Calls /\ b.http[k].req = "call")
           /\ Awaits(n, b, k, c)
  BY <1>5, SlotsDiffer, SentIs DEF TabInv, Awaits, Still
<1>6. CASE k = "guard" /\ how # "refused" /\ Checked(n, b, how = "answered", c)
  BY <1>6, SlotsDiffer, IdleIs, SentIs DEF TabInv, Checked, Enters, Rest
<1>7. CASE k \in Refreshes /\ Rechecks(n, b, k, c)
  BY <1>7, SlotsDiffer, SentIs DEF TabInv, Rechecks, Rest, Still
<1>8. CASE k \in Refreshes /\ Refreshed(n, b, k, how = "answered", c)
  <2>1. /\ n.refreshRequest = None /\ \A r \in Refreshes : n.http[r].at = "idle"
        /\ \A r \in Refreshes : n.http[r].req \in {"refresh", "session"}
    BY <1>8, SlotsDiffer, IdleIs DEF TabInv, Refreshed
  <2>2. n.http["login"] = b.http["login"] /\ n.http["logout"] = b.http["logout"]
    BY <1>8 DEF Refreshed
  <2>3. \A l \in Calls : \/ n.http[l] = b.http[l]
                         \/ /\ n.http[l].at \in {"sent", "failed"}
                            /\ n.http[l].at = "sent" => n.http[l].req = "retry"
                            /\ b.http[l].at = "waiting"
    <3>1. Sent("retry", c).at = "sent" /\ Sent("retry", c).req = "retry"
      BY SentIs
    <3>2. Waiting(b, k) \subseteq Calls /\ \A l \in Waiting(b, k) : b.http[l].at = "waiting"
      BY DEF Waiting
    <3> QED BY <1>8, <3>1, <3>2, FailedIs DEF Refreshed
  <2>4. CASE how = "answered" /\ GuardWaits(b, k)
    <3>1. n.page = "home" /\ n.nav = "none" /\ n.http["guard"] = Idle /\ b.nav # "none"
      BY <1>8, <2>4 DEF Refreshed, GuardWaits, TabInv
    <3>2. b.http["login"].at = "idle"
      BY <3>1 DEF TabInv
    <3> QED BY <2>1, <2>2, <2>3, <3>1, <3>2, SlotsDiffer, IdleIs DEF TabInv
  <2>5. CASE how = "answered" /\ ~ GuardWaits(b, k)
    <3>1. n.page = b.page /\ n.nav = b.nav /\ n.http["guard"] = b.http["guard"]
      BY <1>8, <2>5 DEF Refreshed
    <3>2. b.page = "none" => b.nav # "none"
      BY <1>8, SlotsDiffer DEF TabInv
    <3> QED BY <2>1, <2>2, <2>3, <3>1, <3>2, SlotsDiffer DEF TabInv
  <2>6. CASE how # "answered"
    <3>1. LoggedOut(n, b, c)
      BY <1>8, <2>6 DEF Refreshed
    <3>2. b.page = "none" => b.nav # "none"
      BY <1>8, SlotsDiffer DEF TabInv
    <3>3. /\ n.nav = "none" <=> n.http["guard"].at = "idle"
          /\ n.page = "landing" => n.nav = "none"
          /\ n.page = "none" => b.page = "none" /\ n.nav # "none"
          /\ b.page = "landing" => n.page = "landing"
          /\ n.http["guard"].at \in {"idle", "sent", "answered", "refused", "waiting"}
          /\ n.http["guard"].req = "session"
      BY <3>1, <3>2, LoggedOutKeeps
    <3>4. n.page = "none" => \A l \in Slots \ (Refreshes \cup {"guard"}) : n.http[l].at = "idle"
      BY <2>2, <2>3, <3>3, SlotsDiffer DEF TabInv
    <3> QED BY <2>1, <2>2, <2>3, <3>3, <3>4, SlotsDiffer DEF TabInv
  <2> QED BY <2>4, <2>5, <2>6
<1> QED BY <1>1, <1>2, <1>3, <1>4, <1>5, <1>6, <1>7, <1>8 DEF Outcome

\* The server's part of slot k: only its exchange moves.
Served(n, b, k, how, c) ==
  /\ Still(n, b) /\ Rest(n, b, {k})
  /\ n.http[k].at = how /\ n.http[k].cookie = c /\ n.http[k].req = b.http[k].req

LEMMA ServedKeepsTab ==
  ASSUME NEW b \in TabState, TabInv(b), NEW n \in TabState, NEW k \in Slots, NEW c,
         NEW how \in {"found", "answered", "refused"}, Served(n, b, k, how, c),
         b.http[k].at \in {"sent", "found"},
         how = "found" => k \in {"login", "logout"},
         how = "refused" => k \notin {"login", "logout"}
  PROVE  TabInv(n)
<1>1. CASE k = "login"
  <2>1. /\ Still(n, b) /\ n.refreshRequest = b.refreshRequest
        /\ \A l \in Calls \cup Refreshes \cup {"logout", "guard"} : n.http[l] = b.http[l]
        /\ n.http["login"].at = how /\ n.http["login"].req = b.http["login"].req
        /\ b.http["login"].at \in {"sent", "found"}
    BY <1>1, SlotsDiffer DEF Served, Rest
  <2> QED BY <1>1, <2>1, SlotsDiffer DEF TabInv, Still
<1>2. CASE k = "logout"
  <2>1. /\ Still(n, b) /\ n.refreshRequest = b.refreshRequest
        /\ \A l \in Calls \cup Refreshes \cup {"login", "guard"} : n.http[l] = b.http[l]
        /\ n.http["logout"].at = how /\ n.http["logout"].req = b.http["logout"].req
        /\ b.http["logout"].at \in {"sent", "found"}
    BY <1>2, SlotsDiffer DEF Served, Rest
  <2> QED BY <1>2, <2>1, SlotsDiffer DEF TabInv, Still
<1>3. CASE k = "guard"
  <2>1. /\ Still(n, b) /\ n.refreshRequest = b.refreshRequest
        /\ \A l \in Calls \cup Refreshes \cup {"login", "logout"} : n.http[l] = b.http[l]
        /\ n.http["guard"].at = how /\ n.http["guard"].req = b.http["guard"].req
        /\ b.http["guard"].at \in {"sent", "found"}
    BY <1>3, SlotsDiffer DEF Served, Rest
  <2> QED BY <1>3, <2>1, SlotsDiffer DEF TabInv, Still
<1>4. CASE k \in Calls
  BY <1>4, SlotsDiffer DEF TabInv, Served, Still, Rest
<1>5. CASE k \in Refreshes
  BY <1>5, SlotsDiffer DEF TabInv, Served, Still, Rest
<1> QED BY <1>1, <1>2, <1>3, <1>4, <1>5, SlotsDiffer

--------------------------------------------------------------------------------
(* Types, and the steps of the tabs *)

TabsOK == TypeOK /\ \A t \in Tabs : TabInv(tab[t])

OnlyTab(t) == tab' \in [Tabs -> TabState] /\ \A u \in Tabs \ {t} : tab'[u] = tab[u]

LEMMA TabMoves ==
  ASSUME TypeOK, NEW t \in Tabs, NEW n \in TabState, tab' = [tab EXCEPT ![t] = n]
  PROVE  OnlyTab(t) /\ tab'[t] = n
  BY DEF TypeOK, OnlyTab

LEMMA OpenTab ==
  ASSUME TabsOK, NEW t \in Tabs, NEW target \in {"landing", "home"}, Open(t, target)
  PROVE  /\ OnlyTab(t) /\ TabInv(tab'[t])
         /\ tab[t].page = "none" /\ tab'[t].page = "none" /\ tab'[t].nav = target
         /\ tab'[t].refreshRequest = None /\ tab[t].refreshRequest = None
         /\ tab'[t].http["guard"] = Sent("session", jar)
         /\ Rest(tab'[t], tab[t], {"guard"})
<1> PICK b \in TabState : b = tab[t]
  BY DEF TabsOK, TypeOK
<1>1. /\ TabInv(b) /\ b.page = "none" /\ b.nav = "none" /\ jar \in Cookies
      /\ tab' = [tab EXCEPT ![t] = Navigate(b, target, jar)]
  BY DEF TabsOK, TypeOK, Open
<1>2. b.authenticated # "yes" /\ b.refreshRequest = None
  BY <1>1, SlotsDiffer DEF TabInv
<1> PICK n : n = Navigate(b, target, jar)
  OBVIOUS
<1>3. /\ n \in TabState /\ n.page = "none" /\ n.nav = target /\ n.authenticated = b.authenticated
      /\ n.http["guard"] = Sent("session", jar)
      /\ n.refreshRequest = b.refreshRequest
      /\ \A l \in Slots \ {"guard"} : n.http[l] = b.http[l]
  BY <1>1, <1>2, NavigateEffect
<1>4. Rest(n, b, {"guard"})
  BY <1>3 DEF Rest
<1>5. Sent("session", jar).at = "sent" /\ Sent("session", jar).req = "session"
  BY <1>1, SentIs
<1>6. TabInv(n)
  BY <1>1, <1>2, <1>3, <1>5, SlotsDiffer DEF TabInv
<1>7. OnlyTab(t) /\ tab'[t] = n
  BY <1>1, <1>3, TabMoves DEF TabsOK
<1> QED BY <1>1, <1>2, <1>3, <1>4, <1>6, <1>7

LEMMA AskTab ==
  ASSUME TabsOK, NEW t \in Tabs, NEW k \in Slots, NEW req \in Requests,
         tab' = [tab EXCEPT ![t] = Ask(@, k, req, jar)]
  PROVE  /\ OnlyTab(t)
         /\ Still(tab'[t], tab[t]) /\ Rest(tab'[t], tab[t], {k})
         /\ tab'[t].http[k] = Sent(req, jar)
<1> PICK b \in TabState : b = tab[t]
  BY DEF TabsOK, TypeOK
<1>1. jar \in Cookies /\ tab' = [tab EXCEPT ![t] = Ask(b, k, req, jar)]
  BY DEF TabsOK, TypeOK
<1> PICK n : n = Ask(b, k, req, jar)
  OBVIOUS
<1>2. n \in TabState /\ Still(n, b) /\ Rest(n, b, {k}) /\ n.http[k] = Sent(req, jar)
  BY <1>1, AskEffect DEF Still, Rest
<1>3. OnlyTab(t) /\ tab'[t] = n
  BY <1>1, <1>2, TabMoves DEF TabsOK
<1> QED BY <1>2, <1>3

LEMMA LoginTab ==
  ASSUME TabsOK, NEW t \in Tabs, NEW req \in {"login", "remembered_login"}, Login(t, req)
  PROVE  /\ OnlyTab(t) /\ TabInv(tab'[t])
         /\ tab[t].page = "landing" /\ tab[t].nav = "none"
         /\ Still(tab'[t], tab[t]) /\ Rest(tab'[t], tab[t], {"login"})
         /\ tab'[t].http["login"] = Sent(req, jar)
<1>1. /\ OnlyTab(t)
      /\ Still(tab'[t], tab[t]) /\ Rest(tab'[t], tab[t], {"login"})
      /\ tab'[t].http["login"] = Sent(req, jar)
  <2>1. /\ "login" \in Slots /\ req \in Requests
        /\ tab' = [tab EXCEPT ![t] = Ask(@, "login", req, jar)]
    BY SlotsDiffer DEF Login, Requests
  <2> QED BY <2>1, AskTab
<1>2. tab[t].page = "landing" /\ tab[t].nav = "none" /\ TabInv(tab[t]) /\ jar \in Cookies
  BY DEF Login, TabsOK, TypeOK
<1>3. Sent(req, jar).at = "sent" /\ Sent(req, jar).req = req
  BY <1>2, SentIs DEF Requests
<1>4. TabInv(tab'[t])
  BY <1>1, <1>2, <1>3, SlotsDiffer DEF TabInv, Still, Rest
<1> QED BY <1>1, <1>2, <1>4

LEMMA LogoutTab ==
  ASSUME TabsOK, NEW t \in Tabs, Logout(t)
  PROVE  OnlyTab(t) /\ TabInv(tab'[t])
<1>1. /\ OnlyTab(t)
      /\ Still(tab'[t], tab[t]) /\ Rest(tab'[t], tab[t], {"logout"})
      /\ tab'[t].http["logout"] = Sent("logout", jar)
  BY AskTab, SlotsDiffer DEF Logout, Requests
<1>2. tab[t].page = "home" /\ TabInv(tab[t]) /\ jar \in Cookies
  BY DEF Logout, TabsOK, TypeOK
<1>3. Sent("logout", jar).at = "sent" /\ Sent("logout", jar).req = "logout"
  BY <1>2, SentIs DEF Requests
<1>4. TabInv(tab'[t])
  BY <1>1, <1>2, <1>3, SlotsDiffer DEF TabInv, Still, Rest
<1> QED BY <1>1, <1>4

LEMMA CallTab ==
  ASSUME TabsOK, NEW t \in Tabs, NEW k \in Calls, Call(t, k)
  PROVE  /\ OnlyTab(t) /\ TabInv(tab'[t])
         /\ tab[t].page = "home"
         /\ Still(tab'[t], tab[t]) /\ Rest(tab'[t], tab[t], {k})
         /\ tab'[t].http[k] = Sent("call", jar)
<1>0. k \in Slots
  BY SlotsDiffer
<1>1. /\ OnlyTab(t)
      /\ Still(tab'[t], tab[t]) /\ Rest(tab'[t], tab[t], {k})
      /\ tab'[t].http[k] = Sent("call", jar)
  BY <1>0, AskTab DEF Call, Requests
<1>2. tab[t].page = "home" /\ TabInv(tab[t]) /\ jar \in Cookies
  BY DEF Call, TabsOK, TypeOK
<1>3. Sent("call", jar).at = "sent" /\ Sent("call", jar).req = "call"
  BY <1>2, SentIs DEF Requests
<1>4. TabInv(tab'[t])
  BY <1>1, <1>2, <1>3, SlotsDiffer DEF TabInv, Still, Rest
<1> QED BY <1>1, <1>2, <1>4

\* The server answers, or finds the row that it will delete.
LEMMA ServedTab ==
  ASSUME TabsOK, NEW t \in Tabs, NEW k \in Slots, NEW how \in {"found", "answered", "refused"},
         NEW c \in Cookies, NEW r \in Tokens,
         tab' = [tab EXCEPT ![t].http[k] = [@ EXCEPT !.at = how, !.cookie = c, !.row = r]]
  PROVE  OnlyTab(t) /\ Served(tab'[t], tab[t], k, how, c)
<1> PICK b \in TabState : b = tab[t]
  BY DEF TabsOK, TypeOK
<1> DEFINE e == [b.http[k] EXCEPT !.at = how, !.cookie = c, !.row = r]
           n == [b EXCEPT !.http[k] = e]
<1>1. b.http[k] \in Exchange
  BY DEF TabState
<1>2. e \in Exchange /\ e.at = how /\ e.cookie = c /\ e.req = b.http[k].req
  BY <1>1 DEF Exchange
<1>3. tab' = [tab EXCEPT ![t] = n]
  BY DEF TabsOK, TypeOK, TabState
<1> HIDE DEF e
<1>4. n \in TabState /\ Still(n, b) /\ n.http[k] = e /\ Rest(n, b, {k})
  BY <1>2, SlotIsIdle
<1> HIDE DEF n
<1>5. OnlyTab(t) /\ tab'[t] = n
  BY <1>3, <1>4, TabMoves DEF TabsOK
<1> QED BY <1>2, <1>4, <1>5 DEF Served

LEMMA AnsweredTab ==
  ASSUME TabsOK, NEW t \in Tabs, NEW k \in Slots, NEW how \in {"answered", "refused", "lost"},
         NEW c \in Cookies,
         tab[t].http[k].at \in {"sent", "answered", "refused"},
         how # "lost" => tab[t].http[k].at = how,
         tab' = [tab EXCEPT ![t] = Answer(@, k, how, c)]
  PROVE  OnlyTab(t) /\ TabInv(tab'[t]) /\ Outcome(tab'[t], tab[t], k, how, c)
<1> PICK b \in TabState : b = tab[t]
  BY DEF TabsOK, TypeOK
<1>1. TabInv(b) /\ tab' = [tab EXCEPT ![t] = Answer(b, k, how, c)]
  BY DEF TabsOK
<1> PICK n : n = Answer(b, k, how, c)
  OBVIOUS
<1>2. n \in TabState /\ Outcome(n, b, k, how, c)
  BY <1>1, AnswerOutcome
<1>3. TabInv(n)
  BY <1>1, <1>2, AnswerKeepsTab
<1>4. OnlyTab(t) /\ tab'[t] = n
  BY <1>1, <1>2, TabMoves DEF TabsOK
<1> QED BY <1>2, <1>3, <1>4

--------------------------------------------------------------------------------
(* What the steps of the server and of the network do *)

LEMMA ExchangeTypes ==
  ASSUME TabsOK, NEW t \in Tabs, NEW k \in Slots
  PROVE  /\ tab[t] \in TabState /\ TabInv(tab[t])
         /\ tab[t].http[k] \in Exchange /\ tab[t].http[k].cookie \in Cookies
         /\ tab[t].http[k].cookie.session \in Tokens /\ tab[t].http[k].cookie.remember \in Tokens
  BY DEF TabsOK, TypeOK, TabState, Exchange, Cookies

LEMMA SlotOfRequest ==
  ASSUME NEW b, TabInv(b), NEW k \in Slots, b.http[k].at \in {"sent", "found", "answered"}
  PROVE  /\ b.http[k].req \in {"session", "call", "retry"} => k \notin {"login", "logout"}
         /\ b.http[k].req = "refresh" => k \in Refreshes
         /\ b.http[k].req \in {"login", "remembered_login"} => k = "login"
         /\ b.http[k].req = "logout" => k = "logout"
  BY SlotsDiffer DEF TabInv

LEMMA ServeProtectedTab ==
  ASSUME TabsOK, NEW t \in Tabs, NEW k \in Slots, ServeProtected(t, k)
  PROVE  LET q == tab[t].http[k]
             how == IF q.cookie.session \in sessions THEN "answered" ELSE "refused" IN
         /\ OnlyTab(t) /\ TabInv(tab'[t])
         /\ q.at = "sent" /\ q.req \in {"session", "call", "retry"}
         /\ k \notin {"login", "logout"}
         /\ Served(tab'[t], tab[t], k, how, NoCookies)
         /\ UNCHANGED <<Server, jar, excused>>
<1> DEFINE q == tab[t].http[k]
           how == IF q.cookie.session \in sessions THEN "answered" ELSE "refused"
<1>1. q.at = "sent" /\ q.req \in {"session", "call", "retry"} /\ TabInv(tab[t])
  BY DEF ServeProtected, TabsOK
<1>2. k \notin {"login", "logout"}
  BY <1>1, SlotOfRequest
<1>3. how \in {"found", "answered", "refused"} /\ how # "found" /\ NoCookies \in Cookies /\ NoToken \in Tokens
  BY TokenTypes
<1>4. tab' = [tab EXCEPT ![t].http[k] = [@ EXCEPT !.at = how, !.cookie = NoCookies, !.row = NoToken]]
  BY DEF ServeProtected, Reply
<1>5. OnlyTab(t) /\ Served(tab'[t], tab[t], k, how, NoCookies)
  <2> HIDE DEF how
  <2> QED BY <1>3, <1>4, ServedTab
<1>6. TabInv(tab'[t])
  <2>1. tab[t] \in TabState /\ tab'[t] \in TabState
    BY <1>5, ExchangeTypes DEF OnlyTab
  <2> HIDE DEF how
  <2> QED BY <1>1, <1>2, <1>3, <1>5, <2>1, ServedKeepsTab
<1> QED BY <1>1, <1>2, <1>5, <1>6 DEF ServeProtected

LEMMA ServeRefreshTab ==
  ASSUME TabsOK, NEW t \in Tabs, NEW k \in Slots, ServeRefresh(t, k)
  PROVE  LET q == tab[t].http[k]
             row == Row(q.cookie.remember)
             new == issued + 1 IN
         /\ OnlyTab(t) /\ TabInv(tab'[t])
         /\ q.at = "sent" /\ q.req = "refresh" /\ k \in Refreshes
         /\ \/ /\ row = {} /\ UNCHANGED Server
               /\ Served(tab'[t], tab[t], k, "refused", NoCookies)
            \/ /\ row # {} /\ issued' = new /\ new \in Tokens \ {NoToken}
               /\ sessions' = sessions \cup {new}
               /\ remembers' = {m \in remembers : m.token # q.cookie.remember}
                               \cup {[row |-> r, token |-> new] : r \in row}
               /\ Served(tab'[t], tab[t], k, "answered", [session |-> new, remember |-> new])
         /\ excused \subseteq excused'
         /\ "other_tab" \notin excused' => ~ Contended(t) /\ q.cookie.remember = jar.remember
         /\ excused' \subseteq excused \cup {"other_tab"}
         /\ jar' = jar
<1> DEFINE q == tab[t].http[k]
           row == Row(q.cookie.remember)
           new == issued + 1
<1>1. q.at = "sent" /\ q.req = "refresh" /\ TabInv(tab[t]) /\ jar' = jar
  BY DEF ServeRefresh, TabsOK
<1>2. k \in Refreshes
  BY <1>1, SlotOfRequest
<1>3. k \notin {"login", "logout"}
  BY <1>2, SlotsDiffer
<1>4. NoCookies \in Cookies /\ NoToken \in Tokens /\ tab[t] \in TabState
  BY TokenTypes, ExchangeTypes
<1>5. /\ excused \subseteq excused'
      /\ "other_tab" \notin excused' => ~ Contended(t) /\ q.cookie.remember = jar.remember
      /\ excused' \subseteq excused \cup {"other_tab"}
  BY DEF ServeRefresh
<1>6. CASE row = {}
  <2>1. UNCHANGED Server
    BY <1>6 DEF ServeRefresh
  <2>2. tab' = [tab EXCEPT ![t].http[k] = [@ EXCEPT !.at = "refused", !.cookie = NoCookies, !.row = NoToken]]
    BY <1>6 DEF ServeRefresh, Reply
  <2>3. OnlyTab(t) /\ Served(tab'[t], tab[t], k, "refused", NoCookies)
    BY <1>4, <2>2, ServedTab
  <2>4. tab'[t] \in TabState
    BY <2>3 DEF OnlyTab
  <2>5. TabInv(tab'[t])
    BY <1>1, <1>3, <1>4, <2>3, <2>4, ServedKeepsTab
  <2> QED BY <1>1, <1>2, <1>5, <1>6, <2>1, <2>3, <2>5
<1>7. CASE row # {}
  <2> DEFINE c == [session |-> new, remember |-> new]
  <2>1. /\ issued < MaxTokens /\ issued' = new
        /\ sessions' = sessions \cup {new}
        /\ remembers' = {m \in remembers : m.token # q.cookie.remember}
                        \cup {[row |-> r, token |-> new] : r \in row}
    BY <1>7 DEF ServeRefresh
  <2>2. tab' = [tab EXCEPT ![t].http[k] = [@ EXCEPT !.at = "answered", !.cookie = c, !.row = NoToken]]
    BY <1>7 DEF ServeRefresh, Reply
  <2>3. issued \in 0..MaxTokens /\ MaxTokens \in Nat
    BY SessionAssumption DEF TabsOK, TypeOK, Tokens
  <2>4. new \in Tokens \ {NoToken}
    BY <2>1, <2>3 DEF Tokens, NoToken
  <2>5. c \in Cookies
    BY <2>4 DEF Cookies
  <2>6. OnlyTab(t) /\ Served(tab'[t], tab[t], k, "answered", c)
    <3> HIDE DEF c
    <3> QED BY <1>4, <2>2, <2>5, ServedTab
  <2>7. tab'[t] \in TabState
    BY <2>6 DEF OnlyTab
  <2>8. TabInv(tab'[t])
    <3> HIDE DEF c
    <3> QED BY <1>1, <1>3, <1>4, <2>6, <2>7, ServedKeepsTab
  <2> QED BY <1>1, <1>2, <1>5, <1>7, <2>1, <2>4, <2>6, <2>8
<1> QED BY <1>6, <1>7

LEMMA FindRememberedTab ==
  ASSUME TabsOK, NEW t \in Tabs, NEW k \in Slots, FindRemembered(t, k)
  PROVE  LET q == tab[t].http[k] IN
         /\ OnlyTab(t) /\ TabInv(tab'[t])
         /\ q.at = "sent" /\ k \in {"login", "logout"} /\ Row(q.cookie.remember) # {}
         /\ Served(tab'[t], tab[t], k, "found", q.cookie)
         /\ UNCHANGED <<Server, jar, excused>>
<1> DEFINE q == tab[t].http[k]
<1>1. q.at = "sent" /\ k \in {"login", "logout"} /\ TabInv(tab[t]) /\ UNCHANGED <<Server, jar, excused>>
  BY DEF FindRemembered, TabsOK
<1>2. PICK r \in Row(q.cookie.remember) :
        tab' = [tab EXCEPT ![t].http[k] = [@ EXCEPT !.at = "found", !.row = r]]
  BY DEF FindRemembered
<1>3. r \in Tokens
  BY DEF Row, TabsOK, TypeOK
<1>4. tab[t] \in TabState /\ q \in Exchange /\ q.cookie \in Cookies
  BY ExchangeTypes
<1>5. tab' = [tab EXCEPT ![t].http[k] = [@ EXCEPT !.at = "found", !.cookie = q.cookie, !.row = r]]
  <2>1. [q EXCEPT !.at = "found", !.row = r] = [q EXCEPT !.at = "found", !.cookie = q.cookie, !.row = r]
    BY <1>4 DEF Exchange
  <2> QED BY <1>2, <2>1
<1>6. OnlyTab(t) /\ Served(tab'[t], tab[t], k, "found", q.cookie)
  BY <1>3, <1>4, <1>5, ServedTab
<1>7. tab'[t] \in TabState
  BY <1>6 DEF OnlyTab
<1>8. TabInv(tab'[t])
  BY <1>1, <1>4, <1>6, <1>7, ServedKeepsTab
<1> QED BY <1>1, <1>2, <1>6, <1>8

LEMMA ServeLoginTab ==
  ASSUME TabsOK, NEW t \in Tabs, NEW k \in Slots, ServeLogin(t, k)
  PROVE  LET q == tab[t].http[k]
             row == IF q.at = "found" THEN {q.row} ELSE Row(q.cookie.remember)
             kept == {m \in remembers : m.row \notin row}
             new == issued + 1
             token == IF q.req = "remembered_login" THEN new ELSE NoToken IN
         /\ OnlyTab(t) /\ TabInv(tab'[t])
         /\ q.at \in {"sent", "found"} /\ k \in {"login", "logout"}
         /\ \/ /\ k = "logout" /\ issued' = issued
               /\ sessions' \subseteq sessions /\ remembers' = kept
               /\ Served(tab'[t], tab[t], k, "answered", NoCookies)
            \/ /\ k = "login" /\ issued' = new /\ new \in Tokens \ {NoToken}
               /\ sessions' = (sessions \ {q.cookie.session}) \cup {new}
               /\ remembers' = kept \cup (IF q.req = "remembered_login"
                                          THEN {[row |-> new, token |-> new]} ELSE {})
               /\ Served(tab'[t], tab[t], k, "answered", [session |-> new, remember |-> token])
         /\ excused \subseteq excused'
         /\ "other_tab" \notin excused' =>
              ~ Contended(t) /\ \A u \in Tabs \ {t} : tab[u].page # "home"
         /\ excused' \subseteq excused \cup {"other_tab"}
         /\ jar' = jar
<1> DEFINE q == tab[t].http[k]
           row == IF q.at = "found" THEN {q.row} ELSE Row(q.cookie.remember)
           kept == {m \in remembers : m.row \notin row}
           new == issued + 1
           token == IF q.req = "remembered_login" THEN new ELSE NoToken
<1>1. q.at \in {"sent", "found"} /\ k \in {"login", "logout"} /\ TabInv(tab[t]) /\ jar' = jar
  BY DEF ServeLogin, TabsOK
<1>2. NoCookies \in Cookies /\ NoToken \in Tokens /\ tab[t] \in TabState
  BY TokenTypes, ExchangeTypes
<1>3. /\ excused \subseteq excused'
      /\ "other_tab" \notin excused' =>
           ~ Contended(t) /\ \A u \in Tabs \ {t} : tab[u].page # "home"
      /\ excused' \subseteq excused \cup {"other_tab"}
  BY DEF ServeLogin
<1>4. CASE k = "logout"
  <2>1. /\ issued' = issued /\ sessions' \subseteq sessions /\ remembers' = kept
        /\ tab' = [tab EXCEPT ![t].http[k] = [@ EXCEPT !.at = "answered", !.cookie = NoCookies, !.row = NoToken]]
    BY <1>4 DEF ServeLogin, Reply
  <2>2. OnlyTab(t) /\ Served(tab'[t], tab[t], k, "answered", NoCookies)
    BY <1>2, <2>1, ServedTab
  <2>3. tab'[t] \in TabState
    BY <2>2 DEF OnlyTab
  <2>4. TabInv(tab'[t])
    BY <1>1, <1>2, <2>2, <2>3, ServedKeepsTab
  <2> QED BY <1>1, <1>3, <1>4, <2>1, <2>2, <2>4
<1>5. CASE k = "login"
  <2> DEFINE c == [session |-> new, remember |-> token]
  <2>1. /\ issued < MaxTokens /\ issued' = new
        /\ sessions' = (sessions \ {q.cookie.session}) \cup {new}
        /\ remembers' = kept \cup (IF q.req = "remembered_login"
                                   THEN {[row |-> new, token |-> new]} ELSE {})
    BY <1>5 DEF ServeLogin
  <2>2. tab' = [tab EXCEPT ![t].http[k] = [@ EXCEPT !.at = "answered", !.cookie = c, !.row = NoToken]]
    BY <1>5 DEF ServeLogin, Reply
  <2>3. issued \in 0..MaxTokens /\ MaxTokens \in Nat
    BY SessionAssumption DEF TabsOK, TypeOK, Tokens
  <2>4. new \in Tokens \ {NoToken}
    BY <2>1, <2>3 DEF Tokens, NoToken
  <2>5. c \in Cookies
    BY <1>2, <2>4 DEF Cookies
  <2>6. OnlyTab(t) /\ Served(tab'[t], tab[t], k, "answered", c)
    <3> HIDE DEF c
    <3> QED BY <1>2, <2>2, <2>5, ServedTab
  <2>7. tab'[t] \in TabState
    BY <2>6 DEF OnlyTab
  <2>8. TabInv(tab'[t])
    <3> HIDE DEF c
    <3> QED BY <1>1, <1>2, <2>6, <2>7, ServedKeepsTab
  <2> QED BY <1>1, <1>3, <1>5, <2>1, <2>4, <2>6, <2>8
<1> QED BY <1>1, <1>4, <1>5

LEMMA ReceiveTab ==
  ASSUME TabsOK, NEW t \in Tabs, NEW k \in Slots, Receive(t, k)
  PROVE  LET q == tab[t].http[k] IN
         /\ OnlyTab(t) /\ TabInv(tab'[t])
         /\ q.at \in {"answered", "refused"}
         /\ jar' = (IF SetsCookies(q) THEN q.cookie ELSE jar) /\ jar' \in Cookies
         /\ Outcome(tab'[t], tab[t], k, q.at, jar')
         /\ UNCHANGED <<Server, excused>>
<1> DEFINE q == tab[t].http[k]
<1>1. /\ q.at \in {"answered", "refused"}
      /\ jar' = IF SetsCookies(q) THEN q.cookie ELSE jar
      /\ UNCHANGED <<Server, excused>>
  BY DEF Receive
<1>2. tab' = [tab EXCEPT ![t] = Answer(@, k, q.at, jar')]
  BY DEF Receive
<1>3. jar' \in Cookies
  BY <1>1, ExchangeTypes DEF TabsOK, TypeOK
<1> PICK how \in {"answered", "refused", "lost"} : how = q.at
  BY <1>1
<1> PICK c \in Cookies : c = jar'
  BY <1>3
<1>4. OnlyTab(t) /\ TabInv(tab'[t]) /\ Outcome(tab'[t], tab[t], k, how, c)
  BY <1>1, <1>2, AnsweredTab
<1> QED BY <1>1, <1>3, <1>4

LEMMA LoseTab ==
  ASSUME TabsOK, NEW t \in Tabs, NEW k \in Slots, Lose(t, k)
  PROVE  OnlyTab(t) /\ TabInv(tab'[t])
<1>1. /\ tab[t].http[k].at \in {"sent", "answered", "refused"}
      /\ tab' = [tab EXCEPT ![t] = Answer(@, k, "lost", jar)]
      /\ jar \in Cookies
  BY DEF Lose, TabsOK, TypeOK
<1> QED BY <1>1, AnsweredTab

LEMMA TabsOKKept ==
  ASSUME TabsOK, NEW t \in Tabs, OnlyTab(t), TabInv(tab'[t])
  PROVE  tab' \in [Tabs -> TabState] /\ \A u \in Tabs : TabInv(tab'[u])
  BY DEF OnlyTab, TabsOK

LEMMA ServerTypes ==
  ASSUME TypeOK, UNCHANGED Server
  PROVE  /\ sessions' \subseteq Tokens \ {NoToken}
         /\ remembers' \subseteq [row: Tokens \ {NoToken}, token: Tokens \ {NoToken}]
         /\ issued' \in Tokens
  BY DEF TypeOK, Server

LEMMA RowTypes ==
  ASSUME TypeOK, NEW token
  PROVE  Row(token) \subseteq Tokens \ {NoToken}
  BY DEF TypeOK, Row

LEMMA TabsOKInit == Init => TabsOK
<1> SUFFICES ASSUME Init PROVE TabsOK
  OBVIOUS
<1>1. NoToken \in Tokens /\ NoCookies \in Cookies /\ Idle \in Exchange
  BY TokenTypes
<1>2. 0 \in Tokens
  BY <1>1 DEF NoToken
<1>3. tab \in [Tabs -> TabState]
  BY <1>1 DEF Init, TabState
<1>4. TypeOK
  BY <1>1, <1>2, <1>3 DEF Init, TypeOK
<1>5. ASSUME NEW t \in Tabs PROVE TabInv(tab[t])
  BY SlotsDiffer, IdleIs DEF Init, TabInv
<1> QED BY <1>4, <1>5 DEF TabsOK

LEMMA TabsOKStep == TabsOK /\ [Next]_vars => TabsOK'
<1> SUFFICES ASSUME TabsOK, [Next]_vars PROVE TabsOK'
  OBVIOUS
<1>0. /\ jar \in Cookies /\ excused \subseteq Excuses /\ TypeOK /\ tab \in [Tabs -> TabState]
      /\ sessions \subseteq Tokens \ {NoToken}
      /\ remembers \subseteq [row: Tokens \ {NoToken}, token: Tokens \ {NoToken}]
      /\ issued \in Tokens
  BY DEF TabsOK, TypeOK
<1> SUFFICES /\ sessions' \subseteq Tokens \ {NoToken}
             /\ remembers' \subseteq [row: Tokens \ {NoToken}, token: Tokens \ {NoToken}]
             /\ issued' \in Tokens
             /\ jar' \in Cookies
             /\ tab' \in [Tabs -> TabState] /\ \A u \in Tabs : TabInv(tab'[u])
             /\ excused' \subseteq Excuses
  BY DEF TabsOK, TypeOK
<1>1. ASSUME NEW t \in Tabs, NEW target \in {"landing", "home"}, Open(t, target)
      PROVE  UNCHANGED <<Server, jar, excused>> /\ OnlyTab(t) /\ TabInv(tab'[t])
  BY <1>1, OpenTab DEF Open
<1>2. ASSUME NEW t \in Tabs, NEW req \in {"login", "remembered_login"}, Login(t, req)
      PROVE  UNCHANGED <<Server, jar>> /\ OnlyTab(t) /\ TabInv(tab'[t]) /\ excused' \subseteq Excuses
  <2>1. UNCHANGED <<Server, jar>> /\ excused' \subseteq Excuses
    BY <1>0, <1>2 DEF Login, Excuse, Excuses
  <2> QED BY <1>2, <2>1, LoginTab
<1>3. ASSUME NEW t \in Tabs, Logout(t)
      PROVE  UNCHANGED <<Server, jar>> /\ OnlyTab(t) /\ TabInv(tab'[t]) /\ excused' \subseteq Excuses
  <2>1. UNCHANGED <<Server, jar>> /\ excused' \subseteq Excuses
    BY <1>0, <1>3 DEF Logout, Excuse, Excuses
  <2> QED BY <1>3, <2>1, LogoutTab
<1>4. ASSUME NEW t \in Tabs, NEW k \in Calls, Call(t, k)
      PROVE  UNCHANGED <<Server, jar, excused>> /\ OnlyTab(t) /\ TabInv(tab'[t])
  BY <1>4, CallTab DEF Call
<1>5. ASSUME NEW t \in Tabs, NEW k \in Slots, ServeProtected(t, k)
      PROVE  UNCHANGED <<Server, jar, excused>> /\ OnlyTab(t) /\ TabInv(tab'[t])
  BY <1>5, ServeProtectedTab
<1>6. ASSUME NEW t \in Tabs, NEW k \in Slots, ServeRefresh(t, k)
      PROVE  /\ sessions' \subseteq Tokens \ {NoToken}
             /\ remembers' \subseteq [row: Tokens \ {NoToken}, token: Tokens \ {NoToken}]
             /\ issued' \in Tokens /\ jar' = jar /\ excused' \subseteq Excuses
             /\ OnlyTab(t) /\ TabInv(tab'[t])
  <2> DEFINE row == Row(tab[t].http[k].cookie.remember)
             new == issued + 1
  <2>1. row \subseteq Tokens \ {NoToken}
    BY <1>0, RowTypes
  <2>2. /\ OnlyTab(t) /\ TabInv(tab'[t]) /\ jar' = jar
        /\ excused' \subseteq excused \cup {"other_tab"}
        /\ \/ UNCHANGED Server
           \/ /\ new \in Tokens \ {NoToken} /\ issued' = new /\ sessions' = sessions \cup {new}
              /\ remembers' = {m \in remembers : m.token # tab[t].http[k].cookie.remember}
                              \cup {[row |-> r, token |-> new] : r \in row}
    BY <1>6, ServeRefreshTab
  <2> HIDE DEF row, new
  <2>3. excused' \subseteq Excuses
    BY <1>0, <2>2 DEF Excuses
  <2>4. CASE UNCHANGED Server
    BY <1>0, <2>2, <2>3, <2>4, ServerTypes
  <2>5. CASE ~ UNCHANGED Server
    BY <1>0, <2>1, <2>2, <2>3, <2>5
  <2> QED BY <2>4, <2>5
<1>7. ASSUME NEW t \in Tabs, NEW k \in Slots, FindRemembered(t, k)
      PROVE  UNCHANGED <<Server, jar, excused>> /\ OnlyTab(t) /\ TabInv(tab'[t])
  BY <1>7, FindRememberedTab
<1>8. ASSUME NEW t \in Tabs, NEW k \in Slots, ServeLogin(t, k)
      PROVE  /\ sessions' \subseteq Tokens \ {NoToken}
             /\ remembers' \subseteq [row: Tokens \ {NoToken}, token: Tokens \ {NoToken}]
             /\ issued' \in Tokens /\ jar' = jar /\ excused' \subseteq Excuses
             /\ OnlyTab(t) /\ TabInv(tab'[t])
  <2> DEFINE new == issued + 1
  <2>1. /\ OnlyTab(t) /\ TabInv(tab'[t]) /\ jar' = jar
        /\ excused' \subseteq excused \cup {"other_tab"}
    BY <1>8, ServeLoginTab
  <2>2. \/ issued' = issued /\ sessions' \subseteq sessions /\ remembers' \subseteq remembers
        \/ /\ new \in Tokens \ {NoToken} /\ issued' = new /\ sessions' \subseteq sessions \cup {new}
           /\ remembers' \subseteq remembers \cup {[row |-> new, token |-> new]}
    BY <1>8, ServeLoginTab
  <2> HIDE DEF new
  <2>3. excused' \subseteq Excuses
    BY <1>0, <2>1 DEF Excuses
  <2>4. /\ sessions' \subseteq Tokens \ {NoToken}
        /\ remembers' \subseteq [row: Tokens \ {NoToken}, token: Tokens \ {NoToken}]
        /\ issued' \in Tokens
    BY <1>0, <2>2
  <2> QED BY <2>1, <2>3, <2>4
<1>9. ASSUME NEW t \in Tabs, NEW k \in Slots, Receive(t, k)
      PROVE  UNCHANGED <<Server, excused>> /\ jar' \in Cookies /\ OnlyTab(t) /\ TabInv(tab'[t])
  BY <1>9, ReceiveTab
<1>10. ASSUME NEW t \in Tabs, NEW k \in Slots, Lose(t, k)
       PROVE  UNCHANGED <<Server, jar>> /\ excused' \subseteq Excuses /\ OnlyTab(t) /\ TabInv(tab'[t])
  <2>1. UNCHANGED <<Server, jar>> /\ excused' \subseteq Excuses
    BY <1>0, <1>10 DEF Lose, Excuse, Excuses
  <2> QED BY <1>10, <2>1, LoseTab
<1>11. ASSUME NEW s \in sessions, Expire(s)
       PROVE  sessions' \subseteq sessions /\ UNCHANGED <<remembers, issued, jar, tab, excused>>
  BY <1>11 DEF Expire
<1>12. CASE Revoke
  BY <1>0, <1>12 DEF Revoke, Excuse, Excuses, TabsOK
<1>13. CASE UNCHANGED vars
  BY <1>0, <1>13 DEF vars, TabsOK
<1> DEFINE Goal == /\ sessions' \subseteq Tokens \ {NoToken}
                   /\ remembers' \subseteq [row: Tokens \ {NoToken}, token: Tokens \ {NoToken}]
                   /\ issued' \in Tokens
                   /\ jar' \in Cookies
                   /\ tab' \in [Tabs -> TabState] /\ \A u \in Tabs : TabInv(tab'[u])
                   /\ excused' \subseteq Excuses
<1>14. ASSUME NEW t \in Tabs, OnlyTab(t), TabInv(tab'[t]),
              UNCHANGED Server, jar' \in Cookies, excused' \subseteq Excuses
       PROVE  Goal
  BY <1>0, <1>14, TabsOKKept, ServerTypes
<1>15. ASSUME NEW t \in Tabs, OnlyTab(t), TabInv(tab'[t]),
              sessions' \subseteq Tokens \ {NoToken},
              remembers' \subseteq [row: Tokens \ {NoToken}, token: Tokens \ {NoToken}],
              issued' \in Tokens, jar' = jar, excused' \subseteq Excuses
       PROVE  Goal
  BY <1>0, <1>15, TabsOKKept
<1>16. ASSUME NEW s \in sessions, Expire(s) PROVE Goal
  BY <1>0, <1>11, <1>16 DEF TabsOK
<1>17. ASSUME NEW m \in remembers, ExpireRemembered(m) PROVE Goal
  <2>1. /\ remembers' \subseteq remembers /\ UNCHANGED <<sessions, issued, jar, tab>>
        /\ excused' = excused \cup {"remember_expired"}
    BY <1>17 DEF ExpireRemembered, Excuse
  <2>2. excused' \subseteq Excuses
    BY <1>0, <2>1 DEF Excuses
  <2> QED BY <1>0, <2>1, <2>2 DEF TabsOK
<1> HIDE DEF Goal
<1>18. ASSUME NEW t \in Tabs, NEW k \in Slots, Serve(t, k) \/ Receive(t, k) \/ Lose(t, k)
       PROVE  Goal
  BY <1>0, <1>5, <1>6, <1>7, <1>8, <1>9, <1>10, <1>14, <1>15, <1>18 DEF Serve
<1>19. ASSUME NEW t \in Tabs,
              \/ \E target \in {"landing", "home"} : Open(t, target)
              \/ \E req \in {"login", "remembered_login"} : Login(t, req)
              \/ Logout(t)
              \/ \E k \in Calls : Call(t, k)
       PROVE  Goal
  BY <1>0, <1>1, <1>2, <1>3, <1>4, <1>14, <1>19
<1>20. Next \/ UNCHANGED vars
  OBVIOUS
<1>21. Goal
  <2>1. CASE Next
    BY <1>12, <1>16, <1>17, <1>18, <1>19, <2>1 DEF Next, Goal
  <2> QED BY <1>13, <1>20, <2>1 DEF Goal
<1> QED BY <1>21 DEF Goal

\* The cookies, the exchanges and the tokens keep their types, and every tab
\* its discipline: one refresh at a time (AuthService.refreshRequest), a
\* login only from the landing page, a guard only while it navigates.
THEOREM TypeCorrect == Spec => []TypeOK
<1>1. TabsOK => TypeOK
  BY DEF TabsOK
<1> QED BY <1>1, TabsOKInit, TabsOKStep, PTL DEF Spec

--------------------------------------------------------------------------------
(* The cookies, the server and the tabs together *)

\* Nothing has happened but logins that asked not to be remembered.
Forgiven == excused \subseteq {"not_remembered"}

\* An answer on its way that sets the cookies of a session.
Setter(q) == q.at = "answered" /\ q.req \in {"login", "remembered_login", "refresh"}

\* A refresh of the tab has been refused, and the tab has yet to hear of it.
Stale(b) == \E r \in Refreshes : b.http[r].at = "refused"

\* At most one answer sets the cookies, to tokens that the server accepts;
\* when there is none, the cookies hold such a token, or no token.
SetterInv ==
  /\ \A t \in Tabs : tab[t].http["logout"].at = "idle"
  /\ \A t \in Tabs, k \in Slots : Setter(tab[t].http[k]) =>
       /\ tab[t].http[k].cookie.remember \in Live \cup {NoToken}
       /\ tab[t].http[k].req # "login" => tab[t].http[k].cookie.remember # NoToken
       /\ tab[t].http[k].cookie.session \in sessions
  /\ \A t, u \in Tabs, k, l \in Slots :
       Setter(tab[t].http[k]) /\ Setter(tab[u].http[l]) => t = u /\ k = l
  /\ (\A t \in Tabs, k \in Slots : ~ Setter(tab[t].http[k])) => jar.remember \in Live \cup {NoToken}

\* A tab of a browser that is not remembered.
ForgottenTab(b) ==
  /\ \A k \in Slots : b.http[k].cookie.remember # NoToken => k = "login" /\ b.http[k].at = "answered"
  /\ \A r \in Refreshes :
       b.http[r].at # "idle" => b.http[r].req = "refresh" /\ b.http[r].at # "answered"
  /\ \A k \in Calls : b.http[k].req # "retry"

\* A tab with the application open while another one is about to log in.
AsideTab(b) == b.page = "home" => ~ Stale(b) /\ b.nav = "none"

ForgottenInv == jar.remember = NoToken =>
  /\ \A t \in Tabs : ForgottenTab(tab[t])
  /\ (\E t \in Tabs : tab[t].http["login"].at = "answered") => \A t \in Tabs : AsideTab(tab[t])

\* A tab of a remembered browser: what its refreshes check is a session
\* that the server has just issued.
RememberedTab(b, active) ==
  /\ b.http["login"].at # "answered"
  /\ b.page = "home" =>
       /\ Stale(b) => b.nav = "none" /\ \A k \in Calls : b.http[k].req # "retry"
       /\ \A r \in Refreshes : b.http[r].at # "idle" /\ b.http[r].req = "session" =>
            /\ b.http[r].at # "refused"
            /\ b.http[r].at = "sent" => b.http[r].cookie.session \in active

RememberedInv == jar.remember # NoToken =>
  /\ \E t \in Tabs : tab[t].page = "home"
  /\ \A t \in Tabs : RememberedTab(tab[t], sessions)

\* A tab of a browser that has always asked to be remembered.
LoyalTab(b, cookies, active) ==
  /\ b.http["login"].at # "idle" => b.http["login"].req = "remembered_login"
  /\ \A k \in Slots :
       \/ b.http[k].cookie.session # NoToken /\ ~ Setter(b.http[k])
       \/ b.http[k].req = "session" /\ b.http[k].at = "answered"
       => cookies.remember # NoToken
  /\ b.page # "home" =>
       /\ \A k \in Calls : b.http[k].at = "idle"
       /\ b.refreshRequest # None => b.http["guard"].at = "waiting"
  /\ b.page = "home" =>
       /\ cookies.remember # NoToken
       /\ b.nav = "none" /\ b.authenticated = "yes" /\ ~ Stale(b)
       /\ \A k \in Calls :
            /\ b.http[k].at # "failed"
            /\ b.http[k].req = "retry" => b.http[k].at # "refused"
            /\ b.http[k].req = "retry" /\ b.http[k].at = "sent" => b.http[k].cookie.session \in active
       /\ \A r \in Refreshes :
            b.http[r].at # "idle" /\ b.http[r].req = "session" => cookies.session \in active

LoyalInv ==
  /\ jar.session # NoToken <=> jar.remember # NoToken
  /\ \A t \in Tabs : LoyalTab(tab[t], jar, sessions)

Promises == SetterInv /\ ForgottenInv /\ RememberedInv /\ (excused = {} => LoyalInv)

\* The inductive invariant.
SessionInv == TabsOK /\ (Forgiven => Promises)

LEMMA NoTabHeldBack ==
  ASSUME NEW b, TabInv(b), NEW active, ForgottenTab(b), AsideTab(b), b.http["login"].at # "answered"
  PROVE  RememberedTab(b, active)
  BY DEF ForgottenTab, AsideTab, RememberedTab

--------------------------------------------------------------------------------
(* What an answer leaves of these *)

\* No answer makes another one, and only its own slot stops to be one.
LEMMA OutcomeSetters ==
  ASSUME NEW b \in TabState, TabInv(b), NEW k \in Slots, NEW c \in Cookies,
         NEW how \in {"answered", "refused"}, b.http[k].at = how,
         NEW n \in TabState, TabInv(n), Outcome(n, b, k, how, c)
  PROVE  /\ ~ Setter(n.http[k])
         /\ \A l \in Slots \ {k} : Setter(b.http[l]) <=> Setter(n.http[l])
         /\ \A l \in Slots : Setter(n.http[l]) => n.http[l] = b.http[l]
         /\ b.http["logout"].at = "idle" => n.http["logout"].at = "idle"
<1>0. \A l \in Calls \cup {"guard", "logout"} : ~ Setter(b.http[l]) /\ ~ Setter(n.http[l])
  BY SlotsDiffer DEF TabInv, Setter
<1> SUFFICES /\ ~ Setter(n.http[k])
             /\ \A l \in (Refreshes \cup {"login"}) \ {k} :
                  n.http[l] = b.http[l] \/ (~ Setter(b.http[l]) /\ ~ Setter(n.http[l]))
             /\ b.http["logout"].at = "idle" => n.http["logout"].at = "idle"
  BY <1>0, SlotsDiffer
<1>1. ~ Setter(Idle) /\ ~ Setter(Failed) /\ \A req \in Requests : ~ Setter(Sent(req, c))
  BY IdleIs, FailedIs, SentIs DEF Setter
<1>2. ~ Setter(Sent("session", c)) /\ ~ Setter(Sent("refresh", c))
  BY <1>1 DEF Requests
<1>3. CASE k = "login" /\ Enters(n, b, k)
  BY <1>1, <1>3, SlotsDiffer DEF Enters, Rest
<1>4. CASE Drops(n, b, k)
  BY <1>1, <1>4, SlotsDiffer, IdleIs DEF Drops, Rest
<1>5. CASE k = "logout" /\ Leaves(n, b, k, Idle, c)
  BY <1>1, <1>5, SlotsDiffer, IdleIs DEF Leaves, Rest
<1>6. CASE k \in Calls /\ Leaves(n, b, k, Failed, c)
  BY <1>0, <1>6, SlotsDiffer DEF Leaves, Rest
<1>7. CASE (k = "guard" \/ k \in Calls) /\ Awaits(n, b, k, c)
  <2>1. /\ ~ Setter(n.http[k])
        /\ b.http["logout"].at = "idle" => n.http["logout"].at = "idle"
    BY <1>0, <1>7, SlotsDiffer DEF Awaits
  <2>2. n.http["login"] = b.http["login"]
    BY <1>7, SlotsDiffer DEF Awaits
  <2>3. \A r \in Refreshes : n.http[r] = b.http[r] \/ (b.http[r].at = "idle" /\ n.http[r] = Sent("refresh", c))
    BY <1>7, SlotsDiffer DEF Awaits, TabInv
  <2> QED BY <1>2, <2>1, <2>2, <2>3 DEF Setter
<1>8. CASE k = "guard" /\ Checked(n, b, how = "answered", c)
  BY <1>0, <1>8, SlotsDiffer DEF Checked, Rest
<1>9. CASE k \in Refreshes /\ Rechecks(n, b, k, c)
  BY <1>2, <1>9, SlotsDiffer DEF Rechecks, Rest
<1>10. CASE k \in Refreshes /\ Refreshed(n, b, k, how = "answered", c)
  BY <1>1, <1>10, SlotsDiffer DEF Refreshed
<1> QED BY <1>3, <1>4, <1>5, <1>6, <1>7, <1>8, <1>9, <1>10 DEF Outcome

\* The cookies are those that the tab had, those of the browser, or none.
LEMMA OutcomeCookies ==
  ASSUME NEW b \in TabState, TabInv(b), NEW k \in Slots, NEW c \in Cookies,
         NEW how \in {"answered", "refused"}, b.http[k].at = how,
         NEW n \in TabState, Outcome(n, b, k, how, c)
  PROVE  \A l \in Slots :
           /\ \/ n.http[l].cookie.remember = b.http[l].cookie.remember
              \/ n.http[l].cookie.remember = NoToken
              \/ n.http[l].cookie.remember = c.remember
           /\ \/ n.http[l].cookie.session = b.http[l].cookie.session
              \/ n.http[l].cookie.session = NoToken
              \/ n.http[l].cookie.session = c.session
<1> DEFINE Kept(q, o) == /\ \/ q.cookie.remember = o.cookie.remember
                            \/ q.cookie.remember = NoToken
                            \/ q.cookie.remember = c.remember
                         /\ \/ q.cookie.session = o.cookie.session
                            \/ q.cookie.session = NoToken
                            \/ q.cookie.session = c.session
<1>0. \A o : Kept(o, o)
  OBVIOUS
<1>1. \A o : Kept(Idle, o) /\ Kept(Failed, o)
  BY IdleIs, FailedIs DEF NoCookies
<1>2. \A o : Kept(Sent("session", c), o) /\ Kept(Sent("refresh", c), o) /\ Kept(Sent("retry", c), o)
  BY SentIs
<1>3. \A q, o : q.cookie = o.cookie => Kept(q, o)
  OBVIOUS
<1> SUFFICES \A l \in Slots : Kept(n.http[l], b.http[l])
  OBVIOUS
<1> HIDE DEF Kept
<1>4. CASE Enters(n, b, k)
  BY <1>0, <1>1, <1>4 DEF Enters, Rest
<1>5. CASE Drops(n, b, k)
  BY <1>0, <1>1, <1>5 DEF Drops, Rest
<1>6. CASE Leaves(n, b, k, Idle, c) \/ Leaves(n, b, k, Failed, c)
  <2>1. n.http[k] \in {Idle, Failed} /\ \A l \in Slots \ {k, "guard"} : n.http[l] = b.http[l]
    BY <1>6 DEF Leaves, Rest
  <2>2. n.http["guard"] \in {b.http["guard"], Idle, Sent("session", c)}
    BY <1>6 DEF Leaves, LoggedOut
  <2> QED BY <1>0, <1>1, <1>2, <2>1, <2>2
<1>7. CASE Awaits(n, b, k, c)
  <2>1. n.http[k].cookie = b.http[k].cookie
        /\ \A l \in Slots \ {k} : n.http[l] = b.http[l] \/ n.http[l] = Sent("refresh", c)
    <3>1. PICK r \in Refreshes :
            /\ \A l \in Refreshes \ {r} : n.http[l] = b.http[l]
            /\ n.http[r] = b.http[r] \/ n.http[r] = Sent("refresh", c)
      BY <1>7 DEF Awaits
    <3> QED BY <1>7, <3>1 DEF Awaits
  <2> QED BY <1>0, <1>2, <1>3, <2>1
<1>8. CASE k = "guard" /\ Checked(n, b, how = "answered", c)
  <2>1. \A l \in Slots : n.http[l] \in {b.http[l], Idle, Sent("session", c)}
    BY <1>8 DEF Checked, Enters, Rest
  <2> QED BY <1>0, <1>1, <1>2, <2>1
<1>9. CASE Rechecks(n, b, k, c)
  BY <1>0, <1>2, <1>9 DEF Rechecks, Rest
<1>10. CASE k \in Refreshes /\ Refreshed(n, b, k, how = "answered", c)
  <2>1. \A l \in Slots \ {"guard"} : n.http[l] \in {b.http[l], Idle, Failed, Sent("retry", c)}
    BY <1>10, SlotsDiffer DEF Refreshed
  <2>2. n.http["guard"] \in {b.http["guard"], Idle, Sent("session", c)}
    BY <1>10 DEF Refreshed, LoggedOut
  <2> QED BY <1>0, <1>1, <1>2, <2>1, <2>2
<1> QED BY <1>4, <1>5, <1>6, <1>7, <1>8, <1>9, <1>10 DEF Outcome

LEMMA OutcomeForgotten ==
  ASSUME NEW b \in TabState, TabInv(b), NEW k \in Slots, NEW c \in Cookies, c.remember = NoToken,
         NEW how \in {"answered", "refused"}, b.http[k].at = how, k # "logout",
         NEW n \in TabState, TabInv(n), Outcome(n, b, k, how, c),
         ForgottenTab(b)
  PROVE  /\ ForgottenTab(n)
         /\ n.http["login"].at = "answered" => b.http["login"].at = "answered" /\ k # "login"
<1>0. /\ \A l \in Calls : b.http[l].req # "retry"
      /\ \A r \in Refreshes : b.http[r].at # "idle" => b.http[r].req = "refresh" /\ b.http[r].at # "answered"
      /\ \A l \in Slots : b.http[l].cookie.remember # NoToken => l = "login" /\ b.http[l].at = "answered"
  BY DEF ForgottenTab
<1>1. \A l \in Slots : n.http[l].cookie.remember # NoToken =>
        n.http[l].cookie.remember = b.http[l].cookie.remember
  BY OutcomeCookies
<1> SUFFICES /\ \A r \in Refreshes :
                  n.http[r].at # "idle" => n.http[r].req = "refresh" /\ n.http[r].at # "answered"
             /\ \A l \in Calls : n.http[l].req # "retry"
             /\ n.http["login"] = b.http["login"] \/ (n.http["login"] = Idle /\ k = "login")
             /\ k = "login" => n.http["login"] = Idle
  <2>1. \A l \in Slots : n.http[l].cookie.remember # NoToken => l = "login" /\ n.http[l].at = "answered"
    BY <1>0, <1>1, SlotsDiffer, IdleIs
  <2>2. n.http["login"].at = "answered" => b.http["login"].at = "answered" /\ k # "login"
    BY IdleIs
  <2> QED BY <2>1, <2>2 DEF ForgottenTab
<1>2. CASE k = "login" /\ Enters(n, b, k)
  BY <1>0, <1>2, SlotsDiffer, IdleIs DEF Enters, Rest
<1>3. CASE Drops(n, b, k) /\ (k = "login" \/ k \in Calls)
  BY <1>0, <1>3, SlotsDiffer, IdleIs DEF Drops, Rest
<1>4. CASE (k = "guard" \/ k \in Calls) /\ Awaits(n, b, k, c)
  <2>1. \A r \in Refreshes : n.http[r] = b.http[r] \/ n.http[r] = Sent("refresh", c)
    BY <1>4, SlotsDiffer DEF Awaits
  <2>2. Sent("refresh", c).req = "refresh" /\ Sent("refresh", c).at = "sent"
    BY SentIs
  <2>3. \A l \in Calls : n.http[l].req = b.http[l].req
    BY <1>4, SlotsDiffer DEF Awaits
  <2>4. n.http["login"] = b.http["login"] /\ k # "login"
    BY <1>4, SlotsDiffer DEF Awaits
  <2> QED BY <1>0, <2>1, <2>2, <2>3, <2>4
<1>5. CASE k = "guard" /\ Checked(n, b, how = "answered", c)
  <2>1. \A l \in Slots \ {"guard"} : n.http[l] = b.http[l]
    BY <1>5 DEF Checked, Rest
  <2> QED BY <1>0, <1>5, <2>1, SlotsDiffer
<1>6. CASE k \in Refreshes /\ how = "refused" /\ Refreshed(n, b, k, how = "answered", c)
  <2>1. \A l \in Slots \ {"guard"} : n.http[l] \in {b.http[l], Idle, Failed}
    BY <1>6, SlotsDiffer DEF Refreshed
  <2>2. n.http["login"] = b.http["login"] /\ k # "login"
    BY <1>6, SlotsDiffer DEF Refreshed
  <2>3. \A r \in Refreshes : n.http[r] \in {b.http[r], Idle}
    BY <1>6, SlotsDiffer DEF Refreshed
  <2> QED BY <1>0, <2>1, <2>2, <2>3, SlotsDiffer, IdleIs, FailedIs
<1> QED BY <1>0, <1>2, <1>3, <1>4, <1>5, <1>6, SlotsDiffer DEF Outcome

LEMMA OutcomeAside ==
  ASSUME NEW b \in TabState, TabInv(b), NEW k \in Slots, NEW c \in Cookies,
         NEW how \in {"answered", "refused"}, b.http[k].at = how, k \notin {"login", "logout"},
         NEW n \in TabState, TabInv(n), Outcome(n, b, k, how, c),
         ForgottenTab(b), AsideTab(b)
  PROVE  AsideTab(n)
<1>0. /\ \A l \in Calls : b.http[l].req # "retry"
      /\ \A r \in Refreshes : b.http[r].at # "idle" => b.http[r].req = "refresh" /\ b.http[r].at # "answered"
  BY DEF ForgottenTab
<1>2. CASE Drops(n, b, k) /\ k \in Calls
  BY <1>2, SlotsDiffer DEF Drops, Rest, Still, AsideTab, Stale
<1>3. CASE (k = "guard" \/ k \in Calls) /\ Awaits(n, b, k, c)
  <2>1. \A r \in Refreshes : n.http[r] = b.http[r] \/ n.http[r] = Sent("refresh", c)
    BY <1>3, SlotsDiffer DEF Awaits
  <2>2. Sent("refresh", c).at = "sent"
    BY SentIs
  <2>3. Stale(n) => Stale(b)
    BY <2>1, <2>2 DEF Stale
  <2> QED BY <1>3, <2>3 DEF Awaits, Still, AsideTab
<1>4. CASE k = "guard" /\ how = "answered" /\ Checked(n, b, how = "answered", c)
  <2>0. Rest(n, b, {"guard"}) /\ n.nav = "none"
    <3>1. Rest(n, b, {"guard"}) /\ Enters(n, b, "guard")
      BY <1>4 DEF Checked
    <3> QED BY <3>1 DEF Enters
  <2>1. b.nav # "none" /\ n.nav = "none" /\ \A r \in Refreshes : n.http[r] = b.http[r]
    <3>1. b.http["guard"].at # "idle"
      BY <1>4
    <3>2. b.nav # "none"
      BY <3>1 DEF TabInv
    <3>3. \A r \in Refreshes : n.http[r] = b.http[r]
      BY <2>0, SlotsDiffer DEF Rest
    <3> QED BY <2>0, <3>2, <3>3
  <2>2. b.page = "none"
    <3>1. b.page \in {"none", "landing", "home"}
      BY DEF TabState
    <3>2. b.page # "home"
      BY <2>1 DEF AsideTab
    <3>3. b.page # "landing"
      BY <2>1 DEF TabInv
    <3> QED BY <3>1, <3>2, <3>3
  <2>3. b.refreshRequest = None
    BY <1>4, <2>2 DEF TabInv
  <2>4. ~ Stale(n)
    BY <2>1, <2>3, SlotsDiffer DEF Stale, TabInv
  <2> QED BY <2>1, <2>4 DEF AsideTab
<1>5. CASE k \in Refreshes /\ how = "refused" /\ Refreshed(n, b, k, how = "answered", c)
  <2>1. b.page # "home"
    BY <1>5 DEF AsideTab, Stale
  <2>2. n.page # "home"
    BY <1>5, <2>1, LoggedOutKeeps DEF Refreshed
  <2> QED BY <2>2 DEF AsideTab
<1> QED BY <1>0, <1>2, <1>3, <1>4, <1>5, SlotsDiffer DEF Outcome

LEMMA OutcomeRemembered ==
  ASSUME NEW b \in TabState, TabInv(b), NEW k \in Slots, NEW c \in Cookies,
         NEW how \in {"answered", "refused"}, b.http[k].at = how, k \notin {"login", "logout"},
         NEW n \in TabState, TabInv(n), Outcome(n, b, k, how, c),
         NEW active, RememberedTab(b, active),
         k \in Refreshes /\ how = "answered" /\ b.http[k].req = "refresh" => c.session \in active
  PROVE  RememberedTab(n, active) /\ (b.page = "home" => n.page = "home")
<1>0. /\ b.http["login"].at # "answered"
      /\ b.page = "home" => (Stale(b) => b.nav = "none" /\ \A l \in Calls : b.http[l].req # "retry")
      /\ b.page = "home" => \A r \in Refreshes : b.http[r].at # "idle" /\ b.http[r].req = "session" =>
           /\ b.http[r].at # "refused"
           /\ b.http[r].at = "sent" => b.http[r].cookie.session \in active
  BY DEF RememberedTab
<1>1. CASE Drops(n, b, k) /\ k \in Calls
  <2>1. /\ n.page = b.page /\ n.nav = b.nav /\ n.http["login"] = b.http["login"]
        /\ \A r \in Refreshes : n.http[r] = b.http[r]
        /\ \A l \in Calls : n.http[l] = b.http[l] \/ n.http[l] = Idle
    BY <1>1, SlotsDiffer DEF Drops, Rest, Still
  <2>2. Stale(n) => Stale(b)
    BY <2>1 DEF Stale
  <2> QED BY <1>0, <2>1, <2>2, IdleIs DEF RememberedTab
<1>2. CASE Leaves(n, b, k, Failed, c) /\ k \in Calls /\ b.http[k].req = "retry"
  <2>1. /\ n.page = b.page /\ n.http["login"] = b.http["login"]
        /\ \A r \in Refreshes : n.http[r] = b.http[r]
    BY <1>2, SlotsDiffer DEF Leaves, Rest
  <2>2. b.page = "home" => ~ Stale(n)
    BY <1>0, <1>2, <2>1 DEF Stale
  <2> QED BY <1>0, <2>1, <2>2 DEF RememberedTab
<1>3. CASE (k = "guard" \/ k \in Calls) /\ Awaits(n, b, k, c)
  <2>1. /\ n.page = b.page /\ n.nav = b.nav /\ n.http["login"] = b.http["login"]
        /\ \A r \in Refreshes : n.http[r] = b.http[r] \/ n.http[r] = Sent("refresh", c)
        /\ \A l \in Calls : n.http[l].req = b.http[l].req
    BY <1>3, SlotsDiffer DEF Awaits, Still
  <2>2. Sent("refresh", c).at = "sent" /\ Sent("refresh", c).req = "refresh"
    BY SentIs
  <2>3. Stale(n) => Stale(b)
    BY <2>1, <2>2 DEF Stale
  <2> QED BY <1>0, <2>1, <2>2, <2>3 DEF RememberedTab
<1>4. CASE k = "guard" /\ how = "answered" /\ Checked(n, b, how = "answered", c)
  <2>1. Rest(n, b, {"guard"}) /\ Enters(n, b, "guard")
    BY <1>4 DEF Checked
  <2>2. /\ n.page = "home" /\ n.nav = "none" /\ n.http["login"] = b.http["login"]
        /\ \A r \in Refreshes : n.http[r] = b.http[r]
    BY <2>1, SlotsDiffer DEF Enters, Rest
  <2>3. b.nav # "none"
    <3>1. b.http["guard"].at # "idle"
      BY <1>4
    <3> QED BY <3>1 DEF TabInv
  <2>4. CASE b.page = "home"
    <3>1. ~ Stale(n)
      BY <1>0, <2>2, <2>3, <2>4 DEF Stale
    <3> QED BY <1>0, <2>2, <2>4, <3>1 DEF RememberedTab
  <2>5. CASE b.page # "home"
    <3>1. b.page = "none"
      <4>1. b.page \in {"none", "landing", "home"}
        BY DEF TabState
      <4>2. b.page # "landing"
        BY <2>3 DEF TabInv
      <4> QED BY <2>5, <4>1, <4>2
    <3>2. b.refreshRequest = None
      BY <1>4, <3>1 DEF TabInv
    <3>3. \A r \in Refreshes : n.http[r].at = "idle"
      BY <2>2, <3>2, SlotsDiffer DEF TabInv
    <3> QED BY <1>0, <2>2, <2>5, <3>3 DEF RememberedTab, Stale
  <2> QED BY <2>4, <2>5
<1>5. CASE k \in Refreshes /\ how = "answered" /\ b.http[k].req = "refresh" /\ Rechecks(n, b, k, c)
  <2>1. /\ n.page = b.page /\ n.http["login"] = b.http["login"]
        /\ n.http[k] = Sent("session", c)
        /\ \A r \in Refreshes \ {k} : n.http[r] = b.http[r]
    BY <1>5, SlotsDiffer DEF Rechecks, Rest, Still
  <2>2. b.refreshRequest = k
    BY <1>5 DEF TabInv
  <2>3. \A r \in Refreshes \ {k} : n.http[r].at = "idle"
    BY <2>1, <2>2 DEF TabInv
  <2>4. Sent("session", c).at = "sent" /\ Sent("session", c).cookie.session = c.session
    BY SentIs
  <2>5. ~ Stale(n)
    BY <2>1, <2>3, <2>4 DEF Stale
  <2> QED BY <1>0, <1>5, <2>1, <2>3, <2>4, <2>5 DEF RememberedTab
<1>6. CASE k \in Refreshes /\ Refreshed(n, b, k, how = "answered", c)
  <2>1. n.refreshRequest = None /\ n.http["login"] = b.http["login"]
    BY <1>6 DEF Refreshed
  <2>2. \A r \in Refreshes : n.http[r].at = "idle"
    BY <2>1, SlotsDiffer DEF TabInv
  <2>3. RememberedTab(n, active)
    BY <1>0, <2>1, <2>2 DEF RememberedTab, Stale
  <2>4. CASE how = "answered"
    <3>1. n.page = "home" \/ n.page = b.page
      BY <1>6, <2>4 DEF Refreshed
    <3> QED BY <2>3, <3>1
  <2>5. CASE how = "refused"
    <3>1. LoggedOut(n, b, c)
      BY <1>6, <2>5 DEF Refreshed
    <3>2. b.page = "home" => b.nav = "none"
      BY <1>0, <1>6, <2>5 DEF Stale
    <3> QED BY <2>3, <3>1, <3>2 DEF LoggedOut
  <2> QED BY <2>4, <2>5
<1> QED BY <1>1, <1>2, <1>3, <1>4, <1>5, <1>6, SlotsDiffer DEF Outcome

\* A tab's own answers to nobody: what is answered or refused, was.
LEMMA OutcomeAnswers ==
  ASSUME NEW b \in TabState, TabInv(b), NEW k \in Slots, NEW c \in Cookies,
         NEW how \in {"answered", "refused"}, b.http[k].at = how,
         NEW n \in TabState, Outcome(n, b, k, how, c)
  PROVE  \A l \in Slots : n.http[l].at \in {"answered", "refused"} => l # k /\ n.http[l] = b.http[l]
<1>0. /\ Idle.at \notin {"answered", "refused"} /\ Failed.at \notin {"answered", "refused"}
      /\ Sent("session", c).at = "sent" /\ Sent("refresh", c).at = "sent" /\ Sent("retry", c).at = "sent"
  BY IdleIs, FailedIs, SentIs
<1>1. CASE Enters(n, b, k)
  BY <1>0, <1>1 DEF Enters, Rest
<1>2. CASE Drops(n, b, k)
  BY <1>0, <1>2 DEF Drops, Rest
<1>3. CASE (k = "logout" /\ Leaves(n, b, k, Idle, c)) \/ (k \in Calls /\ Leaves(n, b, k, Failed, c))
  <2>1. n.http[k] \in {Idle, Failed} /\ \A l \in Slots \ {k, "guard"} : n.http[l] = b.http[l]
    BY <1>3 DEF Leaves, Rest
  <2>2. n.http["guard"] \in {b.http["guard"], Idle, Sent("session", c)} /\ k # "guard"
    BY <1>3, SlotsDiffer DEF Leaves, LoggedOut
  <2> QED BY <1>0, <2>1, <2>2
<1>4. CASE Awaits(n, b, k, c)
  <2>1. n.http[k].at = "waiting"
        /\ \A l \in Slots \ {k} : n.http[l] = b.http[l] \/ n.http[l] = Sent("refresh", c)
    <3>1. PICK r \in Refreshes :
            /\ \A l \in Refreshes \ {r} : n.http[l] = b.http[l]
            /\ n.http[r] = b.http[r] \/ n.http[r] = Sent("refresh", c)
      BY <1>4 DEF Awaits
    <3> QED BY <1>4, <3>1 DEF Awaits
  <2> QED BY <1>0, <2>1
<1>5. CASE k = "guard" /\ how = "answered" /\ Checked(n, b, how = "answered", c)
  <2>1. Rest(n, b, {"guard"}) /\ Enters(n, b, "guard")
    BY <1>5 DEF Checked
  <2> QED BY <1>0, <1>5, <2>1 DEF Enters, Rest
<1>6. CASE Rechecks(n, b, k, c)
  BY <1>0, <1>6 DEF Rechecks, Rest
<1>7. CASE k \in Refreshes /\ Refreshed(n, b, k, how = "answered", c)
  <2>1. \A l \in Slots \ {"guard", k} : n.http[l] \in {b.http[l], Idle, Failed, Sent("retry", c)}
    BY <1>7, SlotsDiffer DEF Refreshed
  <2>2. n.http["guard"] \in {b.http["guard"], Idle, Sent("session", c)}
    BY <1>7 DEF Refreshed, LoggedOut
  <2>3. k # "guard" /\ n.http[k] = Idle
    BY <1>7, SlotsDiffer DEF Refreshed
  <2> QED BY <1>0, <2>1, <2>2, <2>3
<1> QED BY <1>1, <1>2, <1>3, <1>4, <1>5, <1>6, <1>7, SlotsDiffer DEF Outcome

LEMMA OutcomeLoyalSlots ==
  ASSUME NEW b \in TabState, TabInv(b), NEW k \in Slots, NEW c \in Cookies, NEW j \in Cookies,
         NEW how \in {"answered", "refused"}, b.http[k].at = how, k \notin {"login", "logout"},
         NEW n \in TabState, TabInv(n), Outcome(n, b, k, how, c),
         NEW active, LoyalTab(b, j, active),
         c.session # NoToken => c.remember # NoToken,
         j.remember # NoToken => c.remember # NoToken,
         k \in Refreshes /\ how = "answered" /\ b.http[k].req = "refresh" => c.remember # NoToken
  PROVE  /\ \A l \in Slots :
              \/ n.http[l].cookie.session # NoToken /\ ~ Setter(n.http[l])
              \/ n.http[l].req = "session" /\ n.http[l].at = "answered"
              => c.remember # NoToken
         /\ n.http["login"].at # "idle" => n.http["login"].req = "remembered_login"
<1>1. \A l \in Slots :
        \/ b.http[l].cookie.session # NoToken /\ ~ Setter(b.http[l])
        \/ b.http[l].req = "session" /\ b.http[l].at = "answered"
        => c.remember # NoToken
  BY DEF LoyalTab
<1>2. Setter(b.http[k]) => c.remember # NoToken
  <2>1. SUFFICES ASSUME Setter(b.http[k]) PROVE k \in Refreshes /\ b.http[k].req = "refresh" /\ how = "answered"
    OBVIOUS
  <2>2. b.http[k].at = "answered" /\ b.http[k].req \in {"login", "remembered_login", "refresh"}
    BY <2>1 DEF Setter
  <2> QED BY <2>2, SlotOfRequest
<1>3. \A l \in Slots \ {k} : Setter(b.http[l]) <=> Setter(n.http[l])
  BY OutcomeSetters
<1>4. \A l \in Slots : n.http[l].at = "answered" => n.http[l] = b.http[l]
  BY OutcomeAnswers
<1>5. \A l \in Slots : n.http[l].cookie.session \in {b.http[l].cookie.session, NoToken, c.session}
  BY OutcomeCookies
<1>6. \A l \in Slots :
        \/ n.http[l].cookie.session # NoToken /\ ~ Setter(n.http[l])
        \/ n.http[l].req = "session" /\ n.http[l].at = "answered"
        => c.remember # NoToken
  BY <1>1, <1>2, <1>3, <1>4, <1>5
<1>7. n.http["login"] = b.http["login"]
  <2>1. CASE Drops(n, b, k) \/ Rechecks(n, b, k, c)
    BY <2>1, SlotsDiffer DEF Drops, Rechecks, Rest
  <2>2. CASE Leaves(n, b, k, Failed, c) \/ Awaits(n, b, k, c)
    BY <2>2, SlotsDiffer DEF Leaves, Awaits, Rest
  <2>3. CASE k = "guard" /\ Checked(n, b, how = "answered", c)
    BY <2>3, SlotsDiffer DEF Checked, Rest
  <2>4. CASE Refreshed(n, b, k, how = "answered", c)
    BY <2>4 DEF Refreshed
  <2> QED BY <2>1, <2>2, <2>3, <2>4, SlotsDiffer DEF Outcome
<1>8. n.http["login"].at # "idle" => n.http["login"].req = "remembered_login"
  BY <1>7 DEF LoyalTab
<1> QED BY <1>6, <1>8

LEMMA OutcomeLoyal ==
  ASSUME NEW b \in TabState, TabInv(b), NEW k \in Slots, NEW c \in Cookies, NEW j \in Cookies,
         NEW how \in {"answered", "refused"}, b.http[k].at = how, k \notin {"login", "logout"},
         NEW n \in TabState, TabInv(n), Outcome(n, b, k, how, c),
         NEW active, LoyalTab(b, j, active),
         c.session # NoToken => c.remember # NoToken,
         IF k \in Refreshes /\ how = "answered" /\ b.http[k].req = "refresh"
         THEN c.remember # NoToken /\ c.session \in active
         ELSE c = j
  PROVE  LoyalTab(n, c, active)
<1>0. /\ \A l \in Slots :
           \/ n.http[l].cookie.session # NoToken /\ ~ Setter(n.http[l])
           \/ n.http[l].req = "session" /\ n.http[l].at = "answered"
           => c.remember # NoToken
      /\ n.http["login"].at # "idle" => n.http["login"].req = "remembered_login"
  BY OutcomeLoyalSlots
<1> DEFINE Away(a) == /\ \A l \in Calls : a.http[l].at = "idle"
                      /\ a.refreshRequest # None => a.http["guard"].at = "waiting"
           CallsIn(a, cookies) == \A l \in Calls :
             /\ a.http[l].at # "failed"
             /\ a.http[l].req = "retry" => a.http[l].at # "refused"
             /\ a.http[l].req = "retry" /\ a.http[l].at = "sent" => a.http[l].cookie.session \in active
           In(a, cookies) ==
             /\ cookies.remember # NoToken
             /\ a.nav = "none" /\ a.authenticated = "yes" /\ ~ Stale(a)
             /\ CallsIn(a, cookies)
             /\ \A r \in Refreshes :
                  a.http[r].at # "idle" /\ a.http[r].req = "session" => cookies.session \in active
<1>1. b.page # "home" => Away(b)
  BY DEF LoyalTab
<1>2. b.page = "home" => In(b, j)
  BY DEF LoyalTab
<1> SUFFICES (n.page # "home" => Away(n)) /\ (n.page = "home" => In(n, c))
  BY <1>0 DEF LoyalTab
<1>3. CASE Drops(n, b, k) /\ k \in Calls
  <2>1. /\ Still(n, b) /\ n.http["guard"] = b.http["guard"] /\ n.refreshRequest = b.refreshRequest
        /\ \A r \in Refreshes : n.http[r] = b.http[r]
        /\ \A l \in Calls : n.http[l] = b.http[l] \/ n.http[l] = Idle
        /\ c = j
    BY <1>3, SlotsDiffer DEF Drops, Rest
  <2>2. b.page = "home"
    BY <1>1, <1>3
  <2>3. ~ Stale(n) /\ CallsIn(n, c)
    BY <1>2, <2>1, <2>2, IdleIs DEF Stale
  <2> HIDE DEF CallsIn
  <2> QED BY <1>2, <2>1, <2>2, <2>3 DEF Still
<1>4. CASE k \in Calls /\ how = "refused" /\ b.http[k].req = "retry"
  BY <1>1, <1>2, <1>4
<1>5. CASE k = "guard" /\ Awaits(n, b, k, c)
  <2>1. b.page # "home"
    <3>1. b.nav # "none"
      BY <1>5 DEF TabInv
    <3> QED BY <1>2, <3>1
  <2>2. n.page = b.page /\ \A l \in Calls : n.http[l] = b.http[l]
    BY <1>5, SlotsDiffer DEF Awaits, Still
  <2>3. n.http["guard"].at = "waiting"
    BY <1>5 DEF Awaits
  <2> QED BY <1>1, <2>1, <2>2, <2>3
<1>6. CASE k \in Calls /\ b.http[k].req = "call" /\ Awaits(n, b, k, c)
  <2>1. b.page = "home" /\ c = j
    BY <1>1, <1>6, SlotsDiffer
  <2>2. /\ n.page = b.page /\ n.nav = b.nav /\ n.authenticated = b.authenticated
        /\ \A r \in Refreshes : n.http[r] = b.http[r] \/ n.http[r] = Sent("refresh", c)
        /\ \A l \in Calls \ {k} : n.http[l] = b.http[l]
        /\ n.http[k].at = "waiting" /\ n.http[k].req = "call"
    BY <1>6, SlotsDiffer DEF Awaits, Still
  <2>3. Sent("refresh", c).at = "sent" /\ Sent("refresh", c).req = "refresh"
    BY SentIs
  <2>4. ~ Stale(n)
    BY <1>2, <2>1, <2>2, <2>3 DEF Stale
  <2>5. CallsIn(n, c)
    BY <1>2, <2>1, <2>2
  <2>6. \A r \in Refreshes : n.http[r].at # "idle" /\ n.http[r].req = "session" => c.session \in active
    BY <1>2, <2>1, <2>2, <2>3
  <2> HIDE DEF CallsIn
  <2> QED BY <1>2, <2>1, <2>2, <2>4, <2>5, <2>6
<1>7. CASE k = "guard" /\ how = "answered" /\ Checked(n, b, how = "answered", c)
  <2>1. Rest(n, b, {"guard"}) /\ Enters(n, b, "guard")
    BY <1>7 DEF Checked
  <2>2. b.page # "home"
    <3>1. b.nav # "none"
      BY <1>7 DEF TabInv
    <3> QED BY <1>2, <3>1
  <2>3. b.refreshRequest = None /\ \A l \in Calls : b.http[l].at = "idle"
    BY <1>1, <1>7, <2>2
  <2>4. /\ n.page = "home" /\ n.nav = "none" /\ n.authenticated = "yes"
        /\ \A l \in Calls : n.http[l].at = "idle"
        /\ n.refreshRequest = None
    BY <2>1, <2>3, SlotsDiffer DEF Enters, Rest
  <2>5. \A r \in Refreshes : n.http[r].at = "idle"
    BY <2>4, SlotsDiffer DEF TabInv
  <2>6. c.remember # NoToken
    <3>1. b.http["guard"].req = "session" /\ b.http["guard"].at = "answered"
      BY <1>7 DEF TabInv
    <3>2. c = j
      BY <1>7, SlotsDiffer
    <3> QED BY <3>1, <3>2, SlotsDiffer DEF LoyalTab
  <2> QED BY <2>4, <2>5, <2>6 DEF Stale
<1>8. CASE k \in Refreshes /\ how = "answered" /\ b.http[k].req = "refresh" /\ Rechecks(n, b, k, c)
  <2>1. /\ Still(n, b) /\ n.refreshRequest = b.refreshRequest /\ n.http["guard"] = b.http["guard"]
        /\ \A l \in Calls : n.http[l] = b.http[l]
        /\ n.http[k] = Sent("session", c)
        /\ \A r \in Refreshes \ {k} : n.http[r] = b.http[r]
        /\ c.remember # NoToken /\ c.session \in active
    BY <1>8, SlotsDiffer DEF Rechecks, Rest
  <2>2. Sent("session", c).at = "sent"
    BY SentIs
  <2>3. b.page = "home" => ~ Stale(n) /\ CallsIn(n, c)
    BY <1>2, <2>1, <2>2 DEF Stale
  <2> HIDE DEF CallsIn
  <2> QED BY <1>1, <1>2, <2>1, <2>3 DEF Still
<1>9. CASE k \in Refreshes /\ how = "refused" /\ Refreshed(n, b, k, how = "answered", c)
  <2>1. b.page # "home"
    BY <1>2, <1>9 DEF Stale
  <2>2. n.page # "home"
    <3>1. LoggedOut(n, b, c)
      BY <1>9 DEF Refreshed
    <3> QED BY <2>1, <3>1, LoggedOutKeeps
  <2>3. n.refreshRequest = None /\ Waiting(b, k) = {}
    BY <1>1, <1>9, <2>1 DEF Refreshed, Waiting
  <2>4. \A l \in Calls : n.http[l] = b.http[l]
    BY <1>9, <2>3 DEF Refreshed
  <2> QED BY <1>1, <2>1, <2>2, <2>3, <2>4
<1>10. CASE /\ k \in Refreshes /\ how = "answered" /\ b.http[k].req = "session"
            /\ Refreshed(n, b, k, how = "answered", c)
  <2>1. /\ n.refreshRequest = None /\ n.authenticated = "yes" /\ c = j
        /\ \A l \in Calls \ Waiting(b, k) : n.http[l] = b.http[l]
        /\ \A l \in Waiting(b, k) : n.http[l] = Sent("retry", c)
        /\ GuardWaits(b, k) => n.page = "home" /\ n.nav = "none" /\ n.http["guard"] = Idle
        /\ ~ GuardWaits(b, k) => n.page = b.page /\ n.nav = b.nav /\ n.http["guard"] = b.http["guard"]
    BY <1>10 DEF Refreshed
  <2>2. \A r \in Refreshes : n.http[r].at = "idle"
    BY <2>1, SlotsDiffer DEF TabInv
  <2>3. c.remember # NoToken
    BY <1>10, <2>1 DEF LoyalTab
  <2>4. CASE b.page = "home"
    <3>1. ~ GuardWaits(b, k)
      BY <1>2, <2>4 DEF GuardWaits, TabInv
    <3>2. j.session \in active
      BY <1>2, <1>10, <2>4
    <3>3. /\ Sent("retry", c).at = "sent" /\ Sent("retry", c).req = "retry"
          /\ Sent("retry", c).cookie.session = c.session
      BY SentIs
    <3>4. CallsIn(n, c)
      BY <1>2, <2>1, <2>4, <3>2, <3>3
    <3> HIDE DEF CallsIn
    <3> QED BY <1>2, <2>1, <2>2, <2>3, <2>4, <3>1, <3>4 DEF Stale
  <2>5. CASE b.page # "home"
    <3>1. Waiting(b, k) = {} /\ \A l \in Calls : b.http[l].at = "idle"
      BY <1>1, <2>5 DEF Waiting
    <3>2. \A l \in Calls : n.http[l].at = "idle"
      BY <2>1, <3>1
    <3>3. CASE GuardWaits(b, k)
      BY <2>1, <2>2, <2>3, <3>2, <3>3 DEF Stale
    <3>4. CASE ~ GuardWaits(b, k)
      BY <2>1, <2>5, <3>2, <3>4
    <3> QED BY <3>3, <3>4
  <2> QED BY <2>4, <2>5
<1>11. k \in Refreshes => b.http[k].req \in {"refresh", "session"}
  BY DEF TabInv
<1>12. \/ Drops(n, b, k) /\ k \in Calls
       \/ k \in Calls /\ how = "refused" /\ b.http[k].req = "retry"
       \/ k = "guard" /\ Awaits(n, b, k, c)
       \/ k \in Calls /\ b.http[k].req = "call" /\ Awaits(n, b, k, c)
       \/ k = "guard" /\ how = "answered" /\ Checked(n, b, how = "answered", c)
       \/ k \in Refreshes /\ how = "answered" /\ b.http[k].req = "refresh" /\ Rechecks(n, b, k, c)
       \/ k \in Refreshes /\ how = "refused" /\ Refreshed(n, b, k, how = "answered", c)
       \/ /\ k \in Refreshes /\ how = "answered" /\ b.http[k].req = "session"
          /\ Refreshed(n, b, k, how = "answered", c)
  BY <1>11, SlotsDiffer DEF Outcome
<1> HIDE DEF Away, In, CallsIn
<1> QED BY <1>3, <1>4, <1>5, <1>6, <1>7, <1>8, <1>9, <1>10, <1>12

--------------------------------------------------------------------------------
(* Steps of one tab: what must be shown of it alone *)

LEMMA SettersKept ==
  ASSUME TabsOK, SetterInv, NEW t \in Tabs, OnlyTab(t), UNCHANGED Server,
         tab'[t].http["logout"].at = "idle",
         \A k \in Slots : Setter(tab'[t].http[k]) => tab'[t].http[k] = tab[t].http[k],
         (\A u \in Tabs, k \in Slots : ~ Setter(tab'[u].http[k])) => jar'.remember \in Live \cup {NoToken}
  PROVE  SetterInv'
<1>1. Live' = Live /\ sessions' = sessions
  BY DEF Server, Live
<1>2. \A u \in Tabs, k \in Slots : Setter(tab'[u].http[k]) => tab'[u].http[k] = tab[u].http[k]
  BY DEF OnlyTab
<1>3. \A u \in Tabs : tab'[u].http["logout"].at = "idle"
  BY DEF OnlyTab, SetterInv
<1>4. \A u \in Tabs, k \in Slots : Setter(tab'[u].http[k]) =>
        /\ tab'[u].http[k].cookie.remember \in Live' \cup {NoToken}
        /\ tab'[u].http[k].req # "login" => tab'[u].http[k].cookie.remember # NoToken
        /\ tab'[u].http[k].cookie.session \in sessions'
  BY <1>1, <1>2 DEF SetterInv
<1>5. \A u, v \in Tabs, k, l \in Slots :
        Setter(tab'[u].http[k]) /\ Setter(tab'[v].http[l]) => u = v /\ k = l
  BY <1>2 DEF SetterInv
<1> QED BY <1>1, <1>3, <1>4, <1>5 DEF SetterInv

LEMMA SettersUntouched ==
  ASSUME TabsOK, SetterInv, NEW t \in Tabs, OnlyTab(t), UNCHANGED Server, jar' = jar,
         tab'[t].http["logout"].at = "idle",
         \A k \in Slots : Setter(tab'[t].http[k]) => tab'[t].http[k] = tab[t].http[k],
         \A k \in Slots : Setter(tab[t].http[k]) => Setter(tab'[t].http[k])
  PROVE  SetterInv'
<1>1. ASSUME \A u \in Tabs, k \in Slots : ~ Setter(tab'[u].http[k])
      PROVE  jar'.remember \in Live \cup {NoToken}
  <2>1. \A u \in Tabs, k \in Slots : ~ Setter(tab[u].http[k])
    BY <1>1 DEF OnlyTab
  <2> QED BY <2>1 DEF SetterInv
<1> QED BY <1>1, SettersKept

LEMMA ForgottenKept ==
  ASSUME ForgottenInv, NEW t \in Tabs, OnlyTab(t), jar' = jar,
         jar.remember = NoToken => ForgottenTab(tab'[t]),
         tab'[t].http["login"].at = "answered" => tab[t].http["login"].at = "answered",
         jar.remember = NoToken /\ AsideTab(tab[t]) /\ (\E u \in Tabs : tab[u].http["login"].at = "answered")
           => AsideTab(tab'[t])
  PROVE  ForgottenInv'
<1> SUFFICES ASSUME jar.remember = NoToken
             PROVE  /\ \A u \in Tabs : ForgottenTab(tab'[u])
                    /\ (\E u \in Tabs : tab'[u].http["login"].at = "answered") =>
                         \A u \in Tabs : AsideTab(tab'[u])
  BY DEF ForgottenInv, ForgottenTab, AsideTab, Stale
<1>1. \A u \in Tabs : ForgottenTab(tab'[u])
  BY DEF ForgottenInv, OnlyTab
<1>2. ASSUME NEW u \in Tabs, tab'[u].http["login"].at = "answered"
      PROVE  \A v \in Tabs : AsideTab(tab'[v])
  <2>1. tab[u].http["login"].at = "answered"
    BY <1>2 DEF OnlyTab
  <2>2. \A v \in Tabs : AsideTab(tab[v])
    BY <2>1 DEF ForgottenInv
  <2> QED BY <2>1, <2>2 DEF OnlyTab
<1> QED BY <1>1, <1>2

LEMMA RememberedTabGrows ==
  ASSUME NEW b, NEW active, NEW more, active \subseteq more, RememberedTab(b, active)
  PROVE  RememberedTab(b, more)
  BY DEF RememberedTab

LEMMA RememberedKept ==
  ASSUME RememberedInv, NEW t \in Tabs, OnlyTab(t), sessions \subseteq sessions',
         jar'.remember # NoToken => jar.remember # NoToken,
         jar.remember # NoToken => RememberedTab(tab'[t], sessions'),
         jar.remember # NoToken /\ tab[t].page = "home" => tab'[t].page = "home"
  PROVE  RememberedInv'
<1> SUFFICES ASSUME jar.remember # NoToken
             PROVE  /\ \E u \in Tabs : tab'[u].page = "home"
                    /\ \A u \in Tabs : RememberedTab(tab'[u], sessions')
  BY DEF RememberedInv, RememberedTab, Stale
<1>1. PICK u \in Tabs : tab[u].page = "home"
  BY DEF RememberedInv
<1>2. tab'[u].page = "home"
  BY <1>1 DEF OnlyTab
<1>3. \A v \in Tabs : RememberedTab(tab'[v], sessions')
  BY RememberedTabGrows DEF OnlyTab, RememberedInv
<1> QED BY <1>2, <1>3

LEMMA LoyalTabGrows ==
  ASSUME NEW b, NEW j, NEW c, NEW active, NEW more, active \subseteq more,
         j.remember # NoToken => c.remember # NoToken,
         j.session \in active => c.session \in more,
         LoyalTab(b, j, active)
  PROVE  LoyalTab(b, c, more)
  BY DEF LoyalTab

LEMMA LoyalKept ==
  ASSUME LoyalInv, NEW t \in Tabs, OnlyTab(t), sessions \subseteq sessions',
         jar'.session # NoToken <=> jar'.remember # NoToken,
         jar.remember # NoToken => jar'.remember # NoToken,
         jar.session \in sessions => jar'.session \in sessions',
         LoyalTab(tab'[t], jar', sessions')
  PROVE  LoyalInv'
<1>1. \A u \in Tabs : LoyalTab(tab'[u], jar', sessions')
  BY LoyalTabGrows DEF OnlyTab, LoyalInv
<1> QED BY <1>1 DEF LoyalInv, LoyalTab, Stale, Setter

--------------------------------------------------------------------------------
(* Each step keeps the promises *)

LEMMA OpenKeeps ==
  ASSUME TabsOK, Promises, NEW t \in Tabs, NEW target \in {"landing", "home"}, Open(t, target)
  PROVE  Promises'
<1> PICK b \in TabState : b = tab[t]
  BY DEF TabsOK, TypeOK
<1>0. /\ OnlyTab(t) /\ b.page = "none" /\ b.refreshRequest = None
      /\ TabInv(b) /\ b.http["guard"].at = "idle"
      /\ UNCHANGED Server /\ jar' = jar /\ excused' = excused /\ jar \in Cookies
  <2>1. OnlyTab(t) /\ b.page = "none" /\ b.refreshRequest = None
    BY OpenTab
  <2>2. /\ TabInv(b) /\ b.nav = "none"
        /\ UNCHANGED Server /\ jar' = jar /\ excused' = excused /\ jar \in Cookies
    BY DEF Open, TabsOK, TypeOK
  <2>3. b.http["guard"].at = "idle"
    BY <2>2 DEF TabInv
  <2> QED BY <2>1, <2>2, <2>3
<1> PICK n \in TabState : n = tab'[t]
  BY <1>0 DEF OnlyTab
<1>1. /\ n.page = "none" /\ n.refreshRequest = None
      /\ n.http["guard"] = Sent("session", jar)
      /\ \A l \in Slots \ {"guard"} : n.http[l] = b.http[l]
  BY OpenTab DEF Rest
<1>2. /\ Sent("session", jar).at = "sent" /\ Sent("session", jar).req = "session"
      /\ Sent("session", jar).cookie.session = jar.session
      /\ Sent("session", jar).cookie.remember = NoToken
  BY <1>0, SentIs
<1>3. SetterInv'
  <2>1. ~ Setter(n.http["guard"]) /\ ~ Setter(b.http["guard"])
    BY <1>0, <1>1, <1>2 DEF Setter
  <2>2. n.http["logout"].at = "idle"
    BY <1>1, SlotsDiffer DEF Promises, SetterInv
  <2> QED BY <1>0, <1>1, <2>1, <2>2, SettersUntouched DEF Promises
<1>4. ForgottenInv'
  <2>1. jar.remember = NoToken => ForgottenTab(b)
    BY DEF Promises, ForgottenInv
  <2>2. jar.remember = NoToken => ForgottenTab(n)
    BY <1>1, <1>2, <2>1, SlotsDiffer DEF ForgottenTab
  <2>3. AsideTab(n) /\ n.http["login"] = b.http["login"]
    BY <1>1, SlotsDiffer DEF AsideTab
  <2> QED BY <1>0, <2>2, <2>3, ForgottenKept DEF Promises
<1>5. RememberedInv'
  <2>1. jar.remember # NoToken => RememberedTab(b, sessions)
    BY DEF Promises, RememberedInv
  <2>2. jar.remember # NoToken => RememberedTab(n, sessions)
    BY <1>1, <2>1, SlotsDiffer DEF RememberedTab
  <2>3. sessions' = sessions
    BY <1>0 DEF Server
  <2> QED BY <1>0, <2>2, <2>3, RememberedKept DEF Promises
<1>6. ASSUME excused' = {} PROVE LoyalInv'
  <2>1. LoyalInv
    BY <1>0, <1>6 DEF Promises
  <2>2. LoyalTab(b, jar, sessions) /\ (jar.session # NoToken <=> jar.remember # NoToken)
    BY <2>1 DEF LoyalInv
  <2>3. LoyalTab(n, jar, sessions)
    <3>1. \A l \in Slots :
            \/ n.http[l].cookie.session # NoToken /\ ~ Setter(n.http[l])
            \/ n.http[l].req = "session" /\ n.http[l].at = "answered"
            => jar.remember # NoToken
      BY <1>1, <1>2, <2>2 DEF LoyalTab
    <3>2. /\ n.http["login"] = b.http["login"]
          /\ \A l \in Calls : n.http[l] = b.http[l]
      BY <1>1, SlotsDiffer
    <3> QED BY <1>0, <1>1, <2>2, <3>1, <3>2 DEF LoyalTab
  <2>4. sessions' = sessions
    BY <1>0 DEF Server
  <2> QED BY <1>0, <2>1, <2>2, <2>3, <2>4, LoyalKept
<1> QED BY <1>3, <1>4, <1>5, <1>6 DEF Promises

LEMMA LoginKeeps ==
  ASSUME TabsOK, Promises, NEW t \in Tabs, NEW req \in {"login", "remembered_login"}, Login(t, req)
  PROVE  Promises'
<1> PICK b \in TabState : b = tab[t]
  BY DEF TabsOK, TypeOK
<1>0. /\ OnlyTab(t) /\ b.page = "landing" /\ b.http["login"].at = "idle"
      /\ UNCHANGED Server /\ jar' = jar /\ jar \in Cookies
      /\ excused \subseteq excused'
      /\ req = "login" => excused' # {}
  BY LoginTab DEF Login, TabsOK, TypeOK, Excuse
<1> PICK n \in TabState : n = tab'[t]
  BY <1>0 DEF OnlyTab
<1>1. /\ n.page = "landing" /\ n.nav = b.nav /\ n.refreshRequest = b.refreshRequest
      /\ n.http["login"] = Sent(req, jar)
      /\ \A l \in Slots \ {"login"} : n.http[l] = b.http[l]
  BY <1>0, LoginTab DEF Rest, Still
<1>2. Sent(req, jar).at = "sent" /\ Sent(req, jar).req = req /\ Sent(req, jar).cookie = jar
  BY <1>0, SentIs DEF Requests
<1>3. SetterInv'
  <2>1. ~ Setter(n.http["login"]) /\ ~ Setter(b.http["login"])
    BY <1>0, <1>1, <1>2 DEF Setter
  <2>2. n.http["logout"].at = "idle"
    BY <1>1, SlotsDiffer DEF Promises, SetterInv
  <2> QED BY <1>0, <1>1, <2>1, <2>2, SettersUntouched DEF Promises
<1>4. ForgottenInv'
  <2>1. jar.remember = NoToken => ForgottenTab(b)
    BY DEF Promises, ForgottenInv
  <2>2. jar.remember = NoToken => ForgottenTab(n)
    BY <1>1, <1>2, <2>1, SlotsDiffer DEF ForgottenTab
  <2>3. AsideTab(n) /\ n.http["login"].at # "answered"
    BY <1>1, <1>2 DEF AsideTab
  <2> QED BY <1>0, <2>2, <2>3, ForgottenKept DEF Promises
<1>5. RememberedInv'
  <2>1. RememberedTab(n, sessions)
    BY <1>1, <1>2 DEF RememberedTab
  <2>2. sessions' = sessions
    BY <1>0 DEF Server
  <2> QED BY <1>0, <2>1, <2>2, RememberedKept DEF Promises
<1>6. ASSUME excused' = {} PROVE LoyalInv'
  <2>1. LoyalInv /\ req = "remembered_login"
    BY <1>0, <1>6 DEF Promises
  <2>2. LoyalTab(b, jar, sessions) /\ (jar.session # NoToken <=> jar.remember # NoToken)
    BY <2>1 DEF LoyalInv
  <2>3. LoyalTab(n, jar, sessions)
    BY <1>0, <1>1, <1>2, <2>1, <2>2, SlotsDiffer DEF LoyalTab, Setter
  <2>4. sessions' = sessions
    BY <1>0 DEF Server
  <2> QED BY <1>0, <2>1, <2>2, <2>3, <2>4, LoyalKept
<1> QED BY <1>3, <1>4, <1>5, <1>6 DEF Promises

LEMMA CallKeeps ==
  ASSUME TabsOK, Promises, NEW t \in Tabs, NEW k \in Calls, Call(t, k)
  PROVE  Promises'
<1> PICK b \in TabState : b = tab[t]
  BY DEF TabsOK, TypeOK
<1>0. /\ OnlyTab(t) /\ b.page = "home" /\ b.http[k].at = "idle"
      /\ UNCHANGED Server /\ jar' = jar /\ jar \in Cookies /\ excused' = excused
  BY CallTab DEF Call, TabsOK, TypeOK
<1> PICK n \in TabState : n = tab'[t]
  BY <1>0 DEF OnlyTab
<1>1. /\ n.page = "home" /\ n.nav = b.nav /\ n.refreshRequest = b.refreshRequest
      /\ n.authenticated = b.authenticated
      /\ n.http[k] = Sent("call", jar)
      /\ \A l \in Slots \ {k} : n.http[l] = b.http[l]
  BY <1>0, CallTab DEF Rest, Still
<1>2. /\ Sent("call", jar).at = "sent" /\ Sent("call", jar).req = "call"
      /\ Sent("call", jar).cookie.session = jar.session
      /\ Sent("call", jar).cookie.remember = NoToken
  BY <1>0, SentIs
<1>3. /\ n.http["login"] = b.http["login"] /\ n.http["logout"] = b.http["logout"]
      /\ \A r \in Refreshes : n.http[r] = b.http[r]
      /\ Stale(n) <=> Stale(b)
  BY <1>1, SlotsDiffer DEF Stale
<1>4. SetterInv'
  <2>1. ~ Setter(n.http[k]) /\ ~ Setter(b.http[k])
    BY <1>0, <1>1, <1>2 DEF Setter
  <2>2. n.http["logout"].at = "idle"
    BY <1>3 DEF Promises, SetterInv
  <2> QED BY <1>0, <1>1, <2>1, <2>2, SettersUntouched DEF Promises
<1>5. ForgottenInv'
  <2>1. jar.remember = NoToken => ForgottenTab(b)
    BY DEF Promises, ForgottenInv
  <2>2. jar.remember = NoToken => ForgottenTab(n)
    BY <1>1, <1>2, <1>3, <2>1, SlotsDiffer DEF ForgottenTab
  <2>3. AsideTab(b) => AsideTab(n)
    BY <1>0, <1>1, <1>3 DEF AsideTab
  <2> QED BY <1>0, <1>3, <2>2, <2>3, ForgottenKept DEF Promises
<1>6. RememberedInv'
  <2>1. jar.remember # NoToken => RememberedTab(b, sessions)
    BY DEF Promises, RememberedInv
  <2>2. jar.remember # NoToken => RememberedTab(n, sessions)
    <3>1. \A l \in Calls : n.http[l].req # "retry" \/ n.http[l] = b.http[l]
      BY <1>1, <1>2, SlotsDiffer
    <3> QED BY <1>0, <1>1, <1>3, <2>1, <3>1 DEF RememberedTab
  <2>3. sessions' = sessions
    BY <1>0 DEF Server
  <2> QED BY <1>0, <1>1, <2>2, <2>3, RememberedKept DEF Promises
<1>7. ASSUME excused' = {} PROVE LoyalInv'
  <2>1. LoyalInv
    BY <1>0, <1>7 DEF Promises
  <2>2. LoyalTab(b, jar, sessions) /\ (jar.session # NoToken <=> jar.remember # NoToken)
    BY <2>1 DEF LoyalInv
  <2>3. LoyalTab(n, jar, sessions)
    BY <1>0, <1>1, <1>2, <1>3, <2>2, SlotsDiffer DEF LoyalTab, Setter
  <2>4. sessions' = sessions
    BY <1>0 DEF Server
  <2> QED BY <1>0, <2>1, <2>2, <2>3, <2>4, LoyalKept
<1> QED BY <1>4, <1>5, <1>6, <1>7 DEF Promises

LEMMA ServeProtectedKeeps ==
  ASSUME TabsOK, Promises, NEW t \in Tabs, NEW k \in Slots, ServeProtected(t, k)
  PROVE  Promises'
<1> PICK b \in TabState : b = tab[t]
  BY DEF TabsOK, TypeOK
<1> DEFINE valid == b.http[k].cookie.session \in sessions
<1>0. /\ OnlyTab(t) /\ TabInv(b)
      /\ b.http[k].at = "sent" /\ b.http[k].req \in {"session", "call", "retry"}
      /\ k \notin {"login", "logout"}
      /\ UNCHANGED Server /\ jar' = jar /\ excused' = excused
  BY ServeProtectedTab DEF TabsOK
<1> PICK n \in TabState : n = tab'[t]
  BY <1>0 DEF OnlyTab
<1>1. Served(n, b, k, IF valid THEN "answered" ELSE "refused", NoCookies)
  BY ServeProtectedTab
<1>2. /\ n.page = b.page /\ n.nav = b.nav /\ n.authenticated = b.authenticated
      /\ n.refreshRequest = b.refreshRequest
      /\ n.http[k].at = (IF valid THEN "answered" ELSE "refused")
      /\ n.http[k].req = b.http[k].req
      /\ n.http[k].cookie.session = NoToken /\ n.http[k].cookie.remember = NoToken
      /\ \A l \in Slots \ {k} : n.http[l] = b.http[l]
  BY <1>1 DEF Served, Rest, Still, NoCookies
<1>3. n.http["login"] = b.http["login"] /\ n.http["logout"] = b.http["logout"]
  BY <1>0, <1>2, SlotsDiffer
<1>4. ~ Setter(n.http[k]) /\ ~ Setter(b.http[k])
  BY <1>0, <1>2 DEF Setter
<1>5. sessions' = sessions
  BY <1>0 DEF Server
<1>6. SetterInv'
  <2>1. n.http["logout"].at = "idle"
    BY <1>3 DEF Promises, SetterInv
  <2> QED BY <1>0, <1>2, <1>4, <2>1, SettersUntouched DEF Promises
<1>7. ForgottenInv'
  <2>1. jar.remember = NoToken => ForgottenTab(b)
    BY DEF Promises, ForgottenInv
  <2>2. jar.remember = NoToken => k \notin Refreshes
    BY <1>0, <2>1 DEF ForgottenTab
  <2>3. jar.remember = NoToken => ForgottenTab(n)
    BY <1>2, <1>3, <2>1, <2>2, SlotsDiffer DEF ForgottenTab
  <2>4. jar.remember = NoToken => (Stale(n) => Stale(b))
    BY <1>2, <2>2, SlotsDiffer DEF Stale
  <2>5. jar.remember = NoToken => (AsideTab(b) => AsideTab(n))
    BY <1>2, <2>4 DEF AsideTab
  <2> QED BY <1>0, <1>3, <2>3, <2>5, ForgottenKept DEF Promises
<1>8. ASSUME jar.remember # NoToken
      PROVE  RememberedTab(n, sessions) /\ (b.page = "home" => (Stale(n) <=> Stale(b)))
  <2>1. RememberedTab(b, sessions)
    BY <1>8 DEF Promises, RememberedInv
  <2>2. k \in Refreshes /\ b.page = "home" => n.http[k].at = "answered"
    <3>1. SUFFICES ASSUME k \in Refreshes, b.page = "home" PROVE valid
      BY <1>2
    <3>2. b.http[k].req = "session"
      BY <1>0, <3>1 DEF TabInv
    <3> QED BY <1>0, <2>1, <3>1, <3>2 DEF RememberedTab
  <2>3. b.page = "home" => (Stale(n) <=> Stale(b))
    <3>1. b.http[k].at # "refused"
      BY <1>0
    <3>2. \A r \in Refreshes : r \in Slots
      BY SlotsDiffer
    <3>3. b.page = "home" => \A r \in Refreshes : n.http[r].at = "refused" <=> b.http[r].at = "refused"
      BY <1>2, <2>2, <3>1, <3>2
    <3> QED BY <3>3 DEF Stale
  <2>4. \A l \in Calls : n.http[l].req = b.http[l].req
    BY <1>2, SlotsDiffer
  <2>5. b.page = "home" => \A r \in Refreshes : n.http[r].at # "idle" /\ n.http[r].req = "session" =>
            /\ n.http[r].at # "refused"
            /\ n.http[r].at = "sent" => n.http[r].cookie.session \in sessions
    <3>1. \A r \in Refreshes \ {k} : n.http[r] = b.http[r]
      BY <1>2, SlotsDiffer
    <3> QED BY <2>1, <2>2, <3>1 DEF RememberedTab
  <2>6. RememberedTab(n, sessions)
    BY <1>2, <1>3, <2>1, <2>3, <2>4, <2>5 DEF RememberedTab
  <2> QED BY <2>3, <2>6
<1>9. RememberedInv'
  BY <1>0, <1>2, <1>5, <1>8, RememberedKept DEF Promises
<1>10. ASSUME excused' = {} PROVE LoyalInv'
  <2>1. LoyalInv
    BY <1>0, <1>10 DEF Promises
  <2>2. LoyalTab(b, jar, sessions) /\ (jar.session # NoToken <=> jar.remember # NoToken)
    BY <2>1 DEF LoyalInv
  <2>3. valid => jar.remember # NoToken
    <3>1. NoToken \notin sessions
      BY DEF TabsOK, TypeOK
    <3> QED BY <1>4, <2>2, <3>1 DEF LoyalTab
  <2>4. \A l \in Slots :
          \/ n.http[l].cookie.session # NoToken /\ ~ Setter(n.http[l])
          \/ n.http[l].req = "session" /\ n.http[l].at = "answered"
          => jar.remember # NoToken
    BY <1>2, <2>2, <2>3 DEF LoyalTab
  <2>5. n.page # "home" =>
          /\ \A l \in Calls : n.http[l].at = "idle"
          /\ n.refreshRequest # None => n.http["guard"].at = "waiting"
    <3>1. n.page # "home" => k \notin Calls
      BY <1>0, <1>2, <2>2 DEF LoyalTab
    <3>2. n.page # "home" => \A l \in Calls : n.http[l] = b.http[l]
      BY <1>2, <3>1, SlotsDiffer
    <3>3. n.page # "home" /\ n.refreshRequest # None => n.http["guard"] = b.http["guard"]
      BY <1>0, <1>2, <2>2, SlotsDiffer DEF LoyalTab
    <3> QED BY <1>2, <2>2, <3>2, <3>3 DEF LoyalTab
  <2>6. ASSUME n.page = "home"
        PROVE  /\ jar.remember # NoToken
               /\ n.nav = "none" /\ n.authenticated = "yes" /\ ~ Stale(n)
               /\ \A l \in Calls :
                    /\ n.http[l].at # "failed"
                    /\ n.http[l].req = "retry" => n.http[l].at # "refused"
                    /\ n.http[l].req = "retry" /\ n.http[l].at = "sent" => n.http[l].cookie.session \in sessions
               /\ \A r \in Refreshes :
                    n.http[r].at # "idle" /\ n.http[r].req = "session" => jar.session \in sessions
    <3>1. /\ jar.remember # NoToken
          /\ b.nav = "none" /\ b.authenticated = "yes" /\ ~ Stale(b)
          /\ \A l \in Calls :
               /\ b.http[l].at # "failed"
               /\ b.http[l].req = "retry" => b.http[l].at # "refused"
               /\ b.http[l].req = "retry" /\ b.http[l].at = "sent" => b.http[l].cookie.session \in sessions
          /\ \A r \in Refreshes :
               b.http[r].at # "idle" /\ b.http[r].req = "session" => jar.session \in sessions
      BY <1>2, <2>2, <2>6 DEF LoyalTab
    <3>2. ~ Stale(n)
      BY <1>2, <1>8, <2>6, <3>1
    <3>3. k \in Calls /\ b.http[k].req = "retry" => n.http[k].at = "answered"
      BY <1>0, <1>2, <3>1
    <3>4. \A l \in Calls :
            /\ n.http[l].at # "failed"
            /\ n.http[l].req = "retry" => n.http[l].at # "refused"
            /\ n.http[l].req = "retry" /\ n.http[l].at = "sent" => n.http[l].cookie.session \in sessions
      <4>1. \A l \in Calls \ {k} : n.http[l] = b.http[l]
        BY <1>2, SlotsDiffer
      <4> QED BY <1>2, <3>1, <3>3, <4>1
    <3>5. \A r \in Refreshes :
            n.http[r].at # "idle" /\ n.http[r].req = "session" => jar.session \in sessions
      <4>1. \A r \in Refreshes \ {k} : n.http[r] = b.http[r]
        BY <1>2, SlotsDiffer
      <4> QED BY <1>0, <1>2, <3>1, <4>1
    <3> QED BY <1>2, <3>1, <3>2, <3>4, <3>5
  <2>7. n.http["login"].at # "idle" => n.http["login"].req = "remembered_login"
    BY <1>3, <2>2 DEF LoyalTab
  <2>8. LoyalTab(n, jar, sessions)
    BY <2>4, <2>5, <2>6, <2>7 DEF LoyalTab
  <2> QED BY <1>0, <1>5, <2>1, <2>2, <2>8, LoyalKept
<1> QED BY <1>6, <1>7, <1>9, <1>10 DEF Promises

LEMMA FindRememberedKeeps ==
  ASSUME TabsOK, Promises, NEW t \in Tabs, NEW k \in Slots, FindRemembered(t, k)
  PROVE  Promises'
<1> PICK b \in TabState : b = tab[t]
  BY DEF TabsOK, TypeOK
<1>0. /\ OnlyTab(t) /\ TabInv(b)
      /\ b.http[k].at = "sent" /\ k \in {"login", "logout"} /\ Row(b.http[k].cookie.remember) # {}
      /\ UNCHANGED Server /\ jar' = jar /\ excused' = excused
  BY FindRememberedTab DEF TabsOK
<1>1. k = "login"
  BY <1>0 DEF Promises, SetterInv
<1> PICK n \in TabState : n = tab'[t]
  BY <1>0 DEF OnlyTab
<1>2. Served(n, b, "login", "found", b.http["login"].cookie)
  BY <1>1, FindRememberedTab
<1>3. /\ n.page = b.page /\ n.nav = b.nav /\ n.authenticated = b.authenticated
      /\ n.refreshRequest = b.refreshRequest
      /\ n.http["login"].at = "found" /\ n.http["login"].req = b.http["login"].req
      /\ n.http["login"].cookie = b.http["login"].cookie
      /\ \A l \in Slots \ {"login"} : n.http[l] = b.http[l]
  BY <1>2 DEF Served, Rest, Still
<1>4. ~ Setter(n.http["login"]) /\ ~ Setter(b.http["login"])
  BY <1>0, <1>1, <1>3 DEF Setter
<1>5. sessions' = sessions
  BY <1>0 DEF Server
<1>6. /\ n.http["logout"] = b.http["logout"] /\ n.http["guard"] = b.http["guard"]
      /\ \A l \in Calls : n.http[l] = b.http[l]
      /\ \A r \in Refreshes : n.http[r] = b.http[r]
      /\ Stale(n) <=> Stale(b)
  BY <1>3, SlotsDiffer DEF Stale
<1>7. SetterInv'
  <2>1. n.http["logout"].at = "idle"
    BY <1>6 DEF Promises, SetterInv
  <2> QED BY <1>0, <1>3, <1>4, <2>1, SettersUntouched DEF Promises
<1>8. jar.remember # NoToken
  <2>1. b.http["login"].cookie.remember # NoToken
    <3>1. PICK m \in remembers : m.token = b.http["login"].cookie.remember
      BY <1>0, <1>1 DEF Row
    <3> QED BY <3>1 DEF TabsOK, TypeOK
  <2>2. ~ ForgottenTab(b)
    BY <1>0, <1>1, <2>1, SlotsDiffer DEF ForgottenTab
  <2> QED BY <2>2 DEF Promises, ForgottenInv
<1>9. ForgottenInv'
  BY <1>0, <1>3, <1>8, ForgottenKept DEF Promises
<1>10. RememberedInv'
  <2>1. RememberedTab(b, sessions)
    BY <1>8 DEF Promises, RememberedInv
  <2>2. RememberedTab(n, sessions)
    BY <1>3, <1>6, <2>1 DEF RememberedTab
  <2> QED BY <1>0, <1>3, <1>5, <2>2, RememberedKept DEF Promises
<1>11. ASSUME excused' = {} PROVE LoyalInv'
  <2>1. LoyalInv
    BY <1>0, <1>11 DEF Promises
  <2>2. LoyalTab(b, jar, sessions) /\ (jar.session # NoToken <=> jar.remember # NoToken)
    BY <2>1 DEF LoyalInv
  <2>3. LoyalTab(n, jar, sessions)
    BY <1>0, <1>1, <1>3, <1>6, <1>8, <2>2 DEF LoyalTab
  <2> QED BY <1>0, <1>5, <2>1, <2>2, <2>3, LoyalKept
<1> QED BY <1>7, <1>9, <1>10, <1>11 DEF Promises

LEMMA LiveTokens == Live = {m.token : m \in remembers} /\ \A token : Row(token) = {} <=> token \notin Live
  BY DEF Live, Row

LEMMA ServeRefreshKeeps ==
  ASSUME TabsOK, Promises, NEW t \in Tabs, NEW k \in Slots, ServeRefresh(t, k), Forgiven'
  PROVE  Promises'
<1> PICK b \in TabState : b = tab[t]
  BY DEF TabsOK, TypeOK
<1> DEFINE row == Row(b.http[k].cookie.remember)
           new == issued + 1
<1>0. /\ OnlyTab(t) /\ TabInv(b) /\ jar' = jar /\ excused' = excused
      /\ b.http[k].at = "sent" /\ b.http[k].req = "refresh" /\ k \in Refreshes
      /\ b.http[k].cookie.remember = jar.remember
      /\ ~ Contended(t)
  <2>1. "other_tab" \notin excused'
    BY DEF Forgiven
  <2> QED BY <2>1, ServeRefreshTab DEF TabsOK
<1> PICK n \in TabState : n = tab'[t]
  BY <1>0 DEF OnlyTab
<1>1. \A u \in Tabs \ {t}, l \in Slots : ~ Setter(tab[u].http[l])
  BY <1>0 DEF Contended, Setter
<1>2. \A l \in Slots \ {"login"} : ~ Setter(b.http[l])
  <2>1. b.refreshRequest = k
    BY <1>0 DEF TabInv
  <2>2. \A r \in Refreshes : ~ Setter(b.http[r])
    BY <1>0, <2>1 DEF TabInv, Setter
  <2>3. /\ \A l \in Calls : b.http[l].at = "answered" => b.http[l].req \in {"call", "retry"}
        /\ b.http["guard"].req = "session"
        /\ b.http["logout"].at # "idle" => b.http["logout"].req = "logout"
    BY <1>0 DEF TabInv
  <2>4. (\A l \in Calls : ~ Setter(b.http[l])) /\ ~ Setter(b.http["guard"]) /\ ~ Setter(b.http["logout"])
    BY <2>3 DEF Setter
  <2> QED BY <2>2, <2>4, SlotsDiffer
<1>3. jar.remember # NoToken => \A u \in Tabs, l \in Slots : ~ Setter(tab[u].http[l])
  <2>1. jar.remember # NoToken => ~ Setter(b.http["login"])
    BY DEF Promises, RememberedInv, RememberedTab, Setter
  <2> QED BY <1>1, <1>2, <2>1
<1>4. jar.remember # NoToken => row # {}
  <2>1. jar.remember # NoToken => jar.remember \in Live
    BY <1>3 DEF Promises, SetterInv
  <2> QED BY <1>0, <2>1, LiveTokens
<1>5. row # {} => jar.remember # NoToken
  <2>1. NoToken \notin Live
    BY DEF TabsOK, TypeOK, Live
  <2> QED BY <1>0, <2>1, LiveTokens
<1>6. k # "login" /\ k # "logout" /\ k # "guard" /\ k \notin Calls
  BY <1>0, SlotsDiffer
<1>7. CASE row = {}
  <2>1. UNCHANGED Server /\ Served(n, b, k, "refused", NoCookies)
    BY <1>7, ServeRefreshTab
  <2>2. /\ n.page = b.page /\ n.nav = b.nav
        /\ n.http[k].at = "refused" /\ n.http[k].req = "refresh"
        /\ n.http[k].cookie.remember = NoToken
        /\ \A l \in Slots \ {k} : n.http[l] = b.http[l]
    BY <1>0, <2>1 DEF Served, Rest, Still, NoCookies
  <2>3. jar.remember = NoToken /\ sessions' = sessions
    BY <1>4, <1>7, <2>1 DEF Server
  <2>4. SetterInv'
    <3>1. ~ Setter(n.http[k])
      BY <2>2 DEF Setter
    <3>2. n.http["logout"].at = "idle"
      BY <1>6, <2>2, SlotsDiffer DEF Promises, SetterInv
    <3> QED BY <1>0, <1>2, <1>6, <2>1, <2>2, <3>1, <3>2, SettersUntouched DEF Promises
  <2>5. ForgottenInv'
    <3>1. ForgottenTab(b)
      BY <2>3 DEF Promises, ForgottenInv
    <3>2. ForgottenTab(n)
      BY <1>6, <2>2, <3>1, SlotsDiffer DEF ForgottenTab
    <3>3. n.http["login"] = b.http["login"]
      BY <1>6, <2>2, SlotsDiffer
    <3>4. ASSUME NEW u \in Tabs, tab[u].http["login"].at = "answered"
          PROVE  AsideTab(n)
      <4>1. tab[u].http["login"].req \in {"login", "remembered_login"} /\ tab[u].page = "landing"
        BY <3>4 DEF TabsOK, TabInv
      <4>2. u = t
        BY <1>1, <3>4, <4>1, SlotsDiffer DEF Setter
      <4> QED BY <2>2, <4>1, <4>2 DEF AsideTab
    <3> QED BY <1>0, <3>2, <3>3, <3>4, ForgottenKept DEF Promises
  <2>6. RememberedInv'
    BY <1>0, <2>3, RememberedKept DEF Promises
  <2>7. ASSUME excused' = {} PROVE LoyalInv'
    <3>1. LoyalInv
      BY <1>0, <2>7 DEF Promises
    <3>2. LoyalTab(b, jar, sessions) /\ (jar.session # NoToken <=> jar.remember # NoToken)
      BY <3>1 DEF LoyalInv
    <3>3. n.page # "home" /\ n.refreshRequest = b.refreshRequest
      BY <2>1, <2>2, <2>3, <3>2 DEF LoyalTab, Served, Rest
    <3>4. /\ n.http["login"] = b.http["login"] /\ n.http["guard"] = b.http["guard"]
          /\ \A l \in Calls : n.http[l] = b.http[l]
      BY <1>6, <2>2, SlotsDiffer
    <3>5. n.http[k].cookie.session = NoToken
      BY <2>1 DEF Served, NoCookies
    <3>6. LoyalTab(n, jar, sessions)
      BY <2>2, <3>2, <3>3, <3>4, <3>5 DEF LoyalTab
    <3> QED BY <1>0, <2>3, <3>1, <3>2, <3>6, LoyalKept
  <2> QED BY <2>4, <2>5, <2>6, <2>7 DEF Promises
<1>8. CASE row # {}
  <2>1. /\ new \in Tokens \ {NoToken} /\ sessions' = sessions \cup {new}
        /\ remembers' = {m \in remembers : m.token # jar.remember} \cup {[row |-> r, token |-> new] : r \in row}
        /\ Served(n, b, k, "answered", [session |-> new, remember |-> new])
    BY <1>0, <1>8, ServeRefreshTab
  <2> HIDE DEF new
  <2>2. /\ n.page = b.page /\ n.nav = b.nav /\ n.authenticated = b.authenticated
        /\ n.refreshRequest = b.refreshRequest
        /\ n.http[k].at = "answered" /\ n.http[k].req = "refresh"
        /\ n.http[k].cookie.remember = new /\ n.http[k].cookie.session = new
        /\ \A l \in Slots \ {k} : n.http[l] = b.http[l]
    BY <1>0, <2>1 DEF Served, Rest, Still
  <2>3. /\ n.http["login"] = b.http["login"] /\ n.http["guard"] = b.http["guard"]
        /\ n.http["logout"] = b.http["logout"]
        /\ \A l \in Calls : n.http[l] = b.http[l]
        /\ \A r \in Refreshes \ {k} : n.http[r] = b.http[r]
    BY <1>6, <2>2, SlotsDiffer
  <2>4. jar.remember # NoToken
    BY <1>5, <1>8
  <2>5. new \in Live'
    <3>1. PICK r \in row : TRUE
      BY <1>8
    <3>2. [row |-> r, token |-> new] \in remembers'
      BY <2>1, <3>1
    <3> QED BY <3>2 DEF Live
  <2>6. SetterInv'
    <3>1. \A u \in Tabs, l \in Slots : Setter(tab'[u].http[l]) => u = t /\ l = k
      BY <1>0, <1>3, <2>2, <2>4 DEF OnlyTab
    <3>2. \A u \in Tabs : tab'[u].http["logout"].at = "idle"
      BY <1>0, <2>3 DEF Promises, SetterInv, OnlyTab
    <3>3. Setter(n.http[k])
      BY <2>2 DEF Setter
    <3>4. /\ n.http[k].cookie.remember \in Live' \cup {NoToken}
          /\ n.http[k].cookie.remember # NoToken
          /\ n.http[k].cookie.session \in sessions'
      BY <2>1, <2>2, <2>5
    <3>5. \A u \in Tabs, l \in Slots : Setter(tab'[u].http[l]) =>
            /\ tab'[u].http[l].cookie.remember \in Live' \cup {NoToken}
            /\ tab'[u].http[l].req # "login" => tab'[u].http[l].cookie.remember # NoToken
            /\ tab'[u].http[l].cookie.session \in sessions'
      BY <3>1, <3>4
    <3>6. \A u, v \in Tabs, l, m \in Slots :
            Setter(tab'[u].http[l]) /\ Setter(tab'[v].http[m]) => u = v /\ l = m
      BY <3>1
    <3>7. ~ \A u \in Tabs, l \in Slots : ~ Setter(tab'[u].http[l])
      BY <3>3
    <3> QED BY <3>2, <3>5, <3>6, <3>7 DEF SetterInv
  <2>7. ForgottenInv'
    BY <1>0, <2>3, <2>4, ForgottenKept DEF Promises
  <2>8. Stale(n) => Stale(b)
    BY <2>2, <2>3 DEF Stale
  <2>9. RememberedInv'
    <3>1. RememberedTab(b, sessions)
      BY <2>4 DEF Promises, RememberedInv
    <3>2. RememberedTab(n, sessions)
      BY <2>2, <2>3, <2>8, <3>1 DEF RememberedTab
    <3>3. sessions \subseteq sessions'
      BY <2>1
    <3>4. RememberedTab(n, sessions')
      BY <3>2, <3>3, RememberedTabGrows
    <3> QED BY <1>0, <2>2, <3>3, <3>4, RememberedKept DEF Promises
  <2>10. ASSUME excused' = {} PROVE LoyalInv'
    <3>1. LoyalInv
      BY <1>0, <2>10 DEF Promises
    <3>2. LoyalTab(b, jar, sessions) /\ (jar.session # NoToken <=> jar.remember # NoToken)
      BY <3>1 DEF LoyalInv
    <3>3. LoyalTab(n, jar, sessions)
      BY <2>2, <2>3, <2>4, <2>8, <3>2 DEF LoyalTab
    <3>4. sessions \subseteq sessions'
      BY <2>1
    <3>5. LoyalTab(n, jar, sessions')
      BY <3>3, <3>4, LoyalTabGrows
    <3> QED BY <1>0, <3>1, <3>2, <3>4, <3>5, LoyalKept
  <2> QED BY <2>6, <2>7, <2>9, <2>10 DEF Promises
<1> QED BY <1>7, <1>8

\* A login is served while no other tab shows the application: the browser
\* has no remember token, so the new session replaces nothing.
LEMMA ServeLoginKeeps ==
  ASSUME TabsOK, Promises, NEW t \in Tabs, NEW k \in Slots, ServeLogin(t, k), Forgiven'
  PROVE  Promises'
<1> PICK b \in TabState : b = tab[t]
  BY DEF TabsOK, TypeOK
<1> DEFINE new == issued + 1
           token == IF b.http["login"].req = "remembered_login" THEN new ELSE NoToken
<1>1. k = "login"
  <2>1. b.http["logout"].at = "idle"
    BY DEF Promises, SetterInv
  <2> QED BY <2>1, ServeLoginTab
<1>2. /\ OnlyTab(t) /\ TabInv(b) /\ jar' = jar /\ excused \subseteq excused'
      /\ b.http["login"].at \in {"sent", "found"}
      /\ new \in Tokens \ {NoToken}
      /\ sessions' = (sessions \ {b.http["login"].cookie.session}) \cup {new}
      /\ b.http["login"].req = "remembered_login" => [row |-> new, token |-> new] \in remembers'
      /\ Served(tab'[t], b, "login", "answered", [session |-> new, remember |-> token])
      /\ ~ Contended(t) /\ \A u \in Tabs \ {t} : tab[u].page # "home"
  <2>1. "other_tab" \notin excused'
    BY DEF Forgiven
  <2>2. OnlyTab(t) /\ TabInv(b) /\ jar' = jar /\ excused \subseteq excused'
    BY ServeLoginTab DEF TabsOK
  <2>3. ~ Contended(t) /\ \A u \in Tabs \ {t} : tab[u].page # "home"
    BY <2>1, ServeLoginTab
  <2>4. /\ b.http["login"].at \in {"sent", "found"}
        /\ new \in Tokens \ {NoToken}
        /\ sessions' = (sessions \ {b.http["login"].cookie.session}) \cup {new}
        /\ Served(tab'[t], b, "login", "answered", [session |-> new, remember |-> token])
    BY <1>1, ServeLoginTab, SlotsDiffer
  <2>5. b.http["login"].req = "remembered_login" => [row |-> new, token |-> new] \in remembers'
    <3> DEFINE q == tab[t].http[k]
               row == IF q.at = "found" THEN {q.row} ELSE Row(q.cookie.remember)
               kept == {m \in remembers : m.row \notin row}
    <3>1. remembers' = kept \cup (IF q.req = "remembered_login"
                                  THEN {[row |-> new, token |-> new]} ELSE {})
      BY <1>1 DEF ServeLogin
    <3> HIDE DEF kept, new
    <3> QED BY <1>1, <3>1
  <2> QED BY <2>2, <2>3, <2>4, <2>5
<1> PICK n \in TabState : n = tab'[t]
  BY <1>2 DEF OnlyTab
<1> HIDE DEF new
<1>3. b.page = "landing" /\ b.http["login"].req \in {"login", "remembered_login"}
  BY <1>2 DEF TabInv
<1>4. /\ n.page = b.page /\ n.refreshRequest = b.refreshRequest
      /\ n.http["login"].at = "answered" /\ n.http["login"].req = b.http["login"].req
      /\ n.http["login"].cookie.session = new /\ n.http["login"].cookie.remember = token
      /\ \A l \in Slots \ {"login"} : n.http[l] = b.http[l]
  BY <1>2 DEF Served, Rest, Still
<1>5. \A u \in Tabs : tab[u].page # "home" /\ tab'[u].page # "home"
  BY <1>2, <1>3, <1>4 DEF OnlyTab
<1>6. jar.remember = NoToken /\ \A u \in Tabs : ForgottenTab(tab[u])
  BY <1>5 DEF Promises, RememberedInv, ForgottenInv
<1>7. \A u \in Tabs, l \in Slots : ~ Setter(tab[u].http[l])
  <2>1. \A u \in Tabs \ {t}, l \in Slots : ~ Setter(tab[u].http[l])
    BY <1>2 DEF Contended, Setter
  <2>2. \A l \in Refreshes : ~ Setter(b.http[l])
    BY <1>6 DEF ForgottenTab, Setter
  <2>3. /\ \A l \in Calls : b.http[l].at = "answered" => b.http[l].req \in {"call", "retry"}
        /\ b.http["guard"].req = "session"
        /\ b.http["logout"].at # "idle" => b.http["logout"].req = "logout"
    BY <1>2 DEF TabInv
  <2>4. (\A l \in Calls : ~ Setter(b.http[l])) /\ ~ Setter(b.http["guard"]) /\ ~ Setter(b.http["logout"])
        /\ ~ Setter(b.http["login"])
    BY <1>2, <2>3 DEF Setter
  <2> QED BY <2>1, <2>2, <2>4, SlotsDiffer
<1>8. SetterInv'
  <2>1. \A u \in Tabs, l \in Slots : Setter(tab'[u].http[l]) => u = t /\ l = "login"
    BY <1>2, <1>4, <1>7 DEF OnlyTab
  <2>2. \A u \in Tabs : tab'[u].http["logout"].at = "idle"
    BY <1>2, <1>4, SlotsDiffer DEF Promises, SetterInv, OnlyTab
  <2>3. Setter(n.http["login"])
    BY <1>3, <1>4 DEF Setter
  <2>4. b.http["login"].req = "remembered_login" => new \in Live'
    BY <1>2 DEF Live
  <2>5. /\ token \in Live' \cup {NoToken}
        /\ b.http["login"].req # "login" => token # NoToken
        /\ new \in sessions'
    BY <1>2, <1>3, <2>4
  <2>6. \A u \in Tabs, l \in Slots : Setter(tab'[u].http[l]) =>
          /\ tab'[u].http[l].cookie.remember \in Live' \cup {NoToken}
          /\ tab'[u].http[l].req # "login" => tab'[u].http[l].cookie.remember # NoToken
          /\ tab'[u].http[l].cookie.session \in sessions'
    BY <1>4, <2>1, <2>5
  <2>7. \A u, v \in Tabs, l, m \in Slots :
          Setter(tab'[u].http[l]) /\ Setter(tab'[v].http[m]) => u = v /\ l = m
    BY <2>1
  <2>8. ~ \A u \in Tabs, l \in Slots : ~ Setter(tab'[u].http[l])
    BY <2>3, SlotsDiffer
  <2> QED BY <2>2, <2>6, <2>7, <2>8 DEF SetterInv
<1>9. ForgottenInv'
  <2>1. ForgottenTab(b)
    BY <1>6
  <2>2. ForgottenTab(n)
    BY <1>4, <2>1, SlotsDiffer DEF ForgottenTab
  <2>3. \A u \in Tabs : ForgottenTab(tab'[u])
    BY <1>2, <1>6, <2>2 DEF OnlyTab
  <2>4. \A u \in Tabs : AsideTab(tab'[u])
    BY <1>5 DEF AsideTab
  <2> QED BY <2>3, <2>4 DEF ForgottenInv
<1>10. RememberedInv'
  BY <1>2, <1>6 DEF RememberedInv
<1>11. ASSUME excused' = {} PROVE LoyalInv'
  <2>1. LoyalInv
    BY <1>2, <1>11 DEF Promises
  <2>2. LoyalTab(b, jar, sessions)
    BY <2>1 DEF LoyalInv
  <2>3. Setter(n.http["login"])
    BY <1>3, <1>4 DEF Setter
  <2>4. n.http["login"].req # "session"
    BY <1>3, <1>4
  <2>5. /\ n.http["guard"] = b.http["guard"]
        /\ \A l \in Calls : n.http[l] = b.http[l]
    BY <1>4, SlotsDiffer
  <2>6. b.http["login"].req = "remembered_login"
    BY <1>2, <2>2 DEF LoyalTab
  <2>7. LoyalTab(n, jar, sessions')
    BY <1>4, <1>5, <2>2, <2>3, <2>4, <2>5, <2>6 DEF LoyalTab
  <2>8. ASSUME NEW u \in Tabs \ {t} PROVE LoyalTab(tab'[u], jar, sessions')
    <3>1. LoyalTab(tab[u], jar, sessions) /\ tab[u].page # "home" /\ tab'[u] = tab[u]
      BY <1>2, <1>5, <2>1 DEF LoyalInv, OnlyTab
    <3> QED BY <3>1 DEF LoyalTab
  <2>9. jar'.session # NoToken <=> jar'.remember # NoToken
    BY <1>2, <2>1 DEF LoyalInv
  <2> QED BY <1>2, <2>7, <2>8, <2>9 DEF LoyalInv
<1> QED BY <1>8, <1>9, <1>10, <1>11 DEF Promises

\* A session expires while no tab refreshes and nothing but a first call
\* presents it.
LEMMA ExpireKeeps ==
  ASSUME TabsOK, Promises, NEW s, Expire(s)
  PROVE  Promises'
<1>1. /\ sessions' = sessions \ {s} /\ UNCHANGED <<remembers, issued, jar, tab, excused>>
      /\ \A t \in Tabs : tab[t].refreshRequest = None
      /\ \A t \in Tabs, k \in Slots : tab[t].http[k].cookie.session = s =>
           tab[t].http[k].at = "sent" /\ tab[t].http[k].req = "call"
  BY DEF Expire
<1>2. \A t \in Tabs, r \in Refreshes : tab[t].http[r].at = "idle"
  <2>1. ASSUME NEW t \in Tabs PROVE \A r \in Refreshes : tab[t].http[r].at = "idle"
    <3>1. TabInv(tab[t]) /\ tab[t].refreshRequest = None
      BY <1>1 DEF TabsOK
    <3> QED BY <3>1, SlotsDiffer DEF TabInv
  <2> QED BY <2>1
<1>3. \A k \in Calls : k \in Slots
  BY SlotsDiffer
<1>4. SetterInv'
  <2>1. Live' = Live
    BY <1>1 DEF Live
  <2>2. ASSUME NEW t \in Tabs, NEW k \in Slots, Setter(tab[t].http[k])
        PROVE  tab[t].http[k].cookie.session \in sessions'
    <3>1. tab[t].http[k].cookie.session \in sessions
      BY <2>2 DEF Promises, SetterInv
    <3>2. tab[t].http[k].at = "answered"
      BY <2>2 DEF Setter
    <3> QED BY <1>1, <3>1, <3>2
  <2> QED BY <1>1, <2>1, <2>2 DEF Promises, SetterInv
<1>5. ForgottenInv'
  BY <1>1 DEF Promises, ForgottenInv
<1>6. RememberedInv'
  <2>1. ASSUME NEW t \in Tabs, RememberedTab(tab[t], sessions)
        PROVE  RememberedTab(tab[t], sessions')
    BY <1>2, <2>1 DEF RememberedTab
  <2> QED BY <1>1, <2>1 DEF Promises, RememberedInv
<1>7. ASSUME excused' = {} PROVE LoyalInv'
  <2>1. LoyalInv
    BY <1>1, <1>7 DEF Promises
  <2>2. ASSUME NEW t \in Tabs, LoyalTab(tab[t], jar, sessions)
        PROVE  LoyalTab(tab[t], jar, sessions')
    <3>1. \A k \in Calls : tab[t].http[k].req = "retry" =>
            tab[t].http[k].cookie.session # s
      BY <1>1, <1>3
    <3>2. \A k \in Calls : tab[t].http[k].req = "retry" /\ tab[t].http[k].cookie.session \in sessions =>
            tab[t].http[k].cookie.session \in sessions'
      BY <1>1, <3>1
    <3> QED BY <1>2, <2>2, <3>2 DEF LoyalTab
  <2> QED BY <1>1, <2>1, <2>2 DEF LoyalInv
<1> QED BY <1>4, <1>5, <1>6, <1>7 DEF Promises

\* An answer that leaves the cookies as they are.
LEMMA ReceivePlainKeeps ==
  ASSUME TabsOK, Promises, NEW t \in Tabs, NEW k \in Slots, Receive(t, k), Forgiven,
         ~ SetsCookies(tab[t].http[k])
  PROVE  Promises'
<1> PICK b \in TabState : b = tab[t]
  BY DEF TabsOK, TypeOK
<1> PICK how \in {"answered", "refused"} : how = b.http[k].at
  BY ReceiveTab
<1>1. /\ OnlyTab(t) /\ TabInv(b) /\ TabInv(tab'[t]) /\ jar' = jar /\ jar \in Cookies
      /\ Outcome(tab'[t], b, k, how, jar) /\ UNCHANGED <<Server, excused>>
  BY ReceiveTab DEF TabsOK
<1> PICK n \in TabState : n = tab'[t]
  BY <1>1 DEF OnlyTab
<1>2. k # "login" /\ k # "logout"
  <2>1. b.http["logout"].at = "idle"
    BY DEF Promises, SetterInv
  <2>2. b.http["login"].at = "answered" => b.http["login"].req \in {"login", "remembered_login"}
    BY <1>1 DEF TabInv
  <2>3. b.http["login"].at # "refused"
    BY <1>1 DEF TabInv
  <2> QED BY <2>1, <2>2, <2>3 DEF SetsCookies
<1>3. ~ (how = "answered" /\ b.http[k].req = "refresh") /\ ~ Setter(b.http[k])
  BY DEF SetsCookies, Setter
<1>4. SetterInv'
  <2>1. b.http["logout"].at = "idle"
    BY DEF Promises, SetterInv
  <2>2. /\ \A l \in Slots \ {k} : Setter(b.http[l]) <=> Setter(n.http[l])
        /\ \A l \in Slots : Setter(n.http[l]) => n.http[l] = b.http[l]
        /\ n.http["logout"].at = "idle"
    BY <1>1, <2>1, OutcomeSetters
  <2> QED BY <1>1, <1>3, <2>2, SettersUntouched DEF Promises
<1>5. ForgottenInv'
  <2>1. n.http["login"].at = "answered" => b.http["login"].at = "answered"
    BY <1>1, OutcomeAnswers, SlotsDiffer
  <2>2. ASSUME jar.remember = NoToken PROVE ForgottenTab(b) /\ ForgottenTab(n)
    <3>1. ForgottenTab(b)
      BY <2>2 DEF Promises, ForgottenInv
    <3> QED BY <1>1, <1>2, <2>2, <3>1, OutcomeForgotten
  <2>3. ASSUME jar.remember = NoToken, AsideTab(b) PROVE AsideTab(n)
    BY <1>1, <1>2, <2>2, <2>3, OutcomeAside
  <2> QED BY <1>1, <2>1, <2>2, <2>3, ForgottenKept DEF Promises
<1>6. RememberedInv'
  <2>1. ASSUME jar.remember # NoToken
        PROVE  RememberedTab(n, sessions) /\ (b.page = "home" => n.page = "home")
    <3>1. RememberedTab(b, sessions)
      BY <2>1 DEF Promises, RememberedInv
    <3> QED BY <1>1, <1>2, <1>3, <3>1, OutcomeRemembered
  <2> QED BY <1>1, <2>1, RememberedKept DEF Promises, Server
<1>7. ASSUME excused' = {} PROVE LoyalInv'
  <2>1. LoyalInv
    BY <1>1, <1>7 DEF Promises
  <2>2. LoyalTab(b, jar, sessions) /\ (jar.session # NoToken <=> jar.remember # NoToken)
    BY <2>1 DEF LoyalInv
  <2>3. LoyalTab(n, jar, sessions)
    BY <1>1, <1>2, <1>3, <2>2, OutcomeLoyal
  <2> QED BY <1>1, <2>1, <2>2, <2>3, LoyalKept DEF Server
<1> QED BY <1>4, <1>5, <1>6, <1>7 DEF Promises

\* The answer of a refresh puts a session and a token that the server has
\* just issued in the cookies.
LEMMA ReceiveRefreshKeeps ==
  ASSUME TabsOK, Promises, NEW t \in Tabs, NEW k \in Refreshes, Receive(t, k), Forgiven,
         Setter(tab[t].http[k])
  PROVE  Promises'
<1> PICK b \in TabState : b = tab[t]
  BY DEF TabsOK, TypeOK
<1>0. k \in Slots /\ k # "login" /\ k # "logout"
  BY SlotsDiffer
<1>1. /\ OnlyTab(t) /\ TabInv(b) /\ TabInv(tab'[t]) /\ jar' = b.http[k].cookie /\ jar' \in Cookies
      /\ b.http[k].at = "answered"
      /\ Outcome(tab'[t], b, k, "answered", jar') /\ UNCHANGED <<Server, excused>>
  <2>1. b.http[k].at = "answered" /\ SetsCookies(b.http[k])
    BY DEF Setter, SetsCookies
  <2> QED BY <1>0, <2>1, ReceiveTab DEF TabsOK
<1> PICK n \in TabState : n = tab'[t]
  BY <1>1 DEF OnlyTab
<1> PICK c \in Cookies : c = jar'
  BY <1>1
<1>2. b.http[k].req = "refresh"
  <2>1. b.http[k].req \in {"refresh", "session"}
    BY <1>1 DEF TabInv
  <2> QED BY <2>1 DEF Setter
<1>3. c.remember \in Live /\ c.remember # NoToken /\ c.session \in sessions
  <2>1. /\ b.http[k].cookie.remember \in Live \cup {NoToken}
        /\ b.http[k].req # "login" => b.http[k].cookie.remember # NoToken
        /\ b.http[k].cookie.session \in sessions
    BY <1>0 DEF Promises, SetterInv
  <2> QED BY <1>1, <1>2, <2>1
<1>4. c.session # NoToken
  BY <1>3 DEF TabsOK, TypeOK
<1>5. jar.remember # NoToken
  <2>1. jar.remember = NoToken => ForgottenTab(b)
    BY DEF Promises, ForgottenInv
  <2> QED BY <1>1, <2>1 DEF ForgottenTab
<1>6. SetterInv'
  <2>1. b.http["logout"].at = "idle"
    BY DEF Promises, SetterInv
  <2>2. /\ \A l \in Slots : Setter(n.http[l]) => n.http[l] = b.http[l]
        /\ n.http["logout"].at = "idle"
    BY <1>0, <1>1, <2>1, OutcomeSetters
  <2> QED BY <1>1, <1>3, <2>2, SettersKept DEF Promises
<1>7. ForgottenInv'
  BY <1>3 DEF ForgottenInv
<1>8. RememberedInv'
  <2>1. RememberedTab(b, sessions)
    BY <1>5 DEF Promises, RememberedInv
  <2>2. RememberedTab(n, sessions) /\ (b.page = "home" => n.page = "home")
    BY <1>0, <1>1, <1>3, <2>1, OutcomeRemembered
  <2> QED BY <1>1, <1>5, <2>2, RememberedKept DEF Promises, Server
<1>9. ASSUME excused' = {} PROVE LoyalInv'
  <2>1. LoyalInv
    BY <1>1, <1>9 DEF Promises
  <2>2. LoyalTab(b, jar, sessions) /\ jar \in Cookies
    BY <2>1 DEF LoyalInv, TabsOK, TypeOK
  <2>3. LoyalTab(n, c, sessions)
    BY <1>0, <1>1, <1>2, <1>3, <2>2, OutcomeLoyal
  <2> QED BY <1>1, <1>3, <1>4, <2>1, <2>3, LoyalKept DEF Server
<1> QED BY <1>6, <1>7, <1>8, <1>9 DEF Promises

\* The answer of a login reaches a browser that was not remembered, whose
\* other tabs are at rest; it may be remembered from then on.
LEMMA ReceiveLoginKeeps ==
  ASSUME TabsOK, Promises, NEW t \in Tabs, Receive(t, "login"), Forgiven
  PROVE  Promises'
<1> PICK b \in TabState : b = tab[t]
  BY DEF TabsOK, TypeOK
<1>1. /\ OnlyTab(t) /\ TabInv(b) /\ TabInv(tab'[t])
      /\ b.http["login"].at = "answered" /\ b.http["login"].req \in {"login", "remembered_login"}
      /\ UNCHANGED <<Server, excused>>
  <2>1. b.http["login"].at \in {"answered", "refused"} /\ TabInv(b) /\ OnlyTab(t) /\ TabInv(tab'[t])
        /\ UNCHANGED <<Server, excused>>
    BY SlotsDiffer, ReceiveTab DEF TabsOK
  <2>2. b.http["login"].at = "answered"
    BY <2>1 DEF TabInv
  <2> QED BY <2>1, <2>2 DEF TabInv
<1>2. /\ jar' = b.http["login"].cookie /\ jar' \in Cookies
      /\ Outcome(tab'[t], b, "login", "answered", jar')
  <2>1. SetsCookies(b.http["login"])
    BY <1>1 DEF SetsCookies
  <2> QED BY <1>1, <2>1, SlotsDiffer, ReceiveTab
<1> PICK n \in TabState : n = tab'[t]
  BY <1>1 DEF OnlyTab
<1> PICK c \in Cookies : c = jar'
  BY <1>2
<1>3. /\ n.authenticated = "yes" /\ n.page = "home" /\ n.nav = "none"
      /\ n.http["guard"] = Idle /\ n.http["login"] = Idle
      /\ n.refreshRequest = b.refreshRequest
      /\ \A l \in Slots \ {"login", "guard"} : n.http[l] = b.http[l]
  <2>1. Enters(n, b, "login")
    BY <1>2, SlotsDiffer DEF Outcome
  <2> QED BY <2>1 DEF Enters, Rest
<1>4. /\ \A l \in Calls \cup Refreshes : n.http[l] = b.http[l]
      /\ n.http["logout"] = b.http["logout"]
  BY <1>3, SlotsDiffer
<1>5. b.page = "landing" /\ b.nav = "none" /\ b.http["guard"].at = "idle"
  BY <1>1 DEF TabInv
<1>6. Setter(b.http["login"])
  BY <1>1 DEF Setter
<1>7. \A u \in Tabs, l \in Slots : Setter(tab[u].http[l]) => u = t /\ l = "login"
  BY <1>6, SlotsDiffer DEF Promises, SetterInv
<1>8. /\ c.remember \in Live \cup {NoToken} /\ c.session \in sessions
      /\ b.http["login"].req # "login" => c.remember # NoToken
  BY <1>2, <1>6, SlotsDiffer DEF Promises, SetterInv
<1>9. c.session # NoToken
  BY <1>8 DEF TabsOK, TypeOK
<1>10. jar.remember = NoToken
  <2>1. jar.remember # NoToken => b.http["login"].at # "answered"
    BY DEF Promises, RememberedInv, RememberedTab
  <2> QED BY <1>1, <2>1
<1>11. \A u \in Tabs : ForgottenTab(tab[u]) /\ AsideTab(tab[u])
  BY <1>1, <1>10 DEF Promises, ForgottenInv
<1>12. \A u \in Tabs \ {t} : tab[u].http["login"].at # "answered"
  <2>1. ASSUME NEW u \in Tabs \ {t}, tab[u].http["login"].at = "answered" PROVE FALSE
    <3>1. tab[u].http["login"].req \in {"login", "remembered_login"}
      BY <2>1 DEF TabsOK, TabInv
    <3>2. Setter(tab[u].http["login"])
      BY <2>1, <3>1 DEF Setter
    <3> QED BY <1>7, <3>2, SlotsDiffer
  <2> QED BY <2>1
<1>13. SetterInv'
  <2>1. \A l \in Slots : Setter(n.http[l]) => n.http[l] = b.http[l]
    BY <1>3, IdleIs DEF Setter
  <2>2. n.http["logout"].at = "idle"
    BY <1>4 DEF Promises, SetterInv
  <2> QED BY <1>1, <1>8, <2>1, <2>2, SettersKept DEF Promises
<1>14. ForgottenTab(b) /\ ForgottenTab(n) /\ n.http["login"].at # "answered"
  <2>1. ForgottenTab(b)
    BY <1>11
  <2>2. \A l \in Slots : n.http[l].cookie.remember # NoToken => l = "login" /\ n.http[l].at = "answered"
    BY <1>3, <2>1, IdleIs DEF ForgottenTab
  <2> QED BY <1>3, <1>4, <2>1, <2>2, IdleIs DEF ForgottenTab
<1>15. ForgottenInv'
  <2>1. \A u \in Tabs : ForgottenTab(tab'[u]) /\ tab'[u].http["login"].at # "answered"
    BY <1>1, <1>11, <1>12, <1>14 DEF OnlyTab
  <2> QED BY <2>1 DEF ForgottenInv
<1>16. RememberedInv'
  <2>1. RememberedTab(n, sessions)
    <3>1. n.nav = "none" /\ \A l \in Calls : n.http[l].req # "retry"
      BY <1>3, <1>14 DEF ForgottenTab
    <3>2. \A r \in Refreshes : n.http[r].at # "idle" => n.http[r].req # "session"
      BY <1>14 DEF ForgottenTab
    <3> QED BY <1>14, <3>1, <3>2 DEF RememberedTab
  <2>2. ASSUME NEW u \in Tabs \ {t} PROVE RememberedTab(tab[u], sessions)
    <3>1. TabInv(tab[u])
      BY DEF TabsOK
    <3> QED BY <1>11, <1>12, <3>1, NoTabHeldBack
  <2>3. \A u \in Tabs : RememberedTab(tab'[u], sessions)
    BY <1>1, <2>1, <2>2 DEF OnlyTab
  <2> QED BY <1>1, <1>3, <2>3 DEF RememberedInv, Server
<1>17. ASSUME excused' = {} PROVE LoyalInv'
  <2>1. LoyalInv
    BY <1>1, <1>17 DEF Promises
  <2>2. c.remember # NoToken
    BY <1>1, <1>8, <2>1 DEF LoyalInv, LoyalTab
  <2>3. LoyalTab(n, c, sessions)
    <3>1. LoyalTab(b, jar, sessions)
      BY <2>1 DEF LoyalInv
    <3>2. \A l \in Calls : n.http[l].at = "idle"
      BY <1>4, <1>5, <3>1 DEF LoyalTab
    <3>3. b.refreshRequest = None
      BY <1>5, <3>1 DEF LoyalTab
    <3>4. \A r \in Refreshes : n.http[r].at = "idle"
      BY <1>1, <1>4, <3>3, SlotsDiffer DEF TabInv
    <3>5. ~ Stale(n) /\ n.http["login"].at = "idle"
      BY <1>3, <3>4, IdleIs DEF Stale
    <3> QED BY <1>3, <2>2, <3>2, <3>4, <3>5 DEF LoyalTab
  <2>4. ASSUME NEW u \in Tabs \ {t} PROVE LoyalTab(tab[u], c, sessions)
    <3>1. LoyalTab(tab[u], jar, sessions)
      BY <2>1 DEF LoyalInv
    <3>2. tab[u].page # "home"
      BY <1>10, <3>1 DEF LoyalTab
    <3> QED BY <2>2, <3>1, <3>2 DEF LoyalTab
  <2>5. \A u \in Tabs : LoyalTab(tab'[u], c, sessions)
    BY <1>1, <2>3, <2>4 DEF OnlyTab
  <2> QED BY <1>1, <1>9, <2>2, <2>5 DEF LoyalInv, Server
<1> QED BY <1>13, <1>15, <1>16, <1>17 DEF Promises

LEMMA ReceiveKeeps ==
  ASSUME TabsOK, Promises, NEW t \in Tabs, NEW k \in Slots, Receive(t, k), Forgiven
  PROVE  Promises'
<1>1. CASE k = "login"
  BY <1>1, ReceiveLoginKeeps
<1>2. CASE k \in Refreshes /\ Setter(tab[t].http[k])
  BY <1>2, ReceiveRefreshKeeps
<1>3. CASE k # "login" /\ ~ (k \in Refreshes /\ Setter(tab[t].http[k]))
  <2>1. TabInv(tab[t]) /\ tab[t].http["logout"].at = "idle"
    BY DEF TabsOK, Promises, SetterInv
  <2>2. ASSUME SetsCookies(tab[t].http[k]) PROVE FALSE
    <3>1. tab[t].http[k].at = "answered" /\ tab[t].http[k].req \in {"login", "remembered_login", "logout", "refresh"}
      BY <2>2 DEF SetsCookies
    <3>2. k \in Refreshes /\ tab[t].http[k].req = "refresh"
      BY <1>3, <2>1, <3>1, SlotOfRequest
    <3> QED BY <1>3, <3>1, <3>2 DEF Setter
  <2> QED BY <2>2, ReceivePlainKeeps
<1> QED BY <1>1, <1>2, <1>3

--------------------------------------------------------------------------------
(* The inductive invariant, and the two promises *)

\* No excuse is ever taken back, and a logout, a lost answer, a
\* revocation or the end of a remember session is not forgiven.
LEMMA ExcusesStay == TabsOK /\ Next /\ Forgiven' => Forgiven
<1> SUFFICES ASSUME TabsOK, Next, Forgiven' PROVE excused \subseteq excused'
  BY DEF Forgiven
<1>1. ASSUME NEW t \in Tabs, NEW k \in Slots, Serve(t, k) PROVE excused \subseteq excused'
  BY <1>1 DEF Serve, ServeProtected, ServeRefresh, FindRemembered, ServeLogin
<1>2. CASE ~ \E t \in Tabs, k \in Slots : Serve(t, k)
  BY <1>2 DEF Next, Open, Login, Logout, Call, Receive, Lose, Expire, ExpireRemembered, Revoke, Excuse
<1> QED BY <1>1, <1>2

LEMMA PromisesInit == Init => Promises
<1> SUFFICES ASSUME Init PROVE Promises
  OBVIOUS
<1>1. /\ jar.remember = NoToken /\ jar.session = NoToken /\ sessions = {}
      /\ \A t \in Tabs : tab[t].page = "none" /\ tab[t].nav = "none" /\ tab[t].refreshRequest = None
      /\ \A t \in Tabs, k \in Slots : tab[t].http[k] = Idle
  BY DEF Init, NoCookies
<1>2. /\ \A k \in Calls \cup Refreshes : k \in Slots
      /\ "login" \in Slots /\ "logout" \in Slots /\ "guard" \in Slots
  BY SlotsDiffer
<1>3. \A t \in Tabs, k \in Slots : ~ Setter(tab[t].http[k])
  BY <1>1, IdleIs DEF Setter
<1>4. SetterInv
  BY <1>1, <1>2, <1>3, IdleIs DEF SetterInv
<1>5. ForgottenInv
  <2>1. \A t \in Tabs : ForgottenTab(tab[t])
    BY <1>1, <1>2, IdleIs DEF ForgottenTab
  <2>2. \A t \in Tabs : tab[t].http["login"].at # "answered"
    BY <1>1, <1>2, IdleIs
  <2> QED BY <2>1, <2>2 DEF ForgottenInv
<1>6. RememberedInv
  BY <1>1 DEF RememberedInv
<1>7. LoyalInv
  <2>1. \A t \in Tabs : LoyalTab(tab[t], jar, sessions)
    BY <1>1, <1>2, IdleIs DEF LoyalTab
  <2> QED BY <1>1, <2>1 DEF LoyalInv
<1> QED BY <1>4, <1>5, <1>6, <1>7 DEF Promises

LEMMA PromisesStep == TabsOK /\ Promises /\ [Next]_vars /\ Forgiven' => Promises'
<1> SUFFICES ASSUME TabsOK, Promises, [Next]_vars, Forgiven' PROVE Promises'
  OBVIOUS
<1>1. CASE UNCHANGED vars
  BY <1>1 DEF vars, Promises, SetterInv, ForgottenInv, RememberedInv, LoyalInv, Live
<1>2. CASE Next
  <2> USE <1>2
  <2>1. Forgiven
    BY ExcusesStay
  <2>2. ASSUME NEW t \in Tabs, NEW target \in {"landing", "home"}, Open(t, target) PROVE Promises'
    BY <2>2, OpenKeeps
  <2>3. ASSUME NEW t \in Tabs, NEW req \in {"login", "remembered_login"}, Login(t, req) PROVE Promises'
    BY <2>3, LoginKeeps
  <2>4. ASSUME NEW t \in Tabs, Logout(t) PROVE Promises'
    BY <2>4 DEF Logout, Excuse, Forgiven
  <2>5. ASSUME NEW t \in Tabs, NEW k \in Calls, Call(t, k) PROVE Promises'
    BY <2>5, CallKeeps
  <2>6. ASSUME NEW t \in Tabs, NEW k \in Slots, Serve(t, k) PROVE Promises'
    BY <2>6, ServeProtectedKeeps, ServeRefreshKeeps, FindRememberedKeeps, ServeLoginKeeps DEF Serve
  <2>7. ASSUME NEW t \in Tabs, NEW k \in Slots, Receive(t, k) PROVE Promises'
    BY <2>1, <2>7, ReceiveKeeps
  <2>8. ASSUME NEW t \in Tabs, NEW k \in Slots, Lose(t, k) PROVE Promises'
    BY <2>8 DEF Lose, Excuse, Forgiven
  <2>9. ASSUME NEW s \in sessions, Expire(s) PROVE Promises'
    BY <2>9, ExpireKeeps
  <2>10. CASE Revoke
    BY <2>10 DEF Revoke, Excuse, Forgiven
  <2>11. ASSUME NEW m \in remembers, ExpireRemembered(m) PROVE Promises'
    BY <2>11 DEF ExpireRemembered, Excuse, Forgiven
  <2> QED BY <2>2, <2>3, <2>4, <2>5, <2>6, <2>7, <2>8, <2>9, <2>10, <2>11 DEF Next
<1> QED BY <1>1, <1>2

LEMMA SessionInductive == Spec => []SessionInv
<1>1. Init => SessionInv
  BY TabsOKInit, PromisesInit DEF SessionInv
<1>2. SessionInv /\ [Next]_vars => SessionInv'
  <2> SUFFICES ASSUME SessionInv, [Next]_vars PROVE SessionInv'
    OBVIOUS
  <2>1. TabsOK'
    BY TabsOKStep DEF SessionInv
  <2>2. Forgiven' => Forgiven
    BY ExcusesStay DEF SessionInv, vars, Forgiven
  <2> QED BY <2>1, <2>2, PromisesStep DEF SessionInv
<1> QED BY <1>1, <1>2, PTL DEF Spec

\* A browser that has always asked to be remembered, whose tabs have not
\* spent each other's tokens and whose answers have all arrived, is never
\* asked to log in again before its remember session expires, it logs out or
\* its sessions are revoked: no call fails and no tab with the application
\* open is logged out (AuthService.refreshSession, sessionInterceptor,
\* authGuard), for any number of tabs, calls and refreshes.
THEOREM NeverAskedAgain == Spec => []RememberedStaysIn
<1>1. SessionInv => RememberedStaysIn
  <2> SUFFICES ASSUME SessionInv, excused = {}, NEW t \in Tabs
               PROVE  /\ \A k \in Calls : tab[t].http[k].at # "failed"
                      /\ tab[t].page = "home" => tab[t].authenticated = "yes"
                                                 \/ tab[t].http["guard"].at # "idle"
    BY DEF RememberedStaysIn
  <2>1. LoyalTab(tab[t], jar, sessions)
    BY DEF SessionInv, Forgiven, Promises, LoyalInv
  <2> QED BY <2>1 DEF LoyalTab
<1> QED BY <1>1, SessionInductive, PTL

\* When no answer that sets cookies is under way, the remember token of the
\* browser is one that the server accepts, unless an answer was lost, the
\* sessions were revoked, the remember session expired (30 days after its
\* login: a rotation does not renew it), the user logged out or two tabs
\* raced: the order in which the answers of the tabs arrive never leaves a
\* spent token (refresh_session, login and _delete_presented_sessions).
THEOREM CookiesStayGood == Spec => []JarUnbroken
<1>1. SessionInv => JarUnbroken
  <2> SUFFICES ASSUME SessionInv,
                      excused \subseteq {"not_remembered"},
                      \A t \in Tabs : \A k \in Slots :
                        ~(tab[t].http[k].req \in Requests \ {"session", "call", "retry"}
                          /\ tab[t].http[k].at \in {"sent", "found", "answered", "refused"})
               PROVE  jar.remember \in Live \cup {NoToken}
    BY DEF JarUnbroken
  <2>1. Forgiven
    BY DEF Forgiven
  <2>2. \A t \in Tabs, k \in Slots : ~ Setter(tab[t].http[k])
    BY DEF Setter, Requests
  <2> QED BY <2>1, <2>2 DEF SessionInv, Promises, SetterInv
<1> QED BY <1>1, SessionInductive, PTL
================================================================================
