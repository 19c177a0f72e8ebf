-------------------------------- MODULE Console --------------------------------
(***************************************************************************)
(* A browser with several tabs of the web console, its cookie jar, and the    *)
(* session routes (api/routes/session.py) behind the CSRF middleware           *)
(* (api/middleware/csrf.py) and the authentication dependencies                *)
(* (api/dependencies/auth.py).  The tabs share the jar; each keeps its own      *)
(* CSRF token in memory.  A request is handled with the cookies it was sent     *)
(* with; its response reaches the jar and the tab later, in any order.          *)
(***************************************************************************)
EXTENDS Naturals, FiniteSets

CONSTANTS
  Tabs,       \* tabs of the browser
  Tokens,     \* session ids; a session's CSRF token is named by it
  Attempts,   \* login attempts: a state with its PKCE verifier
  Workspaces, \* tenants
  Member,     \* tenants the user belongs to
  None

ASSUME ConsoleAssumption ==
  Member \subseteq Workspaces /\ None \notin Tokens \cup Attempts \cup Workspaces

VARIABLES
  login,     \* login[s]: the session s: "unused", "live" or "revoked"
  jar,       \* the cookies: harnex_sid, the CSRF cookie, harnex_oauth_state
  tab,       \* the tabs
  used       \* login attempts begun

consoleVars == <<login, jar, tab, used>>

NoTab == [page |-> "closed", token |-> None, attempt |-> None,
          scope |-> None, resp |-> None]

\* A response on its way: the cookies it sets ("keep" leaves one as it is) and
\* what the tab makes of it.
Response(sid, csrf, state, page, token) ==
  [sid |-> sid, csrf |-> csrf, state |-> state, page |-> page, token |-> token]

ConsoleInit ==
  /\ login = [s \in Tokens |-> "unused"]
  /\ jar = [sid |-> None, csrf |-> None, state |-> None]
  /\ tab = [t \in Tabs |-> NoTab]
  /\ used = {}

Idle(t) == tab[t].resp = None

Reply(t, r) == tab' = [tab EXCEPT ![t].resp = r]

\* lookup: the cookie names a session that is not revoked or expired.
Usable(s) == s # None /\ login[s] = "live"

(* The response arrives: the browser stores its cookies and the page goes on.  *)
Receive(t) ==
  LET r == tab[t].resp
      stored(name) == IF r[name] = "keep" THEN jar[name] ELSE r[name]
  IN /\ r # None
     /\ jar' = [sid |-> stored("sid"), csrf |-> stored("csrf"), state |-> stored("state")]
     /\ tab' = [tab EXCEPT ![t] = [tab[t] EXCEPT !.page = r.page, !.resp = None,
                                     !.token = IF r.token = "keep" THEN tab[t].token ELSE r.token]]
     /\ UNCHANGED <<login, used>>

(* A page loads and asks GET /me: the token of the session, or 401.           *)
Me(t) ==
  /\ Idle(t)
  /\ tab[t].page \in {"closed", "signed_out", "error"}
  /\ Reply(t, IF Usable(jar.sid) THEN Response("keep", "keep", "keep", "in", jar.sid)
              ELSE Response("keep", "keep", "keep", "anonymous", None))
  /\ UNCHANGED <<login, jar, used>>

(* GET /login: a new state and verifier in a cookie of five minutes.          *)
Login(t, a) ==
  /\ Idle(t)
  /\ tab[t].page = "anonymous"
  /\ a \notin used
  /\ used' = used \cup {a}
  /\ tab' = [tab EXCEPT ![t] = [tab[t] EXCEPT !.attempt = a,
                                  !.resp = Response("keep", "keep", a, "keycloak", None)]]
  /\ UNCHANGED <<login, jar>>

\* The state cookie runs out before Keycloak is done with the user.
ExpireState == /\ jar.state # None
               /\ jar' = [jar EXCEPT !.state = None]
               /\ UNCHANGED <<login, tab, used>>

\* callback: the state cookie is there, decrypts, and names the state of the
\* redirect.
StateAccepted(t) == jar.state # None /\ jar.state = tab[t].attempt

Bounce(t) == Reply(t, Response("keep", "keep", None, "error", None))

\* Mutant: a browser that has a CSRF cookie keeps it.
OpenedKeepingToken(s, state) == Response(s, IF jar.csrf = None THEN s ELSE "keep", state, "in", s)

\* _set_session_cookies: both cookies, in one response.
Opened(s, state) == Response(s, s, state, "in", s)

(* Keycloak redirects back to GET /callback: the code is exchanged with the    *)
(* verifier of the cookie, and a session is opened.  An error of Keycloak, a   *)
(* state that is missing or another's, and a failed exchange bounce the user   *)
(* and clear the state cookie.                                               *)
CallbackError(t) ==
  /\ Idle(t)
  /\ tab[t].page = "keycloak"
  /\ Bounce(t)
  /\ UNCHANGED <<login, jar, used>>

CallbackOpens(t, s) ==
  /\ Idle(t)
  /\ tab[t].page = "keycloak"
  /\ login[s] = "unused"
  /\ StateAccepted(t)
  /\ login' = [login EXCEPT ![s] = "live"]
  /\ Reply(t, [Opened(s, None) EXCEPT !.token = s])
  /\ UNCHANGED <<jar, used>>

(* POST /password: the form signs in without a redirect.                     *)
PasswordLogin(t, s) ==
  /\ Idle(t)
  /\ tab[t].page = "anonymous"
  /\ \/ /\ login[s] = "unused"
        /\ login' = [login EXCEPT ![s] = "live"]
        /\ Reply(t, Opened(s, "keep"))
     \/ /\ Reply(t, Response("keep", "keep", "keep", "anonymous", None))
        /\ UNCHANGED login
  /\ UNCHANGED <<jar, used>>

\* CsrfMiddleware, for an unsafe request of a tab: without the session cookie
\* there is nothing to protect.
CsrfAccepts(t) == jar.sid = None \/ (tab[t].token # None /\ tab[t].token = jar.csrf)

\* _try_cookie_session, get_tenant_context: no header names a tenant, so any of
\* the user's memberships may come first.
TenantContexts == IF ~Usable(jar.sid) \/ Member = {} THEN {None} ELSE Member

(* An unsafe request of the console.                                         *)
Unsafe(t) ==
  /\ Idle(t)
  /\ tab[t].page = "in"
  /\ IF CsrfAccepts(t)
     THEN \E tenant \in TenantContexts : tab' = [tab EXCEPT ![t].scope = tenant]
     ELSE tab' = [tab EXCEPT ![t].scope = None]
  /\ UNCHANGED <<login, jar, used>>

Cleared == Response(None, None, "keep", "signed_out", None)

(* POST /logout.  A refusal by the middleware leaves session and cookies as    *)
(* they are; the page shows "signed out" all the same.                        *)
Logout(t) ==
  /\ Idle(t)
  /\ tab[t].page = "in"
  /\ Reply(t, IF CsrfAccepts(t) THEN Cleared
              ELSE Response("keep", "keep", "keep", "signed_out", None))
  /\ login' = IF CsrfAccepts(t) /\ Usable(jar.sid)
                THEN [login EXCEPT ![jar.sid] = "revoked"] ELSE login
  /\ UNCHANGED <<jar, used>>

(* POST /logout-all: every session of the user, if the cookie names one.      *)
LogoutAll(t) ==
  /\ Idle(t)
  /\ tab[t].page = "in"
  /\ CsrfAccepts(t)
  /\ login' = IF ~Usable(jar.sid) THEN login
                ELSE [s \in Tokens |-> IF login[s] = "live" THEN "revoked" ELSE login[s]]
  /\ Reply(t, IF jar.sid = None THEN Response("keep", "keep", "keep", "in", "keep") ELSE Cleared)
  /\ UNCHANGED <<jar, used>>

\* A session ends by itself: idle or absolute limit, refresh refused.
SessionEnds(s) == /\ login[s] = "live"
                  /\ login' = [login EXCEPT ![s] = "revoked"]
                  /\ UNCHANGED <<jar, tab, used>>

ConsoleNext ==
  \/ ExpireState
  \/ \E s \in Tokens : SessionEnds(s)
  \/ \E t \in Tabs : \/ Receive(t) \/ Me(t) \/ CallbackError(t)
                     \/ Unsafe(t) \/ Logout(t) \/ LogoutAll(t)
                     \/ \E a \in Attempts : Login(t, a)
                     \/ \E s \in Tokens : CallbackOpens(t, s) \/ PasswordLogin(t, s)

ConsoleSpec == ConsoleInit /\ [][ConsoleNext]_consoleVars

-----------------------------------------------------------------------------
(* A tab never acts in a session it does not know: when the cookies change hands   *)
(* under it, by a sign-in, a sign-out or an expiry in another tab, its token no     *)
(* longer opens the CSRF middleware, which compares header and cookie and never      *)
(* asks whose session the cookie names (csrf.py, _set_session_cookies).         *)
ActsInOwnSession ==
  \A t \in Tabs :
    tab[t].page = "in" /\ CsrfAccepts(t) /\ jar.sid # None => tab[t].token = jar.sid

=============================================================================
