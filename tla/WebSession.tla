------------------------------ MODULE WebSession ------------------------------
(***************************************************************************)
(* The cookie sessions of one user: the web_sessions rows, the Keycloak    *)
(* refresh-token family behind each, and the requests that use, refresh,   *)
(* revoke and purge them.  A request is one AsyncSession: the row it looks *)
(* up stays in the ORM's identity map as "copy" until the request ends.    *)
(* PostgreSQL row locks are held from the locking statement to COMMIT.     *)
(***************************************************************************)
EXTENDS Naturals, FiniteSets

CONSTANTS Sids,        \* session cookies of one Keycloak user
          Reqs,        \* requests in flight
          None,        \* SQL NULL, no session
          IdleTTL, AbsTTL,  \* session_idle_ttl_seconds, session_absolute_ttl_seconds
          AccessTTL,   \* expires_in after _post_token's skew
          Skew,        \* the 60 s before expiry in which a refresh is due
          Grace,       \* delete_expired's grace_seconds
          MaxTime,     \* bound on the clock
          Faults       \* what may go wrong, out of the kinds below

FaultKinds == {"crash", "lost_response", "body_error", "kc_expiry", "kc_down",
               "key_dropped"}

Reasons == {"logout", "logout_all", "refresh_reuse", "decrypt_failed"}

ASSUME SessionAssumption ==
  /\ {IdleTTL, AbsTTL, AccessTTL, Skew, Grace, MaxTime} \subseteq Nat
  /\ IdleTTL <= AbsTTL
  /\ Faults \subseteq FaultKinds
  /\ None \notin Sids \cup Nat \cup Reasons

VARIABLES now,    \* the clock
          row,    \* committed web_sessions rows
          kc,     \* Keycloak's side: the token family of each session
          req     \* the requests

vars == <<now, row, kc, req>>

\* rt is the number of the stored refresh token in its family; readable says
\* that a configured Fernet key still decrypts it.
Row == [state     : {"absent", "stored", "purged"},
        revokedAt : Nat \cup {None},
        reason    : Reasons \cup {None},
        rt        : Nat,
        readable  : BOOLEAN,
        accessExp : Nat,
        idleExp   : Nat,
        absExp    : Nat]

NoRow == [state |-> "absent", revokedAt |-> None, reason |-> None, rt |-> 0,
          readable |-> TRUE, accessExp |-> 0, idleExp |-> 0, absExp |-> 0]

\* cur is the only refresh token of the family Keycloak still accepts; lost
\* records that a rotation never reached the database.
Family == [alive : BOOLEAN, cur : Nat, lost : BOOLEAN,
           end   : {"none", "logout", "reuse", "expiry", "unreached"}]

Pcs == {"idle", "store", "lock", "exchange", "persist", "reuse", "unreadable",
        "touch", "body", "revoke", "kc_logout", "select_all", "kc_all"}

Req == [pc : Pcs, sid : Sids \cup {None}, copy : Row, idle : Nat,
        todo : SUBSET Sids]

IdleReq == [pc |-> "idle", sid |-> None, copy |-> NoRow, idle |-> 0, todo |-> {}]

\* What lookup returns: not revoked, neither TTL exceeded.
Usable(s) == /\ row[s].state = "stored"
             /\ row[s].revokedAt = None
             /\ row[s].idleExp > now
             /\ row[s].absExp > now

Unrevoked(s) == row[s].state = "stored" /\ row[s].revokedAt = None

NeedsRefresh(r) == r.accessExp <= now + Skew

\* Mutant: a request holds its row from the moment it is about to touch it.
HoldsFromTouch(q, s) == /\ req[q].sid = s
                        /\ req[q].pc \in {"exchange", "persist", "reuse",
                                          "unreadable", "touch", "body"}

\* SELECT FOR UPDATE and an uncommitted UPDATE hold the row.
Holds(q, s) == /\ req[q].sid = s
               /\ req[q].pc \in {"exchange", "persist", "reuse", "unreadable", "body"}
Free(q, s)  == \A p \in Reqs \ {q} : ~Holds(p, s)

Goto(q, pc) == req' = [req EXCEPT ![q].pc = pc]
End(q)      == req' = [req EXCEPT ![q] = IdleReq]

-----------------------------------------------------------------------------

Init == /\ now = 0
        /\ row = [s \in Sids |-> NoRow]
        /\ kc = [s \in Sids |-> [alive |-> FALSE, cur |-> 0, lost |-> FALSE,
                                 end |-> "none"]]
        /\ req = [q \in Reqs |-> IdleReq]

Tick == /\ now < MaxTime
        /\ now' = now + 1
        /\ UNCHANGED <<row, kc, req>>

(* callback and password_login: Keycloak opens a family, then the row is   *)
(* inserted and committed.                                                 *)
LoginExchange(q, s) ==
  /\ req[q].pc = "idle"
  /\ row[s].state = "absent" /\ kc[s].cur = 0
  /\ kc' = [kc EXCEPT ![s] = [@ EXCEPT !.alive = TRUE, !.cur = 1]]
  /\ req' = [req EXCEPT ![q] = [IdleReq EXCEPT !.pc = "store", !.sid = s]]
  /\ UNCHANGED <<now, row>>

Create(q) ==
  /\ req[q].pc = "store"
  /\ row' = [row EXCEPT ![req[q].sid] =
               [NoRow EXCEPT !.state = "stored", !.rt = 1,
                             !.accessExp = now + AccessTTL,
                             !.idleExp = now + IdleTTL,
                             !.absExp = now + AbsTTL]]
  /\ End(q)
  /\ UNCHANGED <<now, kc>>

(* lookup: what the request remembers of the row from now on.              *)
Lookup(q, s, pc) ==
  /\ req[q].pc = "idle"
  /\ Usable(s)
  /\ req' = [req EXCEPT ![q] = [IdleReq EXCEPT !.pc = pc, !.sid = s,
                                               !.copy = row[s]]]
  /\ UNCHANGED <<now, row, kc>>

(* Any authenticated request: refresh if the access token is about to      *)
(* expire, else straight to touch.                                         *)
Use(q, s) == Lookup(q, s, IF NeedsRefresh(row[s]) THEN "lock" ELSE "touch")

(* SELECT ... FOR UPDATE returns the instance the identity map already     *)
(* holds, with the attributes lookup loaded: nothing asks to repopulate it.*)
Reread(q) == req[q].copy

Lock(q) ==
  LET s == req[q].sid  latest == Reread(q) IN
  /\ req[q].pc = "lock"
  /\ Free(q, s)
  /\ IF row[s].state # "stored" \/ latest.revokedAt # None THEN End(q)
     ELSE req' = [req EXCEPT ![q] =
            [@ EXCEPT !.copy = latest,
                      !.pc = IF ~NeedsRefresh(latest) THEN "touch"
                             ELSE IF latest.readable THEN "exchange"
                             ELSE "unreadable"]]
  /\ UNCHANGED <<now, row, kc>>

(* POST /token with the refresh token of the copy.  Keycloak rotates it;   *)
(* a token it has rotated out already costs the family.                    *)
Accepted(q) == LET s == req[q].sid IN kc[s].alive /\ kc[s].cur = req[q].copy.rt

RefreshOk(q) ==
  LET s == req[q].sid IN
  /\ req[q].pc = "exchange"
  /\ Accepted(q)
  /\ kc' = [kc EXCEPT ![s] = [@ EXCEPT !.cur = kc[s].cur + 1]]
  /\ req' = [req EXCEPT ![q] =
               [@ EXCEPT !.pc = "persist",
                         !.copy = [req[q].copy EXCEPT !.rt = kc[s].cur + 1,
                                     !.readable = TRUE,
                                     !.accessExp = now + AccessTTL]]]
  /\ UNCHANGED <<now, row>>

RefreshRejected(q) ==
  LET s == req[q].sid IN
  /\ req[q].pc = "exchange"
  /\ ~Accepted(q)
  /\ kc' = IF kc[s].alive
           THEN [kc EXCEPT ![s] = [@ EXCEPT !.alive = FALSE, !.end = "reuse"]] ELSE kc
  /\ Goto(q, "reuse")
  /\ UNCHANGED <<now, row>>

(* Keycloak is down, or rotates and the response is lost: the request      *)
(* fails and its transaction rolls back, the session stays as it was.      *)
RefreshFails(q) ==
  LET s == req[q].sid IN
  /\ req[q].pc = "exchange"
  /\ \/ "kc_down" \in Faults /\ UNCHANGED kc
     \/ /\ "lost_response" \in Faults
        /\ Accepted(q)
        /\ kc' = [kc EXCEPT ![s] = [@ EXCEPT !.cur = kc[s].cur + 1, !.lost = TRUE]]
  /\ End(q)
  /\ UNCHANGED <<now, row>>

\* Mutant: the whole row object is written back, not the changed columns.
PersistWholeRow(q) ==
  /\ req[q].pc = "persist"
  /\ row' = [row EXCEPT ![req[q].sid] = req[q].copy]
  /\ Goto(q, "touch")
  /\ UNCHANGED <<now, kc>>

\* Mutant: only the access token and its expiry are stored.
PersistDropsToken(q) ==
  /\ req[q].pc = "persist"
  /\ row' = [row EXCEPT ![req[q].sid].accessExp = req[q].copy.accessExp]
  /\ Goto(q, "touch")
  /\ UNCHANGED <<now, kc>>

(* The rotated tokens are committed at once; only they are written.        *)
Persist(q) ==
  LET s == req[q].sid IN
  /\ req[q].pc = "persist"
  /\ row' = [row EXCEPT ![s] = [@ EXCEPT !.rt = req[q].copy.rt,
                                         !.readable = TRUE,
                                         !.accessExp = req[q].copy.accessExp]]
  /\ Goto(q, "touch")
  /\ UNCHANGED <<now, kc>>

\* Mutant: the reason is left out of the UPDATE.
RevokedUnexplained(s, reason) ==
  IF row[s].state = "stored" THEN [row EXCEPT ![s].revokedAt = now] ELSE row

(* _revoke: UPDATE and COMMIT whatever the row says by now.                *)
Revoked(s, reason) ==
  IF row[s].state = "stored"
  THEN [row EXCEPT ![s] = [@ EXCEPT !.revokedAt = now, !.reason = reason]] ELSE row

RevokeRejected(q) ==
  /\ req[q].pc \in {"reuse", "unreadable"}
  /\ row' = Revoked(req[q].sid, IF req[q].pc = "reuse" THEN "refresh_reuse"
                                                       ELSE "decrypt_failed")
  /\ End(q)
  /\ UNCHANGED <<now, kc>>

\* Mutant: the absolute limit is left out of the idle deadline.
SlidingIdleUncapped(q) == now + IdleTTL

(* touch: the sliding idle deadline, written but not committed until the   *)
(* end of the request; the row stays locked for the whole route body.      *)
SlidingIdle(q) == IF now + IdleTTL < req[q].copy.absExp THEN now + IdleTTL
                                                       ELSE req[q].copy.absExp
Touch(q) ==
  /\ req[q].pc = "touch"
  /\ Free(q, req[q].sid)
  /\ req' = [req EXCEPT ![q] = [@ EXCEPT !.pc = "body", !.idle = SlidingIdle(q)]]
  /\ UNCHANGED <<now, row, kc>>

EndRequest(q) ==
  LET s == req[q].sid IN
  /\ req[q].pc = "body"
  /\ row' = IF row[s].state = "stored"
            THEN [row EXCEPT ![s].idleExp = req[q].idle] ELSE row
  /\ End(q)
  /\ UNCHANGED <<now, kc>>

(* The route raises: get_db rolls back what is not committed.              *)
BodyError(q) == /\ "body_error" \in Faults
                /\ req[q].pc = "body"
                /\ End(q)
                /\ UNCHANGED <<now, row, kc>>

(* POST /logout: revoke locally, then tell Keycloak (best effort) with the *)
(* token read at lookup.  Any token of a family ends the family.           *)
Logout(q, s) == Lookup(q, s, "revoke")

\* Mutant: the session is only revoked locally.
RevokeLogoutLocally(q) ==
  /\ req[q].pc = "revoke"
  /\ Free(q, req[q].sid)
  /\ row' = Revoked(req[q].sid, "logout")
  /\ End(q)
  /\ UNCHANGED <<now, kc>>

RevokeLogout(q) ==
  /\ req[q].pc = "revoke"
  /\ Free(q, req[q].sid)
  /\ row' = Revoked(req[q].sid, "logout")
  /\ IF req[q].copy.readable THEN Goto(q, "kc_logout") ELSE End(q)
  /\ UNCHANGED <<now, kc>>

LoggedOut(s) == IF kc[s].alive
                THEN [kc EXCEPT ![s] = [@ EXCEPT !.alive = FALSE, !.end = "logout"]] ELSE kc

\* kc_logout swallows its errors; history: a logout did not reach this family.
Unreached(s) == IF kc[s].alive
                THEN [kc EXCEPT ![s] = [@ EXCEPT !.end = "unreached"]] ELSE kc

KcLogout(q) ==
  /\ req[q].pc = "kc_logout"
  /\ \/ kc' = LoggedOut(req[q].sid)
     \/ "kc_down" \in Faults /\ kc' = Unreached(req[q].sid)
  /\ End(q)
  /\ UNCHANGED <<now, row>>

(* POST /logout-all: SELECT the unrevoked rows, log each out at Keycloak,  *)
(* then one UPDATE of whatever is unrevoked by then.                       *)
LogoutAll(q, s) == Lookup(q, s, "select_all")

\* Mutant: only the sessions that are still usable are logged out at Keycloak.
SelectAllUsable(q) ==
  /\ req[q].pc = "select_all"
  /\ IF \A s \in Sids : ~Unrevoked(s) THEN End(q)
     ELSE req' = [req EXCEPT ![q] =
                    [@ EXCEPT !.pc = "kc_all",
                              !.todo = { s \in Sids : Usable(s) /\ row[s].readable }]]
  /\ UNCHANGED <<now, row, kc>>

SelectAll(q) ==
  LET rows == { s \in Sids : Unrevoked(s) } IN
  /\ req[q].pc = "select_all"
  /\ IF rows = {} THEN End(q)
     ELSE req' = [req EXCEPT ![q] =
                    [@ EXCEPT !.pc = "kc_all",
                              !.todo = { s \in rows : row[s].readable }]]
  /\ UNCHANGED <<now, row, kc>>

KcLogoutOne(q, s) ==
  /\ req[q].pc = "kc_all"
  /\ s \in req[q].todo
  /\ \/ kc' = LoggedOut(s)
     \/ "kc_down" \in Faults /\ kc' = Unreached(s)
  /\ req' = [req EXCEPT ![q].todo = @ \ {s}]
  /\ UNCHANGED <<now, row>>

RevokeAll(q) ==
  /\ req[q].pc = "kc_all"
  /\ req[q].todo = {}
  /\ \A s \in Sids : Unrevoked(s) => Free(q, s)
  /\ row' = [s \in Sids |-> IF Unrevoked(s)
               THEN [row[s] EXCEPT !.revokedAt = now, !.reason = "logout_all"]
               ELSE row[s]]
  /\ End(q)
  /\ UNCHANGED <<now, kc>>

(* scripts/cleanup_web_sessions.py.                                        *)
Stale(s) == /\ row[s].state = "stored"
            /\ \/ row[s].absExp + Grace < now
               \/ row[s].revokedAt # None /\ row[s].revokedAt + Grace < now

DeleteExpired ==
  /\ \E s \in Sids : Stale(s)
  /\ \A s \in Sids : Stale(s) => \A q \in Reqs : ~Holds(q, s)
  /\ row' = [s \in Sids |-> IF Stale(s) THEN [NoRow EXCEPT !.state = "purged"]
                                        ELSE row[s]]
  /\ UNCHANGED <<now, kc, req>>

(* Keycloak ends an idle SSO session on its own.                           *)
KcExpire(s) == /\ "kc_expiry" \in Faults
               /\ kc[s].alive
               /\ kc' = [kc EXCEPT ![s] = [@ EXCEPT !.alive = FALSE, !.end = "expiry"]]
               /\ UNCHANGED <<now, row, req>>

(* The process ends with every open transaction; a rotation it had not yet *)
(* committed is lost.                                                      *)
Persisting(s) == \E q \in Reqs : req[q].pc = "persist" /\ req[q].sid = s

Restart == /\ kc' = [s \in Sids |-> [kc[s] EXCEPT !.lost = @ \/ Persisting(s)]]
           /\ req' = [q \in Reqs |-> IdleReq]

(* A deployment drops the key that sealed the stored tokens.               *)
DropKey == /\ "key_dropped" \in Faults
           /\ \E s \in Sids : row[s].state = "stored" /\ row[s].readable
           /\ row' = [s \in Sids |-> IF row[s].state = "stored"
                        THEN [row[s] EXCEPT !.readable = FALSE] ELSE row[s]]
           /\ Restart
           /\ UNCHANGED now

Crash == /\ "crash" \in Faults
         /\ \E q \in Reqs : req[q].pc # "idle"
         /\ Restart
         /\ UNCHANGED <<now, row>>

Handle(q) == \/ Create(q) \/ Lock(q)
             \/ RefreshOk(q) \/ RefreshRejected(q) \/ RefreshFails(q)
             \/ Persist(q) \/ RevokeRejected(q)
             \/ Touch(q) \/ EndRequest(q) \/ BodyError(q)
             \/ RevokeLogout(q) \/ KcLogout(q)
             \/ SelectAll(q) \/ RevokeAll(q)
             \/ \E s \in Sids : KcLogoutOne(q, s)

\* The steps that may have to wait for a row lock.
Acquire(q) == Lock(q) \/ Touch(q) \/ RevokeLogout(q) \/ RevokeAll(q)

Arrive == \E q \in Reqs, s \in Sids :
            LoginExchange(q, s) \/ Use(q, s) \/ Logout(q, s) \/ LogoutAll(q, s)

Environment == Tick \/ DeleteExpired \/ DropKey \/ Crash \/ \E s \in Sids : KcExpire(s)

Next == Arrive \/ Environment \/ \E q \in Reqs : Handle(q)

Spec == Init /\ [][Next]_vars

\* The event loop runs every request; a row's waiters are served in the order
\* they queued, so a lock that is released again and again is obtained.
Fairness == \A q \in Reqs : WF_vars(Handle(q)) /\ SF_vars(Acquire(q))

-----------------------------------------------------------------------------

\* A row carries a reason exactly when it carries a revocation time.
TypeOK == /\ now \in Nat
          /\ row \in [Sids -> Row]
          /\ kc \in [Sids -> Family]
          /\ req \in [Reqs -> Req]
          /\ \A s \in Sids : row[s].revokedAt = None <=> row[s].reason = None

(* A revocation survives every later write: no refresh, touch or retry of   *)
(* a request that read the row before brings the session back (_revoke's    *)
(* in-place commit, the partial UPDATEs of touch and of the unit of work).  *)
RevocationSticky ==
  [][\A s \in Sids : row[s].revokedAt # None =>
       row'[s].revokedAt # None \/ row'[s].state = "purged"]_vars

\* Where a row stands in the life of its session.
LifeOf(r) == CASE r.state = "absent" -> "unborn"
               [] r.state = "purged" -> "gone"
               [] r.state = "stored" -> IF r.revokedAt = None THEN "live" ELSE "revoked"

LimitOf(r) == IF r.state = "stored" THEN r.absExp ELSE 0

Lifecycle == INSTANCE SessionLifecycle
             WITH Ids <- Sids, Lifetime <- AbsTTL, now <- now,
                  life <- [s \in Sids |-> LifeOf(row[s])],
                  limit <- [s \in Sids |-> LimitOf(row[s])]

(* The rows implement the life of a session: its limit is set once and never    *)
(* moved, and no request that read a row earlier brings a revoked or a purged    *)
(* session back, or ends one twice in different ways (SessionService).         *)
ImplementsLifecycle == Lifecycle!LifeSpec

(* No sequence of requests slides a session past its absolute lifetime:     *)
(* touch caps the idle deadline with the limit read at lookup.              *)
IdleWithinAbsolute ==
  \A s \in Sids : row[s].state = "stored" => row[s].idleExp <= row[s].absExp

(* While Keycloak honours the family, the stored refresh token is the one   *)
(* it accepts, whatever the route body does after the refresh: the commit   *)
(* of silently_refresh_if_needed.  Exempt are a commit under way and a      *)
(* rotation whose response or process was lost.                             *)
RotationPersisted ==
  \A s \in Sids :
    /\ row[s].state = "stored"
    /\ kc[s].alive /\ ~kc[s].lost
    /\ ~Persisting(s)
    => row[s].rt = kc[s].cur

(* A session is revoked as "refresh_reuse" only when Keycloak had ended it  *)
(* or a rotation was lost: never because the console presented a token it   *)
(* had itself rotated out (the FOR UPDATE of silently_refresh_if_needed).   *)
NoSpuriousRevocation ==
  \A s \in Sids : row[s].reason = "refresh_reuse" =>
                    kc[s].lost \/ kc[s].end # "reuse"

(* revoke_all_for_user leaves no Keycloak session behind a row it revoked,  *)
(* unless no configured key decrypts the row's token or Keycloak did not     *)
(* answer.                                                                  *)
LogoutAllKillsKeycloak ==
  \A s \in Sids : row[s].reason = "logout_all" /\ row[s].readable
                    => ~kc[s].alive \/ kc[s].end = "unreached"

(* A revoked session's refresh token ends up useless at Keycloak.           *)
RevokedDiesAtKeycloak ==
  \A s \in Sids : (row[s].revokedAt # None) ~> ~kc[s].alive

(* No request waits for a row lock or for another request for good.         *)
RequestsEnd == \A q \in Reqs : (req[q].pc # "idle") ~> (req[q].pc = "idle")

=============================================================================
