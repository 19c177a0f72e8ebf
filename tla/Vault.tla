-------------------------------- MODULE Vault --------------------------------
(***************************************************************************)
(* The Infisical credential vault (auth/vault.py) and the two operations    *)
(* on a connection that write to it: creation stores the credentials before *)
(* the row is committed, deletion removes them before the row is gone       *)
(* (services/connections.py).                                               *)
(*                                                                          *)
(* All coroutines of a process share one access token.  A call builds its   *)
(* headers from the token, sends, and on 401 drops the token, logs in and   *)
(* calls once more.  Every await is a step of its own: what the coroutine   *)
(* read before it may have changed after it.                                *)
(***************************************************************************)
EXTENDS Naturals, Sequences, FiniteSets

CONSTANTS
  Callers,      \* coroutines that use the vault
  VConns,       \* connection ids
  MaxLogins,    \* bound on the logins to Infisical
  MaxExpiries,  \* bound on the tokens Infisical expires
  VaultFaults,  \* subset of {"crash", "login_fails", "lost_answer", "commit_fails"}
  Nil       \* _token = None, and the header "Bearer None"

ASSUME VaultAssumption ==
  /\ MaxLogins \in Nat /\ MaxExpiries \in Nat
  /\ Nil \notin Nat \cup VConns

VARIABLES
  token,     \* InfisicalVault._token
  issued,    \* logins so far; tokens are numbered from 1
  expired,   \* the tokens Infisical no longer honours
  folders,   \* folders that exist at Infisical, as paths
  secrets,   \* connections whose CREDENTIALS secret exists
  row,       \* each connection's row: "unused", "flushed" (not committed, or rolled
             \* back), "bare" (no credentials), "present" (with), "gone"
  call,      \* what each coroutine is doing
  dropping   \* history: connections a deletion was ever begun for

vaultVars == <<token, issued, expired, folders, secrets, row, call, dropping>>

Idle == [op |-> "none", conn |-> Nil, pc |-> "idle",
         todo |-> <<>>, hdr |-> Nil, attempt |-> 1]

VaultInit ==
  /\ token \in {Nil, 1}
  /\ issued = 1
  /\ expired = {}
  /\ folders = {}
  /\ secrets = {}
  /\ row = [c \in VConns |-> "unused"]
  /\ call = [r \in Callers |-> Idle]
  /\ dropping = {}

-----------------------------------------------------------------------------
(* The HTTP requests an operation makes, in order.                          *)

\* connection_secret_path: the path has one segment of its own under a shared one.
SecretPath(c) == <<"tenants", c>>

\* Each prefix of the path is created top-down, the whole path last.
FolderTree(path) == [i \in 1..Len(path) |-> [kind |-> "folder", path |-> SubSeq(path, 1, i)]]

Upsert(c) == FolderTree(SecretPath(c)) \o <<[kind |-> "patch", path |-> SecretPath(c)]>>

Requests(op, c) ==
  CASE op = "create" -> Upsert(c)
    [] op = "delete" -> <<[kind |-> "delete", path |-> SecretPath(c)]>>
    [] op = "load"   -> <<[kind |-> "get", path |-> SecretPath(c)]>>
    [] op = "create_bare" -> <<>>

\* What Infisical replies to an authorized request: 404 for a missing secret,
\* 400 "already exists" for a folder that is there, which counts as success.
Reply(req, c) ==
  CASE req.kind = "folder" -> IF req.path \in folders THEN "already_exists" ELSE "ok"
    [] req.kind \in {"patch", "get", "delete"} -> IF c \in secrets THEN "ok" ELSE "not_found"
    [] req.kind = "post" -> IF req.path \in folders THEN "ok" ELSE "no_folder"

Effect(req, c, reply) ==
  /\ folders' = IF req.kind = "folder" THEN folders \cup {req.path} ELSE folders
  /\ secrets' = CASE req.kind = "delete"               -> secrets \ {c}
                  [] req.kind = "post" /\ reply = "ok" -> secrets \cup {c}
                  [] OTHER                             -> secrets

-----------------------------------------------------------------------------
(* Starting an operation.                                                   *)

\* create_connection flushes a row with a fresh id; delete_connection and
\* load_connection_credentials select a committed one.
Selectable(op, c) ==
  row[c] \in IF op \in {"create", "create_bare"} THEN {"unused"} ELSE {"bare", "present"}

AfterRequests(op, todo) ==
  IF todo # <<>> THEN "headers" ELSE "commit"

Begin(r, op, c) ==
  /\ call[r].pc = "idle"
  /\ Selectable(op, c)
  /\ call' = [call EXCEPT ![r] = [Idle EXCEPT !.op = op, !.conn = c, !.todo = Requests(op, c),
                                              !.pc = AfterRequests(op, Requests(op, c))]]
  /\ dropping' = IF op = "delete" THEN dropping \cup {c} ELSE dropping
  /\ row' = IF row[c] = "unused" THEN [row EXCEPT ![c] = "flushed"] ELSE row
  /\ UNCHANGED <<token, issued, expired, folders, secrets>>

-----------------------------------------------------------------------------
(* One HTTP request with its token.                                         *)

Goto(r, pc) == call' = [call EXCEPT ![r].pc = pc]

\* _token_headers: without a token the coroutine logs in first.
TokenHeaders(r) ==
  /\ call[r].pc = "headers"
  /\ IF token = Nil
     THEN Goto(r, "login")
     ELSE call' = [call EXCEPT ![r] = [@ EXCEPT !.hdr = token, !.pc = "sent"]]
  /\ UNCHANGED <<token, issued, expired, folders, secrets, row, dropping>>

\* After its login the coroutine awaits the close of the client and then
\* reads the shared token again, whatever it is by then.
ReadToken(r) ==
  /\ call[r].pc = "closing"
  /\ call' = [call EXCEPT ![r] = [@ EXCEPT !.hdr = token, !.pc = "sent"]]
  /\ UNCHANGED <<token, issued, expired, folders, secrets, row, dropping>>

\* _refresh_token, from _token_headers ("login") or from the retry ("relogin").
RefreshToken(r) ==
  /\ call[r].pc \in {"login", "relogin"}
  /\ issued < MaxLogins
  /\ issued' = issued + 1
  /\ token' = issued + 1
  /\ Goto(r, IF call[r].pc = "login" THEN "closing" ELSE "headers")
  /\ UNCHANGED <<expired, folders, secrets, row, dropping>>

\* The coroutine is through with its operation.
End(r) == call' = [call EXCEPT ![r] = Idle]

\* Mutant: the write of a new connection suppresses its errors, too.
RaiseSuppressed(r) ==
  call' = [call EXCEPT ![r] = [@ EXCEPT !.todo = <<>>, !.pc = "commit"]]

\* An error of an operation: deletion suppresses it and goes on to the row,
\* the other two raise it, and the request's transaction is rolled back.
Raise(r) ==
  IF call[r].op = "delete"
  THEN call' = [call EXCEPT ![r] = [@ EXCEPT !.todo = <<>>, !.pc = "commit"]]
  ELSE End(r)

LoginFails(r) ==
  /\ "login_fails" \in VaultFaults
  /\ call[r].pc \in {"login", "relogin"}
  /\ Raise(r)
  /\ UNCHANGED <<token, issued, expired, folders, secrets, row, dropping>>

FromStart(todo) == IF Head(todo).kind = "post" THEN <<[Head(todo) EXCEPT !.kind = "patch"]>> ELSE todo

Authorized(r) == call[r].hdr # Nil /\ call[r].hdr \notin expired

\* _with_token_retry: the first 401 drops the token and logs in again, and a
\* POST that follows a PATCH is retried from the PATCH; the second is raised.
Unauthorized(r) ==
  /\ call[r].pc = "sent"
  /\ ~Authorized(r)
  /\ IF call[r].attempt = 1
     THEN /\ token' = Nil
          /\ call' = [call EXCEPT ![r] =
               [@ EXCEPT !.pc = "relogin", !.attempt = 2, !.todo = FromStart(call[r].todo)]]
     ELSE Raise(r) /\ UNCHANGED token
  /\ UNCHANGED <<issued, expired, folders, secrets, row, dropping>>

\* The request is served.  A PATCH that found nothing is followed by a POST
\* with the same headers; a missing secret is an empty read or a done delete.
Perform(r) ==
  LET k == call[r]
      req == Head(k.todo)
      reply == Reply(req, k.conn)
  IN /\ k.pc = "sent"
     /\ Authorized(r)
     /\ Effect(req, k.conn, reply)
     /\ CASE req.kind = "patch" /\ reply = "not_found" ->
               call' = [call EXCEPT ![r] = [k EXCEPT !.todo = <<[req EXCEPT !.kind = "post"]>>]]
          [] reply = "no_folder" -> Raise(r)
          [] OTHER ->
               call' = [call EXCEPT ![r] =
                 [k EXCEPT !.todo = Tail(k.todo), !.attempt = 1, !.hdr = Nil,
                           !.pc = AfterRequests(k.op, Tail(k.todo))]]
     /\ UNCHANGED <<token, issued, expired, row, dropping>>

\* The request is served, but its answer is lost: the client times out.
LoseAnswer(r) ==
  LET k == call[r]
      req == Head(k.todo)
  IN /\ "lost_answer" \in VaultFaults
     /\ k.pc = "sent"
     /\ Authorized(r)
     /\ Effect(req, k.conn, Reply(req, k.conn))
     /\ Raise(r)
     /\ UNCHANGED <<token, issued, expired, row, dropping>>

-----------------------------------------------------------------------------
(* The end of the request's transaction, and the environment.               *)

\* A load changes no row: its transaction goes on with the call it is for.
Commit(r) ==
  LET k == call[r] IN
  /\ k.pc = "commit"
  /\ \/ /\ row' = CASE k.op = "delete"      -> [row EXCEPT ![k.conn] = "gone"]
                    [] k.op = "create_bare" -> [row EXCEPT ![k.conn] = "bare"]
                    [] k.op = "create"      -> [row EXCEPT ![k.conn] = "present"]
                    [] k.op = "load"        -> row
        /\ End(r)
     \/ /\ "commit_fails" \in VaultFaults
        /\ k.op # "load"
        /\ End(r)
        /\ UNCHANGED row
  /\ UNCHANGED <<token, issued, expired, folders, secrets, dropping>>

\* The process dies: its coroutines end and the token is forgotten.
Crash ==
  /\ "crash" \in VaultFaults
  /\ \E r \in Callers : call[r].pc # "idle"
  /\ token' = Nil
  /\ call' = [r \in Callers |-> Idle]
  /\ UNCHANGED <<issued, expired, folders, secrets, row, dropping>>

\* Infisical stops honouring a token.
Expire(t) ==
  /\ t \in (1..issued) \ expired
  /\ Cardinality(expired) < MaxExpiries
  /\ expired' = expired \cup {t}
  /\ UNCHANGED <<token, issued, folders, secrets, row, call, dropping>>

Coroutine(r) ==
  \/ TokenHeaders(r) \/ ReadToken(r) \/ RefreshToken(r) \/ LoginFails(r)
  \/ Unauthorized(r) \/ Perform(r) \/ LoseAnswer(r) \/ Commit(r)

VaultNext ==
  \/ \E r \in Callers :
       \/ \E op \in {"create", "create_bare", "delete", "load"}, c \in VConns : Begin(r, op, c)
       \/ Coroutine(r)
  \/ Crash
  \/ \E t \in 1..MaxLogins : Expire(t)

VaultSpec == VaultInit /\ [][VaultNext]_vaultVars

-----------------------------------------------------------------------------
(* Credentials are written before their row is committed and removed only   *)
(* by a deletion of it: whatever crashes, times out or rolls back, a        *)
(* committed connection that was given credentials and was never asked to   *)
(* be deleted has them in the vault (create_connection, delete_connection). *)
RowHasCredentials ==
  \A c \in VConns : (row[c] = "present" /\ c \notin dropping) => c \in secrets

=============================================================================
