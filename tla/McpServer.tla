------------------------------ MODULE McpServer ------------------------------
(***************************************************************************)
(* The MCP server (mcp/server.py) and the API keys it authenticates          *)
(* (services/api_key_auth.py, api/routes/api_keys.py): who a tool call runs  *)
(* as, which connections it may touch, and the cached summary of a key's     *)
(* connections that tools/list appends to a tool's description.              *)
(*                                                                          *)
(* The middleware authenticates every HTTP request and sets the caller in    *)
(* the context of that request.  The SDK runs the tools of an MCP session in *)
(* a task that was started by, and keeps the context of, the request that    *)
(* opened the session.  A client sends its own key with all requests of its  *)
(* session.  What a call does once it has passed the checks of `execute` is  *)
(* the module Execution; here it is one of the states of the call.           *)
(***************************************************************************)
EXTENDS Naturals, Sequences, FiniteSets, SequencesExt

CONSTANTS
  Requests,     \* HTTP requests to /mcp
  Keys,         \* API keys
  MConns,       \* connections
  Tenant,       \* Tenant[x]: the tenant of a key or of a connection
  NameRank,     \* NameRank[c]: the place of a connection's name in the order
  Existing,     \* connections that exist at the start
  Scopes,       \* scopes keys are created with: All or sets of connections
  Days,         \* lifetimes keys are created with
  Limit,        \* lines of a summary (40)
  SummaryTTL,   \* _SUMMARY_CACHE_TTL_SEC
  CacheMax,     \* _SUMMARY_CACHE_MAX_KEYS
  MaxNow,       \* bound on the clock
  MaxChanges,   \* bound on the changes of connections
  All,          \* scope_type = "all"
  NoCaller      \* no caller in the context, no session

ASSUME McpAssumption ==
  /\ IsFiniteSet(MConns) /\ Existing \subseteq MConns /\ Scopes \subseteq {All} \cup SUBSET MConns
  /\ Days \subseteq Nat /\ Limit \in Nat /\ SummaryTTL \in Nat /\ CacheMax \in Nat \ {0}
  /\ MaxNow \in Nat /\ MaxChanges \in Nat
  /\ \A S \in SUBSET MConns : All # S
  /\ NoCaller \notin Keys

VARIABLES
  now,        \* the clock
  key,        \* rows of api_keys: [state, scope, expires]
  conn,       \* status of each connection, or "none" before it exists, "gone" after
  changes,    \* how many changes of a connection there were
  changedAt,  \* history: when conn[c] last changed
  mcpSession, \* mcpSession[k]: the caller the session of k's client runs its tools as
  req,        \* what each HTTP request is doing
  cache       \* _connection_summary_cache, least recently used first

mcpVars == <<now, key, conn, changes, changedAt, mcpSession, req, cache>>

\* A connection is created pending; the other values of its status differ
\* from these two only in name.
Status == {"pending", "ready"}

NoSummary == [total |-> 0, lines |-> {}]

Fresh == [pc |-> "idle", key |-> NoCaller, tool |-> "none", runs_as |-> NoCaller,
          conn |-> NoCaller, summary |-> NoSummary, readAt |-> 0, storedAt |-> 0]

McpInit ==
  /\ now = 0
  /\ key = [k \in Keys |-> [state |-> "absent", scope |-> All, expires |-> MaxNow + 1]]
  /\ conn = [c \in MConns |-> IF c \in Existing THEN "ready" ELSE "none"]
  /\ changes = 0
  /\ changedAt = [c \in MConns |-> 0]
  /\ mcpSession = [k \in Keys |-> NoCaller]
  /\ req = [q \in Requests |-> Fresh]
  /\ cache = <<>>

-----------------------------------------------------------------------------
(* API keys.                                                                *)

Owned(k) == {c \in MConns : conn[c] \in Status /\ Tenant[c] = Tenant[k]}

\* create_api_key: a scope of connections is not empty and wholly the tenant's.
CreateKey(k, scope, days) ==
  /\ key[k].state = "absent"
  /\ scope # All => (scope # {} /\ scope \subseteq Owned(k))
  /\ key' = [key EXCEPT ![k] = [state |-> "active", scope |-> scope,
                                expires |-> IF now + days > MaxNow THEN MaxNow + 1 ELSE now + days]]
  /\ UNCHANGED <<now, conn, changes, changedAt, mcpSession, req, cache>>

\* revoke_api_key
RevokeKey(k) ==
  /\ key[k].state = "active"
  /\ key' = [key EXCEPT ![k].state = "revoked"]
  /\ UNCHANGED <<now, conn, changes, changedAt, mcpSession, req, cache>>

\* authenticate_key: the active rows of the prefix, then the expiry.
Authentic(k) == key[k].state = "active" /\ key[k].expires > now

Scope(k) == key[k].scope

\* allows_connection
Allows(k, c) == c \in IF Scope(k) = All THEN MConns ELSE Scope(k)

-----------------------------------------------------------------------------
(* The summary of a caller's connections.                                   *)

\* The WHERE clause of _load_connection_summary_block.
InScope(k) == {c \in Owned(k) : Allows(k, c)}

FirstByName(S) == {c \in S : Cardinality({d \in S : NameRank[d] < NameRank[c]}) < Limit}

Lines(k) == {<<c, conn[c]>> : c \in FirstByName(InScope(k))}

\* "(and n more)" stands only under a full list.
Summary(total, lines) ==
  [total |-> IF Cardinality(lines) = Limit /\ total > Limit THEN total ELSE Cardinality(lines),
   lines |-> lines]

\* Mutant: the scope is not part of the key.
CacheKeyOfTenant(k) == <<Tenant[k]>>

\* _caller_cache_key
CacheKey(k) == <<Tenant[k], Scope(k)>>

Entries(k) == {i \in DOMAIN cache : cache[i].id = CacheKey(k)}

\* A dict holds one entry for a key.
Without(k) == IF Entries(k) = {} THEN cache
              ELSE RemoveAt(cache, CHOOSE i \in Entries(k) : TRUE)

\* Mutant: entries do not age.
HitAny(k) == Entries(k) # {}

\* An entry older than the TTL is deleted when it is met.
Hit(k) == \E i \in Entries(k) : now - cache[i].storedAt <= SummaryTTL

\* _connection_summary_cache_set: the entry goes last, the oldest are popped.
Stored(k, entry) ==
  LET all == Append(Without(k), entry)
  IN SubSeq(all, IF Len(all) > CacheMax THEN Len(all) - CacheMax + 1 ELSE 1, Len(all))

-----------------------------------------------------------------------------
(* One HTTP request.                                                        *)

Set(q, r) == req' = [req EXCEPT ![q] = r]

\* A request of k's client: without a valid key it is answered 401 at once.
Arrive(q, k, tool) ==
  /\ req[q].pc = "idle"
  /\ key[k].state # "absent"
  /\ Set(q, IF Authentic(k) THEN [Fresh EXCEPT !.pc = "authenticated", !.key = k, !.tool = tool] ELSE Fresh)
  /\ UNCHANGED <<now, key, conn, changes, changedAt, mcpSession, cache>>

\* _caller_context as a tool of this session sees it: the session's task has
\* the context of the request that opened it.
CallerOf(q, opened) == IF opened = NoCaller THEN req[q].key ELSE opened

\* The inner app: the first request of a client opens its session.
Dispatch(q) ==
  LET caller == CallerOf(q, mcpSession[req[q].key]) IN
  /\ req[q].pc = "authenticated"
  /\ mcpSession' = [mcpSession EXCEPT ![req[q].key] = caller]
  /\ Set(q, [req[q] EXCEPT !.pc = req[q].tool, !.runs_as = caller])
  /\ UNCHANGED <<now, key, conn, changes, changedAt, cache>>

\* tools/list: the summary is taken from the cache ...
ListCached(q) ==
  LET k == req[q].runs_as IN
  /\ req[q].pc = "list"
  /\ Hit(k)
  /\ LET e == cache[CHOOSE i \in Entries(k) : TRUE] IN
       /\ cache' = Append(Without(k), e)
       /\ Set(q, [req[q] EXCEPT !.pc = "served", !.summary = e.summary,
                                !.readAt = e.readAt, !.storedAt = e.storedAt])
  /\ UNCHANGED <<now, key, conn, changes, changedAt, mcpSession>>

\* ... or counted, ...
ListCount(q) ==
  LET k == req[q].runs_as IN
  /\ req[q].pc = "list"
  /\ ~Hit(k)
  /\ cache' = Without(k)
  /\ Set(q, [req[q] EXCEPT !.pc = "counted", !.readAt = now,
                           !.summary = [NoSummary EXCEPT !.total = Cardinality(InScope(k))]])
  /\ UNCHANGED <<now, key, conn, changes, changedAt, mcpSession>>

\* ... read, by a second statement that sees what was committed since, ...
ListRead(q) ==
  /\ req[q].pc = "counted"
  /\ Set(q, [req[q] EXCEPT !.pc = "loaded",
                           !.summary = Summary(req[q].summary.total, Lines(req[q].runs_as))])
  /\ UNCHANGED <<now, key, conn, changes, changedAt, mcpSession, cache>>

\* ... and stored with the time at which the load ended.
ListStore(q) ==
  LET k == req[q].runs_as IN
  /\ req[q].pc = "loaded"
  /\ cache' = Stored(k, [id |-> CacheKey(k), storedAt |-> now,
                         readAt |-> req[q].readAt, summary |-> req[q].summary])
  /\ Set(q, [req[q] EXCEPT !.pc = "served", !.storedAt = now])
  /\ UNCHANGED <<now, key, conn, changes, changedAt, mcpSession>>

\* execute: the scope is checked before the connection is looked up by tenant.
Execute(q, c) ==
  LET k == req[q].runs_as IN
  /\ req[q].pc = "execute"
  /\ \/ /\ ~Allows(k, c)
        /\ Set(q, [req[q] EXCEPT !.pc = "served"])
     \/ /\ Allows(k, c) /\ c \notin Owned(k)
        /\ Set(q, [req[q] EXCEPT !.pc = "served"])
     \/ /\ Allows(k, c) /\ c \in Owned(k)
        /\ Set(q, [req[q] EXCEPT !.pc = "calling", !.conn = c])
  /\ UNCHANGED <<now, key, conn, changes, changedAt, mcpSession, cache>>

\* The answer is sent; the middleware resets the context of the request.
Respond(q) ==
  /\ req[q].pc \in {"served", "calling"}
  /\ Set(q, Fresh)
  /\ UNCHANGED <<now, key, conn, changes, changedAt, mcpSession, cache>>

-----------------------------------------------------------------------------
(* Connections are created, indexed and deleted; time passes.               *)

ChangeConnection(c, status) ==
  /\ changes < MaxChanges
  /\ changes' = changes + 1
  /\ CASE conn[c] = "none"    -> status = "pending"
       [] conn[c] = "gone"    -> FALSE
       [] conn[c] \in Status -> status # conn[c]
  /\ conn' = [conn EXCEPT ![c] = status]
  /\ changedAt' = [changedAt EXCEPT ![c] = now]
  /\ UNCHANGED <<now, key, mcpSession, req, cache>>

Tick ==
  /\ now < MaxNow
  /\ now' = now + 1
  /\ UNCHANGED <<key, conn, changes, changedAt, mcpSession, req, cache>>

McpNext ==
  \/ \E k \in Keys, scope \in Scopes, days \in Days : CreateKey(k, scope, days)
  \/ \E k \in Keys : RevokeKey(k)
  \/ \E q \in Requests, k \in Keys, tool \in {"list", "execute"} : Arrive(q, k, tool)
  \/ \E q \in Requests : \/ Dispatch(q) \/ ListCached(q) \/ ListCount(q) \/ ListRead(q)
                         \/ ListStore(q) \/ Respond(q)
  \/ \E q \in Requests, c \in MConns : Execute(q, c)
  \/ \E c \in MConns, status \in Status \cup {"gone"} : ChangeConnection(c, status)
  \/ Tick

McpSpec == McpInit /\ [][McpNext]_mcpVars

-----------------------------------------------------------------------------
(* A tool runs as the key its own request carried: it calls and lists only        *)
(* connections that this key's scope and tenant allow, however the requests of      *)
(* several keys interleave in the process and although summaries are shared         *)
(* between keys (_caller_context, _caller_cache_key).                           *)
RunsAsItsKey ==
  \A q \in Requests :
    LET r == req[q] IN
    r.pc \notin {"idle", "authenticated"} =>
      /\ r.runs_as = r.key
      /\ r.pc = "calling" => Tenant[r.conn] = Tenant[r.key] /\ Allows(r.key, r.conn)
      /\ \A line \in r.summary.lines : Tenant[line[1]] = Tenant[r.key] /\ Allows(r.key, line[1])

(* A summary that was served and is not what the database says now is stale  *)
(* by at most the TTL and the time its own load took: some connection of the *)
(* caller changed that recently.  A load that ends late may overwrite a newer *)
(* summary, and a use of an entry does not renew it                           *)
(* (connection_summary_for_tools_list).                                       *)
SummaryAgesOut ==
  [][\A q \in Requests :
       LET r == req'[q] IN
       (r.pc = "served" /\ r.tool = "list" /\ req[q] # r /\ r.summary.lines # Lines(r.key)) =>
         \E c \in MConns : /\ Tenant[c] = Tenant[r.key] /\ Allows(r.key, c)
                           /\ now <= changedAt[c] + SummaryTTL + (r.storedAt - r.readAt)]_mcpVars

=============================================================================
