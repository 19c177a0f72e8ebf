# Harnex: a TLA+ verification project

Harnex is a multi-tenant gateway between AI agents and REST APIs: a FastAPI
application over asynchronous SQLAlchemy and PostgreSQL (READ COMMITTED), with
Keycloak for the console's users, Infisical for upstream credentials, pgvector
for search and a Blaxel sandbox for generated code. An agent reaches it through
two MCP tools, `search` and `execute`; a console reaches it through `/v1/...`.

The service is one event loop per process and any number of processes. What
makes it hard is not the arithmetic but the order of things: every request is a
database transaction with awaits in its middle, every object of the ORM is a
copy of a row that others go on writing, and half of the steps are side effects
at Keycloak, in object storage or upstream which no rollback takes back. The
modules below model these orders.

## 1. Inventory

Paths are relative to `src/src/harnex_api/` unless they start with `src/`.

| Component | State | Operations | Talks to |
|---|---|---|---|
| Web sessions: `services/web_session.py`, `api/routes/session.py`, `api/dependencies/auth.py` | `web_sessions` rows; Keycloak's token family behind each | login, lookup, silent refresh, touch, logout, logout-all, purge | Keycloak; every console request |
| Console sign-in: `api/routes/session.py`, `api/middleware/csrf.py`, `src/web/src/lib/` | the browser's cookies, each tab's CSRF token | login, callback, `/me`, unsafe requests, logout, logout-all | web sessions |
| JWT verification: `api/dependencies/auth.py` | JWKS cache | fetch, invalidate, verify | Keycloak |
| Connections and spec catalog: `services/connections.py`, `services/ingestion/` | `connections`, `connector_specs` with their chunks | create, background reindex, reindex, upload, delete, garbage collection | spec servers, embedding provider, vault; read by search |
| Credential vault: `auth/vault.py` | shared access token; secrets at Infisical | get, set, delete with one 401 retry | connections, execution |
| Documents and requests: `services/ingestion/`, `services/execute/operation.py`, `connectors/`, `auth/strategies.py` | none (documents are loaded anew) | parse, enrich, chunk; find, build, sign | upstream APIs |
| Execution and audit: `services/execute/`, `services/usage/monthly.py` | `executions`, `usage_monthly` | structured, code and skill calls; usage counting | upstream APIs, sandbox, object storage, vault |
| Files: `api/routes/files.py`, `api/routes/artifacts.py`, `services/object_storage/` | objects; artifact columns of `executions` | upload, list, signed download, delete | written by skill runs |
| MCP server: `mcp/server.py` | caller context variable, summary cache (256 keys, 30 s) | authenticate, list tools, search, execute | API keys, execution, search |
| API keys: `services/api_keys.py`, `services/api_key_auth.py` | `api_keys` | create, authenticate, revoke | MCP server |
| Search: `services/search/` | none (reads the catalog) | vector and keyword search, rank fusion, embedding with retries | catalog, embedding provider |
| Start-up: `main.py`, `services/skills/registry.py`, `connectors/seed.py` | `skills`, `connectors` | choose a vault, seed | embedding provider |
| Tenants: `services/tenant/`, `services/keycloak_admin.py`, `api/routes/tenants.py` | `tenants`, `tenant_memberships`, accounts at Keycloak | register, slug resolution, workspace creation, development seed | rate limiter, Keycloak |
| Rate limiter: `api/dependencies/rate_limit.py` | Redis sorted set, per-process deques | admit or refuse a sign-up | Redis |
| docx skill: `skills/builtins/docx/` | a Word package, an open session on a copy | tracked changes, comments, save with validation | run in the sandbox by skill executions |
| pptx skill: `skills/builtins/pptx/` | a deck | rearrange, inventory, replace texts | run in the sandbox by skill executions |

The SSRF guard, the connection test, the read-only routes, configuration, the
pages of the console and the infrastructure files keep no state of the service;
the pdf and xlsx skills are one-shot conversions.

What each component must get right, and where it is hard to test:

- **Web sessions.** A session is opened once, with a limit that never moves; a
  revoked one is never live again; the stored refresh token is the one Keycloak
  accepts; the console never presents a token it rotated out (Keycloak would end
  the family); logging out reaches Keycloak; nobody waits for a row lock for
  good. Hard: several tabs refresh at once, Keycloak rotates before the database
  knows, a request's copy of a row is older than the row.
- **Console.** A page acts in the session its CSRF token was given for. Hard:
  the tabs share cookies that change under them, answers arrive in any order.
- **JWT verification.** A published key is accepted, a withdrawn one ages out.
  Hard: fetches overlap, and the older answer may overwrite the newer.
- **Spec catalog.** One row per document and source, embedded once, whoever
  races; a binding never dangles and its hash is the hash of its row; a row
  somebody uses is not collected, one nobody uses is; a created connection
  leaves `pending`. Hard: tenants share rows without knowing of each other, the
  lookup locks nothing, the ORM writes back only changed attributes, locks are
  taken in data-dependent order.
- **Vault.** A committed connection that was given credentials has them. Hard:
  a vault call and a commit are two systems; all coroutines share one token.
- **Documents and requests.** What is sent is what the hit said. Hard: indexing
  and execution load the document at different times and in different ways.
- **Execution.** What an agent was told is in the audit log; what the log holds
  is counted; the log never names a connection that is gone. Hard: the counter
  commits separately, connections are deleted during upstream calls, sandbox
  and storage raise at awaits.
- **Files.** Listed files have their object, stored objects are listed, and a
  URL leads to the file of its own run. Hard: object storage knows no rollback,
  runs share a sandbox and scripts outlive their calls.
- **MCP server, API keys.** A call runs with the key it presented, and within
  its scope; a cached summary ages out. Hard: context variables and tasks, a
  cache filled after two awaits.
- **Search.** Fusion respects the agreement of its channels; vectors stay with
  their texts through batches and retries.
- **Start-up, tenants.** Two starters or two sign-ups race and both end well.
- **Rate limiter.** At most 20 sign-ups per window and counter.
- **docx, pptx.** Any order of legal edits can be saved; ids stay unique over
  sessions; a deck ends in the order asked for, and no accepted text overflows
  more than before.

`PROJECT.json` lists the hazards with the lines where they bite and the
properties that cover them.

## 2. Modules

| Module | Models | Checked in | Proofs |
|---|---|---|---|
| `WebSession` | sessions, requests, Keycloak families | `MCWebSession`, `MCLive` | `WebSessionProofs` |
| `SessionLifecycle` | what a session is to its user: the abstract specification | `MCWebSession` | `WebSessionProofs` |
| `SpecCatalog` | connections, catalog rows, indexing transactions | `MCSpecCatalog`, `MCLive` | `SpecCatalogProofs` |
| `SharedCatalog` | the catalog without transactions: the abstract specification | `MCSpecCatalog` | `SpecCatalogProofs` |
| `Execution` | execute calls, audit log, usage, artifacts, deletions | `MCExecution` | `ExecutionProofs` |
| `Jwks` | the cache of signing keys | `MCServices` | `IdentityProofs` |
| `Vault` | token, secrets, connections' transactions | `MCServices` | `ServicesProofs` |
| `RateLimit` | sorted set, deques, sign-ups | `MCServices` | `ServicesProofs` |
| `Tenants` | registration, workspaces, development seed | `MCServices` | `IdentityProofs` |
| `Startup` | seeds of connectors and skills | `MCServices` | `ServicesProofs` |
| `Search` | rank fusion over the catalog | `MCServices` | `ServicesProofs` |
| `Embedding` | batches and retries | `MCServices` | `ServicesProofs` |
| `Dispatch` | from a document to a request | `MCServices` | `ServicesProofs` |
| `McpServer` | API keys, MCP requests, summary cache | `MCSurfaces` | `McpServerProofs` |
| `Console` | tabs, cookie jar, session routes | `MCSurfaces` | `SurfacesProofs` |
| `Artifacts` | sandbox, object storage, signed URLs | `MCSurfaces` | `SurfacesProofs` |
| `Redlines` | tracked changes of a Word document | `MCSurfaces` | `SkillsProofs` |
| `Comments` | comments of a Word package | `MCSurfaces` | `SurfacesProofs` |
| `Slides` | rearranging and refilling a deck | `MCSurfaces` | `SkillsProofs` |

`MCServices`, `MCSurfaces` and `MCLive` instantiate components that share no
state with each other. A variable `part` chooses in the initial state which of
them runs; the others stay in one initial state. Such a run is the union of the
state graphs of its parts, never their product.

How components meet: `Execution` is what `McpServer` calls `calling`; the
refresh behind a request of `Console` is `WebSession`; `Vault` has the
transactions of `SpecCatalog` that create and delete connections; `Dispatch`
says what a chunk of `SpecCatalog` and a call of `Execution` hold; `Artifacts`
has what happens to a file before and after its row in `Execution`.

Definitions that bear the comment *Mutant* are not part of a specification.
Each is a plausible bug in the definition that follows it; replacing the
definition by it violates the property named with it in `PROJECT.json`.

### WebSession

`row[s]` is the committed `web_sessions` row of a cookie, `kc[s]` the token
family at Keycloak, `req[q]` a request: where it stands (`pc`), its cookie, and
`copy`, the ORM object of `lookup` that lives in the session's identity map
until the request ends. Between two `pc` values lies an await; a step is what
the code does between two awaits, so any two requests interleave at every
statement. A row is locked (`Holds`) from `SELECT FOR UPDATE` or an uncommitted
`UPDATE` until `COMMIT`; `Free` is the guard of the statements that wait.

A request that uses its session is `Use, [Lock, (RefreshOk, Persist |
RefreshRejected, RevokeRejected | RefreshFails)], Touch, EndRequest | BodyError`.
Logout is `Logout, RevokeLogout, KcLogout`; logout-all is `LogoutAll,
SelectAll, KcLogoutOne*, RevokeAll`. `DeleteExpired` is the cleanup script;
`DropKey` a deployment that drops the Fernet key; `Restart` ends all requests.

Refresh tokens are numbered within their family; a row stores the number.
Keycloak is external: it rotates on every refresh, ends a family whose old
token comes back, and ends it at logout with any of its tokens (the model gives
it no other behaviour than the realm the docstrings describe). The clock counts
abstract units, `Skew` is the 60-second margin and `Grace` the purge's delay.
Access tokens, claims, IP and user agent are left out: no decision reads them.

`SessionLifecycle` has three variables: the clock, the place of each session in
its life (`unborn`, `live`, `revoked`, `gone`) and its absolute limit. It knows
no requests, locks, tokens or failures. `WebSession` implements it under
`LifeOf` and `LimitOf` (property `ImplementsLifecycle`): a revoked session never
comes back, the limit never moves, only an ended session is forgotten, and all of
a user's sessions may be revoked at once.

### SpecCatalog

`catalog` is the set of committed spec rows (an id is the unique key and a
generation), `conn` the committed connections, `jobs` the scheduled background
tasks, `tx[w]` the transaction of a worker with `snap`, the connection as the
ORM loaded it. A transaction is `fetch, lookup, [insert, embed,] bind, finish,
[deleting]`; `Blockers` are PostgreSQL's lock waits: row locks of an update,
the uncommitted entry of a unique index, the share lock of a foreign-key check
and the lock of a delete. `DeadlockAbort` is PostgreSQL's detector. `Indexed`
writes an attribute only if it differs from `snap`, as the unit of work does.
Chunks, texts and vectors belong to their row and are not modelled apart.

`SharedCatalog` has four variables, the rows and each connection's status, binding
and hash, and one step for an indexing request that succeeds, `Reindex`: it finds
the row of its document or adds it, binds its connection and may drop the row it
leaves. `SpecCatalog` maps `catalog` and the columns of `conn` to them
(`Shared`). `SharedCatalog` does not promise that the dropped row was bound by nobody
else, or that it is not the row just found: findings 2 and 3. That no identity has two rows
and that no binding dangles follow from it.

### Execution

`log`, `counted`, `blob` are the audit log, the usage counter (as the set of
calls it counted) and the object storage; `sent` is history. A call goes
`prepare, send, [collect,] bump, commit`, with `answer` before `commit` on REST
(FastAPI runs the exit of `get_db` after the response is sent) and with the
commit on MCP (`session_scope` closes before the tool returns). `drop` and
`unlink` are the two-step deletions of connections and files.

### Services

`Vault`: a call is a list of HTTP requests `todo`, each `headers`, `[login,
closing,] sent`, with `relogin` after the first 401; then `commit`. `secrets`
and `folders` are Infisical's; `row` the connection's row. `token` is read and
replaced by all coroutines between their awaits.

`Jwks`: a verification is `fetch, served`, then `accepted`, `refused` or
`unavailable`; a fresh cache answers within a step. `published` and `retiredAt`
are Keycloak's. The answer is dated by the time read before the fetch.

`RateLimit`: `redis` is the sorted set, which the script reads and changes at
once with the time the request read before its await; `recent` the deque of
each process. `admitted` is history and names the counter that admitted.

`Tenants`: `located, registered` for an account; `probe, flush, membership,
commit` for a workspace. The uncommitted tenant of a request blocks an insert
of its slug (`Insertable`); a conflict rolls back and starts over once.

`Startup`: `vault, connectors, insert, skills, embed, serving`; `loaded` is what
the ORM read, and `Updated` writes a column only if it differs from it.

`Search`: the query carries the orders in which the two channels rank the
chunks, as inputs; `RowNumber` counts the visible ones, as `ROW_NUMBER` does,
`Channel` cuts at the limit, and `Score` is a fraction, so that ties are exact.
`Embedding`: a text stands for its vector; `EmbedBatch` is a batch with its
successful attempt, `AttemptFails` one without.

`Dispatch`: `IndexAndSearch` turns the document into operations and picks a
chunk (the list of operations is a function of where the document declares them,
`Where`, in the order `Precedes`), `Execute` loads it again, finds the operation and builds the request,
and `Reissue` replaces the document in between. A path is a sequence of
literals and placeholders; a generated id is the run of its words, as joining
slugs by underscores makes different paths equal.

### Surfaces

`McpServer`: a request is `authenticated`, then `list` or `execute`;
`mcpSession` keeps the caller in whose context the SDK runs the tools of a
client's session, which is the one of the request that opened it. A summary is
counted, read and stored in three steps, with awaits in between.

`Console`: `jar` holds the cookies of the browser, `tab` each tab with its CSRF
token and the response on its way to it. A request is decided with the cookies
it was sent with; `Receive` applies the response later, in any order.

`Artifacts`: `disk` is the shared sandbox, `object` the storage, `issued` the
URLs. A run whose call raised is `stray`: its script may go on writing.

`Redlines`: a run of text carries the `w:ins` and `w:del` elements around it,
outermost first. Every edit of `document.py` is an action; `SaveTracked` is the
validation of a save. What the validators and `revert_deletion` pick out of a list
is `Selected` by its positions. `Comments`: a package is its parts, relationships, content
types, comments and the markers in `document.xml`, in order.
`Slides`: the three passes of `rearrange.py` step by step; then `Replace`, with
the inventory computed as `inventory.py` does. Positions are in quarter inches,
a text is the number of lines it takes.

## 3. Runs and bounds

| Run | Instance | Distinct states | Shows |
|---|---|---|---|
| `SessionTabs` | 1 cookie, 2 requests, 4 time units, every fault | 128k | `TypeOK`, `IdleWithinAbsolute`, `RotationPersisted`, `LogoutAllKillsKeycloak`, `ImplementsLifecycle` |
| `SessionRefreshRace` | 1 cookie, 2 requests, no fault | violation | finding 1 |
| `CatalogRace` | 2 connections of one URL, 2 documents, 2 workers, background indexing, uploads, deletes, crashes | 333k | `TypeOK`, `EmbedOnce`, `NoDanglingSpec`, `HashMatchesBinding`, `ImplementsCatalog` |
| `CatalogSerial` | 2 connections of one URL and 1 bare, 2 documents, reindexes and uploads, 1 worker | 504k | `NoOrphan`, `GcSparesOthers` |
| `CatalogReuse` | 1 connection, 1 document, 1 worker | violation | finding 2 |
| `CatalogGcRace` | 2 connections, 2 documents, 2 workers | violation | finding 3 |
| `Live` | sessions: 1 cookie, 2 requests, 2 time units, failing bodies; catalog: 1 connection, 1 document, 2 workers, overlapping requests, deletes; fair | 21k | `RevokedDiesAtKeycloak`, `RequestsEnd`, `PendingSettles`, `IndexingEnds` |
| `ExecAudit` | 2 calls, 2 connections, both surfaces, all modes, every fault but a broken counter | 247k | `TypeOK`, `LoggedIsCounted`, `OutcomeIsLogged`, `LogNamesLive` |
| `ExecFiles` | 2 calls, 1 connection, failing storage, sandbox and counter | 10k | `ListedHasObject`, `ObjectIsListed` |
| `ExecUnlogged` | 1 call, 1 connection | violation | finding 4 |
| `Services` | the eight services, see below | 721k | one or two properties each, ten in all |
| `Surfaces` | the six surfaces, see below | 729k | one or two properties each, eight in all |

Why the bounds are enough. Every race in these components is between two
transactions over one row, one unique key, one token or one cache, so two actors
show it; a third adds waiting, not a new order (`Tenants` and `RateLimit` take
three: a slug can be lost twice, and a budget of two must be exceeded). Two
documents are what "the upstream changed" needs, and two connections what sharing
needs. With lifetimes 2, 3 and 2, margin 1 and a clock up to 4, a session is
refreshed, slides its idle deadline into the absolute limit, expires and is
purged.

Bounds on counters: `MaxTime`, `MaxClock`, `MaxNow` and `EndOfTime` cap the
clocks; `Gens` caps how many rows one key may have over time (an id is reused
only when nothing mentions it); every call of `Execution` is made once;
`MaxLogins`, `MaxExpiries`, `MaxFlips`, `MaxStarts`, `MaxRuns` and `MaxChanges`
cap what the environment does; `MaxEdits`, `MaxComments`, `MaxSessions` and
`MaxSequence` the length of an editing session. `Faults`, `Requests` and
`Overlap` select the environment of a run: where a property needs a quiet
environment, the run says so and a violation run shows the other case.

The instances of `Services`: a token that expires while two callers of two
connections use it, with crashes, lost answers, failing logins and refused
commits; two verifications of two keys, time to live 2; three sign-ups under a
budget of two in a window of three, one change of Redis and one restart; three
creators with two slugs; three versions of which the last restores the first
one's text, so that an update leaves a column out; three chunks of two specs
under three connections; up to seven texts in batches of three; documents of
one and two path items whose generated ids clash in some. Of `Surfaces`: two
keys of one tenant with scopes `all` and one connection, a list of one line, a
cache of one entry; two tabs, two sessions, two login attempts; two runs of
one skill with files under and over the size limit; documents with another
author's insertions, deletions and both nested; packages without comments, with
comments, and from an old writer; a deck of three slides with groups, pictures,
equal heights and a slide number. A time to live of 0 in `Surfaces` is the
30 seconds of the summary measured in a clock whose unit is longer than that.

All runs set `CHECK_DEADLOCK FALSE`, because the instances really stop: every
connection deleted, every call made, the clock at its bound. That nobody waits
for good is checked as liveness instead (`RequestsEnd`, `IndexingEnds`). Runs
with liveness use no symmetry.

What the properties of the larger runs say:

- `RowHasCredentials`: a committed connection that was given credentials has
  them in the vault until a deletion of it is begun.
- `PublishedKeyAccepted`, `RetiredKeyAgesOut`: no token is refused for a key
  that was published throughout; no withdrawn key outlives the cache.
- `SignupsBounded`: any span that fits in the window sees at most the budget
  from one counter, less the age of a clock reading at Redis.
- `OwnedFromBirth`: a workspace and its owner appear together.
- `SeedsComplete`, `SkillRowWhole`: a process that lost a race finds all rows;
  no row mixes the hash of one version with the text of another.
- `FusionRespectsAgreement`, `VectorsAligned`, `HitDispatches`: see the comments
  there.
- `RunsAsItsKey`, `SummaryAgesOut`: who a tool call runs as; how stale a summary
  may be (its time to live and the time its own load took).
- `ActsInOwnSession`: a page acts only in the session its token belongs to.
- `DownloadsItsRun`: a URL leads to the file of its run, in time.
- `TrackedEditsValidate`, `CommentsHangTogether`: edits never make a document
  that cannot be saved, over any number of sessions.
- `RearrangedInOrder`, `AcceptedNeverWorse`: the deck is what the sequence said;
  no accepted text overflows more than before.

## 4. Fairness

- *The event loop runs what is ready*: weak fairness of `Handle(q)`, of
  `Step(w)` and of the start of background tasks.
- *PostgreSQL serves the waiters of a lock in the order they queued*: a
  statement that waits is granted the lock although others take and release it
  in the meantime. This is strong fairness of the steps that wait
  (`Acquire(q)`; every `Step(w)`).
- Nothing is assumed of clients, of the clock, of Keycloak's expiry or of
  crashes. `Live` takes a process that stays up: the background task
  lives in the process, and a connection whose task died with it stays pending.
- The sessions of `Live` have no fault that answers for Keycloak: with
  `kc_down` the best-effort logout may fail, as its comment says.

## 5. What is proved

The proofs hold for every number of connections, documents, workers, cookies,
requests, calls, keys, sign-ups, processes, tabs, runs and rows, every lifetime,
limit and set of faults, from the assumption each module names on its constants:
`CatalogAssumption`, `SessionAssumption`, `ExecutionAssumption`,
`JwksAssumption`, `TenantAssumption`, `VaultAssumption`, `RateAssumption`,
`StartupAssumption`, `EmbeddingAssumption`, `SearchAssumption`, `McpAssumption`,
`ConsoleAssumption`, `ArtifactsAssumption`, `CommentsAssumption`,
`PackagesAssumption` and `DispatchAssumption`. They give the types of the
constants, say that `None`, `Nil`, `NoKeys` and `NoCaller` are none of the
values, and beyond that: `IdleTTL <= AbsTTL`; a cache, a batch and a number of
attempts are positive; a clock reading is no older than the window; connections
have distinct creation times; the path items of a document have distinct paths, as
keys of a dictionary, and a connection has one of the flows of `AuthFlow`; a package to begin with is well-formed
(`WellFormed`: it passes the validation of a save, every comment has its range
and reference and no range or reference belongs to none). TLC evaluates all of them on the instances.

Where a property is false in some environment, its theorem has the hypothesis
that excludes it, and only that; the hypothesis is the setting of the run that
checks the property, and a finding or a remark in section 7 shows the other case.

| Theorem | Hypothesis | Without it |
|---|---|---|
| `HashMatchesBindingAlways`, `CatalogRefined` | the requests of one connection do not overlap (`~Overlap`) | two reindexes of one connection write hash and binding from different copies |
| `GcSparesOthersAlone` | one worker (`Serial`) | finding 3 |
| `NoOrphanAlone` | one worker, no deletion of connections | section 7 |
| `LogoutAllKillsKeycloakAlways` | one cookie (`OneCookie`) | section 7 |
| `LoggedIsCountedAlways` | the counter can be written | its failure is ignored |
| `ListedHasObjectAlways` | no process dies | it dies between object and row |
| `ObjectIsListedAlways` | no process dies, no commit is refused | the upload comes before the row |

**`SpecCatalogProofs`**: `TypeCorrect`, `IdentityUniqueAlways`,
`EmbedOnceAlways` and `NoDanglingSpecAlways`. Uniqueness is not inductive: a worker that has passed the
unique-key check holds an uncommitted row, and nothing in the committed state
says so. The inductive invariant therefore adds that the uncommitted rows of
any two workers have different keys, that no uncommitted row's key is in the
catalog, and what each `pc` implies of `target` and `fresh`. The insert step
preserves it because `Blockers` makes an insert wait for an uncommitted entry of
the same key; a commit preserves it because the key it publishes was nobody's.
That no connection is bound to a deleted row needs `BindInv`: a worker that has
passed the foreign-key check holds a share of its row until it ends, the row
exists for that long, and no other worker is deleting it (`ShareInv`); a worker
deletes at most the row its connection was loaded with (`GcInv`). The check waits
for a delete under way and a delete for the shares, each by a disjunct of
`Blockers`; without either the proof fails.
`HashMatchesBindingAlways` needs `RowInv`: the unit of work writes a column only
where it differs from the loaded copy, so the binding and the hash of a commit are
right only if the copy is still the row. `Apart` says that no two workers have
one connection, and `RowOf` that what the copy and the row disagree about is at
most a binding that a deletion cleared.
`GcSparesOthersAlone` says of the row a worker has decided to collect that no other
connection is bound to it, from the SELECT that decided to the commit that deletes
(`GcAlone`); with a second worker that is what breaks. `NoOrphanAlone` adds
`SerialInv`, that the copy's binding is the row's and that a worker that collects
nothing has seen another connection on the row it leaves.
`CatalogRefined` is the refinement of `SharedCatalog`, where an indexing request
that succeeds is one step. The map is the identity on what is committed, so a step
that commits nothing maps to a stutter, the commit of a transaction to `Reindex` or
`Report`, and a creation or deletion to `Open` or `Close`. A commit writes what differs from
the row as it was loaded, and the abstract step starts from the row as it is.
`MapInv` closes the gap: the row a transaction was loaded with is still its
connection's unless it was collected (`KnownRow`), a collected row does not come back
under its id (`FreshApart`), and a connection without a document of its own has
exactly the one it was given (`BareOf`, `BareConns`).

**`WebSessionProofs`**: `TypeCorrect`, `IdleWithinAbsoluteAlways`,
`RevocationStickyAlways`, `RotationPersistedAlways` and `LifecycleRefined`, from
`Inductive`. `IdleWithinAbsolute` is not inductive: `touch` computes the deadline from the request's copy, and the row is
written at the end of the request. `Shape` adds that the limit a request
remembers is the row's for as long as the row is stored; this holds because
only the login that owns an absent row writes a limit (`OneStore`). The proof
has one lemma per action; `SetsKeeps`, `RequestsStay` and `RestartStep` carry
what the steps have in common. `RevocationSticky` is an action property: with
the invariant, the only step that clears a revocation time is the purge, since
`Create` writes to a row that was absent and so never revoked.
`RotationPersisted` needs `RotInv` on top: two requests never hold the lock of one
row (`Exclusive`), and the token a request is about to store is the family's
current one (`InHand`). Another rotation of the family would need the lock of the
request that has not stored its own yet; a crash between the two is what `lost`
records.
`LifecycleRefined` is the refinement of `SessionLifecycle`: initial states map to
initial states, and each action maps to `Begin`, `Revoke`, `Forget`, `PassTime`
or a stutter. A write-back of an old copy could revive a session or move its
limit; the invariant says that no step writes either.
`LogoutAllKillsKeycloakAlways` is an invariant about the end of a handler whose
effects come before it: `Told` says that the family of every readable, unrevoked
row which is not on the request's list any more is ended or out of reach, and
`Decrypts` that a row which a request could read at its lookup is still
readable. What others do in between never wakes a family (`FamiliesCalm`)
and never adds a row (`RowsCalm`); the second holds because a login of the one
cookie finds no other request under way.

**`ExecutionProofs`**, from `ExecutionAssumption`: `TypeCorrect`;
`OutcomeIsLoggedAlways` and `LogNamesLiveAlways` under every set of faults;
`LoggedIsCountedAlways` where the counter can be written (`"usage_down"` not
among the faults) and `ListedHasObjectAlways` without crashes. The two
assumptions are needed: the bump's failure is ignored, and a process that dies
between the object and the row leaves a listed file without an object.
`AuditInv` adds what the `pc` of a call implies (`Phase`: no reply before the
commit on MCP, a complete row from the counting on, no log entry before the
end) and that a deletion has loaded only executions that were in the log
(`Loaded`). `LogNamesLive` is kept by a commit because the foreign key refuses
it when the connection is gone, and by a deletion because the rows it did not
load are detached. `Counted` and `Kept` carry the next two.
`ObjectIsListedAlways` has `FileInv`, call by call: an object that is not listed
belongs to a call between its upload and its commit, whose row names the file; the
deletion of a file forgets the row when the object is gone; and the deletion of a
connection loads no row with a file, since a skill run has no connection.

**`IdentityProofs`**, two services that share no state.
`PublishedKeyAcceptedAlways` and `RetiredKeyAgesOutAlways`,
from `JwksInductive`. Both properties speak of requests that have ended, so the
inductive invariant speaks of what they end with: `CacheDated` says that every
key in the cache was served no earlier than the cache is dated, `Sound` the same
of an answer on its way, and that such an answer holds the request's key if the
key was published throughout. A `Store` keeps it because the answer is dated by
the start of its fetch, a `Retire` because nothing is dated later than now.
`OwnedFromBirthAlways` and `SlugUniqueAlways`, from
`TenantInductive`. `Reserved` says of requests between their INSERT and their
COMMIT that no tenant has their slug and no two of them the same, which is what
a commit needs to publish a slug that is its own; the INSERT establishes it
because it waits for such a request and then looks at the index. `Owned` says that
the request of a tenant has ended, so that neither a retry nor a crash undoes it,
and that its membership is there.

**`McpServerProofs`**: `RunsAsItsKeyAlways` and `SummaryAgesOutAlways`. Who a tool
runs as is decided by two caches that outlive a request: the context of the
client's session and the summary of a tenant and scope. `McpInv` says that a
session's context is the key that opened it, and that what an entry lists is
allowed to every key with the entry's id (`GoodEntry`), so that sharing an entry
between keys gives none of them more. `SummaryAgesOut` is an action property. Its
invariant `AgeInv` gives each entry of the cache and each load on its way what it
was right about: it is what the database says now, or a connection of that id has
changed since the load began (`Recent`). `OneEntry`, that the cache is a
dictionary, survives the removal, the append and the eviction of `Stored`; with
it the entry that is served is the one that was stored last.

**`ServicesProofs`**, six services that share no state.
`SeedsCompleteAlways` and `SkillRowWholeAlways` from `SeedInv`: processes that seed
at the same time have one version (`OneVersion`, which is how deployments are
modelled), a transaction inserts all connectors or none, and between a process's
SELECT and its writes only this version wrote (`SkillsLoaded`), so that a column it
leaves out, because its copy has the value already, has it in the row as well.
`RowHasCredentialsAlways` from `VaultInv`: the write of the secret is the last
request of a creation (`AsksInOrder`), the creation commits only after it
(`HasStored`), and only a deletion takes a secret away, which it can begin only
for a committed row (`HasRow`); what the shared token does to the headers in
between does not matter to it.
`VectorsAlignedAlways` from `EmbeddingInv`: what has a vector and what was billed are
the texts before the start of the next batch.
`SignupsBoundedAlways` from `RateInv`: a sliding window is bounded if every admission
that still matters is remembered where it was admitted. In Redis that is an entry
whose score may lag by the delay (`RedisRemembers`). A deque may hold equal
times, so it is an injection of the young admissions into its indices
(`DequeRemembers`); a restart forgets the deque and begins a new counter.
`FusionRespectsAgreementAlways`: `RowNumberGrows`, that a row visible before another
has the smaller number; `FirstHasMore`, that a channel which lists the other one
lists it too and gives it more; `LargerSum`, the comparison of the sums of
fractions by cross-multiplication; and the two clauses of `Answers`.
`HitDispatchesAlways` from `DispatchInv`: what was sent was prepared for the document
and the hit of now, and the hit is a chunk of a document with distinct paths. An id
declared once finds the operation the chunk was made from (`HitFound`), the paths
being keys means that no other path item adds to what is asked of it
(`AskedOfOperation`), and the credential is merged last (`OverOf`).

**`SurfacesProofs`**: `ActsInOwnSessionAlways` from `ConsoleInv`: every response
sets both cookies of a session, clears both or leaves both (`Paired`), so whatever
the order of the responses the jar never mixes two sessions, and a token that
passes the middleware is the token of the jar's session.
`DownloadsItsRunAlways` from `ArtifactsInv`: a working directory is written by its own
execution alone, including scripts that outlive their call, so what is read,
uploaded, listed and signed for an execution is its own and passed the size check.
`CommentsHangTogetherAlways` from `CommentsInv`, which says of the package on disk and
of the session's what `WellFormed` says of the first, that the ids of a session's
comments and markers are below its counter, and that all parts of its package are
related or will be by the save (`WillBeReferenced`, unless the package on disk is
`Legacy`). That one marker comes in after a position and two after a later one
(`Inserted`) moves the markers that are there without changing their order or their
number (`AnchorsStay`), and gives the new comment its own (`AnchorIsNew`).
`NextRidIsFree` and `NextCommentIdIsFree` need the largest of finitely many numbers;
`ListsBounded` has it by taking the shortest list without a bound.

**`SkillsProofs`**, on decks from `SlidesAssumption` and `TemplatesAssumption` (a
slide's pictures are among its image relationships). `RearrangedInOrderAlways` from
`SlidesInv`, which has a clause for each pass over the same statement `Placed`: the
entries of the map lead to slides that show what the sequence asked for, no two to
one. While slides are duplicated, the copies made and not given out are as many
as the slide is still wanted (`CopiesOf`), all apart (`CopiesApart`) and no entry's yet
(`CopiesUnused`), and an original serves the first time its slide is wanted
(`Served`); so the script never runs out of copies and never gives out the original
twice. While slides are deleted, every slide behind the pass is wanted; at its
end the map is a bijection, hence as many slides as wanted (`AsManySlides`). While
they are moved, the positions before the pass are settled, so what is moved comes
from behind it. `StillPlaced` carries `Placed` through the renumbering of both. That a
copy shows what its source shows (`CopyShows`) needs that each image has one
relationship of the copy: `EarlierNumbers` counts the images in use before it, by
the minimum of its uses.
`AcceptedNeverWorseAlways`: a shape in the inventory is compared under its number,
one in none keeps its text; nothing has to be known of how the shapes are sorted.
On Word documents from `OriginalsAssumption` (a document is paragraphs of runs, and
deleted text is in a `w:del`, in one only, as Word writes it):
`TrackedEditsValidateAlways` from `TextKept`. While every edit was tracked and no
insertion with a deletion in it rejected, the marks of deleted text are right
(`GoodDoc`) and the text without the session's changes is that of the original. An
edit keeps it in one of two ways: run by run, since a run counts after it as it
did before (`RunByRunKeeps`: rejected insertions and deletions, by `RunWrapped` and
`RunDeletedOnce`), or because the runs and paragraphs that come in do not count
(`InsertedRuns`, `InsertedParagraphs`: restored, inserted and new text, by
`RunCopied` and `NewRunInserted`). Both compare texts by position: what is picked
from two lists along an order-preserving map is the same (`SameSelected`, from
`Ranked`), so texts of any length need no induction. The assumption on deletions is
needed: in text that is deleted twice, `revert_deletion` of the inner `w:del`
restores a run inside the outer one, which the validator refuses.

## 6. What is only model-checked

- Liveness under fairness and `ENABLED` are outside the prover's reach, and stay
  with TLC: `RevokedDiesAtKeycloak`, `RequestsEnd`, `PendingSettles`,
  `IndexingEnds`.
- Induction over data is outside its reach as well; no module proved about
  declares a recursive operator, and where a sequence is filtered the proofs
  compare positions. Every safety property of a passing run has a theorem.
- The theorems with a hypothesis (section 5) say nothing where it fails; of the
  other environments there are the runs that expect a violation.

## 7. Findings

1. `SessionRefreshRace`: the loser of a refresh race does not re-read the row.
   `SELECT FOR UPDATE` without `populate_existing` returns the object of the
   identity map with its old attributes; the old refresh token goes to Keycloak,
   and the session is revoked as `refresh_reuse`.
2. `CatalogReuse`: reindexing an unchanged document deletes the row it reuses
   when no other connection is bound to it, and leaves the connection ready
   without a spec.
3. `CatalogGcRace`: a row is collected under a connection that binds to it after
   the reference check.
4. `ExecUnlogged`: a code-mode call whose sandbox client raises leaves no row.

Where a passing run is quiet, that is on purpose; what happens otherwise:

- `LogoutAllKillsKeycloak` is checked and proved for one cookie. With two, a login that
  commits between the SELECT and the UPDATE of logout-all is revoked locally and
  stays alive at Keycloak. Exempt are rows whose token no key decrypts, and
  families whose logout Keycloak did not answer (`end = "unreached"`):
  `kc_logout` is best effort.
- `NoSpuriousRevocation` is finding 1. Where requests do not overlap it follows
  from `RotationPersisted`.
- `NoOrphan` is checked and proved for one worker. Two overlapping reindexes of a
  connection leave a row that nobody collects, and deleting the last connection
  of a row leaves it as well: the catalog is a cache across tenants.
- `LoggedIsCounted` is checked while the counter can be written; its failures
  are logged and ignored. `ObjectIsListed` is checked without crashes and
  refused commits: the upload comes before the row.
- `Execution` has no property that the log is kept: `session.delete` cascades
  to the executions of the connection.

What the models show besides, with no document to hold it against:

- Vault: two concurrent callers get by with one retry; with three, a call can
  meet two tokens that others dropped.
- MCP: `RunsAsItsKey` takes a client to use one key in its session, since the
  tools of a session run in the context of the request that opened it. `search`
  is not filtered by the scope of a key, and its join ignores the status of a
  connection although a comment (`mcp/server.py:143-145`) says that only ready
  ones are searched. Skill mode checks no scope.
- Tenants and start-up: a registration may answer 502 after the account was
  created; two versions that seed at the same time can tear a skill row, so
  `Startup` takes deployments one after the other; the hash of a skill ignores
  the embedding model.
- Dispatch: an execution loads the live document without the stored upload, so a
  connection indexed from an upload is searchable and not executable; ambiguous
  generated ids run the first operation; parameters on a path item of a Swagger 2
  document are copied unconverted; the wizard probes the connector's default host
  (`services/connection_test.py:88-97`) where an execution uses the connection's.
- Console: two tabs that start a login share one state cookie, and the first
  callback that fails clears it for both; a sign-out with a stale CSRF token is
  refused while the page shows signed out; the tenant of a request is whichever
  membership comes first, since the console names none.
- Artifacts: `list_files` reduces `total` only by the rows dropped on its page.
- Redlines: rejecting an insertion that holds someone's deletion makes a document
  the validator refuses (`redlining.py:240-243`); `TrackedEditsValidate` excepts
  it by `nested`.
- Comments: for a package with `comments.xml` alone the companion parts are
  written but never related, and the save is refused (`document.py:1203-1210`).
- Slides: charts and links of a copied slide are not remapped; a shape whose
  text was cleared leaves the second inventory, so the comparison of overflows
  may pair different shapes (`AcceptedNeverWorse` excepts it).

## 8. Plan

Done: the modules of section 2, and the proofs of section 5. What would come
next is the Azure backend of object storage and the expiry of its blobs.

## 9. Not modelled

- Cryptography (Fernet, PBKDF2, JWT signatures), parsing of OpenAPI documents
  beyond their structure, texts of operations and embeddings, measured text
  sizes of slides.
- `services/ssrf.py` and `services/connection_test.py`: stateless checks.
- Read-only routes (`executions`, `usage`, `me`, `connectors`): queries.
- The pdf and xlsx skills, thumbnails, packing and XML schema validation:
  conversions of one file without steps that could interleave. The pptx skill's
  copies of the validators repeat the docx skill's, which `Redlines` and
  `Comments` model.
- The pages of the console, migrations, provisioning scripts and deployment.

PostgreSQL, SQLAlchemy's unit of work, FastAPI's dependency exit, Keycloak,
Infisical, Redis, the MCP SDK and the browser are modelled from how the code uses
them and marked external in `PROJECT.json`.
