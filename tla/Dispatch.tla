-------------------------------- MODULE Dispatch --------------------------------
(***************************************************************************)
(* From an OpenAPI document to the request an execution sends.  Indexing     *)
(* turns the document into operations and chunks (services/ingestion: fetcher,*)
(* enricher, chunker); an execution loads the document again, finds the       *)
(* operation by its id, fills in the caller's parameters and adds the          *)
(* credential (services/execute: operation, runner; connectors; auth/          *)
(* strategies).                                                              *)
(***************************************************************************)
EXTENDS Naturals, Sequences, FiniteSets, SequencesExt

CONSTANTS
  Documents,    \* documents the spec URL may serve
  Reissues,     \* those it may serve after the connection was indexed
  Settings,     \* connections as the wizard submits them
  CallParams,   \* ExecuteParams of callers
  Words,        \* Words[name]: the alphanumeric runs of a name, in lower case
  None          \* None, an absent key

VARIABLES
  live,     \* the document at the spec URL now
  conn,     \* the connection
  indexed,  \* the document the chunks come from
  hit,      \* the chunk a search returned
  sent      \* the last execution

dispatchVars == <<live, conn, indexed, hit, sent>>

Flows == {"none", "api_key_header", "api_key_query", "bearer", "basic", "oauth_authcode",
          "oauth_clientcred"}

\* A document as it is parsed: its paths are the keys of a dictionary.
Published(doc) ==
  /\ {"format", "server", "items"} \subseteq DOMAIN doc
  /\ \A i \in DOMAIN doc.items : {"path", "params", "ops"} \subseteq DOMAIN doc.items[i]
  /\ \A i, j \in DOMAIN doc.items : doc.items[i].path = doc.items[j].path => i = j

ASSUME DispatchAssumption ==
  /\ \A doc \in Documents \cup Reissues : Published(doc)
  /\ \A c \in Settings : c.flow \in Flows /\ (c.upload # None => Published(c.upload))

NoSend == [outcome |-> "none", doc |-> None]

HttpMethods == <<"get", "post", "put", "patch", "delete", "options", "head">>

-----------------------------------------------------------------------------
(* The document.                                                             *)

\* Swagger 2.0: the body parameter of an operation becomes its requestBody,
\* the other parameters stay; what the path item declares is copied as it is.
UpconvertSwagger2(doc) ==
  LET inBody(op) == {p \in op.params : p.loc = "body"}
      convert(op) ==
        [op EXCEPT !.params = op.params \ inBody(op),
                   !.body = IF inBody(op) = {} THEN op.body
                            ELSE IF \E p \in inBody(op) : p.required THEN "required" ELSE "optional"]
  IN [doc EXCEPT !.items = [i \in DOMAIN doc.items |->
                              [doc.items[i] EXCEPT !.ops = [x \in DOMAIN doc.items[i].ops |->
                                                              convert(doc.items[i].ops[x])]]]]

\* parse_spec_bytes: no document when the bytes are not a valid specification.
Parse(doc) == CASE doc.format = "openapi-3" -> doc
                [] doc.format = "swagger-2" -> UpconvertSwagger2(doc)
                [] OTHER -> None

\* _generate_operation_id: slugs are joined by underscores, so only the run of
\* words counts.
GenerateOperationId(method, path) ==
  <<method>> \o FlattenSeq([i \in DOMAIN path |->
                   IF path[i].placeholder THEN <<"by">> \o Words[path[i].name] ELSE Words[path[i].name]])

\* Where a document declares an operation: which path item, which method.
Where(doc) == {at \in (DOMAIN doc.items) \X (DOMAIN HttpMethods) :
                 HttpMethods[at[2]] \in DOMAIN doc.items[at[1]].ops}

\* The order of the list: by path item, then by the order of HTTP_METHODS.
Precedes(at, other) == at[1] < other[1] \/ (at[1] = other[1] /\ at[2] < other[2])

\* Mutant: the parameters declared on the path item are forgotten.
EnrichedOpOnly(item, method) ==
  LET op == item.ops[method] IN
  [id     |-> IF op.id = None THEN GenerateOperationId(method, item.path) ELSE op.id,
   method |-> method, path |-> item.path, params |-> op.params, body |-> op.body]

\* One operation of a path item.
Enriched(item, method) ==
  LET op == item.ops[method] IN
  [id     |-> IF op.id = None THEN GenerateOperationId(method, item.path) ELSE op.id,
   method |-> method,
   path   |-> item.path,
   params |-> item.params \cup op.params,
   body   |-> op.body]

\* The list of operations, each at its place in the document.
EnrichSpec(doc) == [at \in Where(doc) |-> Enriched(doc.items[at[1]], HttpMethods[at[2]])]

\* What a chunk keeps of an operation, and what identifies it.
ChunkOf(op) == [id |-> op.id, method |-> op.method, path |-> op.path]

Chunked(doc) == {ChunkOf(EnrichSpec(doc)[at]) : at \in Where(doc)}

-----------------------------------------------------------------------------
(* The connectors: registered keys, where their documents and their APIs are. *)

Registered == {"generic", "github", "gitlab", "jenkins", "jira", "kubernetes", "linear",
               "slack", "stripe"}

\* _resolve_connector_and_spec
ConnectorOf(c) == IF c.key \in Registered THEN c.key ELSE "generic"

DefaultBaseUrl(key) == IF key \in {"github", "gitlab", "linear", "slack", "stripe"} THEN key ELSE None

\* fetch_spec_for_connection; withBlob: the configuration carries the upload,
\* which only indexing hands over.
FetchForConnection(c, withBlob) ==
  CASE withBlob /\ c.upload # None -> Parse(c.upload)
    [] ~(withBlob /\ c.upload # None) /\ c.specUrl -> Parse(live)
    [] OTHER -> None

LoadSpec(c, withBlob) ==
  CASE ConnectorOf(c) \in {"github", "gitlab", "jira", "slack", "stripe"} -> Parse(live)
    [] ConnectorOf(c) = "linear" -> IF c.specUrl THEN Parse(live) ELSE None
    [] OTHER -> FetchForConnection(c, withBlob)

\* The first server of the document, if the connector lets it count.
InferBaseUrl(c, spec) ==
  CASE c.base # None -> c.base
    [] c.base = None /\ ConnectorOf(c) \in {"jira", "kubernetes"} -> None
    [] c.base = None /\ ConnectorOf(c) = "gitlab" -> DefaultBaseUrl("gitlab")
    [] OTHER -> IF spec # None /\ spec.server # None THEN spec.server
                ELSE DefaultBaseUrl(ConnectorOf(c))

-----------------------------------------------------------------------------
(* The request.                                                              *)

NoAuth == [headers |-> <<>>, query |-> <<>>, basic |-> FALSE]

\* One strategy for each flow: where the credential goes.
AuthContext(c) ==
  CASE c.flow = "none" -> NoAuth
    [] c.flow = "api_key_header" ->
         [NoAuth EXCEPT !.headers = [h \in {IF c.header = None THEN "X-API-Key" ELSE c.header} |-> "credential"]]
    [] c.flow = "api_key_query" -> [NoAuth EXCEPT !.query = [q \in {"api_key"} |-> "credential"]]
    [] c.flow \in {"bearer", "oauth_authcode", "oauth_clientcred"} ->
         [NoAuth EXCEPT !.headers = [h \in {"Authorization"} |-> "credential"]]
    [] c.flow = "basic" -> [NoAuth EXCEPT !.basic = TRUE]

\* find_operation: the first with the id.
FindOperation(doc, id) ==
  LET found == {at \in Where(doc) : EnrichSpec(doc)[at].id = id}
  IN IF found = {} THEN None
     ELSE EnrichSpec(doc)[CHOOSE at \in found : \A other \in found \ {at} : Precedes(at, other)]

RequiredNames(op, loc) == {p.name : p \in {q \in op.params : q.loc = loc /\ q.required}}

Placeholders(path) == {path[i].name : i \in {j \in DOMAIN path : path[j].placeholder}}

\* _substitute_path
SubstitutePath(path) ==
  [i \in DOMAIN path |-> IF path[i].placeholder THEN <<"value", path[i].name>> ELSE <<"literal", path[i].name>>]

\* build_request refuses what lacks a required query parameter, a required
\* body or a placeholder.
Buildable(op, params) ==
  /\ RequiredNames(op, "query") \subseteq DOMAIN params.query
  /\ op.body = "required" => params.body
  /\ Placeholders(op.path) \subseteq params.path

BuildRequest(op, params) ==
  [method |-> op.method, path |-> SubstitutePath(op.path),
   headers |-> params.headers, query |-> params.query, body |-> params.body]

\* Entries of g override those of f.
Over(f, g) == [x \in DOMAIN f \cup DOMAIN g |-> IF x \in DOMAIN g THEN g[x] ELSE f[x]]

BeforeExecute(key, req) ==
  CASE key = "linear" ->
         [req EXCEPT !.method = "post", !.path = <<<<"literal", "graphql">>>>,
                     !.headers = Over(req.headers, [h \in {"Content-Type"} |-> "json"])]
    [] key = "kubernetes" ->
         [req EXCEPT !.headers = Over([h \in {"Accept"} |-> "json"], req.headers)]
    [] OTHER -> req

MergeAuth(req, auth) ==
  [req EXCEPT !.headers = Over(req.headers, auth.headers), !.query = Over(req.query, auth.query)]

-----------------------------------------------------------------------------
DispatchInit ==
  /\ live \in Documents
  /\ conn \in Settings
  /\ indexed = None /\ hit = None
  /\ sent = NoSend

(* Another version of the document is published at the spec URL.             *)
Reissue == /\ hit # None
           /\ live' \in Reissues
           /\ sent' = NoSend
           /\ UNCHANGED <<conn, indexed, hit>>

(* The connection is indexed, and a search returns one of its chunks.        *)
IndexAndSearch ==
  /\ hit = None
  /\ LoadSpec(conn, TRUE) # None
  /\ indexed' = LoadSpec(conn, TRUE)
  /\ hit' \in Chunked(LoadSpec(conn, TRUE))
  /\ UNCHANGED <<live, conn, sent>>

(* _prepare_execute and the request of execute_structured, for the operation  *)
(* of the hit.                                                               *)
Prepared(params) ==
  LET spec == LoadSpec(conn, FALSE)
      op == FindOperation(spec, hit.id)
      base == InferBaseUrl(conn, spec)
  IN CASE spec = None \/ base = None -> [outcome |-> "not_ready", doc |-> None]
       [] spec # None /\ base # None /\ op = None -> [outcome |-> "operation_not_found", doc |-> spec]
       [] spec # None /\ base # None /\ op # None /\ ~Buildable(op, params) ->
            [outcome |-> "invalid_params", doc |-> spec]
       [] OTHER ->
            [outcome |-> "sent", doc |-> spec, base |-> base, basic |-> AuthContext(conn).basic,
             request |-> MergeAuth(BeforeExecute(ConnectorOf(conn), BuildRequest(op, params)), AuthContext(conn))]

Execute(params) ==
  /\ hit # None
  /\ sent' = Prepared(params)
  /\ UNCHANGED <<live, conn, indexed, hit>>

DispatchNext == Reissue \/ IndexAndSearch \/ \E params \in CallParams : Execute(params)

DispatchSpec == DispatchInit /\ [][DispatchNext]_dispatchVars

-----------------------------------------------------------------------------
Unambiguous(doc, id) == \A at, other \in Where(doc) :
  EnrichSpec(doc)[at].id = id /\ EnrichSpec(doc)[other].id = id => at = other

\* What the document asks of a request to this method and path.
Asked(doc, method, path) ==
  UNION {doc.items[i].params \cup doc.items[i].ops[method].params :
           i \in {j \in DOMAIN doc.items : doc.items[j].path = path /\ method \in DOMAIN doc.items[j].ops}}

(* What is sent is what the search result said: as long as the document has   *)
(* not changed since it was indexed and its ids are unambiguous, the request   *)
(* has the hit's method and its path with every placeholder filled, every      *)
(* query parameter the document requires of that operation, on the path item   *)
(* or on the operation itself, and the connection's credential in place of     *)
(* anything the caller put there (enrich_spec, find_operation, build_request,   *)
(* _merge_auth).  Linear sends everything to its one endpoint.                *)
HitDispatches ==
  sent.outcome = "sent" /\ sent.doc = indexed /\ Unambiguous(indexed, hit.id) =>
    LET r == sent.request  auth == AuthContext(conn) IN
    /\ conn.key # "linear" =>
         /\ r.method = hit.method
         /\ r.path = SubstitutePath(hit.path)
    /\ {p.name : p \in {q \in Asked(indexed, hit.method, hit.path) : q.loc = "query" /\ q.required}}
         \subseteq DOMAIN r.query
    /\ \A h \in DOMAIN auth.headers : r.headers[h] = "credential"
    /\ \A q \in DOMAIN auth.query : r.query[q] = "credential"

=============================================================================
