------------------------------ MODULE MCServices ------------------------------
(* The services behind the API, on one small instance each.  They share no   *)
(* state with each other, so a behaviour is a behaviour of one of them: the   *)
(* others stay in one of their initial states.                               *)
EXTENDS Vault, Jwks, RateLimit, Tenants, Startup, Search, Embedding, Dispatch, TLC

CONSTANTS r1, r2, x, y, v1, v2, k1, k2,          \* Vault, Jwks
          s1, s2, s3, w1, n1, n2, n3, u, acme, dev, p1, p2,  \* RateLimit, Tenants, Startup
          o1, o2, o3, c1, c2, c3                 \* Search

VARIABLE part

serviceVars == <<vaultVars, jwksVars, rateVars, tenantVars, startVars, searchVars,
                 embeddingVars, dispatchVars>>

-----------------------------------------------------------------------------
(* Startup: version 2 adds a skill and rewrites the text, version 3 restores  *)
(* the text.                                                                  *)
Folders == <<{"docx"}, {"docx", "pdf"}, {"docx", "pdf"}>>
Overviews == <<"old", "new", "old">>

-----------------------------------------------------------------------------
(* Search: two connections of one tenant share a spec, a third has another.   *)
SpecOfChunk == [o \in Chunks |-> IF o = o3 THEN "s2" ELSE "s1"]
Bindings == [c \in Linked |->
               [tenant |-> "t",
                connector |-> CASE c = c1 -> "github" [] c = c2 -> "slack" [] c = c3 -> "gitlab",
                spec |-> IF c = c2 THEN "s2" ELSE "s1"]]
CreatedInOrder == [c \in Linked |-> CASE c = c1 -> 1 [] c = c2 -> 2 [] c = c3 -> 3]

-----------------------------------------------------------------------------
(* Dispatch: documents of one or two path items, whose generated ids clash in  *)
(* some, with parameters on the item, the operation and the body.              *)
Literal(n) == [name |-> n, placeholder |-> FALSE]
Slot(n) == [name |-> n, placeholder |-> TRUE]
Page == [name |-> "page", loc |-> "query", required |-> TRUE]
BodyParam == [name |-> "pet", loc |-> "body", required |-> TRUE]
AlnumRuns == [n \in {"pets", "id", "by-id"} |-> IF n = "by-id" THEN <<"by", "id">> ELSE <<n>>]

Op(id, ps, body) == [id |-> id, params |-> ps, body |-> body]
Ops == {Op(None, {}, "none"), Op(<<"show">>, {Page}, "none"), Op(None, {BodyParam}, "none"),
        Op(None, {}, "required")}
Item(path, ps, methods, op) == [path |-> path, params |-> ps, ops |-> [m \in methods |-> op]]
ById == <<Literal("pets"), Slot("id")>>
ByIdLiteral == <<Literal("pets"), Literal("by-id")>>

OneItem == {<<Item(ById, ps, ms, op)>> : ps \in {{}, {Page}}, ms \in {{"get"}, {"get", "post"}}, op \in Ops}
TwoItems == {<<Item(ById, {}, {"get"}, o), Item(ByIdLiteral, {Page}, {"get"}, p)>> : o, p \in Ops}
Invalid == [format |-> "unknown", server |-> None, items |-> <<>>]
SomeDocuments ==
  {Invalid} \cup {[format |-> "openapi-3", server |-> None, items |-> it] : it \in OneItem \cup TwoItems}
  \cup {[format |-> "swagger-2", server |-> "server", items |-> it] :
          it \in {t \in OneItem : DOMAIN t[1].ops = {"get"}}}
SomeReissues == {Invalid} \cup {d \in SomeDocuments : Len(d.items) = 2 /\ d.items[1].ops["get"].id = None}

Setting(key, base, flow, header, url) ==
  [key |-> key, base |-> base, flow |-> flow, header |-> header, specUrl |-> url, upload |-> None]
SomeSettings ==
  {Setting("github", None, "bearer", None, FALSE),
   Setting("gitlab", "own", "api_key_header", "PRIVATE-TOKEN", FALSE),
   Setting("jira", "own", "basic", None, FALSE),
   Setting("linear", None, "oauth_authcode", None, TRUE),
   Setting("kubernetes", None, "bearer", None, TRUE),
   Setting("kubernetes", "own", "none", None, TRUE),
   Setting(None, None, "api_key_query", None, TRUE)}

FromCaller(names) == [n \in names |-> "caller"]
SomeParams ==
  {[path |-> p, query |-> q, headers |-> FromCaller({"Authorization", "PRIVATE-TOKEN", "Accept"}), body |-> b] :
     p \in {{}, {"id"}}, q \in {<<>>, FromCaller({"page"}), FromCaller({"page", "api_key"})}, b \in BOOLEAN}

-----------------------------------------------------------------------------
Parts == {"vault", "jwks", "rate", "tenants", "start", "search", "embedding", "dispatch"}

\* One initial state for the parts that stay.
Of(name, pinned) == part = name \/ pinned

Init ==
  /\ part \in Parts
  /\ VaultInit     /\ Of("vault", token = Nil)
  /\ JwksInit      /\ Of("jwks", published = {} /\ \A v \in Verifiers : ver[v].kid = k1)
  /\ RateInit      /\ Of("rate", reachable)
  /\ TenantInit    /\ Of("tenants", accounts = {})
  /\ StartInit
  /\ EmbeddingInit /\ Of("embedding", texts = <<>>)
  /\ IF part = "dispatch" THEN DispatchInit
     ELSE live = Invalid /\ conn = Setting("github", None, "bearer", None, FALSE)
          /\ indexed = None /\ hit = None /\ sent = NoSend
  /\ IF part = "search" THEN SearchInit ELSE query = NoFilter /\ hits = <<>> /\ reply = NoReply

Next ==
  /\ UNCHANGED part
  /\ \/ part = "vault" /\ VaultNext
       /\ UNCHANGED <<jwksVars, rateVars, tenantVars, startVars, searchVars, embeddingVars, dispatchVars>>
     \/ part = "jwks" /\ JwksNext
       /\ UNCHANGED <<vaultVars, rateVars, tenantVars, startVars, searchVars, embeddingVars, dispatchVars>>
     \/ part = "rate" /\ RateNext
       /\ UNCHANGED <<vaultVars, jwksVars, tenantVars, startVars, searchVars, embeddingVars, dispatchVars>>
     \/ part = "tenants" /\ TenantNext
       /\ UNCHANGED <<vaultVars, jwksVars, rateVars, startVars, searchVars, embeddingVars, dispatchVars>>
     \/ part = "start" /\ StartNext
       /\ UNCHANGED <<vaultVars, jwksVars, rateVars, tenantVars, searchVars, embeddingVars, dispatchVars>>
     \/ part = "search" /\ SearchNext
       /\ UNCHANGED <<vaultVars, jwksVars, rateVars, tenantVars, startVars, embeddingVars, dispatchVars>>
     \/ part = "embedding" /\ EmbeddingNext
       /\ UNCHANGED <<vaultVars, jwksVars, rateVars, tenantVars, startVars, searchVars, dispatchVars>>
     \/ part = "dispatch" /\ DispatchNext
       /\ UNCHANGED <<vaultVars, jwksVars, rateVars, tenantVars, startVars, searchVars, embeddingVars>>

Spec == Init /\ [][Next]_<<serviceVars, part>>

Symmetric == Permutations(Callers) \cup Permutations(VConns) \cup Permutations(Verifiers)

=============================================================================
