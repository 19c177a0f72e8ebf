-------------------------------- MODULE MCLive --------------------------------
(* Liveness of the sessions and of the catalog under the fairness of the       *)
(* event loop and of PostgreSQL, on one small instance each.  The two share    *)
(* no state, so a behaviour is a behaviour of one of them.                     *)
CONSTANTS s1, q1, q2, c1, h1, w1, w2,
          Sids, Reqs, None, IdleTTL, AbsTTL, AccessTTL, Skew, Grace, MaxTime, Faults,
          Conns, Hashes, Gens, Workers, Mode, SourceKey, Requests, Overlap

VARIABLES now, row, kc, req,          \* WebSession
          catalog, conn, jobs, tx,    \* SpecCatalog
          part

Sessions == INSTANCE WebSession

Catalog == INSTANCE SpecCatalog

\* One tenant's connection to a URL.
AllUrl == [c \in Conns |-> "openapi_url"]
OneKey == [c \in Conns |-> "url"]

liveVars == <<now, row, kc, req, catalog, conn, jobs, tx, part>>

Init == part \in {"sessions", "catalog"} /\ Sessions!Init /\ Catalog!Init

Next ==
  /\ UNCHANGED part
  /\ \/ part = "sessions" /\ Sessions!Next /\ UNCHANGED <<catalog, conn, jobs, tx>>
     \/ part = "catalog" /\ Catalog!Work /\ UNCHANGED <<now, row, kc, req>>

LiveSpec == Init /\ [][Next]_liveVars /\ Sessions!Fairness /\ Catalog!Fairness

(* A revoked session's refresh token ends up useless at Keycloak: logout      *)
(* revokes the row first and tells Keycloak afterwards.                       *)
RevokedDiesAtKeycloak == Sessions!RevokedDiesAtKeycloak

(* No request waits for a row lock or for another request for good, though    *)
(* the UPDATE of touch holds the row for the whole route body.                *)
RequestsEnd == Sessions!RequestsEnd

(* A created connection does not stay "pending": its background reindex ends  *)
(* in "ready" or in a recorded "error", also when it loses a race             *)
(* (kick_off_reindex, _record_failure).                                       *)
PendingSettles == Catalog!PendingSettles

(* Every indexing transaction ends, although it may wait for up to four locks *)
(* and different transactions take them in different orders.                  *)
IndexingEnds == Catalog!IndexingEnds

=============================================================================
