---------------------------- MODULE SharedCatalog ----------------------------
(***************************************************************************)
(* What the spec catalog promises a reader who knows nothing of the        *)
(* transactions, locks and background tasks that keep it: an indexing      *)
(* request that succeeds is one step.  It finds the row of its document or *)
(* adds it, binds its connection to that row, and may drop the row it      *)
(* leaves, with every binding to it.  Nothing else adds, drops or binds a  *)
(* row; a request that does not succeed changes a status at most.          *)
(*                                                                         *)
(* It does not promise that a row dropped was bound by nobody else, nor    *)
(* that it is not the row just found: the code promises neither.           *)
(***************************************************************************)

CONSTANTS Conns,   \* connections
          Hashes,  \* documents
          Rows,    \* rows, each a pair of its identity and a number
          None,    \* SQL NULL
          DocKey,  \* [Conns -> [Hashes -> identity]]
          Bare     \* the connections that have no document of their own

VARIABLES rows,    \* the rows of the catalog
          status,  \* of each connection
          bound,   \* the row each connection is bound to
          hash     \* the document each connection was last indexed with

catalogVars == <<rows, status, bound, hash>>

CatalogInit == /\ rows = {}
               /\ status = [c \in Conns |-> "absent"]
               /\ bound = [c \in Conns |-> None]
               /\ hash = [c \in Conns |-> None]

InUse(c) == status[c] \notin {"absent", "deleted"}

Becomes(c, s) == /\ status' = [status EXCEPT ![c] = s]
                 /\ bound' = [bound EXCEPT ![c] = None]
                 /\ hash' = [hash EXCEPT ![c] = None]
                 /\ UNCHANGED rows

Open(c) == status[c] = "absent" /\ Becomes(c, "pending")

\* The row a deleted connection was bound to stays.
Close(c) == InUse(c) /\ Becomes(c, "deleted")

\* A request that indexed nothing.  Only a connection that has no document,
\* and was never given one, is ready all the same.
Report(c, r) == /\ InUse(c)
                /\ r = "error" \/ (r = "ready" /\ c \in Bare /\ hash[c] = None)
                /\ status' = [status EXCEPT ![c] = r]
                /\ UNCHANGED <<rows, bound, hash>>

\* The row s of document h is in the catalog, or no row of its identity is.
Finds(c, h, s) == /\ s[1] = DocKey[c][h]
                  /\ s \in rows \/ \A t \in rows : t[1] # s[1]

Reindex(c, h, s, dropped) ==
  LET bindings == [bound EXCEPT ![c] = s] IN
  /\ InUse(c)
  /\ Finds(c, h, s)
  /\ dropped \subseteq {bound[c]}
  /\ rows' = (rows \cup {s}) \ dropped
  /\ bound' = [d \in Conns |-> IF bindings[d] \in dropped THEN None ELSE bindings[d]]
  /\ hash' = [hash EXCEPT ![c] = h]
  /\ status' = [status EXCEPT ![c] = "ready"]

CatalogNext ==
  \E c \in Conns : \/ Open(c)
                   \/ Close(c)
                   \/ \E r \in {"ready", "error"} : Report(c, r)
                   \/ \E h \in Hashes, s \in Rows, dropped \in SUBSET {bound[c]} :
                         Reindex(c, h, s, dropped)

CatalogSpec == CatalogInit /\ [][CatalogNext]_catalogVars

=============================================================================
