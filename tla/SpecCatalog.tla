----------------------------- MODULE SpecCatalog -----------------------------
(***************************************************************************)
(* The cross-tenant catalog of indexed OpenAPI specs and the connections   *)
(* bound to it.  Every indexing request -- the background reindex that     *)
(* follows create_connection, POST /reindex and POST /spec -- is one       *)
(* database transaction run by a worker:                                   *)
(*                                                                         *)
(*   get_connection -> fetch -> SELECT by identity -> [INSERT -> embed]    *)
(*     -> bind spec_id -> SELECT references -> [DELETE orphan] -> COMMIT   *)
(*                                                                         *)
(* PostgreSQL is taken at READ COMMITTED: a statement sees what is         *)
(* committed when it starts, writers of one row, inserters of one unique   *)
(* key and a deleter against a foreign-key check wait for one another.     *)
(* The ORM writes back only the attributes that differ from the values it  *)
(* loaded, which is why a transaction carries its "snap".                  *)
(***************************************************************************)

CONSTANTS Conns,      \* connection ids
          Hashes,     \* sha-256 of the spec documents a source may serve
          Gens,       \* tells apart the rows one identity has over time
          Workers,    \* request handlers and background tasks in flight
          None,       \* SQL NULL
          Mode,       \* [Conns -> Modes], connections.mode
          SourceKey,  \* [Conns -> key], connector key or normalized spec URL
          Requests,   \* what clients send once a connection exists
          Overlap     \* TRUE iff one connection may be indexed twice at once

Modes == {"builtin", "openapi_url", "openapi_upload", "bare_url"}
Kinds == {"background", "request", "upload"}

VARIABLES catalog,  \* ids of the committed connector_specs rows
          conn,     \* committed connections rows
          jobs,     \* background reindexes scheduled and not yet started
          tx        \* the transaction each worker runs

vars == <<catalog, conn, jobs, tx>>

(* The unique key of a catalog row; the embedding space is fixed by the    *)
(* deployment's settings.  An upload is keyed on its own bytes.            *)
Identity(c, h) ==
  IF Mode[c] = "openapi_upload" THEN <<"openapi_upload", h, h>>
                                ELSE <<Mode[c], SourceKey[c], h>>

Identities == { Identity(c, h) : c \in Conns, h \in Hashes }

(* Row ids are UUIDs; as a row's identity never changes, an id is modelled *)
(* as the identity with a number no earlier row in use has.                *)
SpecIds == Identities \X Gens

ASSUME CatalogAssumption ==
  /\ Mode \in [Conns -> Modes]
  /\ DOMAIN SourceKey = Conns
  /\ Requests \subseteq {"request", "upload", "delete"}
  /\ Overlap \in BOOLEAN
  /\ None \notin SpecIds \cup Hashes \cup Conns

Status == {"absent", "pending", "indexing", "ready", "error", "deleted"}

ConnRow == [status : Status,
            specId : SpecIds \cup {None},
            hash   : Hashes \cup {None},
            blob   : Hashes \cup {None}]

Active == {"fetch", "settle", "lookup", "insert", "embed", "bind", "finish",
           "deleting", "record"}

Tx == [pc     : Active \cup {"idle"},
       kind   : Kinds,
       conn   : Conns \cup {None},
       snap   : ConnRow,
       doc    : Hashes \cup {None},
       target : SpecIds \cup {None},
       fresh  : BOOLEAN,
       gc     : SpecIds \cup {None},
       result : {"ready", "error"}]

Unbound(s) == [status |-> s, specId |-> None, hash |-> None, blob |-> None]

IdleTx == [pc |-> "idle", kind |-> "request", conn |-> None,
           snap |-> Unbound("absent"), doc |-> None, target |-> None,
           fresh |-> FALSE, gc |-> None, result |-> "error"]

Live(c)  == conn[c].status \notin {"absent", "deleted"}
Busy(w)  == tx[w].pc # "idle"
Key(w)   == Identity(tx[w].conn, tx[w].doc)
Exists(s) == s \in catalog
KeyOf(s) == s[1]

(* What the transaction of w has locked or written without committing.     *)
HoldsRow(w) == tx[w].pc \in {"insert", "embed", "bind", "finish", "deleting"}
\* Mutant: the INSERT is only flushed with the chunks, after embedding.
InsertedLate(w) == HoldsRow(w) /\ tx[w].fresh /\ tx[w].pc # "embed"

Inserted(w) == HoldsRow(w) /\ tx[w].fresh
Rebinds(w)  == tx[w].target # tx[w].snap.specId
ChecksFK(w) == Rebinds(w) /\ ~tx[w].fresh
HoldsShare(w, s) == /\ tx[w].pc \in {"finish", "deleting"}
                    /\ tx[w].snap.specId # None
                    /\ ChecksFK(w)
                    /\ tx[w].target = s
Deleting(w, s) == tx[w].pc = "deleting" /\ tx[w].gc = s

(* The transactions the next statement of w has to wait for.               *)
Blockers(w) ==
  { v \in Workers \ {w} :
      \/ /\ tx[w].pc \in {"lookup", "settle", "record"}
         /\ HoldsRow(v)
         /\ tx[v].conn = tx[w].conn
      \/ /\ tx[w].pc = "insert"
         /\ \/ Inserted(v) /\ Key(v) = Key(w)
            \/ tx[v].pc = "deleting" /\ KeyOf(tx[v].gc) = Key(w)
      \/ /\ \/ tx[w].pc = "bind" /\ tx[w].snap.specId # None
            \/ tx[w].pc = "finish" /\ tx[w].snap.specId = None
         /\ ChecksFK(w)
         /\ Deleting(v, tx[w].target)
      \/ /\ tx[w].pc = "finish"
         /\ tx[w].gc # None
         /\ HoldsShare(v, tx[w].gc) \/ Deleting(v, tx[w].gc)
      \/ /\ tx[w].pc = "deleting"
         /\ HoldsRow(v)
         /\ conn[tx[v].conn].specId = tx[w].gc }

Runs(w, pc) == tx[w].pc = pc /\ Blockers(w) = {}
Goto(w, pc) == tx' = [tx EXCEPT ![w].pc = pc]
End(w)      == tx' = [tx EXCEPT ![w] = IdleTx]

\* Mutants: the failure is not recorded; the session is never closed.
RollbackSilently(w) == End(w)
RollbackHangs(w) == UNCHANGED tx

(* An exception rolls the transaction back.  reindex_in_new_session then   *)
(* records the failure in a second session; a route only answers 500.      *)
Rollback(w) ==
  IF tx[w].kind = "background"
  THEN tx' = [tx EXCEPT ![w] = [IdleTx EXCEPT !.pc = "record",
                                              !.kind = "background",
                                              !.conn = tx[w].conn]]
  ELSE End(w)

-----------------------------------------------------------------------------

Init == /\ catalog = {}
        /\ conn = [c \in Conns |-> Unbound("absent")]
        /\ jobs = {}
        /\ tx = [w \in Workers |-> IdleTx]

CreateConnection(c) ==
  /\ conn[c].status = "absent"
  /\ conn' = [conn EXCEPT ![c] = Unbound("pending")]
  /\ jobs' = IF Mode[c] = "openapi_upload" THEN jobs ELSE jobs \cup {c}
  /\ UNCHANGED <<catalog, tx>>

(* The row's DELETE waits for an indexing transaction holding the row; the *)
(* catalog row it was bound to is left where it is.                        *)
DeleteConnection(c) ==
  /\ "delete" \in Requests
  /\ Live(c)
  /\ \A w \in Workers : ~(HoldsRow(w) /\ tx[w].conn = c)
  /\ conn' = [conn EXCEPT ![c] = Unbound("deleted")]
  /\ UNCHANGED <<catalog, jobs, tx>>

(* get_connection: the row as committed now is what the ORM compares with. *)
Begin(w, c, kind, pc, doc) ==
  /\ ~Busy(w)
  /\ Live(c)
  /\ Overlap \/ \A v \in Workers : ~(Busy(v) /\ tx[v].conn = c)
  /\ tx' = [tx EXCEPT ![w] = [IdleTx EXCEPT !.pc = pc, !.kind = kind, !.conn = c,
                                            !.snap = conn[c], !.doc = doc]]

StartJob(w, c) == /\ c \in jobs
                  /\ Begin(w, c, "background", "fetch", None)
                  /\ jobs' = jobs \ {c}
                  /\ UNCHANGED <<catalog, conn>>

(* The connection is gone when its background task starts.                 *)
DropJob(c) == /\ c \in jobs
              /\ ~Live(c)
              /\ jobs' = jobs \ {c}
              /\ UNCHANGED <<catalog, conn, tx>>

RequestReindex(w, c) == /\ "request" \in Requests
                        /\ Begin(w, c, "request", "fetch", None)
                        /\ UNCHANGED <<catalog, conn, jobs>>

(* POST /spec: the uploaded bytes either parse or the row goes to error.   *)
UploadSpec(w, c) == /\ "upload" \in Requests
                    /\ \/ \E h \in Hashes : Begin(w, c, "upload", "lookup", h)
                       \/ Begin(w, c, "upload", "settle", None)
                    /\ UNCHANGED <<catalog, conn, jobs>>

(* Where the document comes from: a builtin and a URL are downloaded, and  *)
(* may serve a new version or fail; a stored upload wins over a URL.       *)
UsesBlob(w) == /\ Mode[tx[w].conn] # "builtin"
               /\ tx[w].snap.blob # None
Downloads(w) == /\ ~UsesBlob(w)
                /\ Mode[tx[w].conn] \in {"builtin", "openapi_url"}

FetchSpec(w, h) ==
  /\ Runs(w, "fetch")
  /\ Downloads(w) \/ (UsesBlob(w) /\ h = tx[w].snap.blob)
  /\ tx' = [tx EXCEPT ![w] = [@ EXCEPT !.pc = "lookup", !.doc = h]]
  /\ UNCHANGED <<catalog, conn, jobs>>

(* A failed download or an invalid document settles as an error; bytes     *)
(* that do not even decode raise out of the transaction.                   *)
FetchFails(w) == /\ Runs(w, "fetch")
                 /\ Downloads(w)
                 /\ Goto(w, "settle") \/ Rollback(w)
                 /\ UNCHANGED <<catalog, conn, jobs>>

(* No spec source: right for a bare URL, an error for every other mode.    *)
NoSpec(w) ==
  /\ Runs(w, "fetch")
  /\ ~Downloads(w) /\ ~UsesBlob(w)
  /\ tx' = [tx EXCEPT ![w] =
             [@ EXCEPT !.pc = "settle",
                       !.result = IF Mode[tx[w].conn] = "bare_url"
                                  THEN "ready" ELSE "error"]]
  /\ UNCHANGED <<catalog, conn, jobs>>

(* COMMIT of a request that indexes nothing: the new status is written if  *)
(* it differs from the loaded one, the binding is left alone.              *)
Settle(w) ==
  LET c == tx[w].conn IN
  /\ Runs(w, "settle")
  /\ IF Live(c)
     THEN /\ conn' = IF tx[w].result = tx[w].snap.status THEN conn
                     ELSE [conn EXCEPT ![c].status = tx[w].result]
          /\ End(w)
     ELSE Rollback(w) /\ UNCHANGED conn
  /\ UNCHANGED <<catalog, jobs>>

(* The rows the SELECT by identity returns: at most one.                   *)
\* Mutant: spec_hash is left out of the WHERE.
HitsOfSource(w) == { s \in catalog : KeyOf(s)[1] = Key(w)[1] }
Hits(w) == { s \in catalog : KeyOf(s) = Key(w) }

\* Mutant: "indexing" is committed, for others to see the progress.
LookupCommits(w) ==
  /\ Runs(w, "lookup")
  /\ Live(tx[w].conn)
  /\ tx' = [tx EXCEPT ![w].pc = "insert"]
  /\ conn' = [conn EXCEPT ![tx[w].conn].status = "indexing"]
  /\ UNCHANGED <<catalog, jobs>>

(* The SELECT by identity, preceded by the autoflushed UPDATE of status to *)
(* "indexing", which locks the connection's row (or finds it deleted).     *)
Lookup(w) ==
  /\ Runs(w, "lookup")
  /\ \/ /\ ~Live(tx[w].conn)
        /\ Rollback(w)
     \/ /\ Live(tx[w].conn)
        /\ \E s \in Hits(w) :
              tx' = [tx EXCEPT ![w] = [@ EXCEPT !.pc = "bind", !.target = s,
                                                !.snap.status = "indexing"]]
     \/ /\ Live(tx[w].conn)
        /\ Hits(w) = {}
        /\ tx' = [tx EXCEPT ![w] = [@ EXCEPT !.pc = "insert",
                                             !.snap.status = "indexing"]]
  /\ UNCHANGED <<catalog, conn, jobs>>

Mentioned(s) == \E w \in Workers : s \in {tx[w].snap.specId, tx[w].target}

(* INSERT of the new row under the unique constraint; the id is a new UUID.*)
InsertRow(w) ==
  LET free == { g \in Gens : LET s == <<Key(w), g>> IN
                                ~Exists(s) /\ ~Mentioned(s) } IN
  /\ Runs(w, "insert")
  /\ \/ /\ \E s \in catalog : KeyOf(s) = Key(w)
        /\ Rollback(w)
     \/ /\ \A s \in catalog : KeyOf(s) # Key(w)
        /\ free # {}
        /\ tx' = [tx EXCEPT ![w] =
                  [@ EXCEPT !.pc = "embed", !.fresh = TRUE,
                            !.target = <<Key(w), CHOOSE g \in free : TRUE>>]]
  /\ UNCHANGED <<catalog, conn, jobs>>

Embed(w) == /\ Runs(w, "embed")
            /\ Goto(w, "bind")
            /\ UNCHANGED <<catalog, conn, jobs>>

EmbedFails(w) == /\ Runs(w, "embed")
                 /\ Rollback(w)
                 /\ UNCHANGED <<catalog, conn, jobs>>

\* Mutant: the references of other connections are not looked up.
ReferencedNever(s, c) == FALSE

(* _gc_orphan: the SELECT of other connections flushes the new spec_id and *)
(* with it the foreign-key check; the row of the previous spec is marked   *)
(* for deletion if no other committed connection refers to it.             *)
Referenced(s, c) == \E d \in Conns \ {c} : conn[d].specId = s

\* Mutant: the previous spec_id is read after the connection is rebound.
OrphanOfTarget(w) == IF Exists(tx[w].target) THEN tx[w].target ELSE None

Orphan(w) ==
  LET prev == tx[w].snap.specId IN
  IF Referenced(prev, tx[w].conn) \/ ~Exists(prev) THEN None ELSE prev

Bind(w) ==
  /\ Runs(w, "bind")
  /\ IF tx[w].snap.specId = None THEN Goto(w, "finish")
     ELSE IF ChecksFK(w) /\ ~Exists(tx[w].target) THEN Rollback(w)
     ELSE tx' = [tx EXCEPT ![w] = [@ EXCEPT !.pc = "finish", !.gc = Orphan(w)]]
  /\ UNCHANGED <<catalog, conn, jobs>>

(* What the flush of w writes to its connection: only what changed.        *)
Indexed(w) ==
  LET r == conn[tx[w].conn]  t == tx[w] IN
  [status |-> "ready",
   specId |-> IF Rebinds(w) THEN t.target ELSE r.specId,
   hash   |-> IF t.doc # t.snap.hash THEN t.doc ELSE r.hash,
   blob   |-> IF t.kind = "upload" /\ t.doc # t.snap.blob THEN t.doc
                                                          ELSE r.blob]

\* Mutant: the identity is stored where the row id belongs.
PublishKey(w) == catalog \cup (IF tx[w].fresh THEN {Key(w)} ELSE {})

Publish(w) == catalog \cup (IF tx[w].fresh THEN {tx[w].target} ELSE {})

(* COMMIT with no orphan to delete.                                        *)
Commit(w) ==
  /\ Runs(w, "finish")
  /\ tx[w].gc = None
  /\ IF tx[w].snap.specId = None /\ ChecksFK(w) /\ ~Exists(tx[w].target)
     THEN Rollback(w) /\ UNCHANGED <<catalog, conn>>
     ELSE /\ catalog' = Publish(w)
          /\ conn' = [conn EXCEPT ![tx[w].conn] = Indexed(w)]
          /\ End(w)
  /\ UNCHANGED jobs

(* DELETE of the orphan; a row that is already gone is not an error.       *)
DeleteOrphan(w) ==
  /\ Runs(w, "finish")
  /\ tx[w].gc # None
  /\ tx' = IF Exists(tx[w].gc) THEN [tx EXCEPT ![w].pc = "deleting"]
                               ELSE [tx EXCEPT ![w].gc = None]
  /\ UNCHANGED <<catalog, conn, jobs>>

\* Mutant: the foreign key without ON DELETE SET NULL.
CommitDeleteOnly(w) ==
  /\ Runs(w, "deleting")
  /\ catalog' = Publish(w) \ {tx[w].gc}
  /\ conn' = [conn EXCEPT ![tx[w].conn] = Indexed(w)]
  /\ End(w)
  /\ UNCHANGED jobs

(* ON DELETE SET NULL on every connection that refers to the row by now,   *)
(* then COMMIT.                                                            *)
CommitDelete(w) ==
  LET rows == [conn EXCEPT ![tx[w].conn] = Indexed(w)] IN
  /\ Runs(w, "deleting")
  /\ catalog' = Publish(w) \ {tx[w].gc}
  /\ conn' = [c \in Conns |-> IF rows[c].specId = tx[w].gc
                              THEN [rows[c] EXCEPT !.specId = None]
                              ELSE rows[c]]
  /\ End(w)
  /\ UNCHANGED jobs

(* The second session of a failed background reindex.                      *)
RecordFailure(w) ==
  LET c == tx[w].conn IN
  /\ Runs(w, "record")
  /\ conn' = IF Live(c) THEN [conn EXCEPT ![c].status = "error"] ELSE conn
  /\ End(w)
  /\ UNCHANGED <<catalog, jobs>>

(* The database aborts one transaction of a cycle of waiting ones.         *)
Cycle(S) == S # {} /\ \A w \in S : Blockers(w) \cap S # {}
DeadlockVictim(w) == \E S \in SUBSET Workers :
                        /\ w \in S /\ Cycle(S)
                        /\ \A T \in SUBSET S : Cycle(T) => T = S

DeadlockAbort(w) == /\ DeadlockVictim(w)
                    /\ Rollback(w)
                    /\ UNCHANGED <<catalog, conn, jobs>>

(* A process crash loses every open transaction and scheduled task.        *)
Crash == /\ jobs # {} \/ \E w \in Workers : Busy(w)
         /\ jobs' = {}
         /\ tx' = [w \in Workers |-> IdleTx]
         /\ UNCHANGED <<catalog, conn>>

Step(w) == \/ \E h \in Hashes : FetchSpec(w, h)
           \/ FetchFails(w)
           \/ NoSpec(w)
           \/ Settle(w)
           \/ Lookup(w)
           \/ InsertRow(w)
           \/ Embed(w)
           \/ EmbedFails(w)
           \/ Bind(w)
           \/ Commit(w)
           \/ DeleteOrphan(w)
           \/ CommitDelete(w)
           \/ RecordFailure(w)
           \/ DeadlockAbort(w)

Client == \E c \in Conns :
            \/ CreateConnection(c)
            \/ DeleteConnection(c)
            \/ \E w \in Workers : RequestReindex(w, c) \/ UploadSpec(w, c)

Schedule == \E c \in Conns : DropJob(c) \/ \E w \in Workers : StartJob(w, c)

Work == Client \/ Schedule \/ \E w \in Workers : Step(w)

Next == Work \/ Crash

Spec == Init /\ [][Next]_vars

(* While the process stays up, a scheduled task starts, a request proceeds *)
(* and a lock is granted in the order it was asked for.                    *)
Fairness == /\ \A w \in Workers : SF_vars(Step(w))
            /\ \A c \in Conns : /\ WF_vars(DropJob(c))
                               /\ SF_vars(\E w \in Workers : StartJob(w, c))

-----------------------------------------------------------------------------

TypeOK == /\ catalog \subseteq SpecIds
          /\ conn \in [Conns -> ConnRow]
          /\ jobs \subseteq Conns
          /\ tx \in [Workers -> Tx]

\* The catalog never holds two rows with one identity, whatever indexing
\* requests race: index_spec looks the identity up before it inserts, but
\* nothing is locked between the two statements.
IdentityUnique ==
  \A s, t \in catalog : KeyOf(s) = KeyOf(t) => s = t

\* An identity is embedded by at most one transaction at a time and never
\* while its row is in the catalog: index_spec flushes the INSERT before it
\* pays for the embeddings, so a second indexer of the same document stops
\* at the unique key and not after embedding.
EmbedOnce ==
  \A w \in Workers : tx[w].pc = "embed" =>
     /\ \A s \in catalog : KeyOf(s) # Key(w)
     /\ \A v \in Workers \ {w} : tx[v].fresh => Key(v) # Key(w)

\* A connection never points at a row that a racing garbage collection
\* removed: what search joins through spec_id is there.
NoDanglingSpec == \A c \in Conns : conn[c].specId # None => Exists(conn[c].specId)

\* The hash stored on a connection is the hash of the spec it is bound to;
\* the ORM writes the two columns independently of each other.
HashMatchesBinding ==
  \A c \in Conns : conn[c].specId # None =>
     KeyOf(conn[c].specId) = Identity(c, conn[c].hash)

\* With one request at a time the catalog holds exactly the rows some
\* connection is bound to: a reindex that moves its connection away collects
\* the row it leaves behind, a failed one adds nothing.
NoOrphan == \A s \in catalog : \E c \in Conns : conn[c].specId = s

\* Garbage collection takes no row from another connection: the rows a step
\* removes were bound at most by the connection it indexes.
GcSparesOthers ==
  [][\A s \in catalog \ catalog' : \A c \in Conns :
        conn[c].specId = s => \E w \in Workers : tx[w].conn = c /\ Deleting(w, s)]_vars

\* The row an unchanged document was found under is reused, not dropped, by
\* the transaction that found it.
ReuseKeepsRow ==
  [][\A w \in Workers : tx[w].pc = "deleting" /\ ~Rebinds(w) /\ ~Busy(w)' =>
        tx[w].target \in catalog']_vars

Shared == INSTANCE SharedCatalog
          WITH Conns <- Conns, Hashes <- Hashes, Rows <- SpecIds, None <- None,
               DocKey <- [c \in Conns |-> [h \in Hashes |-> Identity(c, h)]],
               Bare <- { c \in Conns : Mode[c] = "bare_url" },
               rows <- catalog,
               status <- [c \in Conns |-> conn[c].status],
               bound <- [c \in Conns |-> conn[c].specId],
               hash <- [c \in Conns |-> conn[c].hash]

\* While a connection is indexed by one request at a time, every transaction
\* takes effect as one step of the catalog without transactions: what its
\* statements read before others committed, and the few columns the ORM writes
\* back, add up to an indexing of the rows as they are at its COMMIT
\* (pipeline.py: index_spec, _gc_orphan; connections.py: reindex_connection).
ImplementsCatalog == Shared!CatalogSpec

\* A created connection does not stay "pending": its background reindex
\* ends in "ready" or in a recorded "error", also when it loses a race.
PendingSettles == \A c \in Conns :
  conn[c].status = "pending" /\ c \in jobs ~> conn[c].status # "pending"

\* Every indexing transaction ends, although it may wait for up to four
\* locks and different transactions take them in different orders.
IndexingEnds == \A w \in Workers : Busy(w) ~> ~Busy(w)

=============================================================================
