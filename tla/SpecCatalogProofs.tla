-------------------------- MODULE SpecCatalogProofs --------------------------
(***************************************************************************)
(* Machine-checked proofs about SpecCatalog, for any number of             *)
(* connections, documents and workers.                                     *)
(*                                                                         *)
(* The identity of a row is unique, and embedded once, because a fresh row *)
(* is known to the unique index from its INSERT to the end of its          *)
(* transaction.  Neither property is inductive alone: KeyInv adds that the *)
(* uncommitted rows differ in identity from one another and from the       *)
(* committed ones, and PcInv ties "fresh" to the part of the transaction   *)
(* that holds the row.                                                     *)
(*                                                                         *)
(* What a connection is bound to exists (BindInv); its hash is the hash of *)
(* that row while its requests do not overlap (RowInv).  With one worker   *)
(* no row is taken from another connection (GcAlone) and none is left      *)
(* without one (OrphanInv).                                                *)
(*                                                                         *)
(* While a connection is indexed by one request at a time, the whole is an *)
(* implementation of SharedCatalog, where such a request is one step       *)
(* (MapInv).                                                               *)
(***************************************************************************)
EXTENDS SpecCatalog, TLAPS


\* A busy worker serves a connection; past the SELECT by identity it has a
\* document; what is fresh was inserted under that document's identity and
\* its transaction has not ended.
Shape(t) ==
  /\ t.pc # "idle" => t.conn \in Conns
  /\ t.pc \in {"lookup", "insert", "embed", "bind", "finish", "deleting"}
       => t.doc \in Hashes
  /\ t.pc = "embed" => t.fresh
  /\ t.fresh => /\ t.pc \in {"embed", "bind", "finish", "deleting"}
                /\ t.target \in SpecIds
                /\ KeyOf(t.target) = Identity(t.conn, t.doc)

PcInv == \A w \in Workers : Shape(tx[w])

\* Uncommitted rows differ in identity from each other and from the catalog.
KeyInv ==
  /\ \A w \in Workers : tx[w].fresh =>
       /\ \A s \in catalog : KeyOf(s) # Key(w)
       /\ \A v \in Workers \ {w} : tx[v].fresh => Key(v) # Key(w)
  /\ IdentityUnique

IInv == TypeOK /\ PcInv /\ KeyInv

-----------------------------------------------------------------------------

LEMMA IdentityInSet ==
  ASSUME NEW c \in Conns, NEW h \in Hashes
  PROVE  Identity(c, h) \in Identities
BY DEF Identities

LEMMA IdleTxType == IdleTx \in Tx /\ Shape(IdleTx) /\ ~IdleTx.fresh
BY DEF IdleTx, Tx, Unbound, ConnRow, Status, Kinds, Active, Shape

\* A step that gives one worker a well-formed transaction keeps them all so.
Sets(w) == /\ tx' = [tx EXCEPT ![w] = tx'[w]]
           /\ tx'[w] \in Tx
           /\ Shape(tx'[w])

LEMMA SetsKeeps ==
  ASSUME TypeOK, PcInv, NEW w \in Workers, Sets(w)
  PROVE  tx' \in [Workers -> Tx] /\ PcInv'
BY DEF TypeOK, PcInv, Sets

LEMMA EndSets ==
  ASSUME TypeOK, PcInv, NEW w \in Workers, End(w)
  PROVE  Sets(w)
BY IdleTxType DEF TypeOK, Sets, End

LEMMA RollbackSets ==
  ASSUME TypeOK, PcInv, NEW w \in Workers, Busy(w), Rollback(w)
  PROVE  Sets(w) /\ ~tx'[w].fresh
<1>1. CASE tx[w].kind = "background"
  <2> DEFINE t == [IdleTx EXCEPT !.pc = "record", !.kind = "background",
                                 !.conn = tx[w].conn]
  <2>1. tx' = [tx EXCEPT ![w] = t]
    BY <1>1 DEF Rollback
  <2>2. tx'[w] = t
    BY <2>1 DEF TypeOK
  <2>3. tx[w].conn \in Conns
    BY DEF PcInv, Shape, Busy
  <2>4. t \in Tx /\ Shape(t) /\ ~t.fresh
    BY <2>3 DEF IdleTx, Tx, Shape, Unbound, ConnRow, Status, Kinds, Active
  <2> QED
    BY <2>1, <2>2, <2>4 DEF Sets
<1>2. CASE tx[w].kind # "background"
  BY <1>2, EndSets, IdleTxType DEF Rollback, End, TypeOK
<1> QED
  BY <1>1, <1>2

LEMMA FetchSpecSets ==
  ASSUME TypeOK, PcInv, NEW w \in Workers, NEW h \in Hashes, FetchSpec(w, h)
  PROVE  Sets(w) /\ ~tx'[w].fresh
<1> DEFINE t == [tx[w] EXCEPT !.pc = "lookup", !.doc = h]
<1>1. tx' = [tx EXCEPT ![w] = t] /\ tx[w].pc = "fetch"
  BY DEF FetchSpec, Runs
<1>2. tx'[w] = t /\ tx[w] \in Tx /\ Shape(tx[w])
  BY <1>1 DEF TypeOK, PcInv
<1>3. t \in Tx
  BY <1>2 DEF Tx, Active
<1>4. Shape(t) /\ ~t.fresh
  BY <1>1, <1>2 DEF Shape, Tx
<1> QED
  BY <1>1, <1>2, <1>3, <1>4 DEF Sets

LEMMA FetchFailsSets ==
  ASSUME TypeOK, PcInv, NEW w \in Workers, FetchFails(w)
  PROVE  Sets(w) /\ ~tx'[w].fresh
<1>1. CASE Rollback(w)
  BY <1>1, RollbackSets DEF Busy, FetchFails, Runs
<1>2. CASE Goto(w, "settle")
  <2> DEFINE t == [tx[w] EXCEPT !.pc = "settle"]
  <2>1. tx' = [tx EXCEPT ![w] = t] /\ tx[w].pc = "fetch"
    BY <1>2 DEF Goto, FetchFails, Runs
  <2>2. tx'[w] = t /\ tx[w] \in Tx /\ Shape(tx[w])
    BY <2>1 DEF TypeOK, PcInv
  <2>3. t \in Tx /\ Shape(t) /\ ~t.fresh
    BY <2>1, <2>2 DEF Tx, Active, Shape
  <2> QED
    BY <2>1, <2>2, <2>3 DEF Sets
<1> QED
  BY <1>1, <1>2 DEF FetchFails

LEMMA NoSpecSets ==
  ASSUME TypeOK, PcInv, NEW w \in Workers, NoSpec(w)
  PROVE  Sets(w) /\ ~tx'[w].fresh
<1> DEFINE r == IF Mode[tx[w].conn] = "bare_url" THEN "ready" ELSE "error"
           t == [tx[w] EXCEPT !.pc = "settle", !.result = r]
<1>1. tx' = [tx EXCEPT ![w] = t] /\ tx[w].pc = "fetch"
  BY DEF NoSpec, Runs
<1>2. tx'[w] = t /\ tx[w] \in Tx /\ Shape(tx[w])
  BY <1>1 DEF TypeOK, PcInv
<1>3. t \in Tx /\ Shape(t) /\ ~t.fresh
  BY <1>1, <1>2 DEF Tx, Active, Shape
<1> QED
  BY <1>1, <1>2, <1>3 DEF Sets

LEMMA LookupSets ==
  ASSUME TypeOK, PcInv, NEW w \in Workers, Lookup(w)
  PROVE  Sets(w) /\ ~tx'[w].fresh
<1>1. CASE Rollback(w)
  BY <1>1, RollbackSets DEF Busy, Lookup, Runs
<1>2. CASE \E s \in Hits(w) :
             tx' = [tx EXCEPT ![w] = [@ EXCEPT !.pc = "bind", !.target = s,
                                               !.snap.status = "indexing"]]
  <2>1. PICK s \in Hits(w) :
             tx' = [tx EXCEPT ![w] = [@ EXCEPT !.pc = "bind", !.target = s,
                                               !.snap.status = "indexing"]]
    BY <1>2
  <2> DEFINE t == [tx[w] EXCEPT !.pc = "bind", !.target = s,
                                !.snap.status = "indexing"]
  <2>2. /\ tx' = [tx EXCEPT ![w] = t] /\ tx[w].pc = "lookup"
        /\ tx'[w] = t /\ tx[w] \in Tx /\ Shape(tx[w]) /\ s \in SpecIds
    BY <2>1 DEF TypeOK, PcInv, Lookup, Runs, Hits
  <2>3. t \in Tx /\ Shape(t) /\ ~t.fresh
    BY <2>2 DEF Tx, Active, Shape, ConnRow, Status
  <2> QED
    BY <2>2, <2>3 DEF Sets
<1>3. CASE tx' = [tx EXCEPT ![w] = [@ EXCEPT !.pc = "insert",
                                             !.snap.status = "indexing"]]
  <2> DEFINE t == [tx[w] EXCEPT !.pc = "insert", !.snap.status = "indexing"]
  <2>1. /\ tx' = [tx EXCEPT ![w] = t] /\ tx[w].pc = "lookup"
        /\ tx'[w] = t /\ tx[w] \in Tx /\ Shape(tx[w])
    BY <1>3 DEF TypeOK, PcInv, Lookup, Runs
  <2>2. t \in Tx /\ Shape(t) /\ ~t.fresh
    BY <2>1 DEF Tx, Active, Shape, ConnRow, Status
  <2> QED
    BY <2>1, <2>2 DEF Sets
<1> QED
  BY <1>1, <1>2, <1>3 DEF Lookup

LEMMA InsertRowSets ==
  ASSUME TypeOK, PcInv, NEW w \in Workers, InsertRow(w)
  PROVE  Sets(w)
<1>1. CASE Rollback(w)
  BY <1>1, RollbackSets DEF Busy, InsertRow, Runs
<1>2. CASE ~Rollback(w)
  <2>1. PICK g \in Gens :
          /\ tx' = [tx EXCEPT ![w] = [@ EXCEPT !.pc = "embed",
                       !.fresh = TRUE, !.target = <<Key(w), g>>]]
          /\ tx[w].pc = "insert"
    BY <1>2 DEF InsertRow, Runs
  <2> DEFINE t == [tx[w] EXCEPT !.pc = "embed", !.fresh = TRUE,
                                !.target = <<Key(w), g>>]
  <2>2. tx' = [tx EXCEPT ![w] = t] /\ tx'[w] = t /\ tx[w] \in Tx /\ Shape(tx[w])
    BY <2>1 DEF TypeOK, PcInv
  <2>3. <<Key(w), g>> \in SpecIds
    BY <2>1, <2>2, IdentityInSet DEF Key, SpecIds, Shape
  <2>4. t \in Tx
    BY <2>2, <2>3 DEF Tx, Active
  <2>5. Shape(t)
    BY <2>1, <2>2, <2>3 DEF Shape, KeyOf, Key, Tx
  <2> QED
    BY <2>2, <2>4, <2>5 DEF Sets
<1> QED
  BY <1>1, <1>2

\* What a step may carry over to its successor: a fresh row stays the row of
\* the same document.
KeepsKey(w) == tx'[w].fresh => /\ tx[w].fresh
                               /\ tx'[w].conn = tx[w].conn
                               /\ tx'[w].doc = tx[w].doc

SameKey(t, u) == t.fresh = u.fresh /\ t.conn = u.conn /\ t.doc = u.doc

LEMMA EmbedSets ==
  ASSUME TypeOK, PcInv, NEW w \in Workers, Embed(w)
  PROVE  Sets(w) /\ KeepsKey(w)
<1> DEFINE t == [tx[w] EXCEPT !.pc = "bind"]
<1>1. /\ tx' = [tx EXCEPT ![w] = t] /\ tx[w].pc = "embed"
      /\ tx'[w] = t /\ tx[w] \in Tx /\ Shape(tx[w])
  BY DEF TypeOK, PcInv, Embed, Goto, Runs
<1>2. t \in Tx /\ Shape(t) /\ SameKey(t, tx[w])
  BY <1>1 DEF Tx, Active, Shape, SameKey
<1> QED
  BY <1>1, <1>2 DEF Sets, KeepsKey, SameKey

LEMMA BindSets ==
  ASSUME TypeOK, PcInv, NEW w \in Workers, Bind(w)
  PROVE  Sets(w) /\ KeepsKey(w)
<1>1. CASE Rollback(w)
  BY <1>1, RollbackSets DEF Busy, Bind, Runs, KeepsKey
<1>2. CASE ~Rollback(w)
  <2>1. PICK g \in SpecIds \cup {None} :
          tx' = [tx EXCEPT ![w] = [@ EXCEPT !.pc = "finish", !.gc = g]]
    <3>1. tx[w] \in Tx
      BY DEF TypeOK
    <3>2. CASE tx[w].snap.specId = None
      <4>1. tx' = [tx EXCEPT ![w].pc = "finish"]
        BY <1>2, <3>2 DEF Bind, Goto
      <4>2. [tx[w] EXCEPT !.pc = "finish"]
             = [tx[w] EXCEPT !.pc = "finish", !.gc = tx[w].gc]
        BY <3>1 DEF Tx
      <4> QED
        BY <3>1, <4>1, <4>2 DEF Tx
    <3>3. CASE tx[w].snap.specId # None
      <4>1. tx' = [tx EXCEPT ![w] = [@ EXCEPT !.pc = "finish", !.gc = Orphan(w)]]
        BY <1>2, <3>3 DEF Bind
      <4>2. Orphan(w) \in SpecIds \cup {None}
        BY DEF Orphan, Exists, TypeOK
      <4> QED
        BY <4>1, <4>2
    <3> QED
      BY <3>2, <3>3
  <2> DEFINE t == [tx[w] EXCEPT !.pc = "finish", !.gc = g]
  <2>2. /\ tx' = [tx EXCEPT ![w] = t] /\ tx[w].pc = "bind"
        /\ tx'[w] = t /\ tx[w] \in Tx /\ Shape(tx[w])
    BY <2>1 DEF TypeOK, PcInv, Bind, Runs
  <2>3. t \in Tx /\ Shape(t) /\ SameKey(t, tx[w])
    BY <2>2 DEF Tx, Active, Shape, SameKey
  <2> QED
    BY <2>2, <2>3 DEF Sets, KeepsKey, SameKey
<1> QED
  BY <1>1, <1>2

LEMMA DeleteOrphanSets ==
  ASSUME TypeOK, PcInv, NEW w \in Workers, DeleteOrphan(w)
  PROVE  Sets(w) /\ KeepsKey(w)
<1>1. /\ tx[w] \in Tx /\ Shape(tx[w]) /\ tx[w].pc = "finish"
      /\ tx' = IF Exists(tx[w].gc) THEN [tx EXCEPT ![w].pc = "deleting"]
                                   ELSE [tx EXCEPT ![w].gc = None]
  BY DEF TypeOK, PcInv, DeleteOrphan, Runs
<1>2. CASE Exists(tx[w].gc)
  <2> DEFINE t == [tx[w] EXCEPT !.pc = "deleting"]
  <2>1. tx' = [tx EXCEPT ![w] = t] /\ tx'[w] = t
    BY <1>1, <1>2 DEF TypeOK
  <2>2. t \in Tx /\ Shape(t) /\ SameKey(t, tx[w])
    BY <1>1 DEF Tx, Active, Shape, SameKey
  <2> QED
    BY <1>1, <2>1, <2>2 DEF Sets, KeepsKey, SameKey
<1>3. CASE ~Exists(tx[w].gc)
  <2> DEFINE t == [tx[w] EXCEPT !.gc = None]
  <2>1. tx' = [tx EXCEPT ![w] = t] /\ tx'[w] = t
    BY <1>1, <1>3 DEF TypeOK
  <2>2. t \in Tx /\ Shape(t) /\ SameKey(t, tx[w])
    BY <1>1 DEF Tx, Active, Shape, SameKey
  <2> QED
    BY <1>1, <2>1, <2>2 DEF Sets, KeepsKey, SameKey
<1> QED
  BY <1>2, <1>3

LEMMA BeginSets ==
  ASSUME TypeOK, PcInv, NEW w \in Workers, NEW c \in Conns, NEW kind \in Kinds,
         NEW pc \in {"fetch", "lookup", "settle"}, NEW doc \in Hashes \cup {None},
         pc = "lookup" => doc \in Hashes,
         Begin(w, c, kind, pc, doc)
  PROVE  Sets(w) /\ KeepsKey(w)
<1> DEFINE t == [IdleTx EXCEPT !.pc = pc, !.kind = kind, !.conn = c,
                               !.snap = conn[c], !.doc = doc]
<1>1. tx' = [tx EXCEPT ![w] = t] /\ tx'[w] = t
  BY DEF Begin, TypeOK
<1>2. t \in Tx /\ Shape(t) /\ ~t.fresh
  BY DEF TypeOK, IdleTx, Tx, Active, Shape
<1> QED
  BY <1>1, <1>2 DEF Sets, KeepsKey

-----------------------------------------------------------------------------
(* The committed rows stay well formed.                                    *)

LEMMA IndexedType ==
  ASSUME TypeOK, NEW w \in Workers, tx[w].conn \in Conns
  PROVE  Indexed(w) \in ConnRow
<1>1. tx[w] \in Tx /\ conn[tx[w].conn] \in ConnRow
  BY DEF TypeOK
<1>2. tx[w].doc \in Hashes \cup {None} /\ tx[w].target \in SpecIds \cup {None}
  BY <1>1 DEF Tx
<1> QED
  BY <1>1, <1>2 DEF Indexed, ConnRow, Status

LEMMA PublishType ==
  ASSUME TypeOK, PcInv, NEW w \in Workers
  PROVE  Publish(w) \subseteq SpecIds
BY DEF Publish, TypeOK, PcInv, Shape

LEMMA CommitDeleteConn ==
  ASSUME TypeOK, PcInv, NEW w \in Workers, CommitDelete(w)
  PROVE  conn' \in [Conns -> ConnRow]
<1> DEFINE rows == [conn EXCEPT ![tx[w].conn] = Indexed(w)]
<1>1. tx[w].conn \in Conns
  BY DEF CommitDelete, Runs, PcInv, Shape
<1>2. rows \in [Conns -> ConnRow]
  BY <1>1, IndexedType DEF TypeOK
<1>3. \A c \in Conns : [rows[c] EXCEPT !.specId = None] \in ConnRow
  BY <1>2 DEF ConnRow
<1> HIDE DEF rows
<1>4. conn' = [c \in Conns |-> IF rows[c].specId = tx[w].gc
                               THEN [rows[c] EXCEPT !.specId = None]
                               ELSE rows[c]]
  BY DEF CommitDelete, rows
<1> QED
  BY <1>2, <1>3, <1>4

LEMMA StatusType ==
  ASSUME TypeOK, NEW c \in Conns, NEW s \in Status,
         conn' = [conn EXCEPT ![c].status = s]
  PROVE  conn' \in [Conns -> ConnRow]
BY DEF TypeOK, ConnRow

-----------------------------------------------------------------------------
(* Identities stay unique.                                                 *)

\* A step of w that adds no row and makes none of w's rows fresh.
LEMMA KeyKept ==
  ASSUME IInv, NEW w \in Workers, Sets(w), KeepsKey(w), catalog' \subseteq catalog
  PROVE  KeyInv'
<1>1. \A v \in Workers : tx'[v].fresh => tx[v].fresh /\ Key(v)' = Key(v)
  BY DEF IInv, TypeOK, Sets, KeepsKey, Key
<1> QED
  BY <1>1 DEF IInv, KeyInv, IdentityUnique

\* A step that publishes the row of w and ends the transaction of w.
LEMMA KeyPublished ==
  ASSUME IInv, NEW w \in Workers, Sets(w), ~tx'[w].fresh,
         catalog' \subseteq Publish(w)
  PROVE  KeyInv'
<1>1. \A v \in Workers : tx'[v].fresh => v # w /\ tx[v].fresh /\ Key(v)' = Key(v)
  BY DEF IInv, TypeOK, Sets, Key
<1>2. \A s \in catalog' : s \in catalog \/ (tx[w].fresh /\ s = tx[w].target)
  BY DEF Publish
<1>3. tx[w].fresh => KeyOf(tx[w].target) = Key(w)
  BY DEF IInv, PcInv, Shape, Key
<1>4. \A v \in Workers : tx'[v].fresh => \A s \in catalog' : KeyOf(s) # Key(v)'
  BY <1>1, <1>2, <1>3 DEF IInv, KeyInv
<1>5. \A v, u \in Workers : tx'[v].fresh /\ tx'[u].fresh /\ u # v => Key(u)' # Key(v)'
  BY <1>1 DEF IInv, KeyInv
<1>6. IdentityUnique'
  BY <1>2, <1>3 DEF IInv, KeyInv, IdentityUnique
<1> QED
  BY <1>4, <1>5, <1>6 DEF KeyInv

\* The unique index makes an INSERT wait for the uncommitted row of another
\* transaction and refuses the identity of a committed one.
LEMMA KeyInserted ==
  ASSUME IInv, NEW w \in Workers, Sets(w), InsertRow(w)
  PROVE  KeyInv'
<1>1. CASE Rollback(w)
  BY <1>1, KeyKept, RollbackSets DEF IInv, InsertRow, Runs, Busy, KeepsKey
<1>2. CASE ~Rollback(w)
  <2>1. /\ \A s \in catalog : KeyOf(s) # Key(w)
        /\ Blockers(w) = {} /\ tx[w].pc = "insert" /\ catalog' = catalog
    BY <1>2 DEF InsertRow, Runs
  <2>a. tx'[w].conn = tx[w].conn /\ tx'[w].doc = tx[w].doc
    <3>1. PICK g \in Gens :
            tx' = [tx EXCEPT ![w] = [@ EXCEPT !.pc = "embed",
                         !.fresh = TRUE, !.target = <<Key(w), g>>]]
      BY <1>2 DEF InsertRow
    <3>2. tx \in [Workers -> Tx] /\ tx[w] \in Tx
      BY DEF IInv, TypeOK
    <3> QED
      BY <3>1, <3>2 DEF Tx
  <2>2. \A v \in Workers \ {w} : tx[v].fresh => Key(v) # Key(w)
    <3>1. \A v \in Workers : tx[v].fresh => Inserted(v)
      BY DEF IInv, PcInv, Shape, Inserted, HoldsRow
    <3> QED
      BY <2>1, <3>1 DEF Blockers
  <2>3. \A v \in Workers : Key(v)' = Key(v)
    BY <2>a DEF IInv, TypeOK, Sets, Key
  <2>4. \A v \in Workers \ {w} : tx'[v].fresh = tx[v].fresh
    BY DEF IInv, TypeOK, Sets
  <2> QED
    BY <2>1, <2>2, <2>3, <2>4 DEF IInv, KeyInv, IdentityUnique
<1> QED
  BY <1>1, <1>2

-----------------------------------------------------------------------------
(* The invariant is inductive.                                             *)

LEMMA InitIInv == Init => IInv
<1> SUFFICES ASSUME Init PROVE IInv
  OBVIOUS
<1>1. \A c \in Conns : conn[c] = Unbound("absent")
  BY DEF Init
<1>2. Unbound("absent") \in ConnRow
  BY DEF Unbound, ConnRow, Status
<1>3. TypeOK
  BY <1>1, <1>2, IdleTxType DEF Init, TypeOK
<1>4. PcInv /\ KeyInv
  BY IdleTxType DEF Init, PcInv, KeyInv, IdentityUnique
<1> QED
  BY <1>3, <1>4 DEF IInv

LEMMA ClientStep ==
  ASSUME IInv, Client \/ Schedule
  PROVE  IInv'
<1> USE DEF IInv
<1>1. ASSUME NEW c \in Conns, CreateConnection(c) PROVE IInv'
  <2>1. Unbound("pending") \in ConnRow
    BY DEF Unbound, ConnRow, Status
  <2>2. TypeOK'
    BY <1>1, <2>1 DEF CreateConnection, TypeOK
  <2> QED
    BY <1>1, <2>2 DEF CreateConnection, PcInv, KeyInv, IdentityUnique, Key
<1>2. ASSUME NEW c \in Conns, DeleteConnection(c) PROVE IInv'
  <2>1. Unbound("deleted") \in ConnRow
    BY DEF Unbound, ConnRow, Status
  <2>2. TypeOK'
    BY <1>2, <2>1 DEF DeleteConnection, TypeOK
  <2> QED
    BY <1>2, <2>2 DEF DeleteConnection, PcInv, KeyInv, IdentityUnique, Key
<1>3. ASSUME NEW c \in Conns, DropJob(c) PROVE IInv'
  <2>1. TypeOK'
    BY <1>3 DEF DropJob, TypeOK
  <2> QED
    BY <1>3, <2>1 DEF DropJob, PcInv, KeyInv, IdentityUnique, Key
<1>4. ASSUME NEW w \in Workers, Sets(w), KeepsKey(w),
             UNCHANGED <<catalog, conn>>, jobs' \subseteq jobs
      PROVE  IInv'
  <2>1. KeyInv'
    BY <1>4, KeyKept
  <2>2. TypeOK' /\ PcInv'
    BY <1>4, SetsKeeps DEF TypeOK
  <2> QED
    BY <2>1, <2>2
<1>5. ASSUME NEW w \in Workers, NEW c \in Conns, StartJob(w, c) PROVE IInv'
  <2>1. Begin(w, c, "background", "fetch", None)
    BY <1>5 DEF StartJob
  <2>2. Sets(w) /\ KeepsKey(w)
    BY <2>1, BeginSets DEF Kinds
  <2> QED
    BY <1>4, <1>5, <2>2 DEF StartJob
<1>6. ASSUME NEW w \in Workers, NEW c \in Conns, RequestReindex(w, c) PROVE IInv'
  <2>1. Begin(w, c, "request", "fetch", None)
    BY <1>6 DEF RequestReindex
  <2>2. Sets(w) /\ KeepsKey(w)
    BY <2>1, BeginSets DEF Kinds
  <2> QED
    BY <1>4, <1>6, <2>2 DEF RequestReindex
<1>7. ASSUME NEW w \in Workers, NEW c \in Conns, UploadSpec(w, c) PROVE IInv'
  <2>1. CASE \E h \in Hashes : Begin(w, c, "upload", "lookup", h)
    <3>1. Sets(w) /\ KeepsKey(w)
      BY <2>1, BeginSets DEF Kinds
    <3> QED
      BY <1>4, <1>7, <3>1 DEF UploadSpec
  <2>2. CASE Begin(w, c, "upload", "settle", None)
    <3>1. Sets(w) /\ KeepsKey(w)
      BY <2>2, BeginSets DEF Kinds
    <3> QED
      BY <1>4, <1>7, <3>1 DEF UploadSpec
  <2> QED
    BY <1>7, <2>1, <2>2 DEF UploadSpec
<1> QED
  BY <1>1, <1>2, <1>3, <1>5, <1>6, <1>7 DEF Client, Schedule

LEMMA WorkerStep ==
  ASSUME IInv, NEW w \in Workers, Step(w)
  PROVE  IInv'
<1> USE DEF IInv
<1>1. jobs' = jobs
  BY DEF Step, FetchSpec, FetchFails, NoSpec, Settle, Lookup, InsertRow, Embed,
         EmbedFails, Bind, Commit, DeleteOrphan, CommitDelete, RecordFailure,
         DeadlockAbort
<1>2. ASSUME Sets(w), KeepsKey(w), UNCHANGED catalog, conn' \in [Conns -> ConnRow]
      PROVE  IInv'
  BY <1>1, <1>2, KeyKept, SetsKeeps DEF TypeOK
<1>3. ASSUME Sets(w), KeepsKey(w), UNCHANGED <<catalog, conn>>
      PROVE  IInv'
  BY <1>2, <1>3 DEF TypeOK
<1>4. ASSUME Sets(w), ~tx'[w].fresh, catalog' \subseteq Publish(w),
             conn' \in [Conns -> ConnRow]
      PROVE  IInv'
  BY <1>1, <1>4, KeyPublished, SetsKeeps, PublishType DEF TypeOK
<1>5. ASSUME NEW h \in Hashes, FetchSpec(w, h) PROVE IInv'
  BY <1>3, <1>5, FetchSpecSets DEF FetchSpec, KeepsKey
<1>6. ASSUME FetchFails(w) PROVE IInv'
  BY <1>3, <1>6, FetchFailsSets DEF FetchFails, KeepsKey
<1>7. ASSUME NoSpec(w) PROVE IInv'
  BY <1>3, <1>7, NoSpecSets DEF NoSpec, KeepsKey
<1>8. ASSUME Settle(w) PROVE IInv'
  <2>1. tx[w] \in Tx /\ tx[w].conn \in Conns /\ Busy(w)
    BY <1>8 DEF Settle, Runs, Busy, TypeOK, PcInv, Shape
  <2>2. Sets(w) /\ ~tx'[w].fresh
    <3>1. CASE Live(tx[w].conn)
      BY <1>8, <3>1, EndSets, IdleTxType DEF Settle, End, TypeOK
    <3>2. CASE ~Live(tx[w].conn)
      BY <1>8, <2>1, <3>2, RollbackSets DEF Settle
    <3> QED
      BY <3>1, <3>2
  <2>3. conn' \in [Conns -> ConnRow]
    <3>1. tx[w].result \in Status
      BY <2>1 DEF Tx, Status
    <3>2. conn' = conn \/ conn' = [conn EXCEPT ![tx[w].conn].status = tx[w].result]
      BY <1>8 DEF Settle
    <3> QED
      BY <2>1, <3>1, <3>2, StatusType DEF TypeOK
  <2> QED
    BY <1>2, <1>8, <2>2, <2>3 DEF Settle, KeepsKey
<1>9. ASSUME Lookup(w) PROVE IInv'
  BY <1>3, <1>9, LookupSets DEF Lookup, KeepsKey
<1>10. ASSUME InsertRow(w) PROVE IInv'
  <2>1. Sets(w) /\ UNCHANGED <<catalog, conn>>
    BY <1>10, InsertRowSets DEF InsertRow
  <2>2. TypeOK' /\ PcInv'
    BY <1>1, <2>1, SetsKeeps DEF TypeOK
  <2> QED
    BY <1>10, <2>1, <2>2, KeyInserted
<1>11. ASSUME Embed(w) PROVE IInv'
  BY <1>3, <1>11, EmbedSets DEF Embed
<1>12. ASSUME EmbedFails(w) PROVE IInv'
  BY <1>3, <1>12, RollbackSets DEF EmbedFails, Runs, Busy, KeepsKey
<1>13. ASSUME Bind(w) PROVE IInv'
  BY <1>3, <1>13, BindSets DEF Bind
<1>14. ASSUME Commit(w) PROVE IInv'
  <2>1. tx[w].conn \in Conns /\ Busy(w)
    BY <1>14 DEF Commit, Runs, Busy, PcInv, Shape
  <2>2. CASE Rollback(w) /\ UNCHANGED <<catalog, conn>>
    BY <1>3, <2>1, <2>2, RollbackSets DEF KeepsKey
  <2>3. CASE ~(Rollback(w) /\ UNCHANGED <<catalog, conn>>)
    <3>1. /\ catalog' = Publish(w) /\ End(w)
          /\ conn' = [conn EXCEPT ![tx[w].conn] = Indexed(w)]
      BY <1>14, <2>3 DEF Commit
    <3>2. conn' \in [Conns -> ConnRow]
      BY <2>1, <3>1, IndexedType DEF TypeOK
    <3>3. Sets(w) /\ ~tx'[w].fresh
      BY <3>1, EndSets, IdleTxType DEF End, TypeOK
    <3> QED
      BY <1>4, <3>1, <3>2, <3>3
  <2> QED
    BY <2>2, <2>3
<1>15. ASSUME DeleteOrphan(w) PROVE IInv'
  BY <1>3, <1>15, DeleteOrphanSets DEF DeleteOrphan
<1>16. ASSUME CommitDelete(w) PROVE IInv'
  <2>1. catalog' \subseteq Publish(w) /\ End(w)
    BY <1>16 DEF CommitDelete
  <2>2. Sets(w) /\ ~tx'[w].fresh
    BY <2>1, EndSets, IdleTxType DEF End, TypeOK
  <2> QED
    BY <1>4, <1>16, <2>1, <2>2, CommitDeleteConn
<1>17. ASSUME RecordFailure(w) PROVE IInv'
  <2>1. tx[w].conn \in Conns
    BY <1>17 DEF RecordFailure, Runs, PcInv, Shape
  <2>2. conn' \in [Conns -> ConnRow]
    BY <1>17, <2>1, StatusType DEF RecordFailure, TypeOK, Status
  <2>3. Sets(w) /\ ~tx'[w].fresh
    BY <1>17, EndSets, IdleTxType DEF RecordFailure, End, TypeOK
  <2> QED
    BY <1>2, <1>17, <2>2, <2>3 DEF RecordFailure, KeepsKey
<1>18. ASSUME DeadlockAbort(w) PROVE IInv'
  <2>1. Busy(w)
    BY <1>18 DEF DeadlockAbort, DeadlockVictim, Cycle, Blockers, Busy
  <2> QED
    BY <1>3, <1>18, <2>1, RollbackSets DEF DeadlockAbort, KeepsKey
<1> QED
  BY <1>5, <1>6, <1>7, <1>8, <1>9, <1>10, <1>11, <1>12, <1>13, <1>14, <1>15,
     <1>16, <1>17, <1>18 DEF Step

LEMMA CrashStep ==
  ASSUME IInv, Crash
  PROVE  IInv'
<1>1. TypeOK'
  BY IdleTxType DEF IInv, Crash, TypeOK
<1>2. PcInv' /\ KeyInv'
  BY IdleTxType DEF IInv, Crash, PcInv, KeyInv, IdentityUnique
<1> QED
  BY <1>1, <1>2 DEF IInv

LEMMA StutterStep == IInv /\ UNCHANGED vars => IInv'
BY DEF vars, IInv, TypeOK, PcInv, KeyInv, IdentityUnique, Key

\* IInv holds in every reachable state of every instance.
THEOREM Inductive == Spec => []IInv
<1>1. IInv /\ [Next]_vars => IInv'
  BY ClientStep, WorkerStep, CrashStep, StutterStep DEF Next, Work
<1> QED
  BY InitIInv, <1>1, PTL DEF Spec

\* Every variable keeps its type: no handler stores a value of another kind.
THEOREM TypeCorrect == Spec => []TypeOK
<1>1. IInv => TypeOK
  BY DEF IInv
<1> QED
  BY <1>1, Inductive, PTL

\* The catalog never holds two rows with one identity (pipeline.py looks up
\* and then inserts; the unique constraint closes the gap).
THEOREM IdentityUniqueAlways == Spec => []IdentityUnique
<1>1. IInv => IdentityUnique
  BY DEF IInv, KeyInv
<1> QED
  BY <1>1, Inductive, PTL

\* No document is embedded by two transactions at once, nor while it is in
\* the catalog (pipeline.py flushes the INSERT before embed_batch).
THEOREM EmbedOnceAlways == Spec => []EmbedOnce
<1>1. IInv => EmbedOnce
  BY DEF IInv, KeyInv, PcInv, Shape, EmbedOnce
<1> QED
  BY <1>1, Inductive, PTL

-----------------------------------------------------------------------------
(* No connection is bound to a row that is gone.  The row a transaction     *)
(* binds to is its own fresh one, or was checked by the foreign key; in the  *)
(* second case the check leaves a lock which a DELETE of that row waits for, *)
(* and waits itself for a DELETE under way.  A row that is deleted is taken  *)
(* from every connection bound to it by the same statement.                 *)

\* A transaction deletes at most the row its connection was loaded with.
GcInv == \A w \in Workers : /\ tx[w].gc \in {None, tx[w].snap.specId}
                            /\ tx[w].pc = "deleting" => tx[w].gc # None

\* A row that is share-locked exists, and nobody is deleting it.
ShareInv == \A w \in Workers : HoldsShare(w, tx[w].target) =>
              /\ Exists(tx[w].target)
              /\ \A v \in Workers \ {w} : ~Deleting(v, tx[w].target)

BindInv == GcInv /\ ShareInv /\ NoDanglingSpec

\* A step after which w neither holds such a lock nor deletes.
Quiet(w) == /\ Sets(w)
            /\ tx'[w].pc \notin {"finish", "deleting"}
            /\ tx'[w].gc \in {None, tx'[w].snap.specId}

LEMMA QuietKeeps ==
  ASSUME IInv, BindInv, NEW w \in Workers, Quiet(w), catalog' = catalog,
         \A c \in Conns : conn'[c].specId \in {None, conn[c].specId}
  PROVE  BindInv'
<1>1. \A v \in Workers \ {w} : tx'[v] = tx[v]
  BY DEF IInv, TypeOK, Quiet, Sets
<1>2. GcInv'
  BY <1>1 DEF BindInv, GcInv, Quiet
<1>3. ~HoldsShare(w, tx[w].target)' /\ \A s : ~Deleting(w, s)'
  BY DEF Quiet, HoldsShare, Deleting
<1>4. \A v \in Workers \ {w} : /\ HoldsShare(v, tx[v].target)' <=> HoldsShare(v, tx[v].target)
                              /\ \A s : Deleting(v, s)' <=> Deleting(v, s)
  BY <1>1 DEF HoldsShare, ChecksFK, Rebinds, Deleting
<1>5. ShareInv'
  BY <1>1, <1>3, <1>4 DEF BindInv, ShareInv, Exists
<1>6. NoDanglingSpec'
  BY DEF BindInv, NoDanglingSpec, Exists
<1> QED
  BY <1>2, <1>5, <1>6 DEF BindInv

LEMMA EndQuiet ==
  ASSUME IInv, NEW w \in Workers, End(w)
  PROVE  Quiet(w)
BY EndSets DEF IInv, TypeOK, Quiet, End, IdleTx

LEMMA RollbackQuiet ==
  ASSUME IInv, NEW w \in Workers, Busy(w), Rollback(w)
  PROVE  Quiet(w)
<1>1. CASE tx[w].kind = "background"
  <2> DEFINE t == [IdleTx EXCEPT !.pc = "record", !.kind = "background",
                                 !.conn = tx[w].conn]
  <2>1. tx'[w] = t
    BY <1>1 DEF Rollback, IInv, TypeOK
  <2>2. t.pc = "record" /\ t.gc = None
    BY DEF IdleTx
  <2> QED
    BY <2>1, <2>2, RollbackSets DEF IInv, Quiet
<1>2. CASE tx[w].kind # "background"
  BY <1>2, EndQuiet DEF Rollback
<1> QED
  BY <1>1, <1>2

LEMMA BeginQuiet ==
  ASSUME IInv, NEW w \in Workers, NEW c \in Conns, NEW kind \in Kinds,
         NEW pc \in {"fetch", "lookup", "settle"}, NEW doc \in Hashes \cup {None},
         pc = "lookup" => doc \in Hashes,
         Begin(w, c, kind, pc, doc)
  PROVE  Quiet(w)
<1>1. tx'[w] = [IdleTx EXCEPT !.pc = pc, !.kind = kind, !.conn = c,
                              !.snap = conn[c], !.doc = doc]
  BY DEF Begin, IInv, TypeOK
<1>2. tx'[w].pc = pc /\ tx'[w].gc = None
  BY <1>1 DEF IdleTx
<1> QED
  BY <1>2, BeginSets DEF IInv, Quiet

\* The steps of a transaction before it is bound leave its locks and the row
\* it was loaded with alone.
LEMMA EarlyQuiet ==
  ASSUME IInv, BindInv, NEW w \in Workers,
         \/ \E h \in Hashes : FetchSpec(w, h)
         \/ FetchFails(w) \/ NoSpec(w) \/ Lookup(w)
         \/ InsertRow(w) \/ Embed(w) \/ EmbedFails(w)
  PROVE  Quiet(w)
<1>1. tx[w] \in Tx /\ tx[w].snap \in ConnRow /\ tx[w].gc \in {None, tx[w].snap.specId}
      /\ tx \in [Workers -> Tx]
  BY DEF IInv, TypeOK, Tx, BindInv, GcInv
<1>2. ASSUME Sets(w), NEW pc, pc \notin {"finish", "deleting"}, tx'[w].pc = pc,
             tx'[w].gc = tx[w].gc, tx'[w].snap.specId = tx[w].snap.specId
      PROVE  Quiet(w)
  BY <1>1, <1>2 DEF Quiet
<1>3. ASSUME Busy(w), Rollback(w) PROVE Quiet(w)
  BY <1>3, RollbackQuiet
<1>4. ASSUME NEW h \in Hashes, FetchSpec(w, h) PROVE Quiet(w)
  <2>1. tx'[w] = [tx[w] EXCEPT !.pc = "lookup", !.doc = h]
    BY <1>1, <1>4 DEF FetchSpec
  <2> QED
    BY <1>1, <1>2, <1>4, <2>1, FetchSpecSets DEF IInv, Tx
<1>5. CASE FetchFails(w)
  <2>1. CASE Goto(w, "settle")
    <3>1. tx'[w] = [tx[w] EXCEPT !.pc = "settle"]
      BY <1>1, <2>1 DEF Goto
    <3> QED
      BY <1>1, <1>2, <1>5, <3>1, FetchFailsSets DEF IInv, Tx
  <2>2. CASE Rollback(w)
    BY <1>3, <1>5, <2>2 DEF FetchFails, Runs, Busy
  <2> QED
    BY <1>5, <2>1, <2>2 DEF FetchFails
<1>6. CASE NoSpec(w)
  <2>1. PICK r : tx'[w] = [tx[w] EXCEPT !.pc = "settle", !.result = r]
    BY <1>1, <1>6 DEF NoSpec
  <2> QED
    BY <1>1, <1>2, <1>6, <2>1, NoSpecSets DEF IInv, Tx
<1>7. CASE Lookup(w)
  <2>1. CASE Rollback(w)
    BY <1>3, <1>7, <2>1 DEF Lookup, Runs, Busy
  <2>2. ASSUME NEW s \in Hits(w),
               tx' = [tx EXCEPT ![w] = [@ EXCEPT !.pc = "bind", !.target = s,
                                                 !.snap.status = "indexing"]]
        PROVE  Quiet(w)
    <3>1. tx'[w] = [tx[w] EXCEPT !.pc = "bind", !.target = s, !.snap.status = "indexing"]
      BY <1>1, <2>2
    <3>2. tx'[w].pc = "bind" /\ tx'[w].gc = tx[w].gc /\ tx'[w].snap.specId = tx[w].snap.specId
      BY <1>1, <3>1 DEF Tx, ConnRow
    <3> QED
      BY <1>2, <1>7, <3>2, LookupSets DEF IInv
  <2>3. CASE tx' = [tx EXCEPT ![w] = [@ EXCEPT !.pc = "insert",
                                               !.snap.status = "indexing"]]
    <3>1. tx'[w] = [tx[w] EXCEPT !.pc = "insert", !.snap.status = "indexing"]
      BY <1>1, <2>3
    <3>2. tx'[w].pc = "insert" /\ tx'[w].gc = tx[w].gc /\ tx'[w].snap.specId = tx[w].snap.specId
      BY <1>1, <3>1 DEF Tx, ConnRow
    <3> QED
      BY <1>2, <1>7, <3>2, LookupSets DEF IInv
  <2> QED
    BY <1>7, <2>1, <2>2, <2>3 DEF Lookup
<1>8. CASE InsertRow(w)
  <2>1. CASE Rollback(w)
    BY <1>3, <1>8, <2>1 DEF InsertRow, Runs, Busy
  <2>2. CASE ~Rollback(w)
    <3>1. PICK g \in Gens : tx'[w] = [tx[w] EXCEPT !.pc = "embed", !.fresh = TRUE,
                                                  !.target = <<Key(w), g>>]
      BY <1>1, <1>8, <2>2 DEF InsertRow
    <3>2. tx'[w].pc = "embed" /\ tx'[w].gc = tx[w].gc /\ tx'[w].snap = tx[w].snap
      BY <1>1, <3>1 DEF Tx
    <3> QED
      BY <1>2, <1>8, <3>2, InsertRowSets DEF IInv
  <2> QED
    BY <2>1, <2>2
<1>9. CASE Embed(w)
  <2>1. tx'[w] = [tx[w] EXCEPT !.pc = "bind"]
    BY <1>1, <1>9 DEF Embed, Goto
  <2> QED
    BY <1>1, <1>2, <1>9, <2>1, EmbedSets DEF IInv, Tx
<1>10. CASE EmbedFails(w)
  BY <1>3, <1>10 DEF EmbedFails, Runs, Busy
<1> QED
  BY <1>4, <1>5, <1>6, <1>7, <1>8, <1>9, <1>10

\* The foreign key is checked against a row nobody is deleting.
LEMMA BindKeeps ==
  ASSUME IInv, BindInv, NEW w \in Workers, Bind(w)
  PROVE  BindInv'
<1>1. /\ tx \in [Workers -> Tx] /\ tx[w] \in Tx /\ tx[w].gc \in {None, tx[w].snap.specId}
      /\ tx[w].pc = "bind" /\ Blockers(w) = {} /\ UNCHANGED <<catalog, conn>>
  BY DEF IInv, TypeOK, BindInv, GcInv, Bind, Runs
<1>2. CASE Rollback(w)
  <2>1. Quiet(w)
    BY <1>1, <1>2, RollbackQuiet DEF Busy
  <2> QED
    BY <1>1, <2>1, QuietKeeps
<1>3. CASE ~Rollback(w)
  <2>1. PICK g \in {None, tx[w].snap.specId} :
          tx'[w] = [tx[w] EXCEPT !.pc = "finish", !.gc = g]
    <3>1. CASE tx[w].snap.specId = None
      <4>1. tx'[w] = [tx[w] EXCEPT !.pc = "finish"]
        BY <1>1, <1>3, <3>1 DEF Bind, Goto
      <4>2. [tx[w] EXCEPT !.pc = "finish"]
             = [tx[w] EXCEPT !.pc = "finish", !.gc = tx[w].gc]
        BY <1>1 DEF Tx
      <4> QED
        BY <1>1, <4>1, <4>2
    <3>2. CASE tx[w].snap.specId # None
      BY <1>1, <1>3, <3>2 DEF Bind, Orphan
    <3> QED
      BY <3>1, <3>2
  <2>2. /\ tx'[w].pc = "finish" /\ tx'[w].gc = g /\ tx'[w].snap = tx[w].snap
        /\ tx'[w].target = tx[w].target /\ tx'[w].fresh = tx[w].fresh
        /\ \A v \in Workers \ {w} : tx'[v] = tx[v]
    BY <1>1, <2>1, BindSets DEF IInv, Sets, Tx
  <2>3. GcInv'
    BY <2>2 DEF BindInv, GcInv
  <2>4. ASSUME HoldsShare(w, tx[w].target)'
        PROVE  /\ Exists(tx[w].target)
               /\ \A v \in Workers \ {w} : ~Deleting(v, tx[w].target)
    <3>1. ChecksFK(w) /\ tx[w].snap.specId # None
      BY <2>2, <2>4 DEF HoldsShare, ChecksFK, Rebinds
    <3>2. Exists(tx[w].target)
      BY <1>3, <3>1 DEF Bind
    <3>3. \A v \in Workers \ {w} : ~Deleting(v, tx[w].target)
      BY <1>1, <3>1 DEF Blockers
    <3> QED
      BY <3>2, <3>3
  <2>5. ASSUME NEW v \in Workers
        PROVE  /\ v # w => (HoldsShare(v, tx[v].target)' <=> HoldsShare(v, tx[v].target))
               /\ \A s : Deleting(v, s)' => v # w /\ Deleting(v, s)
    BY <2>2 DEF HoldsShare, ChecksFK, Rebinds, Deleting
  <2>6. ShareInv'
    BY <1>1, <2>2, <2>4, <2>5 DEF BindInv, ShareInv, Exists
  <2>7. NoDanglingSpec'
    BY <1>1 DEF BindInv, NoDanglingSpec, Exists
  <2> QED
    BY <2>3, <2>6, <2>7 DEF BindInv
<1> QED
  BY <1>2, <1>3

\* A DELETE waits for the foreign-key checks of the row.
LEMMA DeleteOrphanKeeps ==
  ASSUME IInv, BindInv, NEW w \in Workers, DeleteOrphan(w)
  PROVE  BindInv'
<1>1. /\ tx \in [Workers -> Tx] /\ tx[w] \in Tx /\ tx[w].gc = tx[w].snap.specId /\ tx[w].gc # None
      /\ tx[w].pc = "finish" /\ Blockers(w) = {} /\ UNCHANGED <<catalog, conn>>
  BY DEF IInv, TypeOK, BindInv, GcInv, DeleteOrphan, Runs
<1>2. /\ tx'[w].snap = tx[w].snap /\ tx'[w].target = tx[w].target /\ tx'[w].fresh = tx[w].fresh
      /\ \/ tx'[w].pc = "deleting" /\ tx'[w].gc = tx[w].gc
         \/ tx'[w].pc = "finish" /\ tx'[w].gc = None
      /\ \A v \in Workers \ {w} : tx'[v] = tx[v]
  <2>1. CASE Exists(tx[w].gc)
    <3>1. tx' = [tx EXCEPT ![w].pc = "deleting"]
      BY <2>1 DEF DeleteOrphan
    <3> QED
      BY <1>1, <3>1 DEF Tx
  <2>2. CASE ~Exists(tx[w].gc)
    <3>1. tx' = [tx EXCEPT ![w].gc = None]
      BY <2>2 DEF DeleteOrphan
    <3> QED
      BY <1>1, <3>1 DEF Tx
  <2> QED
    BY <2>1, <2>2
<1>3. GcInv'
  BY <1>1, <1>2 DEF BindInv, GcInv
<1>4. ASSUME NEW v \in Workers
      PROVE  HoldsShare(v, tx[v].target)' <=> HoldsShare(v, tx[v].target)
  BY <1>1, <1>2 DEF HoldsShare, ChecksFK, Rebinds
<1>5. ASSUME NEW v \in Workers, NEW s, Deleting(v, s)'
      PROVE  Deleting(v, s) \/ (v = w /\ s = tx[w].gc)
  BY <1>1, <1>2, <1>5 DEF Deleting
<1>6. \A v \in Workers \ {w} : ~HoldsShare(v, tx[w].gc)
  BY <1>1 DEF Blockers
<1>7. ASSUME NEW v \in Workers, HoldsShare(v, tx[v].target)'
      PROVE  /\ Exists(tx[v].target)'
             /\ \A u \in Workers \ {v} : ~Deleting(u, tx[v].target)'
  <2>1. HoldsShare(v, tx[v].target) /\ tx'[v].target = tx[v].target
    BY <1>2, <1>4, <1>7
  <2>2. Exists(tx[v].target) /\ \A u \in Workers \ {v} : ~Deleting(u, tx[v].target)
    BY <2>1 DEF BindInv, ShareInv
  <2>3. ASSUME NEW u \in Workers \ {v}, Deleting(u, tx[v].target)' PROVE FALSE
    <3>1. u = w /\ tx[v].target = tx[w].gc
      BY <1>5, <2>1, <2>2, <2>3 DEF Deleting
    <3> QED
      BY <1>6, <2>1, <3>1
  <2> QED
    BY <1>1, <2>1, <2>2, <2>3 DEF Exists
<1>8. NoDanglingSpec'
  BY <1>1 DEF BindInv, NoDanglingSpec, Exists
<1> QED
  BY <1>3, <1>7, <1>8 DEF BindInv, ShareInv

\* At its COMMIT the row a transaction binds to is in the catalog, and is not
\* the one it deletes.
LEMMA TargetPublished ==
  ASSUME IInv, BindInv, NEW w \in Workers, tx[w].pc \in {"finish", "deleting"}, Rebinds(w),
         tx[w].snap.specId = None => tx[w].fresh \/ Exists(tx[w].target)
  PROVE  tx[w].target \in Publish(w) /\ tx[w].target # tx[w].snap.specId
<1>1. tx[w].target # tx[w].snap.specId
  BY DEF Rebinds
<1>2. CASE tx[w].fresh
  BY <1>1, <1>2 DEF Publish
<1>3. CASE ~tx[w].fresh
  <2>1. Exists(tx[w].target)
    BY <1>3 DEF BindInv, ShareInv, HoldsShare, ChecksFK
  <2> QED
    BY <1>1, <2>1 DEF Publish, Exists
<1> QED
  BY <1>2, <1>3

\* Commits end the transaction: a lock that is left is another's, and of a
\* row that stays.
LEMMA EndKeeps ==
  ASSUME IInv, BindInv, NEW w \in Workers, End(w),
         \A s \in catalog : s \in catalog' \/ Deleting(w, s)
  PROVE  GcInv' /\ ShareInv'
<1>1. \A v \in Workers \ {w} : tx'[v] = tx[v]
  BY DEF IInv, TypeOK, End
<1>2. Quiet(w)
  BY EndQuiet
<1>3. GcInv'
  BY <1>1, <1>2 DEF BindInv, GcInv, Quiet
<1>4. ASSUME NEW v \in Workers, HoldsShare(v, tx[v].target)'
      PROVE  /\ Exists(tx[v].target)'
             /\ \A u \in Workers \ {v} : ~Deleting(u, tx[v].target)'
  <2>1. v # w /\ HoldsShare(v, tx[v].target)
    BY <1>1, <1>2, <1>4 DEF Quiet, HoldsShare, ChecksFK, Rebinds
  <2>2. Exists(tx[v].target) /\ \A u \in Workers \ {v} : ~Deleting(u, tx[v].target)
    BY <2>1 DEF BindInv, ShareInv
  <2>3. \A u \in Workers \ {v} : ~Deleting(u, tx[v].target)'
    BY <1>1, <1>2, <2>1, <2>2 DEF Quiet, Deleting
  <2> QED
    BY <1>1, <2>1, <2>2, <2>3 DEF Exists
<1> QED
  BY <1>3, <1>4 DEF ShareInv

LEMMA CommitKeeps ==
  ASSUME IInv, BindInv, NEW w \in Workers, Commit(w)
  PROVE  BindInv'
<1>1. /\ tx[w].conn \in Conns /\ Busy(w) /\ tx[w].pc = "finish"
      /\ tx \in [Workers -> Tx] /\ conn \in [Conns -> ConnRow]
  BY DEF Commit, Runs, Busy, IInv, TypeOK, PcInv, Shape
<1>2. CASE Rollback(w) /\ UNCHANGED <<catalog, conn>>
  BY <1>1, <1>2, RollbackQuiet, QuietKeeps
<1>3. CASE ~(Rollback(w) /\ UNCHANGED <<catalog, conn>>)
  <2>1. /\ catalog' = Publish(w) /\ End(w)
        /\ conn' = [conn EXCEPT ![tx[w].conn] = Indexed(w)]
        /\ tx[w].snap.specId = None => ~ChecksFK(w) \/ Exists(tx[w].target)
    BY <1>3 DEF Commit
  <2>2. GcInv' /\ ShareInv'
    BY <2>1, EndKeeps DEF Publish
  <2>3. Indexed(w).specId = IF Rebinds(w) THEN tx[w].target ELSE conn[tx[w].conn].specId
    BY DEF Indexed
  <2>4. Rebinds(w) => tx[w].target \in catalog'
    BY <1>1, <2>1, TargetPublished DEF ChecksFK
  <2>5. ASSUME NEW c \in Conns, conn'[c].specId # None PROVE conn'[c].specId \in catalog'
    <3>1. CASE c = tx[w].conn /\ Rebinds(w)
      BY <1>1, <2>1, <2>3, <2>4, <3>1
    <3>2. CASE ~(c = tx[w].conn /\ Rebinds(w))
      BY <1>1, <2>1, <2>3, <2>5, <3>2 DEF BindInv, NoDanglingSpec, Exists, Publish
    <3> QED
      BY <3>1, <3>2
  <2> QED
    BY <2>2, <2>5 DEF BindInv, NoDanglingSpec, Exists
<1> QED
  BY <1>2, <1>3

LEMMA CommitDeleteKeeps ==
  ASSUME IInv, BindInv, NEW w \in Workers, CommitDelete(w)
  PROVE  BindInv'
<1> DEFINE rows == [conn EXCEPT ![tx[w].conn] = Indexed(w)]
<1>1. /\ tx[w].conn \in Conns /\ tx[w].pc = "deleting"
      /\ conn \in [Conns -> ConnRow]
      /\ tx[w].gc = tx[w].snap.specId /\ tx[w].gc # None
  BY DEF CommitDelete, Runs, IInv, TypeOK, PcInv, Shape, BindInv, GcInv
<1>2. /\ catalog' = Publish(w) \ {tx[w].gc} /\ End(w)
      /\ conn' = [c \in Conns |-> IF rows[c].specId = tx[w].gc
                                  THEN [rows[c] EXCEPT !.specId = None]
                                  ELSE rows[c]]
  BY DEF CommitDelete
<1>3. GcInv' /\ ShareInv'
  BY <1>1, <1>2, EndKeeps DEF Publish, Deleting
<1>4. rows \in [Conns -> ConnRow]
  BY <1>1, IndexedType DEF IInv
<1>5. Rebinds(w) => tx[w].target \in Publish(w)
  BY <1>1, TargetPublished
<1>6. ASSUME NEW c \in Conns
      PROVE  rows[c].specId \in {None, conn[c].specId} \/ (Rebinds(w) /\ rows[c].specId = tx[w].target)
  <2>1. Indexed(w).specId = IF Rebinds(w) THEN tx[w].target ELSE conn[tx[w].conn].specId
    BY DEF Indexed
  <2> QED
    BY <1>1, <2>1
<1>7. ASSUME NEW c \in Conns, rows[c].specId # None PROVE rows[c].specId \in Publish(w)
  BY <1>5, <1>6, <1>7 DEF BindInv, NoDanglingSpec, Exists, Publish
<1> HIDE DEF rows
<1>8. ASSUME NEW c \in Conns, conn'[c].specId # None
      PROVE  conn'[c].specId \in catalog'
  <2>1. CASE rows[c].specId = tx[w].gc
    <3>1. conn'[c].specId = None
      BY <1>2, <1>4, <2>1 DEF ConnRow
    <3> QED
      BY <1>8, <3>1
  <2>2. CASE rows[c].specId # tx[w].gc
    BY <1>2, <1>7, <1>8, <2>2
  <2> QED
    BY <2>1, <2>2
<1> QED
  BY <1>3, <1>8 DEF BindInv, NoDanglingSpec, Exists

\* A change of a status leaves the bindings alone.
LEMMA StatusKeeps ==
  ASSUME IInv, NEW c \in Conns, NEW s, conn' = [conn EXCEPT ![c].status = s]
  PROVE  \A d \in Conns : conn'[d].specId = conn[d].specId
BY DEF IInv, TypeOK, ConnRow

LEMMA StepBinds ==
  ASSUME IInv, BindInv, NEW w \in Workers, Step(w)
  PROVE  BindInv'
<1>1. CASE \/ \E h \in Hashes : FetchSpec(w, h)
           \/ FetchFails(w) \/ NoSpec(w) \/ Lookup(w)
           \/ InsertRow(w) \/ Embed(w) \/ EmbedFails(w)
  <2>1. UNCHANGED <<catalog, conn>>
    BY <1>1 DEF FetchSpec, FetchFails, NoSpec, Lookup, InsertRow, Embed, EmbedFails
  <2> QED
    BY <1>1, <2>1, EarlyQuiet, QuietKeeps
<1>2. CASE Settle(w)
  <2>1. tx[w].conn \in Conns /\ Busy(w) /\ catalog' = catalog
    BY <1>2 DEF Settle, Runs, Busy, IInv, PcInv, Shape
  <2>2. Quiet(w)
    BY <1>2, <2>1, EndQuiet, RollbackQuiet DEF Settle
  <2>3. \A d \in Conns : conn'[d].specId = conn[d].specId
    BY <1>2, <2>1, StatusKeeps DEF Settle
  <2> QED
    BY <2>1, <2>2, <2>3, QuietKeeps
<1>3. CASE RecordFailure(w)
  <2>1. tx[w].conn \in Conns /\ catalog' = catalog /\ Quiet(w)
    BY <1>3, EndQuiet DEF RecordFailure, Runs, IInv, PcInv, Shape
  <2>2. \A d \in Conns : conn'[d].specId = conn[d].specId
    BY <1>3, <2>1, StatusKeeps DEF RecordFailure
  <2> QED
    BY <2>1, <2>2, QuietKeeps
<1>4. CASE DeadlockAbort(w)
  <2>1. Busy(w)
    BY <1>4 DEF DeadlockAbort, DeadlockVictim, Cycle, Blockers, Busy
  <2> QED
    BY <1>4, <2>1, RollbackQuiet, QuietKeeps DEF DeadlockAbort
<1>5. CASE Bind(w) \/ DeleteOrphan(w) \/ Commit(w) \/ CommitDelete(w)
  BY <1>5, BindKeeps, DeleteOrphanKeeps, CommitKeeps, CommitDeleteKeeps
<1> QED
  BY <1>1, <1>2, <1>3, <1>4, <1>5 DEF Step

LEMMA ClientBinds ==
  ASSUME IInv, BindInv, Client \/ Schedule
  PROVE  BindInv'
<1>1. ASSUME UNCHANGED <<catalog, tx>>, \A c \in Conns : conn'[c].specId \in {None, conn[c].specId}
      PROVE  BindInv'
  BY <1>1 DEF BindInv, GcInv, ShareInv, NoDanglingSpec, HoldsShare, ChecksFK, Rebinds,
              Deleting, Exists
<1>2. ASSUME NEW c \in Conns, CreateConnection(c) \/ DeleteConnection(c) \/ DropJob(c) PROVE BindInv'
  <2>1. UNCHANGED <<catalog, tx>> /\ \A d \in Conns : conn'[d].specId \in {None, conn[d].specId}
    BY <1>2 DEF CreateConnection, DeleteConnection, DropJob, Unbound, IInv, TypeOK
  <2> QED
    BY <1>1, <2>1
<1>3. ASSUME NEW w \in Workers, NEW c \in Conns,
             StartJob(w, c) \/ RequestReindex(w, c) \/ UploadSpec(w, c)
      PROVE  BindInv'
  <2>1. Quiet(w)
    BY <1>3, BeginQuiet DEF StartJob, RequestReindex, UploadSpec, Kinds
  <2>2. UNCHANGED <<catalog, conn>>
    BY <1>3 DEF StartJob, RequestReindex, UploadSpec
  <2> QED
    BY <2>1, <2>2, QuietKeeps
<1> QED
  BY <1>2, <1>3 DEF Client, Schedule

LEMMA BindKept ==
  ASSUME IInv, BindInv, [Next]_vars
  PROVE  BindInv'
<1>1. CASE Crash
  BY <1>1 DEF Crash, BindInv, GcInv, ShareInv, NoDanglingSpec, HoldsShare, IdleTx, Exists
<1>2. CASE UNCHANGED vars
  BY <1>2 DEF vars, BindInv, GcInv, ShareInv, NoDanglingSpec, HoldsShare, ChecksFK,
              Rebinds, Deleting, Exists
<1> QED
  BY <1>1, <1>2, ClientBinds, StepBinds DEF Next, Work

LEMMA BindInit == Init => BindInv
BY DEF Init, BindInv, GcInv, ShareInv, NoDanglingSpec, HoldsShare, IdleTx, Unbound

(* No connection is ever bound to a row that is gone, for any number of      *)
(* connections, documents and requests that index, collect, time out and      *)
(* crash over one another (pipeline.py: index_connection, _gc_orphan).        *)
THEOREM NoDanglingSpecAlways == Spec => []NoDanglingSpec
<1>1. IInv /\ BindInv /\ [Next]_vars => BindInv'
  BY BindKept
<1>2. BindInv => NoDanglingSpec
  BY DEF BindInv
<1> QED
  BY BindInit, <1>1, <1>2, Inductive, PTL DEF Spec

-----------------------------------------------------------------------------
(* The two columns of a binding agree while one connection is indexed by    *)
(* one request at a time.  A transaction writes only what differs from what *)
(* it loaded, so what it loaded must still be the row, up to an ON DELETE   *)
(* SET NULL; and what it binds must be the row of its own document.         *)

Holding == {"insert", "embed", "bind", "finish", "deleting"}
Loaded  == {"fetch", "lookup"} \cup Holding
Bound   == {"embed", "bind", "finish", "deleting"}

\* What a transaction t knows of the connection it serves.
RowOf(t) ==
  /\ t.pc # "idle" => conn[t.conn].status # "absent"
  /\ t.pc \in Holding => Live(t.conn)
  /\ t.pc \in Loaded /\ Live(t.conn) =>
       /\ conn[t.conn].hash = t.snap.hash
       /\ conn[t.conn].specId \in {None, t.snap.specId}
  /\ t.pc \in Bound => /\ t.target \in SpecIds
                       /\ KeyOf(t.target) = Identity(t.conn, t.doc)

Apart == \A v, w \in Workers : v # w /\ Busy(v) /\ Busy(w) => tx[v].conn # tx[w].conn

RowInv == Apart /\ HashMatchesBinding /\ \A w \in Workers : RowOf(tx[w])

\* A step of w that writes no connection.
LEMMA RowStep ==
  ASSUME IInv, RowInv, NEW w \in Workers, Sets(w), UNCHANGED conn,
         Busy(w), tx'[w].pc = "idle" \/ tx'[w].conn = tx[w].conn,
         RowOf(tx'[w])
  PROVE  RowInv'
<1>1. \A v \in Workers \ {w} : tx'[v] = tx[v]
  BY DEF IInv, TypeOK, Sets
<1>2. Apart'
  BY <1>1 DEF RowInv, Apart, Busy
<1>3. HashMatchesBinding'
  BY DEF RowInv, HashMatchesBinding
<1>4. ASSUME NEW v \in Workers PROVE RowOf(tx[v])'
  BY <1>1 DEF RowInv, RowOf, Live
<1> QED
  BY <1>2, <1>3, <1>4 DEF RowInv

\* A step that takes w out of the part that reads or writes the binding.
LEMMA RowOut ==
  ASSUME IInv, RowInv, NEW w \in Workers, Busy(w), End(w) \/ Rollback(w)
  PROVE  /\ Sets(w)
         /\ tx'[w].pc = "idle" \/ (tx'[w].pc = "record" /\ tx'[w].conn = tx[w].conn)
<1>1. Sets(w)
  BY EndSets, RollbackSets DEF IInv
<1>2. CASE End(w)
  BY <1>1, <1>2 DEF End, IInv, TypeOK, IdleTx
<1>3. CASE ~End(w)
  <2>1. tx'[w] = [IdleTx EXCEPT !.pc = "record", !.kind = "background", !.conn = tx[w].conn]
    BY <1>3 DEF Rollback, IInv, TypeOK
  <2> QED
    BY <1>1, <2>1 DEF IdleTx
<1> QED
  BY <1>2, <1>3

LEMMA RowLeave ==
  ASSUME IInv, RowInv, NEW w \in Workers, Busy(w), End(w) \/ Rollback(w), UNCHANGED conn
  PROVE  RowInv'
<1>1. /\ Sets(w)
      /\ tx'[w].pc = "idle" \/ (tx'[w].pc = "record" /\ tx'[w].conn = tx[w].conn)
  BY RowOut
<1>2. RowOf(tx'[w])
  BY <1>1 DEF RowInv, RowOf, Busy, Holding, Loaded, Bound
<1> QED
  BY <1>1, <1>2, RowStep

\* The steps of a transaction before its COMMIT.
LEMMA RowEarly ==
  ASSUME IInv, RowInv, NEW w \in Workers,
         \/ \E h \in Hashes : FetchSpec(w, h)
         \/ FetchFails(w) \/ NoSpec(w) \/ Lookup(w) \/ InsertRow(w)
         \/ Embed(w) \/ EmbedFails(w) \/ Bind(w) \/ DeleteOrphan(w)
  PROVE  RowInv'
<1>1. /\ tx \in [Workers -> Tx] /\ tx[w] \in Tx /\ tx[w].snap \in ConnRow /\ Busy(w)
      /\ UNCHANGED conn /\ RowOf(tx[w])
  BY DEF IInv, TypeOK, Tx, RowInv, Runs, Busy, FetchSpec, FetchFails, NoSpec, Lookup,
         InsertRow, Embed, EmbedFails, Bind, DeleteOrphan
<1>2. CASE End(w) \/ Rollback(w)
  BY <1>1, <1>2, RowLeave
<1>3. ASSUME Sets(w), tx'[w].conn = tx[w].conn,
             tx'[w].snap.hash = tx[w].snap.hash, tx'[w].snap.specId = tx[w].snap.specId,
             tx'[w].pc \in Loaded => tx[w].pc \in Loaded,
             tx'[w].pc \in Holding => Live(tx[w].conn),
             tx'[w].pc \in Bound =>
               /\ tx'[w].target \in SpecIds
               /\ KeyOf(tx'[w].target) = Identity(tx'[w].conn, tx'[w].doc)
      PROVE  RowInv'
  <2>1. RowOf(tx'[w])
    BY <1>1, <1>3 DEF RowOf, Busy
  <2> QED
    BY <1>1, <1>3, <2>1, RowStep
<1> USE DEF Holding, Loaded, Bound
<1>4. ASSUME NEW h \in Hashes, FetchSpec(w, h) PROVE RowInv'
  <2>1. tx'[w] = [tx[w] EXCEPT !.pc = "lookup", !.doc = h] /\ tx[w].pc = "fetch"
    BY <1>1, <1>4 DEF FetchSpec, Runs
  <2>2. tx'[w].pc = "lookup" /\ tx'[w].conn = tx[w].conn /\ tx'[w].snap = tx[w].snap
    BY <1>1, <2>1 DEF Tx
  <2> QED
    BY <1>3, <1>4, <2>1, <2>2, FetchSpecSets DEF IInv
<1>5. CASE FetchFails(w) /\ ~Rollback(w)
  <2>1. tx'[w] = [tx[w] EXCEPT !.pc = "settle"]
    BY <1>1, <1>5 DEF FetchFails, Goto
  <2>2. tx'[w].pc = "settle" /\ tx'[w].conn = tx[w].conn /\ tx'[w].snap = tx[w].snap
    BY <1>1, <2>1 DEF Tx
  <2> QED
    BY <1>3, <1>5, <2>2, FetchFailsSets DEF IInv
<1>6. CASE NoSpec(w)
  <2>1. PICK r : tx'[w] = [tx[w] EXCEPT !.pc = "settle", !.result = r]
    BY <1>1, <1>6 DEF NoSpec
  <2>2. tx'[w].pc = "settle" /\ tx'[w].conn = tx[w].conn /\ tx'[w].snap = tx[w].snap
    BY <1>1, <2>1 DEF Tx
  <2> QED
    BY <1>3, <1>6, <2>2, NoSpecSets DEF IInv
<1>7. CASE Lookup(w) /\ ~Rollback(w)
  <2>1. Live(tx[w].conn) /\ Sets(w) /\ tx[w].pc = "lookup" /\ catalog \subseteq SpecIds
    BY <1>7, LookupSets DEF IInv, TypeOK, Lookup, Runs
  <2>2. ASSUME NEW s \in Hits(w),
               tx' = [tx EXCEPT ![w] = [@ EXCEPT !.pc = "bind", !.target = s,
                                                 !.snap.status = "indexing"]]
        PROVE  RowInv'
    <3>1. tx'[w] = [tx[w] EXCEPT !.pc = "bind", !.target = s, !.snap.status = "indexing"]
      BY <1>1, <2>2
    <3>2. /\ tx'[w].pc = "bind" /\ tx'[w].conn = tx[w].conn /\ tx'[w].doc = tx[w].doc
          /\ tx'[w].target = s
          /\ tx'[w].snap.hash = tx[w].snap.hash /\ tx'[w].snap.specId = tx[w].snap.specId
      BY <1>1, <3>1 DEF Tx, ConnRow
    <3>3. s \in SpecIds /\ KeyOf(s) = Identity(tx[w].conn, tx[w].doc)
      BY <2>1, <2>2 DEF Hits, Key
    <3> QED
      BY <1>3, <2>1, <3>2, <3>3
  <2>3. CASE tx' = [tx EXCEPT ![w] = [@ EXCEPT !.pc = "insert",
                                               !.snap.status = "indexing"]]
    <3>1. tx'[w] = [tx[w] EXCEPT !.pc = "insert", !.snap.status = "indexing"]
      BY <1>1, <2>3
    <3>2. /\ tx'[w].pc = "insert" /\ tx'[w].conn = tx[w].conn
          /\ tx'[w].snap.hash = tx[w].snap.hash /\ tx'[w].snap.specId = tx[w].snap.specId
      BY <1>1, <3>1 DEF Tx, ConnRow
    <3> QED
      BY <1>3, <2>1, <3>2
  <2> QED
    BY <1>7, <2>2, <2>3 DEF Lookup
<1>8. CASE InsertRow(w) /\ ~Rollback(w)
  <2>1. Sets(w) /\ tx[w].pc = "insert"
    BY <1>8, InsertRowSets DEF IInv, InsertRow, Runs
  <2>2. PICK g \in Gens : tx'[w] = [tx[w] EXCEPT !.pc = "embed", !.fresh = TRUE,
                                                !.target = <<Key(w), g>>]
    BY <1>1, <1>8 DEF InsertRow
  <2>3. /\ tx'[w].pc = "embed" /\ tx'[w].conn = tx[w].conn /\ tx'[w].snap = tx[w].snap
        /\ tx'[w].fresh
    BY <1>1, <2>2 DEF Tx
  <2>4. tx'[w].target \in SpecIds /\ KeyOf(tx'[w].target) = Identity(tx'[w].conn, tx'[w].doc)
    BY <2>1, <2>3 DEF Sets, Shape
  <2> QED
    BY <1>1, <1>3, <2>1, <2>3, <2>4 DEF RowOf
<1>9. ASSUME NEW pc \in {"bind", "finish", "deleting"}, tx[w].pc \in Bound, Sets(w),
             NEW g, tx'[w] = [tx[w] EXCEPT !.pc = pc, !.gc = g]
      PROVE  RowInv'
  <2>1. /\ tx'[w].pc = pc /\ tx'[w].conn = tx[w].conn /\ tx'[w].snap = tx[w].snap
        /\ tx'[w].doc = tx[w].doc /\ tx'[w].target = tx[w].target
    BY <1>1, <1>9 DEF Tx
  <2> QED
    BY <1>1, <1>3, <1>9, <2>1 DEF RowOf
<1>10. ASSUME NEW pc \in {"bind", "finish", "deleting"}, tx[w].pc \in Bound, Sets(w),
              tx'[w] = [tx[w] EXCEPT !.pc = pc]
       PROVE  RowInv'
  <2>1. [tx[w] EXCEPT !.pc = pc] = [tx[w] EXCEPT !.pc = pc, !.gc = tx[w].gc]
    BY <1>1 DEF Tx
  <2> QED
    BY <1>9, <1>10, <2>1
<1>11. CASE Embed(w)
  BY <1>1, <1>10, <1>11, EmbedSets DEF IInv, Embed, Goto, Runs
<1>12. CASE Bind(w) /\ ~Rollback(w)
  <2>1. Sets(w) /\ tx[w].pc = "bind"
    BY <1>12, BindSets DEF IInv, Bind, Runs
  <2>2. CASE tx[w].snap.specId = None
    BY <1>1, <1>10, <1>12, <2>1, <2>2 DEF Bind, Goto
  <2>3. CASE tx[w].snap.specId # None
    <3>1. tx' = [tx EXCEPT ![w] = [@ EXCEPT !.pc = "finish", !.gc = Orphan(w)]]
      BY <1>12, <2>3 DEF Bind
    <3> QED
      BY <1>1, <1>9, <2>1, <3>1
  <2> QED
    BY <2>2, <2>3
<1>13. CASE DeleteOrphan(w)
  <2>1. Sets(w) /\ tx[w].pc = "finish"
    BY <1>13, DeleteOrphanSets DEF IInv, DeleteOrphan, Runs
  <2>2. CASE Exists(tx[w].gc)
    <3>1. tx' = [tx EXCEPT ![w].pc = "deleting"]
      BY <1>13, <2>2 DEF DeleteOrphan
    <3> QED
      BY <1>1, <1>10, <2>1, <3>1
  <2>3. CASE ~Exists(tx[w].gc)
    <3>1. tx' = [tx EXCEPT ![w].gc = None]
      BY <1>13, <2>3 DEF DeleteOrphan
    <3>2. tx'[w] = [tx[w] EXCEPT !.pc = "finish", !.gc = None]
      BY <1>1, <2>1, <3>1 DEF Tx
    <3> QED
      BY <1>9, <2>1, <3>2
  <2> QED
    BY <2>2, <2>3
<1> QED
  BY <1>2, <1>4, <1>5, <1>6, <1>7, <1>8, <1>11, <1>12, <1>13 DEF EmbedFails

\* A step that writes one connection, or takes bindings away, and leaves the
\* transactions on the other connections alone.
LEMMA RowWrites ==
  ASSUME IInv, RowInv, HashMatchesBinding', NEW c \in Conns, tx' \in [Workers -> Tx],
         \A v \in Workers : Busy(v)' => /\ Busy(v) /\ tx'[v].conn = tx[v].conn
                                        /\ tx[v].conn = c => RowOf(tx[v])'
                                        /\ tx[v].conn # c => tx'[v] = tx[v],
         \A d \in Conns \ {c} : /\ conn'[d].status = conn[d].status
                                /\ conn'[d].hash = conn[d].hash
                                /\ conn'[d].specId \in {None, conn[d].specId}
  PROVE  RowInv'
<1>1. Apart'
  BY DEF RowInv, Apart, Busy
<1>2. ASSUME NEW v \in Workers PROVE RowOf(tx[v])'
  <2>1. CASE ~Busy(v)'
    BY <2>1 DEF RowOf, Busy, Holding, Loaded, Bound
  <2>2. CASE Busy(v)' /\ tx[v].conn # c
    <3>1. tx'[v] = tx[v] /\ tx[v].conn \in Conns \ {c} /\ RowOf(tx[v])
      BY <2>2 DEF IInv, PcInv, Shape, Busy, RowInv
    <3> QED
      BY <3>1 DEF RowOf, Live
  <2>3. CASE Busy(v)' /\ tx[v].conn = c
    BY <2>3
  <2> QED
    BY <2>1, <2>2, <2>3
<1> QED
  BY <1>1, <1>2 DEF RowInv

\* What a COMMIT leaves on its connection agrees: the document's hash and
\* the document's row.
LEMMA IndexedAgrees ==
  ASSUME IInv, RowInv, NEW w \in Workers, tx[w].pc \in {"finish", "deleting"}
  PROVE  /\ Indexed(w).hash = tx[w].doc
         /\ Indexed(w).specId \in {None, tx[w].target}
         /\ KeyOf(tx[w].target) = Identity(tx[w].conn, tx[w].doc)
<1>1. RowOf(tx[w]) /\ Live(tx[w].conn)
  BY DEF RowInv, RowOf, Holding
<1>2. /\ conn[tx[w].conn].hash = tx[w].snap.hash
      /\ conn[tx[w].conn].specId \in {None, tx[w].snap.specId}
      /\ KeyOf(tx[w].target) = Identity(tx[w].conn, tx[w].doc)
  BY <1>1 DEF RowOf, Loaded, Holding, Bound
<1> QED
  BY <1>2 DEF Indexed, Rebinds

LEMMA RowCommit ==
  ASSUME IInv, RowInv, NEW w \in Workers, Commit(w) \/ CommitDelete(w)
  PROVE  RowInv'
<1>1. /\ tx \in [Workers -> Tx] /\ conn \in [Conns -> ConnRow]
      /\ tx[w].conn \in Conns /\ Busy(w) /\ tx[w].pc \in {"finish", "deleting"}
  BY DEF Commit, CommitDelete, Runs, Busy, IInv, TypeOK, PcInv, Shape
<1> DEFINE c == tx[w].conn
           rows == [conn EXCEPT ![c] = Indexed(w)]
<1>2. CASE Rollback(w) /\ UNCHANGED conn
  BY <1>1, <1>2, RowLeave
<1>3. CASE ~(Rollback(w) /\ UNCHANGED conn)
  <2>1. rows \in [Conns -> ConnRow] /\ rows[c] = Indexed(w)
        /\ \A d \in Conns \ {c} : rows[d] = conn[d]
    BY <1>1, IndexedType DEF IInv
  <2> HIDE DEF rows
  <2>2. End(w)
    BY <1>3 DEF Commit, CommitDelete
  <2>3. \A d \in Conns : conn'[d] = rows[d] \/ conn'[d] = [rows[d] EXCEPT !.specId = None]
    <3>1. CASE Commit(w)
      BY <1>3, <3>1 DEF Commit, rows
    <3>2. CASE CommitDelete(w)
      <4>1. conn' = [d \in Conns |-> IF rows[d].specId = tx[w].gc
                                     THEN [rows[d] EXCEPT !.specId = None]
                                     ELSE rows[d]]
        BY <3>2 DEF CommitDelete, rows
      <4> QED
        BY <4>1
    <3> QED
      BY <3>1, <3>2
  <2>4. \A d \in Conns : /\ conn'[d].status = rows[d].status
                         /\ conn'[d].hash = rows[d].hash
                         /\ conn'[d].specId \in {None, rows[d].specId}
    <3> SUFFICES ASSUME NEW d \in Conns
                 PROVE  /\ conn'[d].status = rows[d].status
                        /\ conn'[d].hash = rows[d].hash
                        /\ conn'[d].specId \in {None, rows[d].specId}
      OBVIOUS
    <3>1. rows[d] \in ConnRow /\ (conn'[d] = rows[d] \/ conn'[d] = [rows[d] EXCEPT !.specId = None])
      BY <2>1, <2>3
    <3> QED
      BY <3>1 DEF ConnRow
  <2>5. HashMatchesBinding'
    <3> SUFFICES ASSUME NEW d \in Conns, conn'[d].specId # None
                 PROVE  KeyOf(conn'[d].specId) = Identity(d, conn'[d].hash)
      BY DEF HashMatchesBinding
    <3>1. conn'[d].specId = rows[d].specId /\ conn'[d].hash = rows[d].hash
      BY <2>4
    <3>2. CASE d = c
      BY <1>1, <2>1, <3>1, <3>2, IndexedAgrees
    <3>3. CASE d # c
      BY <2>1, <3>1, <3>3 DEF RowInv, HashMatchesBinding
    <3> QED
      BY <3>2, <3>3
  <2>6. Sets(w) /\ ~Busy(w)'
    BY <2>2, EndSets DEF IInv, End, TypeOK, Busy, IdleTx
  <2>7. /\ tx' \in [Workers -> Tx]
        /\ \A v \in Workers : Busy(v)' => Busy(v) /\ tx'[v] = tx[v] /\ tx[v].conn # c
    BY <1>1, <2>6, SetsKeeps DEF IInv, Sets, Busy, RowInv, Apart
  <2>8. \A d \in Conns \ {c} : /\ conn'[d].status = conn[d].status
                               /\ conn'[d].hash = conn[d].hash
                               /\ conn'[d].specId \in {None, conn[d].specId}
    BY <2>1, <2>4
  <2> HIDE DEF c
  <2> QED
    BY <1>1, <2>5, <2>7, <2>8, RowWrites DEF c
<1> QED
  BY <1>2, <1>3

\* A failed or empty indexing writes a status only.
LEMMA RowStatus ==
  ASSUME IInv, RowInv, NEW w \in Workers, Settle(w) \/ RecordFailure(w)
  PROVE  RowInv'
<1> DEFINE c == tx[w].conn
<1>1. /\ tx \in [Workers -> Tx] /\ conn \in [Conns -> ConnRow] /\ tx[w] \in Tx
      /\ c \in Conns /\ Busy(w) /\ tx[w].pc \in {"settle", "record"}
  BY DEF Settle, RecordFailure, Runs, Busy, IInv, TypeOK, PcInv, Shape
<1>2. CASE UNCHANGED conn
  BY <1>1, <1>2, RowLeave DEF Settle, RecordFailure
<1>3. CASE ~UNCHANGED conn
  <2>1. End(w)
    BY <1>3 DEF Settle, RecordFailure
  <2>2. PICK s : conn' = [conn EXCEPT ![c].status = s]
    BY <1>3 DEF Settle, RecordFailure
  <2>3. /\ \A d \in Conns : conn'[d].specId = conn[d].specId /\ conn'[d].hash = conn[d].hash
        /\ \A d \in Conns \ {c} : conn'[d].status = conn[d].status
    BY <1>1, <2>2 DEF ConnRow
  <2>4. HashMatchesBinding'
    BY <2>3 DEF RowInv, HashMatchesBinding
  <2>5. Sets(w) /\ ~Busy(w)'
    BY <2>1, EndSets DEF IInv, End, TypeOK, Busy, IdleTx
  <2>6. /\ tx' \in [Workers -> Tx]
        /\ \A v \in Workers : Busy(v)' => Busy(v) /\ tx'[v] = tx[v] /\ tx[v].conn # c
    BY <1>1, <2>5, SetsKeeps DEF IInv, Sets, Busy, RowInv, Apart
  <2> HIDE DEF c
  <2> QED
    BY <1>1, <2>3, <2>4, <2>6, RowWrites DEF c
<1> QED
  BY <1>2, <1>3

\* Requests start on a connection nobody indexes; a DELETE waits for the
\* transaction that holds the row.
LEMMA RowClient ==
  ASSUME ~Overlap, IInv, RowInv, Client \/ Schedule
  PROVE  RowInv'
<1>1. /\ tx \in [Workers -> Tx] /\ conn \in [Conns -> ConnRow]
      /\ \A v \in Workers : Busy(v) => tx[v].conn \in Conns
  BY DEF IInv, TypeOK, PcInv, Shape, Busy
<1>2. ASSUME NEW w \in Workers, NEW c \in Conns, NEW kind \in Kinds,
             NEW pc \in {"fetch", "lookup", "settle"}, NEW doc \in Hashes \cup {None},
             Begin(w, c, kind, pc, doc), UNCHANGED conn
      PROVE  RowInv'
  <2>1. tx' = [tx EXCEPT ![w] = [IdleTx EXCEPT !.pc = pc, !.kind = kind, !.conn = c,
                                               !.snap = conn[c], !.doc = doc]]
    BY <1>2 DEF Begin
  <2>2. /\ tx'[w].pc = pc /\ tx'[w].conn = c /\ tx'[w].snap = conn[c]
        /\ \A v \in Workers \ {w} : tx'[v] = tx[v]
    BY <1>1, <2>1 DEF IdleTx
  <2>3. Live(c) /\ \A v \in Workers : ~(Busy(v) /\ tx[v].conn = c)
    BY <1>2 DEF Begin
  <2>4. Apart'
    BY <2>2, <2>3 DEF RowInv, Apart, Busy
  <2>5. ASSUME NEW v \in Workers PROVE RowOf(tx[v])'
    <3>1. CASE v = w
      BY <1>2, <2>2, <2>3, <3>1 DEF RowOf, Live, Holding, Bound
    <3>2. CASE v # w
      BY <1>2, <2>2, <3>2 DEF RowInv, RowOf, Live
    <3> QED
      BY <3>1, <3>2
  <2>6. HashMatchesBinding'
    BY <1>2 DEF RowInv, HashMatchesBinding
  <2> QED
    BY <2>4, <2>5, <2>6 DEF RowInv
<1>3. ASSUME NEW c \in Conns, UNCHANGED tx, NEW s, conn' = [conn EXCEPT ![c] = Unbound(s)],
             \A v \in Workers : Busy(v) /\ tx[v].conn = c =>
                s = "deleted" /\ tx[v].pc \notin Holding
      PROVE  RowInv'
  <2>1. /\ conn'[c] = Unbound(s) /\ \A d \in Conns \ {c} : conn'[d] = conn[d]
    BY <1>1, <1>3
  <2>2. HashMatchesBinding'
    BY <2>1 DEF RowInv, HashMatchesBinding, Unbound
  <2>3. ASSUME NEW v \in Workers, Busy(v), tx[v].conn = c PROVE RowOf(tx[v])'
    <3>1. conn'[c].status = "deleted" /\ tx'[v] = tx[v] /\ tx[v].pc \notin Holding
      BY <1>3, <2>1, <2>3 DEF Unbound
    <3>2. ~Live(tx[v].conn)' /\ tx'[v].pc \notin Bound /\ tx'[v].pc \notin Holding
      BY <2>3, <3>1 DEF Live, Holding, Bound
    <3> QED
      BY <2>3, <3>1, <3>2 DEF RowOf
  <2> QED
    BY <1>1, <1>3, <2>1, <2>2, <2>3, RowWrites DEF Busy
<1>4. ASSUME NEW c \in Conns, CreateConnection(c) \/ DeleteConnection(c) \/ DropJob(c)
      PROVE  RowInv'
  <2>1. CASE CreateConnection(c)
    <3>1. /\ conn[c].status = "absent" /\ UNCHANGED tx
          /\ conn' = [conn EXCEPT ![c] = Unbound("pending")]
      BY <2>1 DEF CreateConnection
    <3>2. \A v \in Workers : Busy(v) => conn[tx[v].conn].status # "absent"
      BY DEF RowInv, RowOf, Busy
    <3> QED
      BY <1>3, <3>1, <3>2
  <2>2. CASE DeleteConnection(c)
    BY <1>3, <2>2 DEF DeleteConnection, HoldsRow, Holding
  <2>3. CASE DropJob(c)
    BY <2>3 DEF DropJob, RowInv, Apart, Busy, RowOf, Live, HashMatchesBinding
  <2> QED
    BY <1>4, <2>1, <2>2, <2>3
<1>5. ASSUME NEW w \in Workers, NEW c \in Conns,
             StartJob(w, c) \/ RequestReindex(w, c) \/ UploadSpec(w, c)
      PROVE  RowInv'
  BY <1>2, <1>5 DEF StartJob, RequestReindex, UploadSpec, Kinds
<1> QED
  BY <1>4, <1>5 DEF Client, Schedule

LEMMA RowKept ==
  ASSUME ~Overlap, IInv, RowInv, [Next]_vars
  PROVE  RowInv'
<1>1. ASSUME NEW w \in Workers, Step(w) PROVE RowInv'
  <2>1. CASE DeadlockAbort(w)
    <3>1. Busy(w)
      BY <2>1 DEF DeadlockAbort, DeadlockVictim, Cycle, Blockers, Busy
    <3> QED
      BY <2>1, <3>1, RowLeave DEF DeadlockAbort
  <2> QED
    BY <1>1, <2>1, RowEarly, RowCommit, RowStatus DEF Step
<1>2. CASE Crash
  BY <1>2 DEF Crash, RowInv, Apart, Busy, HashMatchesBinding, RowOf, IdleTx,
              Holding, Loaded, Bound
<1>3. CASE UNCHANGED vars
  BY <1>3 DEF vars, RowInv, Apart, Busy, HashMatchesBinding, RowOf, Live
<1> QED
  BY <1>1, <1>2, <1>3, RowClient DEF Next, Work

(* Where a connection is indexed by one request at a time, its hash is the  *)
(* hash of the spec it is bound to, for any number of connections that      *)
(* share, collect and delete rows over one another (pipeline.py:            *)
(* index_connection; connections.py: delete_connection).                    *)
THEOREM HashMatchesBindingAlways ==
  ASSUME ~Overlap
  PROVE  Spec => []HashMatchesBinding
<1>1. Init => RowInv
  BY DEF Init, RowInv, Apart, Busy, HashMatchesBinding, RowOf, IdleTx, Unbound,
         Holding, Loaded, Bound
<1>2. IInv /\ RowInv /\ [Next]_vars => RowInv'
  BY RowKept
<1>3. RowInv => HashMatchesBinding
  BY DEF RowInv
<1> QED
  BY <1>1, <1>2, <1>3, Inductive, PTL DEF Spec

-----------------------------------------------------------------------------
(* One worker.  The SELECT that decides whether the previous row is an      *)
(* orphan and the DELETE that removes it are then the only statements that  *)
(* touch a binding, so what the first saw still holds at the second.        *)

Serial == \A v, w \in Workers : v = w

\* What a step does to the transaction of w, as far as bindings go.
Ends(w) == tx'[w].gc = None /\ tx'[w].pc \notin Loaded

Advances(w) == /\ tx'[w].conn = tx[w].conn /\ tx'[w].gc = tx[w].gc
               /\ tx'[w].snap.specId = tx[w].snap.specId
               /\ tx'[w].pc \in Loaded => tx[w].pc \in Loaded
               /\ tx'[w].pc \notin {"finish", "deleting"}

Binds(w) == /\ tx'[w].conn = tx[w].conn /\ tx'[w].snap = tx[w].snap
            /\ tx[w].pc = "bind" /\ tx'[w].pc = "finish"
            /\ tx'[w].gc = IF tx[w].snap.specId = None THEN tx[w].gc ELSE Orphan(w)

Collects(w) == /\ tx'[w].conn = tx[w].conn /\ tx'[w].snap = tx[w].snap
               /\ tx[w].pc = "finish" /\ tx[w].gc # None
               /\ IF Exists(tx[w].gc)
                  THEN tx'[w].pc = "deleting" /\ tx'[w].gc = tx[w].gc
                  ELSE tx'[w].pc = "finish" /\ tx'[w].gc = None

Moves(w) == Ends(w) \/ Advances(w) \/ Binds(w) \/ Collects(w)

LEMMA LeaveEnds ==
  ASSUME IInv, NEW w \in Workers, End(w) \/ Rollback(w)
  PROVE  Ends(w)
<1>1. tx \in [Workers -> Tx]
  BY DEF IInv, TypeOK
<1>2. CASE End(w)
  BY <1>1, <1>2 DEF End, IdleTx, Ends, Loaded, Holding
<1>3. CASE ~End(w)
  <2>1. tx'[w] = [IdleTx EXCEPT !.pc = "record", !.kind = "background", !.conn = tx[w].conn]
    BY <1>1, <1>3 DEF Rollback
  <2> QED
    BY <2>1 DEF IdleTx, Ends, Loaded, Holding
<1> QED
  BY <1>2, <1>3

LEMMA StepMoves ==
  ASSUME IInv, NEW w \in Workers, Step(w)
  PROVE  Moves(w)
<1>1. tx \in [Workers -> Tx] /\ tx[w] \in Tx /\ tx[w].snap \in ConnRow
  BY DEF IInv, TypeOK, Tx
<1>2. CASE End(w) \/ Rollback(w)
  BY <1>2, LeaveEnds DEF Moves
<1> USE DEF Loaded, Holding
<1>3. ASSUME NEW h \in Hashes, FetchSpec(w, h) PROVE Advances(w)
  <2>1. tx'[w] = [tx[w] EXCEPT !.pc = "lookup", !.doc = h] /\ tx[w].pc = "fetch"
    BY <1>1, <1>3 DEF FetchSpec, Runs
  <2> QED
    BY <1>1, <2>1 DEF Tx, Advances
<1>4. CASE FetchFails(w) /\ ~Rollback(w)
  <2>1. tx'[w] = [tx[w] EXCEPT !.pc = "settle"]
    BY <1>1, <1>4 DEF FetchFails, Goto
  <2> QED
    BY <1>1, <2>1 DEF Tx, Advances, Moves
<1>5. CASE NoSpec(w)
  <2>1. PICK r : tx'[w] = [tx[w] EXCEPT !.pc = "settle", !.result = r]
    BY <1>1, <1>5 DEF NoSpec
  <2> QED
    BY <1>1, <2>1 DEF Tx, Advances, Moves
<1>6. ASSUME NEW s, tx' = [tx EXCEPT ![w] = [@ EXCEPT !.pc = "bind", !.target = s,
                                                      !.snap.status = "indexing"]],
             tx[w].pc = "lookup"
      PROVE  Advances(w)
  <2>1. tx'[w] = [tx[w] EXCEPT !.pc = "bind", !.target = s, !.snap.status = "indexing"]
    BY <1>1, <1>6
  <2>2. /\ tx'[w].pc = "bind" /\ tx'[w].conn = tx[w].conn /\ tx'[w].gc = tx[w].gc
        /\ tx'[w].snap.specId = tx[w].snap.specId
    BY <1>1, <2>1 DEF Tx, ConnRow
  <2> QED
    BY <1>6, <2>2 DEF Advances
<1>7. ASSUME tx' = [tx EXCEPT ![w] = [@ EXCEPT !.pc = "insert", !.snap.status = "indexing"]],
             tx[w].pc = "lookup"
      PROVE  Advances(w)
  <2>1. tx'[w] = [tx[w] EXCEPT !.pc = "insert", !.snap.status = "indexing"]
    BY <1>1, <1>7
  <2>2. /\ tx'[w].pc = "insert" /\ tx'[w].conn = tx[w].conn /\ tx'[w].gc = tx[w].gc
        /\ tx'[w].snap.specId = tx[w].snap.specId
    BY <1>1, <2>1 DEF Tx, ConnRow
  <2> QED
    BY <1>7, <2>2 DEF Advances
<1>8. CASE Lookup(w) /\ ~Rollback(w)
  BY <1>6, <1>7, <1>8 DEF Lookup, Runs, Moves
<1>9. CASE InsertRow(w) /\ ~Rollback(w)
  <2>1. PICK g \in Gens : tx'[w] = [tx[w] EXCEPT !.pc = "embed", !.fresh = TRUE,
                                                !.target = <<Key(w), g>>]
    BY <1>1, <1>9 DEF InsertRow
  <2>2. tx'[w].pc = "embed" /\ tx'[w].conn = tx[w].conn /\ tx'[w].snap = tx[w].snap
        /\ tx'[w].gc = tx[w].gc
    BY <1>1, <2>1 DEF Tx
  <2> QED
    BY <1>9, <2>2 DEF InsertRow, Runs, Advances, Moves
<1>10. CASE Embed(w)
  <2>1. tx'[w] = [tx[w] EXCEPT !.pc = "bind"] /\ tx[w].pc = "embed"
    BY <1>1, <1>10 DEF Embed, Goto, Runs
  <2> QED
    BY <1>1, <2>1 DEF Tx, Advances, Moves
<1>11. CASE Bind(w) /\ ~Rollback(w)
  <2>1. CASE tx[w].snap.specId = None
    <3>1. tx'[w] = [tx[w] EXCEPT !.pc = "finish"] /\ tx[w].pc = "bind"
      BY <1>1, <1>11, <2>1 DEF Bind, Goto, Runs
    <3> QED
      BY <1>1, <2>1, <3>1 DEF Tx, Binds, Moves
  <2>2. CASE tx[w].snap.specId # None
    <3>1. tx'[w] = [tx[w] EXCEPT !.pc = "finish", !.gc = Orphan(w)] /\ tx[w].pc = "bind"
      BY <1>1, <1>11, <2>2 DEF Bind, Runs
    <3> QED
      BY <1>1, <2>2, <3>1 DEF Tx, Binds, Moves
  <2> QED
    BY <2>1, <2>2
<1>12. CASE DeleteOrphan(w)
  <2>1. tx[w].pc = "finish" /\ tx[w].gc # None
    BY <1>12 DEF DeleteOrphan, Runs
  <2>2. tx' = IF Exists(tx[w].gc) THEN [tx EXCEPT ![w].pc = "deleting"]
                                  ELSE [tx EXCEPT ![w].gc = None]
    BY <1>12 DEF DeleteOrphan
  <2> QED
    BY <1>1, <2>1, <2>2 DEF Tx, Collects, Moves
<1> QED
  BY <1>2, <1>3, <1>4, <1>5, <1>8, <1>9, <1>10, <1>11, <1>12
     DEF Step, Moves, Settle, EmbedFails, Commit, CommitDelete, RecordFailure, DeadlockAbort

\* What a client or the scheduler does: it starts a transaction from the row
\* as it is, or it creates, deletes or drops and no transaction moves.
Begins(w) == /\ tx'[w].gc = None /\ tx'[w].pc \in {"fetch", "lookup", "settle"}
             /\ tx'[w].snap = conn[tx'[w].conn]

LEMMA ClientMoves ==
  ASSUME IInv, Client \/ Schedule
  PROVE  /\ UNCHANGED catalog
         /\ \/ UNCHANGED conn /\ \A w \in Workers : tx'[w] = tx[w] \/ Begins(w)
            \/ /\ UNCHANGED tx
               /\ \E c \in Conns :
                    \/ /\ conn[c].status = "absent"
                       /\ conn' = [conn EXCEPT ![c] = Unbound("pending")]
                    \/ /\ "delete" \in Requests
                       /\ conn' = [conn EXCEPT ![c] = Unbound("deleted")]
<1>1. tx \in [Workers -> Tx]
  BY DEF IInv, TypeOK
<1>2. ASSUME NEW w \in Workers, NEW c \in Conns, NEW kind \in Kinds,
             NEW pc \in {"fetch", "lookup", "settle"}, NEW doc \in Hashes \cup {None},
             Begin(w, c, kind, pc, doc)
      PROVE  \A v \in Workers : tx'[v] = tx[v] \/ Begins(v)
  <2>1. tx' = [tx EXCEPT ![w] = [IdleTx EXCEPT !.pc = pc, !.kind = kind, !.conn = c,
                                               !.snap = conn[c], !.doc = doc]]
    BY <1>2 DEF Begin
  <2>2. Begins(w) /\ \A v \in Workers \ {w} : tx'[v] = tx[v]
    BY <1>1, <2>1 DEF IdleTx, Begins
  <2> QED
    BY <2>2
<1>3. ASSUME NEW w \in Workers, NEW c \in Conns,
             StartJob(w, c) \/ RequestReindex(w, c) \/ UploadSpec(w, c)
      PROVE  /\ UNCHANGED <<catalog, conn>>
             /\ \A v \in Workers : tx'[v] = tx[v] \/ Begins(v)
  BY <1>2, <1>3 DEF StartJob, RequestReindex, UploadSpec, Kinds
<1>4. ASSUME NEW c \in Conns, CreateConnection(c) \/ DeleteConnection(c) \/ DropJob(c)
      PROVE  /\ UNCHANGED <<catalog, tx>>
             /\ \/ UNCHANGED conn
                \/ /\ conn[c].status = "absent"
                   /\ conn' = [conn EXCEPT ![c] = Unbound("pending")]
                \/ /\ "delete" \in Requests
                   /\ conn' = [conn EXCEPT ![c] = Unbound("deleted")]
  BY <1>4 DEF CreateConnection, DeleteConnection, DropJob
<1> QED
  BY <1>3, <1>4 DEF Client, Schedule

\* The row chosen for deletion is bound to no other connection.
GcAlone == \A w \in Workers : tx[w].gc # None =>
             \A d \in Conns \ {tx[w].conn} : conn[d].specId # tx[w].gc

\* The step of a worker that leaves its transaction open writes no binding.
LEMMA StepWrites ==
  ASSUME IInv, NEW w \in Workers, Step(w)
  PROVE  \/ UNCHANGED catalog /\ \A d \in Conns : /\ conn'[d].specId = conn[d].specId
                                                  /\ conn[d].status = "absent" \/ conn'[d].status # "absent"
         \/ Commit(w) /\ End(w) /\ catalog' = Publish(w)
            /\ conn' = [conn EXCEPT ![tx[w].conn] = Indexed(w)]
         \/ CommitDelete(w)
<1>1. CASE Settle(w) \/ RecordFailure(w)
  <2>1. PICK s \in {"ready", "error"} :
          /\ UNCHANGED catalog
          /\ \/ UNCHANGED conn
             \/ conn' = [conn EXCEPT ![tx[w].conn].status = s]
    <3>1. tx[w].result \in {"ready", "error"}
      BY DEF IInv, TypeOK, Tx
    <3> QED
      BY <1>1, <3>1 DEF Settle, RecordFailure
  <2>2. conn \in [Conns -> ConnRow]
    BY DEF IInv, TypeOK
  <2>3. \A d \in Conns : /\ conn'[d].specId = conn[d].specId
                         /\ conn[d].status = "absent" \/ conn'[d].status # "absent"
    BY <2>1, <2>2 DEF ConnRow
  <2>4. UNCHANGED catalog
    BY <1>1 DEF Settle, RecordFailure
  <2> QED
    BY <2>3, <2>4
<1>2. CASE Commit(w)
  BY <1>2 DEF Commit
<1> QED
  BY <1>1, <1>2 DEF Step, FetchSpec, FetchFails, NoSpec, Lookup, InsertRow, Embed,
     EmbedFails, Bind, DeleteOrphan, DeadlockAbort

\* Garbage collection spares other connections while one worker indexes.
LEMMA AloneKept ==
  ASSUME Serial, IInv, BindInv, GcAlone, [Next]_vars
  PROVE  GcAlone'
<1>1. ASSUME NEW w \in Workers, Step(w) PROVE GcAlone'
  <2> SUFFICES ASSUME tx'[w].gc # None,
                      NEW d \in Conns, d # tx'[w].conn
               PROVE  conn'[d].specId # tx'[w].gc
    BY DEF Serial, GcAlone
  <2>1. Moves(w)
    BY <1>1, StepMoves
  <2>2. ~Ends(w) /\ tx'[w].conn = tx[w].conn
    BY <2>1 DEF Moves, Ends, Advances, Binds, Collects
  <2>3. \A e \in Conns : conn'[e].specId = conn[e].specId
    <3>1. ~End(w) /\ ~Rollback(w)
      BY <2>2, LeaveEnds
    <3> QED
      BY <1>1, <3>1, StepWrites DEF CommitDelete
  <2>4. CASE Advances(w) \/ Collects(w)
    BY <2>2, <2>3, <2>4 DEF Advances, Collects, GcAlone
  <2>5. CASE Binds(w)
    <3>1. CASE tx[w].snap.specId = None
      BY <2>2, <2>3, <2>5, <3>1 DEF Binds, GcAlone
    <3>2. CASE tx[w].snap.specId # None
      <4>1. tx'[w].gc = tx[w].snap.specId /\ ~Referenced(tx[w].snap.specId, tx[w].conn)
        BY <2>5, <3>2 DEF Binds, Orphan
      <4> QED
        BY <2>2, <2>3, <4>1 DEF Referenced
    <3> QED
      BY <3>1, <3>2
  <2> QED
    BY <2>1, <2>2, <2>4, <2>5 DEF Moves
<1>2. CASE Client \/ Schedule
  <2>1. CASE UNCHANGED conn /\ \A w \in Workers : tx'[w] = tx[w] \/ Begins(w)
    BY <2>1 DEF GcAlone, Begins
  <2>2. ASSUME UNCHANGED tx, NEW c \in Conns, NEW s, conn' = [conn EXCEPT ![c] = Unbound(s)]
        PROVE  GcAlone'
    <3>1. \A d \in Conns : conn'[d].specId \in {None, conn[d].specId}
      BY <2>2 DEF IInv, TypeOK, Unbound
    <3> QED
      BY <2>2, <3>1 DEF GcAlone
  <2> QED
    BY <1>2, <2>1, <2>2, ClientMoves
<1>3. CASE Crash
  BY <1>3 DEF Crash, GcAlone, IdleTx
<1>4. CASE UNCHANGED vars
  BY <1>4 DEF vars, GcAlone
<1> QED
  BY <1>1, <1>2, <1>3, <1>4 DEF Next, Work

\* Only the end of a collection removes a row.
LEMMA SparesStep ==
  ASSUME Serial, IInv, BindInv, GcAlone, [Next]_vars,
         NEW s \in catalog, s \notin catalog', NEW c \in Conns, conn[c].specId = s
  PROVE  \E w \in Workers : tx[w].conn = c /\ Deleting(w, s)
<1>1. PICK w \in Workers : CommitDelete(w)
  <2>1. CASE Client \/ Schedule
    BY <2>1, ClientMoves
  <2>2. CASE Crash \/ UNCHANGED vars
    BY <2>2 DEF Crash, vars
  <2>3. ASSUME NEW w \in Workers, Step(w) PROVE CommitDelete(w)
    BY <2>3, StepWrites DEF Publish
  <2> QED
    BY <2>1, <2>2, <2>3 DEF Next, Work
<1>2. tx[w].pc = "deleting" /\ s = tx[w].gc
  BY <1>1 DEF CommitDelete, Runs, Publish
<1>3. tx[w].gc # None
  BY <1>2 DEF BindInv, GcInv
<1>4. tx[w].conn = c
  BY <1>2, <1>3 DEF GcAlone
<1> QED
  BY <1>2, <1>4 DEF Deleting

(* One connection's reindex never removes the row another connection is     *)
(* bound to, while one worker indexes; with two it does, as the run          *)
(* CatalogGcRace shows (pipeline.py: _gc_orphan).                            *)
THEOREM GcSparesOthersAlone ==
  ASSUME Serial
  PROVE  Spec => GcSparesOthers
<1>1. Init => BindInv /\ GcAlone
  BY BindInit DEF Init, GcAlone, IdleTx
<1>2. IInv /\ BindInv /\ GcAlone /\ [Next]_vars => BindInv' /\ GcAlone'
  BY AloneKept, BindKept
<1>3. IInv /\ BindInv /\ GcAlone /\ [Next]_vars =>
        [\A s \in catalog \ catalog' : \A c \in Conns :
            conn[c].specId = s => \E w \in Workers : tx[w].conn = c /\ Deleting(w, s)]_vars
  BY SparesStep
<1> QED
  BY <1>1, <1>2, <1>3, Inductive, PTL DEF Spec, GcSparesOthers

\* The binding a transaction loaded is still its connection's; what it does
\* not collect another connection is bound to.
SerialInv ==
  /\ \A c \in Conns : conn[c].status = "absent" => conn[c].specId = None
  /\ \A w \in Workers :
       /\ tx[w].pc \in Loaded => conn[tx[w].conn].specId = tx[w].snap.specId
       /\ tx[w].pc = "finish" /\ tx[w].gc = None /\ tx[w].snap.specId # None =>
            Referenced(tx[w].snap.specId, tx[w].conn)

OrphanInv == SerialInv /\ NoOrphan

\* A step of a worker that ends nothing.
LEMMA OrphanOpen ==
  ASSUME Serial, IInv, BindInv, OrphanInv, NEW w \in Workers, Moves(w), UNCHANGED catalog,
         \A d \in Conns : /\ conn'[d].specId = conn[d].specId
                          /\ conn[d].status = "absent" \/ conn'[d].status # "absent"
  PROVE  OrphanInv'
<1>1. NoOrphan'
  BY DEF OrphanInv, NoOrphan
<1>2. \A c \in Conns : conn'[c].status = "absent" => conn'[c].specId = None
  BY DEF OrphanInv, SerialInv
<1>3. \A s : \A c : Referenced(s, c)' <=> Referenced(s, c)
  BY DEF Referenced
<1>4. /\ tx[w].pc \in Loaded => conn[tx[w].conn].specId = tx[w].snap.specId /\ tx[w].conn \in Conns
      /\ tx[w].pc = "finish" /\ tx[w].gc = None /\ tx[w].snap.specId # None =>
           Referenced(tx[w].snap.specId, tx[w].conn)
  BY DEF OrphanInv, SerialInv, IInv, PcInv, Shape, Loaded, Holding
<1>5. tx[w].pc \in Loaded /\ tx[w].snap.specId # None => Exists(tx[w].snap.specId)
  BY <1>4 DEF BindInv, NoDanglingSpec
<1>6. /\ tx'[w].pc \in Loaded => conn'[tx'[w].conn].specId = tx'[w].snap.specId
      /\ tx'[w].pc = "finish" /\ tx'[w].gc = None /\ tx'[w].snap.specId # None =>
           Referenced(tx'[w].snap.specId, tx'[w].conn)
  <2>1. CASE Ends(w)
    BY <2>1 DEF Ends, Loaded, Holding
  <2>2. CASE Advances(w)
    BY <1>4, <2>2 DEF Advances
  <2>3. CASE Binds(w)
    BY <1>4, <1>5, <2>3 DEF Binds, Orphan, Loaded, Holding
  <2>4. CASE Collects(w)
    <3>1. tx[w].gc = tx[w].snap.specId /\ tx[w].pc \in Loaded
      BY <2>4 DEF BindInv, GcInv, Collects, Loaded, Holding
    <3>2. Exists(tx[w].gc)
      BY <1>5, <2>4, <3>1 DEF Collects
    <3> QED
      BY <1>4, <2>4, <3>1, <3>2 DEF Collects
  <2> QED
    BY <2>1, <2>2, <2>3, <2>4 DEF Moves
<1>7. SerialInv'
  BY <1>2, <1>3, <1>6 DEF Serial, SerialInv
<1> QED
  BY <1>1, <1>7 DEF OrphanInv

LEMMA NoneIsNoRow == None \notin SpecIds
BY CatalogAssumption

\* A COMMIT leaves its connection bound to what it indexed, unless the row is
\* the one it collects; every other binding stays.
LEMMA OrphanCommit ==
  ASSUME Serial, IInv, BindInv, OrphanInv, NEW w \in Workers,
         NEW gone \in SpecIds \cup {None},
         End(w), tx[w].pc \in {"finish", "deleting"},
         tx[w].snap.specId \in {None, gone} \/ Referenced(tx[w].snap.specId, tx[w].conn),
         catalog' = Publish(w) \ {gone},
         \A d \in Conns : LET r == IF d = tx[w].conn THEN Indexed(w) ELSE conn[d] IN
                          /\ conn'[d].status = r.status
                          /\ conn'[d].specId = IF r.specId = gone THEN None ELSE r.specId
  PROVE  OrphanInv'
<1> DEFINE c == tx[w].conn
<1>1. /\ c \in Conns /\ conn[c].specId = tx[w].snap.specId /\ tx \in [Workers -> Tx]
  BY DEF IInv, TypeOK, PcInv, Shape, OrphanInv, SerialInv, Loaded, Holding
<1>2. /\ Indexed(w).status = "ready"
      /\ Indexed(w).specId = tx[w].target
  BY <1>1 DEF Indexed, Rebinds
<1>3. SerialInv'
  <2>1. tx'[w].pc = "idle"
    BY <1>1 DEF End, IdleTx
  <2>2. \A d \in Conns : conn'[d].status = "absent" => conn'[d].specId = None
    BY <1>2 DEF OrphanInv, SerialInv
  <2> QED
    BY <2>1, <2>2 DEF Serial, SerialInv, Loaded, Holding
<1>4. ASSUME NEW s \in catalog' PROVE \E d \in Conns : conn'[d].specId = s
  <2>1. s # gone /\ (s \in catalog \/ s = tx[w].target)
    BY <1>4 DEF Publish
  <2>2. CASE s = tx[w].target
    BY <1>1, <1>2, <2>1, <2>2
  <2>3. CASE s \in catalog
    <3>1. PICK d \in Conns : conn[d].specId = s
      BY <2>3 DEF OrphanInv, NoOrphan
    <3>2. CASE d # c
      BY <2>1, <3>1, <3>2
    <3>3. CASE d = c
      <4>1. s # None
        BY <2>3, NoneIsNoRow DEF IInv, TypeOK
      <4>2. Referenced(s, c)
        BY <1>1, <2>1, <3>1, <3>3, <4>1
      <4> QED
        BY <2>1, <4>2 DEF Referenced
    <3> QED
      BY <3>2, <3>3
  <2> QED
    BY <2>1, <2>2, <2>3
<1>5. NoOrphan'
  BY <1>4 DEF NoOrphan
<1> QED
  BY <1>3, <1>5 DEF OrphanInv

LEMMA OrphanStep ==
  ASSUME Serial, IInv, BindInv, OrphanInv, NEW w \in Workers, Step(w)
  PROVE  OrphanInv'
<1>1. /\ tx[w] \in Tx /\ conn \in [Conns -> ConnRow] /\ catalog \subseteq SpecIds
      /\ tx[w].gc \in {None, tx[w].snap.specId}
      /\ tx[w].pc = "deleting" => tx[w].gc # None
  BY DEF IInv, TypeOK, BindInv, GcInv
<1>2. CASE UNCHANGED catalog /\ \A d \in Conns :
             /\ conn'[d].specId = conn[d].specId
             /\ conn[d].status = "absent" \/ conn'[d].status # "absent"
  BY <1>2, StepMoves, OrphanOpen
<1>3. CASE Commit(w) /\ End(w) /\ catalog' = Publish(w)
            /\ conn' = [conn EXCEPT ![tx[w].conn] = Indexed(w)]
  <2>1. tx[w].pc = "finish" /\ tx[w].gc = None /\ tx[w].conn \in Conns
    BY <1>3 DEF Commit, Runs, IInv, PcInv, Shape
  <2>2. tx[w].snap.specId = None \/ Referenced(tx[w].snap.specId, tx[w].conn)
    BY <2>1 DEF OrphanInv, SerialInv
  <2>3. catalog' = Publish(w) \ {None}
    BY <1>3, NoneIsNoRow, PublishType DEF IInv
  <2>4. \A d \in Conns : LET r == IF d = tx[w].conn THEN Indexed(w) ELSE conn[d] IN
                         /\ conn'[d].status = r.status
                         /\ conn'[d].specId = IF r.specId = None THEN None ELSE r.specId
    BY <1>1, <1>3
  <2> QED
    BY <1>3, <2>1, <2>2, <2>3, <2>4, OrphanCommit
<1>4. CASE CommitDelete(w)
  <2> DEFINE rows == [conn EXCEPT ![tx[w].conn] = Indexed(w)]
  <2>1. tx[w].pc = "deleting" /\ tx[w].conn \in Conns /\ End(w)
        /\ catalog' = Publish(w) \ {tx[w].gc}
    BY <1>4 DEF CommitDelete, Runs, IInv, PcInv, Shape
  <2>2. tx[w].snap.specId = tx[w].gc /\ tx[w].gc \in SpecIds \cup {None}
    BY <1>1, <2>1 DEF Tx
  <2>3. /\ rows \in [Conns -> ConnRow]
        /\ \A d \in Conns : rows[d] = IF d = tx[w].conn THEN Indexed(w) ELSE conn[d]
    BY <1>1, <2>1, IndexedType DEF IInv
  <2>4. conn' = [d \in Conns |-> IF rows[d].specId = tx[w].gc
                                 THEN [rows[d] EXCEPT !.specId = None]
                                 ELSE rows[d]]
    BY <1>4 DEF CommitDelete
  <2> HIDE DEF rows
  <2>5. \A d \in Conns : /\ conn'[d].status = rows[d].status
                         /\ conn'[d].specId = IF rows[d].specId = tx[w].gc THEN None
                                                                          ELSE rows[d].specId
    BY <2>3, <2>4 DEF ConnRow
  <2>6. \A d \in Conns : LET r == IF d = tx[w].conn THEN Indexed(w) ELSE conn[d] IN
                         /\ conn'[d].status = r.status
                         /\ conn'[d].specId = IF r.specId = tx[w].gc THEN None ELSE r.specId
    BY <2>3, <2>5
  <2> QED
    BY <2>1, <2>2, <2>6, OrphanCommit
<1> QED
  BY <1>2, <1>3, <1>4, StepWrites

LEMMA OrphanKept ==
  ASSUME Serial, "delete" \notin Requests, IInv, BindInv, OrphanInv, [Next]_vars
  PROVE  OrphanInv'
<1>1. CASE Client \/ Schedule
  <2>1. CASE /\ UNCHANGED <<catalog, conn>>
             /\ \A w \in Workers : tx'[w] = tx[w] \/ Begins(w)
    BY <2>1 DEF OrphanInv, SerialInv, NoOrphan, Begins, Referenced
  <2>2. ASSUME UNCHANGED <<catalog, tx>>, NEW c \in Conns, conn[c].status = "absent",
               conn' = [conn EXCEPT ![c] = Unbound("pending")]
        PROVE  OrphanInv'
    <3>1. /\ \A d \in Conns : conn'[d].specId = conn[d].specId
          /\ \A d \in Conns : conn'[d].status = "absent" => conn[d].status = "absent"
      BY <2>2 DEF IInv, TypeOK, Unbound, OrphanInv, SerialInv
    <3>2. \A s : \A d : Referenced(s, d)' <=> Referenced(s, d)
      BY <3>1 DEF Referenced
    <3>3. \A w \in Workers : tx[w].pc \in Loaded => tx[w].conn \in Conns
      BY DEF IInv, PcInv, Shape, Loaded, Holding
    <3> QED
      BY <2>2, <3>1, <3>2, <3>3 DEF OrphanInv, SerialInv, NoOrphan
  <2> QED
    BY <1>1, <2>1, <2>2, ClientMoves
<1>2. CASE Crash
  BY <1>2 DEF Crash, OrphanInv, SerialInv, NoOrphan, IdleTx, Loaded, Holding
<1>3. CASE UNCHANGED vars
  BY <1>3 DEF vars, OrphanInv, SerialInv, NoOrphan, Referenced
<1> QED
  BY <1>1, <1>2, <1>3, OrphanStep DEF Next, Work

(* With one worker, and as long as no connection is deleted, every row of   *)
(* the catalog is some connection's, whatever fails or crashes in between   *)
(* (pipeline.py: _gc_orphan; a deleted connection leaves its row behind).   *)
THEOREM NoOrphanAlone ==
  ASSUME Serial, "delete" \notin Requests
  PROVE  Spec => []NoOrphan
<1>1. Init => OrphanInv
  BY DEF Init, OrphanInv, SerialInv, NoOrphan, IdleTx, Unbound, Loaded, Holding
<1>2. IInv /\ BindInv /\ OrphanInv /\ [Next]_vars => BindInv' /\ OrphanInv'
  BY BindKept, OrphanKept
<1>3. OrphanInv => NoOrphan
  BY DEF OrphanInv
<1> QED
  BY BindInit, <1>1, <1>2, <1>3, Inductive, PTL DEF Spec

-----------------------------------------------------------------------------
(* The catalog without transactions.  A COMMIT takes effect as one indexing  *)
(* of the rows as they are at that moment, although it writes what differs   *)
(* from the rows as they were when it began.  Three facts close the gap: the  *)
(* row a transaction was loaded with is still its connection's unless it was   *)
(* collected (KnownRow), a collected row does not come back under its id        *)
(* (FreshApart), and a connection without a document of its own has exactly     *)
(* the one it was given (BareOf, BareConns).                                    *)

FreshApart == \A v, w \in Workers : tx[v].fresh => tx[v].target # tx[w].snap.specId

KnownRow(t) ==
  /\ t.pc \in Loaded /\ Live(t.conn) /\ Exists(t.snap.specId)
       => conn[t.conn].specId = t.snap.specId
  /\ t.pc \in {"bind", "finish", "deleting"} /\ t.target = t.snap.specId
       => conn[t.conn].specId = t.target

IsBare(c) == Mode[c] = "bare_url"

BareOf(t) ==
  /\ t.pc \in Loaded /\ IsBare(t.conn) => t.snap.hash = t.snap.blob
  /\ t.pc \in Loaded \ {"fetch"} /\ IsBare(t.conn)
       => t.kind = "upload" \/ t.doc = t.snap.blob
  /\ t.result = "ready" /\ t.pc # "idle" => t.pc = "settle" /\ IsBare(t.conn)
  /\ t.result = "ready" /\ t.pc = "settle" /\ Live(t.conn) => conn[t.conn].hash = None

BareConns == \A c \in Conns : IsBare(c) => conn[c].hash = conn[c].blob

MapInv == /\ FreshApart
          /\ BareConns
          /\ \A w \in Workers : KnownRow(tx[w]) /\ BareOf(tx[w])

\* A transaction that leaves knows nothing any more.
LEMMA LeftTx ==
  ASSUME IInv, NEW w \in Workers, Busy(w), End(w) \/ Rollback(w)
  PROVE  /\ Sets(w) /\ tx'[w].pc \in {"idle", "record"} /\ ~tx'[w].fresh
         /\ tx'[w].snap.specId = None /\ tx'[w].result = "error"
<1>1. Sets(w) /\ tx \in [Workers -> Tx]
  BY EndSets, RollbackSets DEF IInv, TypeOK
<1>2. CASE End(w)
  <2>1. tx'[w] = IdleTx
    BY <1>1, <1>2 DEF End
  <2> QED
    BY <1>1, <2>1 DEF IdleTx, Unbound
<1>3. CASE ~End(w)
  <2>1. tx'[w] = [IdleTx EXCEPT !.pc = "record", !.kind = "background", !.conn = tx[w].conn]
    BY <1>1, <1>3 DEF Rollback
  <2>2. tx'[w].pc = "record" /\ tx'[w].fresh = FALSE /\ tx'[w].snap = Unbound("absent")
        /\ tx'[w].result = "error"
    BY <2>1 DEF IdleTx
  <2> QED
    BY <1>1, <2>2 DEF Unbound
<1> QED
  BY <1>2, <1>3

LEMMA FreshIsRow ==
  ASSUME IInv, NEW v \in Workers, tx[v].fresh
  PROVE  tx[v].target # None /\ \A c \in Conns : Exists(conn[c].specId) => tx[v].target # conn[c].specId
<1>1. tx[v].target \in SpecIds /\ KeyOf(tx[v].target) = Key(v)
  BY DEF IInv, PcInv, Shape, Key
<1>2. \A s \in catalog : KeyOf(s) # Key(v)
  BY DEF IInv, KeyInv
<1> QED
  BY <1>1, <1>2, NoneIsNoRow DEF Exists

\* A step of w that writes no row.
LEMMA MapStep ==
  ASSUME IInv, MapInv, NEW w \in Workers, Sets(w), UNCHANGED <<catalog, conn>>,
         KnownRow(tx'[w]), BareOf(tx'[w]),
         tx'[w].fresh => \A v \in Workers : tx'[w].target # tx'[v].snap.specId,
         \A v \in Workers \ {w} : tx[v].fresh => tx[v].target # tx'[w].snap.specId
  PROVE  MapInv'
<1>1. \A v \in Workers \ {w} : tx'[v] = tx[v]
  BY DEF IInv, TypeOK, Sets
<1>2. FreshApart'
  BY <1>1 DEF MapInv, FreshApart
<1>3. BareConns'
  BY DEF MapInv, BareConns
<1>4. ASSUME NEW v \in Workers PROVE KnownRow(tx[v])' /\ BareOf(tx[v])'
  <2>1. KnownRow(tx'[v]) /\ BareOf(tx'[v])
    BY <1>1 DEF MapInv
  <2> QED
    BY <2>1 DEF KnownRow, BareOf, Live, Exists
<1> QED
  BY <1>2, <1>3, <1>4 DEF MapInv

LEMMA MapLeave ==
  ASSUME IInv, MapInv, NEW w \in Workers, Busy(w), End(w) \/ Rollback(w),
         UNCHANGED <<catalog, conn>>
  PROVE  MapInv'
<1>1. /\ Sets(w) /\ tx'[w].pc \in {"idle", "record"} /\ ~tx'[w].fresh
      /\ tx'[w].snap.specId = None /\ tx'[w].result = "error"
  BY LeftTx
<1>2. KnownRow(tx'[w]) /\ BareOf(tx'[w])
  BY <1>1 DEF KnownRow, BareOf, Loaded, Holding
<1>3. \A v \in Workers : tx[v].fresh => tx[v].target # None
  BY FreshIsRow
<1> QED
  BY <1>1, <1>2, <1>3, MapStep

\* A step of w within its transaction: its document and what it was loaded
\* with stay.
Within(w) ==
  /\ Sets(w)
  /\ tx'[w].conn = tx[w].conn /\ tx'[w].kind = tx[w].kind /\ tx'[w].result = tx[w].result
  /\ tx'[w].snap.specId = tx[w].snap.specId
  /\ tx'[w].snap.hash = tx[w].snap.hash
  /\ tx'[w].snap.blob = tx[w].snap.blob
  /\ tx'[w].pc \in Loaded => tx[w].pc \in Loaded
  /\ tx'[w].pc \in Loaded \ {"fetch"} => tx'[w].doc = tx[w].doc /\ tx[w].pc # "fetch"
  /\ tx'[w].pc # "idle"

LEMMA MapWithin ==
  ASSUME IInv, MapInv, NEW w \in Workers, Within(w), UNCHANGED <<catalog, conn>>,
         Busy(w), tx[w].pc # "settle",
         tx'[w].fresh => \A v \in Workers : tx'[w].target # tx[v].snap.specId,
         tx'[w].pc \in {"bind", "finish", "deleting"} /\ tx'[w].target = tx[w].snap.specId
            => conn[tx[w].conn].specId = tx[w].snap.specId
  PROVE  MapInv'
<1>1. KnownRow(tx[w]) /\ BareOf(tx[w])
  BY DEF MapInv
<1>2. KnownRow(tx'[w])
  BY <1>1 DEF KnownRow, Within
<1>3. tx[w].result # "ready"
  BY <1>1 DEF BareOf, Busy
<1>4. BareOf(tx'[w])
  BY <1>1, <1>3 DEF BareOf, Within
<1>5. \A v \in Workers : tx'[v].snap.specId = tx[v].snap.specId
  BY DEF Within, Sets, IInv, TypeOK
<1>6. \A v \in Workers : tx[v].fresh => tx[v].target # tx[w].snap.specId
  BY DEF MapInv, FreshApart
<1>7. tx'[w].fresh => \A v \in Workers : tx'[w].target # tx'[v].snap.specId
  BY <1>5
<1>8. Sets(w) /\ \A v \in Workers \ {w} : tx[v].fresh => tx[v].target # tx'[w].snap.specId
  BY <1>6 DEF Within
<1> QED
  BY <1>2, <1>4, <1>7, <1>8, MapStep

LEMMA MapFetch ==
  ASSUME IInv, RowInv, MapInv, NEW w \in Workers,
         (\E h \in Hashes : FetchSpec(w, h)) \/ FetchFails(w) \/ NoSpec(w)
  PROVE  MapInv'
<1>1. /\ tx \in [Workers -> Tx] /\ tx[w] \in Tx /\ Busy(w) /\ tx[w].pc = "fetch"
      /\ UNCHANGED <<catalog, conn>>
  BY DEF IInv, TypeOK, Runs, Busy, FetchSpec, FetchFails, NoSpec
<1>2. KnownRow(tx[w]) /\ BareOf(tx[w]) /\ RowOf(tx[w])
  BY DEF MapInv, RowInv
<1>3. ~tx[w].fresh
  BY <1>1 DEF IInv, PcInv, Shape
<1>4. \A v \in Workers : tx[v].fresh => tx[v].target # tx[w].snap.specId
  BY DEF MapInv, FreshApart
<1> USE DEF Loaded, Holding
<1>5. ASSUME NEW h \in Hashes, FetchSpec(w, h) PROVE MapInv'
  <2>1. tx'[w] = [tx[w] EXCEPT !.pc = "lookup", !.doc = h]
    BY <1>1, <1>5 DEF FetchSpec
  <2>2. /\ tx'[w].pc = "lookup" /\ tx'[w].conn = tx[w].conn /\ tx'[w].snap = tx[w].snap
        /\ tx'[w].doc = h /\ tx'[w].fresh = tx[w].fresh /\ tx'[w].result = tx[w].result
    BY <1>1, <2>1 DEF Tx
  <2>3. IsBare(tx[w].conn) => h = tx[w].snap.blob
    BY <1>5 DEF FetchSpec, Downloads, IsBare
  <2>4. KnownRow(tx'[w])
    BY <1>1, <1>2, <2>2 DEF KnownRow
  <2>5. BareOf(tx'[w])
    BY <1>1, <1>2, <2>2, <2>3 DEF BareOf
  <2>6. Sets(w)
    BY <1>5, FetchSpecSets DEF IInv
  <2> QED
    BY <1>1, <1>3, <1>4, <2>2, <2>4, <2>5, <2>6, MapStep
<1>6. CASE FetchFails(w) /\ Rollback(w)
  BY <1>1, <1>6, MapLeave
<1>7. CASE FetchFails(w) /\ ~Rollback(w)
  <2>1. tx'[w] = [tx[w] EXCEPT !.pc = "settle"]
    BY <1>1, <1>7 DEF FetchFails, Goto
  <2>2. /\ tx'[w].pc = "settle" /\ tx'[w].conn = tx[w].conn /\ tx'[w].snap = tx[w].snap
        /\ tx'[w].fresh = tx[w].fresh /\ tx'[w].result = tx[w].result
    BY <1>1, <2>1 DEF Tx
  <2>3. KnownRow(tx'[w]) /\ BareOf(tx'[w])
    BY <1>1, <1>2, <2>2 DEF KnownRow, BareOf
  <2>4. Sets(w)
    BY <1>7, FetchFailsSets DEF IInv
  <2> QED
    BY <1>1, <1>3, <1>4, <2>2, <2>3, <2>4, MapStep
<1>8. CASE NoSpec(w)
  <2> DEFINE r == IF Mode[tx[w].conn] = "bare_url" THEN "ready" ELSE "error"
  <2>1. tx'[w] = [tx[w] EXCEPT !.pc = "settle", !.result = r]
    BY <1>1, <1>8 DEF NoSpec
  <2>2. /\ tx'[w].pc = "settle" /\ tx'[w].conn = tx[w].conn /\ tx'[w].snap = tx[w].snap
        /\ tx'[w].fresh = tx[w].fresh /\ tx'[w].result = r
    BY <1>1, <2>1 DEF Tx
  <2>3. r = "ready" => IsBare(tx[w].conn)
    BY DEF IsBare
  <2>4. IsBare(tx[w].conn) => tx[w].snap.blob = None
    BY <1>8 DEF NoSpec, UsesBlob, IsBare
  <2>5. r = "ready" /\ Live(tx[w].conn) => conn[tx[w].conn].hash = None
    BY <1>1, <1>2, <2>3, <2>4 DEF RowOf, BareOf
  <2> HIDE DEF r
  <2>6. KnownRow(tx'[w])
    BY <2>2 DEF KnownRow
  <2>7. BareOf(tx'[w])
    BY <2>2, <2>3, <2>5 DEF BareOf
  <2>8. Sets(w)
    BY <1>8, NoSpecSets DEF IInv
  <2> QED
    BY <1>1, <1>3, <1>4, <2>2, <2>6, <2>7, <2>8, MapStep
<1> QED
  BY <1>5, <1>6, <1>7, <1>8

LEMMA MapLookup ==
  ASSUME IInv, RowInv, MapInv, NEW w \in Workers, Lookup(w)
  PROVE  MapInv'
<1>1. /\ tx \in [Workers -> Tx] /\ tx[w] \in Tx /\ tx[w].snap \in ConnRow /\ Busy(w)
      /\ tx[w].pc = "lookup" /\ UNCHANGED <<catalog, conn>> /\ catalog \subseteq SpecIds
  BY DEF IInv, TypeOK, Tx, Runs, Busy, Lookup
<1>2. KnownRow(tx[w]) /\ ~tx[w].fresh /\ Sets(w)
  BY <1>1, LookupSets DEF MapInv, IInv, PcInv, Shape
<1>3. CASE Rollback(w)
  BY <1>1, <1>3, MapLeave
<1>4. ASSUME NEW s \in Hits(w), Live(tx[w].conn),
             tx' = [tx EXCEPT ![w] = [@ EXCEPT !.pc = "bind", !.target = s,
                                               !.snap.status = "indexing"]]
      PROVE  MapInv'
  <2>1. tx'[w] = [tx[w] EXCEPT !.pc = "bind", !.target = s, !.snap.status = "indexing"]
    BY <1>1, <1>4
  <2>2. /\ tx'[w].pc = "bind" /\ tx'[w].conn = tx[w].conn /\ tx'[w].doc = tx[w].doc
        /\ tx'[w].target = s /\ tx'[w].fresh = tx[w].fresh
        /\ tx'[w].result = tx[w].result /\ tx'[w].kind = tx[w].kind
        /\ tx'[w].snap.hash = tx[w].snap.hash /\ tx'[w].snap.specId = tx[w].snap.specId
        /\ tx'[w].snap.blob = tx[w].snap.blob
    BY <1>1, <2>1 DEF Tx, ConnRow
  <2>3. s = tx[w].snap.specId => conn[tx[w].conn].specId = tx[w].snap.specId
    BY <1>1, <1>2, <1>4 DEF KnownRow, Hits, Exists, Loaded
  <2>4. Within(w)
    BY <1>1, <1>2, <2>2 DEF Within, Loaded, Holding
  <2> QED
    BY <1>1, <1>2, <2>2, <2>3, <2>4, MapWithin
<1>5. CASE tx' = [tx EXCEPT ![w] = [@ EXCEPT !.pc = "insert", !.snap.status = "indexing"]]
  <2>1. tx'[w] = [tx[w] EXCEPT !.pc = "insert", !.snap.status = "indexing"]
    BY <1>1, <1>5
  <2>2. /\ tx'[w].pc = "insert" /\ tx'[w].conn = tx[w].conn /\ tx'[w].doc = tx[w].doc
        /\ tx'[w].fresh = tx[w].fresh
        /\ tx'[w].result = tx[w].result /\ tx'[w].kind = tx[w].kind
        /\ tx'[w].snap.hash = tx[w].snap.hash /\ tx'[w].snap.specId = tx[w].snap.specId
        /\ tx'[w].snap.blob = tx[w].snap.blob
    BY <1>1, <2>1 DEF Tx, ConnRow
  <2>3. Within(w)
    BY <1>1, <1>2, <2>2 DEF Within, Loaded, Holding
  <2> QED
    BY <1>1, <1>2, <2>2, <2>3, MapWithin
<1> QED
  BY <1>3, <1>4, <1>5 DEF Lookup

LEMMA MapInsert ==
  ASSUME IInv, RowInv, MapInv, NEW w \in Workers, InsertRow(w)
  PROVE  MapInv'
<1> DEFINE free == { g \in Gens : ~Exists(<<Key(w), g>>) /\ ~Mentioned(<<Key(w), g>>) }
<1>1. /\ tx \in [Workers -> Tx] /\ tx[w] \in Tx /\ Busy(w)
      /\ tx[w].pc = "insert" /\ UNCHANGED <<catalog, conn>>
  BY DEF IInv, TypeOK, Runs, Busy, InsertRow
<1>2. CASE Rollback(w)
  BY <1>1, <1>2, MapLeave
<1>3. CASE ~Rollback(w)
  <2>1. free # {} /\ tx' = [tx EXCEPT ![w] =
                  [@ EXCEPT !.pc = "embed", !.fresh = TRUE,
                            !.target = <<Key(w), CHOOSE g \in free : TRUE>>]]
    BY <1>3 DEF InsertRow
  <2>2. PICK g \in free : tx'[w] = [tx[w] EXCEPT !.pc = "embed", !.fresh = TRUE,
                                                !.target = <<Key(w), g>>]
    BY <1>1, <2>1
  <2>3. /\ tx'[w].pc = "embed" /\ tx'[w].conn = tx[w].conn /\ tx'[w].snap = tx[w].snap
        /\ tx'[w].doc = tx[w].doc /\ tx'[w].target = <<Key(w), g>>
        /\ tx'[w].result = tx[w].result /\ tx'[w].kind = tx[w].kind
    BY <1>1, <2>2 DEF Tx
  <2>4. \A v \in Workers : <<Key(w), g>> # tx[v].snap.specId
    BY DEF Mentioned
  <2>5. Sets(w)
    BY <1>3, InsertRowSets DEF IInv
  <2>6. Within(w)
    BY <1>1, <2>3, <2>5 DEF Within, Loaded, Holding
  <2> HIDE DEF free
  <2> QED
    BY <1>1, <2>3, <2>4, <2>6, MapWithin
<1> QED
  BY <1>2, <1>3

\* The steps between the INSERT and the COMMIT.
LEMMA MapBind ==
  ASSUME IInv, RowInv, MapInv, NEW w \in Workers,
         Embed(w) \/ EmbedFails(w) \/ Bind(w) \/ DeleteOrphan(w)
  PROVE  MapInv'
<1>1. /\ tx \in [Workers -> Tx] /\ tx[w] \in Tx /\ Busy(w)
      /\ tx[w].pc \in {"embed", "bind", "finish"} /\ UNCHANGED <<catalog, conn>>
  BY DEF IInv, TypeOK, Runs, Busy, Embed, EmbedFails, Bind, DeleteOrphan
<1>2. CASE Rollback(w)
  BY <1>1, <1>2, MapLeave
<1>3. ASSUME NEW pc \in {"bind", "finish", "deleting"}, NEW g, Sets(w),
             tx'[w] = [tx[w] EXCEPT !.pc = pc, !.gc = g]
      PROVE  MapInv'
  <2>1. /\ tx'[w].pc = pc /\ tx'[w].conn = tx[w].conn /\ tx'[w].snap = tx[w].snap
        /\ tx'[w].doc = tx[w].doc /\ tx'[w].target = tx[w].target
        /\ tx'[w].result = tx[w].result /\ tx'[w].kind = tx[w].kind
        /\ tx'[w].fresh = tx[w].fresh
    BY <1>1, <1>3 DEF Tx
  <2>2. Within(w)
    BY <1>1, <1>3, <2>1 DEF Within, Loaded, Holding
  <2>3. tx[w].fresh => \A v \in Workers : tx[w].target # tx[v].snap.specId
    BY DEF MapInv, FreshApart
  <2>4. tx[w].pc = "embed" => tx[w].target # tx[w].snap.specId
    BY <2>3 DEF IInv, PcInv, Shape
  <2>5. tx[w].target = tx[w].snap.specId => conn[tx[w].conn].specId = tx[w].snap.specId
    BY <1>1, <2>4 DEF MapInv, KnownRow
  <2> QED
    BY <1>1, <2>1, <2>2, <2>3, <2>5, MapWithin
<1>4. ASSUME NEW pc \in {"bind", "finish", "deleting"}, Sets(w),
             tx'[w] = [tx[w] EXCEPT !.pc = pc]
      PROVE  MapInv'
  <2>1. [tx[w] EXCEPT !.pc = pc] = [tx[w] EXCEPT !.pc = pc, !.gc = tx[w].gc]
    BY <1>1 DEF Tx
  <2> QED
    BY <1>3, <1>4, <2>1
<1>5. CASE Embed(w)
  BY <1>1, <1>4, <1>5, EmbedSets DEF IInv, Embed, Goto
<1>6. CASE Bind(w) /\ ~Rollback(w)
  <2>1. Sets(w)
    BY <1>6, BindSets DEF IInv
  <2>2. CASE tx[w].snap.specId = None
    BY <1>1, <1>4, <1>6, <2>1, <2>2 DEF Bind, Goto
  <2>3. CASE tx[w].snap.specId # None
    <3>1. tx' = [tx EXCEPT ![w] = [@ EXCEPT !.pc = "finish", !.gc = Orphan(w)]]
      BY <1>6, <2>3 DEF Bind
    <3> QED
      BY <1>1, <1>3, <2>1, <3>1
  <2> QED
    BY <2>2, <2>3
<1>7. CASE DeleteOrphan(w)
  <2>1. Sets(w) /\ tx[w].pc = "finish"
    BY <1>7, DeleteOrphanSets DEF IInv, DeleteOrphan, Runs
  <2>2. CASE Exists(tx[w].gc)
    <3>1. tx' = [tx EXCEPT ![w].pc = "deleting"]
      BY <1>7, <2>2 DEF DeleteOrphan
    <3> QED
      BY <1>1, <1>4, <2>1, <3>1
  <2>3. CASE ~Exists(tx[w].gc)
    <3>1. tx' = [tx EXCEPT ![w].gc = None]
      BY <1>7, <2>3 DEF DeleteOrphan
    <3>2. tx'[w] = [tx[w] EXCEPT !.pc = "finish", !.gc = None]
      BY <1>1, <2>1, <3>1 DEF Tx
    <3> QED
      BY <1>3, <2>1, <3>2
  <2> QED
    BY <2>2, <2>3
<1> QED
  BY <1>2, <1>5, <1>6, <1>7 DEF EmbedFails

LEMMA MapClient ==
  ASSUME IInv, BindInv, RowInv, MapInv, Client \/ Schedule
  PROVE  MapInv'
<1>1. /\ tx \in [Workers -> Tx] /\ conn \in [Conns -> ConnRow]
      /\ \A v \in Workers : KnownRow(tx[v]) /\ BareOf(tx[v])
  BY DEF IInv, TypeOK, MapInv
<1>2. ASSUME NEW w \in Workers, NEW c \in Conns, NEW kind \in Kinds,
             NEW pc \in {"fetch", "lookup", "settle"}, NEW doc \in Hashes \cup {None},
             pc = "lookup" => kind = "upload" /\ doc \in Hashes,
             Begin(w, c, kind, pc, doc), UNCHANGED <<catalog, conn>>
      PROVE  MapInv'
  <2>1. tx' = [tx EXCEPT ![w] = [IdleTx EXCEPT !.pc = pc, !.kind = kind, !.conn = c,
                                               !.snap = conn[c], !.doc = doc]]
    BY <1>2 DEF Begin
  <2>2. /\ tx'[w].pc = pc /\ tx'[w].conn = c /\ tx'[w].snap = conn[c]
        /\ tx'[w].kind = kind /\ tx'[w].result = "error" /\ tx'[w].fresh = FALSE
        /\ \A v \in Workers \ {w} : tx'[v] = tx[v]
    BY <1>1, <2>1 DEF IdleTx
  <2>3. KnownRow(tx'[w])
    BY <2>2 DEF KnownRow
  <2>4. IsBare(c) => conn[c].hash = conn[c].blob
    BY DEF MapInv, BareConns
  <2>5. BareOf(tx'[w])
    BY <1>2, <2>2, <2>4 DEF BareOf, Loaded, Holding
  <2>6. \A v \in Workers : tx[v].fresh => tx[v].target # conn[c].specId
    BY FreshIsRow DEF BindInv, NoDanglingSpec
  <2>7. FreshApart'
    BY <2>2, <2>6 DEF MapInv, FreshApart
  <2>8. BareConns'
    BY <1>2 DEF MapInv, BareConns
  <2>9. ASSUME NEW v \in Workers PROVE KnownRow(tx[v])' /\ BareOf(tx[v])'
    <3>1. KnownRow(tx'[v]) /\ BareOf(tx'[v])
      BY <1>1, <2>2, <2>3, <2>5
    <3> QED
      BY <1>2, <3>1 DEF KnownRow, BareOf, Live, Exists
  <2> QED
    BY <2>7, <2>8, <2>9 DEF MapInv
<1>3. ASSUME NEW c \in Conns, UNCHANGED <<catalog, tx>>, NEW s,
             conn' = [conn EXCEPT ![c] = Unbound(s)],
             \A v \in Workers : Busy(v) /\ tx[v].conn = c =>
                s = "deleted" /\ tx[v].pc \notin Holding
      PROVE  MapInv'
  <2>1. conn'[c] = Unbound(s) /\ \A d \in Conns \ {c} : conn'[d] = conn[d]
    BY <1>1, <1>3
  <2>2. FreshApart'
    BY <1>3 DEF MapInv, FreshApart
  <2>3. BareConns'
    BY <2>1 DEF MapInv, BareConns, Unbound
  <2>4. ASSUME NEW v \in Workers PROVE KnownRow(tx[v])' /\ BareOf(tx[v])'
    <3>1. CASE ~Busy(v)
      BY <1>3, <3>1 DEF Busy, KnownRow, BareOf, Loaded, Holding
    <3>2. CASE Busy(v) /\ tx[v].conn = c
      <4>1. ~Live(c)' /\ tx[v].pc \notin Holding
        BY <1>3, <2>1, <3>2 DEF Live, Unbound
      <4>2. KnownRow(tx[v])'
        BY <1>3, <3>2, <4>1 DEF KnownRow, Holding
      <4>3. BareOf(tx[v])
        BY <1>1
      <4>4. BareOf(tx[v])'
        BY <1>3, <3>2, <4>1, <4>3 DEF BareOf
      <4> QED
        BY <4>2, <4>4
    <3>3. CASE Busy(v) /\ tx[v].conn # c
      <4>1. conn'[tx[v].conn] = conn[tx[v].conn] /\ KnownRow(tx[v]) /\ BareOf(tx[v])
        BY <1>1, <2>1, <3>3 DEF IInv, PcInv, Shape, Busy
      <4> QED
        BY <1>3, <4>1 DEF KnownRow, BareOf, Live, Exists
    <3> QED
      BY <3>1, <3>2, <3>3
  <2> QED
    BY <2>2, <2>3, <2>4 DEF MapInv
<1>4. ASSUME NEW c \in Conns, CreateConnection(c) PROVE MapInv'
  <2>1. /\ conn[c].status = "absent" /\ UNCHANGED <<catalog, tx>>
        /\ conn' = [conn EXCEPT ![c] = Unbound("pending")]
    BY <1>4 DEF CreateConnection
  <2>2. \A v \in Workers : Busy(v) => conn[tx[v].conn].status # "absent"
    BY DEF RowInv, RowOf, Busy
  <2> QED
    BY <1>3, <2>1, <2>2
<1>5. ASSUME NEW c \in Conns, DeleteConnection(c) PROVE MapInv'
  BY <1>3, <1>5 DEF DeleteConnection, HoldsRow, Holding
<1>6. ASSUME UNCHANGED <<catalog, conn, tx>> PROVE MapInv'
  BY <1>6 DEF MapInv, FreshApart, BareConns, KnownRow, BareOf, Live, Exists
<1>7. ASSUME NEW w \in Workers, NEW c \in Conns,
             StartJob(w, c) \/ RequestReindex(w, c) \/ UploadSpec(w, c)
      PROVE  MapInv'
  BY <1>2, <1>7 DEF StartJob, RequestReindex, UploadSpec, Kinds
<1> QED
  BY <1>4, <1>5, <1>6, <1>7 DEF Client, Schedule, DropJob

\* What a transaction knows outlasts the COMMIT of another.
LEMMA KnowsStill ==
  ASSUME IInv, MapInv, NEW v \in Workers, tx'[v] = tx[v], tx[v].conn \in Conns,
         NEW c, c = tx[v].conn,
         conn'[c].status = conn[c].status, conn'[c].hash = conn[c].hash,
         tx[v].snap.specId \in catalog' => tx[v].snap.specId \in catalog,
         \/ conn'[c].specId = conn[c].specId
         \/ conn[c].specId \notin catalog' /\ tx[v].pc \notin Holding
  PROVE  KnownRow(tx[v])' /\ BareOf(tx[v])'
<1>1. KnownRow(tx[v]) /\ BareOf(tx[v])
  BY DEF MapInv
<1>2. Live(c)' <=> Live(c)
  BY DEF Live
<1>3. BareOf(tx[v])'
  BY <1>1, <1>2 DEF BareOf
<1>4. ASSUME tx[v].pc \in Loaded, Live(c)', tx[v].snap.specId \in catalog'
      PROVE  conn'[c].specId = tx[v].snap.specId
  <2>1. tx[v].snap.specId \in catalog /\ Live(c)
    BY <1>2, <1>4
  <2>2. conn[c].specId = tx[v].snap.specId
    BY <1>1, <1>4, <2>1 DEF KnownRow, Exists
  <2> QED
    BY <1>4, <2>2
<1>5. ASSUME tx[v].pc \in {"bind", "finish", "deleting"}, tx[v].target = tx[v].snap.specId
      PROVE  conn'[c].specId = tx[v].target
  <2>1. conn'[c].specId = conn[c].specId
    BY <1>5 DEF Holding
  <2> QED
    BY <1>1, <1>5, <2>1 DEF KnownRow
<1>6. KnownRow(tx[v])'
  BY <1>4, <1>5 DEF KnownRow, Exists
<1> QED
  BY <1>3, <1>6

\* The end of a transaction that writes its connection: the others know what
\* they knew.
LEMMA MapEnds ==
  ASSUME IInv, RowInv, MapInv, NEW w \in Workers, Busy(w), End(w), BareConns',
         \A v \in Workers \ {w} : Busy(v) => KnownRow(tx[v])' /\ BareOf(tx[v])'
  PROVE  MapInv'
<1>1. tx \in [Workers -> Tx] /\ tx' = [tx EXCEPT ![w] = IdleTx]
  BY DEF IInv, TypeOK, End
<1>2. tx'[w] = IdleTx /\ \A v \in Workers \ {w} : tx'[v] = tx[v]
  BY <1>1
<1>3. IdleTx.pc = "idle" /\ IdleTx.fresh = FALSE /\ IdleTx.snap.specId = None
  BY DEF IdleTx, Unbound
<1>4. \A v \in Workers : tx[v].fresh => tx[v].target # None
  BY FreshIsRow
<1>5. FreshApart'
  BY <1>2, <1>3, <1>4 DEF MapInv, FreshApart
<1>6. ASSUME NEW v \in Workers PROVE KnownRow(tx[v])' /\ BareOf(tx[v])'
  <2>1. CASE Busy(v)'
    <3>1. v # w /\ Busy(v)
      BY <1>2, <1>3, <2>1 DEF Busy
    <3> QED
      BY <3>1
  <2>2. CASE ~Busy(v)'
    BY <2>2 DEF Busy, KnownRow, BareOf, Loaded, Holding
  <2> QED
    BY <2>1, <2>2
<1> QED
  BY <1>5, <1>6 DEF MapInv

LEMMA MapStatus ==
  ASSUME IInv, RowInv, MapInv, NEW w \in Workers, Settle(w) \/ RecordFailure(w)
  PROVE  MapInv'
<1> DEFINE c == tx[w].conn
<1>1. /\ tx \in [Workers -> Tx] /\ conn \in [Conns -> ConnRow] /\ tx[w] \in Tx
      /\ c \in Conns /\ Busy(w) /\ UNCHANGED catalog
  BY DEF Settle, RecordFailure, Runs, Busy, IInv, TypeOK, PcInv, Shape
<1>2. CASE UNCHANGED conn
  BY <1>1, <1>2, MapLeave DEF Settle, RecordFailure
<1>3. CASE ~UNCHANGED conn
  <2>1. End(w)
    BY <1>3 DEF Settle, RecordFailure
  <2>2. PICK s : conn' = [conn EXCEPT ![c].status = s]
    BY <1>3 DEF Settle, RecordFailure
  <2>3. /\ \A d \in Conns : conn'[d].specId = conn[d].specId /\ conn'[d].hash = conn[d].hash
                            /\ conn'[d].blob = conn[d].blob
        /\ \A d \in Conns \ {c} : conn'[d].status = conn[d].status
    BY <1>1, <2>2 DEF ConnRow
  <2>4. BareConns'
    BY <2>3 DEF MapInv, BareConns
  <2>5. ASSUME NEW v \in Workers \ {w}, Busy(v) PROVE KnownRow(tx[v])' /\ BareOf(tx[v])'
    <3>1. tx'[v] = tx[v] /\ tx[v].conn \in Conns
      BY <1>1, <2>1, <2>5 DEF End, IInv, PcInv, Shape, Busy
    <3>2. tx[v].conn # c
      BY <1>1, <2>5 DEF RowInv, Apart
    <3> HIDE DEF c
    <3>3. /\ conn'[tx[v].conn].status = conn[tx[v].conn].status
          /\ conn'[tx[v].conn].hash = conn[tx[v].conn].hash
          /\ conn'[tx[v].conn].specId = conn[tx[v].conn].specId
      BY <2>3, <3>1, <3>2
    <3> QED
      BY <1>1, <3>1, <3>3, KnowsStill
  <2> QED
    BY <1>1, <2>1, <2>4, <2>5, MapEnds
<1> QED
  BY <1>2, <1>3

\* A connection without a document of its own is left with the one upload it
\* was given, in both columns.
LEMMA IndexedBare ==
  ASSUME IInv, RowInv, MapInv, NEW w \in Workers, tx[w].pc \in {"finish", "deleting"},
         IsBare(tx[w].conn)
  PROVE  Indexed(w).hash = Indexed(w).blob
<1>1. RowOf(tx[w]) /\ Live(tx[w].conn) /\ tx[w].conn \in Conns
  BY DEF RowInv, RowOf, Holding, IInv, PcInv, Shape
<1>2. conn[tx[w].conn].hash = tx[w].snap.hash
  BY <1>1 DEF RowOf, Loaded, Holding
<1>3. conn[tx[w].conn].hash = conn[tx[w].conn].blob
  BY <1>1 DEF MapInv, BareConns
<1>4. tx[w].snap.hash = tx[w].snap.blob /\ (tx[w].kind = "upload" \/ tx[w].doc = tx[w].snap.blob)
  BY DEF MapInv, BareOf, Loaded, Holding
<1> QED
  BY <1>2, <1>3, <1>4 DEF Indexed

\* The row a transaction publishes is not the one another was loaded with.
LEMMA PublishNew ==
  ASSUME MapInv, NEW w \in Workers, NEW v \in Workers, tx[v].snap.specId \in Publish(w)
  PROVE  tx[v].snap.specId \in catalog
BY DEF Publish, MapInv, FreshApart

LEMMA MapCommit ==
  ASSUME IInv, BindInv, RowInv, MapInv, NEW w \in Workers, Commit(w)
  PROVE  MapInv'
<1> DEFINE c == tx[w].conn
<1>1. /\ tx \in [Workers -> Tx] /\ conn \in [Conns -> ConnRow]
      /\ c \in Conns /\ Busy(w) /\ tx[w].pc = "finish"
  BY DEF Commit, Runs, Busy, IInv, TypeOK, PcInv, Shape
<1>2. CASE Rollback(w) /\ UNCHANGED <<catalog, conn>>
  BY <1>1, <1>2, MapLeave
<1>3. CASE ~(Rollback(w) /\ UNCHANGED <<catalog, conn>>)
  <2>1. /\ catalog' = Publish(w) /\ End(w)
        /\ conn' = [conn EXCEPT ![c] = Indexed(w)]
    BY <1>3 DEF Commit
  <2>2. conn'[c] = Indexed(w) /\ \A d \in Conns \ {c} : conn'[d] = conn[d]
    BY <1>1, <2>1
  <2>3. BareConns'
    BY <1>1, <2>2, IndexedBare DEF MapInv, BareConns
  <2>4. ASSUME NEW v \in Workers \ {w}, Busy(v) PROVE KnownRow(tx[v])' /\ BareOf(tx[v])'
    <3>1. tx'[v] = tx[v] /\ tx[v].conn \in Conns
      BY <1>1, <2>1, <2>4 DEF End, IInv, PcInv, Shape, Busy
    <3>2. tx[v].conn # c
      BY <1>1, <2>4 DEF RowInv, Apart
    <3> HIDE DEF c
    <3>3. conn'[tx[v].conn] = conn[tx[v].conn]
      BY <2>2, <3>1, <3>2
    <3>4. tx[v].snap.specId \in catalog' => tx[v].snap.specId \in catalog
      BY <2>1, PublishNew
    <3> QED
      BY <3>1, <3>3, <3>4, KnowsStill
  <2> QED
    BY <1>1, <2>1, <2>3, <2>4, MapEnds
<1> QED
  BY <1>2, <1>3

\* What a COMMIT that deletes a row leaves on every connection.
LEMMA DeletedConn ==
  ASSUME IInv, NEW w \in Workers, CommitDelete(w), NEW d \in Conns,
         NEW r, r = IF d = tx[w].conn THEN Indexed(w) ELSE conn[d]
  PROVE  /\ r \in ConnRow
         /\ conn'[d].status = r.status /\ conn'[d].hash = r.hash /\ conn'[d].blob = r.blob
         /\ conn'[d].specId = IF r.specId = tx[w].gc THEN None ELSE r.specId
<1> DEFINE rows == [conn EXCEPT ![tx[w].conn] = Indexed(w)]
<1>1. conn \in [Conns -> ConnRow] /\ tx[w].conn \in Conns /\ tx[w].pc = "deleting"
  BY DEF CommitDelete, Runs, IInv, TypeOK, PcInv, Shape
<1>2. conn' = [e \in Conns |-> IF rows[e].specId = tx[w].gc
                               THEN [rows[e] EXCEPT !.specId = None]
                               ELSE rows[e]]
  BY DEF CommitDelete
<1>3. rows[d] = r /\ r \in ConnRow
  BY <1>1, IndexedType DEF IInv
<1> HIDE DEF rows
<1>4. conn'[d] = IF r.specId = tx[w].gc THEN [r EXCEPT !.specId = None] ELSE r
  BY <1>2, <1>3
<1> QED
  BY <1>3, <1>4 DEF ConnRow

LEMMA MapCommitDelete ==
  ASSUME IInv, BindInv, RowInv, MapInv, NEW w \in Workers, CommitDelete(w)
  PROVE  MapInv'
<1> DEFINE c == tx[w].conn
<1>1. /\ tx \in [Workers -> Tx] /\ conn \in [Conns -> ConnRow]
      /\ c \in Conns /\ Busy(w) /\ tx[w].pc = "deleting"
  BY DEF CommitDelete, Runs, Busy, IInv, TypeOK, PcInv, Shape
<1>2. catalog' = Publish(w) \ {tx[w].gc} /\ End(w)
  BY DEF CommitDelete
<1>3. \A d \in Conns \ {c} : /\ conn'[d].status = conn[d].status
                             /\ conn'[d].hash = conn[d].hash /\ conn'[d].blob = conn[d].blob
                             /\ conn'[d].specId = IF conn[d].specId = tx[w].gc
                                                  THEN None ELSE conn[d].specId
  BY DeletedConn
<1>4. conn'[c].hash = Indexed(w).hash /\ conn'[c].blob = Indexed(w).blob
  BY <1>1, DeletedConn
<1>5. BareConns'
  BY <1>1, <1>3, <1>4, IndexedBare DEF MapInv, BareConns
<1>6. ASSUME NEW v \in Workers \ {w}, Busy(v) PROVE KnownRow(tx[v])' /\ BareOf(tx[v])'
  <2>1. tx'[v] = tx[v] /\ tx[v].conn \in Conns
    BY <1>1, <1>2, <1>6 DEF End, IInv, PcInv, Shape, Busy
  <2>2. tx[v].conn # c
    BY <1>1, <1>6 DEF RowInv, Apart
  <2>3. HoldsRow(v) => conn[tx[v].conn].specId # tx[w].gc
    BY <1>1, <1>6 DEF CommitDelete, Runs, Blockers
  <2> HIDE DEF c
  <2>4. /\ conn'[tx[v].conn].status = conn[tx[v].conn].status
        /\ conn'[tx[v].conn].hash = conn[tx[v].conn].hash
        /\ conn'[tx[v].conn].specId = IF conn[tx[v].conn].specId = tx[w].gc
                                      THEN None ELSE conn[tx[v].conn].specId
    BY <1>3, <2>1, <2>2
  <2>5. tx[v].snap.specId \in catalog' => tx[v].snap.specId \in catalog
    BY <1>2, PublishNew
  <2>6. \/ conn'[tx[v].conn].specId = conn[tx[v].conn].specId
        \/ conn[tx[v].conn].specId \notin catalog' /\ tx[v].pc \notin Holding
    BY <1>2, <2>3, <2>4 DEF HoldsRow, Holding
  <2> QED
    BY <2>1, <2>4, <2>5, <2>6, KnowsStill
<1> QED
  BY <1>1, <1>2, <1>5, <1>6, MapEnds

LEMMA MapKept ==
  ASSUME IInv, BindInv, RowInv, MapInv, [Next]_vars
  PROVE  MapInv'
<1>1. ASSUME NEW w \in Workers, Step(w) PROVE MapInv'
  <2>1. CASE DeadlockAbort(w)
    <3>1. Busy(w)
      BY <2>1 DEF DeadlockAbort, DeadlockVictim, Cycle, Blockers, Busy
    <3> QED
      BY <2>1, <3>1, MapLeave DEF DeadlockAbort
  <2>2. CASE (\E h \in Hashes : FetchSpec(w, h)) \/ FetchFails(w) \/ NoSpec(w)
    BY <2>2, MapFetch
  <2>3. CASE Embed(w) \/ EmbedFails(w) \/ Bind(w) \/ DeleteOrphan(w)
    BY <2>3, MapBind
  <2>4. CASE Settle(w) \/ RecordFailure(w)
    BY <2>4, MapStatus
  <2> QED
    BY <1>1, <2>1, <2>2, <2>3, <2>4, MapLookup, MapInsert, MapCommit, MapCommitDelete
       DEF Step
<1>2. CASE Crash
  BY <1>2 DEF Crash, MapInv, FreshApart, BareConns, KnownRow, BareOf, IdleTx, Unbound,
              Loaded, Holding
<1>3. CASE UNCHANGED vars
  BY <1>3 DEF vars, MapInv, FreshApart, BareConns, KnownRow, BareOf, Live, Exists
<1> QED
  BY <1>1, <1>2, <1>3, MapClient DEF Next, Work

LEMMA MapInit == Init => MapInv
BY DEF Init, MapInv, FreshApart, BareConns, KnownRow, BareOf, IdleTx, Unbound, Loaded, Holding

-----------------------------------------------------------------------------
(* Every step is a step of the catalog without transactions, or writes no    *)
(* committed row.                                                           *)

SharedStep == [Shared!CatalogNext]_(Shared!catalogVars)

LEMMA SharedSame ==
  ASSUME UNCHANGED <<catalog, conn>>
  PROVE  SharedStep
BY DEF SharedStep, Shared!catalogVars

\* The INSERT and the DELETE of a connection.
LEMMA SharedBecomes ==
  ASSUME IInv, NEW c \in Conns, CreateConnection(c) \/ DeleteConnection(c)
  PROVE  SharedStep
<1>1. PICK s \in {"pending", "deleted"} :
        /\ conn' = [conn EXCEPT ![c] = Unbound(s)]
        /\ s = "pending" => conn[c].status = "absent"
        /\ s = "deleted" => Live(c)
  BY DEF CreateConnection, DeleteConnection
<1>2. conn \in [Conns -> ConnRow] /\ UNCHANGED catalog
  BY DEF IInv, TypeOK, CreateConnection, DeleteConnection
<1>3. /\ conn'[c].status = s /\ conn'[c].specId = None /\ conn'[c].hash = None
      /\ \A d \in Conns \ {c} : conn'[d] = conn[d]
  BY <1>1, <1>2 DEF Unbound
<1>4. Shared!Becomes(c, s)
  BY <1>2, <1>3 DEF Shared!Becomes
<1>5. Shared!Open(c) \/ Shared!Close(c)
  BY <1>1, <1>4 DEF Shared!Open, Shared!Close, Shared!InUse, Live
<1> QED
  BY <1>5 DEF SharedStep, Shared!CatalogNext

\* The COMMIT of a request that indexed nothing.
LEMMA SharedReport ==
  ASSUME IInv, MapInv, NEW w \in Workers, Settle(w) \/ RecordFailure(w)
  PROVE  SharedStep
<1> DEFINE c == tx[w].conn
<1>1. conn \in [Conns -> ConnRow] /\ c \in Conns /\ UNCHANGED catalog /\ tx[w] \in Tx
  BY DEF Settle, RecordFailure, Runs, IInv, TypeOK, PcInv, Shape
<1>2. CASE UNCHANGED conn
  BY <1>1, <1>2, SharedSame
<1>3. CASE ~UNCHANGED conn
  <2>1. PICK r \in {"ready", "error"} :
          /\ conn' = [conn EXCEPT ![c].status = r] /\ Live(c)
          /\ r = "ready" => tx[w].result = "ready" /\ tx[w].pc = "settle"
    BY <1>1, <1>3 DEF Settle, RecordFailure, Runs, Tx
  <2>2. r = "ready" => IsBare(c) /\ conn[c].hash = None
    BY <2>1 DEF MapInv, BareOf
  <2> HIDE DEF c
  <2>3. /\ \A d \in Conns : /\ conn'[d].specId = conn[d].specId
                            /\ conn'[d].hash = conn[d].hash
                            /\ conn'[d].status = IF d = c THEN r ELSE conn[d].status
    BY <1>1, <2>1 DEF ConnRow
  <2>4. Shared!Report(c, r)
    BY <1>1, <2>1, <2>2, <2>3 DEF Shared!Report, Shared!InUse, Live, IsBare
  <2> QED
    BY <1>1, <2>4 DEF SharedStep, Shared!CatalogNext
<1> QED
  BY <1>2, <1>3

\* What a COMMIT binds: the row of its document, in the catalog or new in it.
LEMMA CommitTarget ==
  ASSUME IInv, BindInv, RowInv, MapInv, NEW w \in Workers, tx[w].pc \in {"finish", "deleting"},
         tx[w].snap.specId = None => ~ChecksFK(w) \/ Exists(tx[w].target)
  PROVE  /\ Live(tx[w].conn) /\ tx[w].conn \in Conns /\ tx[w].doc \in Hashes
         /\ tx[w].target \in SpecIds
         /\ KeyOf(tx[w].target) = Identity(tx[w].conn, tx[w].doc)
         /\ tx[w].target \in catalog \/ \A t \in catalog : KeyOf(t) # KeyOf(tx[w].target)
         /\ Publish(w) = catalog \cup {tx[w].target}
         /\ Indexed(w).specId = tx[w].target
         /\ Indexed(w).hash = tx[w].doc
         /\ Indexed(w).status = "ready"
<1>1. /\ RowOf(tx[w]) /\ KnownRow(tx[w]) /\ tx[w].conn \in Conns /\ tx[w].doc \in Hashes
  BY DEF RowInv, MapInv, IInv, PcInv, Shape
<1>2. /\ Live(tx[w].conn) /\ tx[w].target \in SpecIds
      /\ KeyOf(tx[w].target) = Identity(tx[w].conn, tx[w].doc)
  BY <1>1 DEF RowOf, Holding, Bound
<1>3. tx[w].target = tx[w].snap.specId => conn[tx[w].conn].specId = tx[w].target
  BY <1>1 DEF KnownRow
<1>4. Indexed(w).specId = tx[w].target /\ Indexed(w).status = "ready"
  BY <1>3 DEF Indexed, Rebinds
<1>5. Indexed(w).hash = tx[w].doc
  BY IndexedAgrees
<1>6. CASE tx[w].fresh
  <2>1. \A t \in catalog : KeyOf(t) # KeyOf(tx[w].target)
    BY <1>2, <1>6 DEF IInv, KeyInv, Key
  <2> QED
    BY <1>1, <1>2, <1>4, <1>5, <1>6, <2>1 DEF Publish
<1>7. CASE ~tx[w].fresh
  <2>1. tx[w].target \in catalog
    <3>1. CASE Rebinds(w)
      BY <1>7, <3>1, TargetPublished DEF ChecksFK, Publish
    <3>2. CASE ~Rebinds(w)
      BY <1>1, <1>2, <1>3, <3>2, NoneIsNoRow DEF Rebinds, BindInv, NoDanglingSpec, Exists
    <3> QED
      BY <3>1, <3>2
  <2> QED
    BY <1>1, <1>2, <1>4, <1>5, <1>7, <2>1 DEF Publish
<1> QED
  BY <1>6, <1>7

\* Writes that amount to one indexing.
IndexedAs(c, h, s, gone) ==
  /\ c \in Conns /\ h \in Hashes /\ s \in SpecIds
  /\ gone \in SUBSET {conn[c].specId}
  /\ Live(c) /\ KeyOf(s) = Identity(c, h)
  /\ s \in catalog \/ \A t \in catalog : KeyOf(t) # KeyOf(s)
  /\ catalog' = (catalog \cup {s}) \ gone

Bindings(c, s) == [d \in Conns |-> IF d = c THEN s ELSE conn[d].specId]

Written(c, h, gone, b) ==
  \A d \in Conns : /\ conn'[d].status = IF d = c THEN "ready" ELSE conn[d].status
                   /\ conn'[d].hash = IF d = c THEN h ELSE conn[d].hash
                   /\ conn'[d].specId = IF b[d] \in gone THEN None ELSE b[d]

LEMMA SharedReindex ==
  ASSUME conn \in [Conns -> ConnRow], NEW c, NEW h, NEW s, NEW gone,
         IndexedAs(c, h, s, gone), Written(c, h, gone, Bindings(c, s))
  PROVE  SharedStep
<1> USE DEF IndexedAs
<1> DEFINE bound == [d \in Conns |-> conn[d].specId]
           bindings == [bound EXCEPT ![c] = s]
<1>1. \A d \in Conns : bindings[d] = Bindings(c, s)[d]
  BY DEF Bindings
<1>2. Shared!Finds(c, h, s)
  BY DEF Shared!Finds, KeyOf
<1>3. [d \in Conns |-> conn'[d].specId]
        = [d \in Conns |-> IF bindings[d] \in gone THEN None ELSE bindings[d]]
  BY <1>1 DEF Written
<1>4. Shared!Reindex(c, h, s, gone)
  BY <1>2, <1>3 DEF Written, Shared!Reindex, Shared!InUse, Live
<1>5. gone \in SUBSET {bound[c]}
  OBVIOUS
<1> QED
  BY <1>4, <1>5 DEF SharedStep, Shared!CatalogNext

LEMMA SharedCommit ==
  ASSUME IInv, BindInv, RowInv, MapInv, NEW w \in Workers, Commit(w)
  PROVE  SharedStep
<1>1. conn \in [Conns -> ConnRow] /\ tx[w].pc = "finish"
  BY DEF Commit, Runs, IInv, TypeOK
<1>2. CASE UNCHANGED <<catalog, conn>>
  BY <1>2, SharedSame
<1>3. CASE ~UNCHANGED <<catalog, conn>>
  <2>1. PICK c, s, h : c = tx[w].conn /\ s = tx[w].target /\ h = tx[w].doc
    OBVIOUS
  <2>2. /\ catalog' = Publish(w)
        /\ conn' = [conn EXCEPT ![c] = Indexed(w)]
        /\ tx[w].snap.specId = None => ~ChecksFK(w) \/ Exists(tx[w].target)
    BY <1>3, <2>1 DEF Commit
  <2>3. /\ Live(c) /\ c \in Conns /\ h \in Hashes /\ s \in SpecIds
        /\ KeyOf(s) = Identity(c, h)
        /\ s \in catalog \/ \A t \in catalog : KeyOf(t) # KeyOf(s)
        /\ Publish(w) = catalog \cup {s}
        /\ Indexed(w).specId = s /\ Indexed(w).hash = h
        /\ Indexed(w).status = "ready"
    BY <1>1, <2>1, <2>2, CommitTarget
  <2>4. conn'[c] = Indexed(w) /\ \A d \in Conns \ {c} : conn'[d] = conn[d]
    BY <1>1, <2>2, <2>3
  <2>5. catalog' = (catalog \cup {s}) \ {}
    BY <2>2, <2>3
  <2>6. PICK b : b = Bindings(c, s)
    OBVIOUS
  <2>7. Written(c, h, {}, b)
    BY <2>3, <2>4, <2>6 DEF Bindings, Written
  <2>8. IndexedAs(c, h, s, {})
    BY <2>3, <2>5 DEF IndexedAs
  <2> QED
    BY <1>1, <2>6, <2>7, <2>8, SharedReindex
<1> QED
  BY <1>2, <1>3

\* The row a COMMIT deletes is its connection's, or is gone already.
LEMMA SharedCommitDelete ==
  ASSUME IInv, BindInv, RowInv, MapInv, NEW w \in Workers, CommitDelete(w)
  PROVE  SharedStep
<1>1. PICK c, s, h, g : c = tx[w].conn /\ s = tx[w].target /\ h = tx[w].doc /\ g = tx[w].gc
  OBVIOUS
<1>2. /\ conn \in [Conns -> ConnRow] /\ tx[w].pc = "deleting"
      /\ g = tx[w].snap.specId /\ g # None
      /\ catalog' = Publish(w) \ {g}
  BY <1>1 DEF CommitDelete, Runs, IInv, TypeOK, BindInv, GcInv
<1>3. /\ Live(c) /\ c \in Conns /\ h \in Hashes /\ s \in SpecIds
      /\ KeyOf(s) = Identity(c, h)
      /\ s \in catalog \/ \A t \in catalog : KeyOf(t) # KeyOf(s)
      /\ Publish(w) = catalog \cup {s}
      /\ Indexed(w).specId = s /\ Indexed(w).hash = h
      /\ Indexed(w).status = "ready"
  BY <1>1, <1>2, CommitTarget
<1>4. PICK b : b = Bindings(c, s)
  OBVIOUS
<1>5. ASSUME NEW d \in Conns
      PROVE  /\ conn'[d].status = IF d = c THEN "ready" ELSE conn[d].status
             /\ conn'[d].hash = IF d = c THEN h ELSE conn[d].hash
             /\ conn'[d].specId = IF b[d] = g THEN None ELSE b[d]
  <2>1. PICK r : r = IF d = tx[w].conn THEN Indexed(w) ELSE conn[d]
    OBVIOUS
  <2>2. /\ conn'[d].status = r.status /\ conn'[d].hash = r.hash
        /\ conn'[d].specId = IF r.specId = tx[w].gc THEN None ELSE r.specId
    BY <2>1, DeletedConn
  <2>3. r.specId = b[d]
    BY <1>1, <1>3, <1>4, <2>1 DEF Bindings
  <2> QED
    BY <1>1, <1>3, <2>1, <2>2, <2>3
<1>6. /\ g \in catalog => conn[c].specId = g
      /\ s = g => conn[c].specId = g
  BY <1>1, <1>2, <1>3 DEF MapInv, KnownRow, Exists, Loaded, Holding
<1>7. CASE g \in catalog
  <2>1. Written(c, h, {g}, b)
    BY <1>5 DEF Written
  <2>2. catalog' = (catalog \cup {s}) \ {g}
    BY <1>2, <1>3
  <2>3. {g} \in SUBSET {conn[c].specId}
    BY <1>6, <1>7
  <2>4. IndexedAs(c, h, s, {g})
    BY <1>3, <2>2, <2>3 DEF IndexedAs
  <2> QED
    BY <1>2, <1>4, <2>1, <2>4, SharedReindex
<1>8. CASE g \notin catalog
  <2>1. \A d \in Conns : conn[d].specId # g
    BY <1>2, <1>8 DEF BindInv, NoDanglingSpec, Exists
  <2>2. s # g
    BY <1>3, <1>6, <2>1
  <2>3. \A d \in Conns : b[d] # g
    BY <1>4, <2>1, <2>2 DEF Bindings
  <2>4. Written(c, h, {}, b)
    BY <1>5, <2>3 DEF Written
  <2>5. catalog' = (catalog \cup {s}) \ {}
    BY <1>2, <1>3, <1>8, <2>2
  <2>6. IndexedAs(c, h, s, {})
    BY <1>3, <2>5 DEF IndexedAs
  <2> QED
    BY <1>2, <1>4, <2>4, <2>6, SharedReindex
<1> QED
  BY <1>7, <1>8

LEMMA SharedInit == Init => Shared!CatalogInit
BY DEF Init, Unbound, Shared!CatalogInit

LEMMA SharedNext ==
  ASSUME IInv, BindInv, RowInv, MapInv, [Next]_vars
  PROVE  SharedStep
<1>1. ASSUME NEW w \in Workers, Step(w) PROVE SharedStep
  <2>1. CASE Settle(w) \/ RecordFailure(w)
    BY <2>1, SharedReport
  <2>2. CASE Commit(w)
    BY <2>2, SharedCommit
  <2>3. CASE CommitDelete(w)
    BY <2>3, SharedCommitDelete
  <2>4. CASE \/ \E h \in Hashes : FetchSpec(w, h)
             \/ FetchFails(w) \/ NoSpec(w) \/ Lookup(w) \/ InsertRow(w) \/ Embed(w)
             \/ EmbedFails(w) \/ Bind(w) \/ DeleteOrphan(w) \/ DeadlockAbort(w)
    <3>1. UNCHANGED <<catalog, conn>>
      BY <2>4 DEF FetchSpec, FetchFails, NoSpec, Lookup, InsertRow, Embed, EmbedFails, Bind,
                  DeleteOrphan, DeadlockAbort
    <3> QED
      BY <3>1, SharedSame
  <2> QED
    BY <1>1, <2>1, <2>2, <2>3, <2>4 DEF Step
<1>2. ASSUME Client \/ Schedule PROVE SharedStep
  <2>1. ASSUME NEW c \in Conns, CreateConnection(c) \/ DeleteConnection(c) PROVE SharedStep
    BY <2>1, SharedBecomes
  <2>2. ASSUME NEW c \in Conns, NEW w \in Workers,
               DropJob(c) \/ StartJob(w, c) \/ RequestReindex(w, c) \/ UploadSpec(w, c)
        PROVE  SharedStep
    BY <2>2, SharedSame DEF DropJob, StartJob, RequestReindex, UploadSpec
  <2>3. ASSUME NEW c \in Conns, DropJob(c) PROVE SharedStep
    BY <2>3, SharedSame DEF DropJob
  <2> QED
    BY <1>2, <2>1, <2>2, <2>3 DEF Client, Schedule
<1>3. CASE Crash \/ UNCHANGED vars
  <2>1. UNCHANGED <<catalog, conn>>
    BY <1>3 DEF Crash, vars
  <2> QED
    BY <2>1, SharedSame
<1> QED
  BY <1>1, <1>2, <1>3 DEF Next, Work

(* While each connection is indexed by one request at a time, every indexing  *)
(* transaction takes effect as one step of the catalog without transactions,    *)
(* for any number of connections, documents and workers, over every lock wait,   *)
(* rollback, deadlock and crash (pipeline.py: index_spec, index_connection,       *)
(* _gc_orphan; connections.py: reindex_connection, reindex_in_new_session).         *)
THEOREM CatalogRefined ==
  ASSUME ~Overlap
  PROVE  Spec => ImplementsCatalog
<1>1. Init => RowInv
  BY DEF Init, RowInv, Apart, Busy, HashMatchesBinding, RowOf, IdleTx, Unbound,
         Holding, Loaded, Bound
<1>2. IInv /\ BindInv /\ RowInv /\ MapInv /\ [Next]_vars => BindInv' /\ RowInv' /\ MapInv'
  BY BindKept, RowKept, MapKept
<1>3. IInv /\ BindInv /\ RowInv /\ MapInv /\ [Next]_vars
        => [Shared!CatalogNext]_(Shared!catalogVars)
  BY SharedNext DEF SharedStep
<1> QED
  BY <1>1, <1>2, <1>3, BindInit, MapInit, SharedInit, Inductive, PTL
     DEF Spec, ImplementsCatalog, Shared!CatalogSpec

=============================================================================
