---------------------------- MODULE McpServerProofs ----------------------------
(***************************************************************************)
(* Machine-checked proofs about the MCP server, for any number of keys,      *)
(* connections, requests and cached summaries.                              *)
(*                                                                         *)
(* A tool call runs as the key its own request carried.  Two facts make it  *)
(* inductive.  A session's caller is the key that opened it, so the context *)
(* a tool sees is the client's own; and what a cache entry lists is decided *)
(* by its id, the tenant and the scope, so an entry is right for every key  *)
(* that has this id.                                                       *)
(*                                                                         *)
(* A stale summary ages out: AgeInv and OneEntry, in the last section.      *)
(***************************************************************************)
EXTENDS McpServer, FiniteSetTheorems, SequenceTheorems, TLAPS

AnyScope == {All} \cup SUBSET MConns
Reached(scope) == IF scope = All THEN MConns ELSE scope

KeyRow == [state : {"absent", "active", "revoked"}, scope : AnyScope, expires : Nat]

Summaries == [total : Nat, lines : SUBSET (MConns \X Status)]

Request == [pc : {"idle", "authenticated", "list", "execute", "counted", "loaded",
                  "served", "calling"},
            key : Keys \cup {NoCaller}, tool : {"none", "list", "execute"},
            runs_as : Keys \cup {NoCaller}, conn : MConns \cup {NoCaller},
            summary : Summaries, readAt : Nat, storedAt : Nat]

Entry == [id : {<<Tenant[k], scope>> : k \in Keys, scope \in AnyScope},
          storedAt : Nat, readAt : Nat, summary : Summaries]

\* Lines that one tenant's connections within a scope may have.
Within(lines, tenant, scope) ==
  \A line \in lines : Tenant[line[1]] = tenant /\ line[1] \in Reached(scope)

\* What an entry lists is allowed to every key with the entry's id.
GoodEntry == {e \in Entry : Within(e.summary.lines, e.id[1], e.id[2])}

McpType ==
  /\ now \in Nat
  /\ key \in [Keys -> KeyRow]
  /\ conn \in [MConns -> Status \cup {"none", "gone"}]
  /\ mcpSession \in [Keys -> Keys \cup {NoCaller}]
  /\ req \in [Requests -> Request]
  /\ cache \in Seq(GoodEntry)

\* A request in hand has a key that was created, and past the middleware it
\* runs as this key, with what this key allows.
OwnKey(r) ==
  /\ r.pc # "idle" => r.key \in Keys /\ key[r.key].state # "absent"
  /\ r.pc \notin {"idle", "authenticated"} =>
       /\ r.runs_as = r.key
       /\ Within(r.summary.lines, Tenant[r.key], Scope(r.key))
  /\ r.pc = "calling" => /\ r.conn \in MConns /\ Tenant[r.conn] = Tenant[r.key]
                         /\ r.conn \in Reached(Scope(r.key))
  /\ r.pc \in {"idle", "authenticated"} => r.summary.lines = {}
  /\ r.pc = "authenticated" => r.tool \in {"list", "execute"}

McpInv ==
  /\ McpType
  /\ \A k \in Keys : mcpSession[k] \in {NoCaller, k}
  /\ \A q \in Requests : OwnKey(req[q])

-----------------------------------------------------------------------------
(* Lines, summaries and entries.                                            *)

LEMMA AllowsReached ==
  ASSUME NEW k, NEW c
  PROVE  Allows(k, c) <=> c \in Reached(Scope(k))
BY DEF Allows, Reached

LEMMA InScopeFinite ==
  ASSUME NEW k \in Keys
  PROVE  InScope(k) \subseteq MConns /\ Cardinality(InScope(k)) \in Nat
<1>1. InScope(k) \subseteq MConns
  BY DEF InScope, Owned
<1>2. QED  BY <1>1, McpAssumption, FS_Subset, FS_CardinalityType

\* What a load lists are connections of the caller's tenant and scope.
LEMMA LinesWithin ==
  ASSUME McpType, NEW k \in Keys
  PROVE  /\ Lines(k) \subseteq MConns \X Status
         /\ Cardinality(Lines(k)) \in Nat
         /\ Within(Lines(k), Tenant[k], Scope(k))
<1>1. FirstByName(InScope(k)) \subseteq InScope(k)
  BY DEF FirstByName
<1>. DEFINE named == FirstByName(InScope(k))
<1>2. Lines(k) = {<<c, conn[c]>> : c \in named}
  BY DEF Lines
<1>3. \A c \in named : /\ c \in MConns /\ conn[c] \in Status /\ Tenant[c] = Tenant[k]
                       /\ c \in Reached(Scope(k))
  BY <1>1, AllowsReached DEF InScope, Owned
<1>4. IsFiniteSet(named)
  BY <1>1, InScopeFinite, McpAssumption, FS_Subset
<1>. HIDE DEF named
<1>5. Lines(k) \subseteq MConns \X Status
  BY <1>2, <1>3
<1>6. Within(Lines(k), Tenant[k], Scope(k))
  BY <1>2, <1>3 DEF Within
<1>7. IsFiniteSet(Lines(k))
  <2>. DEFINE f == [c \in named |-> <<c, conn[c]>>]
  <2>1. f \in Surjection(named, Lines(k))
    BY <1>2 DEF Surjection
  <2>2. QED  BY <1>4, <2>1, FS_Surjection
<1>8. QED  BY <1>5, <1>6, <1>7, FS_CardinalityType

LEMMA SummaryType ==
  ASSUME NEW total \in Nat, NEW lines \in SUBSET (MConns \X Status),
         Cardinality(lines) \in Nat
  PROVE  Summary(total, lines) \in Summaries /\ Summary(total, lines).lines = lines
BY DEF Summary, Summaries

\* A key's entry lists what the key allows.
LEMMA EntryWithin ==
  ASSUME NEW k, NEW e \in GoodEntry, e.id = CacheKey(k)
  PROVE  e \in Entry /\ Within(e.summary.lines, Tenant[k], Scope(k))
BY DEF GoodEntry, CacheKey

LEMMA RemovedAt ==
  ASSUME NEW S, NEW s \in Seq(S), NEW i \in DOMAIN s
  PROVE  /\ RemoveAt(s, i) \in Seq(S) /\ Len(RemoveAt(s, i)) = Len(s) - 1
         /\ \A n \in 1 .. Len(s) - 1 : RemoveAt(s, i)[n] = s[IF n < i THEN n ELSE n + 1]
<1>. DEFINE a == SubSeq(s, 1, i - 1)
            b == SubSeq(s, i + 1, Len(s))
<1>1. i \in 1 .. Len(s) /\ Len(s) \in Nat
  BY LenProperties
<1>2. /\ a \in Seq(S) /\ Len(a) = i - 1 /\ \A n \in 1 .. i - 1 : a[n] = s[n]
      /\ b \in Seq(S) /\ Len(b) = Len(s) - i /\ \A n \in 1 .. Len(s) - i : b[n] = s[i + n]
  BY <1>1, SubSeqProperties
<1>3. RemoveAt(s, i) = a \o b
  BY DEF RemoveAt
<1>. HIDE DEF a, b
<1>4. /\ a \o b \in Seq(S) /\ Len(a \o b) = Len(s) - 1
      /\ \A n \in 1 .. Len(s) - 1 : (a \o b)[n] = IF n <= i - 1 THEN a[n] ELSE b[n - (i - 1)]
  <2>1. /\ a \o b \in Seq(S) /\ Len(a \o b) = Len(a) + Len(b)
        /\ \A n \in 1 .. Len(a) + Len(b) :
             (a \o b)[n] = IF n <= Len(a) THEN a[n] ELSE b[n - Len(a)]
    BY <1>2, ConcatProperties
  <2>2. Len(a) = i - 1 /\ Len(b) = Len(s) - i /\ Len(a) + Len(b) = Len(s) - 1
    BY <1>1, <1>2
  <2>3. QED  BY <2>1, <2>2
<1>5. ASSUME NEW n \in 1 .. Len(s) - 1
      PROVE  (a \o b)[n] = s[IF n < i THEN n ELSE n + 1]
  <2>1. CASE n < i
    BY <1>1, <1>2, <1>4, <2>1
  <2>2. CASE ~(n < i)
    <3>1. n - (i - 1) \in 1 .. Len(s) - i /\ i + (n - (i - 1)) = n + 1
      BY <1>1, <2>2
    <3>. DEFINE m == n - (i - 1)
    <3>2. (a \o b)[n] = b[m]
      BY <1>1, <1>4, <2>2
    <3>. HIDE DEF m
    <3>3. b[m] = s[n + 1]
      BY <1>2, <3>1 DEF m
    <3>4. QED  BY <2>2, <3>2, <3>3
  <2>3. QED  BY <2>1, <2>2
<1>6. QED  BY <1>3, <1>4, <1>5

LEMMA WithoutType ==
  ASSUME NEW S, cache \in Seq(S), NEW k
  PROVE  Without(k) \in Seq(S)
<1>1. cache \in Seq(S)
  OBVIOUS
<1>2. CASE Entries(k) # {}
  <2>. DEFINE i == CHOOSE i \in Entries(k) : TRUE
  <2>1. i \in DOMAIN cache
    BY <1>2 DEF Entries
  <2>2. Without(k) = RemoveAt(cache, i)
    BY <1>2 DEF Without
  <2>. HIDE DEF i
  <2>3. QED  BY <1>1, <2>1, <2>2, RemovedAt
<1>3. QED  BY <1>1, <1>2 DEF Without

LEMMA StoredType ==
  ASSUME NEW S, cache \in Seq(S), NEW k, NEW e \in S
  PROVE  Stored(k, e) \in Seq(S)
<1>. DEFINE all == Append(Without(k), e)
            first == IF Len(all) > CacheMax THEN Len(all) - CacheMax + 1 ELSE 1
<1>1. all \in Seq(S) /\ Len(all) \in Nat
  BY WithoutType, AppendProperties, LenProperties
<1>. HIDE DEF all
<1>2. first \in 1 .. Len(all) + 1
  BY <1>1, McpAssumption
<1>. HIDE DEF first
<1>3. SubSeq(all, first, Len(all)) \in Seq(S)
  BY <1>1, <1>2, SubSeqProperties
<1>4. QED  BY <1>3 DEF Stored, all, first

-----------------------------------------------------------------------------
(* Requests.                                                                *)

LEMMA FreshOwn == Fresh \in Request /\ OwnKey(Fresh)
BY DEF Fresh, Request, NoSummary, Summaries, OwnKey

\* A step of one request that leaves keys and sessions alone.
LEMMA RequestStep ==
  ASSUME McpInv, NEW q \in Requests, NEW r \in Request, Set(q, r), OwnKey(r),
         cache' \in Seq(GoodEntry), UNCHANGED <<now, key, conn, mcpSession>>
  PROVE  McpInv'
<1>1. \A p \in Requests : req'[p] = IF p = q THEN r ELSE req[p]
  BY DEF Set, McpInv, McpType
<1>2. McpType'
  BY DEF Set, McpInv, McpType
<1>3. \A p \in Requests : OwnKey(req[p])'
  BY <1>1 DEF McpInv, OwnKey, Scope
<1>4. QED  BY <1>2, <1>3 DEF McpInv

\* The steps of a request.
LEMMA Serving ==
  ASSUME McpInv, NEW q \in Requests,
         \/ \E k \in Keys, tool \in {"list", "execute"} : Arrive(q, k, tool)
         \/ Dispatch(q) \/ ListCached(q) \/ ListCount(q) \/ ListRead(q)
         \/ ListStore(q) \/ Respond(q) \/ \E c \in MConns : Execute(q, c)
  PROVE  McpInv'
<1>0. /\ McpType /\ req[q] \in Request /\ OwnKey(req[q]) /\ cache \in Seq(GoodEntry)
      /\ now \in Nat /\ key \in [Keys -> KeyRow]
  BY DEF McpInv, McpType
<1>1. ASSUME NEW k \in Keys, NEW tool \in {"list", "execute"}, Arrive(q, k, tool)
      PROVE  McpInv'
  <2>. DEFINE r == [Fresh EXCEPT !.pc = "authenticated", !.key = k, !.tool = tool]
  <2>1. r \in Request /\ OwnKey(r)
    BY <1>1 DEF Arrive, Fresh, Request, NoSummary, Summaries, OwnKey
  <2>. HIDE DEF r
  <2>2. Set(q, r) \/ Set(q, Fresh)
    BY <1>1 DEF Arrive, r
  <2>3. QED  BY <1>0, <1>1, <2>1, <2>2, FreshOwn, RequestStep DEF Arrive
<1>2. CASE Dispatch(q)
  <2>. DEFINE k == req[q].key
              r == [req[q] EXCEPT !.pc = req[q].tool, !.runs_as = k]
  <2>1. k \in Keys /\ req[q].tool \in {"list", "execute"} /\ req[q].summary.lines = {}
    BY <1>0, <1>2 DEF Dispatch, OwnKey
  <2>2. CallerOf(q, mcpSession[k]) = k
    BY <2>1 DEF CallerOf, McpInv
  <2>3. /\ Set(q, r) /\ mcpSession' = [mcpSession EXCEPT ![k] = k]
        /\ UNCHANGED <<now, key, conn, cache>> /\ req[q].pc = "authenticated"
    BY <1>2, <2>2 DEF Dispatch
  <2>4. r \in Request
    BY <1>0, <2>1 DEF Request
  <2>5. OwnKey(r)
    <3>1. /\ r.pc = req[q].tool /\ r.key = k /\ r.runs_as = k
          /\ r.summary = req[q].summary
      BY <1>0 DEF Request
    <3>. HIDE DEF r
    <3>2. QED  BY <1>0, <2>1, <2>3, <3>1 DEF OwnKey, Within
  <2>. HIDE DEF r, k
  <2>6. \A p \in Requests : req'[p] = IF p = q THEN r ELSE req[p]
    BY <2>3 DEF Set, McpInv, McpType
  <2>7. McpType'
    BY <1>0, <2>1, <2>3, <2>4 DEF McpType, Set
  <2>8. \A p \in Requests : OwnKey(req[p])'
    BY <2>3, <2>5, <2>6 DEF McpInv, OwnKey, Scope
  <2>9. \A j \in Keys : mcpSession'[j] \in {NoCaller, j}
    BY <1>0, <2>1, <2>3 DEF McpInv, McpType
  <2>10. QED  BY <2>7, <2>8, <2>9 DEF McpInv
<1>. DEFINE k == req[q].runs_as
<1>3. ASSUME req[q].pc \notin {"idle", "authenticated"}
      PROVE  /\ k \in Keys /\ req[q].key = k
             /\ Within(req[q].summary.lines, Tenant[k], Scope(k))
  BY <1>0, <1>3 DEF OwnKey
<1>4. ASSUME NEW r \in Request, Set(q, r), r.key = k, r.runs_as = k,
             req[q].pc \notin {"idle", "authenticated"},
             r.pc \in {"counted", "loaded", "served"},
             Within(r.summary.lines, Tenant[k], Scope(k)),
             cache' \in Seq(GoodEntry), UNCHANGED <<now, key, conn, mcpSession>>
      PROVE  McpInv'
  <2>1. OwnKey(r)
    BY <1>0, <1>3, <1>4 DEF OwnKey
  <2>2. QED  BY <1>4, <2>1, RequestStep
<1>5. CASE ListCached(q)
  <2>. DEFINE i == CHOOSE i \in Entries(k) : TRUE
              e == cache[i]
              r == [req[q] EXCEPT !.pc = "served", !.summary = e.summary,
                                  !.readAt = e.readAt, !.storedAt = e.storedAt]
  <2>1. /\ req[q].pc = "list" /\ Hit(k) /\ cache' = Append(Without(k), e) /\ Set(q, r)
        /\ UNCHANGED <<now, key, conn, mcpSession>>
    BY <1>5 DEF ListCached
  <2>2. i \in Entries(k)
    BY <2>1 DEF Hit
  <2>. HIDE DEF i
  <2>3. e \in GoodEntry /\ e.id = CacheKey(k)
    BY <1>0, <2>2, ElementOfSeq, LenProperties DEF Entries
  <2>. HIDE DEF e
  <2>4. e \in Entry /\ Within(e.summary.lines, Tenant[k], Scope(k))
    BY <2>3, EntryWithin
  <2>5. r \in Request
    <3>1. e.summary \in Summaries /\ e.readAt \in Nat /\ e.storedAt \in Nat
      BY <2>4 DEF Entry
    <3>2. QED  BY <1>0, <3>1 DEF Request
  <2>6. r.pc = "served" /\ r.key = req[q].key /\ r.runs_as = k /\ r.summary = e.summary
    BY <1>0 DEF Request
  <2>7. cache' \in Seq(GoodEntry)
    BY <1>0, <2>1, <2>3, WithoutType, AppendProperties
  <2>. HIDE DEF r
  <2>8. QED  BY <1>3, <1>4, <2>1, <2>4, <2>5, <2>6, <2>7
<1>6. CASE ListCount(q)
  <2>. DEFINE s == [NoSummary EXCEPT !.total = Cardinality(InScope(k))]
              r == [req[q] EXCEPT !.pc = "counted", !.readAt = now, !.summary = s]
  <2>1. /\ req[q].pc = "list" /\ cache' = Without(k) /\ Set(q, r)
        /\ UNCHANGED <<now, key, conn, mcpSession>>
    BY <1>6 DEF ListCount
  <2>2. s \in Summaries /\ s.lines = {}
    BY <1>3, <2>1, InScopeFinite DEF NoSummary, Summaries
  <2>. HIDE DEF s
  <2>3. r \in Request
    BY <1>0, <2>2 DEF Request
  <2>4. r.pc = "counted" /\ r.key = req[q].key /\ r.runs_as = k /\ r.summary = s
    BY <1>0 DEF Request
  <2>. HIDE DEF r
  <2>5. QED  BY <1>0, <1>3, <1>4, <2>1, <2>2, <2>3, <2>4, WithoutType DEF Within
<1>7. CASE ListRead(q)
  <2>. DEFINE s == Summary(req[q].summary.total, Lines(k))
              r == [req[q] EXCEPT !.pc = "loaded", !.summary = s]
  <2>1. /\ req[q].pc = "counted" /\ Set(q, r)
        /\ UNCHANGED <<now, key, conn, mcpSession, cache>>
    BY <1>7 DEF ListRead
  <2>2. k \in Keys /\ req[q].summary.total \in Nat
    BY <1>0, <1>3, <2>1 DEF Request, Summaries
  <2>3. s \in Summaries /\ s.lines = Lines(k) /\ Within(Lines(k), Tenant[k], Scope(k))
    BY <1>0, <2>2, LinesWithin, SummaryType
  <2>. HIDE DEF s
  <2>4. r \in Request
    BY <1>0, <2>3 DEF Request
  <2>5. r.pc = "loaded" /\ r.key = req[q].key /\ r.runs_as = k /\ r.summary = s
    BY <1>0 DEF Request
  <2>. HIDE DEF r
  <2>6. QED  BY <1>0, <1>3, <1>4, <2>1, <2>3, <2>4, <2>5
<1>8. CASE ListStore(q)
  <2>. DEFINE e == [id |-> CacheKey(k), storedAt |-> now,
                    readAt |-> req[q].readAt, summary |-> req[q].summary]
              r == [req[q] EXCEPT !.pc = "served", !.storedAt = now]
  <2>1. /\ req[q].pc = "loaded" /\ cache' = Stored(k, e) /\ Set(q, r)
        /\ UNCHANGED <<now, key, conn, mcpSession>>
    BY <1>8 DEF ListStore
  <2>2. k \in Keys /\ Scope(k) \in AnyScope
    BY <1>0, <1>3, <2>1 DEF Scope, KeyRow
  <2>3. e \in GoodEntry
    BY <1>0, <1>3, <2>1, <2>2 DEF GoodEntry, Entry, CacheKey, Request
  <2>4. r \in Request
    BY <1>0 DEF Request
  <2>5. r.pc = "served" /\ r.key = req[q].key /\ r.runs_as = k /\ r.summary = req[q].summary
    BY <1>0 DEF Request
  <2>. HIDE DEF r, e
  <2>6. QED  BY <1>0, <1>3, <1>4, <2>1, <2>3, <2>4, <2>5, StoredType
<1>9. ASSUME NEW c \in MConns, Execute(q, c) PROVE McpInv'
  <2>1. req[q].pc = "execute" /\ UNCHANGED <<now, key, conn, mcpSession, cache>>
    BY <1>9 DEF Execute
  <2>2. CASE Set(q, [req[q] EXCEPT !.pc = "served"])
    <3>. DEFINE r == [req[q] EXCEPT !.pc = "served"]
    <3>1. r \in Request
      BY <1>0 DEF Request
    <3>2. r.pc = "served" /\ r.key = req[q].key /\ r.runs_as = k /\ r.summary = req[q].summary
      BY <1>0 DEF Request
    <3>3. Set(q, r)
      BY <2>2
    <3>. HIDE DEF r
    <3>4. QED  BY <1>0, <1>3, <1>4, <2>1, <3>1, <3>2, <3>3
  <2>3. CASE /\ Allows(k, c) /\ c \in Owned(k)
             /\ Set(q, [req[q] EXCEPT !.pc = "calling", !.conn = c])
    <3>. DEFINE r == [req[q] EXCEPT !.pc = "calling", !.conn = c]
    <3>1. r \in Request
      BY <1>0 DEF Request
    <3>2. /\ r.pc = "calling" /\ r.key = req[q].key /\ r.runs_as = k
          /\ r.conn = c /\ r.summary = req[q].summary
      BY <1>0 DEF Request
    <3>3. Set(q, r)
      BY <2>3
    <3>4. Tenant[c] = Tenant[k] /\ c \in Reached(Scope(k))
      BY <2>3, AllowsReached DEF Owned
    <3>. HIDE DEF r
    <3>5. OwnKey(r)
      BY <1>0, <1>3, <2>1, <3>2, <3>4 DEF OwnKey
    <3>6. QED  BY <1>0, <2>1, <3>1, <3>3, <3>5, RequestStep
  <2>4. QED  BY <1>9, <2>2, <2>3 DEF Execute
<1>10. CASE Respond(q)
  BY <1>0, <1>10, FreshOwn, RequestStep DEF Respond
<1>11. QED
  BY <1>1, <1>2, <1>5, <1>6, <1>7, <1>8, <1>9, <1>10

-----------------------------------------------------------------------------
(* Keys and connections.                                                    *)

\* A key that exists keeps its scope: one is created once, and revoked.
LEMMA KeysKept ==
  ASSUME McpInv, NEW k \in Keys,
         \/ \E scope \in Scopes, days \in Days : CreateKey(k, scope, days)
         \/ RevokeKey(k)
  PROVE  McpInv'
<1>0. McpType /\ UNCHANGED <<now, conn, mcpSession, req, cache>>
  BY DEF McpInv, CreateKey, RevokeKey
<1>1. PICK row \in KeyRow : /\ key' = [key EXCEPT ![k] = row]
                            /\ key[k].state # "absent" => row.state # "absent" /\ row.scope = key[k].scope
  <2>1. ASSUME NEW scope \in Scopes, NEW days \in Days, CreateKey(k, scope, days)
        PROVE  \E row \in KeyRow : /\ key' = [key EXCEPT ![k] = row]
                                   /\ key[k].state = "absent"
    <3>. DEFINE e == IF now + days > MaxNow THEN MaxNow + 1 ELSE now + days
                row == [state |-> "active", scope |-> scope, expires |-> e]
    <3>1. scope \in AnyScope /\ e \in Nat
      BY <1>0, McpAssumption DEF McpType, AnyScope
    <3>2. row \in KeyRow
      BY <3>1 DEF KeyRow
    <3>3. QED  BY <2>1, <3>2 DEF CreateKey
  <2>2. CASE RevokeKey(k)
    <3>. DEFINE row == [key[k] EXCEPT !.state = "revoked"]
    <3>1. key[k] \in KeyRow /\ key' = [key EXCEPT ![k] = row]
      BY <1>0, <2>2 DEF McpType, RevokeKey
    <3>2. row \in KeyRow /\ row.state = "revoked" /\ row.scope = key[k].scope
      BY <3>1 DEF KeyRow
    <3>3. QED  BY <3>1, <3>2
  <2>3. QED  BY <2>1, <2>2
<1>2. \A j \in Keys : key[j].state # "absent" =>
         key'[j].state # "absent" /\ key'[j].scope = key[j].scope
  BY <1>0, <1>1 DEF McpType
<1>3. McpType'
  BY <1>0, <1>1 DEF McpType
<1>4. ASSUME NEW q \in Requests PROVE OwnKey(req[q])'
  BY <1>0, <1>2 DEF McpInv, OwnKey, Scope
<1>5. QED  BY <1>0, <1>3, <1>4 DEF McpInv

LEMMA WorldKept ==
  ASSUME McpInv, Tick \/ \E c \in MConns, status \in Status \cup {"gone"} : ChangeConnection(c, status)
  PROVE  McpInv'
<1>1. UNCHANGED <<key, mcpSession, req, cache>>
  BY DEF Tick, ChangeConnection
<1>2. McpType'
  <2>1. CASE Tick
    BY <1>1, <2>1 DEF McpInv, McpType, Tick
  <2>2. ASSUME NEW c \in MConns, NEW status \in Status \cup {"gone"},
               ChangeConnection(c, status)
        PROVE  McpType'
    <3>1. UNCHANGED now /\ conn' = [conn EXCEPT ![c] = status]
      BY <2>2 DEF ChangeConnection
    <3>2. QED  BY <1>1, <3>1 DEF McpInv, McpType
  <2>3. QED  BY <2>1, <2>2
<1>3. QED  BY <1>1, <1>2 DEF McpInv, OwnKey, Scope

LEMMA McpKept ==
  ASSUME McpInv, [McpNext]_mcpVars
  PROVE  McpInv'
<1>1. CASE UNCHANGED mcpVars
  BY <1>1 DEF mcpVars, McpInv, McpType, OwnKey, Scope
<1>2. QED  BY <1>1, Serving, KeysKept, WorldKept DEF McpNext

LEMMA McpStart == McpInit => McpInv
<1>. SUFFICES ASSUME McpInit PROVE McpInv
  OBVIOUS
<1>1. McpType
  BY McpAssumption, FreshOwn, EmptySeq DEF McpInit, McpType, KeyRow, AnyScope, Status
<1>2. QED  BY <1>1, FreshOwn DEF McpInit, McpInv

(* A tool runs as the key its own request carried, and calls and lists only *)
(* connections that this key's scope and tenant allow (mcp/server.py:       *)
(* _caller_context, _caller_cache_key, allows_connection).                  *)
THEOREM RunsAsItsKeyAlways == McpSpec => []RunsAsItsKey
<1>1. McpInv /\ [McpNext]_mcpVars => McpInv'
  BY McpKept
<1>2. McpInv => RunsAsItsKey
  BY AllowsReached DEF McpInv, OwnKey, Within, RunsAsItsKey
<1>3. QED  BY McpStart, <1>1, <1>2, PTL DEF McpSpec

-----------------------------------------------------------------------------
(* SummaryAgesOut.  What is listed for an id, a tenant and a scope, is right or   *)
(* a connection of that id has changed since the load began; each entry of the   *)
(* cache and each load on its way keeps the time at which it began.             *)

\* The cache is a dict: one entry for an id.
OneEntry(s) == \A i, j \in DOMAIN s : s[i].id = s[j].id => i = j

LEMMA WithoutOnce ==
  ASSUME NEW S, cache \in Seq(S), OneEntry(cache), NEW k
  PROVE  /\ OneEntry(Without(k))
         /\ \A n \in DOMAIN Without(k) : Without(k)[n].id # CacheKey(k)
<1>1. CASE Entries(k) = {}
  BY <1>1 DEF Without, Entries
<1>2. CASE Entries(k) # {}
  <2>. DEFINE i == CHOOSE i \in Entries(k) : TRUE
              s == RemoveAt(cache, i)
              at(n) == IF n < i THEN n ELSE n + 1
  <2>1. i \in DOMAIN cache /\ cache[i].id = CacheKey(k) /\ Without(k) = s
    BY <1>2 DEF Entries, Without
  <2>. HIDE DEF i
  <2>2. /\ DOMAIN cache = 1 .. Len(cache) /\ Len(cache) \in Nat
        /\ DOMAIN s = 1 .. Len(cache) - 1
        /\ \A n \in DOMAIN s : s[n] = cache[at(n)]
    <3>1. cache \in Seq(S)
      OBVIOUS
    <3>2. DOMAIN cache = 1 .. Len(cache) /\ Len(cache) \in Nat
      BY <3>1, LenProperties
    <3>3. /\ s \in Seq(S) /\ Len(s) = Len(cache) - 1
          /\ \A n \in 1 .. Len(cache) - 1 : s[n] = cache[at(n)]
      BY <2>1, <3>1, RemovedAt
    <3>. HIDE DEF s, at
    <3>4. DOMAIN s = 1 .. Len(s)
      BY <3>3, LenProperties
    <3>5. QED  BY <3>2, <3>3, <3>4
  <2>3. \A n \in DOMAIN s : at(n) \in DOMAIN cache \ {i}
    BY <2>1, <2>2
  <2>4. \A m, n \in DOMAIN s : at(m) = at(n) => m = n
    BY <2>1, <2>2
  <2>. HIDE DEF s, at
  <2>5. QED  BY <2>1, <2>2, <2>3, <2>4 DEF OneEntry
<1>3. QED  BY <1>1, <1>2

LEMMA AppendOnce ==
  ASSUME NEW S, NEW s \in Seq(S), NEW e \in S, OneEntry(s), \A n \in DOMAIN s : s[n].id # e.id
  PROVE  OneEntry(Append(s, e))
<1>. DEFINE t == Append(s, e)
<1>1. /\ DOMAIN s = 1 .. Len(s) /\ Len(s) \in Nat /\ DOMAIN t = 1 .. Len(s) + 1
      /\ t[Len(s) + 1] = e /\ \A n \in 1 .. Len(s) : t[n] = s[n]
  BY AppendProperties, LenProperties
<1>. HIDE DEF t
<1>2. \A n \in DOMAIN t : n \in DOMAIN s \/ n = Len(s) + 1
  BY <1>1
<1>3. QED  BY <1>1, <1>2 DEF OneEntry

LEMMA CutOnce ==
  ASSUME NEW S, NEW s \in Seq(S), OneEntry(s), NEW m \in 1 .. Len(s) + 1
  PROVE  OneEntry(SubSeq(s, m, Len(s)))
<1>. DEFINE t == SubSeq(s, m, Len(s))
<1>1. DOMAIN s = 1 .. Len(s) /\ Len(s) \in Nat
  BY LenProperties
<1>2. t \in Seq(S) /\ Len(t) = Len(s) - m + 1 /\ \A n \in 1 .. Len(s) - m + 1 : t[n] = s[m + n - 1]
  BY <1>1, SubSeqProperties
<1>3. DOMAIN t = 1 .. Len(s) - m + 1
  BY <1>2, LenProperties
<1>. HIDE DEF t
<1>4. \A n \in DOMAIN t : m + n - 1 \in DOMAIN s
  BY <1>1, <1>3
<1>5. \A i, j \in DOMAIN t : m + i - 1 = m + j - 1 => i = j
  BY <1>1, <1>3
<1>6. QED  BY <1>2, <1>3, <1>4, <1>5 DEF OneEntry

LEMMA OneEntryKept ==
  ASSUME McpInv, OneEntry(cache), [McpNext]_mcpVars
  PROVE  OneEntry(cache)'
<1>1. cache \in Seq(GoodEntry)
  BY DEF McpInv, McpType
<1>2. CASE UNCHANGED cache
  BY <1>2 DEF OneEntry
<1>3. ASSUME NEW q \in Requests, ListCached(q) PROVE OneEntry(cache)'
  <2>. DEFINE k == req[q].runs_as
              i == CHOOSE i \in Entries(k) : TRUE
              e == cache[i]
  <2>1. cache' = Append(Without(k), e) /\ Entries(k) # {}
    BY <1>3 DEF ListCached, Hit
  <2>2. i \in Entries(k)
    BY <2>1
  <2>. HIDE DEF i
  <2>3. e \in GoodEntry /\ e.id = CacheKey(k)
    BY <1>1, <2>2, ElementOfSeq, LenProperties DEF Entries
  <2>. HIDE DEF e, k
  <2>4. OneEntry(Append(Without(k), e))
    BY <1>1, <2>3, WithoutType, WithoutOnce, AppendOnce
  <2>5. QED  BY <2>1, <2>4 DEF OneEntry
<1>4. ASSUME NEW q \in Requests, ListCount(q) PROVE OneEntry(cache)'
  BY <1>1, <1>4, WithoutOnce DEF ListCount, OneEntry
<1>5. ASSUME NEW q \in Requests, ListStore(q) PROVE OneEntry(cache)'
  <2>. DEFINE k == req[q].runs_as
              e == [id |-> CacheKey(k), storedAt |-> now,
                    readAt |-> req[q].readAt, summary |-> req[q].summary]
              all == Append(Without(k), e)
              first == IF Len(all) > CacheMax THEN Len(all) - CacheMax + 1 ELSE 1
  <2>1. cache' = SubSeq(all, first, Len(all))
    BY <1>5 DEF ListStore, Stored
  <2>2. e.id = CacheKey(k)
    OBVIOUS
  <2>. DEFINE S == GoodEntry \cup {e}
  <2>. HIDE DEF e, k
  <2>3. cache \in Seq(S) /\ e \in S
    BY <1>1, SeqMonotonic
  <2>. HIDE DEF S
  <2>4. Without(k) \in Seq(S)
    BY <2>3, WithoutType
  <2>5. OneEntry(all)
    BY <2>2, <2>3, <2>4, WithoutOnce, AppendOnce
  <2>6. all \in Seq(S) /\ Len(all) \in Nat
    BY <2>3, <2>4, AppendProperties, LenProperties
  <2>. HIDE DEF all
  <2>7. first \in 1 .. Len(all) + 1
    BY <2>6, McpAssumption
  <2>. HIDE DEF first
  <2>8. OneEntry(SubSeq(all, first, Len(all)))
    BY <2>5, <2>6, <2>7, CutOnce
  <2>9. QED  BY <2>1, <2>8 DEF OneEntry
<1>6. QED
  BY <1>2, <1>3, <1>4, <1>5
  DEF McpNext, mcpVars, CreateKey, RevokeKey, Arrive, Dispatch, ListRead, Respond, Execute,
      ChangeConnection, Tick

\* What a summary of this id lists at present.
LinesFor(id) ==
  {<<c, conn[c]>> : c \in FirstByName({d \in MConns : /\ conn[d] \in Status /\ Tenant[d] = id[1]
                                                     /\ d \in Reached(id[2])})}

ChangedSince(id, at) == \E c \in MConns : Tenant[c] = id[1] /\ c \in Reached(id[2]) /\ at <= changedAt[c]

Recent(id, lines, at) == lines = LinesFor(id) \/ ChangedSince(id, at)

AgedEntry == {e \in GoodEntry : /\ e.readAt <= e.storedAt /\ e.storedAt <= now
                                /\ Recent(e.id, e.summary.lines, e.readAt)}

Dated(r) ==
  /\ r.pc \in {"counted", "loaded"} => r.readAt <= now
  /\ r.pc = "loaded" => Recent(CacheKey(r.key), r.summary.lines, r.readAt)
  /\ r.pc = "execute" => r.tool = "execute"

AgeInv ==
  /\ changedAt \in [MConns -> Nat]
  /\ cache \in Seq(AgedEntry)
  /\ \A q \in Requests : Dated(req[q])

LEMMA LinesOfKey ==
  ASSUME NEW k \in Keys
  PROVE  Lines(k) = LinesFor(CacheKey(k))
<1>1. InScope(k) = {d \in MConns : /\ conn[d] \in Status /\ Tenant[d] = CacheKey(k)[1]
                                   /\ d \in Reached(CacheKey(k)[2])}
  BY AllowsReached DEF InScope, Owned, CacheKey
<1>2. QED  BY <1>1 DEF Lines, LinesFor

\* A connection changes now, or none does.
WorldStep ==
  \/ UNCHANGED <<conn, changedAt>>
  \/ \E c \in MConns, status \in Status \cup {"gone"} :
       /\ conn' = [conn EXCEPT ![c] = status]
       /\ changedAt' = [changedAt EXCEPT ![c] = now]

LEMMA RecentKept ==
  ASSUME McpInv, AgeInv, WorldStep, NEW id, NEW lines, NEW at \in Nat, at <= now,
         Recent(id, lines, at)
  PROVE  Recent(id, lines, at)'
<1>1. CASE UNCHANGED <<conn, changedAt>>
  BY <1>1 DEF Recent, LinesFor, ChangedSince
<1>2. ASSUME NEW c \in MConns, NEW status \in Status \cup {"gone"},
             conn' = [conn EXCEPT ![c] = status], changedAt' = [changedAt EXCEPT ![c] = now]
      PROVE  Recent(id, lines, at)'
  <2>1. /\ conn' \in [MConns -> Status \cup {"none", "gone"}]
        /\ \A d \in MConns : d # c => conn'[d] = conn[d] /\ changedAt'[d] = changedAt[d]
        /\ changedAt'[c] = now /\ now \in Nat /\ changedAt \in [MConns -> Nat]
    BY <1>2 DEF McpInv, McpType, AgeInv
  <2>2. CASE Tenant[c] = id[1] /\ c \in Reached(id[2])
    BY <2>1, <2>2 DEF Recent, ChangedSince
  <2>3. CASE ~(Tenant[c] = id[1] /\ c \in Reached(id[2]))
    <3>. DEFINE S == {d \in MConns : /\ conn[d] \in Status /\ Tenant[d] = id[1]
                                     /\ d \in Reached(id[2])}
                T == {d \in MConns : /\ conn'[d] \in Status /\ Tenant[d] = id[1]
                                     /\ d \in Reached(id[2])}
    <3>1. S = T /\ \A d \in S : conn'[d] = conn[d]
      BY <2>1, <2>3
    <3>2. FirstByName(S) \subseteq S
      BY DEF FirstByName
    <3>. HIDE DEF S, T
    <3>3. /\ LinesFor(id) = {<<d, conn[d]>> : d \in FirstByName(S)}
          /\ LinesFor(id)' = {<<d, conn'[d]>> : d \in FirstByName(T)}
      BY DEF LinesFor, S, T, FirstByName
    <3>4. LinesFor(id)' = LinesFor(id)
      BY <3>1, <3>2, <3>3
    <3>5. ChangedSince(id, at) => ChangedSince(id, at)'
      BY <2>1, <2>3 DEF ChangedSince
    <3>6. QED  BY <3>4, <3>5 DEF Recent
  <2>4. QED  BY <2>2, <2>3
<1>3. QED  BY <1>1, <1>2 DEF WorldStep

\* Time passes, connections change, and what was dated rightly stays so.
LEMMA EntriesAge ==
  ASSUME McpInv, AgeInv, WorldStep, now' \in Nat, now <= now'
  PROVE  Seq(AgedEntry) \subseteq Seq(AgedEntry')
<1>1. ASSUME NEW e \in AgedEntry
      PROVE  e \in AgedEntry'
  <2>1. /\ e \in GoodEntry /\ e.readAt \in Nat /\ e.storedAt \in Nat
        /\ e.readAt <= e.storedAt /\ e.storedAt <= now
        /\ Recent(e.id, e.summary.lines, e.readAt)
    BY DEF AgedEntry, GoodEntry, Entry
  <2>2. now \in Nat
    BY DEF McpInv, McpType
  <2>3. e.readAt <= now /\ e.storedAt <= now'
    BY <2>1, <2>2
  <2>4. Recent(e.id, e.summary.lines, e.readAt)'
    BY <2>1, <2>3, RecentKept
  <2>5. QED  BY <2>1, <2>3, <2>4 DEF AgedEntry
<1>2. QED  BY <1>1, SeqMonotonic

LEMMA DatedKept ==
  ASSUME McpInv, AgeInv, WorldStep, now' \in Nat, now <= now', NEW q \in Requests,
         \A k \in Keys : key[k].state # "absent" => key'[k].scope = key[k].scope
  PROVE  req'[q] = req[q] => Dated(req[q])'
<1>. SUFFICES ASSUME req'[q] = req[q] PROVE Dated(req[q])'
  OBVIOUS
<1>. DEFINE r == req[q]
<1>1. /\ Dated(r) /\ OwnKey(r) /\ r.readAt \in Nat /\ now \in Nat
  BY DEF AgeInv, McpInv, McpType, Request
<1>2. r.pc \in {"counted", "loaded"} => r.readAt <= now'
  BY <1>1 DEF Dated
<1>3. ASSUME r.pc = "loaded"
      PROVE  Recent(CacheKey(r.key), r.summary.lines, r.readAt)'
  <2>. DEFINE id == CacheKey(r.key)
              lines == r.summary.lines
              at == r.readAt
  <2>1. CacheKey(r.key)' = id
    BY <1>1, <1>3 DEF OwnKey, CacheKey, Scope
  <2>2. at <= now /\ Recent(id, lines, at)
    BY <1>1, <1>3 DEF Dated
  <2>3. r'.summary.lines = lines /\ r'.readAt = at
    OBVIOUS
  <2>4. PICK i, l, t : i = id /\ l = lines /\ t = at
    OBVIOUS
  <2>5. Recent(i, l, t)'
    BY <1>1, <2>2, <2>4, RecentKept
  <2>6. QED  BY <2>1, <2>3, <2>4, <2>5
<1>4. QED  BY <1>1, <1>2, <1>3 DEF Dated

\* A step of one request: neither the connections nor the clock move.
LEMMA RequestAges ==
  ASSUME McpInv, AgeInv, NEW q \in Requests, NEW r \in Request, Set(q, r), Dated(r),
         cache' \in Seq(AgedEntry), UNCHANGED <<now, key, conn, changedAt>>
  PROVE  AgeInv'
<1>1. /\ \A p \in Requests : req'[p] = IF p = q THEN r ELSE req[p]
      /\ now \in Nat /\ WorldStep
  BY DEF Set, McpInv, McpType, WorldStep
<1>2. cache' \in Seq(AgedEntry')
  BY <1>1, EntriesAge
<1>3. \A p \in Requests : Dated(req[p])'
  <2>1. Dated(req[q])'
    <3>1. PICK t : t = r
      OBVIOUS
    <3>2. Dated(t)'
      BY <3>1 DEF Dated, Recent, LinesFor, ChangedSince, CacheKey, Scope
    <3>3. QED  BY <1>1, <3>1, <3>2
  <2>2. ASSUME NEW p \in Requests, p # q PROVE Dated(req[p])'
    BY <1>1, <2>2, DatedKept
  <2>3. QED  BY <2>1, <2>2
<1>4. QED  BY <1>2, <1>3 DEF AgeInv

LEMMA ServingAges ==
  ASSUME McpInv, AgeInv, NEW q \in Requests,
         \/ \E k \in Keys, tool \in {"list", "execute"} : Arrive(q, k, tool)
         \/ Dispatch(q) \/ ListCached(q) \/ ListCount(q) \/ ListRead(q)
         \/ ListStore(q) \/ Respond(q) \/ \E c \in MConns : Execute(q, c)
  PROVE  AgeInv'
<1>. DEFINE k == req[q].runs_as
<1>0. /\ McpType /\ req[q] \in Request /\ OwnKey(req[q]) /\ Dated(req[q])
      /\ cache \in Seq(AgedEntry) /\ now \in Nat
      /\ req[q].pc \notin {"idle", "authenticated"} => k \in Keys /\ req[q].key = k
  BY DEF McpInv, McpType, AgeInv, OwnKey
<1>1. ASSUME NEW j \in Keys, NEW tool \in {"list", "execute"}, Arrive(q, j, tool)
      PROVE  AgeInv'
  <2>. DEFINE r == [Fresh EXCEPT !.pc = "authenticated", !.key = j, !.tool = tool]
  <2>1. r \in Request /\ Dated(r) /\ Fresh \in Request /\ Dated(Fresh)
    BY FreshOwn DEF Fresh, Request, Dated
  <2>. HIDE DEF r
  <2>2. Set(q, r) \/ Set(q, Fresh)
    BY <1>1 DEF Arrive, r
  <2>3. QED  BY <1>0, <1>1, <2>1, <2>2, RequestAges DEF Arrive
<1>2. CASE Dispatch(q)
  <2>. DEFINE caller == CallerOf(q, mcpSession[req[q].key])
              r == [req[q] EXCEPT !.pc = req[q].tool, !.runs_as = caller]
  <2>1. /\ req[q].key \in Keys /\ req[q].tool \in {"list", "execute"} /\ Set(q, r)
        /\ UNCHANGED <<now, key, conn, changedAt, cache>>
    BY <1>0, <1>2 DEF Dispatch, OwnKey
  <2>2. caller \in Keys
    BY <2>1 DEF CallerOf, McpInv
  <2>. HIDE DEF caller
  <2>3. r \in Request /\ r.pc = req[q].tool /\ r.tool = req[q].tool
    BY <1>0, <2>1, <2>2 DEF Request
  <2>4. Dated(r)
    BY <2>1, <2>3 DEF Dated
  <2>. HIDE DEF r
  <2>5. QED  BY <1>0, <2>1, <2>3, <2>4, RequestAges
<1>3. CASE ListCached(q)
  <2>. DEFINE i == CHOOSE i \in Entries(k) : TRUE
              e == cache[i]
              r == [req[q] EXCEPT !.pc = "served", !.summary = e.summary,
                                  !.readAt = e.readAt, !.storedAt = e.storedAt]
  <2>1. /\ req[q].pc = "list" /\ Hit(k) /\ cache' = Append(Without(k), e) /\ Set(q, r)
        /\ UNCHANGED <<now, key, conn, changedAt>>
    BY <1>3 DEF ListCached
  <2>2. i \in Entries(k)
    BY <2>1 DEF Hit
  <2>. HIDE DEF i
  <2>3. e \in AgedEntry
    BY <1>0, <2>2, ElementOfSeq, LenProperties DEF Entries
  <2>. HIDE DEF e
  <2>4. e.summary \in Summaries /\ e.readAt \in Nat /\ e.storedAt \in Nat
    BY <2>3 DEF AgedEntry, GoodEntry, Entry
  <2>5. r \in Request /\ r.pc = "served"
    BY <1>0, <2>4 DEF Request
  <2>6. cache' \in Seq(AgedEntry)
    BY <1>0, <2>1, <2>3, WithoutType, AppendProperties
  <2>. HIDE DEF r
  <2>7. QED  BY <2>1, <2>5, <2>6, RequestAges DEF Dated
<1>4. CASE ListCount(q)
  <2>. DEFINE s == [NoSummary EXCEPT !.total = Cardinality(InScope(k))]
              r == [req[q] EXCEPT !.pc = "counted", !.readAt = now, !.summary = s]
  <2>1. /\ req[q].pc = "list" /\ cache' = Without(k) /\ Set(q, r)
        /\ UNCHANGED <<now, key, conn, changedAt>>
    BY <1>4 DEF ListCount
  <2>2. s \in Summaries
    BY <1>0, <2>1, InScopeFinite DEF NoSummary, Summaries
  <2>. HIDE DEF s
  <2>3. r \in Request /\ r.pc = "counted" /\ r.readAt = now
    BY <1>0, <2>2 DEF Request
  <2>. HIDE DEF r
  <2>4. Dated(r)
    BY <1>0, <2>3 DEF Dated
  <2>5. QED  BY <1>0, <2>1, <2>3, <2>4, WithoutType, RequestAges
<1>5. CASE ListRead(q)
  <2>. DEFINE s == Summary(req[q].summary.total, Lines(k))
              r == [req[q] EXCEPT !.pc = "loaded", !.summary = s]
  <2>1. /\ req[q].pc = "counted" /\ Set(q, r) /\ k \in Keys /\ req[q].key = k
        /\ UNCHANGED <<now, key, conn, changedAt, cache>> /\ req[q].summary.total \in Nat
    BY <1>0, <1>5 DEF ListRead, Request, Summaries
  <2>2. s \in Summaries /\ s.lines = Lines(k)
    BY <1>0, <2>1, LinesWithin, SummaryType
  <2>. HIDE DEF s
  <2>3. /\ r \in Request /\ r.pc = "loaded" /\ r.key = k
        /\ r.readAt = req[q].readAt /\ r.summary = s
    BY <1>0, <2>1, <2>2 DEF Request
  <2>. HIDE DEF r
  <2>4. s.lines = LinesFor(CacheKey(k))
    BY <2>1, <2>2, LinesOfKey
  <2>5. Dated(r)
    BY <1>0, <2>1, <2>3, <2>4 DEF Dated, Recent
  <2>6. QED  BY <1>0, <2>1, <2>3, <2>5, RequestAges
<1>6. CASE ListStore(q)
  <2>. DEFINE e == [id |-> CacheKey(k), storedAt |-> now,
                    readAt |-> req[q].readAt, summary |-> req[q].summary]
              r == [req[q] EXCEPT !.pc = "served", !.storedAt = now]
  <2>1. /\ req[q].pc = "loaded" /\ cache' = Stored(k, e) /\ Set(q, r)
        /\ UNCHANGED <<now, key, conn, changedAt>> /\ k \in Keys /\ req[q].key = k
    BY <1>0, <1>6 DEF ListStore
  <2>2. Scope(k) \in AnyScope /\ Within(req[q].summary.lines, Tenant[k], Scope(k))
    BY <1>0, <2>1 DEF Scope, KeyRow, McpType, OwnKey
  <2>3. e \in GoodEntry
    BY <1>0, <2>1, <2>2 DEF GoodEntry, Entry, CacheKey, Request
  <2>4. e \in AgedEntry
    BY <1>0, <2>1, <2>3 DEF AgedEntry, Dated
  <2>5. r \in Request /\ r.pc = "served"
    BY <1>0 DEF Request
  <2>. HIDE DEF r, e
  <2>6. QED  BY <1>0, <2>1, <2>4, <2>5, StoredType, RequestAges DEF Dated
<1>7. ASSUME NEW c \in MConns, Execute(q, c) PROVE AgeInv'
  <2>. DEFINE r == [req[q] EXCEPT !.pc = "served"]
              t == [req[q] EXCEPT !.pc = "calling", !.conn = c]
  <2>1. UNCHANGED <<now, key, conn, changedAt, cache>> /\ (Set(q, r) \/ Set(q, t))
    BY <1>7 DEF Execute
  <2>2. r \in Request /\ r.pc = "served" /\ t \in Request /\ t.pc = "calling"
    BY <1>0 DEF Request
  <2>. HIDE DEF r, t
  <2>3. QED  BY <1>0, <2>1, <2>2, RequestAges DEF Dated
<1>8. CASE Respond(q)
  <2>1. Fresh.pc = "idle"
    BY DEF Fresh
  <2>2. QED  BY <1>0, <1>8, <2>1, FreshOwn, RequestAges DEF Respond, Dated
<1>9. QED
  BY <1>1, <1>2, <1>3, <1>4, <1>5, <1>6, <1>7, <1>8

LEMMA AgesKept ==
  ASSUME McpInv, AgeInv, [McpNext]_mcpVars
  PROVE  AgeInv'
<1>1. ASSUME UNCHANGED <<req, cache>>, WorldStep, now' \in Nat, now <= now',
             changedAt' \in [MConns -> Nat],
             \A k \in Keys : key[k].state # "absent" => key'[k].scope = key[k].scope
      PROVE  AgeInv'
  <2>1. cache' \in Seq(AgedEntry')
    BY <1>1, EntriesAge DEF AgeInv
  <2>2. ASSUME NEW q \in Requests PROVE Dated(req[q])'
    BY <1>1, DatedKept
  <2>3. QED  BY <1>1, <2>1, <2>2 DEF AgeInv
<1>2. now \in Nat /\ key \in [Keys -> KeyRow] /\ changedAt \in [MConns -> Nat]
  BY DEF McpInv, McpType, AgeInv
<1>3. CASE UNCHANGED mcpVars
  BY <1>1, <1>2, <1>3 DEF mcpVars, WorldStep
<1>4. ASSUME NEW k \in Keys, NEW scope \in Scopes, NEW days \in Days, CreateKey(k, scope, days)
      PROVE  AgeInv'
  BY <1>1, <1>2, <1>4 DEF CreateKey, WorldStep
<1>5. ASSUME NEW k \in Keys, RevokeKey(k) PROVE AgeInv'
  <2>1. \A j \in Keys : key'[j].scope = key[j].scope
    BY <1>2, <1>5 DEF RevokeKey, KeyRow
  <2>2. QED  BY <1>1, <1>2, <1>5, <2>1 DEF RevokeKey, WorldStep
<1>6. ASSUME NEW c \in MConns, NEW status \in Status \cup {"gone"}, ChangeConnection(c, status)
      PROVE  AgeInv'
  <2>1. /\ UNCHANGED <<now, key, req, cache>> /\ conn' = [conn EXCEPT ![c] = status]
        /\ changedAt' = [changedAt EXCEPT ![c] = now]
    BY <1>6 DEF ChangeConnection
  <2>2. WorldStep
    BY <2>1 DEF WorldStep
  <2>3. changedAt' \in [MConns -> Nat]
    BY <1>2, <2>1
  <2>4. QED  BY <1>1, <1>2, <2>1, <2>2, <2>3
<1>7. CASE Tick
  BY <1>1, <1>2, <1>7 DEF Tick, WorldStep
<1>8. QED  BY <1>3, <1>4, <1>5, <1>6, <1>7, ServingAges DEF McpNext

\* A stale summary that is served: its load began after some connection's last change.
LEMMA StaleAges ==
  ASSUME McpInv, AgeInv, NEW k \in Keys, NEW lines, NEW readAt \in Nat, NEW storedAt \in Nat,
         readAt <= storedAt, now <= storedAt + SummaryTTL,
         Recent(CacheKey(k), lines, readAt), lines # Lines(k)
  PROVE  \E c \in MConns : /\ Tenant[c] = Tenant[k] /\ Allows(k, c)
                           /\ now <= changedAt[c] + SummaryTTL + (storedAt - readAt)
<1>1. PICK c \in MConns : Tenant[c] = Tenant[k] /\ c \in Reached(Scope(k)) /\ readAt <= changedAt[c]
  BY LinesOfKey DEF Recent, ChangedSince, CacheKey
<1>2. changedAt[c] \in Nat /\ now \in Nat /\ SummaryTTL \in Nat
  BY McpAssumption DEF AgeInv, McpInv, McpType
<1>3. now <= changedAt[c] + SummaryTTL + (storedAt - readAt)
  BY <1>1, <1>2
<1>4. QED  BY <1>1, <1>3, AllowsReached

\* A request is answered with a summary from the cache or with the one it loaded.
LEMMA ServedStale ==
  ASSUME McpInv, OneEntry(cache), AgeInv, McpNext, NEW q \in Requests,
         req'[q].pc = "served", req'[q].tool = "list", req[q] # req'[q],
         req'[q].summary.lines # Lines(req'[q].key)
  PROVE  \E c \in MConns :
           /\ Tenant[c] = Tenant[req'[q].key] /\ Allows(req'[q].key, c)
           /\ now <= changedAt[c] + SummaryTTL + (req'[q].storedAt - req'[q].readAt)
<1>. DEFINE k == req[q].runs_as
<1>0. /\ req[q] \in Request /\ OwnKey(req[q]) /\ Dated(req[q]) /\ req \in [Requests -> Request]
      /\ cache \in Seq(AgedEntry) /\ now \in Nat /\ SummaryTTL \in Nat
  BY McpAssumption DEF McpInv, McpType, AgeInv
<1>1. ListCached(q) \/ ListStore(q) \/ \E c \in MConns : Execute(q, c)
  <2>1. ASSUME NEW p \in Requests, NEW r, req' = [req EXCEPT ![p] = r], r.pc # "served" \/ p # q
        PROVE  FALSE
    BY <1>0, <2>1
  <2>2. ~UNCHANGED req
    OBVIOUS
  <2>3. PICK p \in Requests :
          \/ \E j \in Keys, tool \in {"list", "execute"} : Arrive(p, j, tool)
          \/ Dispatch(p) \/ ListCached(p) \/ ListCount(p) \/ ListRead(p)
          \/ ListStore(p) \/ Respond(p) \/ \E c \in MConns : Execute(p, c)
    BY <2>2 DEF McpNext, CreateKey, RevokeKey, ChangeConnection, Tick
  <2>4. p = q
    BY <2>1, <2>3 DEF Set, Arrive, Dispatch, ListCached, ListCount, ListRead, ListStore, Respond,
                      Execute
  <2>5. ~Respond(q) /\ \A j \in Keys, tool \in {"list", "execute"} : ~Arrive(q, j, tool)
    BY <2>1 DEF Set, Respond, Arrive, Fresh
  <2>6. ~Dispatch(q)
    BY <1>0, <2>1 DEF Set, Dispatch, OwnKey, Request
  <2>7. ~ListCount(q) /\ ~ListRead(q)
    BY <1>0, <2>1 DEF Set, ListCount, ListRead, Request
  <2>8. QED  BY <2>3, <2>4, <2>5, <2>6, <2>7
<1>2. k \in Keys /\ req[q].key = k
  BY <1>0, <1>1 DEF ListCached, ListStore, Execute, OwnKey
<1>3. ASSUME NEW c \in MConns, Execute(q, c) PROVE FALSE
  <2>1. req'[q].tool = req[q].tool /\ req[q].tool = "execute"
    BY <1>0, <1>3 DEF Execute, Set, Dated, Request
  <2>2. QED  BY <2>1
<1>4. CASE ListStore(q)
  <2>. DEFINE r == [req[q] EXCEPT !.pc = "served", !.storedAt = now]
  <2>1. req'[q] = r /\ req[q].pc = "loaded"
    BY <1>0, <1>4 DEF ListStore, Set
  <2>2. /\ r.key = k /\ r.readAt = req[q].readAt /\ r.storedAt = now
        /\ r.summary = req[q].summary /\ r.readAt \in Nat
    BY <1>0, <1>2 DEF Request
  <2>. HIDE DEF r
  <2>3. r.readAt <= now /\ Recent(CacheKey(k), r.summary.lines, r.readAt)
    BY <1>0, <1>2, <2>1, <2>2 DEF Dated
  <2>4. now <= now + SummaryTTL
    BY <1>0
  <2>5. QED  BY <1>0, <1>2, <2>1, <2>2, <2>3, <2>4, StaleAges
<1>5. CASE ListCached(q)
  <2>. DEFINE i == CHOOSE i \in Entries(k) : TRUE
              e == cache[i]
              r == [req[q] EXCEPT !.pc = "served", !.summary = e.summary,
                                  !.readAt = e.readAt, !.storedAt = e.storedAt]
  <2>1. Hit(k) /\ req'[q] = r
    BY <1>0, <1>5 DEF ListCached, Set
  <2>2. PICK j \in Entries(k) : now - cache[j].storedAt <= SummaryTTL
    BY <2>1 DEF Hit
  <2>3. i \in Entries(k)
    BY <2>2
  <2>. HIDE DEF i
  <2>4. i = j
    BY <2>2, <2>3 DEF Entries, OneEntry
  <2>5. e \in AgedEntry /\ e.id = CacheKey(k) /\ now - e.storedAt <= SummaryTTL
    BY <1>0, <2>2, <2>3, <2>4, ElementOfSeq, LenProperties DEF Entries
  <2>. HIDE DEF e
  <2>6. /\ e.readAt \in Nat /\ e.storedAt \in Nat /\ e.readAt <= e.storedAt
        /\ Recent(CacheKey(k), e.summary.lines, e.readAt)
    BY <2>5 DEF AgedEntry, GoodEntry, Entry
  <2>7. now <= e.storedAt + SummaryTTL
    BY <1>0, <2>5, <2>6
  <2>8. /\ r.key = k /\ r.readAt = e.readAt /\ r.storedAt = e.storedAt
        /\ r.summary = e.summary
    BY <1>0, <1>2 DEF Request
  <2>. HIDE DEF r
  <2>9. QED  BY <1>2, <2>1, <2>6, <2>7, <2>8, StaleAges
<1>6. QED  BY <1>1, <1>3, <1>4, <1>5

LEMMA AgesStart == McpInit => OneEntry(cache) /\ AgeInv
<1>. SUFFICES ASSUME McpInit PROVE OneEntry(cache) /\ AgeInv
  OBVIOUS
<1>1. cache = <<>> /\ \A q \in Requests : Dated(req[q])
  BY DEF McpInit, Fresh, Dated
<1>2. QED  BY <1>1, EmptySeq DEF McpInit, OneEntry, AgeInv

(* A summary that is served and is not what the database says now is stale by at  *)
(* most the time to live and the time its own load took, whichever requests share *)
(* the cache, evict its entries and overwrite them with older loads                *)
(* (connection_summary_for_tools_list): for any number of keys and connections,   *)
(* any time to live and any size of the cache.                                  *)
THEOREM SummaryAgesOutAlways == McpSpec => SummaryAgesOut
<1>. DEFINE Step == \A q \in Requests :
       LET r == req'[q] IN
       (r.pc = "served" /\ r.tool = "list" /\ req[q] # r /\ r.summary.lines # Lines(r.key)) =>
         \E c \in MConns : /\ Tenant[c] = Tenant[r.key] /\ Allows(r.key, c)
                           /\ now <= changedAt[c] + SummaryTTL + (r.storedAt - r.readAt)
<1>1. McpInit => McpInv /\ OneEntry(cache) /\ AgeInv
  BY McpStart, AgesStart
<1>2. McpInv /\ OneEntry(cache) /\ AgeInv /\ [McpNext]_mcpVars =>
        (McpInv /\ OneEntry(cache) /\ AgeInv)'
  BY McpKept, OneEntryKept, AgesKept
<1>3. McpInv /\ OneEntry(cache) /\ AgeInv /\ [McpNext]_mcpVars => [Step]_mcpVars
  BY ServedStale
<1>4. QED  BY <1>1, <1>2, <1>3, PTL DEF McpSpec, SummaryAgesOut

=============================================================================
