--------------------------------- MODULE Search ---------------------------------
(***************************************************************************)
(* Hybrid search over the indexed operations of a tenant                     *)
(* (services/search/vector_search.py, services/search/service.py).  The      *)
(* statement joins chunks to the tenant's connections, ranks them by vector  *)
(* distance and by keyword, fuses the two rankings by reciprocal rank, and   *)
(* takes the best.  Ranks and ties are an input: PostgreSQL numbers equal    *)
(* rows in any order.                                                        *)
(***************************************************************************)
EXTENDS Naturals, Sequences, FiniteSets, SequencesExt

CONSTANTS
  Chunks,       \* rows of operation_chunks
  SpecOf,       \* SpecOf[k]: the spec a chunk belongs to
  Linked,       \* connections
  Link,         \* Link[c]: [tenant, connector, spec]
  Created,      \* Created[c]: the place of a connection in the order of created_at
  RrfK,         \* _RRF_K
  ChannelLimit, \* _PER_CHANNEL_LIMIT
  TopN,         \* CLARIFICATION_TOP_N
  NoFilter      \* connector_filter is None

ASSUME SearchAssumption ==
  /\ IsFiniteSet(Chunks) /\ RrfK \in Nat \ {0} /\ ChannelLimit \in Nat \ {0} /\ TopN \in Nat
  /\ \A c, d \in Linked : c # d => Created[c] # Created[d]

VARIABLES
  query,    \* [tenant, filter, top_k, skills, semantic, keyword]
  hits,     \* the chunks of the answer, best first
  reply     \* [clarify, candidates]

searchVars == <<query, hits, reply>>

NoReply == [answered |-> FALSE, clarify |-> FALSE, candidates |-> {}]

\* The orders in which the channels rank the chunks: all of them by distance,
\* those that match by keyword.
Rankings(S) == {f \in [1..Cardinality(S) -> S] : \A x, y \in DOMAIN f : x # y => f[x] # f[y]}

SearchInit ==
  /\ query \in [tenant : {Link[c].tenant : c \in Linked},
                filter : {NoFilter} \cup {Link[c].connector : c \in Linked},
                top_k : 1..Cardinality(Chunks),
                skills : BOOLEAN,
                semantic : Rankings(Chunks),
                keyword : UNION {Rankings(S) : S \in SUBSET Chunks}]
  /\ hits = <<>>
  /\ reply = NoReply

\* FROM operation_chunks JOIN connections ... WHERE: any connection of the
\* tenant that is bound to the chunk's spec, whatever its status.
Candidates(k) ==
  {c \in Linked : /\ Link[c].spec = SpecOf[k]
                  /\ Link[c].tenant = query.tenant
                  /\ query.filter = NoFilter \/ Link[c].connector = query.filter}

Visible == {k \in Chunks : Candidates(k) # {}}

\* DISTINCT ON (oc.id) ... ORDER BY c.created_at DESC
ConnectionOf(k) == CHOOSE c \in Candidates(k) : \A d \in Candidates(k) : Created[d] <= Created[c]

\* ROW_NUMBER() of the row at place i of an order: it counts the visible ones.
RowNumber(order, i) == Cardinality({j \in 1..i : order[j] \in Visible})

\* A channel: the places of its order that are visible, cut at the limit.
Channel(order) ==
  {i \in DOMAIN order : order[i] \in Visible /\ RowNumber(order, i) <= ChannelLimit}

Listed(order, k) == {i \in Channel(order) : order[i] = k}

\* The sum of two fractions.
Plus(x, y) == [num |-> x.num * y.den + y.num * x.den, den |-> x.den * y.den]

\* Mutant: a channel that does not list the chunk counts as rank 0.
ScoreMissingFirst(k) ==
  LET term(order) == [num |-> 1,
                      den |-> RrfK + IF Listed(order, k) = {} THEN 0
                                     ELSE RowNumber(order, CHOOSE i \in Listed(order, k) : TRUE)]
  IN Plus(term(query.semantic), term(query.keyword))

\* 1 / (k + rank) in one channel, as a fraction.
Term(order, k) ==
  IF Listed(order, k) = {} THEN [num |-> 0, den |-> 1]
  ELSE [num |-> 1, den |-> RrfK + RowNumber(order, CHOOSE i \in Listed(order, k) : TRUE)]

Score(k) == Plus(Term(query.semantic, k), Term(query.keyword, k))

Exceeds(x, y) == x.num * y.den > y.num * x.den

Fused == {k \in Visible : Listed(query.semantic, k) # {} \/ Listed(query.keyword, k) # {}}

\* ORDER BY f.score DESC LIMIT :top_k, equal scores in any order.
Answers ==
  LET size == IF Cardinality(Fused) < query.top_k THEN Cardinality(Fused) ELSE query.top_k
      score == [k \in Fused |-> Score(k)]
  IN {f \in UNION {Rankings(S) : S \in {T \in SUBSET Fused : Cardinality(T) = size}} :
        /\ \A i, j \in DOMAIN f : i < j => ~Exceeds(score[f[j]], score[f[i]])
        /\ \A i \in DOMAIN f, k \in Fused \ ToSet(f) : ~Exceeds(score[k], score[f[i]])}

ConnectorsInTop(answer) ==
  {Link[ConnectionOf(answer[i])].connector : i \in {j \in DOMAIN answer : j <= TopN}}

\* SearchService.search: in skill mode the operations are not searched.
Answer ==
  /\ ~reply.answered
  /\ IF query.skills
     THEN hits' = <<>> /\ reply' = [NoReply EXCEPT !.answered = TRUE]
     ELSE \E answer \in Answers :
            /\ hits' = answer
            /\ reply' = [answered |-> TRUE,
                         clarify |-> query.filter = NoFilter /\ Cardinality(ConnectorsInTop(answer)) > 1,
                         candidates |-> ConnectorsInTop(answer)]
  /\ UNCHANGED query

SearchNext == Answer

SearchSpec == SearchInit /\ [][SearchNext]_searchVars

-----------------------------------------------------------------------------
Before(order, a, b) ==
  LET at(k) == {i \in DOMAIN order : order[i] = k}
  IN at(b) = {} \/ \E i \in at(a), j \in at(b) : i < j

(* Fusion respects agreement: a hit is never listed, nor an operation left    *)
(* out for it, when both channels put the other one first; the filters, the   *)
(* limits of the channels and of the answer do not change that                *)
(* (PgVectorSearch._search, fused).                                           *)
FusionRespectsAgreement ==
  \A j \in DOMAIN hits : \A k \in Visible :
    Before(query.semantic, k, hits[j]) /\ Before(query.keyword, k, hits[j])
      => \E i \in DOMAIN hits : i < j /\ hits[i] = k

=============================================================================
