--------------------------------- MODULE Jwks ---------------------------------
(***************************************************************************)
(* Verification of bearer tokens against Keycloak's signing keys            *)
(* (api/dependencies/auth.py).  One cache of the key set is shared by all    *)
(* requests of a process; it is filled by whoever finds it empty or too old, *)
(* and a request whose key is missing from it empties it and fetches once    *)
(* more.  Fetches of several requests overlap and may end in any order.      *)
(***************************************************************************)
EXTENDS Naturals

CONSTANTS
  Verifiers,   \* requests that carry a bearer token
  Kids,        \* ids of signing keys
  TTL,         \* keycloak_jwks_cache_seconds
  MaxClock,    \* bound on the clock
  NoKeys       \* _keys = None

ASSUME JwksAssumption ==
  /\ TTL \in Nat /\ MaxClock \in Nat
  /\ \A S \in SUBSET Kids : NoKeys # S

VARIABLES
  clock,      \* time.monotonic()
  published,  \* the keys Keycloak serves
  retiredAt,  \* when a key was withdrawn; Never if it was not
  keys,       \* _JwksCache._keys
  fetchedAt,  \* _JwksCache._fetched_at
  ver         \* what each request is doing

jwksVars == <<clock, published, retiredAt, keys, fetchedAt, ver>>

Never == MaxClock + 1

Waiting == {"fetch", "served"}

Verification == [pc : {"idle", "accepted", "refused", "unavailable"} \cup Waiting,
                 kid : Kids,
                 second : BOOLEAN,     \* the cache was invalidated for this request
                 asked : 0..MaxClock,  \* `now`, read before the fetch
                 got : SUBSET Kids,    \* the key set in the answer
                 at : 0..MaxClock,     \* history: when the cache answered
                 hit : BOOLEAN,        \* history: they came from the cache
                 whole : BOOLEAN]      \* history: its key was published throughout

JwksTypeOK ==
  /\ clock \in 0..MaxClock
  /\ published \in SUBSET Kids
  /\ retiredAt \in [Kids -> 0..Never]
  /\ keys \in {NoKeys} \cup SUBSET Kids
  /\ fetchedAt \in 0..MaxClock
  /\ ver \in [Verifiers -> Verification]

Request(k) == [pc |-> "fetch", kid |-> k, second |-> FALSE, asked |-> clock, got |-> {},
               at |-> 0, hit |-> FALSE, whole |-> k \in published]

JwksInit ==
  /\ clock = 0
  /\ published \in SUBSET Kids
  /\ retiredAt = [k \in Kids |-> Never]
  /\ keys = NoKeys
  /\ fetchedAt = 0
  /\ \E k \in Kids : ver = [v \in Verifiers |-> [Request(k) EXCEPT !.pc = "idle"]]

-----------------------------------------------------------------------------
(* _JwksCache.get and the lookup of the key in _verify_jwt.                 *)

Fresh == keys # NoKeys /\ clock - fetchedAt < TTL

\* The key is missing: invalidate, and `get` again, which has to fetch.
Refetch(v, request) ==
  /\ keys' = NoKeys
  /\ fetchedAt' = 0
  /\ ver' = [ver EXCEPT ![v] = [request EXCEPT !.pc = "fetch", !.second = TRUE, !.asked = clock]]

\* Mutant: a fresh cache without the key refuses the token.
VerifyOnce(v, k) ==
  /\ ver[v].pc \notin Waiting
  /\ ver' = [ver EXCEPT ![v] =
       IF ~Fresh THEN Request(k)
       ELSE [Request(k) EXCEPT !.pc = IF k \in keys THEN "accepted" ELSE "refused",
                               !.asked = 0, !.at = clock, !.hit = TRUE]]
  /\ UNCHANGED <<clock, published, retiredAt, keys, fetchedAt>>

\* A request with a token signed by k; a fresh cache is used without an await.
Verify(v, k) ==
  /\ ver[v].pc \notin Waiting
  /\ \/ /\ ~Fresh
        /\ ver' = [ver EXCEPT ![v] = Request(k)]
        /\ UNCHANGED <<keys, fetchedAt>>
     \/ /\ Fresh /\ k \in keys
        /\ ver' = [ver EXCEPT ![v] =
             [Request(k) EXCEPT !.pc = "accepted", !.asked = 0, !.at = clock, !.hit = TRUE]]
        /\ UNCHANGED <<keys, fetchedAt>>
     \/ Fresh /\ k \notin keys /\ Refetch(v, Request(k))
  /\ UNCHANGED <<clock, published, retiredAt>>

\* Keycloak answers a fetch with the keys of that moment.
Serve(v) ==
  /\ ver[v].pc = "fetch"
  /\ ver' = [ver EXCEPT ![v] = [@ EXCEPT !.pc = "served", !.got = published]]
  /\ UNCHANGED <<clock, published, retiredAt, keys, fetchedAt>>

\* Mutant: the answer is dated by its arrival.
StoreDatedLate(v) ==
  /\ ver[v].pc = "served"
  /\ ver[v].kid \in ver[v].got
  /\ keys' = ver[v].got
  /\ fetchedAt' = clock
  /\ ver' = [ver EXCEPT ![v] = [@ EXCEPT !.pc = "accepted", !.got = {}]]
  /\ UNCHANGED <<clock, published, retiredAt>>

\* The answer arrives: the cache takes it, dated by the start of the fetch.
Store(v) ==
  /\ ver[v].pc = "served"
  /\ \/ /\ ver[v].kid \in ver[v].got
        /\ keys' = ver[v].got
        /\ fetchedAt' = ver[v].asked
        /\ ver' = [ver EXCEPT ![v] = [@ EXCEPT !.pc = "accepted", !.got = {}]]
     \/ /\ ver[v].kid \notin ver[v].got
        /\ ~ver[v].second
        /\ Refetch(v, [ver[v] EXCEPT !.got = {}])
     \/ /\ ver[v].kid \notin ver[v].got
        /\ ver[v].second
        /\ keys' = ver[v].got
        /\ fetchedAt' = ver[v].asked
        /\ ver' = [ver EXCEPT ![v] = [@ EXCEPT !.pc = "refused", !.got = {}]]
  /\ UNCHANGED <<clock, published, retiredAt>>

\* The fetch raises httpx.HTTPError: 503, and the cache is left as it is.
Unreachable(v) ==
  /\ ver[v].pc \in Waiting
  /\ ver' = [ver EXCEPT ![v] = [@ EXCEPT !.pc = "unavailable", !.got = {}]]
  /\ UNCHANGED <<clock, published, retiredAt, keys, fetchedAt>>

-----------------------------------------------------------------------------
(* Keycloak rotates its keys; time passes.                                  *)

PublishKey(k) ==
  /\ k \notin published
  /\ retiredAt[k] = Never
  /\ published' = published \cup {k}
  /\ UNCHANGED <<clock, retiredAt, keys, fetchedAt, ver>>

Retire(k) ==
  /\ k \in published
  /\ published' = published \ {k}
  /\ retiredAt' = [retiredAt EXCEPT ![k] = clock]
  /\ ver' = [v \in Verifiers |-> IF ver[v].kid = k /\ ver[v].pc \in Waiting
                                 THEN [ver[v] EXCEPT !.whole = FALSE] ELSE ver[v]]
  /\ UNCHANGED <<clock, keys, fetchedAt>>

Tick ==
  /\ clock < MaxClock
  /\ clock' = clock + 1
  /\ UNCHANGED <<published, retiredAt, keys, fetchedAt, ver>>

JwksNext ==
  \/ \E v \in Verifiers, k \in Kids : Verify(v, k)
  \/ \E v \in Verifiers : Serve(v) \/ Store(v) \/ Unreachable(v)
  \/ \E k \in Kids : PublishKey(k) \/ Retire(k)
  \/ Tick

JwksSpec == JwksInit /\ [][JwksNext]_jwksVars

-----------------------------------------------------------------------------
(* A token whose key Keycloak published during the whole request is never   *)
(* refused for its key, whatever the cache held and whoever else filled or   *)
(* emptied it meanwhile ("invalidate cache and refetch once before giving    *)
(* up", _verify_jwt).                                                        *)
PublishedKeyAccepted == \A v \in Verifiers : ver[v].pc = "refused" => ~ver[v].whole

(* A withdrawn key ages out: the cache answers for it less than TTL after    *)
(* Keycloak withdrew it, even if an older answer overwrote a newer one; and   *)
(* a request that fetched was not begun after the withdrawal                  *)
(* (_JwksCache.get dates an answer by the start of its fetch).                *)
RetiredKeyAgesOut ==
  \A v \in Verifiers :
    ver[v].pc = "accepted" =>
      IF ver[v].hit THEN ver[v].at < retiredAt[ver[v].kid] + TTL
                    ELSE ver[v].asked <= retiredAt[ver[v].kid]

=============================================================================
