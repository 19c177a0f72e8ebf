----------------------------- MODULE IdentityProofs -----------------------------
(***************************************************************************)
(* Proofs about who a request comes from: the cache of Keycloak's signing    *)
(* keys, for any number of requests, keys, withdrawals and fetches that end  *)
(* in any order; and sign-up, for any number of requests, users, slugs and   *)
(* retries, and whatever crashes or is refused at its commit.                *)
(***************************************************************************)
EXTENDS Jwks, Tenants, TLAPS

-----------------------------------------------------------------------------
(* The properties are not inductive: they speak of requests that have ended.  *)
(* What they rest on is said of the cache and of the fetches under way.       *)

\* A key is served until it is withdrawn, which happened before now; whatever
\* the cache holds was served when the fetch began that dates it.
CacheDated ==
  /\ clock \in 0..MaxClock
  /\ published \in SUBSET Kids
  /\ retiredAt \in [Kids -> 0..Never]
  /\ keys \in {NoKeys} \cup SUBSET Kids
  /\ fetchedAt \in 0..MaxClock
  /\ \A k \in published : retiredAt[k] = Never
  /\ \A k \in Kids : retiredAt[k] = Never \/ retiredAt[k] <= clock
  /\ fetchedAt <= clock
  /\ keys # NoKeys => \A k \in keys : fetchedAt <= retiredAt[k]

\* What an answer on its way holds was served after its fetch began, and has
\* the request's key if that was published throughout; a cache that is ever
\* fresh has a positive time to live.
Sound(r) ==
  /\ r \in Verification
  /\ r.asked <= clock
  /\ r.at <= clock
  /\ r.hit => TTL > 0
  /\ r.pc \in Waiting => ~r.hit
  /\ r.pc \in Waiting /\ r.whole => r.kid \in published
  /\ r.pc = "served" => \A k \in r.got : r.asked <= retiredAt[k]
  /\ r.pc = "served" /\ r.whole => r.kid \in r.got
  /\ r.pc = "refused" => ~r.whole
  /\ r.pc = "accepted" => IF r.hit THEN r.at < retiredAt[r.kid] + TTL
                                   ELSE r.asked <= retiredAt[r.kid]

AllSound == ver \in [Verifiers -> Verification] /\ \A v \in Verifiers : Sound(ver[v])

JwksInv == CacheDated /\ AllSound

-----------------------------------------------------------------------------
\* A step that changes one request and nothing Sound speaks of.
LEMMA OneChanges ==
  ASSUME AllSound, UNCHANGED <<clock, published, retiredAt>>,
         NEW v \in Verifiers, NEW r, Sound(r), ver' = [ver EXCEPT ![v] = r]
  PROVE  AllSound'
<1>1. ver' \in [Verifiers -> Verification]
  BY DEF AllSound, Sound
<1>2. ASSUME NEW w \in Verifiers PROVE Sound(ver[w])' <=> Sound(ver'[w])
  BY DEF Sound, Never
<1>3. ASSUME NEW w \in Verifiers PROVE Sound(ver'[w])
  BY DEF AllSound
<1> QED BY <1>1, <1>2, <1>3 DEF AllSound

\* A request that begins, or asks a second time, waits for the present.
LEMMA RequestSound ==
  ASSUME JwksInv, NEW k \in Kids
  PROVE  /\ Sound(Request(k))
         /\ Sound([Request(k) EXCEPT !.pc = "fetch", !.second = TRUE, !.asked = clock])
<1>1. clock \in 0..MaxClock /\ clock \in Nat /\ 0 \in 0..MaxClock /\ (k \in published) \in BOOLEAN
  BY JwksAssumption DEF JwksInv, CacheDated
<1>2. Request(k) \in Verification
  BY <1>1 DEF Request, Verification, Waiting
<1>3. /\ Request(k).pc = "fetch" /\ Request(k).asked = clock /\ Request(k).at = 0
      /\ Request(k).kid = k /\ ~Request(k).hit /\ (Request(k).whole => k \in published)
  BY DEF Request
<1>4. Sound(Request(k))
  BY <1>1, <1>2, <1>3 DEF Sound, Waiting
<1> DEFINE r == [Request(k) EXCEPT !.pc = "fetch", !.second = TRUE, !.asked = clock]
<1>5. /\ r.pc = "fetch" /\ r.asked = clock /\ r.at = 0
      /\ r.kid = k /\ ~r.hit /\ (r.whole => k \in published)
  BY DEF Request
<1>6. r \in Verification
  BY <1>1 DEF Request, Verification, Waiting
<1> HIDE DEF r
<1>7. Sound(r)
  BY <1>1, <1>5, <1>6 DEF Sound, Waiting
<1> QED BY <1>4, <1>7 DEF r

\* The initial states.
LEMMA InitSound == JwksInit => JwksInv
<1> SUFFICES ASSUME JwksInit PROVE JwksInv
  OBVIOUS
<1>1. CacheDated
  BY JwksAssumption DEF JwksInit, CacheDated, Never
<1>2. PICK k \in Kids : ver = [v \in Verifiers |-> [Request(k) EXCEPT !.pc = "idle"]]
  BY DEF JwksInit
<1>3. Sound([Request(k) EXCEPT !.pc = "idle"])
  <2> DEFINE r == [Request(k) EXCEPT !.pc = "idle"]
  <2>1. clock \in 0..MaxClock /\ clock \in Nat /\ 0 \in 0..MaxClock /\ (k \in published) \in BOOLEAN
    BY <1>1, JwksAssumption DEF CacheDated
  <2>2. r \in Verification
    BY <2>1 DEF Request, Verification, Waiting
  <2>3. r.pc = "idle" /\ r.asked = clock /\ r.at = 0 /\ ~r.hit
    BY DEF Request
  <2> HIDE DEF r
  <2>4. Sound(r)
    BY <2>1, <2>2, <2>3 DEF Sound, Waiting
  <2> QED BY <2>4 DEF r
<1>4. [Request(k) EXCEPT !.pc = "idle"] \in Verification
  BY <1>3 DEF Sound
<1> HIDE DEF JwksInit
<1> QED BY <1>1, <1>2, <1>3, <1>4 DEF JwksInv, AllSound

\* Verify: a hit comes from keys served less than TTL ago.
LEMMA VerifySound ==
  ASSUME JwksInv, NEW v \in Verifiers, NEW k \in Kids, Verify(v, k)
  PROVE  JwksInv'
<1>0. AllSound /\ CacheDated /\ UNCHANGED <<clock, published, retiredAt>>
  BY DEF JwksInv, Verify
<1>1. CASE ~Fresh /\ ver' = [ver EXCEPT ![v] = Request(k)] /\ UNCHANGED <<keys, fetchedAt>>
  <2>1. AllSound'
    BY <1>0, <1>1, RequestSound, OneChanges
  <2>2. CacheDated'
    BY <1>0, <1>1 DEF CacheDated, Never
  <2> QED BY <2>1, <2>2 DEF JwksInv
<1>2. CASE /\ Fresh /\ k \in keys /\ UNCHANGED <<keys, fetchedAt>>
           /\ ver' = [ver EXCEPT ![v] =
                [Request(k) EXCEPT !.pc = "accepted", !.asked = 0, !.at = clock, !.hit = TRUE]]
  <2> DEFINE r == [Request(k) EXCEPT !.pc = "accepted", !.asked = 0, !.at = clock, !.hit = TRUE]
  <2>1. clock - fetchedAt < TTL /\ fetchedAt <= clock /\ fetchedAt <= retiredAt[k]
    BY <1>0, <1>2 DEF Fresh, CacheDated
  <2>2. clock \in Nat /\ fetchedAt \in Nat /\ retiredAt[k] \in Nat /\ TTL \in Nat
    BY <1>0, JwksAssumption DEF CacheDated, Never
  <2>3. TTL > 0 /\ clock < retiredAt[k] + TTL
    BY <2>1, <2>2
  <2>4. Sound(r)
    <3>1. clock \in 0..MaxClock /\ 0 \in 0..MaxClock /\ (k \in published) \in BOOLEAN
      BY <1>0, JwksAssumption DEF CacheDated
    <3>2. r \in Verification
      BY <3>1 DEF Request, Verification, Waiting
    <3>3. r.pc = "accepted" /\ r.kid = k /\ r.asked = 0 /\ r.at = clock /\ r.hit
      BY DEF Request
    <3> HIDE DEF r
    <3> QED BY <2>2, <2>3, <3>2, <3>3 DEF Sound, Waiting
  <2>5. AllSound'
    BY <1>0, <1>2, <2>4, OneChanges
  <2>6. CacheDated'
    BY <1>0, <1>2 DEF CacheDated, Never
  <2> QED BY <2>5, <2>6 DEF JwksInv
<1>3. CASE Fresh /\ k \notin keys /\ Refetch(v, Request(k))
  <2>1. AllSound'
    BY <1>0, <1>3, RequestSound, OneChanges DEF Refetch
  <2>2. CacheDated'
    BY <1>0, <1>3, JwksAssumption DEF CacheDated, Refetch, Never
  <2> QED BY <2>1, <2>2 DEF JwksInv
<1> QED BY <1>1, <1>2, <1>3 DEF Verify

\* Serve: the published keys are none that was withdrawn.
LEMMA ServeSound ==
  ASSUME JwksInv, NEW v \in Verifiers, Serve(v)
  PROVE  JwksInv'
<1> DEFINE r == [ver[v] EXCEPT !.pc = "served", !.got = published]
<1>1. AllSound /\ CacheDated /\ Sound(ver[v]) /\ ver[v].pc = "fetch"
  BY DEF JwksInv, AllSound, Serve
<1>2. Sound(r)
  <2>1. /\ ver[v] \in Verification /\ ver[v].asked <= clock /\ ver[v].at <= clock /\ ~ver[v].hit
        /\ ver[v].whole => ver[v].kid \in published
    BY <1>1 DEF Sound, Waiting
  <2>2. ver[v].asked \in Nat /\ published \in SUBSET Kids /\ clock \in Nat /\ clock <= MaxClock
    BY <1>1, <2>1 DEF CacheDated, Verification
  <2>3. \A k \in published : ver[v].asked <= retiredAt[k]
    BY <1>1, <2>1, <2>2, JwksAssumption DEF CacheDated, Never
  <2>4. r \in Verification
    BY <2>1, <2>2 DEF Verification, Waiting
  <2>5. /\ r.pc = "served" /\ r.asked = ver[v].asked /\ r.at = ver[v].at /\ r.got = published
        /\ r.kid = ver[v].kid /\ r.hit = ver[v].hit /\ r.whole = ver[v].whole
    BY <2>1 DEF Verification
  <2> HIDE DEF r
  <2> QED BY <2>1, <2>3, <2>4, <2>5 DEF Sound, Waiting
<1>3. AllSound'
  BY <1>1, <1>2, OneChanges DEF Serve
<1>4. CacheDated'
  BY <1>1 DEF CacheDated, Serve, Never
<1> QED BY <1>3, <1>4 DEF JwksInv

\* Store: the cache takes the answer under the time its fetch began.
LEMMA StoreSound ==
  ASSUME JwksInv, NEW v \in Verifiers, Store(v)
  PROVE  JwksInv'
<1>0. /\ AllSound /\ CacheDated /\ Sound(ver[v]) /\ ver[v].pc = "served"
      /\ UNCHANGED <<clock, published, retiredAt>>
  BY DEF JwksInv, AllSound, Store
<1>1. \A k \in ver[v].got : ver[v].asked <= retiredAt[k]
  BY <1>0 DEF Sound
<1>2. ver[v].got \in SUBSET Kids /\ ver[v].asked \in 0..MaxClock /\ ver[v].asked <= clock
  BY <1>0 DEF Sound, Verification
<1>3. ASSUME keys' = ver[v].got, fetchedAt' = ver[v].asked
      PROVE  CacheDated'
  BY <1>0, <1>1, <1>2, <1>3 DEF CacheDated, Never
<1>4. CASE /\ ver[v].kid \in ver[v].got /\ keys' = ver[v].got /\ fetchedAt' = ver[v].asked
           /\ ver' = [ver EXCEPT ![v] = [@ EXCEPT !.pc = "accepted", !.got = {}]]
  <2> DEFINE r == [ver[v] EXCEPT !.pc = "accepted", !.got = {}]
  <2>1. ver[v].asked <= retiredAt[ver[v].kid]
    BY <1>1, <1>4
  <2>2. Sound(r)
    BY <1>0, <2>1 DEF Sound, Verification, Waiting
  <2>3. AllSound'
    BY <1>0, <1>4, <2>2, OneChanges
  <2> QED BY <1>3, <1>4, <2>3 DEF JwksInv
<1>5. CASE ver[v].kid \notin ver[v].got /\ ~ver[v].second /\ Refetch(v, [ver[v] EXCEPT !.got = {}])
  <2> DEFINE r == [[ver[v] EXCEPT !.got = {}] EXCEPT !.pc = "fetch", !.second = TRUE, !.asked = clock]
  <2>1. ~ver[v].whole
    BY <1>0, <1>5 DEF Sound
  <2>2. Sound(r)
    <3>1. ver[v] \in Verification /\ ver[v].at <= clock /\ ~ver[v].hit /\ clock \in 0..MaxClock
      BY <1>0 DEF Sound, CacheDated, Waiting
    <3>2. r \in Verification
      BY <3>1 DEF Verification, Waiting
    <3>3. r.pc = "fetch" /\ r.asked = clock /\ r.at = ver[v].at /\ ~r.hit /\ ~r.whole
      BY <2>1, <3>1 DEF Verification
    <3> HIDE DEF r
    <3> QED BY <3>1, <3>2, <3>3 DEF Sound, Waiting
  <2>3. AllSound'
    BY <1>0, <1>5, <2>2, OneChanges DEF Refetch
  <2>4. CacheDated'
    BY <1>0, <1>5, JwksAssumption DEF CacheDated, Refetch, Never
  <2> QED BY <2>3, <2>4 DEF JwksInv
<1>6. CASE /\ ver[v].kid \notin ver[v].got /\ keys' = ver[v].got /\ fetchedAt' = ver[v].asked
           /\ ver' = [ver EXCEPT ![v] = [@ EXCEPT !.pc = "refused", !.got = {}]]
  <2> DEFINE r == [ver[v] EXCEPT !.pc = "refused", !.got = {}]
  <2>1. ~ver[v].whole
    BY <1>0, <1>6 DEF Sound
  <2>2. Sound(r)
    BY <1>0, <2>1 DEF Sound, Verification, Waiting
  <2>3. AllSound'
    BY <1>0, <1>6, <2>2, OneChanges
  <2> QED BY <1>3, <1>6, <2>3 DEF JwksInv
<1> QED BY <1>4, <1>5, <1>6 DEF Store

\* Unreachable: the request ends, the cache stays.
LEMMA UnreachableSound ==
  ASSUME JwksInv, NEW v \in Verifiers, Unreachable(v)
  PROVE  JwksInv'
<1> DEFINE r == [ver[v] EXCEPT !.pc = "unavailable", !.got = {}]
<1>1. AllSound /\ CacheDated /\ Sound(ver[v])
  BY DEF JwksInv, AllSound
<1>2. Sound(r)
  BY <1>1 DEF Sound, Verification, Waiting
<1>3. AllSound'
  BY <1>1, <1>2, OneChanges DEF Unreachable
<1>4. CacheDated'
  BY <1>1 DEF CacheDated, Unreachable, Never
<1> QED BY <1>3, <1>4 DEF JwksInv

\* PublishKey: a key is new, so nobody has waited with it published throughout.
LEMMA PublishSound ==
  ASSUME JwksInv, NEW k \in Kids, PublishKey(k)
  PROVE  JwksInv'
<1>1. CacheDated'
  BY DEF JwksInv, CacheDated, PublishKey, Never
<1>2. ASSUME NEW v \in Verifiers PROVE Sound(ver[v])'
  <2>1. Sound(ver[v])
    BY DEF JwksInv, AllSound
  <2> QED BY <2>1 DEF PublishKey, Sound
<1>3. ver' \in [Verifiers -> Verification]
  BY DEF JwksInv, AllSound, PublishKey
<1> QED BY <1>1, <1>2, <1>3 DEF JwksInv, AllSound

\* Retire: now is no earlier than anything the cache or an answer is dated by.
LEMMA RetireSound ==
  ASSUME JwksInv, NEW k \in Kids, Retire(k)
  PROVE  JwksInv'
<1>0. CacheDated /\ AllSound
  BY DEF JwksInv
<1>1. CacheDated'
  BY <1>0, JwksAssumption DEF CacheDated, Retire, Never
<1>2. ASSUME NEW v \in Verifiers PROVE Sound(ver[v])' /\ ver'[v] \in Verification
  <2>1. Sound(ver[v]) /\ ver[v] \in Verification
    BY <1>0 DEF AllSound, Sound
  <2>2. /\ clock \in Nat /\ TTL \in Nat /\ clock' = clock /\ published' = published \ {k}
        /\ retiredAt' = [retiredAt EXCEPT ![k] = clock] /\ retiredAt \in [Kids -> 0..Never]
    BY <1>0, JwksAssumption DEF CacheDated, Retire
  <2>3. CASE ver[v].kid = k /\ ver[v].pc \in Waiting
    <3>1. ver'[v] = [ver[v] EXCEPT !.whole = FALSE]
      BY <2>3 DEF Retire
    <3> QED BY <2>1, <2>2, <2>3, <3>1 DEF Sound, Verification, Waiting
  <2>4. CASE ~(ver[v].kid = k /\ ver[v].pc \in Waiting)
    <3>1. ver'[v] = ver[v]
      BY <2>4 DEF Retire
    <3> QED BY <2>1, <2>2, <2>4, <3>1 DEF Sound, Verification, Waiting
  <2> QED BY <2>3, <2>4
<1>3. ver' \in [Verifiers -> Verification]
  BY <1>2 DEF Retire
<1> QED BY <1>1, <1>2, <1>3 DEF JwksInv, AllSound

\* Time passes.
LEMMA TickSound == JwksInv /\ Tick => JwksInv'
<1> SUFFICES ASSUME JwksInv, Tick PROVE JwksInv'
  OBVIOUS
<1>1. CacheDated'
  BY JwksAssumption DEF JwksInv, CacheDated, Tick, Never
<1>2. ASSUME NEW v \in Verifiers PROVE Sound(ver[v])'
  <2>1. Sound(ver[v]) /\ clock \in Nat
    BY DEF JwksInv, AllSound, CacheDated
  <2> QED BY <2>1 DEF Tick, Sound, Verification
<1>3. ver' \in [Verifiers -> Verification]
  BY DEF JwksInv, AllSound, Tick
<1> QED BY <1>1, <1>2, <1>3 DEF JwksInv, AllSound

-----------------------------------------------------------------------------
(* The inductive invariant: what the cache and the answers under way hold was *)
(* served when they say, so requests end as the properties want.              *)
THEOREM JwksInductive == JwksSpec => []JwksInv
<1>1. JwksInit => JwksInv
  BY InitSound
<1>2. JwksInv /\ [JwksNext]_jwksVars => JwksInv'
  <2> SUFFICES ASSUME JwksInv, [JwksNext]_jwksVars PROVE JwksInv'
    OBVIOUS
  <2>1. ASSUME NEW v \in Verifiers, NEW k \in Kids, Verify(v, k) PROVE JwksInv'
    BY <2>1, VerifySound
  <2>2. ASSUME NEW v \in Verifiers, Serve(v) \/ Store(v) \/ Unreachable(v) PROVE JwksInv'
    BY <2>2, ServeSound, StoreSound, UnreachableSound
  <2>3. ASSUME NEW k \in Kids, PublishKey(k) \/ Retire(k) PROVE JwksInv'
    BY <2>3, PublishSound, RetireSound
  <2>4. CASE Tick
    BY <2>4, TickSound
  <2>5. CASE UNCHANGED jwksVars
    BY <2>5 DEF jwksVars, JwksInv, CacheDated, AllSound, Sound, Never
  <2> QED BY <2>1, <2>2, <2>3, <2>4, <2>5 DEF JwksNext
<1> QED BY <1>1, <1>2, PTL DEF JwksSpec

(* A token whose key Keycloak published during the whole request is never     *)
(* refused for its key, for any number of requests that fill, empty and        *)
(* overwrite the cache (_verify_jwt).                                          *)
THEOREM PublishedKeyAcceptedAlways == JwksSpec => []PublishedKeyAccepted
<1>1. JwksInv => PublishedKeyAccepted
  BY DEF JwksInv, AllSound, Sound, PublishedKeyAccepted
<1> QED BY <1>1, JwksInductive, PTL

(* A withdrawn key is accepted from the cache for less than the time to live,  *)
(* for every time to live and however fetches overtake each other              *)
(* (_JwksCache.get).                                                           *)
THEOREM RetiredKeyAgesOutAlways == JwksSpec => []RetiredKeyAgesOut
<1>1. JwksInv => RetiredKeyAgesOut
  BY DEF JwksInv, AllSound, Sound, RetiredKeyAgesOut
<1> QED BY <1>1, JwksInductive, PTL

-----------------------------------------------------------------------------
(* A tenant is owned because its request ended by committing both rows, and   *)
(* its slug is its own because a request between its INSERT and its COMMIT    *)
(* keeps every other request from inserting that slug.                        *)

Holding == {"membership", "commit"}

Slugs == Bases \cup (Bases \X SlugSuffixes) \cup ({"ws"} \X Creators \X {1, 2})

Pcs == {"idle", "email_taken", "located", "registered", "idp_error", "probe", "flush", "membership",
        "commit", "conflict", "created", "rolled_back", "flush_dev", "seed_failed", "lost"}

Creation == [pc : Pcs, user : Users \cup {NoUser}, base : Bases, slug : Slugs,
             probes : Nat, attempt : {1, 2}]

Wellformed ==
  /\ creation \in [Creators -> Creation]
  /\ \A r \in Creators : creation[r].pc = "flush_dev" => creation[r].slug = DevSlug

\* A tenant's request has ended, and its owner is a member.
Owned ==
  \A t \in tenants : t.id # "dev" =>
    /\ t.id \in Creators
    /\ creation[t.id].pc = "created"
    /\ [tenant |-> t.id, user |-> creation[t.id].user] \in members

\* A slug that is inserted and not committed is nobody else's.
Reserved ==
  /\ \A r \in Creators : creation[r].pc \in Holding => SlugAvailable(creation[r].slug)
  /\ \A r \in Creators, q \in Creators :
       creation[r].pc \in Holding /\ creation[q].pc \in Holding
         /\ creation[r].slug = creation[q].slug => r = q

(* A slug names one workspace, although two sign-ups may find it free at the   *)
(* same time and a start of the API asks for one of its own                    *)
(* (create_tenant_with_owner, ensure_dev_tenant).                             *)
SlugUnique == \A t \in tenants, u \in tenants : t.slug = u.slug => t = u

TenantInv == Wellformed /\ Owned /\ Reserved /\ SlugUnique

-----------------------------------------------------------------------------
LEMMA SlugTyped ==
  /\ \A b \in Bases : b \in Slugs
  /\ \A b \in Bases, x \in SlugSuffixes : <<b, x>> \in Slugs
  /\ \A r \in Creators, n \in {1, 2} : <<"ws", r, n>> \in Slugs
BY DEF Slugs

LEMMA NoCreationTyped == NoCreation \in Creation /\ NoCreation.pc = "idle" /\ NoCreation.slug = DevSlug
BY TenantAssumption, SlugTyped DEF NoCreation, Creation, Pcs

\* A request whose pc or whose slug is set is still one.
LEMMA Retyped ==
  ASSUME NEW c \in Creation, NEW pc \in Pcs
  PROVE  /\ [c EXCEPT !.pc = pc] \in Creation
         /\ [c EXCEPT !.pc = pc].pc = pc
         /\ [c EXCEPT !.pc = pc].slug = c.slug /\ [c EXCEPT !.pc = pc].user = c.user
BY DEF Creation

LEMMA StepEffect ==
  ASSUME TenantInv, NEW r \in Creators, NEW pc \in Pcs, Step(r, pc)
  PROVE  /\ creation' \in [Creators -> Creation]
         /\ creation'[r].pc = pc
         /\ creation'[r].slug = creation[r].slug /\ creation'[r].user = creation[r].user
         /\ \A q \in Creators \ {r} : creation'[q] = creation[q]
<1>1. creation \in [Creators -> Creation] /\ creation[r] \in Creation
  BY DEF TenantInv, Wellformed
<1> DEFINE c == [creation[r] EXCEPT !.pc = pc]
<1>2. /\ c \in Creation /\ c.pc = pc
      /\ c.slug = creation[r].slug /\ c.user = creation[r].user
  BY <1>1, Retyped
<1>3. creation' = [creation EXCEPT ![r] = c]
  BY DEF Step
<1> HIDE DEF c
<1> QED BY <1>1, <1>2, <1>3

\* The request changes to a state without an inserted row; nothing is committed.
LEMMA Moves ==
  ASSUME TenantInv, NEW r \in Creators, creation[r].pc # "created", NEW c \in Creation,
         c.pc \notin Holding, c.pc = "flush_dev" => c.slug = DevSlug,
         creation' = [creation EXCEPT ![r] = c], UNCHANGED <<tenants, members>>
  PROVE  TenantInv'
<1>1. /\ creation' \in [Creators -> Creation]
      /\ creation'[r] = c
      /\ \A q \in Creators \ {r} : creation'[q] = creation[q]
  BY DEF TenantInv, Wellformed
<1>2. Wellformed'
  BY <1>1 DEF TenantInv, Wellformed
<1>3. Owned'
  BY <1>1 DEF TenantInv, Owned
<1>4. Reserved'
  BY <1>1 DEF TenantInv, Reserved, SlugAvailable
<1>5. SlugUnique'
  BY DEF TenantInv, SlugUnique
<1> QED BY <1>2, <1>3, <1>4, <1>5 DEF TenantInv

\* The same when only its pc changes.
LEMMA Steps ==
  ASSUME TenantInv, NEW r \in Creators, creation[r].pc # "created", NEW pc \in Pcs,
         pc \notin Holding, pc = "flush_dev" => creation[r].slug = DevSlug,
         Step(r, pc), UNCHANGED <<tenants, members>>
  PROVE  TenantInv'
<1> DEFINE c == [creation[r] EXCEPT !.pc = pc]
<1>1. /\ c.pc = pc /\ c.slug = creation[r].slug
      /\ c \in Creation
  BY DEF TenantInv, Wellformed, Creation
<1>2. creation' = [creation EXCEPT ![r] = c]
  BY DEF Step
<1> HIDE DEF c
<1> QED BY <1>1, <1>2, Moves

-----------------------------------------------------------------------------
\* The INSERT: it waited for every transaction with this slug, and the slug is
\* free; with the row in place the request holds the slug.
LEMMA Inserts ==
  ASSUME TenantInv, NEW r \in Creators, creation[r].pc \notin Holding \cup {"created"}, NEW pc \in Holding,
         Insertable(r, creation[r].slug), SlugAvailable(creation[r].slug),
         Step(r, pc), UNCHANGED <<tenants, members>>
  PROVE  TenantInv'
<1>1. /\ creation' \in [Creators -> Creation]
      /\ creation'[r].pc = pc /\ creation'[r].slug = creation[r].slug
      /\ \A q \in Creators \ {r} : creation'[q] = creation[q]
  BY StepEffect DEF Holding, Pcs
<1>2. Wellformed'
  BY <1>1 DEF TenantInv, Wellformed, Holding
<1>3. Owned'
  BY <1>1 DEF TenantInv, Owned
<1>4. Reserved'
  <2>1. ASSUME NEW q \in Creators, creation'[q].pc \in Holding PROVE SlugAvailable(creation[q].slug)'
    BY <1>1, <2>1 DEF TenantInv, Reserved, SlugAvailable
  <2>2. ASSUME NEW q \in Creators \ {r}, creation'[q].pc \in Holding
        PROVE  creation'[q].slug # creation'[r].slug
    BY <1>1, <2>2 DEF Insertable, Inserted, Holding
  <2>3. ASSUME NEW p \in Creators, NEW q \in Creators, creation'[p].pc \in Holding,
               creation'[q].pc \in Holding, creation'[p].slug = creation'[q].slug
        PROVE  p = q
    BY <1>1, <2>2, <2>3 DEF TenantInv, Reserved
  <2> QED BY <2>1, <2>3 DEF Reserved
<1>5. SlugUnique'
  BY DEF TenantInv, SlugUnique
<1> QED BY <1>2, <1>3, <1>4, <1>5 DEF TenantInv

LEMMA FlushKeeps ==
  ASSUME TenantInv, NEW r \in Creators, FlushTenant(r)
  PROVE  TenantInv'
<1>1. CASE SlugAvailable(creation[r].slug)
  BY <1>1, Inserts DEF FlushTenant, Holding, Pcs
<1>2. CASE ~SlugAvailable(creation[r].slug) /\ creation[r].attempt = 1
  <2> DEFINE c == [creation[r] EXCEPT !.pc = "probe", !.slug = creation[r].base,
                                      !.probes = 0, !.attempt = 2]
  <2>1. /\ c.pc = "probe"
        /\ c \in Creation
    BY SlugTyped DEF TenantInv, Wellformed, Creation, Pcs
  <2>2. creation' = [creation EXCEPT ![r] = c] /\ creation[r].pc # "created" /\ UNCHANGED <<tenants, members>>
    BY <1>2 DEF FlushTenant
  <2> HIDE DEF c
  <2> QED BY <2>1, <2>2, Moves DEF Holding
<1>3. CASE ~SlugAvailable(creation[r].slug) /\ creation[r].attempt # 1
  BY <1>3, Steps DEF FlushTenant, Holding, Pcs
<1> QED BY <1>1, <1>2, <1>3

LEMMA ProbeKeeps ==
  ASSUME TenantInv, NEW r \in Creators, Probe(r)
  PROVE  TenantInv'
<1>1. creation[r].pc = "probe" /\ UNCHANGED <<tenants, members>>
  BY DEF Probe
<1>2. CASE Step(r, "flush")
  BY <1>1, <1>2, Steps DEF Holding, Pcs
<1>3. ASSUME NEW x \in SlugSuffixes,
             creation' = [creation EXCEPT ![r] =
               [creation[r] EXCEPT !.slug = <<creation[r].base, x>>, !.probes = creation[r].probes + 1]]
      PROVE  TenantInv'
  <2> DEFINE c == [creation[r] EXCEPT !.slug = <<creation[r].base, x>>, !.probes = creation[r].probes + 1]
  <2>1. /\ c.pc = "probe"
        /\ c \in Creation
    <3>1. creation[r] \in Creation /\ <<creation[r].base, x>> \in Slugs /\ creation[r].probes + 1 \in Nat
      BY SlugTyped DEF TenantInv, Wellformed, Creation
    <3> QED BY <1>1, <3>1 DEF Creation
  <2>2. creation' = [creation EXCEPT ![r] = c]
    BY <1>3
  <2> HIDE DEF c
  <2> QED BY <1>1, <2>1, <2>2, Moves DEF Holding
<1>4. CASE creation' = [creation EXCEPT ![r] =
             [creation[r] EXCEPT !.slug = <<"ws", r, creation[r].attempt>>, !.pc = "flush"]]
  <2> DEFINE c == [creation[r] EXCEPT !.slug = <<"ws", r, creation[r].attempt>>, !.pc = "flush"]
  <2>1. /\ c.pc = "flush"
        /\ c \in Creation
    BY SlugTyped DEF TenantInv, Wellformed, Creation, Pcs
  <2>2. creation' = [creation EXCEPT ![r] = c]
    BY <1>4
  <2> HIDE DEF c
  <2> QED BY <1>1, <2>1, <2>2, Moves DEF Holding
<1> QED BY <1>1, <1>2, <1>3, <1>4 DEF Probe

\* The step from one state of a transaction to the next.
LEMMA MembershipKeeps ==
  ASSUME TenantInv, NEW r \in Creators, Membership(r)
  PROVE  TenantInv'
<1>1. /\ creation' \in [Creators -> Creation]
      /\ creation[r].pc = "membership"
      /\ creation'[r].pc = "commit" /\ creation'[r].slug = creation[r].slug
      /\ \A q \in Creators \ {r} : creation'[q] = creation[q]
      /\ UNCHANGED <<tenants, members>>
  BY StepEffect DEF Membership, Pcs
<1>2. Wellformed'
  BY <1>1 DEF TenantInv, Wellformed
<1>3. Owned'
  BY <1>1 DEF TenantInv, Owned
<1>4. Reserved'
  <2>1. \A q \in Creators : /\ creation'[q].slug = creation[q].slug
                           /\ creation'[q].pc \in Holding <=> creation[q].pc \in Holding
    BY <1>1 DEF Holding
  <2> QED BY <1>1, <2>1 DEF TenantInv, Reserved, SlugAvailable
<1>5. SlugUnique'
  BY <1>1 DEF TenantInv, SlugUnique
<1> QED BY <1>2, <1>3, <1>4, <1>5 DEF TenantInv

\* The tenant and its owner become visible together, and the slug, which was
\* this request's alone, is the tenant's.
LEMMA CommitKeeps ==
  ASSUME TenantInv, NEW r \in Creators, CommitTenant(r)
  PROVE  TenantInv'
<1> DEFINE t == [id |-> IF creation[r].user = NoUser THEN "dev" ELSE r, slug |-> creation[r].slug]
<1>1. CASE Step(r, "rolled_back") /\ UNCHANGED <<tenants, members>>
  BY <1>1, Steps DEF CommitTenant, Holding, Pcs
<1>2. CASE /\ tenants' = tenants \cup {t}
           /\ members' = IF creation[r].user = NoUser THEN members
                         ELSE members \cup {[tenant |-> r, user |-> creation[r].user]}
           /\ Step(r, "created")
  <2>1. /\ creation' \in [Creators -> Creation]
        /\ creation[r].pc = "commit"
        /\ creation'[r].pc = "created" /\ creation'[r].user = creation[r].user
        /\ \A q \in Creators \ {r} : creation'[q] = creation[q]
    BY <1>2, StepEffect DEF CommitTenant, Pcs
  <2>2. Wellformed'
    BY <2>1 DEF TenantInv, Wellformed
  <2>3. Owned'
    <3>1. ASSUME NEW u \in tenants, u.id # "dev"
          PROVE  /\ u.id \in Creators
                 /\ creation'[u.id].pc = "created"
                 /\ [tenant |-> u.id, user |-> creation'[u.id].user] \in members'
      BY <1>2, <2>1, <3>1 DEF TenantInv, Owned
    <3>2. ASSUME t.id # "dev"
          PROVE  t.id = r /\ [tenant |-> r, user |-> creation'[r].user] \in members'
      BY <1>2, <2>1, <3>2
    <3> QED BY <1>2, <2>1, <3>1, <3>2 DEF Owned
  <2>4. Reserved'
    <3>1. ASSUME NEW q \in Creators, creation'[q].pc \in Holding
          PROVE  q # r /\ creation'[q] = creation[q] /\ creation[q].slug # creation[r].slug
      BY <2>1, <3>1 DEF TenantInv, Reserved, Holding
    <3>2. ASSUME NEW q \in Creators, creation'[q].pc \in Holding PROVE SlugAvailable(creation[q].slug)'
      BY <1>2, <3>1, <3>2 DEF TenantInv, Reserved, SlugAvailable
    <3> QED BY <3>1, <3>2 DEF TenantInv, Reserved
  <2>5. SlugUnique'
    BY <1>2, <2>1 DEF TenantInv, Reserved, SlugUnique, SlugAvailable, Holding
  <2> QED BY <2>2, <2>3, <2>4, <2>5 DEF TenantInv
<1> QED BY <1>1, <1>2 DEF CommitTenant

LEMMA BeginKeeps ==
  ASSUME TenantInv, NEW r \in Creators, NEW u \in Users, NEW b \in Bases, BeginTenant(r, u, b)
  PROVE  TenantInv'
<1> DEFINE c == [NoCreation EXCEPT !.pc = "probe", !.user = u, !.base = b, !.slug = b]
<1>1. /\ c.pc = "probe"
      /\ c \in Creation
  BY NoCreationTyped, SlugTyped DEF Creation, Pcs
<1>2. creation' = [creation EXCEPT ![r] = c] /\ creation[r].pc # "created" /\ UNCHANGED <<tenants, members>>
  BY DEF BeginTenant
<1> HIDE DEF c
<1> QED BY <1>1, <1>2, Moves DEF Holding

LEMMA SeedKeeps ==
  ASSUME TenantInv, NEW r \in Creators, SeedDevTenant(r) \/ FlushDevTenant(r)
  PROVE  TenantInv'
<1>1. CASE SeedDevTenant(r) /\ \E t \in tenants : t.id = "dev"
  BY <1>1, Steps DEF SeedDevTenant, Holding, Pcs
<1>2. CASE SeedDevTenant(r) /\ ~\E t \in tenants : t.id = "dev"
  <2> DEFINE c == [NoCreation EXCEPT !.pc = "flush_dev"]
  <2>1. /\ c.pc = "flush_dev" /\ c.slug = DevSlug
        /\ c \in Creation
    BY NoCreationTyped, SlugTyped DEF Creation, Pcs
  <2>2. creation' = [creation EXCEPT ![r] = c] /\ creation[r].pc # "created" /\ UNCHANGED <<tenants, members>>
    BY <1>2 DEF SeedDevTenant
  <2> HIDE DEF c
  <2> QED BY <2>1, <2>2, Moves DEF Holding
<1>3. CASE FlushDevTenant(r)
  <2>1. creation[r].pc = "flush_dev" /\ creation[r].slug = DevSlug
    BY <1>3 DEF TenantInv, Wellformed, FlushDevTenant
  <2>2. CASE SlugAvailable(DevSlug)
    BY <1>3, <2>1, <2>2, Inserts DEF FlushDevTenant, Holding, Pcs
  <2>3. CASE ~SlugAvailable(DevSlug)
    BY <1>3, <2>1, <2>3, Steps DEF FlushDevTenant, Holding, Pcs
  <2> QED BY <2>2, <2>3
<1> QED BY <1>1, <1>2, <1>3

LEMMA CrashKeeps ==
  ASSUME TenantInv, CrashTenants
  PROVE  TenantInv'
<1> DEFINE lost == [NoCreation EXCEPT !.pc = "lost"]
<1>0. lost \in Creation /\ lost.pc = "lost"
  BY NoCreationTyped, Retyped DEF Pcs
<1>1. /\ creation' = [r \in Creators |-> IF creation[r].pc = "created" THEN creation[r] ELSE lost]
      /\ UNCHANGED <<tenants, members>>
  BY DEF CrashTenants
<1> HIDE DEF lost
<1>6. /\ creation' \in [Creators -> Creation]
      /\ \A r \in Creators : IF creation[r].pc = "created" THEN creation'[r] = creation[r]
                             ELSE creation'[r].pc = "lost"
  BY <1>0, <1>1 DEF TenantInv, Wellformed
<1>7. \A r \in Creators : creation'[r].pc \in {"created", "lost"}
  BY <1>6
<1>2. Wellformed'
  BY <1>6, <1>7 DEF Wellformed
<1>3. Owned'
  BY <1>1, <1>6 DEF TenantInv, Owned
<1>4. Reserved'
  BY <1>7 DEF Reserved, Holding
<1>5. SlugUnique'
  BY <1>1 DEF TenantInv, SlugUnique
<1> QED BY <1>2, <1>3, <1>4, <1>5 DEF TenantInv

-----------------------------------------------------------------------------
(* The inductive invariant of sign-up: rows under way hold their slugs, and    *)
(* what is committed was committed whole.                                     *)
THEOREM TenantInductive == TenantSpec => []TenantInv
<1>1. TenantInit => TenantInv
  BY NoCreationTyped DEF TenantInit, TenantInv, Wellformed, Owned, Reserved, SlugUnique, Holding
<1>2. TenantInv /\ [TenantNext]_tenantVars => TenantInv'
  <2> SUFFICES ASSUME TenantInv, [TenantNext]_tenantVars PROVE TenantInv'
    OBVIOUS
  <2>1. ASSUME NEW r \in Creators, NEW u \in Users, Register(r, u) PROVE TenantInv'
    BY <2>1, Steps DEF Register, Holding, Pcs
  <2>2. ASSUME NEW r \in Creators, NEW u \in Users, NEW b \in Bases, BeginTenant(r, u, b) PROVE TenantInv'
    BY <2>2, BeginKeeps
  <2>3. ASSUME NEW r \in Creators, Located(r) PROVE TenantInv'
    BY <2>3, Steps DEF Located, Holding, Pcs
  <2>4. ASSUME NEW r \in Creators, Probe(r) \/ FlushTenant(r) \/ Membership(r) PROVE TenantInv'
    BY <2>4, ProbeKeeps, FlushKeeps, MembershipKeeps
  <2>5. ASSUME NEW r \in Creators, CommitTenant(r) \/ SeedDevTenant(r) \/ FlushDevTenant(r) PROVE TenantInv'
    BY <2>5, CommitKeeps, SeedKeeps
  <2>6. CASE CrashTenants
    BY <2>6, CrashKeeps
  <2>7. CASE UNCHANGED tenantVars
    BY <2>7 DEF tenantVars, TenantInv, Wellformed, Owned, Reserved, SlugUnique, SlugAvailable
  <2> QED BY <2>1, <2>2, <2>3, <2>4, <2>5, <2>6, <2>7 DEF TenantNext
<1> QED BY <1>1, <1>2, PTL DEF TenantSpec

(* No workspace is ever there without its owner, for any number of sign-ups,   *)
(* retries, crashes and refused commits (create_tenant_with_owner, get_db).    *)
THEOREM OwnedFromBirthAlways == TenantSpec => []OwnedFromBirth
<1>1. TenantInv => OwnedFromBirth
  BY DEF TenantInv, Owned, OwnedFromBirth
<1> QED BY <1>1, TenantInductive, PTL

(* Two workspaces never share a slug, however many sign-ups found it free at    *)
(* once (create_tenant_with_owner, ensure_dev_tenant, tenants.slug UNIQUE).     *)
THEOREM SlugUniqueAlways == TenantSpec => []SlugUnique
<1>1. TenantInv => SlugUnique
  BY DEF TenantInv
<1> QED BY <1>1, TenantInductive, PTL

=============================================================================
