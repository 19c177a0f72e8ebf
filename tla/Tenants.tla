-------------------------------- MODULE Tenants --------------------------------
(***************************************************************************)
(* Sign-up: the account at Keycloak (services/keycloak_admin.py), then the   *)
(* workspace and its owner in one transaction (services/tenant/create.py).   *)
(* A slug is probed by SELECT before it is inserted, so two sign-ups may     *)
(* both find it free; the unique index lets the second wait for the first    *)
(* and then fail.  The transaction commits after the answer was sent         *)
(* (api/dependencies/db.py).  A start of the API inserts the development     *)
(* tenant, whose slug a sign-up may have taken (services/tenant/seed.py).    *)
(***************************************************************************)
EXTENDS Naturals, FiniteSets

CONSTANTS
  Creators,      \* requests that create a workspace, and starts of the API
  Users,         \* Keycloak users
  Bases,         \* slugs asked for, or made from the display name
  DevSlug,       \* DEV_TENANT_SLUG
  SlugSuffixes,  \* what token_hex(2) may draw
  SlugRetries,   \* _SLUG_RETRIES
  TenantFaults,  \* subset of {"crash", "commit_fails", "no_location"}
  NoUser         \* the development tenant has no owner

ASSUME TenantAssumption ==
  /\ DevSlug \in Bases /\ SlugRetries \in Nat /\ NoUser \notin Users

VARIABLES
  accounts,   \* users that exist at Keycloak
  tenants,    \* committed tenants: [id, slug]; id is the request that made it or "dev"
  members,    \* committed memberships: [tenant, user]
  creation    \* what each request is doing; its uncommitted row is its slug

tenantVars == <<accounts, tenants, members, creation>>

NoCreation == [pc |-> "idle", user |-> NoUser, base |-> DevSlug, slug |-> DevSlug,
               probes |-> 0, attempt |-> 1]

TenantInit ==
  /\ accounts \in SUBSET Users
  /\ tenants = {}
  /\ members = {}
  /\ creation = [r \in Creators |-> NoCreation]

Step(r, pc) == creation' = [creation EXCEPT ![r].pc = pc]

-----------------------------------------------------------------------------
(* POST /v1/auth/register.                                                  *)

\* An admin token, then POST users: 409 when the email has an account.
Register(r, u) ==
  /\ creation[r].pc = "idle"
  /\ IF u \in accounts THEN Step(r, "email_taken") /\ UNCHANGED accounts
     ELSE /\ accounts' = accounts \cup {u}
          /\ Step(r, "located")
  /\ UNCHANGED <<tenants, members>>

\* The id is in the Location header, or looked up by a request that may fail:
\* 502, although the account exists.
Located(r) ==
  /\ creation[r].pc = "located"
  /\ \/ Step(r, "registered")
     \/ "no_location" \in TenantFaults /\ Step(r, "idp_error")
  /\ UNCHANGED <<accounts, tenants, members>>

-----------------------------------------------------------------------------
(* POST /v1/tenants.                                                        *)

SlugAvailable(slug) == \A t \in tenants : t.slug # slug

BeginTenant(r, u, base) ==
  /\ creation[r].pc = "idle"
  /\ u \in accounts
  /\ creation' = [creation EXCEPT ![r] =
       [NoCreation EXCEPT !.pc = "probe", !.user = u, !.base = base, !.slug = base]]
  /\ UNCHANGED <<accounts, tenants, members>>

\* _next_slug_candidate: the base, then suffixes, at last a random slug.
Probe(r) ==
  LET c == creation[r] IN
  /\ c.pc = "probe"
  /\ IF SlugAvailable(c.slug) THEN Step(r, "flush")
     ELSE IF c.probes < SlugRetries
     THEN \E x \in SlugSuffixes :
            creation' = [creation EXCEPT ![r] = [c EXCEPT !.slug = <<c.base, x>>, !.probes = c.probes + 1]]
     ELSE creation' = [creation EXCEPT ![r] = [c EXCEPT !.slug = <<"ws", r, c.attempt>>, !.pc = "flush"]]
  /\ UNCHANGED <<accounts, tenants, members>>

\* Another transaction has inserted the slug and not ended yet.
Inserted(r, slug) == creation[r].pc \in {"membership", "commit"} /\ creation[r].slug = slug

\* The unique index on slug: the INSERT waits for such a transaction.
Insertable(r, slug) == \A q \in Creators \ {r} : ~Inserted(q, slug)

\* On a conflict the session is rolled back and a slug chosen anew, once.
FlushTenant(r) ==
  LET c == creation[r] IN
  /\ c.pc = "flush"
  /\ Insertable(r, c.slug)
  /\ IF SlugAvailable(c.slug) THEN Step(r, "membership")
     ELSE IF c.attempt = 1
     THEN creation' = [creation EXCEPT ![r] =
            [c EXCEPT !.pc = "probe", !.slug = c.base, !.probes = 0, !.attempt = 2]]
     ELSE Step(r, "conflict")
  /\ UNCHANGED <<accounts, tenants, members>>

\* Mutant: the tenant is committed before its membership is inserted.
MembershipAfterCommit(r) ==
  /\ creation[r].pc = "membership"
  /\ tenants' = tenants \cup {[id |-> r, slug |-> creation[r].slug]}
  /\ Step(r, "commit")
  /\ UNCHANGED <<accounts, members>>

\* The membership is flushed and the answer sent.
Membership(r) ==
  /\ creation[r].pc = "membership"
  /\ Step(r, "commit")
  /\ UNCHANGED <<accounts, tenants, members>>

\* get_db commits the tenant and its owner together.
CommitTenant(r) ==
  LET c == creation[r]
      id == IF c.user = NoUser THEN "dev" ELSE r
  IN /\ c.pc = "commit"
     /\ \/ /\ tenants' = tenants \cup {[id |-> id, slug |-> c.slug]}
           /\ members' = IF c.user = NoUser THEN members ELSE members \cup {[tenant |-> r, user |-> c.user]}
           /\ Step(r, "created")
        \/ /\ "commit_fails" \in TenantFaults
           /\ Step(r, "rolled_back")
           /\ UNCHANGED <<tenants, members>>
     /\ UNCHANGED accounts

-----------------------------------------------------------------------------
(* ensure_dev_tenant, at a start with env local or dev: a conflict on its id *)
(* or its slug fails the seed, which is not fatal.                           *)

SeedDevTenant(r) ==
  /\ creation[r].pc = "idle"
  /\ IF \E t \in tenants : t.id = "dev" THEN Step(r, "created")
     ELSE creation' = [creation EXCEPT ![r] = [NoCreation EXCEPT !.pc = "flush_dev"]]
  /\ UNCHANGED <<accounts, tenants, members>>

FlushDevTenant(r) ==
  /\ creation[r].pc = "flush_dev"
  /\ Insertable(r, DevSlug)
  /\ Step(r, IF SlugAvailable(DevSlug) THEN "commit" ELSE "seed_failed")
  /\ UNCHANGED <<accounts, tenants, members>>

\* The process ends: open transactions are rolled back.
CrashTenants ==
  /\ "crash" \in TenantFaults
  /\ \E r \in Creators : creation[r].pc \in {"commit", "membership"}
  /\ creation' = [r \in Creators |-> IF creation[r].pc = "created" THEN creation[r]
                                     ELSE [NoCreation EXCEPT !.pc = "lost"]]
  /\ UNCHANGED <<accounts, tenants, members>>

TenantNext ==
  \/ \E r \in Creators, u \in Users : Register(r, u) \/ \E b \in Bases : BeginTenant(r, u, b)
  \/ \E r \in Creators : \/ Located(r) \/ Probe(r) \/ FlushTenant(r) \/ Membership(r)
                         \/ CommitTenant(r) \/ SeedDevTenant(r) \/ FlushDevTenant(r)
  \/ CrashTenants

TenantSpec == TenantInit /\ [][TenantNext]_tenantVars

-----------------------------------------------------------------------------
(* Every tenant but the development one is there together with its owner,    *)
(* after a retry and whatever crashed: a workspace nobody can enter would     *)
(* keep its slug for good (create_tenant_with_owner).                         *)
OwnedFromBirth ==
  \A t \in tenants : t.id # "dev" => \E m \in members : m.tenant = t.id /\ m.user = creation[t.id].user

=============================================================================
