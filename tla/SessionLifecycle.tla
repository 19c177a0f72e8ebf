--------------------------- MODULE SessionLifecycle ---------------------------
(***************************************************************************)
(* What services/web_session.py promises of a session, whatever requests,  *)
(* refreshes, failures and clean-ups go on underneath: it is opened once,   *)
(* with an absolute limit that never moves; it ends by being revoked or at   *)
(* that limit; an ended session is never live again, and only an ended one  *)
(* may be forgotten.                                                       *)
(***************************************************************************)
EXTENDS Naturals

CONSTANTS Ids,      \* sessions
          Lifetime  \* session_absolute_ttl_seconds

VARIABLES now,   \* the clock
          life,  \* where each session is in its life
          limit  \* its absolute limit, 0 before and after its life

lifeVars == <<now, life, limit>>

LifeInit == /\ now = 0
            /\ life = [s \in Ids |-> "unborn"]
            /\ limit = [s \in Ids |-> 0]

PassTime == now' = now + 1 /\ UNCHANGED <<life, limit>>

Begin(s) == /\ life[s] = "unborn"
            /\ life' = [life EXCEPT ![s] = "live"]
            /\ limit' = [limit EXCEPT ![s] = now + Lifetime]
            /\ UNCHANGED now

\* One session, or all that are live at once.
Revoke(S) == /\ \A s \in S : life[s] = "live"
             /\ life' = [s \in Ids |-> IF s \in S THEN "revoked" ELSE life[s]]
             /\ UNCHANGED <<now, limit>>

Over(s) == life[s] = "revoked" \/ (life[s] = "live" /\ limit[s] < now)

Forget(S) == /\ \A s \in S : Over(s)
             /\ life' = [s \in Ids |-> IF s \in S THEN "gone" ELSE life[s]]
             /\ limit' = [s \in Ids |-> IF s \in S THEN 0 ELSE limit[s]]
             /\ UNCHANGED now

LifeNext == \/ PassTime
            \/ \E s \in Ids : Begin(s)
            \/ \E S \in SUBSET Ids : Revoke(S) \/ Forget(S)

LifeSpec == LifeInit /\ [][LifeNext]_lifeVars

=============================================================================
