-------------------------------- MODULE Startup --------------------------------
(***************************************************************************)
(* The start of an API process (main.py, lifespan): it chooses a vault and   *)
(* seeds the connector catalog (connectors/seed.py) and the built-in skills  *)
(* (services/skills/registry.py).  Processes start together: each selects    *)
(* what is there, and inserts or updates the rest in one transaction, which  *)
(* fails as a whole when another process inserted one of its keys meanwhile. *)
(* No failure of a seed stops the process.  The ORM writes those columns of  *)
(* a row that differ from what the process loaded.                           *)
(***************************************************************************)
EXTENDS Naturals, FiniteSets

CONSTANTS
  Starters,      \* processes
  Versions,      \* deployed versions of the program
  Connectors,    \* keys of the connector registry
  SkillsOf,      \* SkillsOf[v]: keys of the skill folders of version v
  Text,          \* Text[v]: the overview of a skill in version v
  Production,    \* whether env is staging or prod
  MaxRuns,       \* bound on the starts
  StartFaults    \* subset of {"db_down", "embedding_fails", "crash"}

ASSUME StartupAssumption == Production \in BOOLEAN /\ MaxRuns \in Nat

VARIABLES
  connectors,   \* committed rows of connectors
  skills,       \* committed rows of skills: key -> [hash, overview]
  starter,      \* what each process is doing
  runs          \* how many starts there were

startVars == <<connectors, skills, starter, runs>>

Down == [pc |-> "down", version |-> 0, loaded |-> <<>>, missing |-> {}, seeded |-> TRUE]

StartInit ==
  /\ connectors = {}
  /\ skills = <<>>
  /\ starter = [p \in Starters |-> Down]
  /\ runs = 0

Starting(p) == starter[p].pc \notin {"down", "serving", "refused"}

Become(p, r) == starter' = [starter EXCEPT ![p] = r]

\* A process is started.  Versions do not overlap while they seed: a
\* deployment waits for one before it starts the next.
Start(p, v) ==
  /\ starter[p].pc \in {"down", "serving"}
  /\ runs < MaxRuns
  /\ runs' = runs + 1
  /\ \A q \in Starters : Starting(q) => starter[q].version = v
  /\ Become(p, [Down EXCEPT !.pc = "vault", !.version = v])
  /\ UNCHANGED <<connectors, skills>>

\* The vault: without Infisical a staging or prod process refuses to start.
SelectVault(p) ==
  /\ starter[p].pc = "vault"
  /\ \E configured \in BOOLEAN :
       Become(p, [starter[p] EXCEPT !.pc = IF Production /\ ~configured THEN "refused" ELSE "connectors"])
  /\ UNCHANGED <<connectors, skills, runs>>

\* ensure_connector_catalog: the keys that are there ...
ReadConnectors(p) ==
  /\ starter[p].pc = "connectors"
  /\ Become(p, [starter[p] EXCEPT !.pc = "insert", !.missing = Connectors \ connectors])
  /\ UNCHANGED <<connectors, skills, runs>>

\* ... and an insert of all others; key is unique.
InsertConnectors(p) ==
  /\ starter[p].pc = "insert"
  /\ connectors' = IF starter[p].missing \cap connectors = {}
                   THEN connectors \cup starter[p].missing ELSE connectors
  /\ Become(p, [starter[p] EXCEPT !.pc = "skills", !.missing = {}])
  /\ UNCHANGED <<skills, runs>>

\* Mutant: a table that holds anything counts as seeded.
ChangedIfEmpty(v, rows) == IF DOMAIN rows = {} THEN SkillsOf[v] ELSE {}

\* seed_builtin_skills: the rows whose hash is not that of this version's folder.
Changed(v, rows) == {s \in SkillsOf[v] : s \in DOMAIN rows => rows[s].hash # v}

ReadSkills(p) ==
  LET v == starter[p].version IN
  /\ starter[p].pc = "skills"
  /\ Become(p, IF Changed(v, skills) = {}
               THEN [starter[p] EXCEPT !.pc = "serving"]
               ELSE [starter[p] EXCEPT !.pc = "embed", !.loaded = skills])
  /\ UNCHANGED <<connectors, skills, runs>>

\* Mutant: the overview is left out of the UPDATE.
UpdatedHashOnly(v, loaded, row) == [row EXCEPT !.hash = v]

\* A row as its UPDATE leaves it: a column that did not change since it was
\* loaded keeps what the database has by now.
Updated(v, loaded, row) ==
  [hash |-> v, overview |-> IF loaded.overview = Text[v] THEN row.overview ELSE Text[v]]

\* The changed skills are embedded and flushed, inserts and updates together;
\* a key that another process inserted fails the transaction.
WriteSkills(p) ==
  LET v == starter[p].version
      loaded == starter[p].loaded
      changed == Changed(v, loaded)
      new == changed \ DOMAIN loaded
  IN /\ starter[p].pc = "embed"
     /\ skills' = IF new \cap DOMAIN skills # {} THEN skills
                  ELSE [s \in DOMAIN skills \cup new |->
                         CASE s \in new           -> [hash |-> v, overview |-> Text[v]]
                           [] s \in changed \ new -> Updated(v, loaded[s], skills[s])
                           [] OTHER               -> skills[s]]
     /\ Become(p, [starter[p] EXCEPT !.pc = "serving", !.loaded = <<>>])
     /\ UNCHANGED <<connectors, runs>>

\* A seed that fails for another reason is logged and passed over.
SeedFails(p) ==
  LET c == starter[p] IN
  /\ \/ "db_down" \in StartFaults /\ c.pc \in {"connectors", "insert", "skills", "embed"}
     \/ "embedding_fails" \in StartFaults /\ c.pc = "embed"
  /\ Become(p, [c EXCEPT !.pc = IF c.pc \in {"connectors", "insert"} THEN "skills" ELSE "serving",
                         !.loaded = <<>>, !.missing = {}, !.seeded = FALSE])
  /\ UNCHANGED <<connectors, skills, runs>>

StopProcess(p) ==
  /\ "crash" \in StartFaults
  /\ starter[p].pc # "down"
  /\ Become(p, Down)
  /\ UNCHANGED <<connectors, skills, runs>>

StartNext ==
  \E p \in Starters :
    \/ \E v \in Versions : Start(p, v)
    \/ SelectVault(p) \/ ReadConnectors(p) \/ InsertConnectors(p)
    \/ ReadSkills(p) \/ WriteSkills(p) \/ SeedFails(p) \/ StopProcess(p)

StartSpec == StartInit /\ [][StartNext]_startVars

-----------------------------------------------------------------------------
(* A process that serves and met no failure but lost races finds its whole    *)
(* catalog: a seed that fails on a key another process inserted misses        *)
(* nothing, for that process inserted all of them (ensure_connector_catalog,   *)
(* seed_builtin_skills).                                                      *)
SeedsComplete ==
  \A p \in Starters :
    starter[p].pc = "serving" /\ starter[p].seeded =>
      Connectors \subseteq connectors /\ SkillsOf[starter[p].version] \subseteq DOMAIN skills

(* A skill row whose hash is a version's holds that version's text, although   *)
(* the columns are written one by one: a torn row would never be repaired,     *)
(* for its hash says that nothing changed (seed_builtin_skills).               *)
SkillRowWhole == \A s \in DOMAIN skills : skills[s].overview = Text[skills[s].hash]

=============================================================================
