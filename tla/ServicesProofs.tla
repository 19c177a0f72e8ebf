---------------------------- MODULE ServicesProofs ----------------------------
(***************************************************************************)
(* Proofs about six of the services behind the API: the seeding of a         *)
(* starting process, the credential vault, the embedding client, the limit   *)
(* on sign-ups, hybrid search and the way from a document to a request.  They *)
(* share no state; each theorem is about the specification of its own         *)
(* service, for any number of processes, calls, texts, sign-ups, rows or      *)
(* documents and any fault the model knows.                                  *)
(***************************************************************************)
EXTENDS Startup, Vault, Embedding, RateLimit, Search, Dispatch, FiniteSetTheorems,
        FunctionTheorems, SequenceTheorems, WellFoundedInduction, TLAPS

-----------------------------------------------------------------------------
(* Startup.  Processes that seed together are of one version, and each        *)
(* inserts all that it misses or nothing: whoever finds one key of its         *)
(* transaction taken finds all of them there.                                 *)

StartPcs == {"down", "vault", "refused", "connectors", "insert", "skills", "embed", "serving"}

AllSkills == UNION {SkillsOf[v] : v \in Versions}
SkillRow == [hash : Versions, overview : {Text[v] : v \in Versions}]
SkillTable == UNION {[S -> SkillRow] : S \in SUBSET AllSkills}

Process == [pc : StartPcs, version : Versions \cup {0}, loaded : SkillTable,
            missing : SUBSET Connectors, seeded : BOOLEAN]

StartType ==
  /\ skills \in SkillTable
  /\ starter \in [Starters -> Process]
  /\ \A p \in Starters : Starting(p) => starter[p].version \in Versions

OneVersion ==
  \A p \in Starters, q \in Starters :
    Starting(p) /\ Starting(q) => starter[p].version = starter[q].version

\* A transaction inserts all connectors or none, so what a process misses is all
\* of them or none.
ConnectorsMissed(c) ==
  /\ c.pc = "insert" => \/ c.missing = Connectors
                        \/ c.missing = {} /\ connectors = Connectors
  /\ c.pc \in {"skills", "embed", "serving"} /\ c.seeded => connectors = Connectors

\* Between the SELECT and the write, only processes of this version wrote, and
\* one that wrote has inserted every skill and set the text of what it changed.
SkillsLoaded(c) ==
  /\ c.pc = "embed" =>
       /\ DOMAIN c.loaded \subseteq DOMAIN skills
       /\ \/ DOMAIN c.loaded = DOMAIN skills
          \/ SkillsOf[c.version] \subseteq DOMAIN skills
       /\ \A s \in DOMAIN c.loaded : \/ skills[s] = c.loaded[s]
                                     \/ skills[s].overview = Text[c.version]
  /\ c.pc = "serving" /\ c.seeded => SkillsOf[c.version] \subseteq DOMAIN skills

SeedInv ==
  /\ StartType
  /\ OneVersion
  /\ connectors \in {{}, Connectors}
  /\ SkillRowWhole
  /\ \A p \in Starters : ConnectorsMissed(starter[p]) /\ SkillsLoaded(starter[p])

-----------------------------------------------------------------------------
\* A step moves one process, and leaves the others' records as they are.
Moves(p, d) ==
  /\ starter' = [starter EXCEPT ![p] = d]
  /\ d \in Process
  /\ d.pc \in StartPcs \ {"down", "refused", "serving"} =>
       /\ d.version \in Versions
       /\ \A q \in Starters : Starting(q) => starter[q].version = d.version

LEMMA StarterMoved ==
  ASSUME StartType, OneVersion, NEW p \in Starters, NEW d, Moves(p, d)
  PROVE  /\ starter' \in [Starters -> Process]
         /\ (\A q \in Starters : Starting(q) => starter[q].version \in Versions)'
         /\ OneVersion'
         /\ starter'[p] = d
         /\ \A q \in Starters : q # p => starter'[q] = starter[q]
<1>1. starter' = [starter EXCEPT ![p] = d] /\ d \in Process
  BY DEF Moves
<1>2. starter \in [Starters -> Process]
  BY DEF StartType
<1>3. starter' \in [Starters -> Process]
  BY <1>1, <1>2
<1>4. /\ starter'[p] = d
      /\ \A q \in Starters : q # p => starter'[q] = starter[q]
  BY <1>1, <1>2
<1>5. \A s \in Starters : s # p => (Starting(s)' <=> Starting(s))
  BY <1>4 DEF Starting
<1>6. Starting(p)' => d.pc \in StartPcs \ {"down", "refused", "serving"}
  BY <1>1, <1>4 DEF Starting, Process
<1>7. ASSUME NEW q \in Starters, Starting(q)'
      PROVE  starter'[q].version \in Versions
  BY <1>4, <1>5, <1>6, <1>7 DEF Moves, StartType
<1>8. OneVersion'
  <2> SUFFICES ASSUME NEW q \in Starters, NEW r \in Starters, Starting(q)', Starting(r)'
               PROVE  starter'[q].version = starter'[r].version
    BY DEF OneVersion
  <2>3. CASE q = p /\ r = p
    BY <2>3
  <2>4. CASE q # p /\ r = p
    BY <2>4, <1>4, <1>5, <1>6 DEF Moves
  <2>5. CASE q = p /\ r # p
    BY <2>5, <1>4, <1>5, <1>6 DEF Moves
  <2>6. CASE q # p /\ r # p
    BY <2>6, <1>4, <1>5 DEF OneVersion
  <2> QED BY <2>3, <2>4, <2>5, <2>6
<1> QED BY <1>3, <1>4, <1>7, <1>8

(* The step of a process that writes neither table: what the invariant says of *)
(* the others stands, and what it says of this one is to be shown.            *)
LEMMA StarterStep ==
  ASSUME SeedInv, NEW p \in Starters, NEW d, Moves(p, d),
         UNCHANGED <<connectors, skills>>,
         ConnectorsMissed(d), SkillsLoaded(d)
  PROVE  SeedInv'
<1>1. /\ starter' \in [Starters -> Process]
      /\ (\A q \in Starters : Starting(q) => starter[q].version \in Versions)'
      /\ OneVersion'
      /\ starter'[p] = d
      /\ \A q \in Starters : q # p => starter'[q] = starter[q]
  BY StarterMoved DEF SeedInv
<1>2. StartType' /\ (connectors \in {{}, Connectors})' /\ SkillRowWhole'
  BY <1>1 DEF SeedInv, StartType, SkillRowWhole
<1>3. ASSUME NEW q \in Starters
      PROVE  ConnectorsMissed(starter[q])' /\ SkillsLoaded(starter[q])'
  <2>1. CASE q = p
    BY <2>1, <1>1 DEF ConnectorsMissed, SkillsLoaded
  <2>2. CASE q # p
    BY <2>2, <1>1 DEF SeedInv, ConnectorsMissed, SkillsLoaded
  <2> QED BY <2>1, <2>2
<1> QED BY <1>1, <1>2, <1>3 DEF SeedInv

LEMMA ConnectorsInserted ==
  ASSUME SeedInv, NEW p \in Starters, InsertConnectors(p)
  PROVE  SeedInv'
<1> DEFINE c == starter[p]
           d == [c EXCEPT !.pc = "skills", !.missing = {}]
<1>1. /\ c \in Process /\ c.pc = "insert" /\ Starting(p) /\ c.version \in Versions
      /\ UNCHANGED skills
      /\ starter' = [starter EXCEPT ![p] = d]
      /\ connectors' = IF c.missing \cap connectors = {}
                       THEN connectors \cup c.missing ELSE connectors
  BY DEF InsertConnectors, Become, SeedInv, StartType, Starting
<1>2. d \in Process
  BY <1>1 DEF Process, StartPcs
<1>3. d.pc = "skills" /\ d.version = c.version
  BY <1>1 DEF Process
<1> HIDE DEF d
<1>4. Moves(p, d)
  BY <1>1, <1>2, <1>3 DEF Moves, SeedInv, OneVersion
<1>5. /\ starter' \in [Starters -> Process]
      /\ (\A q \in Starters : Starting(q) => starter[q].version \in Versions)'
      /\ OneVersion'
      /\ starter'[p] = d
      /\ \A q \in Starters : q # p => starter'[q] = starter[q]
  BY <1>4, StarterMoved DEF SeedInv
<1>6. connectors' = Connectors
  <2>1. connectors \in {{}, Connectors} /\ ConnectorsMissed(c)
    BY DEF SeedInv
  <2> QED BY <1>1, <2>1 DEF ConnectorsMissed
<1>7. StartType' /\ SkillRowWhole'
  BY <1>1, <1>5 DEF SeedInv, StartType, SkillRowWhole
<1>8. ASSUME NEW q \in Starters
      PROVE  ConnectorsMissed(starter[q])' /\ SkillsLoaded(starter[q])'
  <2>1. CASE q = p
    BY <2>1, <1>3, <1>5, <1>6 DEF ConnectorsMissed, SkillsLoaded
  <2>2. CASE q # p
    BY <2>2, <1>1, <1>5, <1>6 DEF SeedInv, ConnectorsMissed, SkillsLoaded
  <2> QED BY <2>1, <2>2
<1> QED BY <1>5, <1>6, <1>7, <1>8 DEF SeedInv

LEMMA EmptyTable == <<>> \in SkillTable
<1>1. <<>> \in [{} -> SkillRow]
  OBVIOUS
<1> QED BY <1>1 DEF SkillTable

LEMMA SkillsWritten ==
  ASSUME SeedInv, NEW p \in Starters, WriteSkills(p)
  PROVE  SeedInv'
<1> DEFINE c == starter[p]
           v == c.version
           changed == Changed(v, c.loaded)
           new == changed \ DOMAIN c.loaded
           d == [c EXCEPT !.pc = "serving", !.loaded = <<>>]
<1>1. /\ c \in Process /\ c.pc = "embed" /\ Starting(p) /\ v \in Versions
      /\ UNCHANGED connectors
      /\ starter' = [starter EXCEPT ![p] = d]
      /\ skills' = IF new \cap DOMAIN skills # {} THEN skills
                   ELSE [s \in DOMAIN skills \cup new |->
                          CASE s \in new           -> [hash |-> v, overview |-> Text[v]]
                            [] s \in changed \ new -> Updated(v, c.loaded[s], skills[s])
                            [] OTHER               -> skills[s]]
  BY DEF WriteSkills, Become, SeedInv, StartType, Starting
<1>2. d \in Process
  BY <1>1, EmptyTable DEF Process, StartPcs
<1>3. d.pc = "serving" /\ d.version = v /\ d.seeded = c.seeded
  BY <1>1 DEF Process
<1> HIDE DEF d
<1>4. Moves(p, d)
  BY <1>1, <1>2, <1>3 DEF Moves, SeedInv, OneVersion
<1>5. /\ starter' \in [Starters -> Process]
      /\ (\A q \in Starters : Starting(q) => starter[q].version \in Versions)'
      /\ OneVersion'
      /\ starter'[p] = d
      /\ \A q \in Starters : q # p => starter'[q] = starter[q]
  BY <1>4, StarterMoved DEF SeedInv
<1>6. /\ SkillsLoaded(c) /\ ConnectorsMissed(c) /\ ConnectorsMissed(d)
      /\ \A s \in SkillsOf[v] : s \notin DOMAIN c.loaded => s \in new
      /\ changed \subseteq SkillsOf[v]
      /\ SkillsOf[v] \subseteq AllSkills
      /\ skills \in SkillTable
  BY <1>1, <1>3 DEF SeedInv, ConnectorsMissed, Changed, AllSkills, StartType
<1>7. CASE new \cap DOMAIN skills # {}
  <2>1. UNCHANGED skills
    BY <1>1, <1>7
  <2>2. SkillsLoaded(d)
    BY <1>1, <1>3, <1>6, <1>7 DEF SkillsLoaded
  <2> QED BY <1>1, <1>4, <1>6, <2>1, <2>2, StarterStep
<1>8. CASE new \cap DOMAIN skills = {}
  <2>1. /\ DOMAIN skills' = DOMAIN skills \cup new
        /\ \A s \in new : skills'[s] = [hash |-> v, overview |-> Text[v]]
        /\ \A s \in changed \ new : s \in DOMAIN skills =>
             skills'[s] = Updated(v, c.loaded[s], skills[s])
        /\ \A s \in DOMAIN skills : s \notin changed => skills'[s] = skills[s]
        /\ skills' = [s \in DOMAIN skills' |-> skills'[s]]
    BY <1>1, <1>8
  <2>2. DOMAIN c.loaded \subseteq DOMAIN skills /\ SkillsOf[v] \subseteq DOMAIN skills'
    BY <1>1, <1>6, <2>1 DEF SkillsLoaded
  <2>3. ASSUME NEW s \in DOMAIN skills', s \in changed
        PROVE  skills'[s] = [hash |-> v, overview |-> Text[v]]
    <3>1. CASE s \in new
      BY <3>1, <2>1
    <3>2. CASE s \notin new
      <4>1. s \in DOMAIN c.loaded /\ s \in DOMAIN skills
        BY <3>2, <2>2, <2>3
      <4>2. skills[s] = c.loaded[s] \/ skills[s].overview = Text[v]
        BY <4>1, <1>1, <1>6 DEF SkillsLoaded
      <4>3. skills'[s] = [hash |-> v, overview |->
              IF c.loaded[s].overview = Text[v] THEN skills[s].overview ELSE Text[v]]
        BY <4>1, <2>1, <2>3, <3>2 DEF Updated
      <4> QED BY <4>2, <4>3
    <3> QED BY <3>1, <3>2
  <2>4. \A s \in DOMAIN skills' : s \notin changed => s \in DOMAIN skills /\ skills'[s] = skills[s]
    BY <2>1
  <2>5. skills' \in SkillTable
    <3>1. DOMAIN skills \subseteq AllSkills /\ \A s \in DOMAIN skills : skills[s] \in SkillRow
      BY <1>6 DEF SkillTable
    <3>2. DOMAIN skills' \subseteq AllSkills
      BY <1>6, <2>1, <3>1
    <3>3. [hash |-> v, overview |-> Text[v]] \in SkillRow
      BY <1>1 DEF SkillRow
    <3>4. \A s \in DOMAIN skills' : skills'[s] \in SkillRow
      BY <2>3, <2>4, <3>1, <3>3
    <3>5. skills' \in [DOMAIN skills' -> SkillRow]
      BY <2>1, <3>4
    <3> QED BY <3>2, <3>5 DEF SkillTable
  <2>6. SkillRowWhole'
    BY <2>3, <2>4 DEF SeedInv, SkillRowWhole
  <2>7. ASSUME NEW q \in Starters
        PROVE  ConnectorsMissed(starter[q])' /\ SkillsLoaded(starter[q])'
    <3>1. CASE q = p
      <4>1. starter'[q] = d /\ d.pc = "serving" /\ d.version = v
        BY <3>1, <1>3, <1>5
      <4>2. ConnectorsMissed(starter[q])'
        BY <1>1, <1>6, <4>1 DEF ConnectorsMissed
      <4>3. SkillsLoaded(starter[q])'
        BY <2>2, <4>1 DEF SkillsLoaded
      <4> QED BY <4>2, <4>3
    <3>2. CASE q # p
      <4>1. starter'[q] = starter[q] /\ ConnectorsMissed(starter[q]) /\ SkillsLoaded(starter[q])
        BY <3>2, <1>5 DEF SeedInv
      <4>2. ConnectorsMissed(starter[q])'
        BY <1>1, <4>1 DEF ConnectorsMissed
      <4>3. CASE starter[q].pc = "embed"
        <5>1. starter[q].version = v
          BY <1>1, <4>3 DEF SeedInv, OneVersion, Starting
        <5>2. ASSUME NEW s \in DOMAIN starter[q].loaded
              PROVE  skills'[s] = starter[q].loaded[s] \/ skills'[s].overview = Text[v]
          <6>1. s \in DOMAIN skills /\ s \in DOMAIN skills'
            BY <4>1, <4>3, <5>2, <2>1 DEF SkillsLoaded
          <6>2. skills[s] = starter[q].loaded[s] \/ skills[s].overview = Text[v]
            BY <4>1, <4>3, <5>1, <5>2 DEF SkillsLoaded
          <6> QED BY <6>1, <6>2, <2>3, <2>4
        <5>3. DOMAIN starter[q].loaded \subseteq DOMAIN skills'
          BY <4>1, <4>3, <2>1 DEF SkillsLoaded
        <5>4. starter'[q].pc = "embed" /\ starter'[q].version = v
              /\ starter'[q].loaded = starter[q].loaded
          BY <4>1, <4>3, <5>1
        <5> QED BY <4>2, <5>2, <5>3, <5>4, <2>2 DEF SkillsLoaded
      <4>4. CASE starter[q].pc # "embed"
        <5>1. starter[q].pc = "serving" /\ starter[q].seeded =>
                SkillsOf[starter[q].version] \subseteq DOMAIN skills
          BY <4>1 DEF SkillsLoaded
        <5>2. starter'[q].pc # "embed"
          BY <4>1, <4>4
        <5>3. starter'[q].pc = "serving" /\ starter'[q].seeded =>
                SkillsOf[starter'[q].version] \subseteq DOMAIN skills'
          BY <5>1, <4>1, <2>1
        <5> QED BY <4>2, <5>2, <5>3 DEF SkillsLoaded
      <4> QED BY <4>2, <4>3, <4>4
    <3> QED BY <3>1, <3>2
  <2> QED BY <1>1, <1>5, <2>5, <2>6, <2>7 DEF SeedInv, StartType
<1> QED BY <1>7, <1>8

LEMMA SeedInit == StartInit => SeedInv
<1> SUFFICES ASSUME StartInit
             PROVE  SeedInv
  OBVIOUS
<1>1. Down \in Process /\ Down.pc = "down"
  BY EmptyTable DEF Down, Process, StartPcs
<1>2. \A p \in Starters : starter[p] = Down
  BY DEF StartInit
<1>3. StartType
  BY <1>1, <1>2, EmptyTable DEF StartInit, StartType, Starting
<1>4. OneVersion
  BY <1>1, <1>2 DEF OneVersion, Starting
<1>5. SkillRowWhole
  BY DEF StartInit, SkillRowWhole
<1>6. \A p \in Starters : ConnectorsMissed(starter[p]) /\ SkillsLoaded(starter[p])
  BY <1>1, <1>2 DEF ConnectorsMissed, SkillsLoaded
<1> QED BY <1>3, <1>4, <1>5, <1>6 DEF SeedInv, StartInit

LEMMA SeedKept == SeedInv /\ [StartNext]_startVars => SeedInv'
<1> SUFFICES ASSUME SeedInv, [StartNext]_startVars
             PROVE  SeedInv'
  OBVIOUS
<1>1. CASE UNCHANGED startVars
  <2>1. /\ connectors' = connectors /\ skills' = skills /\ starter' = starter
    BY <1>1 DEF startVars
  <2>2. StartType' /\ OneVersion' /\ SkillRowWhole'
    BY <2>1 DEF SeedInv, StartType, OneVersion, SkillRowWhole, Starting
  <2>3. \A p \in Starters : (ConnectorsMissed(starter[p]) /\ SkillsLoaded(starter[p]))'
    BY <2>1 DEF SeedInv, ConnectorsMissed, SkillsLoaded
  <2> QED BY <2>1, <2>2, <2>3 DEF SeedInv
<1>2. ASSUME NEW p \in Starters, NEW v \in Versions, Start(p, v)
      PROVE  SeedInv'
  <2> DEFINE d == [Down EXCEPT !.pc = "vault", !.version = v]
  <2>1. d \in Process /\ d.pc = "vault" /\ d.version = v
    BY EmptyTable DEF Down, Process, StartPcs
  <2>2. starter' = [starter EXCEPT ![p] = d] /\ UNCHANGED <<connectors, skills>>
    BY <1>2 DEF Start, Become
  <2> HIDE DEF d
  <2>3. Moves(p, d)
    BY <1>2, <2>1, <2>2 DEF Moves, Start
  <2>4. ConnectorsMissed(d) /\ SkillsLoaded(d)
    BY <2>1 DEF ConnectorsMissed, SkillsLoaded
  <2> QED BY <2>2, <2>3, <2>4, StarterStep
<1>3. ASSUME NEW p \in Starters, SelectVault(p)
      PROVE  SeedInv'
  <2>1. PICK pc \in {"refused", "connectors"} :
          /\ starter[p].pc = "vault"
          /\ starter' = [starter EXCEPT ![p] = [starter[p] EXCEPT !.pc = pc]]
          /\ UNCHANGED <<connectors, skills>>
    BY <1>3 DEF SelectVault, Become
  <2> DEFINE d == [starter[p] EXCEPT !.pc = pc]
  <2>2. starter[p] \in Process
    BY DEF SeedInv, StartType
  <2>3. d \in Process /\ d.pc = pc /\ d.version = starter[p].version
    BY <2>2 DEF Process, StartPcs
  <2>4. starter' = [starter EXCEPT ![p] = d]
    BY <2>1
  <2> HIDE DEF d
  <2>5. Moves(p, d)
    BY <2>1, <2>3, <2>4 DEF Moves, SeedInv, StartType, OneVersion, Starting
  <2>6. ConnectorsMissed(d) /\ SkillsLoaded(d)
    BY <2>3 DEF ConnectorsMissed, SkillsLoaded
  <2> QED BY <2>1, <2>5, <2>6, StarterStep
<1>4. ASSUME NEW p \in Starters, ReadConnectors(p)
      PROVE  SeedInv'
  <2> DEFINE d == [starter[p] EXCEPT !.pc = "insert", !.missing = Connectors \ connectors]
  <2>1. /\ starter[p].pc = "connectors" /\ starter' = [starter EXCEPT ![p] = d]
        /\ UNCHANGED <<connectors, skills>>
    BY <1>4 DEF ReadConnectors, Become
  <2>2. starter[p] \in Process
    BY DEF SeedInv, StartType
  <2>3. /\ d \in Process /\ d.pc = "insert" /\ d.version = starter[p].version
        /\ d.missing = Connectors \ connectors
    BY <2>2 DEF Process, StartPcs
  <2> HIDE DEF d
  <2>4. Moves(p, d)
    BY <2>1, <2>3 DEF Moves, SeedInv, StartType, OneVersion, Starting
  <2>5. ConnectorsMissed(d) /\ SkillsLoaded(d)
    BY <2>3 DEF ConnectorsMissed, SkillsLoaded, SeedInv
  <2> QED BY <2>1, <2>4, <2>5, StarterStep
<1>5. ASSUME NEW p \in Starters, ReadSkills(p)
      PROVE  SeedInv'
  <2> DEFINE c == starter[p]
             served == [c EXCEPT !.pc = "serving"]
             d == [c EXCEPT !.pc = "embed", !.loaded = skills]
  <2>1. c \in Process /\ c.pc = "skills" /\ skills \in SkillTable /\ ConnectorsMissed(c)
    BY <1>5 DEF ReadSkills, SeedInv, StartType
  <2>2. UNCHANGED <<connectors, skills>>
    BY <1>5 DEF ReadSkills
  <2>3. CASE Changed(c.version, skills) = {}
    <3>1. starter' = [starter EXCEPT ![p] = served]
      BY <1>5, <2>3 DEF ReadSkills, Become
    <3>2. /\ served \in Process /\ served.pc = "serving" /\ served.version = c.version
          /\ served.seeded = c.seeded
      BY <2>1 DEF Process, StartPcs
    <3> HIDE DEF served
    <3>3. Moves(p, served)
      BY <3>1, <3>2 DEF Moves
    <3>4. SkillsOf[c.version] \subseteq DOMAIN skills
      BY <2>3 DEF Changed
    <3>5. ConnectorsMissed(served) /\ SkillsLoaded(served)
      BY <2>1, <3>2, <3>4 DEF ConnectorsMissed, SkillsLoaded
    <3> QED BY <2>2, <3>3, <3>5, StarterStep
  <2>4. CASE Changed(c.version, skills) # {}
    <3>1. starter' = [starter EXCEPT ![p] = d]
      BY <1>5, <2>4 DEF ReadSkills, Become
    <3>2. /\ d \in Process /\ d.pc = "embed" /\ d.version = c.version
          /\ d.seeded = c.seeded /\ d.loaded = skills
      BY <2>1 DEF Process, StartPcs
    <3> HIDE DEF d
    <3>3. Moves(p, d)
      BY <2>1, <3>1, <3>2 DEF Moves, SeedInv, StartType, OneVersion, Starting
    <3>4. ConnectorsMissed(d) /\ SkillsLoaded(d)
      BY <2>1, <3>2 DEF ConnectorsMissed, SkillsLoaded
    <3> QED BY <2>2, <3>3, <3>4, StarterStep
  <2> QED BY <2>3, <2>4
<1>6. ASSUME NEW p \in Starters, SeedFails(p)
      PROVE  SeedInv'
  <2> DEFINE c == starter[p]
  <2>1. PICK pc \in {"skills", "serving"} :
          /\ c.pc \in {"connectors", "insert", "skills", "embed"}
          /\ starter' = [starter EXCEPT ![p] = [c EXCEPT !.pc = pc, !.loaded = <<>>,
                                                         !.missing = {}, !.seeded = FALSE]]
          /\ UNCHANGED <<connectors, skills>>
    BY <1>6 DEF SeedFails, Become
  <2> DEFINE d == [c EXCEPT !.pc = pc, !.loaded = <<>>, !.missing = {}, !.seeded = FALSE]
  <2>2. c \in Process
    BY DEF SeedInv, StartType
  <2>3. d \in Process /\ d.pc = pc /\ d.version = c.version /\ d.seeded = FALSE
    BY <2>2, EmptyTable DEF Process, StartPcs
  <2>4. starter' = [starter EXCEPT ![p] = d]
    BY <2>1
  <2> HIDE DEF d
  <2>5. Moves(p, d)
    BY <2>1, <2>3, <2>4 DEF Moves, SeedInv, StartType, OneVersion, Starting
  <2>6. ConnectorsMissed(d) /\ SkillsLoaded(d)
    BY <2>3 DEF ConnectorsMissed, SkillsLoaded
  <2> QED BY <2>1, <2>5, <2>6, StarterStep
<1>7. ASSUME NEW p \in Starters, StopProcess(p)
      PROVE  SeedInv'
  <2>1. Down \in Process /\ Down.pc = "down"
    BY EmptyTable DEF Down, Process, StartPcs
  <2>2. Moves(p, Down)
    BY <1>7, <2>1 DEF Moves, StopProcess, Become
  <2>3. ConnectorsMissed(Down) /\ SkillsLoaded(Down)
    BY <2>1 DEF ConnectorsMissed, SkillsLoaded
  <2> QED BY <1>7, <2>2, <2>3, StarterStep DEF StopProcess
<1> QED
  BY <1>1, <1>2, <1>3, <1>4, <1>5, <1>6, <1>7, ConnectorsInserted, SkillsWritten DEF StartNext

(* The whole catalog is there for whoever serves after a start that met no     *)
(* failure but lost races (ensure_connector_catalog, seed_builtin_skills):     *)
(* for any number of processes starting together and any versions.            *)
THEOREM SeedsCompleteAlways == StartSpec => []SeedsComplete
<1>1. SeedInv => SeedsComplete
  BY DEF SeedInv, SeedsComplete, ConnectorsMissed, SkillsLoaded
<1> QED BY <1>1, SeedInit, SeedKept, PTL DEF StartSpec

(* No skill row is torn: the text beside a hash is that version's, whatever    *)
(* columns each process's UPDATE left out (seed_builtin_skills).               *)
THEOREM SkillRowWholeAlways == StartSpec => []SkillRowWhole
<1>1. SeedInv => SkillRowWhole
  BY DEF SeedInv
<1> QED BY <1>1, SeedInit, SeedKept, PTL DEF StartSpec

-----------------------------------------------------------------------------
(* Vault.  The requests of a creation end in a write, and it reaches its       *)
(* commit only by a request that found the secret or stored it.  No other       *)
(* call can take that secret away: only a deletion does, a deletion selects     *)
(* a committed row, and the row of a creation in flight is not committed.      *)

Creating == {"create", "create_bare"}
Asking == {"headers", "login", "closing", "sent", "relogin"}

Paths == {SecretPath(c) : c \in VConns} \cup {SubSeq(SecretPath(c), 1, i) : c \in VConns, i \in 1..2}
HttpRequest == [kind : {"folder", "patch", "post", "get", "delete"}, path : Paths]

VaultCall == [op : {"none", "delete", "load"} \cup Creating, conn : VConns \cup {Nil},
              pc : {"idle", "commit"} \cup Asking, todo : Seq(HttpRequest),
              hdr : Nat \cup {Nil}, attempt : {1, 2}]

VaultType ==
  /\ token \in Nat \cup {Nil}
  /\ issued \in Nat
  /\ row \in [VConns -> {"unused", "flushed", "bare", "present", "gone"}]
  /\ call \in [Callers -> VaultCall]

\* What is left of a load or a creation: a creation's write comes last.
AsksInOrder(k) ==
  k.pc \in Asking =>
    /\ k.op # "create_bare"
    /\ k.todo # <<>>
    /\ k.op = "load" => \A i \in 1..Len(k.todo) : k.todo[i].kind = "get"
    /\ k.op = "create" => /\ k.todo[Len(k.todo)].kind \in {"patch", "post"}
                          /\ \A i \in 1..(Len(k.todo) - 1) : k.todo[i].kind = "folder"

\* The row of a creation in flight is flushed and not committed; a deletion was
\* begun for the connection it deletes.
HasRow(k) ==
  /\ k.pc = "idle" <=> k.op = "none"
  /\ k.pc # "idle" => k.conn \in VConns
  /\ k.op \in Creating => row[k.conn] = "flushed"
  /\ k.op = "delete" => k.conn \in dropping

HasStored(k) == k.op = "create" /\ k.pc = "commit" => k.conn \in secrets

VaultInv ==
  /\ VaultType
  /\ \A r \in Callers : AsksInOrder(call[r]) /\ HasRow(call[r]) /\ HasStored(call[r])
  /\ \A q \in Callers, r \in Callers :
       q # r /\ call[q].op \in Creating /\ call[r].op \in Creating => call[q].conn # call[r].conn
  /\ \A c \in VConns \cap dropping : row[c] \in {"bare", "present", "gone"}
  /\ RowHasCredentials

-----------------------------------------------------------------------------
\* A step of a coroutine that leaves the rows alone and takes no secret but one
\* that is to be deleted.
LEMMA CallStep ==
  ASSUME VaultInv, NEW r \in Callers, NEW d \in VaultCall,
         call' = [call EXCEPT ![r] = d],
         UNCHANGED <<row, dropping>>,
         token' \in Nat \cup {Nil}, issued' \in Nat,
         \A c \in VConns : c \in secrets /\ c \notin dropping => c \in secrets',
         AsksInOrder(d), HasRow(d),
         d.op = "create" /\ d.pc = "commit" => d.conn \in secrets',
         d.op \in Creating => call[r].op \in Creating /\ d.conn = call[r].conn
  PROVE  VaultInv'
<1>1. /\ call'[r] = d
      /\ \A q \in Callers : q # r => call'[q] = call[q]
      /\ call' \in [Callers -> VaultCall]
  BY DEF VaultInv, VaultType
<1>2. VaultType'
  BY <1>1 DEF VaultInv, VaultType
<1>3. ASSUME NEW q \in Callers
      PROVE  AsksInOrder(call[q])' /\ HasRow(call[q])' /\ HasStored(call[q])'
  <2>1. CASE q = r
    BY <2>1, <1>1 DEF AsksInOrder, HasRow, HasStored
  <2>2. CASE q # r
    <3>1. /\ call'[q] = call[q]
          /\ AsksInOrder(call[q]) /\ HasRow(call[q]) /\ HasStored(call[q])
      BY <2>2, <1>1 DEF VaultInv
    <3>2. call[q].op = "create" => call[q].conn \in VConns /\ call[q].conn \notin dropping
      BY <3>1 DEF HasRow, Creating, VaultInv
    <3>3. HasStored(call[q])'
      BY <3>1, <3>2 DEF HasStored
    <3>4. AsksInOrder(call[q])' /\ HasRow(call[q])'
      BY <3>1 DEF AsksInOrder, HasRow
    <3> QED BY <3>3, <3>4
  <2> QED BY <2>1, <2>2
<1>4. ASSUME NEW p \in Callers, NEW q \in Callers, p # q,
             call'[p].op \in Creating, call'[q].op \in Creating
      PROVE  call'[p].conn # call'[q].conn
  <2>1. /\ call[p].op \in Creating /\ call[p].conn = call'[p].conn
        /\ call[q].op \in Creating /\ call[q].conn = call'[q].conn
    BY <1>1, <1>4
  <2> QED BY <1>4, <2>1 DEF VaultInv
<1>5. RowHasCredentials' /\ (\A c \in VConns \cap dropping : row[c] \in {"bare", "present", "gone"})'
  BY DEF VaultInv, RowHasCredentials
<1> QED BY <1>2, <1>3, <1>4, <1>5 DEF VaultInv

LEMMA IdleCall == Idle \in VaultCall /\ AsksInOrder(Idle) /\ HasRow(Idle) /\ Idle.op = "none"
  BY EmptySeq DEF Idle, VaultCall, AsksInOrder, HasRow, Creating, Asking

(* An error ends a creation or a load, and takes a deletion to its commit.     *)
LEMMA RaiseStep ==
  ASSUME VaultInv, NEW r \in Callers, call[r].pc \in Asking, Raise(r),
         UNCHANGED <<row, dropping>>,
         token' \in Nat \cup {Nil}, issued' \in Nat,
         \A c \in VConns : c \in secrets /\ c \notin dropping => c \in secrets'
  PROVE  VaultInv'
<1> DEFINE d == [call[r] EXCEPT !.todo = <<>>, !.pc = "commit"]
<1>1. call[r] \in VaultCall /\ HasRow(call[r])
  BY DEF VaultInv, VaultType
<1>2. CASE call[r].op = "delete"
  <2>1. /\ d \in VaultCall /\ d.op = "delete" /\ d.pc = "commit" /\ d.conn = call[r].conn
    BY <1>1, <1>2, EmptySeq DEF VaultCall
  <2>2. call' = [call EXCEPT ![r] = d]
    BY <1>2 DEF Raise
  <2> HIDE DEF d
  <2>3. AsksInOrder(d) /\ HasRow(d)
    BY <1>1, <1>2, <2>1 DEF AsksInOrder, HasRow, Asking, Creating
  <2> QED BY <2>1, <2>2, <2>3, CallStep DEF Creating
<1>3. CASE call[r].op # "delete"
  <2>1. call' = [call EXCEPT ![r] = Idle]
    BY <1>3 DEF Raise, End
  <2> QED BY <2>1, IdleCall, CallStep DEF Creating
<1> QED BY <1>2, <1>3

LEMMA OneElement ==
  ASSUME NEW S, NEW x \in S
  PROVE  <<x>> \in Seq(S) /\ Len(<<x>>) = 1 /\ <<x>>[1] = x /\ <<x>> # <<>>
OBVIOUS

LEMMA LongerThanEmpty ==
  ASSUME NEW s, Len(s) # 0
  PROVE  s # <<>>
BY EmptySeq

LEMMA UpsertOrder ==
  ASSUME NEW c \in VConns
  PROVE  /\ Upsert(c) \in Seq(HttpRequest)
         /\ Len(Upsert(c)) = 3
         /\ Upsert(c)[3].kind = "patch"
         /\ \A i \in 1..2 : Upsert(c)[i].kind = "folder"
<1> DEFINE tree == FolderTree(SecretPath(c))
           last == <<[kind |-> "patch", path |-> SecretPath(c)]>>
<1>1. Len(SecretPath(c)) = 2
  BY DEF SecretPath
<1>2. tree = [i \in 1..2 |-> [kind |-> "folder", path |-> SubSeq(SecretPath(c), 1, i)]]
  BY <1>1 DEF FolderTree
<1>3. \A i \in 1..2 : tree[i] \in HttpRequest /\ tree[i].kind = "folder"
  BY <1>2 DEF HttpRequest, Paths
<1>4. tree \in Seq(HttpRequest) /\ Len(tree) = 2
  <2>1. tree \in [1..2 -> HttpRequest]
    BY <1>2, <1>3
  <2>2. tree \in Seq(HttpRequest)
    BY <2>1, SeqDef
  <2> QED BY <2>1, <2>2, LenProperties
<1>5. last \in Seq(HttpRequest) /\ Len(last) = 1 /\ last[1].kind = "patch"
  BY DEF HttpRequest, Paths
<1> HIDE DEF tree, last
<1>6. /\ tree \o last \in Seq(HttpRequest)
      /\ Len(tree \o last) = 3
      /\ \A i \in 1..3 : (tree \o last)[i] = IF i <= 2 THEN tree[i] ELSE last[i - 2]
  <2>1. /\ tree \o last \in Seq(HttpRequest)
        /\ Len(tree \o last) = Len(tree) + Len(last)
        /\ \A i \in 1..(Len(tree) + Len(last)) :
             (tree \o last)[i] = IF i <= Len(tree) THEN tree[i] ELSE last[i - Len(tree)]
    BY <1>4, <1>5, ConcatProperties, Zenon
  <2>2. Len(tree) + Len(last) = 3 /\ Len(tree) = 2
    BY <1>4, <1>5
  <2> QED BY <2>1, <2>2
<1>7. Upsert(c) = tree \o last
  BY DEF Upsert, tree, last
<1> QED BY <1>3, <1>5, <1>6, <1>7

LEMMA BeginStep ==
  ASSUME VaultInv, NEW r \in Callers, NEW c \in VConns,
         NEW op \in {"create", "create_bare", "delete", "load"}, Begin(r, op, c)
  PROVE  VaultInv'
<1> DEFINE todo == Requests(op, c)
           pc == AfterRequests(op, todo)
           d == [Idle EXCEPT !.op = op, !.conn = c, !.todo = todo, !.pc = pc]
<1>1. /\ call[r].pc = "idle" /\ call[r].op = "none"
      /\ call' = [call EXCEPT ![r] = d]
      /\ UNCHANGED <<token, issued, secrets>>
      /\ dropping' = IF op = "delete" THEN dropping \cup {c} ELSE dropping
      /\ row' = IF row[c] = "unused" THEN [row EXCEPT ![c] = "flushed"] ELSE row
      /\ row[c] \in IF op \in Creating THEN {"unused"} ELSE {"bare", "present"}
  BY DEF Begin, Selectable, Creating, VaultInv, HasRow
<1>2. /\ todo \in Seq(HttpRequest)
      /\ op = "create_bare" <=> todo = <<>>
      /\ op = "load" => Len(todo) = 1 /\ todo[1].kind = "get"
      /\ op = "create" => /\ Len(todo) = 3 /\ todo[3].kind = "patch"
                          /\ \A i \in 1..2 : todo[i].kind = "folder"
  <2>1. CASE op = "create"
    <3>1. todo = Upsert(c)
      BY <2>1 DEF Requests
    <3>2. Len(todo) = 3
      BY <3>1, UpsertOrder
    <3>3. todo # <<>>
      BY <3>2, EmptySeq
    <3> QED BY <2>1, <3>1, <3>2, <3>3, UpsertOrder
  <2>2. CASE op = "create_bare"
    <3>1. todo = <<>>
      BY <2>2 DEF Requests
    <3> QED BY <2>2, <3>1, EmptySeq
  <2>3. CASE op = "delete"
    <3>1. todo = <<[kind |-> "delete", path |-> SecretPath(c)]>>
      BY <2>3 DEF Requests
    <3> DEFINE x == [kind |-> "delete", path |-> SecretPath(c)]
    <3>2. x \in HttpRequest /\ x.kind = "delete"
      BY DEF HttpRequest, Paths
    <3> HIDE DEF x
    <3>3. /\ <<x>> \in Seq(HttpRequest) /\ Len(<<x>>) = 1 /\ <<x>>[1].kind = "delete"
          /\ <<x>> # <<>>
      BY <3>2, OneElement
    <3>4. todo = <<x>>
      BY <3>1 DEF x
    <3> HIDE DEF todo
    <3> QED BY <2>3, <3>3, <3>4
  <2>4. CASE op = "load"
    <3>1. todo = <<[kind |-> "get", path |-> SecretPath(c)]>>
      BY <2>4 DEF Requests
    <3> DEFINE x == [kind |-> "get", path |-> SecretPath(c)]
    <3>2. x \in HttpRequest /\ x.kind = "get"
      BY DEF HttpRequest, Paths
    <3> HIDE DEF x
    <3>3. /\ <<x>> \in Seq(HttpRequest) /\ Len(<<x>>) = 1 /\ <<x>>[1].kind = "get"
          /\ <<x>> # <<>>
      BY <3>2, OneElement
    <3>4. todo = <<x>>
      BY <3>1 DEF x
    <3> HIDE DEF todo
    <3> QED BY <2>4, <3>3, <3>4
  <2> QED BY <2>1, <2>2, <2>3, <2>4
<1> HIDE DEF todo
<1>3. /\ pc = IF op = "create_bare" THEN "commit" ELSE "headers"
      /\ pc \in {"commit"} \cup Asking
  BY <1>2 DEF AfterRequests, Asking
<1> HIDE DEF pc
<1>4. /\ d \in VaultCall /\ d.op = op /\ d.conn = c /\ d.todo = todo /\ d.pc = pc
  BY <1>2, <1>3, IdleCall DEF VaultCall, Creating
<1> HIDE DEF d
<1>5. /\ call'[r] = d
      /\ \A q \in Callers : q # r => call'[q] = call[q]
      /\ call' \in [Callers -> VaultCall]
  BY <1>1, <1>4 DEF VaultInv, VaultType
<1>6. /\ row' \in [VConns -> {"unused", "flushed", "bare", "present", "gone"}]
      /\ \A b \in VConns : b # c => row'[b] = row[b]
      /\ op \in Creating => row'[c] = "flushed" /\ row[c] = "unused"
      /\ op \notin Creating => row' = row
  BY <1>1 DEF VaultInv, VaultType
<1>7. VaultType'
  BY <1>1, <1>5, <1>6 DEF VaultInv, VaultType
<1>8. AsksInOrder(d) /\ HasRow(d)' /\ ~(d.op = "create" /\ d.pc = "commit")
  <2>1. AsksInOrder(d)
    <3> SUFFICES ASSUME d.pc \in Asking
                 PROVE  /\ op # "create_bare" /\ todo # <<>>
                        /\ op = "load" => \A i \in 1..Len(todo) : todo[i].kind = "get"
                        /\ op = "create" =>
                             /\ todo[Len(todo)].kind \in {"patch", "post"}
                             /\ \A i \in 1..(Len(todo) - 1) : todo[i].kind = "folder"
      BY <1>4 DEF AsksInOrder
    <3>1. op # "create_bare"
      BY <1>3, <1>4 DEF Asking
    <3> QED BY <1>2, <3>1
  <2>2. d.pc # "idle" /\ d.op # "none"
    BY <1>3, <1>4 DEF Asking
  <2> QED BY <1>1, <1>3, <1>4, <1>6, <2>1, <2>2 DEF HasRow
<1>9. ASSUME NEW q \in Callers
      PROVE  AsksInOrder(call[q])' /\ HasRow(call[q])' /\ HasStored(call[q])'
  <2>1. CASE q = r
    BY <2>1, <1>5, <1>8 DEF AsksInOrder, HasRow, HasStored
  <2>2. CASE q # r
    <3>1. /\ call'[q] = call[q]
          /\ AsksInOrder(call[q]) /\ HasRow(call[q]) /\ HasStored(call[q])
      BY <2>2, <1>5 DEF VaultInv
    <3>2. AsksInOrder(call[q])' /\ HasStored(call[q])'
      BY <1>1, <3>1 DEF AsksInOrder, HasStored
    <3>3. call[q].op \in Creating => call[q].conn \in VConns /\ row'[call[q].conn] = "flushed"
      BY <1>6, <3>1 DEF HasRow, Creating
    <3>4. HasRow(call[q])'
      BY <1>1, <3>1, <3>3 DEF HasRow
    <3> QED BY <3>2, <3>4
  <2> QED BY <2>1, <2>2
<1>10. ASSUME NEW p \in Callers, NEW q \in Callers, p # q,
              call'[p].op \in Creating, call'[q].op \in Creating
       PROVE  call'[p].conn # call'[q].conn
  <2>1. \A s \in Callers : s # r /\ call[s].op \in Creating =>
          (op \in Creating => call[s].conn # c)
    BY <1>6 DEF VaultInv, HasRow
  <2> QED BY <1>4, <1>5, <1>10, <2>1 DEF VaultInv
<1>11. ASSUME NEW b \in VConns, b \in dropping'
       PROVE  row'[b] \in {"bare", "present", "gone"}
  <2>1. CASE b = c /\ op = "delete"
    BY <1>1, <1>6, <2>1 DEF Creating
  <2>2. CASE ~(b = c /\ op = "delete")
    <3>1. b \in dropping /\ row[b] \in {"bare", "present", "gone"}
      BY <1>1, <1>11, <2>2 DEF VaultInv
    <3> QED BY <1>6, <3>1
  <2> QED BY <2>1, <2>2
<1>12. RowHasCredentials'
  <2>1. \A b \in VConns : row'[b] = "present" => row[b] = "present"
    BY <1>6
  <2> QED BY <1>1, <2>1 DEF VaultInv, RowHasCredentials
<1> QED BY <1>7, <1>9, <1>10, <1>11, <1>12 DEF VaultInv

\* The next request of a call, and what is left after it.
LEMMA NextRequest ==
  ASSUME NEW k \in VaultCall, AsksInOrder(k), k.pc \in Asking
  PROVE  /\ Head(k.todo) \in HttpRequest /\ Head(k.todo) = k.todo[1]
         /\ Len(k.todo) \in Nat \ {0}
         /\ Tail(k.todo) \in Seq(HttpRequest)
         /\ Len(Tail(k.todo)) = Len(k.todo) - 1
         /\ \A i \in 1..(Len(k.todo) - 1) : Tail(k.todo)[i] = k.todo[i + 1]
         /\ k.op = "load" => Head(k.todo).kind = "get"
         /\ k.op = "create" => IF Len(k.todo) = 1 THEN Head(k.todo).kind \in {"patch", "post"}
                                                  ELSE Head(k.todo).kind = "folder"
<1>1. k.todo \in Seq(HttpRequest) /\ k.todo # <<>>
  BY DEF AsksInOrder, VaultCall
<1>2. Len(k.todo) \in Nat \ {0}
  BY <1>1, EmptySeq
<1>3. /\ Head(k.todo) \in HttpRequest /\ Tail(k.todo) \in Seq(HttpRequest)
      /\ Len(Tail(k.todo)) = Len(k.todo) - 1
      /\ \A i \in 1..Len(Tail(k.todo)) : Tail(k.todo)[i] = k.todo[i + 1]
  BY <1>1, HeadTailProperties
<1>4. Head(k.todo) = k.todo[1]
  BY <1>1
<1>5. k.op = "load" => k.todo[1].kind = "get"
  BY <1>2 DEF AsksInOrder
<1>6. k.op = "create" => IF Len(k.todo) = 1 THEN k.todo[1].kind \in {"patch", "post"}
                                            ELSE k.todo[1].kind = "folder"
  <2>1. CASE Len(k.todo) = 1
    BY <2>1 DEF AsksInOrder
  <2>2. CASE Len(k.todo) # 1
    <3>1. 1 \in 1..(Len(k.todo) - 1)
      <4>1. \A n \in Nat \ {0} : n # 1 => 1 \in 1..(n - 1)
        OBVIOUS
      <4> QED BY <1>2, <2>2, <4>1, Zenon
    <3>2. k.op = "create" => \A i \in 1..(Len(k.todo) - 1) : k.todo[i].kind = "folder"
      BY DEF AsksInOrder
    <3> QED BY <2>2, <3>1, <3>2
  <2> QED BY <2>1, <2>2
<1> QED BY <1>2, <1>3, <1>4, <1>5, <1>6

LEMMA EffectKeeps ==
  ASSUME VaultInv, NEW r \in Callers, call[r].pc = "sent",
         NEW answer, Effect(Head(call[r].todo), call[r].conn, answer)
  PROVE  /\ \A c \in VConns : c \in secrets /\ c \notin dropping => c \in secrets'
         /\ call[r].op = "create" => secrets \subseteq secrets'
<1> DEFINE k == call[r]
<1>1. k \in VaultCall /\ AsksInOrder(k) /\ HasRow(k) /\ k.pc \in Asking
  BY DEF VaultInv, VaultType, Asking
<1>2. CASE k.op = "delete"
  <2>1. k.conn \in dropping
    BY <1>1, <1>2 DEF HasRow
  <2>2. \A c \in secrets : c # k.conn => c \in secrets'
    BY DEF Effect
  <2> QED BY <1>2, <2>1, <2>2
<1>3. CASE k.op # "delete"
  <2>1. k.op \in {"create", "load"}
    BY <1>1, <1>3 DEF VaultCall, AsksInOrder, HasRow, Creating, Asking
  <2>2. Head(k.todo).kind # "delete"
    BY <1>1, <2>1, NextRequest
  <2>3. secrets \subseteq secrets'
    BY <2>2 DEF Effect
  <2> QED BY <2>3
<1> QED BY <1>2, <1>3

\* What is left of a creation or a load is in order, too.
LEMMA TailInOrder ==
  ASSUME NEW k \in VaultCall, AsksInOrder(k), k.pc \in Asking,
         NEW d \in VaultCall, d.op = k.op, d.todo = Tail(k.todo),
         d.pc \in Asking => d.todo # <<>>
  PROVE  AsksInOrder(d)
<1> SUFFICES ASSUME d.pc \in Asking
             PROVE  /\ d.op # "create_bare" /\ d.todo # <<>>
                    /\ d.op = "load" => \A i \in 1..Len(d.todo) : d.todo[i].kind = "get"
                    /\ d.op = "create" =>
                         /\ d.todo[Len(d.todo)].kind \in {"patch", "post"}
                         /\ \A i \in 1..(Len(d.todo) - 1) : d.todo[i].kind = "folder"
  BY DEF AsksInOrder
<1> DEFINE n == Len(k.todo)
<1>1. /\ n \in Nat \ {0} /\ Len(d.todo) = n - 1 /\ d.todo \in Seq(HttpRequest)
      /\ \A i \in 1..(n - 1) : d.todo[i] = k.todo[i + 1]
  BY NextRequest
<1>2. d.op # "create_bare" /\ d.todo # <<>>
  BY DEF AsksInOrder
<1>3. Len(d.todo) \in Nat \ {0}
  BY <1>1, <1>2, EmptySeq
<1>4. n - 1 \in 1..(n - 1) /\ (n - 1) + 1 = n
  BY <1>1, <1>3
<1>5. d.todo[n - 1] = k.todo[n]
  BY <1>1, <1>4
<1>6. \A i \in 1..(n - 1) : i + 1 \in 1..n
  BY <1>1
<1>7. \A i \in 1..(n - 2) : i \in 1..(n - 1) /\ i + 1 \in 1..(n - 1)
  BY <1>1
<1>8. ASSUME d.op = "load", NEW i \in 1..(n - 1)
      PROVE  d.todo[i].kind = "get"
  BY <1>1, <1>6, <1>8 DEF AsksInOrder
<1>9. ASSUME d.op = "create"
      PROVE  /\ d.todo[n - 1].kind \in {"patch", "post"}
             /\ \A i \in 1..(n - 2) : d.todo[i].kind = "folder"
  <2>1. /\ k.todo[n].kind \in {"patch", "post"}
        /\ \A i \in 1..(n - 1) : k.todo[i].kind = "folder"
    BY <1>9 DEF AsksInOrder
  <2> QED BY <1>1, <1>5, <1>7, <2>1
<1>10. Len(d.todo) = n - 1 /\ Len(d.todo) - 1 = n - 2
  BY <1>1
<1> QED BY <1>2, <1>8, <1>9, <1>10

LEMMA PerformStep ==
  ASSUME VaultInv, NEW r \in Callers, Perform(r)
  PROVE  VaultInv'
<1> DEFINE k == call[r]
           req == Head(k.todo)
           answer == Reply(req, k.conn)
<1>1. /\ k \in VaultCall /\ AsksInOrder(k) /\ HasRow(k) /\ k.pc = "sent" /\ k.pc \in Asking
      /\ Effect(req, k.conn, answer)
      /\ UNCHANGED <<token, issued, row, dropping>>
      /\ token \in Nat \cup {Nil} /\ issued \in Nat
  BY DEF Perform, VaultInv, VaultType, Asking
<1>2. /\ \A c \in VConns : c \in secrets /\ c \notin dropping => c \in secrets'
      /\ k.op = "create" => secrets \subseteq secrets'
  BY <1>1, EffectKeeps
<1>3. /\ req \in HttpRequest /\ req = k.todo[1]
      /\ Tail(k.todo) \in Seq(HttpRequest)
      /\ Len(k.todo) \in Nat \ {0} /\ Len(Tail(k.todo)) = Len(k.todo) - 1
      /\ k.op = "load" => req.kind = "get"
      /\ k.op = "create" => IF Len(k.todo) = 1 THEN req.kind \in {"patch", "post"}
                                               ELSE req.kind = "folder"
  BY <1>1, NextRequest
<1>4. CASE req.kind = "patch" /\ answer = "not_found"
  <2> DEFINE todo == <<[req EXCEPT !.kind = "post"]>>
             d == [k EXCEPT !.todo = todo]
  <2>1. call' = [call EXCEPT ![r] = d]
    BY <1>4 DEF Perform
  <2>2. [req EXCEPT !.kind = "post"] \in HttpRequest /\ [req EXCEPT !.kind = "post"].kind = "post"
    BY <1>3 DEF HttpRequest
  <2>3. todo \in Seq(HttpRequest) /\ Len(todo) = 1 /\ todo[1].kind = "post" /\ todo # <<>>
    <3> HIDE DEF req
    <3>1. todo \in Seq(HttpRequest)
      BY <2>2
    <3>2. Len(todo) = 1 /\ todo[1].kind = "post"
      BY <2>2
    <3>3. todo # <<>>
      BY <3>2, LongerThanEmpty
    <3> QED BY <3>1, <3>2, <3>3
  <2> HIDE DEF todo
  <2>4. /\ d \in VaultCall /\ d.op = k.op /\ d.conn = k.conn /\ d.pc = "sent" /\ d.todo = todo
    BY <1>1, <2>3 DEF VaultCall
  <2> HIDE DEF d
  <2>5. AsksInOrder(d)
    <3>1. d.op \notin {"create_bare", "load"}
      BY <1>1, <1>3, <1>4, <2>4 DEF AsksInOrder
    <3>2. Len(d.todo) = 1 /\ Len(d.todo) - 1 = 0 /\ d.todo[1].kind = "post" /\ d.todo # <<>>
      BY <2>3, <2>4
    <3> QED BY <3>1, <3>2 DEF AsksInOrder
  <2>6. HasRow(d)
    BY <1>1, <2>4 DEF HasRow
  <2> QED BY <1>1, <1>2, <2>1, <2>4, <2>5, <2>6, CallStep
<1>5. CASE ~(req.kind = "patch" /\ answer = "not_found") /\ answer = "no_folder"
  <2>1. Raise(r)
    BY <1>5 DEF Perform
  <2> QED BY <1>1, <1>2, <2>1, RaiseStep
<1>6. CASE ~(req.kind = "patch" /\ answer = "not_found") /\ answer # "no_folder"
  <2> DEFINE pc == AfterRequests(k.op, Tail(k.todo))
             d == [k EXCEPT !.todo = Tail(k.todo), !.attempt = 1, !.hdr = Nil, !.pc = pc]
  <2>1. call' = [call EXCEPT ![r] = d]
    BY <1>6 DEF Perform
  <2>2. pc = IF Tail(k.todo) # <<>> THEN "headers" ELSE "commit"
    BY DEF AfterRequests
  <2> HIDE DEF pc
  <2>3. pc \in {"headers", "commit"}
    BY <2>2
  <2>4. /\ d \in VaultCall /\ d.op = k.op /\ d.conn = k.conn /\ d.pc = pc
        /\ d.todo = Tail(k.todo)
    BY <1>1, <1>3, <2>3 DEF VaultCall, Asking
  <2> HIDE DEF d
  <2>5. AsksInOrder(d)
    <3>1. d.pc \in Asking => d.todo # <<>>
      BY <2>2, <2>4 DEF Asking
    <3> QED BY <1>1, <2>4, <3>1, TailInOrder
  <2>6. HasRow(d)
    BY <1>1, <2>3, <2>4 DEF HasRow
  <2>7. ASSUME d.op = "create", d.pc = "commit"
        PROVE  d.conn \in secrets'
    <3>1. Tail(k.todo) = <<>>
      BY <2>2, <2>4, <2>7
    <3>2. Len(k.todo) = 1
      <4>1. Len(Tail(k.todo)) = 0
        BY <3>1, EmptySeq
      <4>2. \A n \in Nat \ {0}, m \in {0} : m = n - 1 => n = 1
        OBVIOUS
      <4> QED BY <1>3, <4>1, <4>2, Zenon
    <3>3. req.kind \in {"patch", "post"}
      BY <1>3, <2>4, <2>7, <3>2
    <3>4. CASE req.kind = "patch"
      <4>1. k.conn \in secrets
        BY <1>6, <3>4 DEF Reply
      <4> QED BY <1>2, <2>4, <2>7, <4>1
    <3>5. CASE req.kind = "post"
      <4>1. answer = "ok"
        BY <1>6, <3>5 DEF Reply
      <4>2. secrets' = secrets \cup {k.conn}
        BY <1>1, <3>5, <4>1 DEF Effect
      <4> QED BY <2>4, <4>2
    <3> QED BY <3>3, <3>4, <3>5
  <2> QED BY <1>1, <1>2, <2>1, <2>4, <2>5, <2>6, <2>7, CallStep
<1> QED BY <1>4, <1>5, <1>6

\* A step that changes nothing but how far a request has come.
LEMMA RequestMoves ==
  ASSUME VaultInv, NEW r \in Callers, call[r].pc \in Asking,
         NEW pc \in Asking, NEW hdr \in Nat \cup {Nil},
         call' = [call EXCEPT ![r] = [call[r] EXCEPT !.hdr = hdr, !.pc = pc]],
         UNCHANGED <<row, dropping, secrets>>,
         token' \in Nat \cup {Nil}, issued' \in Nat
  PROVE  VaultInv'
<1> DEFINE d == [call[r] EXCEPT !.hdr = hdr, !.pc = pc]
<1>1. call[r] \in VaultCall /\ AsksInOrder(call[r]) /\ HasRow(call[r])
  BY DEF VaultInv, VaultType
<1>2. /\ d \in VaultCall /\ d.op = call[r].op /\ d.conn = call[r].conn /\ d.pc = pc
      /\ d.todo = call[r].todo
  BY <1>1 DEF VaultCall
<1> HIDE DEF d
<1>3. AsksInOrder(d) /\ HasRow(d) /\ d.pc # "commit"
  BY <1>1, <1>2 DEF AsksInOrder, HasRow, Asking
<1>4. call' = [call EXCEPT ![r] = d]
  BY DEF d
<1> QED BY <1>2, <1>3, <1>4, CallStep

LEMMA SamePlace ==
  ASSUME VaultType, NEW r \in Callers, NEW pc, call' = [call EXCEPT ![r].pc = pc]
  PROVE  call' = [call EXCEPT ![r] = [call[r] EXCEPT !.hdr = call[r].hdr, !.pc = pc]]
<1>1. call[r] \in VaultCall /\ call \in [Callers -> VaultCall]
  BY DEF VaultType
<1>2. [call[r] EXCEPT !.hdr = call[r].hdr, !.pc = pc] = [call[r] EXCEPT !.pc = pc]
  BY <1>1 DEF VaultCall
<1>3. call' = [call EXCEPT ![r] = [call[r] EXCEPT !.pc = pc]]
  BY <1>1
<1> QED BY <1>2, <1>3

LEMMA TokenStep ==
  ASSUME VaultInv, NEW r \in Callers, TokenHeaders(r) \/ ReadToken(r) \/ RefreshToken(r)
  PROVE  VaultInv'
<1>1. /\ VaultType /\ call[r] \in VaultCall /\ call[r].hdr \in Nat \cup {Nil}
      /\ token \in Nat \cup {Nil} /\ issued \in Nat /\ issued + 1 \in Nat
  BY DEF VaultInv, VaultType, VaultCall
<1>2. CASE (TokenHeaders(r) /\ token # Nil) \/ ReadToken(r)
  <2>1. /\ call' = [call EXCEPT ![r] = [call[r] EXCEPT !.hdr = token, !.pc = "sent"]]
        /\ call[r].pc \in Asking /\ "sent" \in Asking
        /\ UNCHANGED <<row, dropping, secrets, token, issued>>
    BY <1>2 DEF TokenHeaders, ReadToken, Asking
  <2> QED BY <1>1, <2>1, RequestMoves
<1>3. CASE TokenHeaders(r) /\ token = Nil
  <2>1. /\ call' = [call EXCEPT ![r].pc = "login"]
        /\ call[r].pc \in Asking /\ "login" \in Asking
        /\ UNCHANGED <<row, dropping, secrets, token, issued>>
    BY <1>3 DEF TokenHeaders, Goto, Asking
  <2>2. call' = [call EXCEPT ![r] = [call[r] EXCEPT !.hdr = call[r].hdr, !.pc = "login"]]
    BY <1>1, <2>1, SamePlace
  <2> QED BY <1>1, <2>1, <2>2, RequestMoves
<1>4. CASE RefreshToken(r)
  <2>1. PICK pc \in {"closing", "headers"} :
          /\ call' = [call EXCEPT ![r].pc = pc]
          /\ call[r].pc \in Asking
          /\ UNCHANGED <<row, dropping, secrets>>
          /\ token' = issued + 1 /\ issued' = issued + 1
    BY <1>4 DEF RefreshToken, Goto, Asking
  <2>2. pc \in Asking
    BY DEF Asking
  <2>3. call' = [call EXCEPT ![r] = [call[r] EXCEPT !.hdr = call[r].hdr, !.pc = pc]]
    BY <1>1, <2>1, SamePlace
  <2> QED BY <1>1, <2>1, <2>2, <2>3, RequestMoves
<1> QED BY <1>2, <1>3, <1>4

LEMMA UnauthorizedStep ==
  ASSUME VaultInv, NEW r \in Callers, Unauthorized(r)
  PROVE  VaultInv'
<1> DEFINE k == call[r]
<1>1. /\ k \in VaultCall /\ AsksInOrder(k) /\ HasRow(k) /\ k.pc = "sent" /\ k.pc \in Asking
      /\ UNCHANGED <<issued, secrets, row, dropping>>
      /\ token \in Nat \cup {Nil} /\ issued \in Nat
  BY DEF Unauthorized, VaultInv, VaultType, Asking
<1>2. CASE k.attempt = 1
  <2> DEFINE todo == FromStart(k.todo)
             d == [k EXCEPT !.pc = "relogin", !.attempt = 2, !.todo = todo]
  <2>1. call' = [call EXCEPT ![r] = d] /\ token' = Nil
    BY <1>2 DEF Unauthorized
  <2>2. /\ Head(k.todo) \in HttpRequest /\ Head(k.todo) = k.todo[1]
        /\ Len(k.todo) \in Nat \ {0}
        /\ k.op = "load" => Head(k.todo).kind = "get"
    BY <1>1, NextRequest
  <2>3. CASE Head(k.todo).kind = "post"
    <3> DEFINE patch == [Head(k.todo) EXCEPT !.kind = "patch"]
    <3>1. todo = <<patch>>
      BY <2>3 DEF FromStart
    <3>2. patch \in HttpRequest /\ patch.kind = "patch"
      BY <2>2 DEF HttpRequest
    <3> HIDE DEF patch, todo
    <3>3. todo \in Seq(HttpRequest) /\ Len(todo) = 1 /\ todo[1].kind = "patch"
      BY <3>1, <3>2
    <3>4. todo # <<>>
      BY <3>3, LongerThanEmpty
    <3>5. /\ d \in VaultCall /\ d.op = k.op /\ d.conn = k.conn /\ d.pc = "relogin"
          /\ d.todo = todo
      BY <1>1, <3>3 DEF VaultCall, Asking
    <3> HIDE DEF d
    <3>6. AsksInOrder(d)
      <4>1. d.op \notin {"create_bare", "load"}
        BY <1>1, <2>2, <2>3, <3>5 DEF AsksInOrder
      <4>2. Len(d.todo) = 1 /\ Len(d.todo) - 1 = 0 /\ d.todo[1].kind = "patch" /\ d.todo # <<>>
        BY <3>3, <3>4, <3>5
      <4> QED BY <4>1, <4>2 DEF AsksInOrder
    <3>7. HasRow(d)
      BY <1>1, <3>5 DEF HasRow
    <3> QED BY <1>1, <2>1, <3>5, <3>6, <3>7, CallStep
  <2>4. CASE Head(k.todo).kind # "post"
    <3>1. todo = k.todo
      BY <2>4 DEF FromStart
    <3> HIDE DEF todo
    <3>2. /\ d \in VaultCall /\ d.op = k.op /\ d.conn = k.conn /\ d.pc = "relogin"
          /\ d.todo = k.todo
      BY <1>1, <3>1 DEF VaultCall, Asking
    <3> HIDE DEF d
    <3>3. AsksInOrder(d) /\ HasRow(d)
      BY <1>1, <3>2 DEF AsksInOrder, HasRow, Asking
    <3> QED BY <1>1, <2>1, <3>2, <3>3, CallStep
  <2> QED BY <2>3, <2>4
<1>3. CASE k.attempt # 1
  <2>1. Raise(r) /\ UNCHANGED token
    BY <1>3 DEF Unauthorized
  <2> QED BY <1>1, <2>1, RaiseStep
<1> QED BY <1>2, <1>3

LEMMA FailureStep ==
  ASSUME VaultInv, NEW r \in Callers, LoginFails(r) \/ LoseAnswer(r)
  PROVE  VaultInv'
<1>1. token \in Nat \cup {Nil} /\ issued \in Nat
  BY DEF VaultInv, VaultType
<1>2. CASE LoginFails(r)
  <2>1. /\ Raise(r) /\ call[r].pc \in Asking
        /\ UNCHANGED <<row, dropping, secrets, token, issued>>
    BY <1>2 DEF LoginFails, Asking
  <2> QED BY <1>1, <2>1, RaiseStep
<1>3. CASE LoseAnswer(r)
  <2>1. /\ Raise(r) /\ call[r].pc = "sent" /\ call[r].pc \in Asking
        /\ UNCHANGED <<row, dropping, token, issued>>
        /\ Effect(Head(call[r].todo), call[r].conn, Reply(Head(call[r].todo), call[r].conn))
    BY <1>3 DEF LoseAnswer, Asking
  <2>2. \A c \in VConns : c \in secrets /\ c \notin dropping => c \in secrets'
    BY <2>1, EffectKeeps
  <2> QED BY <1>1, <2>1, <2>2, RaiseStep
<1> QED BY <1>2, <1>3

LEMMA CommitStep ==
  ASSUME VaultInv, NEW r \in Callers, Commit(r)
  PROVE  VaultInv'
<1> DEFINE k == call[r]
           c == k.conn
<1>1. /\ k \in VaultCall /\ HasRow(k) /\ HasStored(k) /\ k.pc = "commit"
      /\ call' = [call EXCEPT ![r] = Idle]
      /\ UNCHANGED <<token, issued, secrets, dropping>>
      /\ token \in Nat \cup {Nil} /\ issued \in Nat
      /\ c \in VConns
  BY DEF Commit, End, VaultInv, VaultType, HasRow
<1>2. CASE row' = row
  BY <1>1, <1>2, IdleCall, CallStep DEF Creating
<1>3. CASE row' # row
  <2>1. PICK state \in {"gone", "bare", "present"} :
          /\ row' = [row EXCEPT ![c] = state]
          /\ state = "gone" => k.op = "delete"
          /\ state = "bare" => k.op = "create_bare"
          /\ state = "present" => k.op = "create"
    <3>1. k.op \in {"delete", "create_bare", "create", "load"}
      BY <1>1 DEF VaultCall, HasRow, Creating
    <3>2. row' = CASE k.op = "delete"      -> [row EXCEPT ![c] = "gone"]
                   [] k.op = "create_bare" -> [row EXCEPT ![c] = "bare"]
                   [] k.op = "create"      -> [row EXCEPT ![c] = "present"]
                   [] k.op = "load"        -> row
      BY <1>3 DEF Commit
    <3> QED BY <1>3, <3>1, <3>2
  <2>2. /\ row' \in [VConns -> {"unused", "flushed", "bare", "present", "gone"}]
        /\ row'[c] = state
        /\ \A b \in VConns : b # c => row'[b] = row[b]
    BY <1>1, <2>1 DEF VaultInv, VaultType
  <2>3. /\ call'[r] = Idle
        /\ \A q \in Callers : q # r => call'[q] = call[q]
        /\ call' \in [Callers -> VaultCall]
    BY <1>1, IdleCall DEF VaultInv, VaultType
  <2>4. VaultType'
    BY <1>1, <2>2, <2>3 DEF VaultInv, VaultType
  <2>5. ASSUME NEW q \in Callers, q # r, call[q].op \in Creating
        PROVE  call[q].conn \in VConns /\ call[q].conn # c
    <3>1. HasRow(call[q]) /\ row[call[q].conn] = "flushed" /\ call[q].conn \in VConns
      BY <2>5 DEF VaultInv, HasRow, Creating
    <3>2. CASE k.op \in Creating
      BY <2>5, <3>1, <3>2 DEF VaultInv
    <3>3. CASE k.op \notin Creating
      <4>1. c \in dropping /\ row[c] # "flushed"
        BY <1>1, <2>1, <3>3 DEF Creating, HasRow, VaultInv
      <4> QED BY <3>1, <4>1
    <3> QED BY <3>2, <3>3
  <2>6. ASSUME NEW q \in Callers
        PROVE  AsksInOrder(call[q])' /\ HasRow(call[q])' /\ HasStored(call[q])'
    <3>1. CASE q = r
      <4>1. call'[q] = Idle
        BY <3>1, <2>3
      <4>2. Idle.pc = "idle" /\ Idle.op = "none"
        BY DEF Idle
      <4> QED BY <4>1, <4>2 DEF AsksInOrder, HasRow, HasStored, Asking, Creating
    <3>2. CASE q # r
      <4>1. /\ call'[q] = call[q]
            /\ AsksInOrder(call[q]) /\ HasRow(call[q]) /\ HasStored(call[q])
        BY <3>2, <2>3 DEF VaultInv
      <4>2. call[q].op \in Creating => row'[call[q].conn] = row[call[q].conn]
        BY <3>2, <2>2, <2>5
      <4>3. AsksInOrder(call[q])' /\ HasStored(call[q])'
        BY <1>1, <4>1 DEF AsksInOrder, HasStored
      <4>4. HasRow(call[q])'
        BY <1>1, <4>1, <4>2 DEF HasRow
      <4> QED BY <4>3, <4>4
    <3> QED BY <3>1, <3>2
  <2>7. ASSUME NEW p \in Callers, NEW q \in Callers, p # q,
               call'[p].op \in Creating, call'[q].op \in Creating
        PROVE  call'[p].conn # call'[q].conn
    <3>1. p # r /\ q # r
      BY <2>3, <2>7 DEF Idle, Creating
    <3> QED BY <2>3, <2>7, <3>1 DEF VaultInv
  <2>8. \A b \in VConns \cap dropping' : row'[b] \in {"bare", "present", "gone"}
    BY <1>1, <2>2 DEF VaultInv
  <2>9. RowHasCredentials'
    <3> SUFFICES ASSUME NEW b \in VConns, row'[b] = "present", b \notin dropping
                 PROVE  b \in secrets
      BY <1>1 DEF RowHasCredentials
    <3>1. CASE b = c
      BY <1>1, <2>1, <2>2, <3>1 DEF HasStored
    <3>2. CASE b # c
      BY <2>2, <3>2 DEF VaultInv, RowHasCredentials
    <3> QED BY <3>1, <3>2
  <2> QED BY <2>4, <2>6, <2>7, <2>8, <2>9 DEF VaultInv
<1> QED BY <1>2, <1>3

LEMMA VaultStart == VaultInit => VaultInv
<1> SUFFICES ASSUME VaultInit
             PROVE  VaultInv
  OBVIOUS
<1>1. \A r \in Callers : call[r] = Idle
  BY DEF VaultInit
<1>2. VaultType
  BY IdleCall DEF VaultInit, VaultType
<1>3. \A r \in Callers : AsksInOrder(call[r]) /\ HasRow(call[r]) /\ HasStored(call[r])
  BY <1>1, IdleCall DEF HasStored, Idle
<1>4. RowHasCredentials
  BY DEF VaultInit, RowHasCredentials
<1> QED BY <1>1, <1>2, <1>3, <1>4, IdleCall DEF VaultInit, VaultInv, Creating

LEMMA VaultKept == VaultInv /\ [VaultNext]_vaultVars => VaultInv'
<1> SUFFICES ASSUME VaultInv, [VaultNext]_vaultVars
             PROVE  VaultInv'
  OBVIOUS
<1>1. CASE UNCHANGED <<token, issued, secrets, row, call, dropping>>
  <2>1. VaultType' /\ RowHasCredentials'
    BY <1>1 DEF VaultInv, VaultType, RowHasCredentials
  <2>2. \A r \in Callers : (AsksInOrder(call[r]) /\ HasRow(call[r]) /\ HasStored(call[r]))'
    BY <1>1 DEF VaultInv, AsksInOrder, HasRow, HasStored
  <2> QED BY <1>1, <2>1, <2>2 DEF VaultInv
<1>2. ASSUME NEW r \in Callers, NEW op \in {"create", "create_bare", "delete", "load"},
             NEW c \in VConns, Begin(r, op, c)
      PROVE  VaultInv'
  BY <1>2, BeginStep
<1>3. ASSUME NEW r \in Callers, Coroutine(r)
      PROVE  VaultInv'
  BY <1>3, TokenStep, UnauthorizedStep, FailureStep, PerformStep, CommitStep DEF Coroutine
<1>4. CASE Crash
  <2>1. /\ call' = [r \in Callers |-> Idle] /\ token' = Nil
        /\ UNCHANGED <<issued, secrets, row, dropping>>
    BY <1>4 DEF Crash
  <2>2. VaultType'
    BY <2>1, IdleCall DEF VaultInv, VaultType
  <2>3. \A r \in Callers : call'[r] = Idle
    BY <2>1
  <2>4. Idle.pc = "idle" /\ Idle.op = "none"
    BY DEF Idle
  <2>5. \A r \in Callers : (AsksInOrder(call[r]) /\ HasRow(call[r]) /\ HasStored(call[r]))'
    BY <2>3, <2>4 DEF AsksInOrder, HasRow, HasStored, Asking, Creating
  <2>6. RowHasCredentials'
    BY <2>1 DEF VaultInv, RowHasCredentials
  <2> QED BY <2>1, <2>2, <2>3, <2>4, <2>5, <2>6 DEF VaultInv, Creating
<1>5. ASSUME NEW t \in 1..MaxLogins, Expire(t)
      PROVE  VaultInv'
  BY <1>1, <1>5 DEF Expire
<1>6. CASE UNCHANGED vaultVars
  BY <1>1, <1>6 DEF vaultVars
<1> QED BY <1>2, <1>3, <1>4, <1>5, <1>6 DEF VaultNext

(* A committed connection that was given credentials, and that nobody asked to  *)
(* delete, has them in the vault (create_connection, delete_connection,         *)
(* _with_token_retry): for any number of coroutines and connections, whatever   *)
(* expires, is refused, is lost, crashes or rolls back.                        *)
THEOREM RowHasCredentialsAlways == VaultSpec => []RowHasCredentials
<1>1. VaultInv => RowHasCredentials
  BY DEF VaultInv
<1> QED BY <1>1, VaultStart, VaultKept, PTL DEF VaultSpec

-----------------------------------------------------------------------------
(* Embedding.  What was billed and what has a vector are the texts up to where *)
(* the next batch starts.                                                     *)

Sent == IF start < Len(texts) THEN start ELSE Len(texts)

EmbeddingInv ==
  /\ texts \in Seq(Nat)
  /\ start \in Nat
  /\ outcome \in {"pending", "done", "raised"}
  /\ outcome = "pending" => start < Len(texts)
  /\ outcome = "done" => Len(texts) <= start
  /\ vectors = SubSeq(texts, 1, Sent)
  /\ billed = Sent

LEMMA BatchSent ==
  ASSUME EmbeddingInv, EmbedBatch
  PROVE  EmbeddingInv'
<1> DEFINE n == Len(texts)
           next == IF start + BatchSize < n THEN start + BatchSize ELSE n
<1>1. /\ texts \in Seq(Nat) /\ n \in Nat /\ start \in Nat /\ start < n
      /\ BatchSize \in Nat \ {0} /\ Sent = start
      /\ next \in Nat /\ start + 1 <= next /\ next <= n
      /\ texts' = texts /\ start' = start + BatchSize /\ start' \in Nat
  BY EmbeddingAssumption, LenProperties DEF EmbeddingInv, EmbedBatch, Sent
<1>2. Sent' = next
  BY <1>1 DEF Sent
<1>3. Batch = SubSeq(texts, start + 1, next)
  BY DEF Batch
<1> HIDE DEF next
<1>4. SubSeq(texts, 1, start) \o Batch = SubSeq(texts, 1, next)
  <2>1. 1 \in 1..(n + 1) /\ start \in (1 - 1)..n /\ next \in start..n
    BY <1>1
  <2>2. texts \in Seq(Nat) /\ n = Len(texts)
    BY <1>1
  <2> HIDE DEF n
  <2>3. SubSeq(texts, 1, start) \o SubSeq(texts, start + 1, next) = SubSeq(texts, 1, next)
    BY <2>1, <2>2, ConcatAdjacentSubSeq
  <2> QED BY <1>3, <2>3
<1>5. Len(Batch) = next - start
  <2>1. \A i \in (start + 1)..next : texts[i] \in Nat
    BY <1>1, ElementOfSeq
  <2> QED BY <1>1, <1>3, <2>1, SubSeqProperties
<1>6. vectors' = SubSeq(texts, 1, next) /\ billed' = next
  BY <1>1, <1>4, <1>5 DEF EmbedBatch, EmbeddingInv
<1>7. /\ outcome' \in {"pending", "done", "raised"}
      /\ outcome' = "pending" => start' < n
      /\ outcome' = "done" => n <= start'
  BY <1>1 DEF EmbedBatch
<1> QED BY <1>1, <1>2, <1>6, <1>7 DEF EmbeddingInv

(* A run that ends well has one vector for each text, in the order of the      *)
(* texts, and bills each once (embed_batch): for any number of texts, any       *)
(* batch size and any failures in between.                                    *)
THEOREM VectorsAlignedAlways == EmbeddingSpec => []VectorsAligned
<1>1. EmbeddingInit => EmbeddingInv
  <2> SUFFICES ASSUME EmbeddingInit
               PROVE  EmbeddingInv
    OBVIOUS
  <2>1. PICK n \in 0..MaxTexts : texts = [i \in 1..n |-> i]
    BY DEF EmbeddingInit
  <2>2. texts \in [1..n -> Nat] /\ n \in Nat
    BY <2>1, EmbeddingAssumption
  <2>3. texts \in Seq(Nat)
    BY <2>2, SeqDef
  <2>4. start = 0 /\ Len(texts) \in Nat /\ Sent = 0
    BY <2>3, LenProperties DEF EmbeddingInit, Sent
  <2>5. SubSeq(texts, 1, 0) = <<>>
    BY SubSeqEmpty
  <2>6. texts # <<>> => Len(texts) # 0
    BY <2>3, EmptySeq
  <2>7. texts = <<>> => Len(texts) = 0
    BY EmptySeq
  <2> QED BY <2>3, <2>4, <2>5, <2>6, <2>7 DEF EmbeddingInit, EmbeddingInv
<1>2. EmbeddingInv /\ [EmbeddingNext]_embeddingVars => EmbeddingInv'
  <2> SUFFICES ASSUME EmbeddingInv, [EmbeddingNext]_embeddingVars
               PROVE  EmbeddingInv'
    OBVIOUS
  <2>1. CASE EmbedBatch
    BY <2>1, BatchSent
  <2>2. CASE UNCHANGED <<texts, start, vectors, billed>> /\ outcome' \in {outcome, "raised"}
    BY <2>2 DEF EmbeddingInv, Sent
  <2>3. ASSUME NEW retryable \in BOOLEAN, AttemptFails(retryable)
        PROVE  EmbeddingInv'
    BY <2>2, <2>3 DEF AttemptFails
  <2> QED BY <2>1, <2>2, <2>3 DEF EmbeddingNext, embeddingVars
<1>3. EmbeddingInv => VectorsAligned
  <2> SUFFICES ASSUME EmbeddingInv, outcome = "done"
               PROVE  vectors = texts /\ billed = Len(texts)
    BY DEF VectorsAligned
  <2>1. Sent = Len(texts) /\ texts \in Seq(Nat)
    BY LenProperties DEF EmbeddingInv, Sent
  <2>2. SubSeq(texts, 1, Len(texts)) = texts
    BY <2>1, SubSeqFull
  <2> QED BY <2>1, <2>2 DEF EmbeddingInv
<1> QED BY <1>1, <1>2, <1>3, PTL DEF EmbeddingSpec

-----------------------------------------------------------------------------
(* RateLimit.  Every admission that is recent enough to matter is remembered   *)
(* where it was admitted: by an entry of the sorted set, whose score may be     *)
(* older than the admission by the delay, or at an index of the deque.  So an   *)
(* admission that finds room in the counter finds room in its window.          *)

Counters == {Redis} \cup (Workers \X Nat)

RateType ==
  /\ time \in Nat
  /\ redis \subseteq [score : Nat, who : Signups] /\ IsFiniteSet(redis)
  /\ recent \in [Workers -> Seq(Nat)]
  /\ starts \in [Workers -> Nat]
  /\ signup = [s \in Signups |-> signup[s]]
  /\ \A s \in Signups : signup[s].pc = "eval" =>
       /\ signup[s].worker \in Workers
       /\ signup[s].stamp \in Nat
  /\ admitted \subseteq [by : Counters, at : Nat, who : Signups] /\ IsFiniteSet(admitted)

\* No request waits for Redis longer than the delay.
StampsFresh ==
  \A s \in Signups :
    signup[s].pc = "eval" => signup[s].stamp <= time /\ time <= signup[s].stamp + Delay

\* A request is admitted once, and by no life of a process that is yet to come.
AdmittedOnce ==
  /\ \A a \in admitted : signup[a.who].pc = "admitted" /\ a.at <= time
  /\ \A a \in admitted, b \in admitted : a.who = b.who => a = b
  /\ \A a \in admitted, w \in Workers, n \in Nat : a.by = <<w, n>> => n <= starts[w]

RedisRemembers ==
  \A a \in admitted : a.by = Redis /\ time + Delay < a.at + Window =>
    \E e \in redis : e.who = a.who /\ a.at <= e.score + Delay

\* What the present life of a process admitted no longer than a window ago.
Young(w) == {a \in admitted : a.by = <<w, starts[w]>> /\ time <= a.at + Window}

\* Where the deque of a process has its admissions.
Index(w, f) == /\ f \in Injection(Young(w), 1..Len(recent[w]))
               /\ \A a \in Young(w) : recent[w][f[a]] = a.at

DequeRemembers == \A w \in Workers : \E f : Index(w, f)

\* The admissions a window that begins at t sees.
Seen(by, t) ==
  {a \in admitted :
     /\ a.by = by /\ t <= a.at
     /\ IF by = Redis THEN a.at + Delay < t + Window ELSE a.at <= t + Window}

WindowsBounded == \A by \in Counters, t \in Nat : Cardinality(Seen(by, t)) <= MaxPosts

RateInv ==
  /\ RateType
  /\ StampsFresh
  /\ AdmittedOnce
  /\ RedisRemembers
  /\ DequeRemembers
  /\ WindowsBounded

-----------------------------------------------------------------------------
LEMMA LeastOfNaturals ==
  ASSUME NEW S \in SUBSET Nat, S # {}
  PROVE  Min(S) \in S /\ \A x \in S : Min(S) <= x
<1>1. PICK x \in S : \A y \in S : ~(<<y, x>> \in OpToRel(<, Nat))
  BY NatLessThanWellFounded, WFMin
<1>2. ASSUME NEW y \in S, y < x
      PROVE  FALSE
  <2>1. <<y, x>> \in Nat \X Nat /\ <<y, x>>[1] < <<y, x>>[2]
    BY <1>2
  <2>2. <<y, x>> \in OpToRel(<, Nat)
    BY <2>1 DEF OpToRel
  <2> QED BY <1>1, <2>2
<1>3. \A y \in S : x <= y
  BY <1>2
<1> QED BY <1>3 DEF Min

\* An admission added to those a counter remembers, if there is room for it.
LEMMA RoomForOne ==
  ASSUME IsFiniteSet(admitted), WindowsBounded, MaxPosts \in Nat,
         NEW counter \in Counters, NEW new, new.by = counter,
         admitted' = admitted \cup {new},
         \A t \in Nat : t <= new.at /\ (IF counter = Redis THEN new.at + Delay < t + Window
                                                          ELSE new.at <= t + Window)
           => Cardinality(Seen(counter, t)) < MaxPosts
  PROVE  WindowsBounded'
<1> SUFFICES ASSUME NEW by \in Counters, NEW t \in Nat
             PROVE  Cardinality(Seen(by, t)') <= MaxPosts
  BY DEF WindowsBounded
<1>1. IsFiniteSet(Seen(by, t)) /\ Cardinality(Seen(by, t)) \in Nat
  BY FS_Subset, FS_CardinalityType DEF Seen
<1>2. CASE new \in Seen(by, t)'
  <2>1. by = counter /\ Seen(by, t)' = Seen(by, t) \cup {new}
    BY <1>2 DEF Seen
  <2>2. Cardinality(Seen(by, t)) < MaxPosts
    BY <1>2, <2>1 DEF Seen
  <2>3. Cardinality(Seen(by, t) \cup {new}) <= Cardinality(Seen(by, t)) + 1
    <3> DEFINE n == Cardinality(Seen(by, t))
    <3>1. Cardinality(Seen(by, t) \cup {new}) = IF new \in Seen(by, t) THEN n ELSE n + 1
      BY <1>1, FS_AddElement, Zenon
    <3> HIDE DEF n
    <3>2. n \in Nat
      BY <1>1 DEF n
    <3>3. Cardinality(Seen(by, t) \cup {new}) <= n + 1
      BY <3>1, <3>2
    <3> QED BY <3>3 DEF n
  <2>4. Cardinality(Seen(by, t) \cup {new}) \in Nat
    BY <1>1, FS_AddElement, FS_CardinalityType
  <2> QED BY <1>1, <2>1, <2>2, <2>3, <2>4
<1>3. CASE new \notin Seen(by, t)'
  <2>1. Seen(by, t)' = Seen(by, t)
    BY <1>3 DEF Seen
  <2> QED BY <2>1 DEF WindowsBounded
<1> QED BY <1>2, <1>3

\* The deque after the entries that are too old left it.
LEMMA Pruned ==
  ASSUME time \in Nat, NEW q \in Seq(Nat)
  PROVE  \E k \in 0..Len(q) :
           /\ Prune(q) \in Seq(Nat)
           /\ Len(Prune(q)) = Len(q) - k
           /\ \A i \in 1..(Len(q) - k) : Prune(q)[i] = q[i + k]
           /\ \A i \in 1..Len(q) : time - q[i] <= Window => k < i
<1> DEFINE young == {i \in 1..Len(q) : time - q[i] <= Window} \cup {Len(q) + 1}
           m == Min(young)
<1>1. Len(q) \in Nat /\ \A i \in 1..Len(q) : q[i] \in Nat
  BY LenProperties, ElementOfSeq
<1>2. young \in SUBSET Nat /\ young # {} /\ young \subseteq 1..(Len(q) + 1)
  BY <1>1
<1> HIDE DEF young
<1>3. m \in young /\ \A x \in young : m <= x
  BY <1>2, LeastOfNaturals
<1>4. m \in 1..(Len(q) + 1)
  BY <1>2, <1>3
<1>5. \A i \in 1..Len(q) : time - q[i] <= Window => m <= i
  BY <1>3 DEF young
<1>6. Prune(q) = SubSeq(q, m, Len(q))
  BY DEF Prune, young
<1> HIDE DEF m
<1>7. /\ SubSeq(q, m, Len(q)) \in Seq(Nat)
      /\ Len(SubSeq(q, m, Len(q))) = IF m <= Len(q) THEN Len(q) - m + 1 ELSE 0
      /\ \A i \in 1..(Len(q) - m + 1) : SubSeq(q, m, Len(q))[i] = q[m + i - 1]
  <2>1. m \in Int /\ Len(q) \in Int /\ \A i \in m..Len(q) : q[i] \in Nat
    BY <1>1, <1>4
  <2> QED BY <2>1, SubSeqProperties
<1>8. m - 1 \in 0..Len(q)
  BY <1>1, <1>4
<1>9. Len(Prune(q)) = Len(q) - (m - 1)
  BY <1>1, <1>4, <1>6, <1>7
<1>10. \A i \in 1..(Len(q) - (m - 1)) : Prune(q)[i] = q[i + (m - 1)]
  BY <1>1, <1>4, <1>6, <1>7
<1>11. \A i \in 1..Len(q) : time - q[i] <= Window => m - 1 < i
  BY <1>4, <1>5
<1> QED BY <1>6, <1>7, <1>8, <1>9, <1>10, <1>11

\* A script that runs with a clock reading no later than now removes no entry
\* that an admission depends on.
LEMMA ScriptRemembers ==
  ASSUME RateInv, NEW stamp \in Nat, stamp <= time,
         NEW a \in admitted, a.by = Redis, time + Delay < a.at + Window
  PROVE  \E e \in Remaining(stamp) : e.who = a.who /\ a.at <= e.score + Delay
<1>1. PICK e \in redis : e.who = a.who /\ a.at <= e.score + Delay
  BY DEF RateInv, RedisRemembers
<1>2. e.score \in Nat /\ a.at \in Nat /\ time \in Nat /\ Window \in Nat /\ Delay \in Nat
  BY RateAssumption DEF RateInv, RateType
<1>3. stamp < e.score + Window
  BY <1>1, <1>2
<1> QED BY <1>1, <1>3 DEF Remaining

LEMMA SetHasRoom ==
  ASSUME RateInv, NEW stamp \in Nat, stamp <= time, NEW t \in Nat, time + Delay < t + Window
  PROVE  Cardinality(Seen(Redis, t)) <= Cardinality(Remaining(stamp))
<1> DEFINE seen == Seen(Redis, t)
           kept == Remaining(stamp)
           f == [a \in seen |-> CHOOSE e \in kept : e.who = a.who]
<1>1. IsFiniteSet(kept)
  BY FS_Subset DEF Remaining, RateInv, RateType
<1>2. ASSUME NEW a \in seen
      PROVE  f[a] \in kept /\ f[a].who = a.who
  <2>1. /\ a \in admitted /\ a.by = Redis /\ t <= a.at /\ a.at \in Nat
        /\ time \in Nat /\ Window \in Nat /\ Delay \in Nat
    BY RateAssumption DEF Seen, RateInv, RateType
  <2>2. time + Delay < a.at + Window
    BY <2>1
  <2>3. \E e \in kept : e.who = a.who
    BY <2>1, <2>2, ScriptRemembers
  <2> QED BY <2>3
<1>3. \A a \in seen, b \in seen : a.who = b.who => a = b
  BY DEF Seen, RateInv, AdmittedOnce
<1>4. f \in Injection(seen, kept)
  <2>1. f \in [seen -> kept]
    BY <1>2
  <2>2. \A a \in seen, b \in seen : f[a] = f[b] => a = b
    <3> HIDE DEF f
    <3> QED BY <1>2, <1>3
  <2> HIDE DEF f
  <2> QED BY <2>1, <2>2 DEF Injection, IsInjective
<1> HIDE DEF f
<1> QED BY <1>1, <1>4, FS_Injection

\* A deque that holds what is young has room for what its window sees.
LEMMA DequeHasRoom ==
  ASSUME RateType, NEW w \in Workers, NEW n \in Nat, NEW f \in Injection(Young(w), 1..n),
         NEW t \in Nat, time <= t + Window
  PROVE  Cardinality(Seen(<<w, starts[w]>>, t)) <= n
<1> DEFINE life == <<w, starts[w]>>
<1>1. IsFiniteSet(1..n) /\ Cardinality(1..n) = n
  <2>1. Cardinality(1..n) = IF 1 > n THEN 0 ELSE n - 1 + 1
    BY FS_Interval
  <2> QED BY <2>1, FS_Interval
<1>2. IsFiniteSet(Young(w)) /\ Cardinality(Young(w)) <= n
  BY <1>1, FS_Injection
<1>3. Seen(life, t) \subseteq Young(w)
  <2> SUFFICES ASSUME NEW a \in Seen(life, t)
               PROVE  a \in Young(w)
    OBVIOUS
  <2>1. a \in admitted /\ a.by = life /\ t <= a.at /\ a.at \in Nat /\ time \in Nat /\ Window \in Nat
    BY RateAssumption DEF Seen, RateType
  <2>2. time <= a.at + Window
    BY <2>1
  <2> QED BY <2>1, <2>2 DEF Young
<1>4. Cardinality(Seen(life, t)) <= Cardinality(Young(w)) /\ IsFiniteSet(Seen(life, t))
  BY <1>2, <1>3, FS_Subset
<1>5. Cardinality(Seen(life, t)) \in Nat /\ Cardinality(Young(w)) \in Nat
  BY <1>2, <1>4, FS_CardinalityType
<1> QED BY <1>2, <1>4, <1>5

-----------------------------------------------------------------------------
\* The life of a process is not the sorted set.
LEMMA LivesDiffer ==
  ASSUME NEW w \in Workers, NEW n
  PROVE  <<w, n>> # Redis
BY RateAssumption DEF Redis

\* What does not touch a deque, its process or the admissions of it.
LEMMA DequeKept ==
  ASSUME RateInv, NEW w \in Workers, time' \in Nat, time <= time',
         recent'[w] = recent[w], starts'[w] = starts[w],
         \A a \in admitted' : a.by = <<w, starts[w]>> => a \in admitted
  PROVE  \E f : Index(w, f)'
<1>1. PICK f : Index(w, f)
  BY DEF RateInv, DequeRemembers
<1>2. Young(w)' \subseteq Young(w)
  <2> SUFFICES ASSUME NEW a \in Young(w)'
               PROVE  a \in Young(w)
    OBVIOUS
  <2>1. a \in admitted /\ a.by = <<w, starts[w]>> /\ time' <= a.at + Window
    BY DEF Young
  <2>2. a.at \in Nat /\ time \in Nat /\ Window \in Nat
    BY <2>1, RateAssumption DEF RateInv, RateType
  <2>3. time <= a.at + Window
    BY <2>1, <2>2
  <2> QED BY <2>1, <2>3 DEF Young
<1> DEFINE g == [a \in Young(w)' |-> f[a]]
<1>3. /\ f \in [Young(w) -> 1..Len(recent[w])]
      /\ \A a \in Young(w), b \in Young(w) : f[a] = f[b] => a = b
      /\ \A a \in Young(w) : recent[w][f[a]] = a.at
  BY <1>1 DEF Index, Injection, IsInjective
<1>4. \A a \in Young(w)' : g[a] = f[a] /\ a \in Young(w)
  BY <1>2
<1>5. g \in [Young(w)' -> 1..Len(recent'[w])]
  BY <1>3, <1>4
<1> HIDE DEF g
<1>6. g \in Injection(Young(w)', 1..Len(recent'[w]))
  BY <1>3, <1>4, <1>5 DEF Injection, IsInjective
<1>7. \A a \in Young(w)' : recent'[w][g[a]] = a.at
  BY <1>3, <1>4
<1> QED BY <1>6, <1>7 DEF Index

\* A request settles: it waits no more, and is admitted or not.
LEMMA RequestSettles ==
  ASSUME RateInv, NEW s \in Signups, signup[s].pc = "eval",
         NEW verdict \in {"admitted", "refused"}, NEW by \in Counters,
         Settle(s, verdict, by), UNCHANGED <<time, starts>>,
         by = Redis \/ \E w \in Workers : by = <<w, starts[w]>>
  PROVE  /\ signup' = [q \in Signups |-> signup'[q]]
         /\ \A q \in Signups : signup'[q].pc = "eval" => q # s /\ signup'[q] = signup[q]
         /\ StampsFresh'
         /\ AdmittedOnce'
         /\ admitted' \subseteq [by : Counters, at : Nat, who : Signups]
         /\ IsFiniteSet(admitted')
         /\ verdict = "refused" => admitted' = admitted
         /\ verdict = "admitted" => admitted' = admitted \cup {[by |-> by, at |-> time, who |-> s]}
<1> DEFINE new == [by |-> by, at |-> time, who |-> s]
           r == [pc |-> verdict, by |-> by, at |-> time]
<1>1. /\ signup' = [signup EXCEPT ![s] = r]
      /\ verdict = "refused" => admitted' = admitted
      /\ verdict = "admitted" => admitted' = admitted \cup {new}
      /\ signup = [q \in Signups |-> signup[q]]
      /\ time \in Nat
      /\ IsFiniteSet(admitted)
  BY DEF Settle, RateInv, RateType
<1>2. r.pc = verdict /\ new.by = by /\ new.at = time /\ new.who = s
  OBVIOUS
<1> HIDE DEF r
<1>3. /\ signup' = [q \in Signups |-> IF q = s THEN r ELSE signup[q]]
      /\ signup'[s] = r
      /\ \A q \in Signups : q # s => signup'[q] = signup[q]
      /\ signup' = [q \in Signups |-> signup'[q]]
  BY <1>1
<1>4. \A q \in Signups : signup'[q].pc = "eval" => q # s /\ signup'[q] = signup[q]
  BY <1>2, <1>3
<1>5. StampsFresh'
  BY <1>4 DEF RateInv, StampsFresh
<1>6. new \in [by : Counters, at : Nat, who : Signups]
  BY <1>1
<1> HIDE DEF new
<1>7. admitted' \subseteq [by : Counters, at : Nat, who : Signups] /\ IsFiniteSet(admitted')
  <2>1. IsFiniteSet(admitted \cup {new})
    BY <1>1, FS_AddElement
  <2>2. admitted \subseteq [by : Counters, at : Nat, who : Signups]
    BY DEF RateInv, RateType
  <2> QED BY <1>1, <1>6, <2>1, <2>2
<1>8. \A a \in admitted' : a \in admitted \/ (a = new /\ verdict = "admitted")
  BY <1>1
<1>9. \A a \in admitted : a.who \in Signups /\ a.who # s /\ signup[a.who].pc = "admitted" /\ a.at <= time
  BY DEF RateInv, RateType, AdmittedOnce
<1>10. AdmittedOnce'
  <2>1. \A a \in admitted' : signup'[a.who].pc = "admitted" /\ a.at <= time'
    BY <1>1, <1>2, <1>3, <1>8, <1>9
  <2>2. \A a \in admitted', b \in admitted' : a.who = b.who => a = b
    BY <1>2, <1>8, <1>9 DEF RateInv, AdmittedOnce
  <2>3. ASSUME NEW a \in admitted', NEW w \in Workers, NEW n \in Nat, a.by = <<w, n>>
        PROVE  n <= starts'[w]
    <3>1. CASE a \in admitted
      BY <2>3, <3>1 DEF RateInv, AdmittedOnce
    <3>2. CASE a = new
      <4>1. PICK v \in Workers : <<w, n>> = <<v, starts[v]>>
        BY <1>2, <2>3, <3>2, LivesDiffer
      <4>2. w = v /\ n = starts[v]
        BY <4>1
      <4> QED BY <2>3, <4>2
    <3> QED BY <1>8, <3>1, <3>2
  <2> QED BY <2>1, <2>2, <2>3 DEF AdmittedOnce
<1> QED BY <1>1, <1>3, <1>4, <1>5, <1>7, <1>10 DEF new

LEMMA EvalStep ==
  ASSUME RateInv, NEW s \in Signups, Eval(s)
  PROVE  RateInv'
<1> DEFINE stamp == signup[s].stamp
           kept == Remaining(stamp)
           entry == [score |-> stamp, who |-> s]
           new == [by |-> Redis, at |-> time, who |-> s]
           full == Cardinality(kept) >= MaxPosts
<1>1. /\ signup[s].pc = "eval" /\ stamp \in Nat /\ stamp <= time /\ time <= stamp + Delay
      /\ UNCHANGED <<time, recent, starts>>
      /\ time \in Nat /\ MaxPosts \in Nat
      /\ kept \subseteq redis /\ IsFiniteSet(redis)
      /\ redis \subseteq [score : Nat, who : Signups]
  BY RateAssumption DEF Eval, RateInv, RateType, StampsFresh, Remaining
<1>2. IsFiniteSet(kept) /\ Cardinality(kept) \in Nat
  BY <1>1, FS_Subset, FS_CardinalityType
<1>3. PICK verdict \in {"admitted", "refused"} :
        /\ Settle(s, verdict, Redis)
        /\ verdict = "refused" => redis' = kept
        /\ verdict = "admitted" => Cardinality(kept) < MaxPosts /\ redis' = kept \cup {entry}
  <2>1. CASE full
    BY <2>1 DEF Eval
  <2>2. CASE ~full
    <3>1. Settle(s, "admitted", Redis) /\ redis' = kept \cup {entry}
      BY <2>2 DEF Eval
    <3>2. Cardinality(kept) < MaxPosts
      BY <1>1, <1>2, <2>2
    <3> QED BY <3>1, <3>2
  <2> QED BY <2>1, <2>2
<1>4. Redis \in Counters
  BY DEF Counters
<1>5. /\ signup' = [q \in Signups |-> signup'[q]]
      /\ \A q \in Signups : signup'[q].pc = "eval" => q # s /\ signup'[q] = signup[q]
      /\ StampsFresh' /\ AdmittedOnce'
      /\ admitted' \subseteq [by : Counters, at : Nat, who : Signups]
      /\ IsFiniteSet(admitted')
      /\ verdict = "refused" => admitted' = admitted
      /\ verdict = "admitted" => admitted' = admitted \cup {new}
  BY <1>1, <1>3, <1>4, RequestSettles
<1>6. entry \in [score : Nat, who : Signups] /\ entry.who = s /\ entry.score = stamp
      /\ new.by = Redis /\ new.at = time /\ new.who = s
  BY <1>1
<1> HIDE DEF entry, new
<1>7. redis' \subseteq [score : Nat, who : Signups] /\ IsFiniteSet(redis')
  <2>1. IsFiniteSet(kept \cup {entry})
    BY <1>2, FS_AddElement
  <2> QED BY <1>1, <1>2, <1>3, <1>6, <2>1
<1>8. RateType'
  BY <1>1, <1>5, <1>7 DEF RateInv, RateType
<1>9. RedisRemembers'
  <2> SUFFICES ASSUME NEW a \in admitted', a.by = Redis, time + Delay < a.at + Window
               PROVE  \E e \in redis' : e.who = a.who /\ a.at <= e.score + Delay
    BY <1>1 DEF RedisRemembers
  <2>1. CASE a \in admitted
    <3>1. PICK e \in kept : e.who = a.who /\ a.at <= e.score + Delay
      BY <1>1, <2>1, ScriptRemembers
    <3> QED BY <1>3, <3>1
  <2>2. CASE a \notin admitted
    <3>1. a = new /\ verdict = "admitted"
      BY <1>5, <2>2
    <3> QED BY <1>1, <1>3, <1>6, <3>1
  <2> QED BY <2>1, <2>2
<1>10. DequeRemembers'
  <2> SUFFICES ASSUME NEW w \in Workers
               PROVE  \E f : Index(w, f)'
    BY DEF DequeRemembers
  <2>1. \A a \in admitted' : a.by = <<w, starts[w]>> => a \in admitted
    BY <1>5, <1>6, LivesDiffer
  <2>2. time' \in Nat /\ time <= time'
    BY <1>1
  <2> QED BY <1>1, <2>1, <2>2, DequeKept
<1>11. WindowsBounded'
  <2>1. CASE verdict = "refused"
    BY <1>5, <2>1 DEF RateInv, WindowsBounded, Seen
  <2>2. CASE verdict = "admitted"
    <3>1. ASSUME NEW t \in Nat, t <= new.at, new.at + Delay < t + Window
          PROVE  Cardinality(Seen(Redis, t)) < MaxPosts
      <4>1. Cardinality(Seen(Redis, t)) <= Cardinality(kept)
        BY <1>1, <1>6, <3>1, SetHasRoom
      <4>2. Cardinality(Seen(Redis, t)) \in Nat
        BY FS_Subset, FS_CardinalityType DEF Seen, RateInv, RateType
      <4> QED BY <1>1, <1>2, <1>3, <2>2, <4>1, <4>2
    <3>2. IsFiniteSet(admitted) /\ WindowsBounded
      BY DEF RateInv, RateType
    <3> QED BY <1>1, <1>4, <1>5, <1>6, <2>2, <3>1, <3>2, RoomForOne
  <2> QED BY <2>1, <2>2
<1> QED BY <1>5, <1>8, <1>9, <1>10, <1>11 DEF RateInv

\* The pruned deque still has all that is young.
LEMMA PrunedRemembers ==
  ASSUME RateInv, NEW w \in Workers
  PROVE  /\ Prune(recent[w]) \in Seq(Nat)
         /\ Len(Prune(recent[w])) \in Nat
         /\ \E g \in Injection(Young(w), 1..Len(Prune(recent[w]))) :
              \A a \in Young(w) : Prune(recent[w])[g[a]] = a.at
<1> DEFINE q == recent[w]
           kept == Prune(q)
<1>1. q \in Seq(Nat) /\ time \in Nat /\ Len(q) \in Nat /\ Window \in Nat
  BY RateAssumption, LenProperties DEF RateInv, RateType
<1>2. PICK k \in 0..Len(q) :
        /\ kept \in Seq(Nat)
        /\ Len(kept) = Len(q) - k
        /\ \A i \in 1..(Len(q) - k) : kept[i] = q[i + k]
        /\ \A i \in 1..Len(q) : time - q[i] <= Window => k < i
  BY <1>1, Pruned
<1>3. PICK f : Index(w, f)
  BY DEF RateInv, DequeRemembers
<1>4. /\ f \in [Young(w) -> 1..Len(q)]
      /\ \A a \in Young(w), b \in Young(w) : f[a] = f[b] => a = b
      /\ \A a \in Young(w) : q[f[a]] = a.at
  BY <1>3 DEF Index, Injection, IsInjective
<1> HIDE DEF kept, q
<1> DEFINE g == [a \in Young(w) |-> f[a] - k]
<1>5. ASSUME NEW a \in Young(w)
      PROVE  /\ f[a] \in 1..Len(q) /\ f[a] - k \in 1..(Len(q) - k)
             /\ kept[f[a] - k] = a.at
  <2>1. f[a] \in 1..Len(q) /\ q[f[a]] = a.at
    BY <1>4
  <2>2. a.at \in Nat /\ time <= a.at + Window
    BY DEF Young, RateInv, RateType
  <2>5. time - q[f[a]] <= Window
    BY <1>1, <2>1, <2>2
  <2>3. k < f[a]
    BY <1>2, <2>1, <2>5
  <2>4. f[a] - k \in 1..(Len(q) - k) /\ (f[a] - k) + k = f[a]
    BY <1>1, <2>1, <2>3
  <2> QED BY <1>2, <2>1, <2>4
<1>6. g \in [Young(w) -> 1..Len(kept)]
  BY <1>2, <1>5
<1>7. \A a \in Young(w), b \in Young(w) : g[a] = g[b] => a = b
  <2> SUFFICES ASSUME NEW a \in Young(w), NEW b \in Young(w), g[a] = g[b]
               PROVE  f[a] = f[b]
    BY <1>4
  <2>1. f[a] - k = f[b] - k
    OBVIOUS
  <2>2. f[a] \in 1..Len(q) /\ f[b] \in 1..Len(q)
    BY <1>5
  <2> QED BY <1>1, <2>1, <2>2
<1>8. \A a \in Young(w) : kept[g[a]] = a.at
  BY <1>5
<1> HIDE DEF g
<1>9. g \in Injection(Young(w), 1..Len(kept))
  BY <1>6, <1>7, Fun_IsInj
<1>10. Len(kept) \in Nat
  BY <1>2, LenProperties
<1> QED BY <1>2, <1>8, <1>9, <1>10 DEF kept, q

LEMMA FallbackStep ==
  ASSUME RateInv, NEW s \in Signups, Fallback(s)
  PROVE  RateInv'
<1>0. PICK w \in Workers : w = signup[s].worker
  BY DEF Fallback, RateInv, RateType
<1> DEFINE life == <<w, starts[w]>>
           kept == Prune(recent[w])
           new == [by |-> life, at |-> time, who |-> s]
           n == Len(kept)
<1>1. /\ signup[s].pc = "eval" /\ w \in Workers
      /\ UNCHANGED <<time, redis, starts>>
      /\ time \in Nat /\ MaxPosts \in Nat /\ Window \in Nat
      /\ recent \in [Workers -> Seq(Nat)]
      /\ life \in Counters
  BY <1>0, RateAssumption DEF Fallback, RateInv, RateType, Counters
<1>2. kept \in Seq(Nat) /\ n \in Nat
  BY <1>1, PrunedRemembers
<1>3. PICK g \in Injection(Young(w), 1..n) : \A a \in Young(w) : kept[g[a]] = a.at
  BY <1>1, PrunedRemembers
<1>4. PICK verdict \in {"admitted", "refused"} :
        /\ Settle(s, verdict, life)
        /\ verdict = "refused" => recent' = [recent EXCEPT ![w] = kept]
        /\ verdict = "admitted" => n < MaxPosts /\ recent' = [recent EXCEPT ![w] = Append(kept, time)]
  <2>1. CASE n >= MaxPosts
    BY <1>0, <2>1 DEF Fallback
  <2>2. CASE ~(n >= MaxPosts)
    <3>1. Settle(s, "admitted", life) /\ recent' = [recent EXCEPT ![w] = Append(kept, time)]
      BY <1>0, <2>2 DEF Fallback
    <3>2. n < MaxPosts
      BY <1>1, <1>2, <2>2
    <3> QED BY <3>1, <3>2
  <2> QED BY <2>1, <2>2
<1>5. /\ signup' = [q \in Signups |-> signup'[q]]
      /\ \A q \in Signups : signup'[q].pc = "eval" => q # s /\ signup'[q] = signup[q]
      /\ StampsFresh' /\ AdmittedOnce'
      /\ admitted' \subseteq [by : Counters, at : Nat, who : Signups]
      /\ IsFiniteSet(admitted')
      /\ verdict = "refused" => admitted' = admitted
      /\ verdict = "admitted" => admitted' = admitted \cup {new}
  BY <1>1, <1>4, RequestSettles
<1>6. new.by = life /\ new.at = time /\ new.who = s /\ life # Redis
  BY <1>1, LivesDiffer
<1>7. new \notin admitted
  BY <1>1, <1>6 DEF RateInv, AdmittedOnce
<1> HIDE DEF new, kept, n
<1>8. /\ Append(kept, time) \in Seq(Nat) /\ Len(Append(kept, time)) = n + 1
      /\ \A i \in 1..n : Append(kept, time)[i] = kept[i]
      /\ Append(kept, time)[n + 1] = time
  BY <1>1, <1>2, AppendProperties DEF n
<1>9. /\ recent' \in [Workers -> Seq(Nat)]
      /\ \A v \in Workers : v # w => recent'[v] = recent[v]
      /\ verdict = "refused" => recent'[w] = kept
      /\ verdict = "admitted" => recent'[w] = Append(kept, time)
  BY <1>1, <1>2, <1>4, <1>8
<1>10. RateType'
  BY <1>1, <1>5, <1>9 DEF RateInv, RateType
<1>11. RedisRemembers'
  BY <1>1, <1>5, <1>6 DEF RateInv, RedisRemembers
<1>12. \E f : Index(w, f)'
  <2>0. /\ g \in [Young(w) -> 1..n]
        /\ \A a \in Young(w), b \in Young(w) : g[a] = g[b] => a = b
        /\ \A a \in Young(w) : kept[g[a]] = a.at
    BY <1>3 DEF Injection, IsInjective
  <2>1. CASE verdict = "refused"
    <3>1. Young(w)' = Young(w) /\ recent'[w] = kept
      BY <1>1, <1>5, <1>9, <2>1 DEF Young
    <3> QED BY <1>3, <3>1 DEF Index, n
  <2>2. CASE verdict = "admitted"
    <3> DEFINE h == [a \in Young(w)' |-> IF a = new THEN n + 1 ELSE g[a]]
    <3>1. Young(w)' = Young(w) \cup {new} /\ new \notin Young(w)
      <4>1. time <= new.at + Window
        BY <1>1, <1>6
      <4> QED BY <1>1, <1>5, <1>6, <1>7, <2>2, <4>1 DEF Young
    <3>2. recent'[w] = Append(kept, time) /\ Len(recent'[w]) = n + 1
      BY <1>8, <1>9, <2>2
    <3>3. \A a \in Young(w) : h[a] = g[a] /\ g[a] \in 1..n /\ g[a] # n + 1 /\ g[a] \in 1..(n + 1)
      BY <1>2, <2>0, <3>1 DEF n
    <3>4. h[new] = n + 1 /\ n + 1 \in 1..(n + 1)
      BY <1>2, <3>1 DEF n
    <3>5. h \in [Young(w)' -> 1..(n + 1)]
      BY <3>1, <3>3, <3>4
    <3> HIDE DEF h
    <3>6. \A a \in Young(w)', b \in Young(w)' : h[a] = h[b] => a = b
      BY <2>0, <3>1, <3>3, <3>4
    <3>7. h \in Injection(Young(w)', 1..(n + 1))
      BY <3>5, <3>6, Fun_IsInj
    <3>8. \A a \in Young(w)' : recent'[w][h[a]] = a.at
      BY <1>6, <1>8, <2>0, <3>1, <3>2, <3>3, <3>4
    <3> QED BY <3>2, <3>7, <3>8 DEF Index
  <2> QED BY <2>1, <2>2
<1>13. DequeRemembers'
  <2> SUFFICES ASSUME NEW v \in Workers
               PROVE  \E f : Index(v, f)'
    BY DEF DequeRemembers
  <2>1. CASE v = w
    BY <1>12, <2>1
  <2>2. CASE v # w
    <3>1. \A a \in admitted' : a.by = <<v, starts[v]>> => a \in admitted
      BY <1>5, <1>6, <2>2
    <3>2. time' \in Nat /\ time <= time'
      BY <1>1
    <3> QED BY <1>1, <1>9, <2>2, <3>1, <3>2, DequeKept
  <2> QED BY <2>1, <2>2
<1>14. WindowsBounded'
  <2>1. CASE verdict = "refused"
    BY <1>5, <2>1 DEF RateInv, WindowsBounded, Seen
  <2>2. CASE verdict = "admitted"
    <3>1. ASSUME NEW t \in Nat, t <= new.at, new.at <= t + Window
          PROVE  Cardinality(Seen(life, t)) < MaxPosts
      <4>1. Cardinality(Seen(life, t)) <= n
        <5>1. RateType /\ time <= t + Window
          BY <1>6, <3>1 DEF RateInv
        <5> QED BY <1>1, <1>2, <1>3, <5>1, DequeHasRoom DEF n
      <4>2. Cardinality(Seen(life, t)) \in Nat
        BY FS_Subset, FS_CardinalityType DEF Seen, RateInv, RateType
      <4> QED BY <1>1, <1>2, <1>4, <2>2, <4>1, <4>2 DEF n
    <3>2. IsFiniteSet(admitted) /\ WindowsBounded
      BY DEF RateInv, RateType
    <3> HIDE DEF life
    <3> QED BY <1>1, <1>5, <1>6, <2>2, <3>1, <3>2, RoomForOne
  <2> QED BY <2>1, <2>2
<1> QED BY <1>5, <1>10, <1>11, <1>13, <1>14 DEF RateInv

LEMMA QuietStep ==
  ASSUME RateInv, time' \in Nat, time <= time',
         UNCHANGED <<redis, recent, starts, signup, admitted>>, StampsFresh'
  PROVE  RateInv'
<1>1. RateType' /\ AdmittedOnce' /\ WindowsBounded'
  <2>1. RateType'
    BY DEF RateInv, RateType
  <2>2. \A a \in admitted : a.at \in Nat /\ a.at <= time'
    BY DEF RateInv, RateType, AdmittedOnce
  <2>3. AdmittedOnce'
    BY <2>2 DEF RateInv, AdmittedOnce
  <2> QED BY <2>1, <2>3 DEF RateInv, WindowsBounded, Seen
<1>2. RedisRemembers'
  <2> SUFFICES ASSUME NEW a \in admitted, a.by = Redis, time' + Delay < a.at + Window
               PROVE  \E e \in redis : e.who = a.who /\ a.at <= e.score + Delay
    BY DEF RedisRemembers
  <2>1. a.at \in Nat /\ time \in Nat /\ Delay \in Nat /\ Window \in Nat
    BY RateAssumption DEF RateInv, RateType
  <2>2. time + Delay < a.at + Window
    BY <2>1
  <2> QED BY <2>2 DEF RateInv, RedisRemembers
<1>3. DequeRemembers'
  <2> SUFFICES ASSUME NEW w \in Workers
               PROVE  \E f : Index(w, f)'
    BY DEF DequeRemembers
  <2> QED BY DequeKept
<1> QED BY <1>1, <1>2, <1>3 DEF RateInv

LEMMA BeginSignupStep ==
  ASSUME RateInv, NEW s \in Signups, NEW w \in Workers, BeginSignup(s, w)
  PROVE  RateInv'
<1> DEFINE r == [pc |-> "eval", worker |-> w, stamp |-> time]
<1>1. /\ signup[s].pc = "new" /\ time \in Nat /\ Delay \in Nat
      /\ signup' = [signup EXCEPT ![s] = r]
      /\ signup = [q \in Signups |-> signup[q]]
      /\ UNCHANGED <<time, redis, recent, starts, admitted>>
  BY RateAssumption DEF BeginSignup, RateInv, RateType
<1>2. r.pc = "eval" /\ r.worker = w /\ r.stamp = time
  OBVIOUS
<1> HIDE DEF r
<1>3. /\ signup' = [q \in Signups |-> IF q = s THEN r ELSE signup[q]]
      /\ signup'[s] = r
      /\ \A q \in Signups : q # s => signup'[q] = signup[q]
      /\ signup' = [q \in Signups |-> signup'[q]]
  BY <1>1
<1>4. RateType'
  BY <1>1, <1>2, <1>3 DEF RateInv, RateType
<1>5. StampsFresh'
  BY <1>1, <1>2, <1>3 DEF RateInv, StampsFresh
<1>6. AdmittedOnce'
  <2>1. \A a \in admitted : a.who \in Signups /\ a.who # s
    BY <1>1 DEF RateInv, RateType, AdmittedOnce
  <2> QED BY <1>1, <1>3, <2>1 DEF RateInv, AdmittedOnce
<1>7. RedisRemembers' /\ WindowsBounded'
  BY <1>1 DEF RateInv, RedisRemembers, WindowsBounded, Seen
<1>8. DequeRemembers'
  <2> SUFFICES ASSUME NEW v \in Workers
               PROVE  \E f : Index(v, f)'
    BY DEF DequeRemembers
  <2>1. time' \in Nat /\ time <= time'
    BY <1>1
  <2> QED BY <1>1, <2>1, DequeKept
<1> QED BY <1>4, <1>5, <1>6, <1>7, <1>8 DEF RateInv

\* A process that starts anew has admitted nothing yet.
LEMMA RestartStep ==
  ASSUME RateInv, NEW w \in Workers, RestartWorker(w)
  PROVE  RateInv'
<1>1. /\ starts' = [starts EXCEPT ![w] = starts[w] + 1]
      /\ recent' = [recent EXCEPT ![w] = <<>>]
      /\ signup' = [s \in Signups |-> IF signup[s].pc = "eval" /\ signup[s].worker = w
                                      THEN [pc |-> "lost"] ELSE signup[s]]
      /\ UNCHANGED <<time, redis, admitted>>
      /\ starts \in [Workers -> Nat] /\ recent \in [Workers -> Seq(Nat)] /\ time \in Nat
  BY DEF RestartWorker, RateInv, RateType
<1>2. /\ starts' \in [Workers -> Nat] /\ starts'[w] = starts[w] + 1
      /\ \A v \in Workers : v # w => starts'[v] = starts[v]
  BY <1>1
<1>3. /\ recent' \in [Workers -> Seq(Nat)] /\ recent'[w] = <<>>
      /\ \A v \in Workers : v # w => recent'[v] = recent[v]
  BY <1>1, EmptySeq
<1>4. /\ signup' = [s \in Signups |-> signup'[s]]
      /\ \A s \in Signups : \/ signup'[s] = signup[s]
                            \/ signup[s].pc = "eval" /\ signup'[s].pc = "lost"
  BY <1>1
<1>5. \A s \in Signups : signup'[s].pc = "eval" => signup'[s] = signup[s]
  BY <1>4
<1>6. RateType' /\ StampsFresh'
  BY <1>1, <1>2, <1>3, <1>4, <1>5 DEF RateInv, RateType, StampsFresh
<1>7. AdmittedOnce'
  <2>1. \A a \in admitted : signup'[a.who].pc = "admitted"
    BY <1>4 DEF RateInv, RateType, AdmittedOnce
  <2>2. ASSUME NEW a \in admitted, NEW v \in Workers, NEW n \in Nat, a.by = <<v, n>>
        PROVE  n <= starts'[v]
    <3>1. n <= starts[v]
      BY <2>2 DEF RateInv, AdmittedOnce
    <3>2. starts[v] \in Nat /\ starts'[v] \in {starts[v], starts[v] + 1}
      BY <1>1, <1>2
    <3> QED BY <3>1, <3>2
  <2> QED BY <1>1, <2>1, <2>2 DEF RateInv, AdmittedOnce
<1>8. RedisRemembers' /\ WindowsBounded'
  BY <1>1 DEF RateInv, RedisRemembers, WindowsBounded, Seen
<1>9. DequeRemembers'
  <2> SUFFICES ASSUME NEW v \in Workers
               PROVE  \E f : Index(v, f)'
    BY DEF DequeRemembers
  <2>1. CASE v # w
    <3>1. time' \in Nat /\ time <= time'
      BY <1>1
    <3> QED BY <1>1, <1>2, <1>3, <2>1, <3>1, DequeKept
  <2>2. CASE v = w
    <3>1. Young(w)' = {}
      <4> SUFFICES ASSUME NEW a \in admitted, a.by = <<w, starts'[w]>>
                   PROVE  FALSE
        BY <1>1 DEF Young
      <4>1. starts[w] \in Nat /\ starts'[w] \in Nat /\ starts'[w] = starts[w] + 1
        BY <1>1, <1>2
      <4>2. starts'[w] <= starts[w]
        BY <4>1 DEF RateInv, AdmittedOnce
      <4> QED BY <4>1, <4>2
    <3> DEFINE f == [a \in {} |-> a]
    <3>2. f \in [Young(w)' -> 1..Len(recent'[w])] /\ DOMAIN f = {}
      BY <3>1
    <3>3. f \in Injection(Young(w)', 1..Len(recent'[w]))
      BY <3>2 DEF Injection, IsInjective
    <3> HIDE DEF f
    <3>4. Index(w, f)'
      BY <3>1, <3>3 DEF Index, f
    <3> QED BY <2>2, <3>4
  <2> QED BY <2>1, <2>2
<1> QED BY <1>6, <1>7, <1>8, <1>9 DEF RateInv

LEMMA RateStart == RateInit => RateInv
<1> SUFFICES ASSUME RateInit
             PROVE  RateInv
  OBVIOUS
<1>1. IsFiniteSet({}) /\ Cardinality({}) = 0
  BY FS_EmptySet
<1>2. \A s \in Signups : signup[s].pc = "new"
  BY DEF RateInit
<1>3. RateType
  <2>1. signup = [s \in Signups |-> signup[s]]
    BY DEF RateInit
  <2> QED BY <1>1, <1>2, <2>1, EmptySeq DEF RateInit, RateType
<1>4. StampsFresh /\ AdmittedOnce /\ RedisRemembers
  BY <1>2 DEF RateInit, StampsFresh, AdmittedOnce, RedisRemembers
<1>5. DequeRemembers
  <2> SUFFICES ASSUME NEW w \in Workers
               PROVE  \E f : Index(w, f)
    BY DEF DequeRemembers
  <2>1. Young(w) = {}
    BY DEF RateInit, Young
  <2> DEFINE f == [a \in {} |-> a]
  <2>2. f \in [{} -> 1..Len(recent[w])] /\ DOMAIN f = {}
    OBVIOUS
  <2>3. f \in Injection(Young(w), 1..Len(recent[w]))
    BY <2>1, <2>2 DEF Injection, IsInjective
  <2> HIDE DEF f
  <2> QED BY <2>1, <2>3 DEF Index
<1>6. WindowsBounded
  <2>1. \A by \in Counters, t \in Nat : Seen(by, t) = {}
    BY DEF RateInit, Seen
  <2> QED BY <1>1, <2>1, RateAssumption DEF WindowsBounded
<1> QED BY <1>3, <1>4, <1>5, <1>6 DEF RateInv

LEMMA RateKept == RateInv /\ [RateNext]_rateVars => RateInv'
<1> SUFFICES ASSUME RateInv, [RateNext]_rateVars
             PROVE  RateInv'
  OBVIOUS
<1>1. time \in Nat
  BY DEF RateInv, RateType
<1>2. CASE UNCHANGED <<time, redis, recent, starts, signup, admitted>>
  <2>1. StampsFresh' /\ time' \in Nat /\ time <= time'
    BY <1>1, <1>2 DEF RateInv, StampsFresh
  <2> QED BY <1>2, <2>1, QuietStep
<1>3. CASE RateTick
  <2>1. /\ time' = time + 1 /\ time' \in Nat /\ time <= time'
        /\ UNCHANGED <<redis, recent, starts, signup, admitted>>
    BY <1>1, <1>3 DEF RateTick
  <2>2. StampsFresh'
    <3> SUFFICES ASSUME NEW s \in Signups, signup[s].pc = "eval"
                 PROVE  signup[s].stamp <= time' /\ time' <= signup[s].stamp + Delay
      BY <2>1 DEF StampsFresh
    <3>1. signup[s].stamp \in Nat /\ signup[s].stamp <= time /\ Delay \in Nat
      BY RateAssumption DEF RateInv, RateType, StampsFresh
    <3>2. time < signup[s].stamp + Delay
      BY <1>3 DEF RateTick
    <3> QED BY <1>1, <2>1, <3>1, <3>2
  <2> QED BY <2>1, <2>2, QuietStep
<1>4. CASE Flip
  BY <1>2, <1>4 DEF Flip
<1>5. CASE UNCHANGED rateVars
  BY <1>2, <1>5 DEF rateVars
<1> QED
  BY <1>3, <1>4, <1>5, BeginSignupStep, EvalStep, FallbackStep, RestartStep DEF RateNext

(* The window slides (_RLUA, _prune): no span that fits in it sees more          *)
(* sign-ups admitted by Redis, less the delay of a clock reading, or by one       *)
(* life of a process than the limit: for any number of requests and processes,    *)
(* any window, limit and delay, and whenever Redis comes and goes.               *)
THEOREM SignupsBoundedAlways == RateSpec => []SignupsBounded
<1>1. RateInv => SignupsBounded
  <2> SUFFICES ASSUME RateInv, NEW t \in 0..EndOfTime, NEW by \in {a.by : a \in admitted}
               PROVE  Cardinality(Seen(by, t)) <= MaxPosts
    BY DEF SignupsBounded, Seen
  <2>1. t \in Nat /\ by \in Counters
    BY RateAssumption DEF RateInv, RateType
  <2> QED BY <2>1 DEF RateInv, WindowsBounded
<1> QED BY <1>1, RateStart, RateKept, PTL DEF RateSpec

-----------------------------------------------------------------------------
(* Search.  What both channels put first is listed with a smaller rank in      *)
(* each channel that lists the other, and scores more; the answer is in the     *)
(* order of the scores, and leaves out nothing that scores more than a hit.     *)

QueryType ==
  /\ query.semantic \in Rankings(Chunks)
  /\ query.keyword \in UNION {Rankings(S) : S \in SUBSET Chunks}

SearchInv == QueryType /\ FusionRespectsAgreement

Fraction == [num : Nat, den : Nat \ {0}]

\* An order of rows: no row twice.
Order(order) ==
  \E n \in Nat : order \in [1..n -> Chunks] /\ \A x, y \in 1..n : x # y => order[x] # order[y]

LEMMA TimesMonotone ==
  ASSUME NEW x \in Nat, NEW y \in Nat, NEW p \in Nat
  PROVE  /\ x * p \in Nat
         /\ x >= y => x * p >= y * p
         /\ x > y /\ p # 0 => x * p > y * p
<1>1. x * p \in Nat /\ y * p \in Nat
  OBVIOUS
<1>2. ASSUME x >= y
      PROVE  x * p >= y * p /\ (x > y /\ p # 0 => x * p > y * p)
  <2>1. PICK z \in Nat : x = y + z
    <3>1. x - y \in Nat /\ x = y + (x - y)
      BY <1>2
    <3> QED BY <3>1
  <2>2. x * p = y * p + z * p /\ z * p \in Nat
    BY <2>1
  <2>3. z # 0 /\ p # 0 => z * p > 0
    BY <2>1
  <2> QED BY <1>1, <2>1, <2>2, <2>3
<1> QED BY <1>1, <1>2

\* A sum is larger when one of its terms is and the other is no smaller.
LEMMA LargerSum ==
  ASSUME NEW a \in Fraction, NEW b \in Fraction, NEW c \in Fraction, NEW d \in Fraction,
         Exceeds(a, c), ~Exceeds(d, b)
  PROVE  /\ Exceeds(Plus(a, b), Plus(c, d))
         /\ Exceeds(Plus(b, a), Plus(d, c))
<1>1. PICK an \in Nat, ad \in Nat, bn \in Nat, bd \in Nat, cn \in Nat, cd \in Nat, dn \in Nat, dd \in Nat :
        /\ a.num = an /\ a.den = ad /\ b.num = bn /\ b.den = bd
        /\ c.num = cn /\ c.den = cd /\ d.num = dn /\ d.den = dd
        /\ ad # 0 /\ bd # 0 /\ cd # 0 /\ dd # 0
  BY DEF Fraction
<1>2. an * cd > cn * ad
  BY <1>1 DEF Exceeds
<1>3. bn * dd >= dn * bd
  <2>1. ~(dn * bd > bn * dd)
    BY <1>1 DEF Exceeds
  <2>2. dn * bd \in Nat /\ bn * dd \in Nat
    BY TimesMonotone
  <2> QED BY <2>1, <2>2
<1>4. /\ an * cd \in Nat /\ cn * ad \in Nat /\ bn * dd \in Nat /\ dn * bd \in Nat
      /\ bd * dd \in Nat /\ bd * dd # 0 /\ ad * cd \in Nat
  <2>1. bd * dd > 0 * dd
    BY <1>1, TimesMonotone
  <2> QED BY <2>1, TimesMonotone
<1>5. (an * cd) * (bd * dd) > (cn * ad) * (bd * dd)
  BY <1>2, <1>4, TimesMonotone
<1>6. (bn * dd) * (ad * cd) >= (dn * bd) * (ad * cd)
  BY <1>3, <1>4, TimesMonotone
<1>7. /\ (an * bd + bn * ad) * (cd * dd) = (an * cd) * (bd * dd) + (bn * dd) * (ad * cd)
      /\ (cn * dd + dn * cd) * (ad * bd) = (cn * ad) * (bd * dd) + (dn * bd) * (ad * cd)
      /\ (bn * ad + an * bd) * (dd * cd) = (an * cd) * (bd * dd) + (bn * dd) * (ad * cd)
      /\ (dn * cd + cn * dd) * (bd * ad) = (cn * ad) * (bd * dd) + (dn * bd) * (ad * cd)
  OBVIOUS
<1>8. (an * cd) * (bd * dd) + (bn * dd) * (ad * cd) > (cn * ad) * (bd * dd) + (dn * bd) * (ad * cd)
  <2>1. /\ (an * cd) * (bd * dd) \in Nat /\ (bn * dd) * (ad * cd) \in Nat
        /\ (cn * ad) * (bd * dd) \in Nat /\ (dn * bd) * (ad * cd) \in Nat
    BY <1>4, TimesMonotone
  <2> QED BY <1>5, <1>6, <2>1
<1> QED BY <1>1, <1>7, <1>8 DEF Exceeds, Plus

\* ROW_NUMBER grows at every visible row.
LEMMA RowNumberGrows ==
  ASSUME NEW order, Order(order), NEW i \in DOMAIN order, NEW j \in DOMAIN order
  PROVE  /\ RowNumber(order, i) \in Nat
         /\ i < j /\ order[j] \in Visible => RowNumber(order, i) < RowNumber(order, j)
<1> DEFINE rows(n) == {m \in 1..n : order[m] \in Visible}
<1>1. i \in Nat /\ j \in Nat
  BY DEF Order
<1>2. \A n \in Nat : IsFiniteSet(rows(n)) /\ Cardinality(rows(n)) \in Nat
  <2> TAKE n \in Nat
  <2>1. IsFiniteSet(1..n) /\ rows(n) \in SUBSET (1..n)
    BY FS_Interval
  <2> QED BY <2>1, FS_Subset, FS_CardinalityType
<1>3. ASSUME i < j, order[j] \in Visible
      PROVE  Cardinality(rows(i)) < Cardinality(rows(j))
  <2>1. rows(i) \in SUBSET rows(j) /\ j \in rows(j) /\ j \notin rows(i)
    BY <1>1, <1>3
  <2>2. /\ Cardinality(rows(i)) <= Cardinality(rows(j))
        /\ Cardinality(rows(j)) = Cardinality(rows(i)) => rows(j) = rows(i)
    BY <1>1, <1>2, <2>1, FS_Subset
  <2> HIDE DEF rows
  <2> QED BY <1>1, <1>2, <2>1, <2>2
<1> QED BY <1>1, <1>2, <1>3 DEF RowNumber

\* The term of a chunk that a channel lists is that of its row; of any other, 0.
LEMMA TermOfRow ==
  ASSUME NEW order, Order(order), NEW k
  PROVE  /\ Term(order, k) \in Fraction
         /\ Listed(order, k) = {} => Term(order, k) = [num |-> 0, den |-> 1]
         /\ \A i \in Listed(order, k) :
              Term(order, k) = [num |-> 1, den |-> RrfK + RowNumber(order, i)]
<1>1. \A i \in Listed(order, k), j \in Listed(order, k) : i = j
  BY DEF Listed, Channel, Order
<1>2. \A i \in Listed(order, k) : i \in DOMAIN order /\ RowNumber(order, i) \in Nat
  BY RowNumberGrows DEF Listed, Channel
<1>3. CASE Listed(order, k) = {}
  BY <1>3 DEF Term, Fraction
<1>4. CASE Listed(order, k) # {}
  <2> DEFINE i == CHOOSE i \in Listed(order, k) : TRUE
  <2>1. i \in Listed(order, k)
    BY <1>4
  <2>2. Term(order, k) = [num |-> 1, den |-> RrfK + RowNumber(order, i)]
    BY <1>4 DEF Term
  <2>3. RrfK \in Nat \ {0}
    BY SearchAssumption
  <2> HIDE DEF i
  <2> QED BY <1>1, <1>2, <1>4, <2>1, <2>2, <2>3 DEF Fraction
<1> QED BY <1>3, <1>4

\* A channel never gives more to what it puts second, and less when it lists it.
LEMMA FirstHasMore ==
  ASSUME NEW order, Order(order), NEW k \in Visible, NEW h, Before(order, k, h)
  PROVE  /\ ~Exceeds(Term(order, h), Term(order, k))
         /\ Listed(order, h) # {} =>
              Listed(order, k) # {} /\ Exceeds(Term(order, k), Term(order, h))
<1>1. Term(order, k) \in Fraction /\ Term(order, h) \in Fraction
  BY TermOfRow
<1>2. CASE Listed(order, h) = {}
  <2>1. Term(order, h) = [num |-> 0, den |-> 1]
    BY <1>2, TermOfRow
  <2>2. PICK n \in Nat, d \in Nat : Term(order, k).num = n /\ Term(order, k).den = d
    BY <1>1 DEF Fraction
  <2>3. ~(0 * d > n * 1)
    BY <2>2
  <2> QED BY <1>2, <2>1, <2>2, <2>3 DEF Exceeds
<1>3. CASE Listed(order, h) # {}
  <2>1. PICK j \in Listed(order, h) : TRUE
    BY <1>3
  <2>2. /\ j \in DOMAIN order /\ order[j] = h /\ h \in Visible
        /\ RowNumber(order, j) <= ChannelLimit
    BY <2>1 DEF Listed, Channel
  <2>3. PICK i \in DOMAIN order, m \in DOMAIN order : order[i] = k /\ order[m] = h /\ i < m
    BY <2>2 DEF Before
  <2>4. m = j
    BY <2>2, <2>3 DEF Order
  <2>5. /\ RowNumber(order, i) \in Nat /\ RowNumber(order, j) \in Nat
        /\ RowNumber(order, i) < RowNumber(order, j)
    BY <2>2, <2>3, <2>4, RowNumberGrows
  <2>6. i \in Listed(order, k)
    BY <2>2, <2>3, <2>5, SearchAssumption DEF Listed, Channel
  <2>7. /\ Term(order, k) = [num |-> 1, den |-> RrfK + RowNumber(order, i)]
        /\ Term(order, h) = [num |-> 1, den |-> RrfK + RowNumber(order, j)]
    BY <2>1, <2>6, TermOfRow
  <2>8. RrfK \in Nat
    BY SearchAssumption
  <2> QED BY <2>5, <2>6, <2>7, <2>8 DEF Exceeds
<1> QED BY <1>2, <1>3

LEMMA QueryOrders ==
  ASSUME QueryType
  PROVE  Order(query.semantic) /\ Order(query.keyword)
<1>1. \A S \in SUBSET Chunks : Cardinality(S) \in Nat
  BY SearchAssumption, FS_Subset, FS_CardinalityType
<1>2. \A S \in SUBSET Chunks : \A order \in Rankings(S) : Order(order)
  <2> TAKE S \in SUBSET Chunks
  <2> TAKE order \in Rankings(S)
  <2>1. order \in [1..Cardinality(S) -> Chunks] /\ DOMAIN order = 1..Cardinality(S)
    BY DEF Rankings
  <2>2. \A x, y \in 1..Cardinality(S) : x # y => order[x] # order[y]
    BY <2>1 DEF Rankings
  <2> QED BY <1>1, <2>1, <2>2 DEF Order
<1> QED BY <1>2 DEF QueryType

LEMMA AgreedExceeds ==
  ASSUME QueryType, NEW k \in Visible, NEW h \in Fused,
         Before(query.semantic, k, h), Before(query.keyword, k, h)
  PROVE  k \in Fused /\ Exceeds(Score(k), Score(h))
<1> DEFINE s == query.semantic
           w == query.keyword
<1>1. Order(s) /\ Order(w)
  BY QueryOrders
<1>2. /\ Term(s, k) \in Fraction /\ Term(s, h) \in Fraction
      /\ Term(w, k) \in Fraction /\ Term(w, h) \in Fraction
  BY <1>1, TermOfRow
<1>3. /\ ~Exceeds(Term(s, h), Term(s, k))
      /\ Listed(s, h) # {} => Listed(s, k) # {} /\ Exceeds(Term(s, k), Term(s, h))
  BY <1>1, FirstHasMore
<1>4. /\ ~Exceeds(Term(w, h), Term(w, k))
      /\ Listed(w, h) # {} => Listed(w, k) # {} /\ Exceeds(Term(w, k), Term(w, h))
  BY <1>1, FirstHasMore
<1>5. CASE Listed(s, h) # {}
  <2>1. Exceeds(Plus(Term(s, k), Term(w, k)), Plus(Term(s, h), Term(w, h)))
    BY <1>2, <1>3, <1>4, <1>5, LargerSum
  <2> QED BY <1>3, <1>5, <2>1 DEF Score, Fused
<1>6. CASE Listed(w, h) # {}
  <2>1. Exceeds(Plus(Term(s, k), Term(w, k)), Plus(Term(s, h), Term(w, h)))
    BY <1>2, <1>3, <1>4, <1>6, LargerSum
  <2> QED BY <1>4, <1>6, <2>1 DEF Score, Fused
<1> QED BY <1>5, <1>6 DEF Fused

LEMMA AnswerRespects ==
  ASSUME QueryType, NEW answer \in Answers, NEW j \in DOMAIN answer, NEW k \in Visible,
         Before(query.semantic, k, answer[j]), Before(query.keyword, k, answer[j])
  PROVE  \E i \in DOMAIN answer : i < j /\ answer[i] = k
<1> DEFINE score == [x \in Fused |-> Score(x)]
           h == answer[j]
<1>1. PICK T \in SUBSET Fused : answer \in Rankings(T)
  BY DEF Answers
<1>2. /\ \A x, y \in DOMAIN answer : x < y => ~Exceeds(score[answer[y]], score[answer[x]])
      /\ \A x \in DOMAIN answer, f \in Fused \ ToSet(answer) : ~Exceeds(score[f], score[answer[x]])
  BY DEF Answers
<1>3. h \in Fused /\ Cardinality(T) \in Nat /\ DOMAIN answer = 1..Cardinality(T)
  <2>1. IsFiniteSet(T)
    BY SearchAssumption, FS_Subset DEF Fused, Visible
  <2> QED BY <1>1, <2>1, FS_CardinalityType DEF Rankings
<1>4. k \in Fused /\ Exceeds(Score(k), Score(h))
  BY <1>3, AgreedExceeds
<1>5. Exceeds(score[k], score[h])
  BY <1>3, <1>4
<1>6. k \in ToSet(answer)
  BY <1>2, <1>4, <1>5
<1>7. PICK i \in DOMAIN answer : answer[i] = k
  BY <1>6 DEF ToSet
<1>8. i # j
  <2>1. Order(query.semantic) /\ Order(query.keyword)
    BY QueryOrders
  <2>2. h # k
    <3> SUFFICES ASSUME h = k PROVE FALSE
      OBVIOUS
    <3>1. Exceeds(Score(h), Score(h))
      BY <1>4
    <3>2. /\ ~Exceeds(Term(query.semantic, h), Term(query.semantic, h))
          /\ ~Exceeds(Term(query.keyword, h), Term(query.keyword, h))
      BY <2>1, FirstHasMore
    <3>3. /\ Listed(query.semantic, h) = {}
          /\ Listed(query.keyword, h) = {}
      BY <2>1, <3>2, FirstHasMore
    <3> QED BY <1>3, <3>3 DEF Fused
  <2> QED BY <1>7, <2>2
<1>9. i < j \/ j < i
  BY <1>3, <1>7, <1>8
<1>10. ~(j < i)
  BY <1>2, <1>5, <1>7
<1> QED BY <1>7, <1>9, <1>10

(* Fusion respects agreement (PgVectorSearch._search): an operation that both     *)
(* channels put before a hit is in the answer before that hit, for any rows,      *)
(* bindings, rankings, ties, limits and constant of the fusion.                   *)
THEOREM FusionRespectsAgreementAlways == SearchSpec => []FusionRespectsAgreement
<1>1. SearchInit => SearchInv
  <2> SUFFICES ASSUME SearchInit
               PROVE  SearchInv
    OBVIOUS
  <2>1. QueryType
    BY DEF SearchInit, QueryType
  <2>2. DOMAIN hits = {}
    BY DEF SearchInit
  <2> QED BY <2>1, <2>2 DEF SearchInv, FusionRespectsAgreement
<1>2. SearchInv /\ [SearchNext]_searchVars => SearchInv'
  <2> SUFFICES ASSUME SearchInv, [SearchNext]_searchVars
               PROVE  SearchInv'
    OBVIOUS
  <2>1. UNCHANGED query
    BY DEF SearchNext, Answer, searchVars
  <2>2. QueryType' /\ Visible' = Visible
    BY <2>1 DEF SearchInv, QueryType, Visible, Candidates
  <2>3. CASE UNCHANGED hits
    BY <2>1, <2>2, <2>3 DEF SearchInv, FusionRespectsAgreement
  <2>4. CASE hits' = <<>>
    BY <2>2, <2>4 DEF SearchInv, FusionRespectsAgreement
  <2>5. CASE hits' \in Answers
    <3>1. \A j \in DOMAIN hits' : \A k \in Visible :
            Before(query.semantic, k, hits'[j]) /\ Before(query.keyword, k, hits'[j])
              => \E i \in DOMAIN hits' : i < j /\ hits'[i] = k
      BY <2>5, AnswerRespects DEF SearchInv
    <3> QED BY <2>1, <2>2, <3>1 DEF SearchInv, FusionRespectsAgreement
  <2>6. UNCHANGED hits \/ hits' = <<>> \/ hits' \in Answers
    BY DEF SearchNext, Answer, searchVars
  <2> QED BY <2>2, <2>3, <2>4, <2>5, <2>6 DEF SearchInv
<1>3. SearchInv => FusionRespectsAgreement
  BY DEF SearchInv
<1> QED BY <1>1, <1>2, <1>3, PTL DEF SearchSpec

-----------------------------------------------------------------------------
(* Dispatch.  The document is loaded again for each execution, so what an id   *)
(* means is looked up again; an id that is declared once leads back to the      *)
(* operation the chunk was made from.                                          *)

\* What has been sent, if anything, was prepared for the document and the hit
\* of now: another document forgets the last execution.
DispatchInv ==
  /\ conn \in Settings
  /\ live \in Documents \cup Reissues
  /\ hit # None => Published(indexed) /\ hit \in Chunked(indexed)
  /\ hit = None => sent = NoSend
  /\ sent = NoSend \/ \E params \in CallParams : sent = Prepared(params)

\* Upconverting a Swagger document keeps its path items and their paths.
LEMMA UpconvertedPublished ==
  ASSUME NEW doc, Published(doc)
  PROVE  Published(UpconvertSwagger2(doc))
<1> DEFINE up == UpconvertSwagger2(doc)
<1>1. DOMAIN up = DOMAIN doc /\ DOMAIN up.items = DOMAIN doc.items
  BY DEF UpconvertSwagger2, Published
<1>2. \A i \in DOMAIN doc.items : /\ DOMAIN up.items[i] = DOMAIN doc.items[i]
                                  /\ up.items[i].path = doc.items[i].path
  BY DEF UpconvertSwagger2, Published
<1> QED BY <1>1, <1>2 DEF Published

\* What a connection is indexed from is a document with distinct paths.
LEMMA LoadedPublished ==
  ASSUME conn \in Settings, live \in Documents \cup Reissues,
         LoadSpec(conn, TRUE) # None
  PROVE  Published(LoadSpec(conn, TRUE))
<1>1. \A doc : Published(doc) /\ Parse(doc) # None => Published(Parse(doc))
  BY UpconvertedPublished DEF Parse
<1>2. Published(live)
  BY DispatchAssumption
<1>3. conn.upload # None => Published(conn.upload)
  BY DispatchAssumption
<1> QED BY <1>1, <1>2, <1>3 DEF LoadSpec, FetchForConnection

\* An operation that was indexed and whose id is declared once is the one the
\* id finds.
LEMMA HitFound ==
  ASSUME NEW doc, NEW chunk \in Chunked(doc), Unambiguous(doc, chunk.id)
  PROVE  \E at \in Where(doc) : /\ FindOperation(doc, chunk.id) = EnrichSpec(doc)[at]
                                /\ chunk = ChunkOf(EnrichSpec(doc)[at])
<1>1. PICK at \in Where(doc) : chunk = ChunkOf(EnrichSpec(doc)[at])
  BY DEF Chunked
<1>2. EnrichSpec(doc)[at].id = chunk.id
  BY <1>1 DEF ChunkOf
<1> DEFINE found == {other \in Where(doc) : EnrichSpec(doc)[other].id = chunk.id}
<1>3. found = {at}
  BY <1>2 DEF Unambiguous
<1>4. FindOperation(doc, chunk.id) = EnrichSpec(doc)[at]
  <2>1. (CHOOSE x \in found : \A other \in found \ {x} : Precedes(x, other)) = at
    BY <1>3
  <2> QED BY <1>3, <2>1 DEF FindOperation
<1> QED BY <1>1, <1>4

\* All that the document asks of a request to the method and path of an
\* operation is among the operation's parameters: no other path item has the path.
LEMMA AskedOfOperation ==
  ASSUME NEW doc, Published(doc), NEW at \in Where(doc)
  PROVE  LET op == EnrichSpec(doc)[at]
         IN Asked(doc, op.method, op.path) \subseteq op.params
<1> DEFINE op == EnrichSpec(doc)[at]
           item == doc.items[at[1]]
           method == HttpMethods[at[2]]
<1>1. /\ at[1] \in DOMAIN doc.items
      /\ op = Enriched(item, method)
  BY DEF Where, EnrichSpec
<1>2. /\ op.method = method
      /\ op.path = item.path
      /\ op.params = item.params \cup item.ops[method].params
  <2> HIDE DEF item, method
  <2> QED BY <1>1 DEF Enriched
<1>3. \A j \in DOMAIN doc.items : doc.items[j].path = item.path => j = at[1]
  BY <1>1 DEF Published
<1> HIDE DEF item, method
<1>4. Asked(doc, method, item.path)
        \subseteq UNION {doc.items[i].params \cup doc.items[i].ops[method].params : i \in {at[1]}}
  BY <1>3 DEF Asked
<1>5. UNION {doc.items[i].params \cup doc.items[i].ops[method].params : i \in {at[1]}}
        = item.params \cup item.ops[method].params
  BY DEF item
<1> QED BY <1>2, <1>4, <1>5

\* What is merged last wins, and nothing is taken away.
LEMMA OverOf ==
  ASSUME NEW f, NEW g
  PROVE  /\ DOMAIN f \subseteq DOMAIN Over(f, g)
         /\ \A x \in DOMAIN g : Over(f, g)[x] = g[x]
BY DEF Over

\* Every strategy puts the credential wherever it puts something.
LEMMA AuthIsCredential ==
  ASSUME NEW c, c.flow \in Flows
  PROVE  /\ \A h \in DOMAIN AuthContext(c).headers : AuthContext(c).headers[h] = "credential"
         /\ \A q \in DOMAIN AuthContext(c).query : AuthContext(c).query[q] = "credential"
<1> DEFINE one(n) == [h \in {n} |-> "credential"]
<1>1. /\ NoAuth.headers = <<>> /\ NoAuth.query = <<>>
      /\ DOMAIN NoAuth = {"headers", "query", "basic"}
  BY DEF NoAuth
<1>2. \A x \in DOMAIN <<>> : FALSE
  OBVIOUS
<1>3. CASE c.flow = "none"
  BY <1>1, <1>2, <1>3 DEF AuthContext
<1>4. CASE c.flow = "api_key_header"
  <2>1. AuthContext(c) = [NoAuth EXCEPT !.headers = one(IF c.header = None THEN "X-API-Key" ELSE c.header)]
    BY <1>4 DEF AuthContext
  <2>2. /\ AuthContext(c).headers = one(IF c.header = None THEN "X-API-Key" ELSE c.header)
        /\ AuthContext(c).query = <<>>
    BY <1>1, <2>1
  <2> QED BY <1>2, <2>2
<1>5. CASE c.flow = "api_key_query"
  <2>1. AuthContext(c) = [NoAuth EXCEPT !.query = one("api_key")]
    BY <1>5 DEF AuthContext
  <2>2. AuthContext(c).query = one("api_key") /\ AuthContext(c).headers = <<>>
    BY <1>1, <2>1
  <2> QED BY <1>2, <2>2
<1>6. CASE c.flow \in {"bearer", "oauth_authcode", "oauth_clientcred"}
  <2>1. AuthContext(c) = [NoAuth EXCEPT !.headers = one("Authorization")]
    BY <1>6 DEF AuthContext
  <2>2. AuthContext(c).headers = one("Authorization") /\ AuthContext(c).query = <<>>
    BY <1>1, <2>1
  <2> QED BY <1>2, <2>2
<1>7. CASE c.flow = "basic"
  <2>1. AuthContext(c) = [NoAuth EXCEPT !.basic = TRUE]
    BY <1>7 DEF AuthContext
  <2>2. AuthContext(c).headers = <<>> /\ AuthContext(c).query = <<>>
    BY <1>1, <2>1
  <2> QED BY <1>2, <2>2
<1> QED BY <1>3, <1>4, <1>5, <1>6, <1>7 DEF Flows

\* A connector's own rewriting takes no query parameter away, and only Linear's
\* changes the method or the path.
LEMMA RequestKept ==
  ASSUME NEW key, NEW op, NEW params,
         NEW req, req = BeforeExecute(key, BuildRequest(op, params))
  PROVE  /\ DOMAIN req = {"method", "path", "headers", "query", "body"}
         /\ req.query = params.query
         /\ key # "linear" => req.method = op.method /\ req.path = SubstitutePath(op.path)
<1> DEFINE r == BuildRequest(op, params)
<1>1. /\ DOMAIN r = {"method", "path", "headers", "query", "body"}
      /\ r.method = op.method /\ r.path = SubstitutePath(op.path) /\ r.query = params.query
  BY DEF BuildRequest
<1> HIDE DEF r
<1> QED BY <1>1 DEF BeforeExecute, r

\* What an execution sends is what the search result said.
LEMMA PreparedDispatches ==
  ASSUME DispatchInv, hit # None,
         NEW params, sent = Prepared(params),
         sent.outcome = "sent", sent.doc = indexed, Unambiguous(indexed, hit.id)
  PROVE  LET r == sent.request  auth == AuthContext(conn) IN
         /\ conn.key # "linear" =>
              /\ r.method = hit.method
              /\ r.path = SubstitutePath(hit.path)
         /\ {p.name : p \in {q \in Asked(indexed, hit.method, hit.path) : q.loc = "query" /\ q.required}}
              \subseteq DOMAIN r.query
         /\ \A h \in DOMAIN auth.headers : r.headers[h] = "credential"
         /\ \A q \in DOMAIN auth.query : r.query[q] = "credential"
<1> DEFINE spec == LoadSpec(conn, FALSE)
           op == FindOperation(spec, hit.id)
           auth == AuthContext(conn)
           built == BuildRequest(op, params)
           req == BeforeExecute(ConnectorOf(conn), built)
           names(S) == {p.name : p \in {q \in S : q.loc = "query" /\ q.required}}
<1>1. /\ spec = indexed /\ Buildable(op, params)
      /\ sent.request = MergeAuth(req, auth)
  <2> DEFINE base == InferBaseUrl(conn, spec)
  <2>1. /\ ~(spec = None \/ base = None) /\ op # None /\ Buildable(op, params)
    BY DEF Prepared
  <2> HIDE DEF spec, op, base
  <2>2. sent = [outcome |-> "sent", doc |-> spec, base |-> base, basic |-> auth.basic,
                request |-> MergeAuth(req, auth)]
    BY <2>1 DEF Prepared, spec, op, base
  <2> QED BY <2>1, <2>2
<1>2. spec # None
  BY DEF Prepared
<1>3. Published(indexed) /\ hit \in Chunked(indexed)
  BY <1>1, <1>2 DEF DispatchInv
<1>4. PICK at \in Where(indexed) : op = EnrichSpec(indexed)[at] /\ hit = ChunkOf(EnrichSpec(indexed)[at])
  BY <1>1, <1>3, HitFound
<1>5. hit.method = op.method /\ hit.path = op.path
  BY <1>4 DEF ChunkOf
<1>6. Asked(indexed, op.method, op.path) \subseteq op.params
  <2>1. LET x == EnrichSpec(indexed)[at] IN Asked(indexed, x.method, x.path) \subseteq x.params
    BY <1>3, AskedOfOperation
  <2> HIDE DEF op
  <2> QED BY <1>4, <2>1
<1>7. RequiredNames(op, "query") \subseteq DOMAIN params.query
  BY <1>1 DEF Buildable
<1>8. names(Asked(indexed, hit.method, hit.path)) \subseteq DOMAIN params.query
  <2> HIDE DEF op
  <2> QED BY <1>5, <1>6, <1>7 DEF RequiredNames
<1>9. /\ DOMAIN req = {"method", "path", "headers", "query", "body"}
      /\ req.query = params.query
      /\ ConnectorOf(conn) # "linear" => req.method = op.method /\ req.path = SubstitutePath(op.path)
  <2>1. req = BeforeExecute(ConnectorOf(conn), BuildRequest(op, params))
    OBVIOUS
  <2> HIDE DEF req, op
  <2> QED BY <2>1, RequestKept
<1>10. conn.key # "linear" => ConnectorOf(conn) # "linear"
  BY DEF ConnectorOf
<1>11. /\ \A h \in DOMAIN auth.headers : auth.headers[h] = "credential"
       /\ \A q \in DOMAIN auth.query : auth.query[q] = "credential"
  BY AuthIsCredential, DispatchAssumption DEF DispatchInv
<1> HIDE DEF spec, op, auth, built, req, names
<1>12. LET r == MergeAuth(req, auth) IN
       /\ r.method = req.method /\ r.path = req.path
       /\ r.headers = Over(req.headers, auth.headers)
       /\ r.query = Over(req.query, auth.query)
  BY <1>9 DEF MergeAuth
<1>13. /\ DOMAIN params.query \subseteq DOMAIN sent.request.query
       /\ \A h \in DOMAIN auth.headers : sent.request.headers[h] = "credential"
       /\ \A q \in DOMAIN auth.query : sent.request.query[q] = "credential"
  BY <1>1, <1>9, <1>11, <1>12, OverOf
<1>14. conn.key # "linear" => /\ sent.request.method = hit.method
                              /\ sent.request.path = SubstitutePath(hit.path)
  BY <1>1, <1>5, <1>9, <1>10, <1>12
<1> QED BY <1>8, <1>13, <1>14 DEF names, auth

(* What is sent is what the search result said (enrich_spec, find_operation,     *)
(* build_request, _merge_auth): for any documents whose paths are distinct, any   *)
(* connection, caller's parameters and later versions of the document.            *)
THEOREM HitDispatchesAlways == DispatchSpec => []HitDispatches
<1>1. DispatchInit => DispatchInv
  BY DEF DispatchInit, DispatchInv
<1>2. DispatchInv /\ [DispatchNext]_dispatchVars => DispatchInv'
  <2> SUFFICES ASSUME DispatchInv, [DispatchNext]_dispatchVars
               PROVE  DispatchInv'
    OBVIOUS
  <2>1. CASE Reissue
    BY <2>1 DEF DispatchInv, Reissue
  <2>2. CASE IndexAndSearch
    <3>1. Published(indexed') /\ hit' \in Chunked(indexed')
      BY <2>2, LoadedPublished DEF DispatchInv, IndexAndSearch
    <3>2. sent' = NoSend
      BY <2>2 DEF DispatchInv, IndexAndSearch
    <3> QED BY <2>2, <3>1, <3>2 DEF DispatchInv, IndexAndSearch
  <2>3. ASSUME NEW params \in CallParams, Execute(params) PROVE DispatchInv'
    <3>1. UNCHANGED <<live, conn, indexed, hit>> /\ hit # None /\ sent' = Prepared(params)
      BY <2>3 DEF Execute
    <3>2. Prepared(params)' = Prepared(params)
      BY <3>1 DEF Prepared, LoadSpec, FetchForConnection
    <3>3. \E p \in CallParams : sent' = Prepared(p)'
      BY <3>1, <3>2
    <3> QED BY <3>1, <3>3 DEF DispatchInv
  <2>4. CASE UNCHANGED dispatchVars
    BY <2>4 DEF DispatchInv, dispatchVars, Prepared, LoadSpec, FetchForConnection
  <2> QED BY <2>1, <2>2, <2>3, <2>4 DEF DispatchNext
<1>3. DispatchInv => HitDispatches
  <2> SUFFICES ASSUME DispatchInv, sent.outcome = "sent" PROVE HitDispatches
    BY DEF HitDispatches
  <2>1. sent # NoSend
    BY DEF NoSend
  <2>2. PICK params \in CallParams : sent = Prepared(params)
    BY <2>1 DEF DispatchInv
  <2>3. hit # None
    BY <2>1 DEF DispatchInv
  <2> QED BY <2>2, <2>3, PreparedDispatches DEF HitDispatches
<1> QED BY <1>1, <1>2, <1>3, PTL DEF DispatchSpec

=============================================================================
