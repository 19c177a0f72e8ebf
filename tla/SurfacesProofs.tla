---------------------------- MODULE SurfacesProofs ----------------------------
(***************************************************************************)
(* Proofs about three surfaces of the program: the web console behind its    *)
(* CSRF middleware, the artifacts of the document skills, and the comments    *)
(* the docx skill writes into a package.                                     *)
(***************************************************************************)
EXTENDS Console, Artifacts, Comments, FiniteSetTheorems, SequenceTheorems,
        WellFoundedInduction, TLAPS

-----------------------------------------------------------------------------
(* Console.  Every response sets both cookies of a session, removes both, or   *)
(* leaves both alone, so the jar never holds the session of one response and   *)
(* the CSRF token of another, in whatever order the responses arrive.          *)

Sids == Tokens \cup {None}
States == Attempts \cup {None}
Pages == {"closed", "signed_out", "error", "in", "anonymous", "keycloak"}

Responses == [sid : Sids \cup {"keep"}, csrf : Sids \cup {"keep"}, state : States \cup {"keep"},
              page : Pages, token : Sids \cup {"keep"}]

Paired(r) == r.sid = r.csrf

Tab == [page : Pages, token : Sids, attempt : States, scope : Workspaces \cup {None},
        resp : {None} \cup {r \in Responses : Paired(r)}]

ConsoleInv ==
  /\ jar \in [sid : Sids, csrf : Sids, state : States] /\ Paired(jar)
  /\ tab \in [Tabs -> Tab]
  /\ DOMAIN login = Tokens

\* A response on its way, for a request of a tab.
LEMMA Replied ==
  ASSUME ConsoleInv, NEW t \in Tabs, NEW r \in Responses, Paired(r), Reply(t, r),
         UNCHANGED jar, DOMAIN login' = Tokens
  PROVE  ConsoleInv'
<1>1. tab' \in [Tabs -> Tab]
  <2> DEFINE d == [tab[t] EXCEPT !.resp = r]
  <2>1. tab[t] \in Tab /\ tab \in [Tabs -> Tab]
    BY DEF ConsoleInv
  <2>2. d \in Tab
    BY <2>1 DEF Tab
  <2>3. tab' = [tab EXCEPT ![t] = d]
    BY <2>1 DEF Reply
  <2> HIDE DEF d
  <2> QED BY <2>1, <2>2, <2>3
<1> QED BY <1>1 DEF ConsoleInv, Paired

LEMMA SomeResponse ==
  ASSUME NEW sid \in Sids \cup {"keep"}, NEW state \in States \cup {"keep"},
         NEW page \in Pages, NEW token \in Sids \cup {"keep"}
  PROVE  Response(sid, sid, state, page, token) \in Responses
         /\ Paired(Response(sid, sid, state, page, token))
BY DEF Response, Responses, Paired

LEMMA ReceiveStep ==
  ASSUME ConsoleInv, NEW t \in Tabs, Receive(t)
  PROVE  ConsoleInv'
<1> DEFINE r == tab[t].resp
           kept(name) == IF r[name] = "keep" THEN jar[name] ELSE r[name]
           token == IF r.token = "keep" THEN tab[t].token ELSE r.token
           d == [tab[t] EXCEPT !.page = r.page, !.resp = None, !.token = token]
<1>1. /\ tab[t] \in Tab /\ tab \in [Tabs -> Tab]
      /\ jar \in [sid : Sids, csrf : Sids, state : States] /\ jar.sid = jar.csrf
  BY DEF ConsoleInv, Paired
<1>2. r \in Responses /\ r.sid = r.csrf
  BY <1>1 DEF Receive, Tab, Paired
<1>3. /\ jar' = [sid |-> kept("sid"), csrf |-> kept("csrf"), state |-> kept("state")]
      /\ tab' = [tab EXCEPT ![t] = d] /\ login' = login
  BY DEF Receive
<1>4. d \in Tab
  <2>1. r.page \in Pages /\ token \in Sids
    BY <1>1, <1>2 DEF Responses, Tab
  <2> HIDE DEF token, r
  <2> QED BY <1>1, <2>1 DEF Tab
<1>5. kept("sid") \in Sids /\ kept("sid") = kept("csrf") /\ kept("state") \in States
  BY <1>1, <1>2 DEF Responses
<1> HIDE DEF d, kept
<1>6. tab' \in [Tabs -> Tab]
  BY <1>1, <1>3, <1>4
<1> QED BY <1>3, <1>5, <1>6 DEF ConsoleInv, Paired

LEMMA ConsoleKept == ConsoleInv /\ [ConsoleNext]_consoleVars => ConsoleInv'
<1> SUFFICES ASSUME ConsoleInv, [ConsoleNext]_consoleVars
             PROVE  ConsoleInv'
  OBVIOUS
<1> USE SomeResponse DEF Sids, States, Pages
<1>1. CASE UNCHANGED consoleVars
  BY <1>1 DEF consoleVars, ConsoleInv, Paired
<1>2. CASE ExpireState
  BY <1>2 DEF ExpireState, ConsoleInv, Paired
<1>3. ASSUME NEW s \in Tokens, SessionEnds(s)
      PROVE  ConsoleInv'
  BY <1>3 DEF SessionEnds, ConsoleInv, Paired
<1>4. ASSUME NEW t \in Tabs, Me(t)
      PROVE  ConsoleInv'
  <2>1. jar.sid \in Sids /\ DOMAIN login = Tokens
    BY DEF ConsoleInv
  <2>2. Reply(t, Response("keep", "keep", "keep", "in", jar.sid))
          \/ Reply(t, Response("keep", "keep", "keep", "anonymous", None))
    BY <1>4 DEF Me
  <2> QED BY <1>4, <2>1, <2>2, Replied DEF Me
<1>5. ASSUME NEW t \in Tabs, NEW a \in Attempts, Login(t, a)
      PROVE  ConsoleInv'
  <2> DEFINE r == Response("keep", "keep", a, "keycloak", None)
             d == [tab[t] EXCEPT !.attempt = a, !.resp = r]
  <2>1. r \in Responses /\ Paired(r)
    OBVIOUS
  <2>2. tab' = [tab EXCEPT ![t] = d] /\ UNCHANGED <<login, jar>>
    BY <1>5 DEF Login
  <2> HIDE DEF r
  <2>3. d \in Tab
    <3>1. tab[t] \in Tab
      BY DEF ConsoleInv
    <3>2. [tab[t] EXCEPT !.attempt = a] \in Tab
      BY <3>1 DEF Tab
    <3> QED BY <2>1, <3>2 DEF Tab
  <2> HIDE DEF d
  <2> QED BY <2>2, <2>3 DEF ConsoleInv, Paired
<1>6. ASSUME NEW t \in Tabs, CallbackError(t)
      PROVE  ConsoleInv'
  BY <1>6, Replied DEF CallbackError, Bounce, ConsoleInv
<1>7. ASSUME NEW t \in Tabs, NEW s \in Tokens, CallbackOpens(t, s)
      PROVE  ConsoleInv'
  <2> DEFINE r == [Opened(s, None) EXCEPT !.token = s]
  <2>1. Opened(s, None) \in Responses /\ Paired(Opened(s, None))
    BY DEF Opened
  <2>2. r \in Responses /\ Paired(r)
    BY <2>1 DEF Responses, Paired
  <2>3. Reply(t, r) /\ UNCHANGED jar /\ DOMAIN login' = Tokens
    BY <1>7 DEF CallbackOpens, ConsoleInv
  <2> HIDE DEF r
  <2> QED BY <2>2, <2>3, Replied
<1>8. ASSUME NEW t \in Tabs, NEW s \in Tokens, PasswordLogin(t, s)
      PROVE  ConsoleInv'
  <2>1. Reply(t, Opened(s, "keep"))
          \/ Reply(t, Response("keep", "keep", "keep", "anonymous", None))
    BY <1>8 DEF PasswordLogin
  <2>2. UNCHANGED jar /\ DOMAIN login' = Tokens
    BY <1>8 DEF PasswordLogin, ConsoleInv
  <2>3. Opened(s, "keep") \in Responses /\ Paired(Opened(s, "keep"))
    BY DEF Opened
  <2> QED BY <2>1, <2>2, <2>3, Replied
<1>9. ASSUME NEW t \in Tabs, Unsafe(t)
      PROVE  ConsoleInv'
  <2>1. PICK tenant \in Workspaces \cup {None} : tab' = [tab EXCEPT ![t].scope = tenant]
    BY <1>9, ConsoleAssumption DEF Unsafe, TenantContexts
  <2> DEFINE d == [tab[t] EXCEPT !.scope = tenant]
  <2>2. tab' = [tab EXCEPT ![t] = d] /\ UNCHANGED <<login, jar>>
    BY <1>9, <2>1 DEF Unsafe, ConsoleInv
  <2>3. d \in Tab
    BY DEF ConsoleInv, Tab
  <2> HIDE DEF d
  <2> QED BY <2>2, <2>3 DEF ConsoleInv, Paired
<1>10. ASSUME NEW t \in Tabs, Logout(t)
       PROVE  ConsoleInv'
  <2>1. Reply(t, Cleared) \/ Reply(t, Response("keep", "keep", "keep", "signed_out", None))
    BY <1>10 DEF Logout
  <2>2. UNCHANGED jar /\ DOMAIN login' = Tokens
    BY <1>10 DEF Logout, ConsoleInv
  <2>3. Cleared \in Responses /\ Paired(Cleared)
    BY DEF Cleared
  <2> QED BY <2>1, <2>2, <2>3, Replied
<1>11. ASSUME NEW t \in Tabs, LogoutAll(t)
       PROVE  ConsoleInv'
  <2>1. Reply(t, Cleared) \/ Reply(t, Response("keep", "keep", "keep", "in", "keep"))
    BY <1>11 DEF LogoutAll
  <2>2. UNCHANGED jar /\ DOMAIN login' = Tokens
    BY <1>11 DEF LogoutAll, ConsoleInv
  <2>3. Cleared \in Responses /\ Paired(Cleared)
    BY DEF Cleared
  <2> QED BY <2>1, <2>2, <2>3, Replied
<1> QED
  BY <1>1, <1>2, <1>3, <1>4, <1>5, <1>6, <1>7, <1>8, <1>9, <1>10, <1>11, ReceiveStep
  DEF ConsoleNext

(* A tab acts in no session but its own (CsrfMiddleware, _set_session_cookies):  *)
(* for any number of tabs, sessions and sign-ins, and responses in any order.   *)
THEOREM ActsInOwnSessionAlways == ConsoleSpec => []ActsInOwnSession
<1>1. ConsoleInit => ConsoleInv
  BY DEF ConsoleInit, ConsoleInv, NoTab, Tab, Sids, States, Pages, Paired
<1>2. ConsoleInv => ActsInOwnSession
  BY DEF ConsoleInv, Paired, ActsInOwnSession, CsrfAccepts
<1> QED BY <1>1, <1>2, ConsoleKept, PTL DEF ConsoleSpec

-----------------------------------------------------------------------------
(* Artifacts.  A working directory is written by one execution alone, so what   *)
(* that execution finds there, reads and uploads is its own; an upload goes      *)
(* through the size check, and a URL names the artifact of its execution.       *)

JobPcs == {"new", "run", "stray", "list", "read", "upload", "ended"}
Outcomes == {"none", "success", "sandbox_error", "script_error", "no_output",
             "artifact_too_large", "raised"}
Files == [job : Jobs, name : FileNames, size : Sizes]

JobState == [pc : JobPcs, file : {Nothing} \cup FileNames \cup Files, outcome : Outcomes,
             listed : BOOLEAN]

ArtifactsType ==
  /\ job \in [Jobs -> JobState]
  /\ disk \in [Dirs -> SUBSET Files]
  /\ object \in [Jobs -> {Nothing} \cup Files]
  /\ issued \subseteq [job : Jobs, expires : Nat]
  /\ time \in Nat

\* A file that execution r may offer for download.
OwnFile(r, f) == f \in Files /\ f.job = r /\ f.size <= MaxBytes

ArtifactsInv ==
  /\ ArtifactsType
  /\ \A r \in Jobs : \A f \in disk[WorkingDir(r)] : f.job = r
  /\ \A r \in Jobs : job[r].pc = "upload" => OwnFile(r, job[r].file)
  /\ \A r \in Jobs : object[r] # Nothing => OwnFile(r, object[r])
  /\ DownloadsItsRun

\* An execution goes on; the disk and the store stay as they are.
LEMMA JobStep ==
  ASSUME ArtifactsInv, NEW r \in Jobs, NEW d \in JobState,
         job' = [job EXCEPT ![r] = d],
         d.pc = "upload" => OwnFile(r, d.file),
         UNCHANGED <<disk, object, downloads, time>>,
         issued' \subseteq [job : Jobs, expires : Nat]
  PROVE  ArtifactsInv'
<1>1. /\ job' \in [Jobs -> JobState] /\ job'[r] = d
      /\ \A q \in Jobs : q # r => job'[q] = job[q]
  BY DEF ArtifactsInv, ArtifactsType
<1>2. ArtifactsType' /\ DownloadsItsRun'
  BY <1>1 DEF ArtifactsInv, ArtifactsType, DownloadsItsRun
<1>3. ASSUME NEW q \in Jobs, job'[q].pc = "upload"
      PROVE  OwnFile(q, job'[q].file)
  BY <1>1, <1>3 DEF ArtifactsInv
<1>4. /\ \A q \in Jobs : \A f \in disk'[WorkingDir(q)] : f.job = q
      /\ \A q \in Jobs : object'[q] # Nothing => OwnFile(q, object'[q])
  BY DEF ArtifactsInv
<1> QED BY <1>2, <1>3, <1>4 DEF ArtifactsInv, OwnFile, WorkingDir

LEMMA MovesOn ==
  ASSUME ArtifactsInv, NEW r \in Jobs, NEW pc \in JobPcs \ {"upload"}, NEW outcome \in Outcomes,
         \/ Step(r, pc)
         \/ Fail(r, outcome)
         \/ job' = [job EXCEPT ![r].pc = pc, ![r].outcome = outcome],
         UNCHANGED <<disk, object, issued, downloads, time>>
  PROVE  ArtifactsInv'
<1>1. /\ job[r] \in JobState /\ job \in [Jobs -> JobState]
      /\ issued \subseteq [job : Jobs, expires : Nat]
  BY DEF ArtifactsInv, ArtifactsType
<1>2. CASE Step(r, pc)
  <2> DEFINE d == [job[r] EXCEPT !.pc = pc]
  <2>1. d \in JobState /\ d.pc = pc
    BY <1>1 DEF JobState
  <2>2. job' = [job EXCEPT ![r] = d]
    BY <1>1, <1>2 DEF Step
  <2> HIDE DEF d
  <2> QED BY <1>1, <2>1, <2>2, JobStep
<1>3. CASE Fail(r, outcome)
  <2> DEFINE d == [job[r] EXCEPT !.pc = "ended", !.outcome = outcome]
  <2>1. d \in JobState /\ d.pc = "ended"
    BY <1>1 DEF JobState, JobPcs
  <2>2. job' = [job EXCEPT ![r] = d]
    BY <1>1, <1>3 DEF Fail
  <2> HIDE DEF d
  <2> QED BY <1>1, <2>1, <2>2, JobStep
<1>4. CASE job' = [job EXCEPT ![r].pc = pc, ![r].outcome = outcome]
  <2> DEFINE d == [job[r] EXCEPT !.pc = pc, !.outcome = outcome]
  <2>1. d \in JobState /\ d.pc = pc
    BY <1>1 DEF JobState
  <2>2. job' = [job EXCEPT ![r] = d]
    BY <1>1, <1>4
  <2> HIDE DEF d
  <2> QED BY <1>1, <2>1, <2>2, JobStep
<1> QED BY <1>2, <1>3, <1>4

LEMMA FailsWith ==
  ASSUME ArtifactsInv, NEW r \in Jobs, NEW outcome \in Outcomes, Fail(r, outcome),
         UNCHANGED <<disk, object, issued, downloads, time>>
  PROVE  ArtifactsInv'
<1>1. "ended" \in JobPcs \ {"upload"}
  BY DEF JobPcs
<1> QED BY <1>1, MovesOn

LEMMA StepsTo ==
  ASSUME ArtifactsInv, NEW r \in Jobs, NEW pc \in JobPcs \ {"upload"}, Step(r, pc),
         UNCHANGED <<disk, object, issued, downloads, time>>
  PROVE  ArtifactsInv'
<1>1. "none" \in Outcomes
  BY DEF Outcomes
<1> QED BY <1>1, MovesOn

\* Script files land in the directory of the execution that wrote them.
LEMMA WriteStep ==
  ASSUME ArtifactsInv, NEW r \in Jobs, WriteFile(r)
  PROVE  ArtifactsInv'
<1>1. PICK files \in ScriptFiles(r) : disk' = Written(r, files)
  BY DEF WriteFile
<1>2. files \subseteq Files /\ \A f \in files : f.job = r
  BY DEF ScriptFiles, Files
<1>3. r \in Dirs /\ disk \in [Dirs -> SUBSET Files]
  BY DEF ArtifactsInv, ArtifactsType, Dirs
<1>4. disk' = [disk EXCEPT ![r] = disk[r] \cup files]
  BY <1>1, <1>3 DEF Written, WorkingDir
<1>5. /\ disk' \in [Dirs -> SUBSET Files] /\ disk'[r] = disk[r] \cup files
      /\ \A q \in Jobs : q # r => disk'[q] = disk[q]
  BY <1>2, <1>3, <1>4
<1>6. \A q \in Jobs : \A f \in disk'[WorkingDir(q)] : f.job = q
  BY <1>2, <1>5 DEF ArtifactsInv, WorkingDir
<1>7. UNCHANGED <<job, object, issued, downloads, time>>
  BY DEF WriteFile
<1> QED BY <1>5, <1>6, <1>7 DEF ArtifactsInv, ArtifactsType, DownloadsItsRun, OwnFile, WorkingDir

\* The file that is read was found in the directory, and passed the size check.
LEMMA ReadStep ==
  ASSUME ArtifactsInv, NEW r \in Jobs, NEW f \in Named(r), f.size <= MaxBytes,
         job' = [job EXCEPT ![r].pc = "upload", ![r].file = f],
         UNCHANGED <<disk, object, issued, downloads, time>>
  PROVE  ArtifactsInv'
<1> DEFINE d == [job[r] EXCEPT !.pc = "upload", !.file = f]
<1>1. /\ job[r] \in JobState /\ job \in [Jobs -> JobState]
      /\ issued \subseteq [job : Jobs, expires : Nat]
  BY DEF ArtifactsInv, ArtifactsType
<1>2. f \in disk[WorkingDir(r)] /\ r \in Dirs /\ disk \in [Dirs -> SUBSET Files]
  BY DEF Named, ArtifactsInv, ArtifactsType, Dirs
<1>3. OwnFile(r, f)
  BY <1>2 DEF ArtifactsInv, OwnFile, WorkingDir
<1>4. d \in JobState /\ d.file = f
  BY <1>1, <1>3 DEF JobState, JobPcs, OwnFile
<1>5. job' = [job EXCEPT ![r] = d]
  BY <1>1
<1> HIDE DEF d
<1> QED BY <1>1, <1>3, <1>4, <1>5, JobStep

LEMMA ListStep ==
  ASSUME ArtifactsInv, NEW r \in Jobs, ListFiles(r)
  PROVE  ArtifactsInv'
<1>1. CASE Fail(r, "no_output") \/ Fail(r, "raised")
  <2>1. UNCHANGED <<disk, object, issued, downloads, time>>
    BY DEF ListFiles
  <2> QED BY <1>1, <2>1, FailsWith DEF Outcomes
<1>2. ASSUME NEW f \in disk[WorkingDir(r)],
             job' = [job EXCEPT ![r].pc = "read", ![r].file = f.name]
      PROVE  ArtifactsInv'
  <2> DEFINE d == [job[r] EXCEPT !.pc = "read", !.file = f.name]
  <2>1. /\ job[r] \in JobState /\ job \in [Jobs -> JobState]
        /\ issued \subseteq [job : Jobs, expires : Nat]
    BY DEF ArtifactsInv, ArtifactsType
  <2>2. f.name \in FileNames
    <3>1. r \in Dirs /\ disk \in [Dirs -> SUBSET Files]
      BY DEF ArtifactsInv, ArtifactsType, Dirs
    <3> QED BY <3>1 DEF WorkingDir, Files
  <2>3. d \in JobState /\ d.pc = "read"
    BY <2>1, <2>2 DEF JobState, JobPcs
  <2>4. job' = [job EXCEPT ![r] = d]
    BY <1>2, <2>1
  <2>5. UNCHANGED <<disk, object, issued, downloads, time>>
    BY DEF ListFiles
  <2> HIDE DEF d
  <2> QED BY <2>1, <2>3, <2>4, <2>5, JobStep
<1> QED BY <1>1, <1>2 DEF ListFiles

LEMMA ExpiryInNat == ASSUME time \in Nat PROVE Expiry \in Nat
BY ArtifactsAssumption DEF Expiry

\* The object of an execution is the file that it read.
LEMMA UploadStep ==
  ASSUME ArtifactsInv, NEW r \in Jobs, Upload(r)
  PROVE  ArtifactsInv'
<1>1. CASE Fail(r, "raised") /\ UNCHANGED <<object, issued>>
  <2>1. UNCHANGED <<disk, object, issued, downloads, time>>
    BY <1>1 DEF Upload
  <2> QED BY <1>1, <2>1, FailsWith DEF Outcomes
<1>2. ASSUME object' = [object EXCEPT ![r] = job[r].file],
             issued' = issued \cup {[job |-> r, expires |-> Expiry]},
             job' = [job EXCEPT ![r].pc = "ended", ![r].outcome = "success", ![r].listed = TRUE]
      PROVE  ArtifactsInv'
  <2> DEFINE d == [job[r] EXCEPT !.pc = "ended", !.outcome = "success", !.listed = TRUE]
  <2>1. /\ job[r] \in JobState /\ job \in [Jobs -> JobState] /\ OwnFile(r, job[r].file)
        /\ object \in [Jobs -> {Nothing} \cup Files]
    BY DEF ArtifactsInv, ArtifactsType, Upload, At
  <2>2. d \in JobState /\ d.pc = "ended"
    <3> DEFINE e == [job[r] EXCEPT !.pc = "ended", !.outcome = "success"]
    <3>1. e \in JobState /\ e.pc = "ended"
      BY <2>1 DEF JobState, JobPcs, Outcomes
    <3>2. d = [e EXCEPT !.listed = TRUE]
      OBVIOUS
    <3> HIDE DEF d, e
    <3> QED BY <3>1, <3>2 DEF JobState
  <2>3. job' = [job EXCEPT ![r] = d]
    BY <1>2, <2>1
  <2> HIDE DEF d
  <2>4. /\ job' \in [Jobs -> JobState] /\ job'[r].pc = "ended"
        /\ \A q \in Jobs : q # r => job'[q] = job[q]
    BY <2>1, <2>2, <2>3
  <2>5. /\ object' \in [Jobs -> {Nothing} \cup Files]
        /\ \A q \in Jobs : object'[q] # Nothing => OwnFile(q, object'[q])
    BY <1>2, <2>1 DEF ArtifactsInv, OwnFile
  <2>6. issued' \subseteq [job : Jobs, expires : Nat]
    BY <1>2, ExpiryInNat DEF ArtifactsInv, ArtifactsType
  <2>7. \A q \in Jobs : job'[q].pc = "upload" => OwnFile(q, job'[q].file)
    BY <2>4 DEF ArtifactsInv
  <2>8. UNCHANGED <<disk, downloads, time>>
    BY DEF Upload
  <2> QED BY <2>4, <2>5, <2>6, <2>7, <2>8
          DEF ArtifactsInv, ArtifactsType, DownloadsItsRun, OwnFile, WorkingDir
<1> QED BY <1>1, <1>2 DEF Upload

LEMMA DeleteStep ==
  ASSUME ArtifactsInv, NEW r \in Jobs, DeleteFile(r)
  PROVE  ArtifactsInv'
<1> DEFINE d == [job[r] EXCEPT !.listed = FALSE]
<1>1. /\ job[r] \in JobState /\ job \in [Jobs -> JobState]
      /\ object \in [Jobs -> {Nothing} \cup Files]
  BY DEF ArtifactsInv, ArtifactsType
<1>2. d \in JobState /\ d.pc = job[r].pc /\ d.file = job[r].file
  BY <1>1 DEF JobState
<1>3. job' = [job EXCEPT ![r] = d]
  BY <1>1 DEF DeleteFile
<1> HIDE DEF d
<1>4. /\ job' \in [Jobs -> JobState]
      /\ \A q \in Jobs : job'[q].pc = job[q].pc /\ job'[q].file = job[q].file
  BY <1>1, <1>2, <1>3
<1>5. /\ object' \in [Jobs -> {Nothing} \cup Files]
      /\ \A q \in Jobs : object'[q] # Nothing => object'[q] = object[q]
  BY <1>1 DEF DeleteFile
<1>6. UNCHANGED <<disk, issued, downloads, time>>
  BY DEF DeleteFile
<1>7. \A q \in Jobs : job'[q].pc = "upload" => OwnFile(q, job'[q].file)
  BY <1>4 DEF ArtifactsInv
<1>8. \A q \in Jobs : object'[q] # Nothing => OwnFile(q, object'[q])
  BY <1>5 DEF ArtifactsInv
<1> QED BY <1>4, <1>5, <1>6, <1>7, <1>8
        DEF ArtifactsInv, ArtifactsType, DownloadsItsRun, OwnFile, WorkingDir

\* A URL names the execution whose object is read.
LEMMA DownloadStep ==
  ASSUME ArtifactsInv, NEW u \in issued, Download(u)
  PROVE  ArtifactsInv'
<1> DEFINE d == [job |-> u.job, expires |-> u.expires, data |-> object[u.job], at |-> time]
<1>1. u.job \in Jobs /\ time <= u.expires /\ object[u.job] # Nothing
  BY DEF ArtifactsInv, ArtifactsType, Download, Verified
<1>2. downloads' = downloads \cup {d} /\ UNCHANGED <<job, disk, object, issued, time>>
  BY DEF Download
<1>3. d.data.job = d.job /\ d.at <= d.expires /\ d.data.size <= MaxBytes
  BY <1>1 DEF ArtifactsInv, OwnFile
<1> HIDE DEF d
<1>4. DownloadsItsRun'
  BY <1>2, <1>3 DEF ArtifactsInv, DownloadsItsRun
<1> QED BY <1>2, <1>4 DEF ArtifactsInv, ArtifactsType, OwnFile, WorkingDir

LEMMA ArtifactsKept == ArtifactsInv /\ [ArtifactsNext]_artifactVars => ArtifactsInv'
<1> SUFFICES ASSUME ArtifactsInv, [ArtifactsNext]_artifactVars
             PROVE  ArtifactsInv'
  OBVIOUS
<1> USE DEF JobPcs
<1>1. CASE UNCHANGED artifactVars
  BY <1>1 DEF artifactVars, ArtifactsInv, ArtifactsType, DownloadsItsRun, OwnFile, WorkingDir
<1>2. ASSUME NEW r \in Jobs, Stage(r)
      PROVE  ArtifactsInv'
  <2>1. UNCHANGED <<disk, object, issued, downloads, time>>
    BY <1>2 DEF Stage
  <2>2. Step(r, "run") \/ Fail(r, "sandbox_error")
    BY <1>2 DEF Stage
  <2> QED BY <2>1, <2>2, StepsTo, FailsWith DEF Outcomes
<1>3. ASSUME NEW r \in Jobs, RunScript(r)
      PROVE  ArtifactsInv'
  <2>1. UNCHANGED <<disk, object, issued, downloads, time>>
    BY <1>3 DEF RunScript
  <2>2. CASE Step(r, "list") \/ Fail(r, "script_error")
    BY <2>1, <2>2, StepsTo, FailsWith DEF Outcomes
  <2>3. CASE job' = [job EXCEPT ![r].pc = "stray", ![r].outcome = "sandbox_error"]
    BY <2>1, <2>3, MovesOn DEF Outcomes
  <2> QED BY <1>3, <2>2, <2>3 DEF RunScript
<1>4. ASSUME NEW r \in Jobs, ReadFile(r)
      PROVE  ArtifactsInv'
  <2>1. CASE Fail(r, "artifact_too_large") \/ Fail(r, "raised")
    <3>1. UNCHANGED <<disk, object, issued, downloads, time>>
      BY <1>4 DEF ReadFile
    <3> QED BY <2>1, <3>1, FailsWith DEF Outcomes
  <2>2. ASSUME NEW f \in Named(r), f.size <= MaxBytes,
               job' = [job EXCEPT ![r].pc = "upload", ![r].file = f]
        PROVE  ArtifactsInv'
    <3>1. UNCHANGED <<disk, object, issued, downloads, time>>
      BY <1>4 DEF ReadFile
    <3> QED BY <2>2, <3>1, ReadStep
  <2> QED BY <1>4, <2>1, <2>2 DEF ReadFile
<1>5. ASSUME NEW r \in Jobs, ListItem(r)
      PROVE  ArtifactsInv'
  <2>1. issued' \subseteq [job : Jobs, expires : Nat]
    BY <1>5, ExpiryInNat DEF ListItem, ArtifactsInv, ArtifactsType
  <2> QED BY <1>5, <2>1
          DEF ListItem, ArtifactsInv, ArtifactsType, DownloadsItsRun, OwnFile, WorkingDir
<1>6. CASE PassTime
  BY <1>6 DEF PassTime, ArtifactsInv, ArtifactsType, DownloadsItsRun, OwnFile, WorkingDir
<1> QED
  BY <1>1, <1>2, <1>3, <1>4, <1>5, <1>6, WriteStep, ListStep, UploadStep, DeleteStep, DownloadStep
  DEF ArtifactsNext

(* A download leads to the file of the run that its URL was issued for, within   *)
(* the size limit and before the URL expires (execute_skill, download_artifact): *)
(* for any number of runs of any skills in the sandbox, any file names and sizes, *)
(* scripts that outlive their calls, listings and deletions in any order.        *)
THEOREM DownloadsItsRunAlways == ArtifactsSpec => []DownloadsItsRun
<1>1. ArtifactsInit => ArtifactsInv
  <2> SUFFICES ASSUME ArtifactsInit
               PROVE  ArtifactsInv
    OBVIOUS
  <2>1. NewJob \in JobState /\ NewJob.pc = "new"
    BY DEF NewJob, JobState, JobPcs, Outcomes
  <2>2. \A r \in Jobs : job[r] = NewJob
    BY DEF ArtifactsInit
  <2>3. ArtifactsType
    BY <2>1 DEF ArtifactsInit, ArtifactsType
  <2>4. /\ \A r \in Jobs : disk[WorkingDir(r)] = {} /\ object[r] = Nothing
        /\ downloads = {}
    BY DEF ArtifactsInit, WorkingDir, Dirs
  <2> QED BY <2>1, <2>2, <2>3, <2>4 DEF ArtifactsInv, DownloadsItsRun
<1>2. ArtifactsInv => DownloadsItsRun
  BY DEF ArtifactsInv
<1> QED BY <1>1, <1>2, ArtifactsKept, PTL DEF ArtifactsSpec


-----------------------------------------------------------------------------
(* Comments.  A session numbers what it adds above all it found, so every      *)
(* comment keeps one range and one reference through every insertion; and the    *)
(* parts of a session's package are all related, or will be when it is saved.    *)

Marks == [kind : {"start", "end", "ref", "text"}, id : Nat]

\* The one position of a marker.
OnlyAt(m, kind, id, i) ==
  /\ i \in DOMAIN m /\ m[i] = Marker(kind, id)
  /\ \A j \in DOMAIN m : m[j] = Marker(kind, id) => j = i

AnchoredAt(m, id) ==
  \E s, e, r \in DOMAIN m :
    /\ OnlyAt(m, "start", id, s) /\ OnlyAt(m, "end", id, e) /\ OnlyAt(m, "ref", id, r)
    /\ s < e /\ s < r

\* Where the marker at k is once one was inserted after a and two after b.
Moved(k, a, b) == IF k <= a THEN k ELSE IF k <= b THEN k + 1 ELSE k + 3

Inserted(m, n, a, b, x, y, z) ==
  /\ n \in Seq(Marks) /\ Len(n) = Len(m) + 3
  /\ \A k \in 1..Len(m) : n[Moved(k, a, b)] = m[k]
  /\ n[a + 1] = x /\ n[b + 2] = y /\ n[b + 3] = z

\* u of length p, then v of length q.
JoinOf(w, u, v, p, q) ==
  /\ w \in Seq(Marks) /\ Len(w) = p + q
  /\ \A i \in 1..p : w[i] = u[i]
  /\ \A i \in 1..q : w[p + i] = v[i]

PackageInv(pkg) ==
  /\ pkg \in Package /\ IsFiniteSet(pkg.rels) /\ IsFiniteSet(pkg.comments)
  /\ Anchored(pkg) /\ RepliesNamed(pkg) /\ NoneStray(pkg)
  /\ IdsUnique(pkg) /\ RidsUnique(pkg)

Targets(pkg) == {r.target : r \in pkg.rels}

\* Saving relates all that is not related yet.
WillBeReferenced(pkg) ==
  \/ "comments" \in Targets(pkg) /\ Targets(pkg) = pkg.parts
  \/ /\ "comments" \notin Targets(pkg)
     /\ pkg.parts = Targets(pkg) \/ pkg.parts = Targets(pkg) \cup CommentParts

SessionInv ==
  /\ session \in [open : {TRUE}, pkg : Package, existing : SUBSET [id : Nat, para : Nat], next : Nat]
  /\ PackageInv(session.pkg)
  /\ session.existing \subseteq session.pkg.comments
  /\ \A c \in session.pkg.comments : c.id < session.next
  /\ Legacy(stored) \/ (WillBeReferenced(session.pkg) /\ ~Legacy(session.pkg))

CommentsInv ==
  /\ PackageInv(stored) /\ FilesReferenced(stored)
  /\ minted \in Nat
  /\ refused => Legacy(stored)
  /\ session = Closed \/ SessionInv

-----------------------------------------------------------------------------
(* Markers.  get_node finds exactly one where there is exactly one.            *)

LEMMA FoundOnce ==
  ASSUME NEW m \in Seq(Marks), NEW kind, NEW id
  PROVE  Cardinality(Found(m, kind, id)) = 1 <=> \E i : OnlyAt(m, kind, id, i)
<1> DEFINE F == Found(m, kind, id)
<1>1. IsFiniteSet(F)
  <2>1. F \in SUBSET (1..Len(m))
    BY DEF Found
  <2>2. IsFiniteSet(1..Len(m))
    BY FS_Interval
  <2> QED BY <2>1, <2>2, FS_Subset
<1>2. Cardinality(F) = 1 <=> \E i : F = {i}
  BY <1>1, FS_Singleton
<1>3. \A i : F = {i} <=> OnlyAt(m, kind, id, i)
  BY DEF Found, OnlyAt
<1> QED BY <1>2, <1>3

LEMMA AnchoredMeans ==
  ASSUME NEW pkg, pkg.marks \in Seq(Marks)
  PROVE  Anchored(pkg) <=> \A c \in pkg.comments : AnchoredAt(pkg.marks, c.id)
<1> DEFINE m == pkg.marks
<1>1. ASSUME NEW c \in pkg.comments, Anchored(pkg)
      PROVE  AnchoredAt(m, c.id)
  <2>1. PICK s : OnlyAt(m, "start", c.id, s)
    BY <1>1, FoundOnce DEF Anchored
  <2>2. PICK e : OnlyAt(m, "end", c.id, e)
    BY <1>1, FoundOnce DEF Anchored
  <2>3. PICK r : OnlyAt(m, "ref", c.id, r)
    BY <1>1, FoundOnce DEF Anchored
  <2>4. s < e /\ s < r
    BY <1>1, <2>1, <2>2, <2>3 DEF Anchored, Found, OnlyAt
  <2> QED BY <2>1, <2>2, <2>3, <2>4 DEF AnchoredAt, OnlyAt
<1>2. ASSUME \A c \in pkg.comments : AnchoredAt(m, c.id), NEW c \in pkg.comments
      PROVE  /\ \A kind \in {"start", "end", "ref"} : Cardinality(Found(m, kind, c.id)) = 1
             /\ \A s \in Found(m, "start", c.id) :
                  \A e \in Found(m, "end", c.id) \cup Found(m, "ref", c.id) : s < e
  <2>1. PICK s, e, r \in DOMAIN m :
          /\ OnlyAt(m, "start", c.id, s) /\ OnlyAt(m, "end", c.id, e) /\ OnlyAt(m, "ref", c.id, r)
          /\ s < e /\ s < r
    BY <1>2 DEF AnchoredAt
  <2>2. \A kind \in {"start", "end", "ref"} : Cardinality(Found(m, kind, c.id)) = 1
    BY <2>1, FoundOnce
  <2>3. Found(m, "start", c.id) = {s} /\ Found(m, "end", c.id) = {e} /\ Found(m, "ref", c.id) = {r}
    BY <2>1 DEF Found, OnlyAt
  <2> QED BY <2>1, <2>2, <2>3
<1> QED BY <1>1, <1>2 DEF Anchored

LEMMA Sliced ==
  ASSUME NEW m \in Seq(Marks), NEW c \in Nat, NEW d \in Nat, c <= d, d <= Len(m)
  PROVE  /\ SubSeq(m, c + 1, d) \in Seq(Marks) /\ Len(SubSeq(m, c + 1, d)) = d - c
         /\ \A i \in 1..(d - c) : SubSeq(m, c + 1, d)[i] = m[c + i]
<1> DEFINE s == SubSeq(m, c + 1, d)
<1>1. \A i \in (c + 1)..d : m[i] \in Marks
  OBVIOUS
<1>2. c + 1 \in Int /\ d \in Int
  OBVIOUS
<1>3. /\ s \in Seq(Marks) /\ Len(s) = IF c + 1 <= d THEN d - (c + 1) + 1 ELSE 0
      /\ \A i \in 1..(d - (c + 1) + 1) : s[i] = m[(c + 1) + i - 1]
  BY <1>1, <1>2, SubSeqProperties
<1> HIDE DEF s
<1>4. Len(s) = d - c
  BY <1>3
<1>5. ASSUME NEW i \in 1..(d - c)
      PROVE  s[i] = m[c + i]
  <2>1. (c + 1) + i - 1 = c + i /\ i \in 1..(d - (c + 1) + 1)
    OBVIOUS
  <2> QED BY <1>3, <2>1
<1> QED BY <1>3, <1>4, <1>5 DEF s

LEMMA Joined ==
  ASSUME NEW u \in Seq(Marks), NEW v \in Seq(Marks), NEW p \in Nat, NEW q \in Nat,
         Len(u) = p, Len(v) = q
  PROVE  JoinOf(u \o v, u, v, p, q)
<1> DEFINE w == u \o v
<1>1. /\ w \in Seq(Marks) /\ Len(w) = p + q
      /\ \A i \in 1..p + q : w[i] = IF i <= p THEN u[i] ELSE v[i - p]
  BY ConcatProperties
<1> HIDE DEF w
<1>2. ASSUME NEW i \in 1..p
      PROVE  w[i] = u[i]
  BY <1>1
<1>3. ASSUME NEW i \in 1..q
      PROVE  w[p + i] = v[i]
  <2>1. p + i \in 1..p + q /\ ~(p + i <= p) /\ (p + i) - p = i
    OBVIOUS
  <2> QED BY <1>1, <2>1
<1> QED BY <1>1, <1>2, <1>3 DEF w, JoinOf

\* What insert_before and insert_after leave of a document.
LEMMA InsertedMarks ==
  ASSUME NEW m \in Seq(Marks), NEW a \in Nat, NEW b \in Nat, a <= b, b <= Len(m),
         NEW x \in Marks, NEW y \in Marks, NEW z \in Marks
  PROVE  Inserted(m, SubSeq(m, 1, a) \o <<x>> \o SubSeq(m, a + 1, b) \o <<y, z>>
                       \o SubSeq(m, b + 1, Len(m)), a, b, x, y, z)
<1> DEFINE s1 == SubSeq(m, 1, a)
           s2 == SubSeq(m, a + 1, b)
           s3 == SubSeq(m, b + 1, Len(m))
           yz == <<y, z>>
<1>1. s1 \in Seq(Marks) /\ Len(s1) = a /\ \A i \in 1..a : s1[i] = m[i]
  <2>1. a <= Len(m) /\ 0 \in Nat /\ 0 <= a /\ 0 + 1 = 1 /\ a - 0 = a /\ \A i \in 1..a : 0 + i = i
    OBVIOUS
  <2> QED BY <2>1, Sliced
<1>2. s2 \in Seq(Marks) /\ Len(s2) = b - a /\ \A i \in 1..(b - a) : s2[i] = m[a + i]
  BY Sliced
<1>3. s3 \in Seq(Marks) /\ Len(s3) = Len(m) - b /\ \A i \in 1..(Len(m) - b) : s3[i] = m[b + i]
  <2>1. Len(m) \in Nat
    OBVIOUS
  <2> QED BY <2>1, Sliced
<1>4. PICK l \in Nat : l = Len(m)
  OBVIOUS
<1> HIDE DEF s1, s2, s3
<1> DEFINE t1 == s1 \o <<x>>
           t2 == t1 \o s2
           t3 == t2 \o yz
           n  == t3 \o s3
<1>5. <<x>> \in Seq(Marks) /\ Len(<<x>>) = 1 /\ <<x>>[1] = x
  OBVIOUS
<1>6. yz \in Seq(Marks) /\ Len(yz) = 2 /\ yz[1] = y /\ yz[2] = z
  OBVIOUS
<1> HIDE DEF yz
<1>7. /\ t1 \in Seq(Marks) /\ Len(t1) = a + 1
      /\ \A i \in 1..a : t1[i] = s1[i]
      /\ \A i \in 1..1 : t1[a + i] = <<x>>[i]
  <2>1. JoinOf(t1, s1, <<x>>, a, 1)
    BY <1>1, <1>5, Joined
  <2> QED BY <2>1 DEF JoinOf
<1> HIDE DEF t1
<1>8. /\ t2 \in Seq(Marks) /\ Len(t2) = (a + 1) + (b - a)
      /\ \A i \in 1..a + 1 : t2[i] = t1[i]
      /\ \A i \in 1..(b - a) : t2[(a + 1) + i] = s2[i]
  <2>1. JoinOf(t2, t1, s2, a + 1, b - a)
    BY <1>2, <1>7, Joined
  <2> QED BY <2>1 DEF JoinOf
<1> HIDE DEF t2
<1>9. Len(t2) = b + 1
  BY <1>8
<1>10. /\ t3 \in Seq(Marks) /\ Len(t3) = (b + 1) + 2
       /\ \A i \in 1..b + 1 : t3[i] = t2[i]
       /\ \A i \in 1..2 : t3[(b + 1) + i] = yz[i]
  <2>1. t2 \in Seq(Marks) /\ Len(t2) = b + 1 /\ b + 1 \in Nat /\ 2 \in Nat
    BY <1>8, <1>9
  <2>2. JoinOf(t3, t2, yz, b + 1, 2)
    BY <1>6, <2>1, Joined
  <2> QED BY <2>2 DEF JoinOf
<1> HIDE DEF t3
<1>11. /\ n \in Seq(Marks) /\ Len(n) = ((b + 1) + 2) + (l - b)
       /\ \A i \in 1..(b + 1) + 2 : n[i] = t3[i]
       /\ \A i \in 1..(l - b) : n[((b + 1) + 2) + i] = s3[i]
  <2>1. JoinOf(n, t3, s3, (b + 1) + 2, l - b)
    BY <1>3, <1>4, <1>10, Joined
  <2> QED BY <2>1 DEF JoinOf
<1> HIDE DEF n
<1>12. n[a + 1] = x
  <2>1. a + 1 \in 1..(b + 1) + 2 /\ a + 1 \in 1..b + 1 /\ a + 1 \in 1..a + 1 /\ 1 \in 1..1
    OBVIOUS
  <2>2. n[a + 1] = t3[a + 1] /\ t3[a + 1] = t2[a + 1] /\ t2[a + 1] = t1[a + 1]
    BY <1>8, <1>10, <1>11, <2>1
  <2> QED BY <1>5, <1>7, <2>1, <2>2
<1>13. n[b + 2] = y /\ n[b + 3] = z
  <2>1. /\ b + 2 = (b + 1) + 1 /\ b + 3 = (b + 1) + 2 /\ 1 \in 1..2 /\ 2 \in 1..2
        /\ (b + 1) + 1 \in 1..(b + 1) + 2 /\ (b + 1) + 2 \in 1..(b + 1) + 2
    OBVIOUS
  <2>2. t3[(b + 1) + 1] = y /\ t3[(b + 1) + 2] = z
    BY <1>6, <1>10, <2>1
  <2>3. n[(b + 1) + 1] = t3[(b + 1) + 1] /\ n[(b + 1) + 2] = t3[(b + 1) + 2]
    BY <1>11, <2>1
  <2> QED BY <2>1, <2>2, <2>3
<1>14. ASSUME NEW k \in 1..l
       PROVE  n[Moved(k, a, b)] = m[k]
  <2>1. CASE k <= a
    <3>1. k \in 1..a /\ k \in 1..a + 1 /\ k \in 1..b + 1 /\ k \in 1..(b + 1) + 2
      BY <2>1
    <3>2. n[k] = t3[k] /\ t3[k] = t2[k] /\ t2[k] = t1[k]
      BY <1>8, <1>10, <1>11, <3>1
    <3>3. t1[k] = s1[k] /\ s1[k] = m[k]
      BY <1>1, <1>7, <3>1
    <3> QED BY <2>1, <3>2, <3>3 DEF Moved
  <2>2. CASE a < k /\ k <= b
    <3>1. PICK i \in 1..(b - a) : k = a + i
      <4>1. k - a \in 1..(b - a) /\ k = a + (k - a)
        BY <2>2
      <4> QED BY <4>1
    <3>2. k + 1 = (a + 1) + i /\ k + 1 \in 1..b + 1 /\ k + 1 \in 1..(b + 1) + 2
      BY <2>2, <3>1
    <3>3. n[k + 1] = t3[k + 1] /\ t3[k + 1] = t2[k + 1] /\ t2[k + 1] = s2[i]
      BY <1>8, <1>10, <1>11, <3>1, <3>2
    <3>4. s2[i] = m[k]
      BY <1>2, <3>1
    <3>5. Moved(k, a, b) = k + 1
      BY <2>2 DEF Moved
    <3> QED BY <3>3, <3>4, <3>5
  <2>3. CASE b < k
    <3>1. PICK i \in 1..(l - b) : k = b + i
      <4>1. k - b \in 1..(l - b) /\ k = b + (k - b)
        BY <2>3
      <4> QED BY <4>1
    <3>2. k + 3 = ((b + 1) + 2) + i
      BY <3>1
    <3>3. n[k + 3] = s3[i]
      BY <1>11, <3>1, <3>2
    <3>4. s3[i] = m[k]
      BY <1>3, <1>4, <3>1
    <3>5. Moved(k, a, b) = k + 3
      BY <2>3 DEF Moved
    <3> QED BY <3>3, <3>4, <3>5
  <2> QED BY <2>1, <2>2, <2>3
<1>15. Len(n) = l + 3
  BY <1>11
<1> QED BY <1>4, <1>11, <1>12, <1>13, <1>14, <1>15 DEF Inserted, n, t3, t2, t1, s1, s2, s3, yz

-----------------------------------------------------------------------------
(* A comment that has its markers keeps them, whatever is inserted.            *)
LEMMA MovedApart ==
  ASSUME NEW a \in Nat, NEW b \in Nat, a <= b, NEW l \in Nat, b <= l
  PROVE  /\ \A k \in 1..l : /\ Moved(k, a, b) \in 1..l + 3
                            /\ Moved(k, a, b) \notin {a + 1, b + 2, b + 3}
         /\ \A k, j \in 1..l : k < j => Moved(k, a, b) < Moved(j, a, b)
BY DEF Moved

LEMMA MovedOnto ==
  ASSUME NEW a \in Nat, NEW b \in Nat, a <= b, NEW l \in Nat, b <= l
  PROVE  \A i \in 1..l + 3 : i = a + 1 \/ i = b + 2 \/ i = b + 3 \/ \E k \in 1..l : i = Moved(k, a, b)
<1> SUFFICES ASSUME NEW i \in 1..l + 3, i # a + 1, i # b + 2, i # b + 3
             PROVE  \E k \in 1..l : i = Moved(k, a, b)
  OBVIOUS
<1>1. CASE i <= a
  BY <1>1 DEF Moved
<1>2. CASE a + 1 < i /\ i <= b + 1
  <2>1. i - 1 \in 1..l /\ i = Moved(i - 1, a, b)
    BY <1>2 DEF Moved
  <2> QED BY <2>1
<1>3. CASE b + 3 < i
  <2>1. i - 3 \in 1..l /\ i = Moved(i - 3, a, b)
    BY <1>3 DEF Moved
  <2> QED BY <2>1
<1> QED BY <1>1, <1>2, <1>3

\* The markers that come in are those of one comment.
Triple(x, y, z, id) ==
  /\ x = Marker("start", id)
  /\ \/ y = Marker("end", id) /\ z = Marker("ref", id)
     \/ y = Marker("ref", id) /\ z = Marker("end", id)

LEMMA OthersStay ==
  ASSUME NEW m \in Seq(Marks), NEW n, NEW a \in Nat, NEW b \in Nat, a <= b, b <= Len(m),
         NEW x, NEW y, NEW z, NEW id, Triple(x, y, z, id), Inserted(m, n, a, b, x, y, z),
         NEW kind, NEW other, other # id, NEW i, OnlyAt(m, kind, other, i)
  PROVE  i \in 1..Len(m) /\ OnlyAt(n, kind, other, Moved(i, a, b))
<1>1. PICK l \in Nat : l = Len(m) /\ b <= l
  OBVIOUS
<1>2. DOMAIN m = 1..l /\ DOMAIN n = 1..l + 3
  BY <1>1 DEF Inserted
<1>3. i \in 1..l /\ m[i] = Marker(kind, other) /\ \A j \in 1..l : m[j] = Marker(kind, other) => j = i
  BY <1>2 DEF OnlyAt
<1>4. Moved(i, a, b) \in 1..l + 3 /\ n[Moved(i, a, b)] = Marker(kind, other)
  BY <1>1, <1>3, MovedApart DEF Inserted
<1>5. ASSUME NEW j \in 1..l + 3, n[j] = Marker(kind, other)
      PROVE  j = Moved(i, a, b)
  <2>1. j \notin {a + 1, b + 2, b + 3}
    BY <1>5 DEF Inserted, Triple, Marker
  <2>2. PICK k \in 1..l : j = Moved(k, a, b)
    <3>1. \A h \in 1..l + 3 : h = a + 1 \/ h = b + 2 \/ h = b + 3 \/ \E k \in 1..l : h = Moved(k, a, b)
      BY <1>1, MovedOnto
    <3> QED BY <2>1, <3>1
  <2>3. m[k] = Marker(kind, other)
    BY <1>1, <1>5, <2>2 DEF Inserted
  <2> QED BY <1>3, <2>2, <2>3
<1> QED BY <1>1, <1>2, <1>3, <1>4, <1>5 DEF OnlyAt

LEMMA AnchorsStay ==
  ASSUME NEW m \in Seq(Marks), NEW n, NEW a \in Nat, NEW b \in Nat, a <= b, b <= Len(m),
         NEW x, NEW y, NEW z, NEW id, Triple(x, y, z, id), Inserted(m, n, a, b, x, y, z),
         NEW other, other # id, AnchoredAt(m, other)
  PROVE  AnchoredAt(n, other)
<1>1. PICK s, e, r \in DOMAIN m :
        /\ OnlyAt(m, "start", other, s) /\ OnlyAt(m, "end", other, e) /\ OnlyAt(m, "ref", other, r)
        /\ s < e /\ s < r
  BY DEF AnchoredAt
<1>2. /\ s \in 1..Len(m) /\ OnlyAt(n, "start", other, Moved(s, a, b))
      /\ e \in 1..Len(m) /\ OnlyAt(n, "end", other, Moved(e, a, b))
      /\ r \in 1..Len(m) /\ OnlyAt(n, "ref", other, Moved(r, a, b))
  BY <1>1, OthersStay
<1>3. Moved(s, a, b) < Moved(e, a, b) /\ Moved(s, a, b) < Moved(r, a, b)
  <2>1. Len(m) \in Nat
    OBVIOUS
  <2> QED BY <1>1, <1>2, <2>1, MovedApart
<1> QED BY <1>2, <1>3 DEF AnchoredAt, OnlyAt

LEMMA AnchorIsNew ==
  ASSUME NEW m \in Seq(Marks), NEW n, NEW a \in Nat, NEW b \in Nat, a <= b, b <= Len(m),
         NEW x, NEW y, NEW z, NEW id, Triple(x, y, z, id), Inserted(m, n, a, b, x, y, z),
         \A i \in DOMAIN m : m[i].kind = "text" \/ m[i].id # id
  PROVE  AnchoredAt(n, id)
<1>1. PICK l \in Nat : l = Len(m) /\ b <= l
  OBVIOUS
<1>2. DOMAIN m = 1..l /\ DOMAIN n = 1..l + 3
  BY <1>1 DEF Inserted
<1>3. ASSUME NEW kind \in {"start", "end", "ref"}, NEW j \in 1..l + 3, n[j] = Marker(kind, id)
      PROVE  j \in {a + 1, b + 2, b + 3}
  <2> SUFFICES ASSUME j \notin {a + 1, b + 2, b + 3}, NEW k \in 1..l, j = Moved(k, a, b)
               PROVE  FALSE
    <3>1. \A h \in 1..l + 3 : h = a + 1 \/ h = b + 2 \/ h = b + 3 \/ \E k \in 1..l : h = Moved(k, a, b)
      BY <1>1, MovedOnto
    <3> QED BY <3>1
  <2>1. m[k] = Marker(kind, id)
    BY <1>1, <1>3 DEF Inserted
  <2> QED BY <1>2, <2>1 DEF Marker
<1>4. a + 1 \in DOMAIN n /\ b + 2 \in DOMAIN n /\ b + 3 \in DOMAIN n /\ a + 1 < b + 2 /\ a + 1 < b + 3
  BY <1>1, <1>2
<1>5. n[a + 1] = x /\ n[b + 2] = y /\ n[b + 3] = z
  BY DEF Inserted
<1> DEFINE M(kind) == Marker(kind, id)
<1>6. M("start") # M("end") /\ M("start") # M("ref") /\ M("end") # M("ref")
  BY DEF Marker
<1>7. OnlyAt(n, "start", id, a + 1)
  BY <1>2, <1>3, <1>4, <1>5, <1>6 DEF OnlyAt, Triple
<1>8. CASE y = M("end") /\ z = M("ref")
  <2>1. n[a + 1] = M("start") /\ n[b + 2] = M("end") /\ n[b + 3] = M("ref")
    BY <1>5, <1>8 DEF Triple
  <2>2. OnlyAt(n, "end", id, b + 2)
    BY <1>2, <1>3, <1>4, <1>6, <2>1 DEF OnlyAt
  <2>3. OnlyAt(n, "ref", id, b + 3)
    BY <1>2, <1>3, <1>4, <1>6, <2>1 DEF OnlyAt
  <2> QED BY <1>4, <1>7, <2>2, <2>3 DEF AnchoredAt
<1>9. CASE y = M("ref") /\ z = M("end")
  <2>1. n[a + 1] = M("start") /\ n[b + 2] = M("ref") /\ n[b + 3] = M("end")
    BY <1>5, <1>9 DEF Triple
  <2>2. OnlyAt(n, "ref", id, b + 2)
    BY <1>2, <1>3, <1>4, <1>6, <2>1 DEF OnlyAt
  <2>3. OnlyAt(n, "end", id, b + 3)
    BY <1>2, <1>3, <1>4, <1>6, <2>1 DEF OnlyAt
  <2> QED BY <1>4, <1>7, <2>2, <2>3 DEF AnchoredAt
<1> QED BY <1>8, <1>9 DEF Triple

-----------------------------------------------------------------------------
(* Numbers.  The ids of a package are finitely many, so there is a largest.    *)
LEMMA LeastNatural ==
  ASSUME NEW S \in SUBSET Nat, S # {}
  PROVE  \E x \in S : \A y \in S : x <= y
<1>1. PICK x \in S : \A y \in S : ~(<<y, x>> \in OpToRel(<, Nat))
  BY NatLessThanWellFounded, WFMin
<1>2. ASSUME NEW y \in S, y < x
      PROVE  FALSE
  <2>1. <<y, x>> \in Nat \X Nat /\ <<y, x>>[1] < <<y, x>>[2]
    BY <1>2
  <2>2. <<y, x>> \in OpToRel(<, Nat)
    BY <2>1 DEF OpToRel
  <2> QED BY <1>1, <2>2
<1> QED BY <1>2

\* Otherwise take the shortest unbounded list: without its last it is bounded.
LEMMA ListsBounded ==
  ASSUME NEW n \in Nat, NEW f \in [1..n -> Nat]
  PROVE  \E b \in Nat : \A i \in 1..n : f[i] <= b
<1> DEFINE U == {k \in Nat : \E g \in [1..k -> Nat] : \A b \in Nat : \E i \in 1..k : ~(g[i] <= b)}
<1>1. U = {}
  <2> SUFFICES ASSUME U # {}
               PROVE  FALSE
    OBVIOUS
  <2>1. PICK k \in U : \A j \in U : k <= j
    <3>1. U \in SUBSET Nat
      OBVIOUS
    <3> HIDE DEF U
    <3> QED BY <3>1, LeastNatural
  <2>2. PICK g \in [1..k -> Nat] : \A b \in Nat : \E i \in 1..k : ~(g[i] <= b)
    OBVIOUS
  <2>3. k \in Nat /\ k # 0
    <3>1. CASE k = 0
      BY <2>2, <3>1, 0 \in Nat
    <3> QED BY <3>1
  <2>4. k - 1 \in Nat /\ k - 1 \notin U
    <3>1. k - 1 \in Nat /\ ~(k <= k - 1)
      BY <2>3
    <3> QED BY <2>1, <3>1
  <2> DEFINE h == [i \in 1..(k - 1) |-> g[i]]
  <2>5. h \in [1..(k - 1) -> Nat]
    <3>1. \A i \in 1..(k - 1) : i \in 1..k
      BY <2>3
    <3> QED BY <2>2, <3>1
  <2>6. PICK b \in Nat : \A i \in 1..(k - 1) : h[i] <= b
    <3> HIDE DEF h
    <3> QED BY <2>4, <2>5
  <2>7. \A i \in 1..(k - 1) : g[i] <= b
    BY <2>6
  <2>8. PICK d \in Nat : b <= d /\ g[k] <= d
    <3>1. k \in 1..k
      BY <2>3
    <3>2. PICK v \in Nat : v = g[k]
      BY <2>2, <3>1
    <3>3. b \in Nat /\ b + v \in Nat /\ b <= b + v /\ v <= b + v
      BY <2>6
    <3> QED BY <3>2, <3>3
  <2>9. \A i \in 1..k : g[i] <= d
    <3> SUFFICES ASSUME NEW i \in 1..k
                 PROVE  g[i] <= d
      OBVIOUS
    <3>1. g[i] \in Nat
      BY <2>2
    <3>2. CASE i = k
      BY <2>8, <3>2
    <3>3. CASE i # k
      <4>1. i \in 1..(k - 1)
        BY <2>3, <3>3
      <4>2. PICK v \in Nat : v = g[i]
        BY <3>1
      <4>3. v <= b /\ b \in Nat /\ b <= d /\ d \in Nat
        BY <2>6, <2>7, <2>8, <4>1, <4>2
      <4> QED BY <4>2, <4>3
    <3> QED BY <3>2, <3>3
  <2> QED BY <2>2, <2>8, <2>9
<1> QED BY <1>1

LEMMA FiniteBounded ==
  ASSUME NEW S, IsFiniteSet(S), NEW val \in [S -> Nat]
  PROVE  \E b \in Nat : \A x \in S : val[x] <= b
<1> DEFINE n == Cardinality(S)
<1>0. n \in Nat /\ ExistsBijection(1..n, S)
  BY FS_CardinalityType
<1> HIDE DEF n
<1>1. PICK f \in Bijection(1..n, S) : TRUE
  BY <1>0 DEF ExistsBijection
<1> DEFINE g == [i \in 1..n |-> val[f[i]]]
<1>2. f \in [1..n -> S] /\ \A x \in S : \E i \in 1..n : f[i] = x
  BY <1>1 DEF Bijection, Surjection
<1>3. g \in [1..n -> Nat]
  BY <1>2
<1>4. PICK b \in Nat : \A i \in 1..n : g[i] <= b
  <2> HIDE DEF g
  <2> QED BY <1>0, <1>3, ListsBounded
<1> QED BY <1>2, <1>4

LEMMA MaxOfBounded ==
  ASSUME NEW S \in SUBSET Nat, NEW b \in Nat, \A x \in S : x <= b, NEW d \in {-1, 0}
  PROVE  /\ Max({d} \cup S) + 1 \in Nat
         /\ \A x \in S : x < Max({d} \cup S) + 1
<1> DEFINE T == {d} \cup S
<1>1. \E x \in T : \A y \in T : x >= y
  <2>1. CASE S = {}
    BY <2>1
  <2>2. CASE S # {}
    <3> DEFINE B == {k \in Nat : \A x \in S : x <= k}
    <3>1. B \in SUBSET Nat /\ b \in B
      OBVIOUS
    <3>2. PICK u \in B : \A y \in B : u <= y
      <4> HIDE DEF B
      <4> QED BY <3>1, LeastNatural
    <3>3. u \in S
      <4> SUFFICES ASSUME u \notin S
                   PROVE  FALSE
        OBVIOUS
      <4>1. PICK x \in S : TRUE
        BY <2>2
      <4>2. u - 1 \in Nat
        <5>1. x \in Nat /\ x <= u /\ x # u
          BY <4>1
        <5> QED BY <5>1
      <4>3. \A y \in S : y <= u - 1
        <5> SUFFICES ASSUME NEW y \in S
                     PROVE  y <= u - 1
          OBVIOUS
        <5>1. y \in Nat /\ u \in Nat /\ y <= u /\ y # u
          OBVIOUS
        <5> QED BY <5>1
      <4>4. u <= u - 1
        BY <3>2, <4>2, <4>3
      <4> QED BY <4>4
    <3> QED BY <3>3
  <2> QED BY <2>1, <2>2
<1>2. Max(T) \in T /\ \A y \in T : Max(T) >= y
  <2> HIDE DEF T
  <2> QED BY <1>1 DEF Max
<1>3. T \in SUBSET Int /\ d \in T /\ d \in {-1, 0}
  OBVIOUS
<1> HIDE DEF T
<1>4. Max(T) \in Int /\ Max(T) + 1 \in Nat
  <2>1. Max(T) \in Int /\ Max(T) >= d
    BY <1>2, <1>3
  <2> QED BY <1>3, <2>1
<1>5. \A x \in S : x < Max(T) + 1
  <2> SUFFICES ASSUME NEW x \in S
               PROVE  x < Max(T) + 1
    OBVIOUS
  <2>1. x \in Int /\ Max(T) >= x
    BY <1>2 DEF T
  <2> QED BY <1>4, <2>1
<1> QED BY <1>4, <1>5 DEF T

\* get_next_rid and _get_next_comment_id return what no one has.
LEMMA NextRidIsFree ==
  ASSUME NEW pkg \in Package, IsFiniteSet(pkg.rels)
  PROVE  NextRid(pkg) \in Nat /\ \A r \in pkg.rels : r.id < NextRid(pkg)
<1> DEFINE S == {r.id : r \in pkg.rels}
           val == [r \in pkg.rels |-> r.id]
<1>1. val \in [pkg.rels -> Nat] /\ S \in SUBSET Nat
  BY DEF Package
<1>2. PICK b \in Nat : \A r \in pkg.rels : val[r] <= b
  <2> HIDE DEF val
  <2> QED BY <1>1, FiniteBounded
<1>3. \A x \in S : x <= b
  BY <1>2
<1>4. \A r \in pkg.rels : r.id \in S
  OBVIOUS
<1>5. NextRid(pkg) = Max({0} \cup S) + 1
  BY DEF NextRid
<1> HIDE DEF S
<1> QED BY <1>1, <1>3, <1>4, <1>5, MaxOfBounded

LEMMA NextCommentIdIsFree ==
  ASSUME NEW pkg \in Package, IsFiniteSet(pkg.comments)
  PROVE  NextCommentId(pkg) \in Nat /\ \A c \in pkg.comments : c.id < NextCommentId(pkg)
<1> DEFINE S == {c.id : c \in pkg.comments}
           val == [c \in pkg.comments |-> c.id]
<1>1. val \in [pkg.comments -> Nat] /\ S \in SUBSET Nat
  BY DEF Package
<1>2. PICK b \in Nat : \A c \in pkg.comments : val[c] <= b
  <2> HIDE DEF val
  <2> QED BY <1>1, FiniteBounded
<1>3. \A x \in S : x <= b
  BY <1>2
<1>4. \A c \in pkg.comments : c.id \in S
  OBVIOUS
<1>5. NextCommentId(pkg) = Max({-1} \cup S) + 1
  BY DEF NextCommentId
<1> HIDE DEF S
<1> QED BY <1>1, <1>3, <1>4, <1>5, MaxOfBounded

-----------------------------------------------------------------------------
(* Packages.  What the steps of a session do to one.                           *)
LEMMA SameComments ==
  ASSUME NEW p, PackageInv(p), NEW q \in Package,
         q.comments = p.comments, q.extended = p.extended, q.marks = p.marks,
         IsFiniteSet(q.rels), RidsUnique(q)
  PROVE  PackageInv(q)
BY DEF PackageInv, Anchored, RepliesNamed, NoneStray, IdsUnique

LEMMA RelateKeeps ==
  ASSUME NEW p, PackageInv(p), NEW t \in PartNames
  PROVE  /\ PackageInv(Relate(p, t)) /\ Targets(Relate(p, t)) = Targets(p) \cup {t}
         /\ Relate(p, t).parts = p.parts /\ Relate(p, t).comments = p.comments
<1> DEFINE new == [id |-> NextRid(p), target |-> t]
           q == [p EXCEPT !.rels = @ \cup {new}]
<1>1. p \in Package /\ IsFiniteSet(p.rels) /\ RidsUnique(p)
  BY DEF PackageInv
<1>2. NextRid(p) \in Nat /\ \A r \in p.rels : r.id < NextRid(p)
  BY <1>1, NextRidIsFree
<1>3. p.rels \in SUBSET [id : Nat, target : PartNames] /\ new \in [id : Nat, target : PartNames]
  BY <1>1, <1>2 DEF Package
<1>4. /\ q \in Package /\ q.rels = p.rels \cup {new} /\ q.parts = p.parts
      /\ q.comments = p.comments /\ q.extended = p.extended /\ q.marks = p.marks
  <2> HIDE DEF new
  <2> QED BY <1>1, <1>3 DEF Package
<1>5. IsFiniteSet(q.rels)
  BY <1>1, <1>4, FS_AddElement
<1>6. RidsUnique(q)
  <2>1. \A r \in p.rels : r.id \in Nat /\ r.id # new.id
    BY <1>2, <1>3
  <2> HIDE DEF new
  <2> QED BY <1>1, <1>4, <2>1 DEF RidsUnique
<1>7. Targets(q) = Targets(p) \cup {t}
  <2>1. new.target = t
    OBVIOUS
  <2> HIDE DEF new, q
  <2> QED BY <1>4, <2>1 DEF Targets
<1>8. PackageInv(q)
  <2> HIDE DEF q
  <2> QED BY <1>4, <1>5, <1>6, SameComments
<1>9. q = Relate(p, t)
  BY DEF Relate
<1> QED BY <1>4, <1>7, <1>8, <1>9

LEMMA WithPeopleKeeps ==
  ASSUME NEW p, PackageInv(p), FilesReferenced(p)
  PROVE  /\ PackageInv(WithPeople(p)) /\ WithPeople(p).comments = p.comments
         /\ Targets(WithPeople(p)) = p.parts \cup {"people"}
         /\ WithPeople(p).parts = p.parts \cup {"people"}
<1> DEFINE related == IF HasRelationship(p, "people") THEN p ELSE Relate(p, "people")
           q == [related EXCEPT !.parts = @ \cup {"people"}, !.types = @ \cup {"people"}]
<1>1. Targets(p) = p.parts
  BY DEF FilesReferenced, Targets
<1>2. /\ PackageInv(related) /\ Targets(related) = p.parts \cup {"people"}
      /\ related.parts = p.parts /\ related.comments = p.comments
  <2>1. CASE HasRelationship(p, "people")
    <3>1. "people" \in Targets(p)
      BY <2>1 DEF HasRelationship, Targets
    <3> QED BY <1>1, <2>1, <3>1
  <2>2. CASE ~HasRelationship(p, "people")
    <3>1. "people" \in PartNames
      BY CommentsAssumption
    <3> QED BY <1>1, <2>2, <3>1, RelateKeeps
  <2> QED BY <2>1, <2>2
<1> HIDE DEF related
<1>3. /\ q \in Package /\ q.rels = related.rels /\ q.parts = related.parts \cup {"people"}
      /\ q.comments = related.comments /\ q.extended = related.extended /\ q.marks = related.marks
  <2>1. related \in Package /\ "people" \in PartNames
    BY <1>2, CommentsAssumption DEF PackageInv
  <2> QED BY <2>1 DEF Package
<1>4. PackageInv(q)
  <2>1. IsFiniteSet(q.rels) /\ RidsUnique(q)
    BY <1>2, <1>3 DEF PackageInv, RidsUnique
  <2> HIDE DEF q
  <2> QED BY <1>2, <1>3, <2>1, SameComments
<1>5. Targets(q) = Targets(related)
  BY <1>3 DEF Targets
<1>6. q = WithPeople(p)
  BY DEF WithPeople, related
<1> HIDE DEF q
<1> QED BY <1>2, <1>3, <1>4, <1>5, <1>6

\* The four relationships of one save.
LEMMA CompanionsRelated ==
  ASSUME NEW p, PackageInv(p)
  PROVE  LET n == NextRid(p)
             rels == {[id |-> n, target |-> "comments"], [id |-> n + 1, target |-> "commentsExtended"],
                      [id |-> n + 2, target |-> "commentsIds"], [id |-> n + 3, target |-> "commentsExtensible"]}
         IN /\ rels \in SUBSET [id : Nat, target : PartNames] /\ IsFiniteSet(p.rels \cup rels)
            /\ \A r, s \in p.rels \cup rels : r.id = s.id => r = s
            /\ {r.target : r \in p.rels \cup rels} = Targets(p) \cup CommentParts
<1> DEFINE n == NextRid(p)
           r1 == [id |-> n, target |-> "comments"]
           r2 == [id |-> n + 1, target |-> "commentsExtended"]
           r3 == [id |-> n + 2, target |-> "commentsIds"]
           r4 == [id |-> n + 3, target |-> "commentsExtensible"]
           rels == {r1, r2, r3, r4}
<1>1. p \in Package /\ IsFiniteSet(p.rels) /\ RidsUnique(p)
  BY DEF PackageInv
<1>2. n \in Nat /\ \A r \in p.rels : r.id \in Nat /\ r.id < n
  BY <1>1, NextRidIsFree DEF Package
<1> HIDE DEF n
<1>3. /\ r1 \in [id : Nat, target : PartNames] /\ r2 \in [id : Nat, target : PartNames]
      /\ r3 \in [id : Nat, target : PartNames] /\ r4 \in [id : Nat, target : PartNames]
  BY <1>2, CommentsAssumption DEF CommentParts
<1>4. /\ r1.id = n /\ r2.id = n + 1 /\ r3.id = n + 2 /\ r4.id = n + 3
      /\ r1.target = "comments" /\ r2.target = "commentsExtended"
      /\ r3.target = "commentsIds" /\ r4.target = "commentsExtensible"
  OBVIOUS
<1> HIDE DEF r1, r2, r3, r4
<1>5. IsFiniteSet(p.rels \cup rels)
  <2>1. p.rels \cup rels = (((p.rels \cup {r1}) \cup {r2}) \cup {r3}) \cup {r4}
    OBVIOUS
  <2>2. IsFiniteSet((p.rels \cup {r1}) \cup {r2})
    BY <1>1, FS_AddElement
  <2>3. IsFiniteSet(((p.rels \cup {r1}) \cup {r2}) \cup {r3})
    BY <2>2, FS_AddElement
  <2>4. IsFiniteSet((((p.rels \cup {r1}) \cup {r2}) \cup {r3}) \cup {r4})
    BY <2>3, FS_AddElement
  <2> QED BY <2>1, <2>4
<1>6. \A r, s \in p.rels \cup rels : r.id = s.id => r = s
  <2>1. \A r, s \in p.rels : r.id = s.id => r = s
    BY <1>1 DEF RidsUnique
  <2>2. \A r, s \in rels : r.id = s.id => r = s
    BY <1>2, <1>4
  <2>3. \A r \in p.rels, s \in rels : r.id # s.id
    BY <1>2, <1>4
  <2> HIDE DEF rels
  <2> QED BY <2>1, <2>2, <2>3
<1>7. {r.target : r \in p.rels \cup rels} = Targets(p) \cup CommentParts
  <2>1. {r.target : r \in rels} = CommentParts
    BY <1>4 DEF CommentParts
  <2> HIDE DEF rels
  <2> QED BY <2>1 DEF Targets
<1>8. rels \in SUBSET [id : Nat, target : PartNames]
  BY <1>3
<1> QED BY <1>5, <1>6, <1>7, <1>8 DEF n, r1, r2, r3, r4

LEMMA EnsuredKeeps ==
  ASSUME NEW p, PackageInv(p)
  PROVE  /\ PackageInv(Ensured(p)) /\ Ensured(p).comments = p.comments /\ Ensured(p).parts = p.parts
         /\ WillBeReferenced(p) => FilesReferenced(Ensured(p))
<1> DEFINE n == NextRid(p)
           rels == {[id |-> n, target |-> "comments"], [id |-> n + 1, target |-> "commentsExtended"],
                    [id |-> n + 2, target |-> "commentsIds"], [id |-> n + 3, target |-> "commentsExtensible"]}
           R == IF HasRelationship(p, "comments") THEN {} ELSE rels
           T == IF "comments" \in p.types THEN {} ELSE CommentParts
           q == [p EXCEPT !.rels = @ \cup R, !.types = @ \cup T]
<1>1. CASE "comments" \notin p.parts
  <2>1. Ensured(p) = p
    BY <1>1 DEF Ensured
  <2>2. WillBeReferenced(p) => FilesReferenced(p)
    BY <1>1 DEF WillBeReferenced, FilesReferenced, Targets, CommentParts
  <2> QED BY <2>1, <2>2
<1>2. CASE "comments" \in p.parts
  <2>1. p \in Package /\ IsFiniteSet(p.rels) /\ RidsUnique(p)
    BY DEF PackageInv
  <2>2. /\ rels \in SUBSET [id : Nat, target : PartNames] /\ IsFiniteSet(p.rels \cup rels)
        /\ \A r, s \in p.rels \cup rels : r.id = s.id => r = s
        /\ {r.target : r \in p.rels \cup rels} = Targets(p) \cup CommentParts
    BY CompanionsRelated
  <2>3. q = Ensured(p)
    BY <1>2 DEF Ensured
  <2> HIDE DEF rels
  <2>4. /\ p.rels \cup R \in SUBSET [id : Nat, target : PartNames] /\ IsFiniteSet(p.rels \cup R)
        /\ \A r, s \in p.rels \cup R : r.id = s.id => r = s
    <3>1. CASE HasRelationship(p, "comments")
      <4>1. p.rels \cup R = p.rels
        BY <3>1
      <4> HIDE DEF R
      <4> QED BY <2>1, <4>1 DEF RidsUnique, Package
    <3>2. CASE ~HasRelationship(p, "comments")
      <4>1. R = rels
        BY <3>2
      <4> HIDE DEF R
      <4>2. p.rels \in SUBSET [id : Nat, target : PartNames]
        BY <2>1 DEF Package
      <4> QED BY <2>2, <4>1, <4>2
    <3> QED BY <3>1, <3>2
  <2>5. WillBeReferenced(p) => {r.target : r \in p.rels \cup R} = p.parts
    <3> SUFFICES ASSUME WillBeReferenced(p)
                 PROVE  {r.target : r \in p.rels \cup R} = p.parts
      OBVIOUS
    <3>1. CASE HasRelationship(p, "comments")
      <4>1. "comments" \in Targets(p)
        BY <3>1 DEF HasRelationship, Targets
      <4>2. Targets(p) = p.parts
        BY <4>1 DEF WillBeReferenced
      <4> QED BY <3>1, <4>2 DEF Targets
    <3>2. CASE ~HasRelationship(p, "comments")
      <4>1. "comments" \notin Targets(p)
        BY <3>2 DEF HasRelationship, Targets
      <4>2. p.parts = Targets(p) \cup CommentParts
        BY <1>2, <4>1 DEF WillBeReferenced
      <4> QED BY <2>2, <3>2, <4>2
    <3> QED BY <3>1, <3>2
  <2> HIDE DEF R
  <2>6. T \in SUBSET PartNames
    BY CommentsAssumption
  <2> HIDE DEF T
  <2>7. /\ q \in Package /\ q.rels = p.rels \cup R /\ q.parts = p.parts
        /\ q.comments = p.comments /\ q.extended = p.extended /\ q.marks = p.marks
    BY <2>1, <2>4, <2>6 DEF Package
  <2>8. PackageInv(q)
    <3>1. IsFiniteSet(q.rels) /\ RidsUnique(q)
      BY <2>4, <2>7 DEF RidsUnique
    <3> HIDE DEF q
    <3> QED BY <2>7, <3>1, SameComments
  <2>9. WillBeReferenced(p) => FilesReferenced(q)
    BY <2>5, <2>7 DEF FilesReferenced
  <2> QED BY <2>3, <2>7, <2>8, <2>9
<1> QED BY <1>1, <1>2

\* A comment with its markers joins those that are there.
Joining(p, c, parent, n) ==
  /\ PackageInv(p) /\ c \in [id : Nat, para : Nat] /\ \A d \in p.comments : d.id < c.id
  /\ parent \in Nat \cup {NoParent}
  /\ parent # NoParent => \E d \in p.comments : d.para = parent
  /\ \E a, b \in Nat, x, y, z \in Marks :
       /\ a <= b /\ b <= Len(p.marks)
       /\ Triple(x, y, z, c.id) /\ Inserted(p.marks, n, a, b, x, y, z)

LEMMA CommentJoins ==
  ASSUME NEW p, NEW c, NEW parent, NEW n, Joining(p, c, parent, n)
  PROVE  LET q == WithComment(p, c, parent, n)
         IN /\ PackageInv(q) /\ q.comments = p.comments \cup {c}
            /\ Targets(q) = Targets(p) /\ q.parts = p.parts \cup CommentParts
<1> DEFINE q == WithComment(p, c, parent, n)
           e == [para |-> c.para, parent |-> parent]
<1>0. /\ PackageInv(p) /\ c \in [id : Nat, para : Nat] /\ \A d \in p.comments : d.id < c.id
      /\ parent \in Nat \cup {NoParent}
      /\ parent # NoParent => \E d \in p.comments : d.para = parent
  BY DEF Joining
<1>a. PICK a, b \in Nat, x, y, z \in Marks :
        /\ a <= b /\ b <= Len(p.marks)
        /\ Triple(x, y, z, c.id) /\ Inserted(p.marks, n, a, b, x, y, z)
  BY DEF Joining
<1> USE <1>0, <1>a
<1>1. PICK m \in Seq(Marks) : m = p.marks
  BY DEF PackageInv, Package, Marks
<1>2. PICK l \in Nat : l = Len(m) /\ b <= l
  BY <1>1
<1>3. DOMAIN m = 1..l /\ DOMAIN n = 1..l + 3 /\ n \in Seq(Marks)
  BY <1>1, <1>2 DEF Inserted
<1>4. p \in Package /\ e \in [para : Nat, parent : Nat \cup {NoParent}]
  BY DEF PackageInv
<1>5. q = [p EXCEPT !.parts = @ \cup CommentParts, !.comments = @ \cup {c},
                    !.extended = @ \cup {e}, !.marks = n]
  BY DEF WithComment
<1>6. e.parent = parent
  OBVIOUS
<1> HIDE DEF e, q
<1>7. /\ q \in Package /\ q.rels = p.rels /\ q.parts = p.parts \cup CommentParts
      /\ q.comments = p.comments \cup {c} /\ q.extended = p.extended \cup {e} /\ q.marks = n
  <2>1. CommentParts \in SUBSET PartNames
    BY CommentsAssumption
  <2> QED BY <1>3, <1>4, <1>5, <2>1 DEF Package, Marks
<1>8. \A d \in p.comments : d.id # c.id /\ d.id \in Nat
  BY <1>4 DEF Package
<1>9. \A i \in 1..l : m[i].kind # "text" => \E d \in p.comments : d.id = m[i].id
  BY <1>1, <1>3 DEF PackageInv, NoneStray
<1>10. \A i \in DOMAIN m : m[i].kind = "text" \/ m[i].id # c.id
  BY <1>3, <1>8, <1>9
<1>11. \A d \in q.comments : AnchoredAt(n, d.id)
  <2>1. \A d \in p.comments : AnchoredAt(m, d.id)
    BY <1>1, AnchoredMeans DEF PackageInv
  <2>2. ASSUME NEW d \in p.comments
        PROVE  AnchoredAt(n, d.id)
    BY <1>1, <1>8, <2>1, AnchorsStay
  <2>3. AnchoredAt(n, c.id)
    BY <1>1, <1>10, AnchorIsNew
  <2> QED BY <1>7, <2>2, <2>3
<1>12. Anchored(q)
  BY <1>3, <1>7, <1>11, AnchoredMeans
<1>13. NoneStray(q)
  <2> SUFFICES ASSUME NEW i \in 1..l + 3, n[i].kind # "text"
               PROVE  \E d \in p.comments \cup {c} : d.id = n[i].id
    BY <1>3, <1>7 DEF NoneStray
  <2>1. CASE i = a + 1 \/ i = b + 2 \/ i = b + 3
    <3>1. n[a + 1] = x /\ n[b + 2] = y /\ n[b + 3] = z
      BY DEF Inserted
    <3>2. x.id = c.id
      BY DEF Triple, Marker
    <3>3. y.id = c.id
      BY DEF Triple, Marker
    <3>4. z.id = c.id
      BY DEF Triple, Marker
    <3> QED BY <2>1, <3>1, <3>2, <3>3, <3>4
  <2>2. CASE ~(i = a + 1 \/ i = b + 2 \/ i = b + 3)
    <3>1. \A h \in 1..l + 3 : h = a + 1 \/ h = b + 2 \/ h = b + 3 \/ \E k \in 1..l : h = Moved(k, a, b)
      <4> HIDE <1>0
      <4> QED BY <1>2, <1>a, MovedOnto
    <3>2. PICK k \in 1..l : i = Moved(k, a, b)
      BY <2>2, <3>1
    <3>3. n[i] = m[k]
      BY <1>1, <1>2, <3>2 DEF Inserted
    <3> QED BY <1>9, <3>3
  <2> QED BY <2>1, <2>2
<1>14. IdsUnique(q)
  <2>1. \A d, f \in q.comments : d.id = f.id => d = f
    <3>1. \A d, f \in p.comments : d.id = f.id => d = f
      BY DEF PackageInv, IdsUnique
    <3> QED BY <1>7, <1>8, <3>1
  <2>2. ASSUME NEW i \in DOMAIN n, NEW j \in DOMAIN n, n[i].kind \in {"start", "end"}, n[i] = n[j]
        PROVE  i = j
    <3>1. PICK d \in q.comments : d.id = n[i].id
      BY <1>7, <1>13, <2>2 DEF NoneStray
    <3>2. n[i] = Marker(n[i].kind, d.id)
      <4>1. n[i] \in Marks
        BY <1>3
      <4> QED BY <3>1, <4>1 DEF Marks, Marker
    <3>3. AnchoredAt(n, d.id)
      BY <1>11
    <3> QED BY <2>2, <3>2, <3>3 DEF AnchoredAt, OnlyAt
  <2> QED BY <1>7, <2>1, <2>2 DEF IdsUnique
<1>15. RepliesNamed(q)
  BY <1>6, <1>7 DEF PackageInv, RepliesNamed
<1>16. IsFiniteSet(q.rels) /\ IsFiniteSet(q.comments) /\ RidsUnique(q) /\ Targets(q) = Targets(p)
  <2>1. IsFiniteSet(p.rels) /\ IsFiniteSet(p.comments) /\ RidsUnique(p)
    BY DEF PackageInv
  <2>2. IsFiniteSet(p.comments \cup {c})
    BY <2>1, FS_AddElement
  <2> QED BY <1>7, <2>1, <2>2 DEF RidsUnique, Targets
<1> QED BY <1>7, <1>12, <1>13, <1>14, <1>15, <1>16 DEF PackageInv, q

-----------------------------------------------------------------------------
(* Steps.                                                                      *)
LEMMA CommentedStep ==
  ASSUME CommentsInv, SessionInv, NEW parent \in Nat \cup {NoParent},
         parent # NoParent => \E d \in session.pkg.comments : d.para = parent,
         NEW n, NEW a \in Nat, NEW b \in Nat, a <= b, b <= Len(session.pkg.marks),
         NEW x \in Marks, NEW y \in Marks, NEW z \in Marks, Triple(x, y, z, session.next),
         Inserted(session.pkg.marks, n, a, b, x, y, z), Commented(parent, n)
  PROVE  CommentsInv'
<1>1. PICK p, ex, next :
        /\ session = [open |-> TRUE, pkg |-> p, existing |-> ex, next |-> next]
        /\ p = session.pkg /\ ex = session.existing /\ next = session.next
        /\ p \in Package /\ ex \in SUBSET [id : Nat, para : Nat] /\ next \in Nat
  BY DEF SessionInv
<1> DEFINE c == [id |-> next, para |-> minted + 1]
           q == WithComment(p, c, parent, n)
<1>2. NewComment = c /\ c.id = next /\ c \in [id : Nat, para : Nat]
  BY <1>1 DEF NewComment, CommentsInv
<1> HIDE DEF c
<1>3. /\ PackageInv(p) /\ ex \subseteq p.comments /\ \A d \in p.comments : d.id < next
      /\ Legacy(stored) \/ (WillBeReferenced(p) /\ ~Legacy(p))
  BY <1>1 DEF SessionInv
<1>4. /\ PackageInv(q) /\ q.comments = p.comments \cup {c}
      /\ Targets(q) = Targets(p) /\ q.parts = p.parts \cup CommentParts
  <2>1. Triple(x, y, z, c.id) /\ \A d \in p.comments : d.id < c.id
    BY <1>1, <1>2, <1>3
  <2>2. Inserted(p.marks, n, a, b, x, y, z) /\ b <= Len(p.marks)
    BY <1>1
  <2>3. parent # NoParent => \E d \in p.comments : d.para = parent
    BY <1>1
  <2>4. Joining(p, c, parent, n)
    BY <1>2, <1>3, <2>1, <2>2, <2>3 DEF Joining
  <2> QED BY <2>4, CommentJoins
<1>5. /\ session' = [session EXCEPT !.pkg = q, !.existing = ex \cup {c}, !.next = next + 1]
      /\ minted' = minted + 1 /\ UNCHANGED <<stored, refused>>
  BY <1>1, <1>2 DEF Commented
<1> HIDE DEF q
<1>6. session' = [open |-> TRUE, pkg |-> q, existing |-> ex \cup {c}, next |-> next + 1]
  BY <1>1, <1>5
<1>7. \A d \in q.comments : d.id < next + 1
  <2>1. \A d \in p.comments : d.id \in Nat /\ d.id < next
    BY <1>1, <1>3 DEF Package
  <2>2. \A d \in p.comments : d.id < next + 1
    BY <1>1, <2>1
  <2> QED BY <1>1, <1>2, <1>4, <2>2
<1>8. WillBeReferenced(p) /\ ~Legacy(p) => WillBeReferenced(q) /\ ~Legacy(q)
  <2>1. "comments" \in CommentParts
    BY DEF CommentParts
  <2> QED BY <1>4, <2>1 DEF WillBeReferenced, Legacy
<1>9. SessionInv'
  <2>1. q \in Package /\ ex \cup {c} \in SUBSET [id : Nat, para : Nat] /\ next + 1 \in Nat
    BY <1>1, <1>2, <1>4 DEF PackageInv
  <2>2. (Legacy(stored))' = Legacy(stored)
    BY <1>5 DEF Legacy
  <2> QED BY <1>3, <1>4, <1>6, <1>7, <1>8, <2>1, <2>2 DEF SessionInv
<1> QED BY <1>5, <1>9 DEF CommentsInv

LEMMA AddCommentStep ==
  ASSUME CommentsInv, NEW i, NEW j, AddComment(i, j)
  PROVE  CommentsInv'
<1>1. SessionInv
  BY DEF AddComment, Room, CommentsInv, Closed
<1>2. PICK m \in Seq(Marks), id \in Nat : m = session.pkg.marks /\ id = session.next
  BY <1>1 DEF SessionInv, Package, Marks
<1> DEFINE x == Marker("start", id)
           y == Marker("end", id)
           z == Marker("ref", id)
           n == SubSeq(m, 1, i - 1) \o <<x>> \o SubSeq(m, i, j) \o <<y, z>> \o SubSeq(m, j + 1, Len(m))
<1>3. i \in DOMAIN m /\ j \in DOMAIN m /\ i <= j /\ Commented(NoParent, n)
  BY <1>2 DEF AddComment
<1>4. PICK a \in Nat : i = a + 1 /\ i - 1 = a /\ a <= j /\ j \in Nat /\ j <= Len(m)
  <2>1. i - 1 \in Nat /\ i = (i - 1) + 1 /\ i - 1 <= j /\ j \in Nat /\ j <= Len(m)
    BY <1>2, <1>3
  <2> QED BY <2>1
<1>5. x \in Marks /\ y \in Marks /\ z \in Marks /\ Triple(x, y, z, id)
  BY DEF Marks, Marker, Triple
<1> HIDE DEF x, y, z
<1>6. Inserted(m, n, a, j, x, y, z)
  BY <1>4, <1>5, InsertedMarks
<1> HIDE DEF n
<1> QED BY <1>1, <1>2, <1>3, <1>4, <1>5, <1>6, CommentedStep

LEMMA ReplyToStep ==
  ASSUME CommentsInv, session.open, NEW parent \in session.existing, ReplyTo(parent)
  PROVE  CommentsInv'
<1>1. SessionInv
  BY DEF CommentsInv, Closed
<1>2. PICK m \in Seq(Marks), id \in Nat : m = session.pkg.marks /\ id = session.next
  BY <1>1 DEF SessionInv, Package, Marks
<1> DEFINE x == Marker("start", id)
           y == Marker("ref", id)
           z == Marker("end", id)
           N(s, r) == SubSeq(m, 1, s) \o <<x>> \o SubSeq(m, s + 1, r) \o <<y, z>> \o SubSeq(m, r + 1, Len(m))
<1>3. PICK s \in Found(m, "start", parent.id), r \in Found(m, "ref", parent.id) :
        Commented(parent.para, N(s, r))
  BY <1>2 DEF ReplyTo
<1>4. parent \in session.pkg.comments /\ parent \in [id : Nat, para : Nat]
  BY <1>1 DEF SessionInv
<1>5. s \in Nat /\ r \in Nat /\ s <= r /\ r <= Len(m)
  <2>1. s \in 1..Len(m) /\ r \in 1..Len(m)
    BY DEF Found
  <2>2. s < r
    BY <1>1, <1>2, <1>4 DEF SessionInv, PackageInv, Anchored
  <2> QED BY <2>1, <2>2
<1>6. x \in Marks /\ y \in Marks /\ z \in Marks /\ Triple(x, y, z, id)
  BY DEF Marks, Marker, Triple
<1> HIDE DEF x, y, z
<1>7. Inserted(m, N(s, r), s, r, x, y, z)
  BY <1>5, <1>6, InsertedMarks
<1> HIDE DEF N
<1>8. parent.para \in Nat \cup {NoParent} /\ \E d \in session.pkg.comments : d.para = parent.para
  BY <1>4
<1> QED BY <1>1, <1>2, <1>3, <1>5, <1>6, <1>7, <1>8, CommentedStep

LEMMA OpenStep ==
  ASSUME CommentsInv, Open
  PROVE  CommentsInv'
<1> DEFINE p == WithPeople(stored)
           ex == ExistingComments(stored)
           next == NextCommentId(stored)
<1>1. PackageInv(stored) /\ FilesReferenced(stored) /\ stored \in Package /\ IsFiniteSet(stored.comments)
  BY DEF CommentsInv, PackageInv
<1>2. session' = [open |-> TRUE, pkg |-> p, existing |-> ex, next |-> next]
      /\ UNCHANGED <<stored, minted>> /\ refused' = FALSE
  BY DEF Open
<1>3. /\ PackageInv(p) /\ p.comments = stored.comments
      /\ Targets(p) = stored.parts \cup {"people"} /\ p.parts = stored.parts \cup {"people"}
  BY <1>1, WithPeopleKeeps
<1>4. next \in Nat /\ \A c \in stored.comments : c.id < next
  BY <1>1, NextCommentIdIsFree
<1>5. ex \subseteq stored.comments /\ ex \in SUBSET [id : Nat, para : Nat]
  BY <1>1 DEF ExistingComments, Package
<1> HIDE DEF p, ex, next
<1>6. Legacy(stored) \/ (WillBeReferenced(p) /\ ~Legacy(p))
  BY <1>3 DEF WillBeReferenced, Legacy, CommentParts
<1>7. SessionInv'
  <2>1. p \in Package
    BY <1>3 DEF PackageInv
  <2>2. (Legacy(stored))' = Legacy(stored)
    BY <1>2 DEF Legacy
  <2> QED BY <1>2, <1>3, <1>4, <1>5, <1>6, <2>1, <2>2 DEF SessionInv
<1> QED BY <1>2, <1>7 DEF CommentsInv

LEMMA SaveStep ==
  ASSUME CommentsInv, Save
  PROVE  CommentsInv'
<1>1. SessionInv
  BY DEF Save, CommentsInv, Closed
<1>2. PICK p, ex, next :
        /\ session = [open |-> TRUE, pkg |-> p, existing |-> ex, next |-> next]
        /\ p \in Package /\ ex \in SUBSET [id : Nat, para : Nat] /\ next \in Nat
        /\ PackageInv(p) /\ ex \subseteq p.comments /\ \A d \in p.comments : d.id < next
        /\ Legacy(stored) \/ (WillBeReferenced(p) /\ ~Legacy(p))
  BY <1>1 DEF SessionInv
<1> DEFINE q == Ensured(p)
           valid == FilesReferenced(q) /\ IdsUnique(q) /\ RidsUnique(q)
<1>3. /\ stored' = IF valid THEN q ELSE stored
      /\ refused' = ~valid /\ minted' = minted
      /\ session' = [open |-> TRUE, pkg |-> q, existing |-> ex, next |-> next]
  BY <1>2 DEF Save
<1>4. /\ PackageInv(q) /\ q.comments = p.comments /\ q.parts = p.parts
      /\ WillBeReferenced(p) => FilesReferenced(q)
  BY <1>2, EnsuredKeeps
<1> HIDE DEF q
<1>5. valid <=> FilesReferenced(q)
  BY <1>4 DEF PackageInv
<1>6. FilesReferenced(q) => Legacy(q) \/ WillBeReferenced(q)
  BY DEF FilesReferenced, Targets, WillBeReferenced
<1>7. Legacy(q) <=> Legacy(p)
  BY <1>4 DEF Legacy
<1>8. Legacy(stored') \/ (WillBeReferenced(q) /\ ~Legacy(q))
  <2>1. CASE Legacy(stored) /\ ~valid
    BY <1>3, <2>1
  <2>2. CASE Legacy(stored) /\ valid
    BY <1>3, <1>5, <1>6, <2>2
  <2>3. CASE ~Legacy(stored)
    BY <1>2, <1>4, <1>6, <1>7, <2>3
  <2> QED BY <2>1, <2>2, <2>3
<1>9. refused' => Legacy(stored')
  BY <1>2, <1>3, <1>4, <1>5
<1>10. PackageInv(stored') /\ FilesReferenced(stored')
  BY <1>3, <1>4, <1>5 DEF CommentsInv
<1> HIDE DEF valid
<1>11. SessionInv'
  <2>1. q \in Package
    BY <1>4 DEF PackageInv
  <2>2. /\ session' \in [open : {TRUE}, pkg : Package, existing : SUBSET [id : Nat, para : Nat], next : Nat]
        /\ session'.pkg = q /\ session'.existing = ex /\ session'.next = next
    BY <1>2, <1>3, <2>1
  <2> QED BY <1>2, <1>4, <1>8, <2>2 DEF SessionInv
<1> QED BY <1>3, <1>9, <1>10, <1>11 DEF CommentsInv

LEMMA CommentsKept == CommentsInv /\ [CommentsNext]_commentVars => CommentsInv'
<1> SUFFICES ASSUME CommentsInv, [CommentsNext]_commentVars
             PROVE  CommentsInv'
  OBVIOUS
<1>1. CASE UNCHANGED commentVars
  BY <1>1 DEF commentVars, CommentsInv, SessionInv
<1>2. CASE Open
  BY <1>2, OpenStep
<1>3. CASE Save
  BY <1>3, SaveStep
<1>4. CASE Leave
  BY <1>4 DEF Leave, CommentsInv
<1>5. ASSUME NEW i, NEW j, AddComment(i, j)
      PROVE  CommentsInv'
  BY <1>5, AddCommentStep
<1>6. ASSUME session.open, NEW c \in session.existing, ReplyTo(c)
      PROVE  CommentsInv'
  BY <1>6, ReplyToStep
<1> QED BY <1>1, <1>2, <1>3, <1>4, <1>5, <1>6 DEF CommentsNext

(* Comments.  Whatever sessions add, save and abandon, over any package that  *)
(* other programs left well-formed: what is on disk has, for every comment, one *)
(* range and one reference with the start of the range first, its replies name *)
(* a comment that is there, and a save is refused only when the package came   *)
(* with comments.xml and without its companions (Document.add_comment,         *)
(* reply_to_comment, save).                                                    *)
THEOREM CommentsHangTogetherAlways == CommentsSpec => []CommentsHangTogether
<1>1. CommentsInit => CommentsInv
  <2> SUFFICES ASSUME CommentsInit
               PROVE  CommentsInv
    OBVIOUS
  <2>1. WellFormed(stored)
    BY PackagesAssumption DEF CommentsInit
  <2>2. minted \in Nat
    BY <2>1, FS_CardinalityType DEF CommentsInit, WellFormed
  <2> QED BY <2>1, <2>2 DEF CommentsInit, WellFormed, CommentsInv, PackageInv
<1>2. CommentsInv => CommentsHangTogether
  BY DEF CommentsInv, PackageInv, CommentsHangTogether
<1> QED BY <1>1, <1>2, CommentsKept, PTL DEF CommentsSpec
=============================================================================
