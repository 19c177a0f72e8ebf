------------------------------- MODULE Artifacts -------------------------------
(***************************************************************************)
(* The artifact of a document skill, from the sandbox to a download           *)
(* (services/execute/skill_runner.py, services/execute/sandbox.py,             *)
(* services/object_storage, api/routes/files.py, api/routes/artifacts.py).     *)
(* The runs of a runtime share one sandbox; each has a working directory        *)
(* there and an artifact id in object storage.  What happens to the row of a    *)
(* run after it is written is in Execution.                                   *)
(***************************************************************************)
EXTENDS Naturals, FiniteSets

CONSTANTS
  Jobs,        \* skill executions
  SkillOf,     \* SkillOf[r]: the skill of an execution
  FileNames,   \* names a script may give its files
  Sizes,       \* their sizes
  MaxBytes,    \* skill_max_artifact_bytes
  UrlTtl,      \* skill_download_url_ttl_seconds
  MaxClock,    \* bound on the clock
  Nothing      \* no file, no object

ASSUME ArtifactsAssumption ==
  /\ Sizes \subseteq Nat /\ MaxBytes \in Nat /\ UrlTtl \in Nat /\ MaxClock \in Nat

VARIABLES
  job,        \* the executions
  disk,       \* disk[d]: the files in directory d of the sandbox
  object,     \* object[r]: what is stored under the artifact id of r
  issued,     \* URLs handed out: [job, expires]
  downloads,  \* what a client downloaded: [job, expires, data, at]
  time        \* int(time.time())

artifactVars == <<job, disk, object, issued, downloads, time>>

NewJob == [pc |-> "new", file |-> Nothing, outcome |-> "none", listed |-> FALSE]

\* Mutant: one working directory for each skill.
WorkingDirOfSkill(r) == SkillOf[r]

\* working_dir: a fresh uuid for each execution.
WorkingDir(r) == r

Dirs == Jobs \cup {SkillOf[r] : r \in Jobs}

ArtifactsInit ==
  /\ job = [r \in Jobs |-> NewJob]
  /\ disk = [d \in Dirs |-> {}]
  /\ object = [r \in Jobs |-> Nothing]
  /\ issued = {} /\ downloads = {}
  /\ time = 0

At(r, pc) == job[r].pc = pc

\* _record_skill_execution for an execution without an artifact.
Fail(r, kind) == job' = [job EXCEPT ![r].pc = "ended", ![r].outcome = kind]

Step(r, pc) == job' = [job EXCEPT ![r].pc = pc]

(* write_files and mkdir; any exception of the sandbox is recorded.          *)
Stage(r) ==
  /\ At(r, "new")
  /\ Step(r, "run") \/ Fail(r, "sandbox_error")
  /\ UNCHANGED <<disk, object, issued, downloads, time>>

Written(r, files) == [disk EXCEPT ![WorkingDir(r)] = @ \cup files]

ScriptFiles(r) == {{}} \cup {{[job |-> r, name |-> n, size |-> s]} : n \in FileNames, s \in Sizes}

(* The script writes what it writes, one file at a time, and exits.          *)
WriteFile(r) ==
  /\ At(r, "run") \/ At(r, "stray")
  /\ \E files \in ScriptFiles(r) \ {{}} :
       /\ \A f \in files, g \in disk[WorkingDir(r)] : g.job = r => f.name # g.name
       /\ disk' = Written(r, files)
  /\ UNCHANGED <<job, object, issued, downloads, time>>

(* run_python_script, or node: the exit code decides.  When the call to the    *)
(* sandbox raises, the script may still be running there.                    *)
RunScript(r) ==
  /\ At(r, "run")
  /\ \/ Step(r, "list")
     \/ Fail(r, "script_error")
     \/ job' = [job EXCEPT ![r].pc = "stray", ![r].outcome = "sandbox_error"]
  /\ UNCHANGED <<disk, object, issued, downloads, time>>

(* list_files: in the order of find, that is in any order; a failing find      *)
(* lists nothing.                                                            *)
ListFiles(r) ==
  /\ At(r, "list")
  /\ \/ \E f \in disk[WorkingDir(r)] :
          job' = [job EXCEPT ![r].pc = "read", ![r].file = f.name]
     \/ Fail(r, "no_output")
     \/ Fail(r, "raised")
  /\ UNCHANGED <<disk, object, issued, downloads, time>>

Named(r) == {f \in disk[WorkingDir(r)] : f.name = job[r].file}

(* read_file: a RuntimeError of it is reported as a file that is too large,    *)
(* any other exception leaves the handler.                                   *)
ReadFile(r) ==
  /\ At(r, "read")
  /\ \/ \E f \in Named(r) : /\ f.size <= MaxBytes
                            /\ job' = [job EXCEPT ![r].pc = "upload", ![r].file = f]
     \/ Fail(r, "artifact_too_large")
     \/ Fail(r, "raised")
  /\ UNCHANGED <<disk, object, issued, downloads, time>>

\* _sign_url, _sas_url
Expiry == time + IF UrlTtl < 1 THEN 1 ELSE UrlTtl

(* upload, and the row with the URL; an upload that fails leaves no row.      *)
Upload(r) ==
  /\ At(r, "upload")
  /\ \/ /\ object' = [object EXCEPT ![r] = job[r].file]
        /\ issued' = issued \cup {[job |-> r, expires |-> Expiry]}
        /\ job' = [job EXCEPT ![r].pc = "ended", ![r].outcome = "success", ![r].listed = TRUE]
     \/ Fail(r, "raised") /\ UNCHANGED <<object, issued>>
  /\ UNCHANGED <<disk, downloads, time>>

(* GET /files: a fresh URL for each listed row.                              *)
ListItem(r) ==
  /\ job[r].listed
  /\ issued' = issued \cup {[job |-> r, expires |-> Expiry]}
  /\ UNCHANGED <<job, disk, object, downloads, time>>

(* DELETE /files: the object, then the row.                                 *)
DeleteFile(r) ==
  /\ job[r].listed
  /\ object' = [object EXCEPT ![r] = Nothing]
  /\ job' = [job EXCEPT ![r].listed = FALSE]
  /\ UNCHANGED <<disk, issued, downloads, time>>

\* verify_signed_url, download_artifact
Verified(u) == time <= u.expires /\ object[u.job] # Nothing

Download(u) ==
  /\ Verified(u)
  /\ downloads' = downloads \cup {[job |-> u.job, expires |-> u.expires,
                                   data |-> object[u.job], at |-> time]}
  /\ UNCHANGED <<job, disk, object, issued, time>>

PassTime == /\ time < MaxClock
            /\ time' = time + 1
            /\ UNCHANGED <<job, disk, object, issued, downloads>>

ArtifactsNext ==
  \/ \E r \in Jobs : \/ Stage(r) \/ WriteFile(r) \/ RunScript(r) \/ ListFiles(r)
                     \/ ReadFile(r) \/ Upload(r) \/ ListItem(r) \/ DeleteFile(r)
  \/ \E u \in issued : Download(u)
  \/ PassTime

ArtifactsSpec == ArtifactsInit /\ [][ArtifactsNext]_artifactVars

-----------------------------------------------------------------------------
(* Whoever downloads gets the file its own run produced, in time and within    *)
(* the size limit: runs that share the sandbox, scripts that outlive their     *)
(* call, listings that mint further URLs and deletions between them do not     *)
(* put another run's file behind a URL (execute_skill, download_artifact).     *)
DownloadsItsRun ==
  \A d \in downloads : d.data.job = d.job /\ d.at <= d.expires /\ d.data.size <= MaxBytes

=============================================================================
