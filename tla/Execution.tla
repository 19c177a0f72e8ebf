------------------------------- MODULE Execution -------------------------------
(***************************************************************************)
(* The execute path of one tenant: REST and MCP calls that run an upstream *)
(* operation (httpx or sandbox) or a document skill, the audit log they    *)
(* leave in executions, the monthly usage counter, the artifacts in object *)
(* storage, and the deletion of connections and files underneath them.     *)
(* A transaction becomes visible at COMMIT; object storage at once.        *)
(***************************************************************************)
EXTENDS Naturals, FiniteSets

CONSTANTS Calls,       \* execute calls, each of them made once
          Conns,       \* connections of the tenant
          None,
          Surfaces,    \* "mcp" (session_scope) and "rest" (get_db)
          Modes,       \* the modes the calls use
          Faults       \* what may go wrong, out of the kinds below

FaultKinds == {"crash", "vault_down", "sandbox_down", "storage_down",
               "usage_down", "commit_fails"}

ASSUME ExecutionAssumption ==
  /\ None \notin Conns
  /\ Surfaces \subseteq {"mcp", "rest"}
  /\ Modes \subseteq {"structured", "code", "skill"}
  /\ Faults \subseteq FaultKinds

VARIABLES conn,     \* committed connections
          log,      \* committed executions rows, one per call at most
          counted,  \* the calls usage_monthly has counted
          blob,     \* the calls whose artifact is in object storage
          sent,     \* the calls that reached the upstream or the sandbox
          call,     \* the calls
          drop,     \* DELETE /connections under way: the executions loaded
          unlink    \* DELETE /files under way

vars == <<conn, log, counted, blob, sent, call, drop, unlink>>

\* "bare" has neither a spec nor a base_url to execute against.
ConnStates == {"ready", "bare", "deleted"}

Statuses == {"success", "error", "timeout"}

\* file: artifact_url is set, the row is listed by GET /files.
Row == [state  : {"none", "stored", "deleted"},
        conn   : Conns \cup {None},
        status : Statuses,
        file   : BOOLEAN]

NoRow == [state |-> "none", conn |-> None, status |-> "error", file |-> FALSE]

Call == [pc      : {"new", "prepare", "send", "collect", "bump", "answer",
                    "commit", "done"},
         surface : {"mcp", "rest"},
         mode    : {"structured", "code", "skill"},
         row     : Row,
         reply   : {"none", "outcome", "error"}]

\* A dropped connection's executions as session.delete loaded them.
Drop == [on : BOOLEAN, seen : SUBSET Calls]

Runs(k, pc) == call[k].pc = pc

Goto(k, pc) == call' = [call EXCEPT ![k] = [@ EXCEPT !.pc = pc]]

\* Mutant: the row keeps the column's default status.
RecordPending(k, status, file) ==
  call' = [call EXCEPT ![k] = [@ EXCEPT !.pc = "bump",
             !.row = [state |-> "stored", conn |-> call[k].row.conn,
                      status |-> "pending", file |-> file]]]

\* The row the call is about to write, with the status it ends in.
Record(k, status, file) ==
  call' = [call EXCEPT ![k] = [@ EXCEPT !.pc = "bump",
             !.row = [state |-> "stored", conn |-> call[k].row.conn,
                      status |-> status, file |-> file]]]

\* An exception leaves the handler: rollback, no row, an error answer.
Raise(k) ==
  call' = [call EXCEPT ![k] = [@ EXCEPT !.pc = "done",
             !.reply = IF call[k].reply = "outcome" THEN "outcome" ELSE "error"]]

OnlyCalls == UNCHANGED <<conn, log, counted, blob, sent, drop, unlink>>

-----------------------------------------------------------------------------

Init == /\ conn \in [Conns -> {"ready", "bare"}]
        /\ log = [k \in Calls |-> NoRow]
        /\ counted = {}
        /\ blob = {}
        /\ sent = {}
        /\ call = [k \in Calls |-> [pc |-> "new", surface |-> "rest",
                                    mode |-> "structured", row |-> NoRow,
                                    reply |-> "none"]]
        /\ drop = [c \in Conns |-> [on |-> FALSE, seen |-> {}]]
        /\ unlink = [k \in Calls |-> "no"]

(* A call arrives; skills are reached through MCP only, and an execution   *)
(* of a skill belongs to no connection.                                    *)
Arrive(k, surface, mode, c) ==
  /\ Runs(k, "new")
  /\ mode = "skill" => surface = "mcp"
  /\ (mode = "skill") = (c = None)
  /\ call' = [call EXCEPT ![k] = [@ EXCEPT !.pc = "prepare", !.surface = surface,
                                           !.mode = mode,
                                           !.row = [NoRow EXCEPT !.conn = c]]]
  /\ OnlyCalls

(* The MCP tool refuses bad arguments and connections outside the key's    *)
(* scope before it opens a session.                                        *)
Refuse(k) == /\ Runs(k, "prepare")
             /\ call[k].surface = "mcp"
             /\ Raise(k)
             /\ OnlyCalls

(* _prepare_execute, execute_skill's lookup.  Reading a missing or bare    *)
(* connection, an unknown skill or an unreadable secret raises; an unknown *)
(* operation and bad parameters are recorded.                              *)
Executable(k) == call[k].mode # "skill" => conn[call[k].row.conn] = "ready"

Prepare(k) ==
  /\ Runs(k, "prepare")
  /\ \/ Executable(k) /\ Goto(k, "send")
     \/ Executable(k) /\ call[k].mode # "skill" /\ Record(k, "error", FALSE)
     \/ /\ ~Executable(k) \/ call[k].mode = "skill" \/ "vault_down" \in Faults
        /\ Raise(k)
  /\ OnlyCalls

(* The upstream call or the sandbox run.  httpx errors and a skill's       *)
(* sandbox errors are caught and recorded, those of code mode are not.     *)
Send(k) ==
  /\ Runs(k, "send")
  /\ sent' = sent \cup {k}
  /\ \/ call[k].mode # "skill" /\ Record(k, "success", FALSE)
     \/ call[k].mode = "skill" /\ Goto(k, "collect")
     \/ Record(k, "error", FALSE)
     \/ call[k].mode = "structured" /\ Record(k, "timeout", FALSE)
     \/ call[k].mode = "code" /\ "sandbox_down" \in Faults /\ Raise(k)
  /\ UNCHANGED <<conn, log, counted, blob, drop, unlink>>

(* The artifact of a skill: none or too large is recorded, a listing or an *)
(* upload that fails is not.                                               *)
Collect(k) ==
  /\ Runs(k, "collect")
  /\ \/ Record(k, "success", TRUE) /\ blob' = blob \cup {k}
     \/ Record(k, "error", FALSE) /\ UNCHANGED blob
     \/ {"sandbox_down", "storage_down"} \cap Faults # {} /\ Raise(k) /\ UNCHANGED blob
  /\ UNCHANGED <<conn, log, counted, sent, drop, unlink>>

\* Mutant: only successful executions are counted.
BumpSuccesses(k) ==
  /\ Runs(k, "bump")
  /\ counted' = IF call[k].row.status = "success" THEN counted \cup {k} ELSE counted
  /\ Goto(k, IF call[k].surface = "rest" THEN "answer" ELSE "commit")
  /\ UNCHANGED <<conn, log, blob, sent, drop, unlink>>

\* Mutant: MCP answers inside session_scope.
BumpThenAnswer(k) ==
  /\ Runs(k, "bump")
  /\ counted' = counted \cup {k}
  /\ Goto(k, "answer")
  /\ UNCHANGED <<conn, log, blob, sent, drop, unlink>>

(* bump_usage_monthly commits in a session of its own; its failure is      *)
(* logged and ignored.  REST answers before get_db commits, MCP after.     *)
Bump(k) ==
  /\ Runs(k, "bump")
  /\ \/ counted' = counted \cup {k}
     \/ "usage_down" \in Faults /\ UNCHANGED counted
  /\ Goto(k, IF call[k].surface = "rest" THEN "answer" ELSE "commit")
  /\ UNCHANGED <<conn, log, blob, sent, drop, unlink>>

Answer(k) ==
  /\ Runs(k, "answer")
  /\ call' = [call EXCEPT ![k] = [@ EXCEPT !.pc = "commit", !.reply = "outcome"]]
  /\ OnlyCalls

(* COMMIT with the INSERT of the row: refused by the foreign key when the  *)
(* connection is gone by now, or by a payload the column cannot hold.      *)
Detached(k) == LET c == call[k].row.conn IN c # None /\ conn[c] = "deleted"

Commit(k) ==
  /\ Runs(k, "commit")
  /\ \/ /\ ~Detached(k)
        /\ log' = [log EXCEPT ![k] = call[k].row]
        /\ call' = [call EXCEPT ![k] = [@ EXCEPT !.pc = "done", !.reply = "outcome"]]
     \/ /\ Detached(k) \/ "commit_fails" \in Faults
        /\ Raise(k)
        /\ UNCHANGED log
  /\ UNCHANGED <<conn, counted, blob, sent, drop, unlink>>

(* DELETE /connections: session.delete loads the executions it cascades to,*)
(* get_db deletes them and the connection when it commits; rows that came  *)
(* in between are detached by ON DELETE SET NULL.                          *)
Attributed(c) == { k \in Calls : log[k].state = "stored" /\ log[k].conn = c }

LoadConnection(c) ==
  /\ conn[c] # "deleted"
  /\ ~drop[c].on
  /\ drop' = [drop EXCEPT ![c] = [on |-> TRUE, seen |-> Attributed(c)]]
  /\ UNCHANGED <<conn, log, counted, blob, sent, call, unlink>>

\* Mutant: the foreign key without ON DELETE SET NULL.
DropLoaded(c) ==
  /\ drop[c].on
  /\ conn' = [conn EXCEPT ![c] = "deleted"]
  /\ log' = [k \in Calls |-> IF k \in drop[c].seen
                             THEN [log[k] EXCEPT !.state = "deleted"] ELSE log[k]]
  /\ drop' = [drop EXCEPT ![c].on = FALSE]
  /\ UNCHANGED <<counted, blob, sent, call, unlink>>

DropConnection(c) ==
  /\ drop[c].on
  /\ conn' = [conn EXCEPT ![c] = "deleted"]
  /\ log' = [k \in Calls |->
               IF k \in drop[c].seen THEN [log[k] EXCEPT !.state = "deleted"]
               ELSE IF k \in Attributed(c) THEN [log[k] EXCEPT !.conn = None]
               ELSE log[k]]
  /\ drop' = [drop EXCEPT ![c].on = FALSE]
  /\ UNCHANGED <<counted, blob, sent, call, unlink>>

(* DELETE /files: the object first, then the row; a storage error leaves   *)
(* the row as it was so that the delete can be retried.                    *)
OpenFile(k) ==
  /\ log[k].state = "stored" /\ log[k].file
  /\ unlink[k] = "no"
  /\ unlink' = [unlink EXCEPT ![k] = "object"]
  /\ UNCHANGED <<conn, log, counted, blob, sent, call, drop>>

\* Mutants: the row is left to a retry; a storage error is swallowed.
DeleteObjectOnly(k) ==
  /\ unlink[k] = "object"
  /\ blob' = blob \ {k}
  /\ unlink' = [unlink EXCEPT ![k] = "no"]
  /\ UNCHANGED <<conn, log, counted, sent, call, drop>>
DeleteObjectAnyway(k) ==
  /\ unlink[k] = "object"
  /\ blob' \in {blob, blob \ {k}}
  /\ unlink' = [unlink EXCEPT ![k] = "row"]
  /\ UNCHANGED <<conn, log, counted, sent, call, drop>>

DeleteObject(k) ==
  /\ unlink[k] = "object"
  /\ \/ blob' = blob \ {k} /\ unlink' = [unlink EXCEPT ![k] = "row"]
     \/ /\ "storage_down" \in Faults
        /\ unlink' = [unlink EXCEPT ![k] = "no"]
        /\ UNCHANGED blob
  /\ UNCHANGED <<conn, log, counted, sent, call, drop>>

ForgetFile(k) ==
  /\ unlink[k] = "row"
  /\ log' = [log EXCEPT ![k].file = FALSE]
  /\ unlink' = [unlink EXCEPT ![k] = "no"]
  /\ UNCHANGED <<conn, counted, blob, sent, call, drop>>

(* The process ends: open transactions roll back, objects stay.            *)
Crash ==
  /\ "crash" \in Faults
  /\ call' = [k \in Calls |-> IF call[k].pc \in {"new", "done"} THEN call[k]
                              ELSE [call[k] EXCEPT !.pc = "done"]]
  /\ drop' = [c \in Conns |-> [drop[c] EXCEPT !.on = FALSE]]
  /\ unlink' = [k \in Calls |-> "no"]
  /\ UNCHANGED <<conn, log, counted, blob, sent>>

Execute(k) ==
  \/ \E surface \in Surfaces, mode \in Modes, c \in Conns \cup {None} :
        Arrive(k, surface, mode, c)
  \/ Refuse(k) \/ Prepare(k) \/ Send(k) \/ Collect(k)
  \/ Bump(k) \/ Answer(k) \/ Commit(k)

Next == \/ \E k \in Calls : Execute(k) \/ OpenFile(k) \/ DeleteObject(k) \/ ForgetFile(k)
        \/ \E c \in Conns : LoadConnection(c) \/ DropConnection(c)
        \/ Crash

Spec == Init /\ [][Next]_vars

-----------------------------------------------------------------------------

TypeOK == /\ conn \in [Conns -> ConnStates]
          /\ log \in [Calls -> Row]
          /\ counted \subseteq Calls
          /\ blob \subseteq Calls
          /\ sent \subseteq Calls
          /\ call \in [Calls -> Call]
          /\ drop \in [Conns -> Drop]
          /\ unlink \in [Calls -> {"no", "object", "row"}]

(* No execution in the log escapes the usage counter while the counter can *)
(* be written: the bump commits before the row it counts.                  *)
LoggedIsCounted == \A k \in Calls : log[k].state # "none" => k \in counted

(* An MCP caller that was given an outcome finds it in the audit log: the  *)
(* tool answers after session_scope has committed, whatever fails or is    *)
(* deleted meanwhile.                                                      *)
OutcomeIsLogged ==
  \A k \in Calls : call[k].surface = "mcp" /\ call[k].reply = "outcome"
                     => log[k].state # "none"

(* The log never names a connection that is gone, although executions      *)
(* commit between the loading and the deletion of their connection.        *)
LogNamesLive ==
  \A k \in Calls : log[k].state = "stored" /\ log[k].conn # None
                     => conn[log[k].conn] # "deleted"

(* A file the dashboard lists can be downloaded, except while its deletion *)
(* is between the object and the row.                                      *)
ListedHasObject ==
  \A k \in Calls : log[k].state = "stored" /\ log[k].file /\ unlink[k] # "row"
                     => k \in blob

(* No artifact outlives what the dashboard can reach: every object belongs *)
(* to a listed file or to a call that has not committed yet.               *)
ObjectIsListed ==
  \A k \in blob : (log[k].state = "stored" /\ log[k].file)
                    \/ call[k].pc \in {"bump", "commit"}

(* Every call that reached the upstream is in the audit log once it ended. *)
SentIsLogged ==
  \A k \in sent : call[k].pc = "done" => log[k].state # "none"

=============================================================================
