---------------------------- MODULE ExecutionProofs ----------------------------
(***************************************************************************)
(* Proofs about Execution: type correctness, the audit log against what    *)
(* MCP callers were told, against the usage counter and against the        *)
(* connections, and the listed files against object storage.               *)
(***************************************************************************)
EXTENDS Execution, TLAPS

\* Where a call stands says what it has: no answer before the outcome is
\* known, a row from the counting on, and no log entry before its end.
Phase(k) ==
  /\ call[k].pc \notin {"commit", "done"} => call[k].reply = "none"
  /\ call[k].pc = "commit" /\ call[k].surface = "mcp" => call[k].reply = "none"
  /\ call[k].pc = "answer" => call[k].surface = "rest"
  /\ call[k].pc \in {"bump", "answer", "commit"} => call[k].row.state = "stored"
  /\ log[k].state # "none" => call[k].pc = "done"

\* A deletion has loaded executions that were in the log.
Loaded == \A c \in Conns : \A k \in drop[c].seen : log[k].state # "none"

\* A call is counted once it has passed the counter.
Counted(k) ==
  log[k].state # "none" \/ call[k].pc \in {"answer", "commit"} => k \in counted

\* An object stays from its upload until the deletion of its row begins.
Kept(k) ==
  /\ call[k].pc \in {"bump", "answer", "commit"} /\ call[k].row.file => k \in blob
  /\ unlink[k] # "no" => log[k].state # "none"
  /\ log[k].state = "stored" /\ log[k].file /\ unlink[k] # "row" => k \in blob

-----------------------------------------------------------------------------

(* The rows a call may hold are rows of the log.                           *)
LEMMA Rows ==
  ASSUME TypeOK, NEW k \in Calls
  PROVE  /\ call[k] \in Call
         /\ call[k].row \in Row
         /\ call[k].row.conn \in Conns \cup {None}
         /\ log[k] \in Row
BY DEF TypeOK, Call, Row

(* Recording, raising and moving on leave a call a call.                   *)
LEMMA Moves ==
  ASSUME TypeOK, NEW k \in Calls,
         \/ \E status \in Statuses, file \in BOOLEAN : Record(k, status, file)
         \/ Raise(k)
         \/ \E pc \in {"send", "collect", "answer", "commit"} : Goto(k, pc)
  PROVE  call' \in [Calls -> Call]
<1>1. ASSUME NEW status \in Statuses, NEW file \in BOOLEAN, Record(k, status, file)
      PROVE  call' \in [Calls -> Call]
  <2>. DEFINE r == [state |-> "stored", conn |-> call[k].row.conn,
                    status |-> status, file |-> file]
  <2>1. r \in Row
    BY Rows DEF Row
  <2>. DEFINE d == [call[k] EXCEPT !.pc = "bump", !.row = r]
  <2>2. call' = [call EXCEPT ![k] = d]
    BY <1>1 DEF Record, TypeOK
  <2>. HIDE DEF r
  <2>3. d \in Call
    BY <2>1, Rows DEF Call
  <2>. HIDE DEF d
  <2>4. QED  BY <2>2, <2>3 DEF TypeOK
<1>2. CASE Raise(k)
  <2>. DEFINE reply == IF call[k].reply = "outcome" THEN "outcome" ELSE "error"
  <2>1. reply \in {"none", "outcome", "error"}
    OBVIOUS
  <2>. DEFINE d == [call[k] EXCEPT !.pc = "done", !.reply = reply]
  <2>2. call' = [call EXCEPT ![k] = d]
    BY <1>2 DEF Raise
  <2>. HIDE DEF reply
  <2>3. d \in Call
    BY <2>1, Rows DEF Call
  <2>. HIDE DEF d
  <2>4. QED  BY <2>2, <2>3 DEF TypeOK
<1>3. ASSUME NEW pc \in {"send", "collect", "answer", "commit"}, Goto(k, pc)
      PROVE  call' \in [Calls -> Call]
  <2>. DEFINE d == [call[k] EXCEPT !.pc = pc]
  <2>1. call' = [call EXCEPT ![k] = d]
    BY <1>3 DEF Goto
  <2>2. d \in Call
    BY Rows DEF Call
  <2>. HIDE DEF d
  <2>3. QED  BY <2>1, <2>2 DEF TypeOK
<1>4. QED  BY <1>1, <1>2, <1>3

(* The deletion of a connection leaves every row of the log a row.         *)
LEMMA Cascade ==
  ASSUME TypeOK, NEW c \in Conns, DropConnection(c)
  PROVE  log' \in [Calls -> Row]
BY DEF DropConnection, TypeOK, Row

(* Every step of the execute path keeps the types.                         *)
LEMMA TypeStep == TypeOK /\ [Next]_vars => TypeOK'
<1>. SUFFICES ASSUME TypeOK, [Next]_vars PROVE TypeOK'
  OBVIOUS
<1>. USE ExecutionAssumption
<1>1. ASSUME NEW k \in Calls, NEW surface \in Surfaces, NEW mode \in Modes,
             NEW c \in Conns \cup {None}, Arrive(k, surface, mode, c)
      PROVE  TypeOK'
  <2>. DEFINE r == [NoRow EXCEPT !.conn = c]
  <2>1. r \in Row
    BY DEF NoRow, Row, Statuses
  <2>2. call' = [call EXCEPT ![k] = [call[k] EXCEPT
                   !.pc = "prepare", !.surface = surface, !.mode = mode, !.row = r]]
    BY <1>1 DEF Arrive
  <2>3. UNCHANGED <<conn, log, counted, blob, sent, drop, unlink>>
    BY <1>1 DEF Arrive, OnlyCalls
  <2>. HIDE DEF r
  <2>4. surface \in {"mcp", "rest"} /\ mode \in {"structured", "code", "skill"}
    OBVIOUS
  <2>5. [call[k] EXCEPT !.pc = "prepare", !.surface = surface, !.mode = mode,
                        !.row = r] \in Call
    BY <2>1, <2>4, Rows DEF Call
  <2>6. call' \in [Calls -> Call]
    BY <2>2, <2>5 DEF TypeOK
  <2>7. QED  BY <2>3, <2>6 DEF TypeOK
<1>2. ASSUME NEW k \in Calls, Refuse(k) PROVE TypeOK'
  BY <1>2, Moves DEF Refuse, OnlyCalls, TypeOK
<1>3. ASSUME NEW k \in Calls, Prepare(k) PROVE TypeOK'
  BY <1>3, Moves DEF Prepare, OnlyCalls, TypeOK, Statuses
<1>4. ASSUME NEW k \in Calls, Send(k) PROVE TypeOK'
  BY <1>4, Moves DEF Send, TypeOK, Statuses
<1>5. ASSUME NEW k \in Calls, Collect(k) PROVE TypeOK'
  BY <1>5, Moves DEF Collect, TypeOK, Statuses
<1>6. ASSUME NEW k \in Calls, Bump(k) PROVE TypeOK'
  BY <1>6, Moves DEF Bump, TypeOK
<1>7. ASSUME NEW k \in Calls, Answer(k) PROVE TypeOK'
  <2>1. [call[k] EXCEPT !.pc = "commit", !.reply = "outcome"] \in Call
    BY Rows DEF Call
  <2>2. QED  BY <1>7, <2>1 DEF Answer, OnlyCalls, TypeOK
<1>8. ASSUME NEW k \in Calls, Commit(k) PROVE TypeOK'
  <2>1. [call[k] EXCEPT !.pc = "done", !.reply = "outcome"] \in Call
    BY Rows DEF Call
  <2>2. call' \in [Calls -> Call]
    BY <1>8, <2>1, Moves DEF Commit, TypeOK
  <2>3. log' \in [Calls -> Row]
    BY <1>8, Rows DEF Commit, TypeOK
  <2>4. QED  BY <1>8, <2>2, <2>3 DEF Commit, TypeOK
<1>9. ASSUME NEW k \in Calls, OpenFile(k) \/ DeleteObject(k) PROVE TypeOK'
  BY <1>9 DEF OpenFile, DeleteObject, TypeOK
<1>10. ASSUME NEW k \in Calls, ForgetFile(k) PROVE TypeOK'
  <2>1. [log[k] EXCEPT !.file = FALSE] \in Row
    BY Rows DEF Row
  <2>2. log' = [log EXCEPT ![k] = [log[k] EXCEPT !.file = FALSE]]
    BY <1>10 DEF ForgetFile
  <2>3. log' \in [Calls -> Row]
    BY <2>1, <2>2 DEF TypeOK
  <2>4. QED  BY <1>10, <2>3 DEF ForgetFile, TypeOK
<1>11. ASSUME NEW c \in Conns, LoadConnection(c) PROVE TypeOK'
  BY <1>11 DEF LoadConnection, TypeOK, Drop, Attributed
<1>12. ASSUME NEW c \in Conns, DropConnection(c) PROVE TypeOK'
  <2>1. log' \in [Calls -> Row]
    BY <1>12, Cascade
  <2>2. conn' \in [Conns -> ConnStates]
    BY <1>12 DEF DropConnection, TypeOK, ConnStates
  <2>3. drop' \in [Conns -> Drop]
    BY <1>12 DEF DropConnection, TypeOK, Drop
  <2>4. UNCHANGED <<counted, blob, sent, call, unlink>>
    BY <1>12 DEF DropConnection
  <2>5. QED  BY <2>1, <2>2, <2>3, <2>4 DEF TypeOK
<1>13. CASE Crash
  <2>1. \A k \in Calls : [call[k] EXCEPT !.pc = "done"] \in Call
    BY Rows DEF Call
  <2>2. call' \in [Calls -> Call]
    BY <1>13, <2>1 DEF Crash, TypeOK
  <2>3. drop' \in [Conns -> Drop]
    BY <1>13 DEF Crash, TypeOK, Drop
  <2>4. QED  BY <1>13, <2>2, <2>3 DEF Crash, TypeOK
<1>14. CASE UNCHANGED vars
  BY <1>14 DEF vars, TypeOK
<1>15. QED
  BY <1>1, <1>2, <1>3, <1>4, <1>5, <1>6, <1>7, <1>8, <1>9, <1>10, <1>11, <1>12,
     <1>13, <1>14 DEF Next, Execute

(* The initial state is of the types.                                      *)
LEMMA TypeInit == Init => TypeOK
BY ExecutionAssumption DEF Init, TypeOK, Call, Row, NoRow, Drop, Statuses, ConnStates

(* Calls, log, counter, objects and deletions are of their types in every  *)
(* reachable state, for any number of calls and connections.               *)
THEOREM TypeCorrect == Spec => []TypeOK
<1>1. TypeOK /\ [Next]_vars => TypeOK'  BY TypeStep
<1>2. QED  BY TypeInit, <1>1, PTL DEF Spec

-----------------------------------------------------------------------------

(* What the helpers of a call's steps do to it and to the others.          *)
LEMMA Recorded ==
  ASSUME TypeOK, NEW k \in Calls, NEW status, NEW file, Record(k, status, file)
  PROVE  /\ call'[k].pc = "bump"
         /\ call'[k].reply = call[k].reply
         /\ call'[k].surface = call[k].surface
         /\ call'[k].mode = call[k].mode
         /\ call'[k].row.state = "stored"
         /\ call'[k].row.conn = call[k].row.conn
         /\ call'[k].row.file = file
         /\ \A j \in Calls \ {k} : call'[j] = call[j]
<1>. DEFINE r == [state |-> "stored", conn |-> call[k].row.conn,
                  status |-> status, file |-> file]
<1>1. r.state = "stored" /\ r.file = file /\ r.conn = call[k].row.conn
  OBVIOUS
<1>2. call' = [call EXCEPT ![k] = [call[k] EXCEPT !.pc = "bump", !.row = r]]
  BY DEF Record
<1>. HIDE DEF r
<1>3. QED  BY <1>1, <1>2 DEF TypeOK, Call

(* An exception ends the call with an error, unless it was answered.       *)
LEMMA Raised ==
  ASSUME TypeOK, NEW k \in Calls, Raise(k)
  PROVE  /\ call'[k].pc = "done"
         /\ call[k].reply = "none" => call'[k].reply = "error"
         /\ call'[k].surface = call[k].surface
         /\ call'[k].mode = call[k].mode
         /\ call'[k].row = call[k].row
         /\ \A j \in Calls \ {k} : call'[j] = call[j]
<1>. DEFINE reply == IF call[k].reply = "outcome" THEN "outcome" ELSE "error"
<1>1. call[k].reply = "none" => reply = "error"
  OBVIOUS
<1>2. call' = [call EXCEPT ![k] = [call[k] EXCEPT !.pc = "done", !.reply = reply]]
  BY DEF Raise
<1>. HIDE DEF reply
<1>3. QED  BY <1>1, <1>2 DEF TypeOK, Call

(* Moving on changes where the call stands and nothing else.               *)
LEMMA Moved ==
  ASSUME TypeOK, NEW k \in Calls, NEW pc, Goto(k, pc)
  PROVE  /\ call'[k].pc = pc
         /\ call'[k].reply = call[k].reply
         /\ call'[k].surface = call[k].surface
         /\ call'[k].mode = call[k].mode
         /\ call'[k].row = call[k].row
         /\ \A j \in Calls \ {k} : call'[j] = call[j]
BY DEF Goto, TypeOK, Call

(* The deletion of a connection changes the state and the attribution of   *)
(* rows that are there, never what they say of a file.                     *)
LEMMA Cascaded ==
  ASSUME TypeOK, NEW c \in Conns, DropConnection(c), NEW k \in Calls
  PROVE  /\ log[k].state = "none" /\ k \notin drop[c].seen => log'[k].state = "none"
         /\ log[k].state # "none" => log'[k].state # "none"
         /\ log'[k].state = "stored" => log[k].state = "stored"
         /\ log'[k].file = log[k].file
         /\ log'[k].state = "stored" =>
               \/ log'[k].conn = None
               \/ log'[k].conn = log[k].conn /\ log[k].conn # c
<1>. DEFINE gone == [log[k] EXCEPT !.state = "deleted"]
            detached == [log[k] EXCEPT !.conn = None]
<1>1. log[k] \in Row
  BY Rows
<1>2. /\ gone.state = "deleted" /\ gone.file = log[k].file
      /\ detached.state = log[k].state /\ detached.file = log[k].file
      /\ detached.conn = None
  BY <1>1 DEF Row
<1>. HIDE DEF gone, detached
<1>3. CASE k \in drop[c].seen
  <2>1. log'[k] = gone
    BY <1>3 DEF DropConnection, gone
  <2>2. QED  BY <1>2, <1>3, <2>1
<1>4. CASE k \notin drop[c].seen /\ log[k].state = "stored" /\ log[k].conn = c
  <2>1. log'[k] = detached
    BY <1>4 DEF DropConnection, Attributed, detached
  <2>2. QED  BY <1>2, <1>4, <2>1
<1>5. CASE k \notin drop[c].seen /\ ~(log[k].state = "stored" /\ log[k].conn = c)
  <2>1. log'[k] = log[k]
    BY <1>5 DEF DropConnection, Attributed
  <2>2. QED  BY <1>5, <2>1
<1>6. QED  BY <1>3, <1>4, <1>5

-----------------------------------------------------------------------------

\* The inductive invariant behind what the audit log promises.
AuditInv == /\ TypeOK
            /\ \A k \in Calls : Phase(k)
            /\ Loaded
            /\ OutcomeIsLogged
            /\ LogNamesLive

(* The invariant holds of an empty log and calls not yet made.             *)
LEMMA AuditInit == Init => AuditInv
<1>. SUFFICES ASSUME Init PROVE AuditInv
  OBVIOUS
<1>1. TypeOK
  BY TypeInit
<1>2. \A k \in Calls : Phase(k)
  BY DEF Init, Phase, NoRow
<1>3. Loaded /\ OutcomeIsLogged /\ LogNamesLive
  BY DEF Init, Loaded, OutcomeIsLogged, LogNamesLive, NoRow
<1>4. QED  BY <1>1, <1>2, <1>3 DEF AuditInv

(* A step of one call that leaves the log alone keeps the invariant if it  *)
(* keeps the phase of that call and gives an MCP caller no outcome.        *)
LEMMA CallStep ==
  ASSUME AuditInv, TypeOK', NEW k \in Calls, Phase(k)',
         UNCHANGED <<conn, log, drop>>,
         \A j \in Calls \ {k} : call'[j] = call[j],
         call'[k].surface = "mcp" /\ call'[k].reply = "outcome"
           => log[k].state # "none"
  PROVE  AuditInv'
<1>1. \A j \in Calls : Phase(j)'
  BY DEF AuditInv, Phase
<1>2. OutcomeIsLogged'
  BY DEF AuditInv, OutcomeIsLogged
<1>3. LogNamesLive' /\ Loaded'
  BY DEF AuditInv, LogNamesLive, Loaded
<1>4. QED  BY <1>1, <1>2, <1>3 DEF AuditInv

(* Every step of a call that has not come to its commit keeps it.          *)
LEMMA AuditCalls ==
  ASSUME AuditInv, TypeOK', NEW k \in Calls, Execute(k), ~Commit(k)
  PROVE  AuditInv'
<1>0. TypeOK /\ Phase(k) /\ call[k] \in Call
  BY Rows DEF AuditInv
<1>1. ASSUME NEW surface \in Surfaces, NEW mode \in Modes,
             NEW c \in Conns \cup {None}, Arrive(k, surface, mode, c)
      PROVE  AuditInv'
  <2>. DEFINE r == [NoRow EXCEPT !.conn = c]
  <2>1. call' = [call EXCEPT ![k] = [call[k] EXCEPT
                   !.pc = "prepare", !.surface = surface, !.mode = mode, !.row = r]]
    BY <1>1 DEF Arrive
  <2>. HIDE DEF r
  <2>2. /\ call'[k].pc = "prepare" /\ call'[k].reply = call[k].reply
        /\ \A j \in Calls \ {k} : call'[j] = call[j]
    BY <1>0, <2>1 DEF TypeOK, Call
  <2>3. UNCHANGED <<conn, log, drop>> /\ call[k].pc = "new"
    BY <1>1 DEF Arrive, OnlyCalls, Runs
  <2>4. Phase(k)' /\ call'[k].reply = "none"
    BY <1>0, <2>2, <2>3 DEF Phase
  <2>5. QED  BY <2>2, <2>3, <2>4, CallStep
<1>2. ASSUME UNCHANGED <<conn, log, drop>>, call[k].pc \notin {"commit", "done"},
             NEW status, NEW file, Record(k, status, file)
      PROVE  AuditInv'
  <2>1. Phase(k)' /\ call'[k].reply = "none"
    BY <1>0, <1>2, Recorded DEF Phase
  <2>2. QED  BY <1>0, <1>2, <2>1, Recorded, CallStep
<1>3. ASSUME UNCHANGED <<conn, log, drop>>, call[k].pc \notin {"commit", "done"},
             Raise(k)
      PROVE  AuditInv'
  <2>1. Phase(k)' /\ call'[k].reply = "error"
    BY <1>0, <1>3, Raised DEF Phase
  <2>2. QED  BY <1>0, <1>3, <2>1, Raised, CallStep
<1>4. ASSUME UNCHANGED <<conn, log, drop>>,
             NEW pc \in {"send", "collect", "answer", "commit"}, Goto(k, pc),
             call[k].pc \notin {"answer", "commit", "done"},
             pc \in {"answer", "commit"} => call[k].pc = "bump",
             pc = "answer" => call[k].surface = "rest"
      PROVE  AuditInv'
  <2>1. Phase(k)' /\ call'[k].reply = "none"
    BY <1>0, <1>4, Moved DEF Phase
  <2>2. QED  BY <1>0, <1>4, <2>1, Moved, CallStep
<1>5. CASE Refuse(k)
  BY <1>3, <1>5 DEF Refuse, OnlyCalls, Runs
<1>6. CASE Prepare(k)
  BY <1>2, <1>3, <1>4, <1>6 DEF Prepare, OnlyCalls, Runs
<1>7. CASE Send(k)
  BY <1>2, <1>3, <1>4, <1>7 DEF Send, Runs
<1>8. CASE Collect(k)
  BY <1>2, <1>3, <1>8 DEF Collect, Runs
<1>9. CASE Bump(k)
  <2>1. CASE call[k].surface = "rest"
    BY <1>4, <1>9, <2>1 DEF Bump, Runs
  <2>2. CASE call[k].surface # "rest"
    BY <1>4, <1>9, <2>2 DEF Bump, Runs
  <2>3. QED  BY <2>1, <2>2
<1>10. CASE Answer(k)
  <2>1. /\ call'[k].pc = "commit" /\ call'[k].surface = call[k].surface
        /\ call'[k].row = call[k].row
        /\ \A j \in Calls \ {k} : call'[j] = call[j]
    BY <1>0, <1>10 DEF Answer, TypeOK, Call
  <2>2. UNCHANGED <<conn, log, drop>> /\ call[k].pc = "answer"
    BY <1>10 DEF Answer, OnlyCalls, Runs
  <2>3. call[k].surface = "rest" /\ Phase(k)'
    BY <1>0, <2>1, <2>2 DEF Phase
  <2>4. QED  BY <2>1, <2>2, <2>3, CallStep
<1>11. QED
  BY <1>1, <1>5, <1>6, <1>7, <1>8, <1>9, <1>10 DEF Execute

(* A commit stores the row of a call whose connection is there, or ends    *)
(* with an error.                                                          *)
LEMMA AuditCommit ==
  ASSUME AuditInv, TypeOK', NEW k \in Calls, Commit(k)
  PROVE  AuditInv'
<1>0. TypeOK /\ Phase(k) /\ call[k] \in Call /\ call[k].row \in Row
  BY Rows DEF AuditInv
<1>1. UNCHANGED <<conn, drop>> /\ call[k].pc = "commit"
  BY DEF Commit, Runs
<1>2. CASE UNCHANGED log /\ Raise(k)
  <2>1. Phase(k)'
    BY <1>0, <1>1, <1>2, Raised DEF Phase
  <2>2. call[k].surface = "mcp" => call'[k].reply = "error"
    BY <1>0, <1>1, <1>2, Raised DEF Phase
  <2>3. QED  BY <1>0, <1>1, <1>2, <2>1, <2>2, Raised, CallStep
<1>3. CASE /\ ~Detached(k)
           /\ log' = [log EXCEPT ![k] = call[k].row]
           /\ call' = [call EXCEPT ![k] = [call[k] EXCEPT !.pc = "done", !.reply = "outcome"]]
  <2>1. call'[k].pc = "done" /\ \A j \in Calls \ {k} : call'[j] = call[j]
    BY <1>0, <1>3 DEF TypeOK, Call
  <2>2. log'[k] = call[k].row /\ \A j \in Calls \ {k} : log'[j] = log[j]
    BY <1>0, <1>3 DEF TypeOK
  <2>3. call[k].row.state = "stored"
    BY <1>0, <1>1 DEF Phase
  <2>4. \A j \in Calls : Phase(j)'
    BY <2>1, <2>2 DEF AuditInv, Phase
  <2>5. OutcomeIsLogged'
    BY <2>1, <2>2, <2>3 DEF AuditInv, OutcomeIsLogged
  <2>6. LogNamesLive'
    BY <1>1, <1>3, <2>2 DEF AuditInv, LogNamesLive, Detached
  <2>7. Loaded'
    BY <1>1, <2>2, <2>3 DEF AuditInv, Loaded, TypeOK, Drop
  <2>8. QED  BY <2>4, <2>5, <2>6, <2>7 DEF AuditInv
<1>4. QED  BY <1>2, <1>3 DEF Commit

(* The deletion of a connection detaches what it has not loaded.           *)
LEMMA AuditDrop ==
  ASSUME AuditInv, TypeOK', NEW c \in Conns, DropConnection(c)
  PROVE  AuditInv'
<1>0. TypeOK /\ \A k \in Calls : log[k] \in Row
  BY Rows DEF AuditInv
<1>1. UNCHANGED call /\ conn' = [conn EXCEPT ![c] = "deleted"]
  BY DEF DropConnection
<1>2. /\ drop[c].on
      /\ \A d \in Conns : drop'[d].seen = drop[d].seen
  BY <1>0 DEF DropConnection, TypeOK, Drop
<1>3. \A k \in Calls : log[k].state = "none" => log'[k].state = "none"
  BY <1>0, Cascaded DEF AuditInv, Loaded
<1>4. \A k \in Calls : log[k].state # "none" => log'[k].state # "none"
  BY <1>0, Cascaded
<1>5. \A k \in Calls : Phase(k)'
  BY <1>1, <1>3 DEF AuditInv, Phase
<1>6. OutcomeIsLogged'
  BY <1>1, <1>4 DEF AuditInv, OutcomeIsLogged
<1>7. Loaded'
  BY <1>2, <1>4 DEF AuditInv, Loaded, TypeOK, Drop
<1>8. LogNamesLive'
  <2>1. SUFFICES ASSUME NEW k \in Calls, log'[k].state = "stored", log'[k].conn # None
                 PROVE  conn'[log'[k].conn] # "deleted"
    BY DEF LogNamesLive
  <2>2. log[k].state = "stored" /\ log'[k].conn = log[k].conn /\ log[k].conn # c
    BY <1>0, <2>1, Cascaded
  <2>3. log[k].conn \in Conns /\ conn[log[k].conn] # "deleted"
    BY <1>0, <2>1, <2>2 DEF AuditInv, LogNamesLive, Row
  <2>4. QED  BY <1>0, <1>1, <2>2, <2>3 DEF TypeOK
<1>9. QED  BY <1>5, <1>6, <1>7, <1>8 DEF AuditInv

(* Every step keeps the invariant of the audit log.                        *)
LEMMA AuditStep == AuditInv /\ [Next]_vars => AuditInv'
<1>. SUFFICES ASSUME AuditInv, [Next]_vars PROVE AuditInv'
  OBVIOUS
<1>0. TypeOK /\ TypeOK'
  BY TypeStep DEF AuditInv
<1>1. ASSUME NEW k \in Calls, Execute(k) PROVE AuditInv'
  BY <1>0, <1>1, AuditCalls, AuditCommit
<1>2. ASSUME NEW k \in Calls, OpenFile(k) \/ DeleteObject(k) PROVE AuditInv'
  BY <1>0, <1>2 DEF OpenFile, DeleteObject, AuditInv, Phase, Loaded, OutcomeIsLogged,
     LogNamesLive
<1>3. ASSUME NEW k \in Calls, ForgetFile(k) PROVE AuditInv'
  <2>1. UNCHANGED <<conn, call, drop>>
    BY <1>3 DEF ForgetFile
  <2>2. \A j \in Calls : log'[j].state = log[j].state /\ log'[j].conn = log[j].conn
    BY <1>0, <1>3 DEF ForgetFile, TypeOK, Row
  <2>3. (\A j \in Calls : Phase(j)')
    BY <2>1, <2>2 DEF AuditInv, Phase
  <2>4. Loaded'
    BY <1>0, <2>1, <2>2 DEF AuditInv, Loaded, TypeOK, Drop
  <2>5. OutcomeIsLogged' /\ LogNamesLive'
    BY <2>1, <2>2 DEF AuditInv, OutcomeIsLogged, LogNamesLive
  <2>6. QED  BY <1>0, <2>3, <2>4, <2>5 DEF AuditInv
<1>4. ASSUME NEW c \in Conns, LoadConnection(c) PROVE AuditInv'
  <2>1. UNCHANGED <<conn, log, call>>
    BY <1>4 DEF LoadConnection
  <2>2. Loaded'
    BY <1>0, <1>4 DEF LoadConnection, Attributed, AuditInv, Loaded, TypeOK, Drop
  <2>3. QED  BY <1>0, <2>1, <2>2 DEF AuditInv, Phase, OutcomeIsLogged, LogNamesLive
<1>5. ASSUME NEW c \in Conns, DropConnection(c) PROVE AuditInv'
  BY <1>0, <1>5, AuditDrop
<1>6. CASE Crash
  <2>1. UNCHANGED <<conn, log>>
    BY <1>6 DEF Crash
  <2>2. \A k \in Calls : \/ call'[k] = call[k]
                         \/ /\ call'[k].pc = "done"
                            /\ call'[k].reply = call[k].reply
                            /\ call'[k].surface = call[k].surface
    <3>1. \A k \in Calls : call'[k] = call[k] \/ call'[k] = [call[k] EXCEPT !.pc = "done"]
      BY <1>6 DEF Crash
    <3>2. \A k \in Calls : call[k] \in Call
      BY <1>0, Rows
    <3>3. ASSUME NEW k \in Calls, call'[k] = [call[k] EXCEPT !.pc = "done"]
          PROVE  /\ call'[k].pc = "done" /\ call'[k].reply = call[k].reply
                 /\ call'[k].surface = call[k].surface
      BY <3>2, <3>3 DEF Call
    <3>4. QED  BY <3>1, <3>3
  <2>3. \A k \in Calls : Phase(k)'
    BY <2>1, <2>2 DEF AuditInv, Phase
  <2>4. OutcomeIsLogged'
    BY <2>1, <2>2 DEF AuditInv, OutcomeIsLogged
  <2>5. Loaded'
    <3>1. \A c \in Conns : drop[c] \in Drop /\ drop'[c] = [drop[c] EXCEPT !.on = FALSE]
      BY <1>0, <1>6 DEF Crash, TypeOK
    <3>2. \A c \in Conns : drop'[c].seen = drop[c].seen
      BY <3>1 DEF Drop
    <3>3. QED  BY <2>1, <3>2 DEF AuditInv, Loaded
  <2>6. LogNamesLive'
    BY <2>1 DEF AuditInv, LogNamesLive
  <2>7. QED  BY <1>0, <2>3, <2>4, <2>5, <2>6 DEF AuditInv
<1>7. CASE UNCHANGED vars
  BY <1>0, <1>7 DEF vars, AuditInv, Phase, Loaded, OutcomeIsLogged, LogNamesLive
<1>8. QED
  BY <1>1, <1>2, <1>3, <1>4, <1>5, <1>6, <1>7 DEF Next

(* The invariant of the audit log holds in every reachable state, whatever *)
(* fails, crashes or is deleted.                                           *)
THEOREM AuditInductive == Spec => []AuditInv
<1>1. AuditInv /\ [Next]_vars => AuditInv'  BY AuditStep
<1>2. QED  BY AuditInit, <1>1, PTL DEF Spec

(* An MCP caller that was given an outcome finds it in the audit log: the  *)
(* tool answers after session_scope has committed.                         *)
THEOREM OutcomeIsLoggedAlways == Spec => []OutcomeIsLogged
<1>1. AuditInv => OutcomeIsLogged  BY DEF AuditInv
<1>2. QED  BY AuditInductive, <1>1, PTL

(* No row of the log names a deleted connection: the foreign key refuses   *)
(* late rows and ON DELETE SET NULL detaches the early ones.               *)
THEOREM LogNamesLiveAlways == Spec => []LogNamesLive
<1>1. AuditInv => LogNamesLive  BY DEF AuditInv
<1>2. QED  BY AuditInductive, <1>1, PTL

-----------------------------------------------------------------------------

(* What a step of a call before its commit adds: it passes the counter only*)
(* by counting, and carries a file only once the object is stored.         *)
LEMMA Progress ==
  ASSUME TypeOK, NEW k \in Calls, Execute(k), ~Commit(k)
  PROVE  /\ UNCHANGED <<log, unlink>>
         /\ counted \subseteq counted' /\ blob \subseteq blob'
         /\ \A j \in Calls \ {k} : call'[j] = call[j]
         /\ call'[k].pc \in {"answer", "commit"} =>
              k \in counted' \/ "usage_down" \in Faults \/ call[k].pc = "answer"
         /\ call'[k].pc \in {"bump", "answer", "commit"} /\ call'[k].row.file =>
              k \in blob' \/ (call[k].pc \in {"bump", "answer"} /\ call[k].row.file)
<1>. DEFINE Goal ==
         /\ UNCHANGED <<log, unlink>>
         /\ counted \subseteq counted' /\ blob \subseteq blob'
         /\ \A j \in Calls \ {k} : call'[j] = call[j]
         /\ call'[k].pc \in {"answer", "commit"} =>
              k \in counted' \/ "usage_down" \in Faults \/ call[k].pc = "answer"
         /\ call'[k].pc \in {"bump", "answer", "commit"} /\ call'[k].row.file =>
              k \in blob' \/ (call[k].pc \in {"bump", "answer"} /\ call[k].row.file)
<1>1. ASSUME NEW surface \in Surfaces, NEW mode \in Modes,
             NEW c \in Conns \cup {None}, Arrive(k, surface, mode, c)
      PROVE  Goal
  <2>1. call'[k].pc = "prepare" /\ \A j \in Calls \ {k} : call'[j] = call[j]
    BY <1>1 DEF Arrive, TypeOK, Call
  <2>2. QED  BY <1>1, <2>1 DEF Arrive, OnlyCalls
<1>2. CASE Refuse(k)
  BY <1>2, Raised DEF Refuse, OnlyCalls
<1>3. CASE Prepare(k)
  BY <1>3, Recorded, Raised, Moved DEF Prepare, OnlyCalls
<1>4. CASE Send(k)
  BY <1>4, Recorded, Raised, Moved DEF Send
<1>5. CASE Collect(k)
  <2>1. CASE Record(k, "success", TRUE) /\ blob' = blob \cup {k}
    BY <1>5, <2>1, Recorded DEF Collect
  <2>2. CASE UNCHANGED blob /\ (Record(k, "error", FALSE) \/ Raise(k))
    BY <1>5, <2>2, Recorded, Raised DEF Collect
  <2>3. QED  BY <1>5, <2>1, <2>2 DEF Collect
<1>6. CASE Bump(k)
  BY <1>6, Moved DEF Bump, Runs
<1>7. CASE Answer(k)
  <2>1. /\ call'[k].pc = "commit" /\ call'[k].row = call[k].row
        /\ \A j \in Calls \ {k} : call'[j] = call[j]
    BY <1>7 DEF Answer, TypeOK, Call
  <2>2. QED  BY <1>7, <2>1 DEF Answer, OnlyCalls, Runs
<1>8. QED  BY <1>1, <1>2, <1>3, <1>4, <1>5, <1>6, <1>7 DEF Execute

(* What a commit does: it stores the row of the call, or nothing.          *)
LEMMA Committed ==
  ASSUME TypeOK, NEW k \in Calls, Commit(k)
  PROVE  /\ UNCHANGED <<counted, blob, unlink>>
         /\ call[k].pc = "commit" /\ call'[k].pc = "done"
         /\ log'[k] = log[k] \/ log'[k] = call[k].row
         /\ \A j \in Calls \ {k} : call'[j] = call[j] /\ log'[j] = log[j]
<1>1. CASE UNCHANGED log /\ Raise(k)
  BY <1>1, Raised DEF Commit, Runs
<1>2. CASE /\ log' = [log EXCEPT ![k] = call[k].row]
           /\ call' = [call EXCEPT ![k] = [call[k] EXCEPT !.pc = "done", !.reply = "outcome"]]
  <2>1. call'[k].pc = "done" /\ \A j \in Calls \ {k} : call'[j] = call[j]
    BY <1>2 DEF TypeOK, Call
  <2>2. log'[k] = call[k].row /\ \A j \in Calls \ {k} : log'[j] = log[j]
    BY <1>2 DEF TypeOK
  <2>3. QED  BY <2>1, <2>2 DEF Commit, Runs
<1>3. QED  BY <1>1, <1>2 DEF Commit

(* A crash ends calls and deletions and leaves the stores alone.           *)
LEMMA Crashed ==
  ASSUME TypeOK, Crash, NEW k \in Calls
  PROVE  /\ UNCHANGED <<log, counted, blob>>
         /\ call'[k] = call[k] \/ call'[k].pc = "done"
<1>1. call'[k] = call[k] \/ call'[k] = [call[k] EXCEPT !.pc = "done"]
  BY DEF Crash
<1>2. call[k] \in Call
  BY Rows
<1>3. call'[k] = [call[k] EXCEPT !.pc = "done"] => call'[k].pc = "done"
  BY <1>2 DEF Call
<1>4. QED  BY <1>1, <1>3 DEF Crash

(* A counter that can be written counts every call before it is logged.    *)
LEMMA CountedStep ==
  ASSUME "usage_down" \notin Faults, AuditInv, \A k \in Calls : Counted(k), [Next]_vars
  PROVE  \A k \in Calls : Counted(k)'
<1>0. TypeOK
  BY DEF AuditInv
<1>1. ASSUME NEW k \in Calls, Execute(k), ~Commit(k) PROVE \A j \in Calls : Counted(j)'
  BY <1>0, <1>1, Progress DEF Counted
<1>2. ASSUME NEW k \in Calls, Commit(k) PROVE \A j \in Calls : Counted(j)'
  BY <1>0, <1>2, Committed DEF Counted
<1>3. ASSUME NEW k \in Calls, OpenFile(k) \/ DeleteObject(k)
      PROVE  \A j \in Calls : Counted(j)'
  BY <1>3 DEF OpenFile, DeleteObject, Counted
<1>4. ASSUME NEW k \in Calls, ForgetFile(k) PROVE \A j \in Calls : Counted(j)'
  <2>1. \A j \in Calls : log'[j].state = log[j].state
    BY <1>0, <1>4 DEF ForgetFile, TypeOK, Row
  <2>2. QED  BY <1>4, <2>1 DEF ForgetFile, Counted
<1>5. ASSUME NEW c \in Conns, LoadConnection(c) PROVE \A j \in Calls : Counted(j)'
  BY <1>5 DEF LoadConnection, Counted
<1>6. ASSUME NEW c \in Conns, DropConnection(c) PROVE \A j \in Calls : Counted(j)'
  <2>1. UNCHANGED <<call, counted>>
    BY <1>6 DEF DropConnection
  <2>2. \A j \in Calls : log[j].state = "none" => log'[j].state = "none"
    BY <1>0, <1>6, Cascaded DEF AuditInv, Loaded
  <2>3. QED  BY <2>1, <2>2 DEF Counted
<1>7. CASE Crash
  BY <1>0, <1>7, Crashed DEF Counted
<1>8. CASE UNCHANGED vars
  BY <1>8 DEF vars, Counted
<1>9. QED
  BY <1>1, <1>2, <1>3, <1>4, <1>5, <1>6, <1>7, <1>8 DEF Next

(* Whatever the log holds has been counted, as long as the counter can be  *)
(* written: bump_usage_monthly commits before the execution it counts.     *)
THEOREM LoggedIsCountedAlways ==
  ASSUME "usage_down" \notin Faults
  PROVE  Spec => []LoggedIsCounted
<1>. DEFINE Inv == AuditInv /\ \A k \in Calls : Counted(k)
<1>1. Init => Inv
  BY AuditInit DEF Init, Counted, NoRow
<1>2. Inv /\ [Next]_vars => Inv'
  BY AuditStep, CountedStep
<1>3. Inv => LoggedIsCounted
  BY DEF Counted, LoggedIsCounted
<1>4. QED  BY <1>1, <1>2, <1>3, PTL DEF Spec

(* Without a crash every step keeps the objects that listed rows need.     *)
LEMMA KeptStep ==
  ASSUME "crash" \notin Faults, AuditInv, \A k \in Calls : Kept(k), [Next]_vars
  PROVE  \A k \in Calls : Kept(k)'
<1>0. TypeOK /\ \A k \in Calls : Phase(k)
  BY DEF AuditInv
<1>1. ASSUME NEW k \in Calls, Execute(k), ~Commit(k) PROVE \A j \in Calls : Kept(j)'
  BY <1>0, <1>1, Progress DEF Kept
<1>2. ASSUME NEW k \in Calls, Commit(k) PROVE \A j \in Calls : Kept(j)'
  <2>1. log[k].state = "none" /\ unlink[k] = "no" /\ call[k].row.state = "stored"
    BY <1>0, <1>2, Committed DEF Kept, Phase
  <2>2. QED  BY <1>0, <1>2, <2>1, Committed DEF Kept
<1>3. ASSUME NEW k \in Calls, OpenFile(k) PROVE \A j \in Calls : Kept(j)'
  BY <1>0, <1>3 DEF OpenFile, Kept, TypeOK
<1>4. ASSUME NEW k \in Calls, DeleteObject(k) PROVE \A j \in Calls : Kept(j)'
  <2>1. call[k].pc = "done"
    BY <1>0, <1>4 DEF DeleteObject, Kept, Phase
  <2>2. QED  BY <1>0, <1>4, <2>1 DEF DeleteObject, Kept, TypeOK
<1>5. ASSUME NEW k \in Calls, ForgetFile(k) PROVE \A j \in Calls : Kept(j)'
  <2>1. /\ \A j \in Calls : log'[j].state = log[j].state
        /\ \A j \in Calls \ {k} : log'[j] = log[j]
        /\ ~log'[k].file
    BY <1>0, <1>5 DEF ForgetFile, TypeOK, Row
  <2>2. QED  BY <1>0, <1>5, <2>1 DEF ForgetFile, Kept, TypeOK
<1>6. ASSUME NEW c \in Conns, LoadConnection(c) PROVE \A j \in Calls : Kept(j)'
  BY <1>6 DEF LoadConnection, Kept
<1>7. ASSUME NEW c \in Conns, DropConnection(c) PROVE \A j \in Calls : Kept(j)'
  <2>1. UNCHANGED <<call, blob, unlink>>
    BY <1>7 DEF DropConnection
  <2>2. QED  BY <1>0, <1>7, <2>1, Cascaded DEF Kept
<1>8. CASE UNCHANGED vars
  BY <1>8 DEF vars, Kept
<1>9. QED
  BY <1>1, <1>2, <1>3, <1>4, <1>5, <1>6, <1>7, <1>8 DEF Next, Crash

(* While no process dies between the object and the row, a listed file can *)
(* be downloaded: the upload precedes the row, its removal starts with a   *)
(* row that is there, and a storage error keeps both.                      *)
THEOREM ListedHasObjectAlways ==
  ASSUME "crash" \notin Faults
  PROVE  Spec => []ListedHasObject
<1>. DEFINE Inv == AuditInv /\ \A k \in Calls : Kept(k)
<1>1. Init => Inv
  BY AuditInit DEF Init, Kept, NoRow
<1>2. Inv /\ [Next]_vars => Inv'
  BY AuditStep, KeptStep
<1>3. Inv => ListedHasObject
  BY DEF Kept, ListedHasObject
<1>4. QED  BY <1>1, <1>2, <1>3, PTL DEF Spec

-----------------------------------------------------------------------------

\* Only a skill's call, which belongs to no connection and comes through MCP,
\* carries a file.
FileCall(k) ==
  /\ call[k].pc # "new" /\ call[k].mode = "skill" => /\ call[k].surface = "mcp"
                                                    /\ call[k].row.conn = None
  /\ call[k].pc = "collect" => call[k].mode = "skill"
  /\ call[k].row.file => /\ call[k].mode = "skill"
                         /\ call[k].pc \in {"bump", "commit", "done"}

\* An object is a listed row's or about to be; a row with a file is loaded by
\* no deletion of a connection, and forgotten only when the object is gone.
FileRow(k) ==
  /\ log[k].file => log[k].conn = None
  /\ unlink[k] # "no" => log[k].state # "none"
  /\ unlink[k] = "row" => k \notin blob
  /\ k \in blob => \/ log[k].state = "stored" /\ log[k].file
                   \/ call[k].pc \in {"bump", "commit"} /\ call[k].row.file
  /\ \A c \in Conns : k \in drop[c].seen => ~log[k].file

FileInv == \A k \in Calls : FileCall(k) /\ FileRow(k)

(* A step of one call that leaves log and deletions alone.                 *)
LEMMA FileCallStep ==
  ASSUME FileInv, NEW k \in Calls, UNCHANGED <<log, drop, unlink>>,
         \A j \in Calls \ {k} : call'[j] = call[j],
         blob' \in {blob, blob \cup {k}},
         FileCall(k)', FileRow(k)'
  PROVE  FileInv'
<1>1. ASSUME NEW j \in Calls, j # k PROVE FileCall(j)' /\ FileRow(j)'
  BY <1>1 DEF FileInv, FileCall, FileRow
<1>2. QED  BY <1>1 DEF FileInv

(* The calls: a file appears with its object, and stays with it until the  *)
(* row is committed.                                                       *)
LEMMA FileCalls ==
  ASSUME "commit_fails" \notin Faults, AuditInv, FileInv, NEW k \in Calls, Execute(k)
  PROVE  FileInv'
<1>0. /\ TypeOK /\ Phase(k) /\ FileCall(k) /\ FileRow(k)
      /\ call[k] \in Call /\ call[k].row \in Row
  BY Rows DEF AuditInv, FileInv
<1>1. ASSUME NEW surface \in Surfaces, NEW mode \in Modes,
             NEW c \in Conns \cup {None}, Arrive(k, surface, mode, c)
      PROVE  FileInv'
  <2>. DEFINE r == [NoRow EXCEPT !.conn = c]
  <2>1. call' = [call EXCEPT ![k] = [call[k] EXCEPT
                   !.pc = "prepare", !.surface = surface, !.mode = mode, !.row = r]]
    BY <1>1 DEF Arrive
  <2>2. ~r.file /\ r.conn = c
    BY DEF NoRow
  <2>. HIDE DEF r
  <2>3. /\ call'[k].pc = "prepare" /\ call'[k].surface = surface
        /\ call'[k].mode = mode /\ call'[k].row = r
        /\ \A j \in Calls \ {k} : call'[j] = call[j]
    BY <1>0, <2>1 DEF TypeOK, Call
  <2>4. /\ UNCHANGED <<log, drop, unlink, blob>> /\ call[k].pc = "new"
        /\ mode = "skill" => surface = "mcp" /\ c = None
    BY <1>1 DEF Arrive, OnlyCalls, Runs
  <2>5. FileCall(k)' /\ FileRow(k)'
    BY <1>0, <2>2, <2>3, <2>4 DEF FileCall, FileRow
  <2>6. QED  BY <2>3, <2>4, <2>5, FileCallStep
<1>2. ASSUME UNCHANGED <<log, drop, unlink>>, NEW status, NEW file \in BOOLEAN,
             Record(k, status, file), call[k].pc \in {"prepare", "send", "collect"},
             file => call[k].mode = "skill",
             blob' = IF file THEN blob \cup {k} ELSE blob
      PROVE  FileInv'
  <2>1. /\ call'[k].pc = "bump" /\ call'[k].surface = call[k].surface
        /\ call'[k].mode = call[k].mode /\ call'[k].row.conn = call[k].row.conn
        /\ call'[k].row.file = file
        /\ \A j \in Calls \ {k} : call'[j] = call[j]
    BY <1>0, <1>2, Recorded
  <2>2. log[k].state = "none" /\ unlink[k] = "no"
    BY <1>0, <1>2 DEF Phase, FileRow
  <2>3. FileCall(k)' /\ FileRow(k)'
    BY <1>0, <1>2, <2>1, <2>2 DEF FileCall, FileRow
  <2>4. QED  BY <1>2, <2>1, <2>3, FileCallStep
<1>3. ASSUME UNCHANGED <<log, drop, unlink, blob>>, Raise(k),
             call[k].pc \in {"prepare", "send", "collect"}
      PROVE  FileInv'
  <2>1. /\ call'[k].pc = "done" /\ call'[k].surface = call[k].surface
        /\ call'[k].mode = call[k].mode /\ call'[k].row = call[k].row
        /\ \A j \in Calls \ {k} : call'[j] = call[j]
    BY <1>0, <1>3, Raised
  <2>2. FileCall(k)' /\ FileRow(k)'
    BY <1>0, <1>3, <2>1 DEF FileCall, FileRow
  <2>3. QED  BY <1>3, <2>1, <2>2, FileCallStep
<1>4. ASSUME UNCHANGED <<log, drop, unlink, blob>>, NEW pc, Goto(k, pc),
             \/ call[k].pc \in {"prepare", "send"} /\ pc \in {"send", "collect"}
             \/ call[k].pc = "bump" /\ pc = IF call[k].surface = "rest" THEN "answer"
                                                                       ELSE "commit",
             pc = "collect" => call[k].mode = "skill"
      PROVE  FileInv'
  <2>1. /\ call'[k].pc = pc /\ call'[k].surface = call[k].surface
        /\ call'[k].mode = call[k].mode /\ call'[k].row = call[k].row
        /\ \A j \in Calls \ {k} : call'[j] = call[j]
    BY <1>0, <1>4, Moved
  <2>2. call[k].row.file => call[k].surface = "mcp"
    BY <1>0 DEF FileCall
  <2>3. FileCall(k)' /\ FileRow(k)'
    BY <1>0, <1>4, <2>1, <2>2 DEF FileCall, FileRow
  <2>4. QED  BY <1>4, <2>1, <2>3, FileCallStep
<1>5. CASE Refuse(k)
  BY <1>3, <1>5 DEF Refuse, OnlyCalls, Runs
<1>6. CASE Prepare(k)
  BY <1>2, <1>3, <1>4, <1>6 DEF Prepare, OnlyCalls, Runs
<1>7. CASE Send(k)
  BY <1>2, <1>3, <1>4, <1>7 DEF Send, Runs
<1>8. CASE Collect(k)
  <2>1. call[k].pc = "collect" /\ call[k].mode = "skill"
    BY <1>0, <1>8 DEF Collect, Runs, FileCall
  <2>2. QED  BY <1>2, <1>3, <1>8, <2>1 DEF Collect
<1>9. CASE Bump(k)
  BY <1>4, <1>9 DEF Bump, Runs
<1>10. CASE Answer(k)
  <2>1. /\ call'[k].pc = "commit" /\ call'[k].surface = call[k].surface
        /\ call'[k].mode = call[k].mode /\ call'[k].row = call[k].row
        /\ \A j \in Calls \ {k} : call'[j] = call[j]
    BY <1>0, <1>10 DEF Answer, TypeOK, Call
  <2>2. UNCHANGED <<log, drop, unlink, blob>> /\ call[k].pc = "answer"
    BY <1>10 DEF Answer, OnlyCalls, Runs
  <2>3. FileCall(k)' /\ FileRow(k)'
    BY <1>0, <2>1, <2>2 DEF FileCall, FileRow
  <2>4. QED  BY <2>1, <2>2, <2>3, FileCallStep
<1>11. CASE Commit(k)
  <2>1. /\ call[k].pc = "commit" /\ call[k].row.state = "stored" /\ log[k].state = "none"
        /\ UNCHANGED <<drop, unlink, blob>> /\ unlink[k] = "no"
    BY <1>0, <1>11 DEF Commit, Runs, Phase, FileRow
  <2>2. CASE UNCHANGED log /\ Raise(k)
    <3>1. /\ call'[k].pc = "done" /\ call'[k].surface = call[k].surface
          /\ call'[k].mode = call[k].mode /\ call'[k].row = call[k].row
          /\ \A j \in Calls \ {k} : call'[j] = call[j]
      BY <1>0, <2>2, Raised
    <3>2. Detached(k)
      BY <1>0, <1>11, <2>1, <2>2, <3>1 DEF Commit, TypeOK
    <3>3. ~call[k].row.file
      BY <1>0, <2>1, <3>2 DEF Detached, FileCall
    <3>4. FileCall(k)' /\ FileRow(k)'
      BY <1>0, <2>1, <2>2, <3>1, <3>3 DEF FileCall, FileRow
    <3>5. QED  BY <2>1, <2>2, <3>1, <3>4, FileCallStep
  <2>3. CASE /\ log' = [log EXCEPT ![k] = call[k].row]
             /\ call' = [call EXCEPT ![k] = [call[k] EXCEPT !.pc = "done", !.reply = "outcome"]]
    <3>1. /\ call'[k].pc = "done" /\ call'[k].surface = call[k].surface
          /\ call'[k].mode = call[k].mode /\ call'[k].row = call[k].row
          /\ \A j \in Calls \ {k} : call'[j] = call[j]
      BY <1>0, <2>3 DEF TypeOK, Call
    <3>2. log'[k] = call[k].row /\ \A j \in Calls \ {k} : log'[j] = log[j]
      BY <1>0, <2>3 DEF TypeOK
    <3>3. \A c \in Conns : k \notin drop[c].seen
      BY <2>1 DEF AuditInv, Loaded
    <3>4. FileCall(k)' /\ FileRow(k)'
      BY <1>0, <2>1, <3>1, <3>2, <3>3 DEF FileCall, FileRow
    <3>5. ASSUME NEW j \in Calls, j # k PROVE FileCall(j)' /\ FileRow(j)'
      BY <2>1, <3>1, <3>2, <3>5 DEF FileInv, FileCall, FileRow
    <3>6. QED  BY <3>4, <3>5 DEF FileInv
  <2>4. QED  BY <1>11, <2>2, <2>3 DEF Commit
<1>12. QED
  BY <1>1, <1>5, <1>6, <1>7, <1>8, <1>9, <1>10, <1>11 DEF Execute

(* The deletions: of a file, object first, and of a connection, which has  *)
(* loaded no row with a file.                                              *)
LEMMA FileStep ==
  ASSUME "crash" \notin Faults, "commit_fails" \notin Faults,
         AuditInv, FileInv, [Next]_vars
  PROVE  FileInv'
<1>0. TypeOK /\ \A k \in Calls : Phase(k) /\ FileCall(k) /\ FileRow(k)
  BY DEF AuditInv, FileInv
<1>1. ASSUME NEW k \in Calls, Execute(k) PROVE FileInv'
  BY <1>1, FileCalls
<1>2. ASSUME NEW k \in Calls, OpenFile(k) \/ DeleteObject(k) PROVE FileInv'
  <2>1. /\ UNCHANGED <<log, call, drop>> /\ log[k].state # "none"
        /\ \A j \in Calls \ {k} : unlink'[j] = unlink[j] /\ (j \in blob' <=> j \in blob)
        /\ unlink'[k] = "row" => k \notin blob'
        /\ blob' \subseteq blob
    BY <1>0, <1>2 DEF OpenFile, DeleteObject, TypeOK, FileRow
  <2>2. QED  BY <1>0, <2>1 DEF FileInv, FileCall, FileRow
<1>3. ASSUME NEW k \in Calls, ForgetFile(k) PROVE FileInv'
  <2>1. /\ UNCHANGED <<call, drop, blob>> /\ k \notin blob
        /\ \A j \in Calls \ {k} : log'[j] = log[j] /\ unlink'[j] = unlink[j]
        /\ log'[k].state = log[k].state /\ ~log'[k].file /\ unlink'[k] = "no"
    BY <1>0, <1>3 DEF ForgetFile, TypeOK, Row, FileRow
  <2>2. QED  BY <1>0, <2>1 DEF FileInv, FileCall, FileRow
<1>4. ASSUME NEW c \in Conns, LoadConnection(c) PROVE FileInv'
  <2>1. /\ UNCHANGED <<call, log, blob, unlink>>
        /\ drop' = [drop EXCEPT ![c] = [on |-> TRUE, seen |-> Attributed(c)]]
    BY <1>4 DEF LoadConnection
  <2>2. \A k \in Attributed(c) : ~log[k].file
    BY <1>0, ExecutionAssumption DEF Attributed, FileRow
  <2>3. \A d \in Conns : drop'[d].seen = IF d = c THEN Attributed(c) ELSE drop[d].seen
    BY <1>0, <2>1 DEF TypeOK
  <2>4. QED  BY <1>0, <2>1, <2>2, <2>3 DEF FileInv, FileCall, FileRow
<1>5. ASSUME NEW c \in Conns, DropConnection(c) PROVE FileInv'
  <2>1. UNCHANGED <<call, blob, unlink>>
    BY <1>5 DEF DropConnection
  <2>2. \A d \in Conns : drop'[d].seen = drop[d].seen
    BY <1>0, <1>5 DEF DropConnection, TypeOK, Drop
  <2>3. \A k \in Calls : log[k].state # "none" => log'[k].state # "none"
    BY <1>0, <1>5, Cascaded
  <2>4. \A k \in Calls : /\ log'[k].file = log[k].file
                         /\ log[k].file => log'[k] = log[k]
    <3>1. ASSUME NEW k \in Calls, log[k].file PROVE log'[k] = log[k]
      <4>1. k \notin drop[c].seen /\ k \notin Attributed(c)
        BY <1>0, <3>1, ExecutionAssumption DEF FileRow, Attributed
      <4>2. QED  BY <1>5, <4>1 DEF DropConnection
    <3>2. QED  BY <1>0, <1>5, <3>1, Cascaded
  <2>5. QED  BY <1>0, <2>1, <2>2, <2>3, <2>4 DEF FileInv, FileCall, FileRow
<1>6. CASE UNCHANGED vars
  BY <1>6 DEF vars, FileInv, FileCall, FileRow
<1>7. QED
  BY <1>1, <1>2, <1>3, <1>4, <1>5, <1>6 DEF Next, Crash

(* While no process dies and no COMMIT is refused for its payload, no      *)
(* artifact outlives what the dashboard can reach: neither the deletion of *)
(* a connection nor one of a file orphans an object, over either surface   *)
(* and with the vault, the sandbox, the storage or the counter down.       *)
THEOREM ObjectIsListedAlways ==
  ASSUME "crash" \notin Faults, "commit_fails" \notin Faults
  PROVE  Spec => []ObjectIsListed
<1>. DEFINE Inv == AuditInv /\ FileInv
<1>1. Init => Inv
  BY AuditInit DEF Init, FileInv, FileCall, FileRow, NoRow
<1>2. Inv /\ [Next]_vars => Inv'
  BY AuditStep, FileStep
<1>3. Inv => ObjectIsListed
  BY DEF FileInv, FileRow, ObjectIsListed, AuditInv, TypeOK
<1>4. QED  BY <1>1, <1>2, <1>3, PTL DEF Spec

=============================================================================
