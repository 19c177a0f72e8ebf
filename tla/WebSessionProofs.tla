--------------------------- MODULE WebSessionProofs ---------------------------
(***************************************************************************)
(* Machine-checked proofs about WebSession, for any number of sessions and *)
(* requests, any time-to-live and any combination of faults.               *)
(*                                                                         *)
(* IdleWithinAbsolute is not inductive: touch computes the idle deadline   *)
(* from the absolute limit it read at lookup, and the row is written much  *)
(* later.  Shape adds that the limit a request remembers is the row's for  *)
(* as long as the row is stored, which holds because a row is written once *)
(* by the login that created it: OneStore, and a login's row is absent.    *)
(* RotationPersisted rests on the row lock: RotInv, in its own section.    *)
(* LogoutAllKillsKeycloak, for one cookie, rests on LogoutInv, in another.  *)
(***************************************************************************)
EXTENDS WebSession, TLAPS

\* What request r may assume of the rows and families: a login's row is yet
\* to come, any other request found its row and remembers its limit.
Shape(r, rows, fams) ==
  /\ r.pc = "store" => /\ r.sid \in Sids
                       /\ rows[r.sid].state = "absent"
                       /\ fams[r.sid].cur # 0
  /\ r.pc \notin {"idle", "store"} =>
       /\ r.sid \in Sids
       /\ rows[r.sid].state # "absent"
       /\ rows[r.sid].state = "stored" => r.copy.absExp = rows[r.sid].absExp
  /\ r.pc = "body" => r.idle <= r.copy.absExp

RowOK(r) == /\ r.revokedAt = None <=> r.reason = None
            /\ r.state # "stored" => r.revokedAt = None
            /\ r.state = "stored" => r.idleExp <= r.absExp

OneStore == \A p, q \in Reqs :
  req[p].pc = "store" /\ req[q].pc = "store" /\ req[p].sid = req[q].sid => p = q

IInv == /\ TypeOK
        /\ \A s \in Sids : RowOK(row[s])
        /\ \A q \in Reqs : Shape(req[q], row, kc)
        /\ OneStore

-----------------------------------------------------------------------------

\* Every step but Create leaves absent what is absent, stores nothing anew
\* and keeps the absolute limit of what stays stored.
RowsKept ==
  /\ row' \in [Sids -> Row]
  /\ \A s \in Sids :
       /\ RowOK(row'[s])
       /\ row'[s].state = "absent" <=> row[s].state = "absent"
       /\ row'[s].state = "stored" => /\ row[s].state = "stored"
                                      /\ row'[s].absExp = row[s].absExp

\* A family that was opened stays known.
FamiliesKept ==
  /\ kc' \in [Sids -> Family]
  /\ \A s \in Sids : kc[s].cur # 0 => kc'[s].cur # 0

\* A step that gives one request a new well-formed record.
Sets(q) == /\ req' = [req EXCEPT ![q] = req'[q]]
           /\ req'[q] \in Req
           /\ Shape(req'[q], row', kc')

LEMMA NoRowType == NoRow \in Row
BY DEF NoRow, Row

LEMMA IdleReqType ==
  ASSUME NEW rows, NEW fams
  PROVE  IdleReq \in Req /\ IdleReq.pc = "idle" /\ Shape(IdleReq, rows, fams)
BY NoRowType DEF IdleReq, Req, Pcs, Shape

LEMMA NoneIsNoReason == ASSUME NEW r \in Reasons PROVE r # None
BY SessionAssumption DEF Reasons

LEMMA SameRows ==
  ASSUME IInv, UNCHANGED row
  PROVE  RowsKept
BY DEF IInv, TypeOK, RowsKept

LEMMA SameFamilies ==
  ASSUME IInv, UNCHANGED kc
  PROVE  FamiliesKept
BY DEF IInv, TypeOK, FamiliesKept

LEMMA ShapeKept ==
  ASSUME IInv, RowsKept, FamiliesKept, NEW q \in Reqs
  PROVE  Shape(req[q], row', kc')
BY DEF IInv, RowsKept, FamiliesKept, Shape

LEMMA SetsKeeps ==
  ASSUME IInv, RowsKept, FamiliesKept, now' \in Nat,
         NEW q \in Reqs, Sets(q), req'[q].pc # "store"
  PROVE  IInv'
<1>1. TypeOK'
  BY DEF IInv, TypeOK, RowsKept, RowOK, FamiliesKept, Sets
<1>2. \A s \in Sids : RowOK(row'[s])
  BY DEF RowsKept
<1>3. \A p \in Reqs : Shape(req'[p], row', kc')
  BY ShapeKept DEF IInv, TypeOK, Sets
<1>4. OneStore'
  BY DEF IInv, TypeOK, OneStore, Sets
<1> QED
  BY <1>1, <1>2, <1>3, <1>4 DEF IInv

LEMMA EndSets ==
  ASSUME IInv, NEW q \in Reqs, End(q)
  PROVE  Sets(q) /\ req'[q].pc # "store"
<1>1. req'[q] = IdleReq
  BY DEF End, IInv, TypeOK
<1>2. IdleReq \in Req /\ IdleReq.pc = "idle" /\ Shape(IdleReq, row', kc')
  BY IdleReqType
<1> QED
  BY <1>1, <1>2 DEF End, Sets

\* A request that moves on and keeps what it remembers.
LEMMA GotoSets ==
  ASSUME IInv, RowsKept, FamiliesKept, NEW q \in Reqs,
         NEW pc \in Pcs \ {"idle", "store", "body"},
         req[q].pc \notin {"idle", "store"}, Goto(q, pc)
  PROVE  Sets(q) /\ req'[q].pc # "store"
<1> DEFINE r == [req[q] EXCEPT !.pc = pc]
<1>1. req' = [req EXCEPT ![q] = r] /\ req'[q] = r /\ req[q] \in Req
  BY DEF Goto, IInv, TypeOK
<1>2. r \in Req
  BY <1>1 DEF Req
<1>3. Shape(req[q], row', kc')
  BY ShapeKept
<1>4. Shape(r, row', kc') /\ r.pc # "store"
  BY <1>1, <1>3 DEF Shape, Req
<1> QED
  BY <1>1, <1>2, <1>4 DEF Sets

LEMMA TickStep == IInv /\ Tick => IInv'
<1> SUFFICES ASSUME IInv, Tick PROVE IInv'
  OBVIOUS
<1> QED
  BY DEF IInv, Tick, TypeOK, OneStore

LEMMA LoginExchangeStep ==
  ASSUME IInv, NEW q \in Reqs, NEW s \in Sids, LoginExchange(q, s)
  PROVE  IInv'
<1> DEFINE r == [IdleReq EXCEPT !.pc = "store", !.sid = s]
           f == [kc[s] EXCEPT !.alive = TRUE, !.cur = 1]
<1>1. /\ req' = [req EXCEPT ![q] = r] /\ req'[q] = r
      /\ kc' = [kc EXCEPT ![s] = f] /\ kc'[s] = f
      /\ UNCHANGED <<now, row>>
      /\ kc[s].cur = 0 /\ row[s].state = "absent"
  BY DEF LoginExchange, IInv, TypeOK
<1>2. r \in Req /\ r.pc = "store" /\ r.sid = s
  BY NoRowType DEF IdleReq, Req, Pcs
<1>3. f \in Family /\ f.cur = 1
  BY DEF IInv, TypeOK, Family
<1>4. kc' \in [Sids -> Family]
  BY <1>1, <1>3 DEF IInv, TypeOK
<1>5. FamiliesKept
  BY <1>1, <1>3, <1>4 DEF FamiliesKept
<1>6. RowsKept
  BY <1>1, SameRows
<1>7. TypeOK'
  BY <1>1, <1>2, <1>4 DEF IInv, TypeOK
<1> HIDE DEF r, f
<1>8. Shape(r, row', kc')
  BY <1>1, <1>2, <1>3 DEF Shape
<1>9. \A p \in Reqs : Shape(req'[p], row', kc')
  BY <1>1, <1>5, <1>6, <1>8, ShapeKept DEF IInv, TypeOK
<1>10. \A p \in Reqs : req[p].pc = "store" => req[p].sid # s
  BY <1>1 DEF IInv, Shape
<1>11. OneStore'
  BY <1>1, <1>2, <1>10 DEF IInv, TypeOK, OneStore
<1> QED
  BY <1>1, <1>7, <1>9, <1>11 DEF IInv

LEMMA CreateStep ==
  ASSUME IInv, NEW q \in Reqs, Create(q)
  PROVE  IInv'
<1> DEFINE s == req[q].sid
           n == [NoRow EXCEPT !.state = "stored", !.rt = 1,
                              !.accessExp = now + AccessTTL,
                              !.idleExp = now + IdleTTL,
                              !.absExp = now + AbsTTL]
<1>1. /\ req' = [req EXCEPT ![q] = IdleReq] /\ req'[q] = IdleReq
      /\ row' = [row EXCEPT ![s] = n]
      /\ UNCHANGED <<now, kc>>
      /\ req[q].pc = "store" /\ s \in Sids /\ row[s].state = "absent"
  BY DEF Create, End, IInv, TypeOK, Shape
<1>2. now \in Nat /\ IdleTTL \in Nat /\ AbsTTL \in Nat /\ AccessTTL \in Nat
      /\ IdleTTL <= AbsTTL
  BY SessionAssumption DEF IInv, TypeOK
<1>3. /\ n.state = "stored" /\ n.revokedAt = None /\ n.reason = None
      /\ n.idleExp = now + IdleTTL /\ n.absExp = now + AbsTTL
  BY DEF NoRow
<1>4. now + IdleTTL \in Nat /\ now + AbsTTL \in Nat /\ now + AccessTTL \in Nat
      /\ now + IdleTTL <= now + AbsTTL
  BY <1>2
<1>5. n \in Row
  BY <1>4, NoRowType DEF NoRow, Row
<1>6. row' \in [Sids -> Row] /\ row'[s] = n
  BY <1>1, <1>5 DEF IInv, TypeOK
<1>7. RowOK(n)
  BY <1>3, <1>4 DEF RowOK
<1> HIDE DEF n
<1>8. \A t \in Sids : RowOK(row'[t])
  BY <1>1, <1>6, <1>7 DEF IInv, TypeOK
<1>9. IdleReq \in Req /\ IdleReq.pc = "idle" /\ Shape(IdleReq, row', kc')
  BY IdleReqType
<1>10. TypeOK'
  BY <1>1, <1>6, <1>8, <1>9 DEF IInv, TypeOK, RowOK
<1>11. ASSUME NEW p \in Reqs, p # q PROVE Shape(req[p], row', kc')
  <2>1. Shape(req[p], row, kc)
    BY DEF IInv
  <2>2. req[p].pc # "idle" => req[p].sid # s
    BY <1>1, <1>11, <2>1 DEF IInv, OneStore, Shape
  <2>3. req[p].pc # "idle" => req[p].sid \in Sids /\ row'[req[p].sid] = row[req[p].sid]
    BY <1>1, <2>1, <2>2 DEF IInv, TypeOK, Shape
  <2> QED
    BY <1>1, <2>1, <2>3 DEF Shape
<1>12. \A p \in Reqs : Shape(req'[p], row', kc')
  BY <1>1, <1>9, <1>11 DEF IInv, TypeOK
<1>13. OneStore'
  BY <1>1, <1>9 DEF IInv, TypeOK, OneStore
<1> QED
  BY <1>8, <1>10, <1>12, <1>13 DEF IInv

LEMMA LookupStep ==
  ASSUME IInv, NEW q \in Reqs, NEW s \in Sids,
         NEW pc \in {"lock", "touch", "revoke", "select_all"}, Lookup(q, s, pc)
  PROVE  IInv'
<1> DEFINE r == [IdleReq EXCEPT !.pc = pc, !.sid = s, !.copy = row[s]]
<1>1. /\ req' = [req EXCEPT ![q] = r] /\ req'[q] = r
      /\ UNCHANGED <<now, row, kc>>
      /\ row[s].state = "stored" /\ row[s] \in Row
  BY DEF Lookup, Usable, IInv, TypeOK
<1>2. r \in Req /\ r.pc = pc
  BY <1>1 DEF IdleReq, Req, Pcs
<1>3. Shape(r, row', kc')
  BY <1>1, <1>2 DEF Shape, IdleReq
<1>4. Sets(q) /\ req'[q].pc # "store"
  BY <1>1, <1>2, <1>3 DEF Sets
<1> QED
  BY <1>1, <1>4, SameRows, SameFamilies, SetsKeeps DEF IInv, TypeOK

LEMMA LockStep ==
  ASSUME IInv, NEW q \in Reqs, Lock(q)
  PROVE  IInv'
<1>1. UNCHANGED <<now, row, kc>> /\ req[q].pc = "lock"
  BY DEF Lock
<1>2. RowsKept /\ FamiliesKept /\ now' \in Nat
  BY <1>1, SameRows, SameFamilies DEF IInv, TypeOK
<1>3. CASE End(q)
  BY <1>2, <1>3, EndSets, SetsKeeps
<1>4. CASE ~End(q)
  <2> DEFINE pc == IF ~NeedsRefresh(Reread(q)) THEN "touch"
                   ELSE IF Reread(q).readable THEN "exchange" ELSE "unreadable"
             r == [req[q] EXCEPT !.copy = Reread(q), !.pc = pc]
  <2>1. /\ req' = [req EXCEPT ![q] = r] /\ req'[q] = r
        /\ req[q] \in Req /\ Reread(q) = req[q].copy
    BY <1>4 DEF Lock, Reread, IInv, TypeOK
  <2>2. pc \in {"touch", "exchange", "unreadable"}
    OBVIOUS
  <2> HIDE DEF pc
  <2>3. r \in Req /\ r.pc = pc /\ r.sid = req[q].sid /\ r.copy = req[q].copy
    BY <2>1, <2>2 DEF Req, Pcs
  <2>4. Shape(r, row', kc')
    BY <1>1, <2>2, <2>3 DEF IInv, Shape
  <2> QED
    BY <1>2, <2>1, <2>2, <2>3, <2>4, SetsKeeps DEF Sets
<1> QED
  BY <1>3, <1>4

LEMMA RefreshOkStep ==
  ASSUME IInv, NEW q \in Reqs, RefreshOk(q)
  PROVE  IInv'
<1> DEFINE s == req[q].sid
           f == [kc[s] EXCEPT !.cur = kc[s].cur + 1]
           d == [req[q].copy EXCEPT !.rt = kc[s].cur + 1, !.readable = TRUE,
                                    !.accessExp = now + AccessTTL]
           r == [req[q] EXCEPT !.pc = "persist", !.copy = d]
<1>1. /\ req[q].pc = "exchange" /\ s \in Sids
      /\ UNCHANGED <<now, row>>
      /\ req[q] \in Req /\ kc[s] \in Family /\ now \in Nat /\ AccessTTL \in Nat
  BY SessionAssumption DEF RefreshOk, IInv, TypeOK, Shape
<1>2. kc' = [kc EXCEPT ![s] = f]
  BY DEF RefreshOk
<1>3. req' = [req EXCEPT ![q] = r]
  BY DEF RefreshOk
<1>4. kc[s].cur + 1 \in Nat /\ kc[s].cur + 1 # 0 /\ now + AccessTTL \in Nat
  BY <1>1 DEF Family
<1>5. f \in Family /\ f.cur # 0
  BY <1>1, <1>4 DEF Family
<1>6. req[q].copy \in Row
  BY <1>1 DEF Req
<1>7. d \in Row /\ d.absExp = req[q].copy.absExp
  BY <1>4, <1>6 DEF Row
<1> HIDE DEF f, d
<1>8. r \in Req /\ r.pc = "persist" /\ r.sid = s /\ r.copy = d
  BY <1>1, <1>7 DEF Req, Pcs
<1> HIDE DEF r
<1>9. RowsKept
  BY <1>1, SameRows
<1>10. FamiliesKept
  BY <1>1, <1>2, <1>5 DEF FamiliesKept, IInv, TypeOK
<1>11. Shape(r, row', kc')
  BY <1>1, <1>7, <1>8 DEF IInv, Shape
<1>12. req'[q] = r
  BY <1>3 DEF IInv, TypeOK
<1> QED
  BY <1>1, <1>3, <1>8, <1>9, <1>10, <1>11, <1>12, SetsKeeps DEF Sets

LEMMA RefreshRejectedStep ==
  ASSUME IInv, NEW q \in Reqs, RefreshRejected(q)
  PROVE  IInv'
<1>1. req[q].pc = "exchange" /\ UNCHANGED <<now, row>> /\ Goto(q, "reuse")
  BY DEF RefreshRejected
<1>2. FamiliesKept
  <2> DEFINE s == req[q].sid
             e == [kc[s] EXCEPT !.alive = FALSE]
             f == [e EXCEPT !.end = "reuse"]
  <2>1. kc \in [Sids -> Family] /\ (s \in Sids => kc[s] \in Family)
    BY DEF IInv, TypeOK
  <2>2. kc' = kc \/ kc' = [kc EXCEPT ![s] = f]
    BY DEF RefreshRejected
  <2>3. s \in Sids => e \in Family /\ e.cur = kc[s].cur
    BY <2>1 DEF Family
  <2> HIDE DEF e
  <2>4. s \in Sids => f \in Family /\ f.cur = kc[s].cur
    BY <2>3 DEF Family
  <2> HIDE DEF f, s
  <2> QED BY <2>1, <2>2, <2>4 DEF FamiliesKept
<1>3. RowsKept /\ now' \in Nat
  BY <1>1, SameRows DEF IInv, TypeOK
<1>4. Sets(q) /\ req'[q].pc # "store"
  BY <1>1, <1>2, <1>3, GotoSets DEF Pcs
<1> QED
  BY <1>2, <1>3, <1>4, SetsKeeps

LEMMA RefreshFailsStep ==
  ASSUME IInv, NEW q \in Reqs, RefreshFails(q)
  PROVE  IInv'
<1>1. UNCHANGED <<now, row>> /\ End(q)
  BY DEF RefreshFails
<1>2. FamiliesKept
  <2>1. CASE UNCHANGED kc
    BY <2>1, SameFamilies
  <2>2. CASE kc' = [kc EXCEPT ![req[q].sid] = [@ EXCEPT !.cur = kc[req[q].sid].cur + 1, !.lost = TRUE]]
    <3> DEFINE s == req[q].sid
               f == [kc[s] EXCEPT !.cur = kc[s].cur + 1, !.lost = TRUE]
    <3>1. s \in Sids /\ kc[s] \in Family
      BY DEF RefreshFails, IInv, TypeOK, Shape
    <3>2. kc[s].cur + 1 \in Nat /\ kc[s].cur + 1 # 0
      BY <3>1 DEF Family
    <3>3. f \in Family /\ f.cur # 0 /\ kc' = [kc EXCEPT ![s] = f]
      BY <2>2, <3>1, <3>2 DEF Family
    <3> HIDE DEF f
    <3> QED
      BY <3>1, <3>3 DEF IInv, TypeOK, FamiliesKept
  <2> QED
    BY <2>1, <2>2 DEF RefreshFails
<1> QED
  BY <1>1, <1>2, SameRows, EndSets, SetsKeeps DEF IInv, TypeOK

LEMMA PersistStep ==
  ASSUME IInv, NEW q \in Reqs, Persist(q)
  PROVE  IInv'
<1> DEFINE s == req[q].sid
           n == [row[s] EXCEPT !.rt = req[q].copy.rt, !.readable = TRUE,
                               !.accessExp = req[q].copy.accessExp]
<1>1. /\ req[q].pc = "persist" /\ s \in Sids /\ Goto(q, "touch")
      /\ UNCHANGED <<now, kc>>
      /\ req[q] \in Req /\ row[s] \in Row /\ RowOK(row[s])
  BY DEF Persist, IInv, TypeOK, Shape
<1>2. row' = [row EXCEPT ![s] = n]
  BY DEF Persist
<1>3. /\ n \in Row /\ n.state = row[s].state /\ n.absExp = row[s].absExp
      /\ n.idleExp = row[s].idleExp
      /\ n.revokedAt = row[s].revokedAt /\ n.reason = row[s].reason
  BY <1>1 DEF Req, Row
<1> HIDE DEF n
<1>4. RowsKept
  BY <1>1, <1>2, <1>3 DEF IInv, TypeOK, RowsKept, RowOK
<1>5. FamiliesKept /\ now' \in Nat
  BY <1>1, SameFamilies DEF IInv, TypeOK
<1> QED
  BY <1>1, <1>4, <1>5, GotoSets, SetsKeeps DEF Pcs

\* One row is replaced by a well-formed one of the same state and limit.
LEMMA RowReplaced ==
  ASSUME IInv, NEW s \in Sids, NEW n \in Row, row' = [row EXCEPT ![s] = n],
         RowOK(n), n.state = row[s].state, n.absExp = row[s].absExp
  PROVE  RowsKept
BY DEF IInv, TypeOK, RowsKept

LEMMA FamilyReplaced ==
  ASSUME IInv, NEW s \in Sids, NEW f \in Family, kc' = [kc EXCEPT ![s] = f],
         kc[s].cur # 0 => f.cur # 0
  PROVE  FamiliesKept
BY DEF IInv, TypeOK, FamiliesKept

LEMMA RevokedKeeps ==
  ASSUME IInv, NEW s \in Sids, NEW reason \in Reasons, row' = Revoked(s, reason)
  PROVE  RowsKept
<1>1. CASE row[s].state # "stored"
  BY <1>1, SameRows DEF Revoked
<1>2. CASE row[s].state = "stored"
  <2> DEFINE n == [row[s] EXCEPT !.revokedAt = now, !.reason = reason]
  <2>1. row' = [row EXCEPT ![s] = n]
    BY <1>2 DEF Revoked
  <2>2. row[s] \in Row /\ RowOK(row[s]) /\ now \in Nat
    BY DEF IInv, TypeOK
  <2>3. n \in Row /\ n.state = row[s].state /\ n.absExp = row[s].absExp
        /\ n.idleExp = row[s].idleExp /\ n.revokedAt = now /\ n.reason = reason
    BY <2>2 DEF Row
  <2>4. now # None /\ reason # None
    BY <2>2, SessionAssumption, NoneIsNoReason
  <2> HIDE DEF n
  <2>5. RowOK(n)
    BY <1>2, <2>2, <2>3, <2>4 DEF RowOK
  <2> QED
    BY <2>1, <2>3, <2>5, RowReplaced
<1> QED
  BY <1>1, <1>2

LEMMA LoggedOutKeeps ==
  ASSUME IInv, NEW s \in Sids, kc' = LoggedOut(s) \/ kc' = Unreached(s)
  PROVE  FamiliesKept
<1>1. CASE UNCHANGED kc
  BY <1>1, SameFamilies
<1>2. CASE kc' = LoggedOut(s) /\ kc[s].alive
  <2> DEFINE f == [kc[s] EXCEPT !.alive = FALSE, !.end = "logout"]
  <2>1. kc' = [kc EXCEPT ![s] = f]
    BY <1>2 DEF LoggedOut
  <2>2. f \in Family /\ f.cur = kc[s].cur
    BY DEF IInv, TypeOK, Family
  <2> HIDE DEF f
  <2> QED
    BY <2>1, <2>2, FamilyReplaced
<1>3. CASE kc' = Unreached(s) /\ kc[s].alive
  <2> DEFINE f == [kc[s] EXCEPT !.end = "unreached"]
  <2>1. kc' = [kc EXCEPT ![s] = f]
    BY <1>3 DEF Unreached
  <2>2. f \in Family /\ f.cur = kc[s].cur
    BY DEF IInv, TypeOK, Family
  <2> HIDE DEF f
  <2> QED
    BY <2>1, <2>2, FamilyReplaced
<1> QED
  BY <1>1, <1>2, <1>3 DEF LoggedOut, Unreached

LEMMA RevokeRejectedStep ==
  ASSUME IInv, NEW q \in Reqs, RevokeRejected(q)
  PROVE  IInv'
<1> DEFINE reason == IF req[q].pc = "reuse" THEN "refresh_reuse" ELSE "decrypt_failed"
<1>1. req[q].sid \in Sids /\ reason \in Reasons
  BY DEF RevokeRejected, IInv, Shape, Reasons
<1>2. row' = Revoked(req[q].sid, reason) /\ End(q) /\ UNCHANGED <<now, kc>>
  BY DEF RevokeRejected
<1> HIDE DEF reason
<1> QED
  BY <1>1, <1>2, RevokedKeeps, SameFamilies, EndSets, SetsKeeps DEF IInv, TypeOK

LEMMA TouchStep ==
  ASSUME IInv, NEW q \in Reqs, Touch(q)
  PROVE  IInv'
<1> DEFINE i == SlidingIdle(q)
           r == [req[q] EXCEPT !.pc = "body", !.idle = i]
<1>1. /\ req[q].pc = "touch" /\ UNCHANGED <<now, row, kc>>
      /\ req' = [req EXCEPT ![q] = r] /\ req'[q] = r
      /\ req[q] \in Req /\ now \in Nat /\ IdleTTL \in Nat
  BY SessionAssumption DEF Touch, IInv, TypeOK
<1>2. now + IdleTTL \in Nat /\ req[q].copy.absExp \in Nat
  BY <1>1 DEF Req, Row
<1>3. i \in Nat /\ i <= req[q].copy.absExp
  BY <1>2 DEF SlidingIdle
<1> HIDE DEF i
<1>4. /\ r \in Req /\ r.pc = "body" /\ r.sid = req[q].sid
      /\ r.copy = req[q].copy /\ r.idle = i
  BY <1>1, <1>3 DEF Req, Pcs
<1> HIDE DEF r
<1>5. Shape(r, row', kc')
  BY <1>1, <1>3, <1>4 DEF IInv, Shape
<1> QED
  BY <1>1, <1>4, <1>5, SameRows, SameFamilies, SetsKeeps DEF Sets

LEMMA EndRequestStep ==
  ASSUME IInv, NEW q \in Reqs, EndRequest(q)
  PROVE  IInv'
<1> DEFINE s == req[q].sid
<1>1. /\ req[q].pc = "body" /\ s \in Sids /\ End(q) /\ UNCHANGED <<now, kc>>
      /\ req[q] \in Req /\ row[s] \in Row /\ RowOK(row[s])
  BY DEF EndRequest, IInv, TypeOK, Shape
<1>2. CASE row[s].state # "stored"
  BY <1>1, <1>2, SameRows, SameFamilies, EndSets, SetsKeeps DEF EndRequest, IInv, TypeOK
<1>3. CASE row[s].state = "stored"
  <2> DEFINE n == [row[s] EXCEPT !.idleExp = req[q].idle]
  <2>1. row' = [row EXCEPT ![s] = n]
    BY <1>3 DEF EndRequest
  <2>2. req[q].idle \in Nat /\ req[q].idle <= row[s].absExp
    BY <1>1, <1>3 DEF IInv, Shape, Req
  <2>3. n \in Row /\ n.state = row[s].state /\ n.absExp = row[s].absExp
        /\ n.idleExp = req[q].idle /\ n.revokedAt = row[s].revokedAt
        /\ n.reason = row[s].reason
    BY <1>1, <2>2 DEF Row
  <2> HIDE DEF n
  <2>4. RowsKept
    BY <1>1, <2>1, <2>2, <2>3, RowReplaced DEF RowOK
  <2> QED
    BY <1>1, <2>4, SameFamilies, EndSets, SetsKeeps DEF IInv, TypeOK
<1> QED
  BY <1>2, <1>3

LEMMA BodyErrorStep ==
  ASSUME IInv, NEW q \in Reqs, BodyError(q)
  PROVE  IInv'
BY SameRows, SameFamilies, EndSets, SetsKeeps DEF BodyError, IInv, TypeOK

LEMMA RevokeLogoutStep ==
  ASSUME IInv, NEW q \in Reqs, RevokeLogout(q)
  PROVE  IInv'
<1>1. /\ req[q].pc = "revoke" /\ req[q].sid \in Sids
      /\ row' = Revoked(req[q].sid, "logout") /\ UNCHANGED <<now, kc>>
      /\ End(q) \/ Goto(q, "kc_logout")
  BY DEF RevokeLogout, IInv, Shape
<1>2. RowsKept /\ FamiliesKept /\ now' \in Nat
  BY <1>1, RevokedKeeps, SameFamilies DEF Reasons, IInv, TypeOK
<1>3. Sets(q) /\ req'[q].pc # "store"
  BY <1>1, <1>2, EndSets, GotoSets DEF Pcs
<1> QED
  BY <1>2, <1>3, SetsKeeps

LEMMA KcLogoutStep ==
  ASSUME IInv, NEW q \in Reqs, KcLogout(q)
  PROVE  IInv'
<1>1. /\ req[q].sid \in Sids /\ End(q) /\ UNCHANGED <<now, row>>
      /\ kc' = LoggedOut(req[q].sid) \/ kc' = Unreached(req[q].sid)
  BY DEF KcLogout, IInv, Shape
<1> QED
  BY <1>1, LoggedOutKeeps, SameRows, EndSets, SetsKeeps DEF IInv, TypeOK

LEMMA SelectAllStep ==
  ASSUME IInv, NEW q \in Reqs, SelectAll(q)
  PROVE  IInv'
<1>1. RowsKept /\ FamiliesKept /\ now' \in Nat
  BY SameRows, SameFamilies DEF SelectAll, IInv, TypeOK
<1>2. CASE End(q)
  BY <1>1, <1>2, EndSets, SetsKeeps
<1>3. CASE ~End(q)
  <2> DEFINE todo == { s \in { s \in Sids : Unrevoked(s) } : row[s].readable }
             r == [req[q] EXCEPT !.pc = "kc_all", !.todo = todo]
  <2>1. /\ req[q].pc = "select_all" /\ req[q] \in Req /\ UNCHANGED <<row, kc>>
        /\ req' = [req EXCEPT ![q] = r] /\ req'[q] = r
    BY <1>3 DEF SelectAll, IInv, TypeOK
  <2>2. todo \subseteq Sids
    OBVIOUS
  <2> HIDE DEF todo
  <2>3. r \in Req /\ r.pc = "kc_all" /\ r.sid = req[q].sid /\ r.copy = req[q].copy
    BY <2>1, <2>2 DEF Req, Pcs
  <2> HIDE DEF r
  <2>4. Shape(r, row', kc')
    BY <2>1, <2>3 DEF IInv, Shape
  <2> QED
    BY <1>1, <2>1, <2>3, <2>4, SetsKeeps DEF Sets
<1> QED
  BY <1>2, <1>3

LEMMA KcLogoutOneStep ==
  ASSUME IInv, NEW q \in Reqs, NEW s \in Sids, KcLogoutOne(q, s)
  PROVE  IInv'
<1> DEFINE todo == req[q].todo \ {s}
           r == [req[q] EXCEPT !.todo = todo]
<1>1. /\ req[q].pc = "kc_all" /\ req[q] \in Req /\ UNCHANGED <<now, row>>
      /\ req' = [req EXCEPT ![q] = r] /\ req'[q] = r
      /\ kc' = LoggedOut(s) \/ kc' = Unreached(s)
  BY DEF KcLogoutOne, IInv, TypeOK
<1>2. todo \subseteq Sids
  BY <1>1 DEF Req
<1> HIDE DEF todo
<1>3. r \in Req /\ r.pc = "kc_all" /\ r.sid = req[q].sid /\ r.copy = req[q].copy
  BY <1>1, <1>2 DEF Req
<1> HIDE DEF r
<1>4. RowsKept /\ FamiliesKept /\ now' \in Nat
  BY <1>1, SameRows, LoggedOutKeeps DEF IInv, TypeOK
<1>5. Shape(req[q], row', kc')
  BY <1>4, ShapeKept
<1>6. Shape(r, row', kc')
  BY <1>1, <1>3, <1>5 DEF Shape
<1> QED
  BY <1>1, <1>3, <1>4, <1>6, SetsKeeps DEF Sets

LEMMA RevokeAllStep ==
  ASSUME IInv, NEW q \in Reqs, RevokeAll(q)
  PROVE  IInv'
<1> DEFINE n(s) == [row[s] EXCEPT !.revokedAt = now, !.reason = "logout_all"]
<1>1. /\ row' = [s \in Sids |-> IF Unrevoked(s) THEN n(s) ELSE row[s]]
      /\ End(q) /\ UNCHANGED <<now, kc>> /\ now \in Nat
  BY DEF RevokeAll, IInv, TypeOK
<1>2. now # None /\ "logout_all" \in Reasons /\ "logout_all" # None
  BY <1>1, SessionAssumption, NoneIsNoReason DEF Reasons
<1>3. ASSUME NEW s \in Sids
      PROVE  row[s] \in Row /\ RowOK(row[s]) /\ n(s) \in Row
             /\ n(s).state = row[s].state /\ n(s).absExp = row[s].absExp
             /\ n(s).idleExp = row[s].idleExp
             /\ n(s).revokedAt = now /\ n(s).reason = "logout_all"
  BY <1>1, <1>2 DEF IInv, TypeOK, Row
<1> HIDE DEF n
<1>4. RowsKept
  BY <1>1, <1>2, <1>3 DEF RowsKept, RowOK, Unrevoked
<1> QED
  BY <1>1, <1>4, SameFamilies, EndSets, SetsKeeps DEF IInv, TypeOK

-----------------------------------------------------------------------------

\* The steps of the environment: no request moves, or all of them end.
LEMMA RequestsStay ==
  ASSUME IInv, RowsKept, FamiliesKept, now' \in Nat, UNCHANGED req
  PROVE  IInv'
<1>1. \A q \in Reqs : Shape(req'[q], row', kc')
  BY ShapeKept
<1> QED
  BY <1>1 DEF IInv, TypeOK, RowsKept, RowOK, FamiliesKept, OneStore

LEMMA RestartStep ==
  ASSUME IInv, RowsKept, now' \in Nat, Restart
  PROVE  IInv'
<1> DEFINE f(s) == [kc[s] EXCEPT !.lost = kc[s].lost \/ Persisting(s)]
<1>1. ASSUME NEW s \in Sids PROVE f(s) \in Family /\ f(s).cur = kc[s].cur
  <2>1. kc[s] \in Family /\ (kc[s].lost \/ Persisting(s)) \in BOOLEAN
    BY DEF IInv, TypeOK, Family
  <2> QED
    BY <2>1 DEF Family
<1>2. kc' = [s \in Sids |-> f(s)] /\ req' = [q \in Reqs |-> IdleReq]
  BY DEF Restart
<1> HIDE DEF f
<1>3. kc' \in [Sids -> Family]
  BY <1>1, <1>2
<1>4. IdleReq \in Req /\ IdleReq.pc = "idle" /\ Shape(IdleReq, row', kc')
  BY IdleReqType
<1> QED
  BY <1>2, <1>3, <1>4 DEF IInv, TypeOK, RowsKept, RowOK, OneStore

LEMMA DeleteExpiredStep == ASSUME IInv, DeleteExpired PROVE IInv'
<1> DEFINE n == [NoRow EXCEPT !.state = "purged"]
<1>1. /\ n \in Row /\ n.state = "purged" /\ n.revokedAt = None /\ n.reason = None
  BY NoRowType DEF NoRow, Row
<1>2. /\ row' = [s \in Sids |-> IF Stale(s) THEN n ELSE row[s]]
      /\ UNCHANGED <<now, kc, req>>
  BY DEF DeleteExpired
<1> HIDE DEF n
<1>3. RowsKept
  BY <1>1, <1>2 DEF IInv, TypeOK, RowsKept, RowOK, Stale
<1> QED
  BY <1>2, <1>3, SameFamilies, RequestsStay DEF IInv, TypeOK

LEMMA KcExpireStep == ASSUME IInv, NEW s \in Sids, KcExpire(s) PROVE IInv'
<1> DEFINE f == [kc[s] EXCEPT !.alive = FALSE, !.end = "expiry"]
<1>1. kc' = [kc EXCEPT ![s] = f] /\ UNCHANGED <<now, row, req>>
  BY DEF KcExpire
<1>2. f \in Family /\ f.cur = kc[s].cur
  BY DEF IInv, TypeOK, Family
<1> HIDE DEF f
<1> QED
  BY <1>1, <1>2, FamilyReplaced, SameRows, RequestsStay DEF IInv, TypeOK

LEMMA DropKeyStep == ASSUME IInv, DropKey PROVE IInv'
<1> DEFINE n(s) == [row[s] EXCEPT !.readable = FALSE]
<1>1. /\ row' = [s \in Sids |-> IF row[s].state = "stored" THEN n(s) ELSE row[s]]
      /\ Restart /\ UNCHANGED now
  BY DEF DropKey
<1>2. ASSUME NEW s \in Sids
      PROVE  row[s] \in Row /\ RowOK(row[s]) /\ n(s) \in Row
             /\ n(s).state = row[s].state /\ n(s).absExp = row[s].absExp
             /\ n(s).idleExp = row[s].idleExp
             /\ n(s).revokedAt = row[s].revokedAt /\ n(s).reason = row[s].reason
  BY DEF IInv, TypeOK, Row
<1> HIDE DEF n
<1>3. RowsKept
  BY <1>1, <1>2 DEF RowsKept, RowOK
<1> QED
  BY <1>1, <1>3, RestartStep DEF IInv, TypeOK

LEMMA CrashStep == ASSUME IInv, Crash PROVE IInv'
BY SameRows, RestartStep DEF Crash, IInv, TypeOK

LEMMA Initially == Init => IInv
<1> SUFFICES ASSUME Init PROVE IInv
  OBVIOUS
<1>1. \A q \in Reqs : req[q] \in Req /\ Shape(req[q], row, kc) /\ req[q].pc = "idle"
  BY IdleReqType DEF Init
<1>2. \A s \in Sids : row[s] \in Row /\ RowOK(row[s])
  BY NoRowType DEF Init, NoRow, RowOK
<1>3. \A s \in Sids : kc[s] \in Family
  BY DEF Init, Family
<1>4. TypeOK
  BY <1>1, <1>2, <1>3 DEF Init, TypeOK, RowOK
<1> QED
  BY <1>1, <1>2, <1>4 DEF IInv, OneStore

LEMMA NextKeeps == IInv /\ [Next]_vars => IInv'
<1> SUFFICES ASSUME IInv, [Next]_vars PROVE IInv'
  OBVIOUS
<1>1. CASE UNCHANGED vars
  BY <1>1 DEF vars, IInv, TypeOK, OneStore
<1>2. CASE Arrive
  <2>1. PICK q \in Reqs, s \in Sids :
          LoginExchange(q, s) \/ Use(q, s) \/ Logout(q, s) \/ LogoutAll(q, s)
    BY <1>2 DEF Arrive
  <2>2. CASE LoginExchange(q, s)
    BY <2>2, LoginExchangeStep
  <2>3. CASE Use(q, s)
    BY <2>3, LookupStep DEF Use
  <2>4. CASE Logout(q, s)
    BY <2>4, LookupStep DEF Logout
  <2>5. CASE LogoutAll(q, s)
    BY <2>5, LookupStep DEF LogoutAll
  <2> QED
    BY <2>1, <2>2, <2>3, <2>4, <2>5
<1>3. CASE Environment
  BY <1>3, TickStep, DeleteExpiredStep, DropKeyStep, CrashStep, KcExpireStep
     DEF Environment
<1>4. ASSUME NEW q \in Reqs, Handle(q) PROVE IInv'
  BY <1>4, CreateStep, LockStep, RefreshOkStep, RefreshRejectedStep,
     RefreshFailsStep, PersistStep, RevokeRejectedStep, TouchStep, EndRequestStep,
     BodyErrorStep, RevokeLogoutStep, KcLogoutStep, SelectAllStep, RevokeAllStep,
     KcLogoutOneStep DEF Handle
<1> QED
  BY <1>1, <1>2, <1>3, <1>4 DEF Next

-----------------------------------------------------------------------------

\* The inductive invariant: what every request in flight may assume of the
\* session row it read, whatever the others have committed since.
THEOREM Inductive == Spec => []IInv
BY Initially, NextKeeps, PTL DEF Spec

\* The state is well-formed, and a row has a revocation time exactly when it
\* has a reason.
THEOREM TypeCorrect == Spec => []TypeOK
<1>1. IInv => TypeOK
  BY DEF IInv
<1> QED
  BY <1>1, Inductive, PTL

\* touch never slides a session past its absolute lifetime, although it
\* computes the deadline long before it is committed.
THEOREM IdleWithinAbsoluteAlways == Spec => []IdleWithinAbsolute
<1>1. IInv => IdleWithinAbsolute
  BY DEF IInv, RowOK, IdleWithinAbsolute
<1> QED
  BY <1>1, Inductive, PTL

\* What one step may do to a revocation.
Sticky == \A s \in Sids : row[s].revokedAt # None =>
            row'[s].revokedAt # None \/ row'[s].state = "purged"

LEMMA UnchangedSticky == UNCHANGED row => Sticky
BY DEF Sticky

LEMMA RevokedSticky ==
  ASSUME IInv, NEW s \in Sids, NEW reason, row' = Revoked(s, reason)
  PROVE  Sticky
<1>1. now # None /\ row \in [Sids -> Row]
  BY SessionAssumption DEF IInv, TypeOK
<1>2. ASSUME NEW t \in Sids PROVE row'[t].revokedAt \in {row[t].revokedAt, now}
  BY <1>1 DEF Revoked, Row
<1> QED
  BY <1>1, <1>2 DEF Sticky

LEMMA StepSticky == IInv /\ [Next]_vars => Sticky
<1> SUFFICES ASSUME IInv, [Next]_vars PROVE Sticky
  OBVIOUS
<1>1. row \in [Sids -> Row] /\ now # None
  BY SessionAssumption DEF IInv, TypeOK
<1>2. CASE UNCHANGED row
  BY <1>2, UnchangedSticky
<1>3. CASE Arrive
  BY <1>2, <1>3 DEF Arrive, LoginExchange, Use, Logout, LogoutAll, Lookup
<1>4. CASE DeleteExpired
  BY <1>1, <1>4 DEF DeleteExpired, Sticky, Row, NoRow
<1>5. CASE DropKey
  BY <1>1, <1>5 DEF DropKey, Sticky, Row
<1>6. CASE Environment
  BY <1>2, <1>4, <1>5, <1>6 DEF Environment, Tick, Crash, KcExpire
<1>7. ASSUME NEW q \in Reqs, Create(q) PROVE Sticky
  \* The login's row was absent, and an absent row is not revoked.
  <2>1. row[req[q].sid].state = "absent" /\ req[q].sid \in Sids
    BY <1>7 DEF Create, IInv, Shape
  <2>2. row[req[q].sid].revokedAt = None
    BY <2>1 DEF IInv, RowOK
  <2>3. \A t \in Sids : t # req[q].sid => row'[t] = row[t]
    BY <1>1, <1>7 DEF Create
  <2> QED
    BY <2>2, <2>3 DEF Sticky
<1>8. ASSUME NEW q \in Reqs, Persist(q) PROVE Sticky
  <2>1. \A t \in Sids : row'[t].revokedAt = row[t].revokedAt
    BY <1>1, <1>8 DEF Persist, Row
  <2> QED
    BY <2>1 DEF Sticky
<1>9. ASSUME NEW q \in Reqs, EndRequest(q) PROVE Sticky
  <2>1. \A t \in Sids : row'[t].revokedAt = row[t].revokedAt
    BY <1>1, <1>9 DEF EndRequest, Row
  <2> QED
    BY <2>1 DEF Sticky
<1>10. ASSUME NEW q \in Reqs, RevokeRejected(q) \/ RevokeLogout(q) PROVE Sticky
  BY <1>10, RevokedSticky DEF RevokeRejected, RevokeLogout, IInv, Shape
<1>11. ASSUME NEW q \in Reqs, RevokeAll(q) PROVE Sticky
  BY <1>1, <1>11 DEF RevokeAll, Sticky, Row
<1>12. ASSUME NEW q \in Reqs, Handle(q) PROVE Sticky
  BY <1>2, <1>7, <1>8, <1>9, <1>10, <1>11, <1>12
     DEF Handle, Lock, RefreshOk, RefreshRejected, RefreshFails, Touch, BodyError,
         KcLogout, SelectAll, KcLogoutOne
<1> QED
  BY <1>2, <1>3, <1>6, <1>12 DEF Next, vars

\* No later write of any request undoes a revocation.
THEOREM RevocationStickyAlways == Spec => RevocationSticky
<1>1. IInv /\ [Next]_vars => [Sticky]_vars
  BY StepSticky
<1> QED
  BY <1>1, Inductive, PTL DEF Spec, RevocationSticky, Sticky

-----------------------------------------------------------------------------
(* The refinement.  A step is PassTime, Begin, Revoke or Forget of the abstract *)
(* life, or leaves every life and limit as it is.                            *)

Step == [Lifecycle!LifeNext]_(Lifecycle!lifeVars)

\* A step of the rows that changes no life and no limit.
Still == /\ now' = now
         /\ \A s \in Sids : LifeOf(row'[s]) = LifeOf(row[s]) /\ LimitOf(row'[s]) = LimitOf(row[s])

LEMMA StillStep == Still => Step
BY DEF Still, Step, Lifecycle!lifeVars

LEMMA SameStep == UNCHANGED <<now, row>> => Step
BY DEF Step, Lifecycle!lifeVars

LEMMA RevokeStep ==
  ASSUME IInv, UNCHANGED now, NEW S \in SUBSET Sids,
         \A s \in S : LifeOf(row[s]) = "live" /\ LifeOf(row'[s]) = "revoked",
         \A s \in Sids : LimitOf(row'[s]) = LimitOf(row[s]),
         \A s \in Sids \ S : LifeOf(row'[s]) = LifeOf(row[s])
  PROVE  Step
<1>1. Lifecycle!Revoke(S)
  BY DEF Lifecycle!Revoke
<1> QED
  BY <1>1 DEF Step, Lifecycle!LifeNext

LEMMA RevokedStep ==
  ASSUME IInv, UNCHANGED now, NEW s \in Sids, NEW reason, row' = Revoked(s, reason)
  PROVE  Step
<1>1. now # None /\ row \in [Sids -> Row]
  BY SessionAssumption DEF IInv, TypeOK
<1>2. CASE row[s].state # "stored"
  BY <1>2, SameStep DEF Revoked
<1>3. CASE row[s].state = "stored"
  <2> DEFINE n == [row[s] EXCEPT !.revokedAt = now, !.reason = reason]
  <2>1. row' = [row EXCEPT ![s] = n]
    BY <1>3 DEF Revoked
  <2>2. n.state = "stored" /\ n.revokedAt = now /\ n.absExp = row[s].absExp
    BY <1>1, <1>3 DEF Row
  <2>3. row'[s] = n /\ \A t \in Sids \ {s} : row'[t] = row[t]
    BY <1>1, <2>1
  <2> HIDE DEF n
  <2>4. \A t \in Sids : LimitOf(row'[t]) = LimitOf(row[t])
    BY <1>3, <2>2, <2>3 DEF LimitOf
  <2>5. LifeOf(row'[s]) = "revoked"
    BY <1>1, <2>2, <2>3 DEF LifeOf
  <2>6. CASE row[s].revokedAt = None
    <3>1. LifeOf(row[s]) = "live"
      BY <1>3, <2>6 DEF LifeOf
    <3> QED
      BY <2>3, <2>4, <2>5, <3>1, RevokeStep, {s} \in SUBSET Sids
  <2>7. CASE row[s].revokedAt # None
    <3>1. LifeOf(row[s]) = "revoked"
      BY <1>3, <2>7 DEF LifeOf
    <3> QED
      BY <2>3, <2>4, <2>5, <3>1, StillStep DEF Still
  <2> QED
    BY <2>6, <2>7
<1> QED
  BY <1>2, <1>3

LEMMA RevokeAllLife == ASSUME IInv, NEW q \in Reqs, RevokeAll(q) PROVE Step
<1> DEFINE S == {s \in Sids : Unrevoked(s)}
           n(s) == [row[s] EXCEPT !.revokedAt = now, !.reason = "logout_all"]
<1>1. /\ row' = [s \in Sids |-> IF s \in S THEN n(s) ELSE row[s]] /\ UNCHANGED now
      /\ now # None /\ row \in [Sids -> Row]
  BY SessionAssumption DEF RevokeAll, IInv, TypeOK
<1>2. ASSUME NEW s \in S
      PROVE  n(s).state = "stored" /\ n(s).revokedAt = now /\ n(s).absExp = row[s].absExp
             /\ row[s].state = "stored" /\ row[s].revokedAt = None
  BY <1>1 DEF Row, Unrevoked
<1> HIDE DEF n
<1>3. \A s \in S : LifeOf(row[s]) = "live" /\ LifeOf(row'[s]) = "revoked"
                    /\ LimitOf(row'[s]) = LimitOf(row[s])
  BY <1>1, <1>2 DEF LifeOf, LimitOf
<1>4. \A s \in Sids \ S : row'[s] = row[s]
  BY <1>1
<1> QED
  BY <1>1, <1>3, <1>4, RevokeStep

LEMMA CreateLife == ASSUME IInv, NEW q \in Reqs, Create(q) PROVE Step
<1> DEFINE s == req[q].sid
           n == [NoRow EXCEPT !.state = "stored", !.rt = 1,
                              !.accessExp = now + AccessTTL,
                              !.idleExp = now + IdleTTL,
                              !.absExp = now + AbsTTL]
<1>1. row' = [row EXCEPT ![s] = n] /\ UNCHANGED now /\ s \in Sids /\ row[s].state = "absent"
  BY DEF Create, IInv, Shape
<1>2. n.state = "stored" /\ n.revokedAt = None /\ n.absExp = now + AbsTTL
  BY DEF NoRow
<1>3. row'[s] = n /\ \A t \in Sids \ {s} : row'[t] = row[t]
  BY <1>1 DEF IInv, TypeOK
<1> HIDE DEF n
<1>4. LifeOf(row[s]) = "unborn" /\ LifeOf(row'[s]) = "live" /\ LimitOf(row'[s]) = now + AbsTTL
  BY <1>1, <1>2, <1>3 DEF LifeOf, LimitOf
<1>5. \A t \in Sids : /\ LifeOf(row'[t]) = IF t = s THEN "live" ELSE LifeOf(row[t])
                     /\ LimitOf(row'[t]) = IF t = s THEN now + AbsTTL ELSE LimitOf(row[t])
  BY <1>3, <1>4
<1> HIDE DEF s
<1>6. Lifecycle!Begin(s)
  BY <1>1, <1>4, <1>5 DEF Lifecycle!Begin
<1> QED
  BY <1>1, <1>6 DEF Step, Lifecycle!LifeNext

LEMMA DeleteExpiredLife == ASSUME IInv, DeleteExpired PROVE Step
<1> DEFINE S == {s \in Sids : Stale(s)}
           n == [NoRow EXCEPT !.state = "purged"]
<1>1. row' = [s \in Sids |-> IF s \in S THEN n ELSE row[s]] /\ UNCHANGED now
  BY DEF DeleteExpired
<1>2. n.state = "purged"
  BY DEF NoRow
<1> HIDE DEF n
<1>3. \A s \in S : LifeOf(row'[s]) = "gone" /\ LimitOf(row'[s]) = 0
  BY <1>1, <1>2 DEF LifeOf, LimitOf
<1>4. \A s \in Sids \ S : row'[s] = row[s]
  BY <1>1
<1>5. ASSUME NEW s \in S
      PROVE  LifeOf(row[s]) = "revoked" \/ (LifeOf(row[s]) = "live" /\ LimitOf(row[s]) < now)
  <2>1. /\ row[s].state = "stored" /\ row[s].absExp \in Nat /\ now \in Nat /\ Grace \in Nat
        /\ (row[s].absExp + Grace < now) \/ row[s].revokedAt # None
    BY <1>5, SessionAssumption DEF Stale, IInv, TypeOK, Row
  <2>2. CASE row[s].revokedAt # None
    BY <2>1, <2>2 DEF LifeOf
  <2>3. CASE row[s].revokedAt = None
    <3>1. row[s].absExp < now
      BY <2>1, <2>3
    <3> QED
      BY <2>1, <2>3, <3>1 DEF LifeOf, LimitOf
  <2> QED
    BY <2>2, <2>3
<1>6. Lifecycle!Forget(S)
  BY <1>1, <1>3, <1>4, <1>5 DEF Lifecycle!Forget, Lifecycle!Over
<1> QED
  BY <1>6 DEF Step, Lifecycle!LifeNext

\* The writes of Persist, of EndRequest and of DropKey: other columns.
LEMMA ColumnsLife ==
  ASSUME UNCHANGED now,
         \A s \in Sids : /\ row'[s].state = row[s].state
                         /\ row'[s].revokedAt = row[s].revokedAt
                         /\ row'[s].absExp = row[s].absExp
  PROVE  Step
<1>1. \A s \in Sids : LifeOf(row'[s]) = LifeOf(row[s]) /\ LimitOf(row'[s]) = LimitOf(row[s])
  BY DEF LifeOf, LimitOf
<1> QED
  BY <1>1, StillStep DEF Still

LEMMA LifeInitially == Init => Lifecycle!LifeInit
BY DEF Init, NoRow, LifeOf, LimitOf, Lifecycle!LifeInit

LEMMA LifeStep == IInv /\ [Next]_vars => Step
<1> SUFFICES ASSUME IInv, [Next]_vars PROVE Step
  OBVIOUS
<1>1. row \in [Sids -> Row]
  BY DEF IInv, TypeOK
<1>2. CASE UNCHANGED <<now, row>>
  BY <1>2, SameStep
<1>3. CASE Arrive
  BY <1>2, <1>3 DEF Arrive, LoginExchange, Use, Logout, LogoutAll, Lookup
<1>4. CASE Tick
  <2>1. Lifecycle!PassTime
    BY <1>4 DEF Tick, Lifecycle!PassTime
  <2> QED
    BY <2>1 DEF Step, Lifecycle!LifeNext
<1>5. CASE DropKey
  BY <1>1, <1>5, ColumnsLife DEF DropKey, Row
<1>6. CASE Environment
  BY <1>2, <1>4, <1>5, <1>6, DeleteExpiredLife DEF Environment, Crash, KcExpire
<1>7. ASSUME NEW q \in Reqs, Persist(q) \/ EndRequest(q) PROVE Step
  <2>1. \A s \in Sids : /\ row'[s].state = row[s].state
                       /\ row'[s].revokedAt = row[s].revokedAt
                       /\ row'[s].absExp = row[s].absExp
    <3>1. CASE Persist(q)
      BY <1>1, <3>1 DEF Persist, Row
    <3>2. CASE EndRequest(q)
      BY <1>1, <3>2 DEF EndRequest, Row
    <3> QED
      BY <1>7, <3>1, <3>2
  <2> QED
    BY <1>7, <2>1, ColumnsLife DEF Persist, EndRequest
<1>8. ASSUME NEW q \in Reqs, RevokeRejected(q) \/ RevokeLogout(q) PROVE Step
  BY <1>8, RevokedStep DEF RevokeRejected, RevokeLogout, IInv, Shape
<1>9. ASSUME NEW q \in Reqs, Handle(q) PROVE Step
  BY <1>2, <1>7, <1>8, <1>9, CreateLife, RevokeAllLife
     DEF Handle, Lock, RefreshOk, RefreshRejected, RefreshFails, Touch, BodyError,
         KcLogout, SelectAll, KcLogoutOne
<1> QED
  BY <1>2, <1>3, <1>6, <1>9 DEF Next, vars

\* The session rows implement the promised life of a session, for any number of
\* sessions and requests and every fault.
THEOREM LifecycleRefined == Spec => ImplementsLifecycle
<1>1. IInv /\ [Next]_vars => [Lifecycle!LifeNext]_(Lifecycle!lifeVars)
  BY LifeStep DEF Step
<1> QED
  BY <1>1, LifeInitially, Inductive, PTL DEF Spec, ImplementsLifecycle, Lifecycle!LifeSpec

-----------------------------------------------------------------------------
(* RotationPersisted.  The row lock is a mutual exclusion, so between the       *)
(* rotation of a token at Keycloak and the commit that stores it no other       *)
(* request can rotate the same family.                                      *)

Exclusive == \A p, q \in Reqs, s \in Sids : Holds(p, s) /\ Holds(q, s) => p = q

\* The login's token and a rotated token not yet stored are the current ones.
InHand(r) == /\ r.pc = "store" => kc[r.sid].cur = 1
             /\ r.pc = "persist" => r.copy.rt = kc[r.sid].cur

RotInv == /\ Exclusive
          /\ \A q \in Reqs : InHand(req[q])
          /\ RotationPersisted

\* No token is rotated, no family comes back, no loss is forgotten.
Quiet == \A s \in Sids : /\ kc'[s].cur = kc[s].cur
                         /\ kc'[s].alive => kc[s].alive
                         /\ kc[s].lost => kc'[s].lost

\* No row is stored anew, and none changes its refresh token.
TokensKept == \A s \in Sids : row'[s].state = "stored" =>
                row[s].state = "stored" /\ row'[s].rt = row[s].rt

\* Request q alone moves, away from any rotation, and takes at most a free lock.
Moves(q) == /\ req' = [req EXCEPT ![q] = req'[q]]
            /\ req[q].pc # "persist"
            /\ req'[q].pc \notin {"store", "persist"}
            /\ \A s \in Sids : Holds(q, s)' => Holds(q, s) \/ Free(q, s)

LEMMA OthersStay ==
  ASSUME IInv, NEW q \in Reqs, req' = [req EXCEPT ![q] = req'[q]],
         NEW p \in Reqs, p # q
  PROVE  req'[p] = req[p] /\ \A s \in Sids : Holds(p, s)' <=> Holds(p, s)
BY DEF IInv, TypeOK, Holds

LEMMA ExclusiveKept ==
  ASSUME IInv, Exclusive, NEW q \in Reqs, req' = [req EXCEPT ![q] = req'[q]],
         \A s \in Sids : Holds(q, s)' => Holds(q, s) \/ Free(q, s)
  PROVE  Exclusive'
<1> SUFFICES ASSUME NEW a \in Reqs, NEW b \in Reqs, NEW s \in Sids,
                    Holds(a, s)', Holds(b, s)', a # b
             PROVE  FALSE
  BY DEF Exclusive
<1>1. ASSUME NEW p \in Reqs, p # q, Holds(p, s)', Holds(q, s)' PROVE FALSE
  BY <1>1, OthersStay DEF Exclusive, Free
<1>2. CASE a = q
  BY <1>1, <1>2
<1>3. CASE b = q
  BY <1>1, <1>3
<1>4. CASE a # q /\ b # q
  BY <1>4, OthersStay DEF Exclusive
<1> QED
  BY <1>2, <1>3, <1>4

LEMMA QuietStep ==
  ASSUME IInv, RotInv, Quiet, TokensKept, NEW q \in Reqs, Moves(q)
  PROVE  RotInv'
<1>1. Exclusive'
  BY ExclusiveKept DEF RotInv, Moves
<1>2. \A p \in Reqs : InHand(req[p]) /\ (req[p].pc \in {"store", "persist"} => req[p].sid \in Sids)
  BY DEF RotInv, IInv, Shape
<1>3. \A p \in Reqs : InHand(req[p])'
  <2>1. InHand(req[q])'
    BY DEF Moves, InHand
  <2>2. ASSUME NEW p \in Reqs, p # q PROVE InHand(req[p])'
    BY <1>2, <2>2, OthersStay DEF Moves, InHand, Quiet
  <2> QED
    BY <2>1, <2>2
<1>4. ASSUME NEW s \in Sids PROVE Persisting(s)' <=> Persisting(s)
  BY OthersStay DEF Moves, Persisting
<1>5. RotationPersisted'
  BY <1>4 DEF RotInv, RotationPersisted, Quiet, TokensKept
<1> QED
  BY <1>1, <1>3, <1>5 DEF RotInv

\* The request keeps still: only rows and families are touched.
LEMMA QuietEnvironment ==
  ASSUME RotInv, IInv, Quiet, TokensKept, UNCHANGED req
  PROVE  RotInv'
<1>1. Exclusive'
  BY DEF RotInv, Exclusive, Holds
<1>2. \A p \in Reqs : InHand(req[p])'
  BY DEF RotInv, InHand, Quiet, IInv, Shape
<1>3. RotationPersisted'
  BY DEF RotInv, RotationPersisted, Persisting, Quiet, TokensKept
<1> QED
  BY <1>1, <1>2, <1>3 DEF RotInv

\* Every transaction in flight is over, and what it had rotated is lost.
LEMMA RestartRotates ==
  ASSUME IInv, RotInv, TokensKept, Restart
  PROVE  RotInv'
<1>1. \A q \in Reqs : req'[q].pc = "idle"
  BY DEF Restart, IdleReq
<1>2. Exclusive' /\ \A q \in Reqs : InHand(req[q])'
  BY <1>1 DEF Exclusive, Holds, InHand
<1>3. ASSUME NEW s \in Sids
      PROVE  /\ kc'[s].cur = kc[s].cur
             /\ kc'[s].alive = kc[s].alive
             /\ kc'[s].lost = (kc[s].lost \/ Persisting(s))
  BY DEF Restart, IInv, TypeOK, Family
<1>4. RotationPersisted'
  <2> SUFFICES ASSUME NEW s \in Sids, row'[s].state = "stored", kc'[s].alive, ~kc'[s].lost
               PROVE  row'[s].rt = kc'[s].cur
    BY DEF RotationPersisted
  <2>1. kc[s].alive /\ ~kc[s].lost /\ ~Persisting(s) /\ row[s].state = "stored"
    BY <1>3 DEF TokensKept
  <2>2. row[s].rt = kc[s].cur
    BY <2>1 DEF RotInv, RotationPersisted
  <2> QED
    BY <1>3, <2>2 DEF TokensKept
<1> QED
  BY <1>2, <1>4 DEF RotInv

LEMMA SameTokens == UNCHANGED row => TokensKept
BY DEF TokensKept

LEMMA SameQuiet == UNCHANGED kc => Quiet
BY DEF Quiet

LEMMA RevokedTokens ==
  ASSUME IInv, NEW s \in Sids, NEW reason, row' = Revoked(s, reason)
  PROVE  TokensKept
<1>1. CASE row[s].state # "stored"
  BY <1>1, SameTokens DEF Revoked
<1>2. CASE row[s].state = "stored"
  BY <1>2 DEF Revoked, TokensKept, IInv, TypeOK, Row
<1> QED
  BY <1>1, <1>2

LEMMA LogoutQuiet ==
  ASSUME IInv, NEW s \in Sids, kc' = LoggedOut(s) \/ kc' = Unreached(s)
  PROVE  Quiet
<1> DEFINE f == [kc[s] EXCEPT !.alive = FALSE, !.end = "logout"]
           g == [kc[s] EXCEPT !.end = "unreached"]
<1>1. kc[s] \in Family /\ kc \in [Sids -> Family]
  BY DEF IInv, TypeOK
<1>2. /\ f.cur = kc[s].cur /\ ~f.alive /\ f.lost = kc[s].lost
      /\ g.cur = kc[s].cur /\ g.alive = kc[s].alive /\ g.lost = kc[s].lost
  BY <1>1 DEF Family
<1>3. kc' \in {kc, [kc EXCEPT ![s] = f], [kc EXCEPT ![s] = g]}
  BY DEF LoggedOut, Unreached
<1> HIDE DEF f, g
<1> QED
  BY <1>1, <1>2, <1>3 DEF Quiet

\* Ending a request gives its locks back.
LEMMA EndMoves ==
  ASSUME IInv, NEW q \in Reqs, End(q), req[q].pc # "persist"
  PROVE  Moves(q)
<1>1. req' = [req EXCEPT ![q] = IdleReq] /\ req'[q] = IdleReq
  BY DEF End, IInv, TypeOK
<1>2. req'[q].pc = "idle"
  BY <1>1 DEF IdleReq
<1> QED
  BY <1>1, <1>2 DEF Moves, Holds

\* So does going on to a step that needs none, or keeping the one held.
LEMMA GotoMoves ==
  ASSUME IInv, NEW q \in Reqs, NEW pc \in {"reuse", "touch", "kc_logout"}, Goto(q, pc),
         req[q].pc # "persist", pc = "reuse" => req[q].pc = "exchange"
  PROVE  Moves(q)
<1>1. req' = [req EXCEPT ![q] = req'[q]] /\ req'[q].pc = pc /\ req'[q].sid = req[q].sid
  BY DEF Goto, IInv, TypeOK, Req
<1> QED
  BY <1>1 DEF Moves, Holds

LEMMA LookupRotates ==
  ASSUME IInv, RotInv, NEW q \in Reqs, NEW s \in Sids,
         NEW pc \in {"lock", "touch", "revoke", "select_all"}, Lookup(q, s, pc)
  PROVE  RotInv'
<1>1. /\ req' = [req EXCEPT ![q] = req'[q]] /\ req'[q].pc = pc
      /\ UNCHANGED <<row, kc>> /\ req[q].pc = "idle"
  BY DEF Lookup, IdleReq, IInv, TypeOK
<1>2. Moves(q)
  BY <1>1 DEF Moves, Holds
<1> QED
  BY <1>1, <1>2, SameTokens, SameQuiet, QuietStep

LEMMA LoginExchangeRotates ==
  ASSUME IInv, RotInv, NEW q \in Reqs, NEW s \in Sids, LoginExchange(q, s)
  PROVE  RotInv'
<1>1. /\ UNCHANGED <<now, row>>
      /\ req' = [req EXCEPT ![q] = req'[q]] /\ req[q].pc = "idle"
      /\ req'[q].pc = "store" /\ req'[q].sid = s
      /\ row[s].state = "absent" /\ kc[s].cur = 0
  BY DEF LoginExchange, IdleReq, IInv, TypeOK
<1>2. kc'[s].cur = 1 /\ \A t \in Sids \ {s} : kc'[t] = kc[t]
  BY DEF LoginExchange, IInv, TypeOK, Family
<1>3. Exclusive'
  BY <1>1, ExclusiveKept DEF RotInv, Holds
<1>4. \A p \in Reqs : req[p].pc \in {"store", "persist"} => req[p].sid \in Sids /\ req[p].sid # s
  BY <1>1 DEF IInv, Shape
<1>5. \A p \in Reqs : InHand(req[p])'
  <2>1. InHand(req[q])'
    BY <1>1, <1>2 DEF InHand
  <2>2. ASSUME NEW p \in Reqs, p # q PROVE InHand(req[p])'
    BY <1>1, <1>2, <1>4, <2>2, OthersStay DEF RotInv, InHand
  <2> QED
    BY <2>1, <2>2
<1>6. ASSUME NEW t \in Sids PROVE Persisting(t)' <=> Persisting(t)
  BY <1>1, OthersStay DEF Persisting
<1>7. RotationPersisted'
  BY <1>1, <1>2, <1>6 DEF RotInv, RotationPersisted
<1> QED
  BY <1>3, <1>5, <1>7 DEF RotInv

LEMMA CreateRotates ==
  ASSUME IInv, RotInv, NEW q \in Reqs, Create(q)
  PROVE  RotInv'
<1> DEFINE s == req[q].sid
<1>1. /\ UNCHANGED <<now, kc>> /\ req[q].pc = "store" /\ s \in Sids /\ kc[s].cur = 1
  BY DEF Create, IInv, Shape, RotInv, InHand
<1>2. row'[s].rt = 1 /\ \A t \in Sids \ {s} : row'[t] = row[t]
  BY <1>1 DEF Create, IInv, TypeOK, NoRow
<1>3. req' = [req EXCEPT ![q] = req'[q]] /\ req'[q].pc = "idle"
  BY DEF Create, End, IdleReq, IInv, TypeOK
<1>4. Exclusive'
  BY <1>3, ExclusiveKept DEF RotInv, Holds
<1>5. \A p \in Reqs : InHand(req[p])'
  <2>1. InHand(req[q])'
    BY <1>3 DEF InHand
  <2>2. ASSUME NEW p \in Reqs, p # q PROVE InHand(req[p])'
    BY <1>1, <1>3, <2>2, OthersStay DEF RotInv, InHand
  <2> QED
    BY <2>1, <2>2
<1>6. ASSUME NEW t \in Sids PROVE Persisting(t)' <=> Persisting(t)
  BY <1>1, <1>3, OthersStay DEF Persisting
<1> HIDE DEF s
<1>7. RotationPersisted'
  BY <1>1, <1>2, <1>6 DEF RotInv, RotationPersisted
<1> QED
  BY <1>4, <1>5, <1>7 DEF RotInv

LEMMA LockRotates ==
  ASSUME IInv, RotInv, NEW q \in Reqs, Lock(q)
  PROVE  RotInv'
<1>1. UNCHANGED <<row, kc>> /\ req[q].pc = "lock" /\ Free(q, req[q].sid)
  BY DEF Lock
<1>2. Moves(q)
  <2>1. CASE End(q)
    BY <1>1, <2>1, EndMoves
  <2>2. CASE ~End(q)
    <3> DEFINE pc == IF ~NeedsRefresh(Reread(q)) THEN "touch"
                     ELSE IF Reread(q).readable THEN "exchange" ELSE "unreadable"
    <3>1. req' = [req EXCEPT ![q] = [req[q] EXCEPT !.copy = Reread(q), !.pc = pc]]
      BY <2>2 DEF Lock
    <3>2. pc \in {"touch", "exchange", "unreadable"}
      OBVIOUS
    <3> HIDE DEF pc
    <3>3. req' = [req EXCEPT ![q] = req'[q]] /\ req'[q].pc = pc /\ req'[q].sid = req[q].sid
      BY <3>1 DEF IInv, TypeOK, Req
    <3> QED
      BY <1>1, <3>2, <3>3 DEF Moves, Holds
  <2> QED
    BY <2>1, <2>2
<1> QED
  BY <1>1, <1>2, SameTokens, SameQuiet, QuietStep

LEMMA TouchRotates ==
  ASSUME IInv, RotInv, NEW q \in Reqs, Touch(q)
  PROVE  RotInv'
<1>1. /\ UNCHANGED <<row, kc>> /\ req[q].pc = "touch" /\ Free(q, req[q].sid)
      /\ req' = [req EXCEPT ![q] = req'[q]] /\ req'[q].sid = req[q].sid
      /\ req'[q].pc = "body"
  BY DEF Touch, IInv, TypeOK, Req
<1>2. Moves(q)
  BY <1>1 DEF Moves, Holds
<1> QED
  BY <1>1, <1>2, SameTokens, SameQuiet, QuietStep

\* The holder of the lock rotates the token: it alone has it in hand.
LEMMA RotationStep ==
  ASSUME IInv, RotInv, NEW q \in Reqs, req[q].pc = "exchange", UNCHANGED row,
         req' = [req EXCEPT ![q] = req'[q]],
         \A s \in Sids : Holds(q, s)' => Holds(q, s),
         InHand(req[q])',
         \A s \in Sids \ {req[q].sid} : kc'[s] = kc[s],
         \/ req'[q].pc = "persist" /\ req'[q].sid = req[q].sid
         \/ req'[q].pc = "idle" /\ kc'[req[q].sid].lost
  PROVE  RotInv'
<1> DEFINE s == req[q].sid
<1>1. s \in Sids /\ row[s].state # "absent"
  BY DEF IInv, Shape
<1>2. Exclusive'
  BY ExclusiveKept DEF RotInv
<1>3. ASSUME NEW p \in Reqs, p # q, req[p].pc \in {"store", "persist"}
      PROVE  req[p].sid \in Sids \ {s}
  <2>1. CASE req[p].pc = "store"
    BY <1>1, <2>1 DEF IInv, Shape
  <2>2. CASE req[p].pc = "persist"
    BY <1>1, <1>3, <2>2 DEF RotInv, Exclusive, Holds, IInv, Shape
  <2> QED
    BY <1>3, <2>1, <2>2
<1>4. \A p \in Reqs : InHand(req[p])'
  <2>1. ASSUME NEW p \in Reqs, p # q PROVE InHand(req[p])'
    BY <1>3, <2>1, OthersStay DEF RotInv, InHand
  <2> QED
    BY <2>1
<1>5. ASSUME NEW t \in Sids \ {s} PROVE Persisting(t)' <=> Persisting(t)
  BY OthersStay DEF Persisting
<1>6. Persisting(s)' \/ kc'[s].lost
  BY DEF Persisting
<1> HIDE DEF s
<1>7. RotationPersisted'
  BY <1>5, <1>6 DEF RotInv, RotationPersisted, s
<1> QED
  BY <1>2, <1>4, <1>7 DEF RotInv

LEMMA RefreshOkRotates ==
  ASSUME IInv, RotInv, NEW q \in Reqs, RefreshOk(q)
  PROVE  RotInv'
<1> DEFINE s == req[q].sid
           d == [req[q].copy EXCEPT !.rt = kc[s].cur + 1, !.readable = TRUE,
                                    !.accessExp = now + AccessTTL]
<1>1. /\ req[q].pc = "exchange" /\ UNCHANGED row /\ s \in Sids
      /\ req[q].copy \in Row
  BY DEF RefreshOk, IInv, TypeOK, Shape, Req
<1>2. d.rt = kc[s].cur + 1
  BY <1>1 DEF Row
<1>3. req' = [req EXCEPT ![q] = [req[q] EXCEPT !.pc = "persist", !.copy = d]]
  BY DEF RefreshOk
<1> HIDE DEF d
<1>4. /\ req' = [req EXCEPT ![q] = req'[q]] /\ req'[q].pc = "persist"
      /\ req'[q].sid = s /\ req'[q].copy = d
  BY <1>3 DEF IInv, TypeOK, Req
<1>5. kc'[s].cur = kc[s].cur + 1 /\ \A t \in Sids \ {s} : kc'[t] = kc[t]
  BY <1>1 DEF RefreshOk, IInv, TypeOK, Family
<1>6. InHand(req[q])'
  BY <1>2, <1>4, <1>5 DEF InHand
<1>7. \A t \in Sids : Holds(q, t)' => Holds(q, t)
  BY <1>1, <1>4 DEF Holds
<1> QED
  BY <1>1, <1>4, <1>5, <1>6, <1>7, RotationStep

LEMMA RefreshFailsRotates ==
  ASSUME IInv, RotInv, NEW q \in Reqs, RefreshFails(q)
  PROVE  RotInv'
<1>1. req[q].pc = "exchange" /\ UNCHANGED row /\ End(q) /\ req[q].sid \in Sids
  BY DEF RefreshFails, IInv, Shape
<1>2. CASE UNCHANGED kc
  BY <1>1, <1>2, EndMoves, SameTokens, SameQuiet, QuietStep
<1>3. CASE ~UNCHANGED kc
  <2> DEFINE s == req[q].sid
             f == [kc[s] EXCEPT !.cur = kc[s].cur + 1, !.lost = TRUE]
  <2>1. kc' = [kc EXCEPT ![s] = f] /\ kc \in [Sids -> Family]
    BY <1>3 DEF RefreshFails, IInv, TypeOK
  <2>2. f.lost
    BY <1>1, <2>1 DEF Family
  <2> HIDE DEF f
  <2>3. kc'[req[q].sid].lost /\ \A t \in Sids \ {req[q].sid} : kc'[t] = kc[t]
    BY <1>1, <2>1, <2>2
  <2>4. req' = [req EXCEPT ![q] = req'[q]] /\ req'[q].pc = "idle"
    BY <1>1 DEF End, IdleReq, IInv, TypeOK
  <2>5. InHand(req[q])' /\ \A t \in Sids : Holds(q, t)' => Holds(q, t)
    BY <2>4 DEF InHand, Holds
  <2> QED
    BY <1>1, <2>3, <2>4, <2>5, RotationStep
<1> QED
  BY <1>2, <1>3

LEMMA RefreshRejectedRotates ==
  ASSUME IInv, RotInv, NEW q \in Reqs, RefreshRejected(q)
  PROVE  RotInv'
<1>1. req[q].pc = "exchange" /\ UNCHANGED row /\ Goto(q, "reuse") /\ req[q].sid \in Sids
  BY DEF RefreshRejected, IInv, Shape
<1>2. Quiet
  BY DEF RefreshRejected, Quiet, IInv, TypeOK, Family
<1> QED
  BY <1>1, <1>2, GotoMoves, SameTokens, QuietStep

\* The current token is stored, and no one else has one of this family in hand.
LEMMA PersistRotates ==
  ASSUME IInv, RotInv, NEW q \in Reqs, Persist(q)
  PROVE  RotInv'
<1> DEFINE s == req[q].sid
<1>1. /\ UNCHANGED <<now, kc>> /\ req[q].pc = "persist" /\ s \in Sids
      /\ req[q].copy.rt = kc[s].cur
  BY DEF Persist, IInv, Shape, RotInv, InHand
<1>2. /\ row'[s].rt = kc[s].cur
      /\ \A t \in Sids \ {s} : row'[t] = row[t]
  BY <1>1 DEF Persist, IInv, TypeOK, Row
<1>3. req' = [req EXCEPT ![q] = req'[q]] /\ req'[q].pc = "touch"
  BY DEF Persist, Goto, IInv, TypeOK, Req
<1>4. Exclusive'
  BY <1>3, ExclusiveKept DEF RotInv, Holds
<1>5. \A p \in Reqs : InHand(req[p])'
  <2>1. InHand(req[q])'
    BY <1>3 DEF InHand
  <2>2. ASSUME NEW p \in Reqs, p # q PROVE InHand(req[p])'
    BY <1>1, <1>3, <2>2, OthersStay DEF RotInv, InHand
  <2> QED
    BY <2>1, <2>2
<1>6. ASSUME NEW t \in Sids \ {s} PROVE Persisting(t)' <=> Persisting(t)
  BY <1>1, <1>3, OthersStay DEF Persisting
<1> HIDE DEF s
<1>7. RotationPersisted'
  BY <1>1, <1>2, <1>6 DEF RotInv, RotationPersisted
<1> QED
  BY <1>4, <1>5, <1>7 DEF RotInv

\* The steps that only revoke rows, end families or move one request.
LEMMA OtherHandlersRotate ==
  ASSUME IInv, RotInv, NEW q \in Reqs,
         \/ RevokeRejected(q) \/ EndRequest(q) \/ BodyError(q) \/ RevokeLogout(q)
         \/ KcLogout(q) \/ SelectAll(q) \/ RevokeAll(q)
         \/ \E s \in Sids : KcLogoutOne(q, s)
  PROVE  RotInv'
<1>1. CASE RevokeRejected(q)
  <2>1. req[q].sid \in Sids /\ End(q) /\ UNCHANGED kc /\ req[q].pc # "persist"
    BY <1>1 DEF RevokeRejected, IInv, Shape
  <2>2. TokensKept
    BY <1>1, <2>1, RevokedTokens DEF RevokeRejected
  <2> QED
    BY <2>1, <2>2, EndMoves, SameQuiet, QuietStep
<1>2. CASE EndRequest(q)
  <2>1. End(q) /\ UNCHANGED kc /\ req[q].pc # "persist"
    BY <1>2 DEF EndRequest
  <2>2. TokensKept
    BY <1>2 DEF EndRequest, TokensKept, IInv, TypeOK, Row
  <2> QED
    BY <2>1, <2>2, EndMoves, SameQuiet, QuietStep
<1>3. CASE BodyError(q)
  BY <1>3, EndMoves, SameTokens, SameQuiet, QuietStep DEF BodyError
<1>4. CASE RevokeLogout(q)
  <2>1. /\ req[q].sid \in Sids /\ UNCHANGED kc /\ req[q].pc = "revoke"
        /\ End(q) \/ Goto(q, "kc_logout")
    BY <1>4 DEF RevokeLogout, IInv, Shape
  <2>2. TokensKept
    BY <1>4, <2>1, RevokedTokens DEF RevokeLogout
  <2>3. Moves(q)
    BY <2>1, EndMoves, GotoMoves
  <2> QED
    BY <2>1, <2>2, <2>3, SameQuiet, QuietStep
<1>5. CASE KcLogout(q)
  <2>1. /\ req[q].sid \in Sids /\ UNCHANGED row /\ req[q].pc # "persist" /\ End(q)
        /\ kc' = LoggedOut(req[q].sid) \/ kc' = Unreached(req[q].sid)
    BY <1>5 DEF KcLogout, IInv, Shape
  <2> QED
    BY <2>1, LogoutQuiet, EndMoves, SameTokens, QuietStep
<1>6. CASE SelectAll(q)
  <2>1. UNCHANGED <<row, kc>> /\ req[q].pc = "select_all"
    BY <1>6 DEF SelectAll
  <2>2. CASE End(q)
    BY <2>1, <2>2, EndMoves, SameTokens, SameQuiet, QuietStep
  <2>3. CASE ~End(q)
    <3> DEFINE left == { s \in Sids : Unrevoked(s) /\ row[s].readable }
               c == [req[q] EXCEPT !.pc = "kc_all"]
               d == [c EXCEPT !.todo = left]
    <3>2. req' = [req EXCEPT ![q] = d]
      BY <1>6, <2>3 DEF SelectAll
    <3>3. req \in [Reqs -> Req]
      BY DEF IInv, TypeOK
    <3> HIDE DEF left
    <3>4. c.pc = "kc_all" /\ d.pc = c.pc
      BY <3>3 DEF Req
    <3> HIDE DEF d, c
    <3>1. req' = [req EXCEPT ![q] = req'[q]] /\ req'[q].pc = "kc_all"
      BY <3>2, <3>3, <3>4
    <3> QED
      BY <2>1, <3>1, SameTokens, SameQuiet, QuietStep DEF Moves, Holds
  <2> QED
    BY <2>2, <2>3
<1>7. CASE RevokeAll(q)
  <2>1. End(q) /\ UNCHANGED kc /\ req[q].pc # "persist"
    BY <1>7 DEF RevokeAll
  <2>2. TokensKept
    BY <1>7 DEF RevokeAll, TokensKept, IInv, TypeOK, Row
  <2> QED
    BY <2>1, <2>2, EndMoves, SameQuiet, QuietStep
<1>8. ASSUME NEW s \in Sids, KcLogoutOne(q, s) PROVE RotInv'
  <2>1. /\ UNCHANGED row /\ req[q].pc = "kc_all"
        /\ kc' = LoggedOut(s) \/ kc' = Unreached(s)
        /\ req' = [req EXCEPT ![q] = req'[q]] /\ req'[q].pc = "kc_all"
    BY <1>8 DEF KcLogoutOne, IInv, TypeOK, Req
  <2> QED
    BY <2>1, LogoutQuiet, SameTokens, QuietStep DEF Moves, Holds
<1> QED
  BY <1>1, <1>2, <1>3, <1>4, <1>5, <1>6, <1>7, <1>8

LEMMA EnvironmentRotates == ASSUME IInv, RotInv, Environment PROVE RotInv'
<1>1. CASE Tick
  BY <1>1, SameTokens, SameQuiet, QuietEnvironment DEF Tick
<1>2. CASE DeleteExpired
  <2>1. TokensKept
    BY <1>2 DEF DeleteExpired, TokensKept, NoRow
  <2> QED
    BY <1>2, <2>1, SameQuiet, QuietEnvironment DEF DeleteExpired
<1>3. CASE DropKey
  <2>1. TokensKept
    BY <1>3 DEF DropKey, TokensKept, IInv, TypeOK, Row
  <2> QED
    BY <1>3, <2>1, RestartRotates DEF DropKey
<1>4. CASE Crash
  BY <1>4, SameTokens, RestartRotates DEF Crash
<1>5. ASSUME NEW s \in Sids, KcExpire(s) PROVE RotInv'
  <2>1. Quiet
    BY <1>5 DEF KcExpire, Quiet, IInv, TypeOK, Family
  <2> QED
    BY <1>5, <2>1, SameTokens, QuietEnvironment DEF KcExpire
<1> QED
  BY <1>1, <1>2, <1>3, <1>4, <1>5 DEF Environment

LEMMA RotInitially == Init => RotInv
BY DEF Init, RotInv, Exclusive, Holds, InHand, RotationPersisted, IdleReq, NoRow

LEMMA NextRotates == IInv /\ RotInv /\ [Next]_vars => RotInv'
<1> SUFFICES ASSUME IInv, RotInv, [Next]_vars PROVE RotInv'
  OBVIOUS
<1>1. CASE UNCHANGED vars
  BY <1>1, SameTokens, SameQuiet, QuietEnvironment DEF vars
<1>2. CASE Arrive
  <2>1. PICK q \in Reqs, s \in Sids :
          LoginExchange(q, s) \/ Use(q, s) \/ Logout(q, s) \/ LogoutAll(q, s)
    BY <1>2 DEF Arrive
  <2>2. CASE LoginExchange(q, s)
    BY <2>2, LoginExchangeRotates
  <2>3. CASE Use(q, s)
    BY <2>3, LookupRotates DEF Use
  <2>4. CASE Logout(q, s)
    BY <2>4, LookupRotates DEF Logout
  <2>5. CASE LogoutAll(q, s)
    BY <2>5, LookupRotates DEF LogoutAll
  <2> QED
    BY <2>1, <2>2, <2>3, <2>4, <2>5
<1>3. CASE Environment
  BY <1>3, EnvironmentRotates
<1>4. ASSUME NEW q \in Reqs, Handle(q) PROVE RotInv'
  BY <1>4, CreateRotates, LockRotates, RefreshOkRotates, RefreshRejectedRotates,
     RefreshFailsRotates, PersistRotates, TouchRotates, OtherHandlersRotate DEF Handle
<1> QED
  BY <1>1, <1>2, <1>3, <1>4 DEF Next

\* While Keycloak honours a family the stored refresh token is the one it
\* accepts, however many requests race for the refresh and whichever of them
\* fails: only a lost response or a crash in between can separate the two.
THEOREM RotationPersistedAlways == Spec => []RotationPersisted
<1>1. IInv /\ RotInv /\ [Next]_vars => RotInv'
  BY NextRotates
<1>2. RotInv => RotationPersisted
  BY DEF RotInv
<1> QED
  BY <1>1, <1>2, RotInitially, Inductive, PTL DEF Spec

-----------------------------------------------------------------------------
(* LogoutAllKillsKeycloak.  With one cookie: a second one could be stored        *)
(* between the SELECT and the UPDATE of a logout-all, which the UPDATE revokes     *)
(* and Keycloak never hears of.                                             *)

OneCookie == \A s, t \in Sids : s = t

Silenced(s) == ~kc[s].alive \/ kc[s].end = "unreached"

\* What a request could decrypt at lookup still decrypts, and it refreshes with nothing else.
Decrypts(q) ==
  /\ req[q].pc \in {"exchange", "persist"} => req[q].copy.readable
  /\ /\ req[q].pc \notin {"idle", "store"}
     /\ row[req[q].sid].state = "stored"
     /\ req[q].copy.readable
     => row[req[q].sid].readable

\* Keycloak was told of every session that a logout-all has ticked off its list.
Told(q) == req[q].pc = "kc_all" =>
  \A s \in Sids \ req[q].todo : Unrevoked(s) /\ row[s].readable => Silenced(s)

LogoutInv == /\ LogoutAllKillsKeycloak
             /\ \A q \in Reqs : Decrypts(q) /\ Told(q)

\* No row is stored anew, comes back or becomes readable.
RowsCalm == \A s \in Sids : row'[s].state = "stored" =>
  /\ row[s].state = "stored"
  /\ row[s].revokedAt # None => row'[s].revokedAt # None
  /\ row'[s].readable = row[s].readable

FamiliesCalm == \A s \in Sids : Silenced(s) => Silenced(s)'

NoNewLogoutAll == \A s \in Sids : row'[s].reason = "logout_all" => row[s].reason = "logout_all"

LEMMA LogoutAllRevokes ==
  ASSUME IInv, NEW s \in Sids, row[s].reason = "logout_all"
  PROVE  row[s].state = "stored" /\ row[s].revokedAt # None
BY SessionAssumption DEF IInv, TypeOK, RowOK, Reasons

LEMMA SameReasons ==
  ASSUME IInv', LogoutInv, RowsCalm, FamiliesCalm, NoNewLogoutAll
  PROVE  LogoutAllKillsKeycloak'
<1> SUFFICES ASSUME NEW s \in Sids, row'[s].reason = "logout_all", row'[s].readable
             PROVE  Silenced(s)'
  BY DEF LogoutAllKillsKeycloak, Silenced
<1>1. row'[s].state = "stored"
  BY SessionAssumption DEF IInv, TypeOK, RowOK, Reasons
<1>2. row[s].reason = "logout_all" /\ row[s].readable
  BY <1>1 DEF NoNewLogoutAll, RowsCalm
<1>3. Silenced(s)
  BY <1>2 DEF LogoutInv, LogoutAllKillsKeycloak, Silenced
<1> QED
  BY <1>3 DEF FamiliesCalm

\* A step in which each request stays or is looked at by itself.
LEMMA CalmStep ==
  ASSUME IInv, LogoutInv, RowsCalm, FamiliesCalm, LogoutAllKillsKeycloak',
         \A p \in Reqs : req'[p] = req[p] \/ (Decrypts(p)' /\ Told(p)')
  PROVE  LogoutInv'
<1> SUFFICES ASSUME NEW p \in Reqs, req'[p] = req[p]
             PROVE  Decrypts(p)' /\ Told(p)'
  BY DEF LogoutInv
<1>1. Decrypts(p) /\ Told(p) /\ (req[p].pc \notin {"idle", "store"} => req[p].sid \in Sids)
  BY DEF LogoutInv, IInv, Shape
<1>2. Decrypts(p)'
  BY <1>1 DEF Decrypts, RowsCalm
<1>3. Told(p)'
  BY <1>1 DEF Told, Unrevoked, RowsCalm, FamiliesCalm
<1> QED
  BY <1>2, <1>3

\* A request that goes on with what it remembers.
LEMMA DecryptsOn ==
  ASSUME IInv, LogoutInv, RowsCalm, NEW q \in Reqs,
         req[q].pc \notin {"idle", "store"},
         req'[q].sid = req[q].sid, req'[q].copy.readable => req[q].copy.readable,
         req'[q].pc \in {"exchange", "persist"} => req'[q].copy.readable
  PROVE  Decrypts(q)'
<1>1. Decrypts(q) /\ req[q].sid \in Sids
  BY DEF LogoutInv, IInv, Shape
<1> QED
  BY <1>1 DEF Decrypts, RowsCalm

LEMMA EndLogout ==
  ASSUME IInv, NEW q \in Reqs, End(q)
  PROVE  /\ \A p \in Reqs \ {q} : req'[p] = req[p]
         /\ Decrypts(q)' /\ Told(q)'
BY DEF End, IdleReq, Decrypts, Told, IInv, TypeOK

LEMMA GotoLogout ==
  ASSUME IInv, LogoutInv, RowsCalm, NEW q \in Reqs, req[q].pc \notin {"idle", "store"},
         NEW pc \in Pcs \ {"exchange", "persist", "kc_all"}, Goto(q, pc)
  PROVE  /\ \A p \in Reqs \ {q} : req'[p] = req[p]
         /\ Decrypts(q)' /\ Told(q)'
<1>1. /\ \A p \in Reqs \ {q} : req'[p] = req[p]
      /\ req'[q].pc = pc /\ req'[q].sid = req[q].sid /\ req'[q].copy = req[q].copy
  BY DEF Goto, IInv, TypeOK, Req
<1>2. Told(q)'
  BY <1>1 DEF Told
<1> QED
  BY <1>1, <1>2, DecryptsOn

LEMMA SameRowsCalm == UNCHANGED row => RowsCalm /\ NoNewLogoutAll
BY DEF RowsCalm, NoNewLogoutAll

LEMMA SameFamiliesCalm == UNCHANGED kc => FamiliesCalm
BY DEF FamiliesCalm, Silenced

\* A session that is revoked for another reason, if it is revoked.
LEMMA RevokedCalm ==
  ASSUME IInv, NEW s \in Sids, NEW reason \in Reasons \ {"logout_all"},
         row' = Revoked(s, reason)
  PROVE  RowsCalm /\ NoNewLogoutAll
<1>1. CASE row[s].state # "stored"
  BY <1>1, SameRowsCalm DEF Revoked
<1>2. CASE row[s].state = "stored"
  <2> DEFINE r == [row[s] EXCEPT !.revokedAt = now, !.reason = reason]
  <2>1. row' = [row EXCEPT ![s] = r] /\ row \in [Sids -> Row] /\ now # None
    BY <1>2, SessionAssumption DEF Revoked, IInv, TypeOK
  <2>2. /\ r.state = row[s].state /\ r.readable = row[s].readable
        /\ r.revokedAt = now /\ r.reason = reason
    BY <2>1 DEF Row
  <2> HIDE DEF r
  <2> QED
    BY <2>1, <2>2 DEF RowsCalm, NoNewLogoutAll
<1> QED
  BY <1>1, <1>2

\* A logout at Keycloak ends the family or is recorded as unanswered.
LEMMA LogoutCalm ==
  ASSUME IInv, NEW s \in Sids, kc' = LoggedOut(s) \/ kc' = Unreached(s)
  PROVE  FamiliesCalm /\ Silenced(s)'
<1> DEFINE f == [kc[s] EXCEPT !.alive = FALSE, !.end = "logout"]
           g == [kc[s] EXCEPT !.end = "unreached"]
<1>1. kc[s] \in Family /\ kc \in [Sids -> Family]
  BY DEF IInv, TypeOK
<1>2. ~f.alive /\ g.end = "unreached"
  BY <1>1 DEF Family
<1>3. \/ kc' = kc /\ ~kc[s].alive
      \/ kc' = [kc EXCEPT ![s] = f]
      \/ kc' = [kc EXCEPT ![s] = g]
  BY DEF LoggedOut, Unreached
<1> HIDE DEF f, g
<1> QED
  BY <1>1, <1>2, <1>3 DEF FamiliesCalm, Silenced

LEMMA LookupLogout ==
  ASSUME IInv, IInv', LogoutInv, NEW q \in Reqs, NEW s \in Sids,
         NEW pc \in {"lock", "touch", "revoke", "select_all"}, Lookup(q, s, pc)
  PROVE  LogoutInv'
<1>1. /\ UNCHANGED <<row, kc>> /\ \A p \in Reqs \ {q} : req'[p] = req[p]
      /\ req'[q].pc = pc /\ req'[q].sid = s /\ req'[q].copy = row[s]
  BY DEF Lookup, IdleReq, IInv, TypeOK
<1>2. Decrypts(q)' /\ Told(q)'
  BY <1>1 DEF Decrypts, Told
<1> QED
  BY <1>1, <1>2, SameRowsCalm, SameFamiliesCalm, SameReasons, CalmStep

\* While a session is yet to be stored, no logout-all runs.
LEMMA NobodyLogsOut ==
  ASSUME OneCookie, IInv, NEW s \in Sids, row[s].state = "absent"
  PROVE  \A p \in Reqs : req[p].pc \in {"idle", "store"}
BY DEF OneCookie, IInv, Shape

LEMMA LoginExchangeLogout ==
  ASSUME OneCookie, IInv, LogoutInv, NEW q \in Reqs, NEW s \in Sids, LoginExchange(q, s)
  PROVE  LogoutInv'
<1>1. /\ UNCHANGED row /\ row[s].state = "absent" /\ req'[q].pc = "store"
      /\ \A p \in Reqs \ {q} : req'[p] = req[p]
      /\ \A t \in Sids \ {s} : kc'[t] = kc[t]
  BY DEF LoginExchange, IdleReq, IInv, TypeOK
<1>2. \A p \in Reqs : req'[p].pc \in {"idle", "store"}
  BY <1>1, NobodyLogsOut
<1>3. \A p \in Reqs : Decrypts(p)' /\ Told(p)'
  BY <1>2 DEF Decrypts, Told
<1>4. row[s].reason # "logout_all"
  BY <1>1, LogoutAllRevokes
<1>5. LogoutAllKillsKeycloak'
  BY <1>1, <1>4 DEF LogoutInv, LogoutAllKillsKeycloak
<1> QED
  BY <1>3, <1>5 DEF LogoutInv

LEMMA CreateLogout ==
  ASSUME OneCookie, IInv, LogoutInv, NEW q \in Reqs, Create(q)
  PROVE  LogoutInv'
<1> DEFINE s == req[q].sid
<1>1. /\ UNCHANGED kc /\ s \in Sids /\ row[s].state = "absent" /\ End(q)
  BY DEF Create, IInv, Shape
<1>2. row'[s].reason = None /\ \A t \in Sids \ {s} : row'[t] = row[t]
  BY <1>1 DEF Create, IInv, TypeOK, NoRow
<1>3. \A p \in Reqs : req'[p].pc \in {"idle", "store"}
  BY <1>1, NobodyLogsOut DEF End, IdleReq, IInv, TypeOK
<1>4. \A p \in Reqs : Decrypts(p)' /\ Told(p)'
  BY <1>3 DEF Decrypts, Told
<1>5. None # "logout_all"
  BY SessionAssumption DEF Reasons
<1> HIDE DEF s
<1>6. LogoutAllKillsKeycloak'
  BY <1>1, <1>2, <1>5 DEF LogoutInv, LogoutAllKillsKeycloak
<1> QED
  BY <1>4, <1>6 DEF LogoutInv

LEMMA LockLogout ==
  ASSUME IInv, IInv', LogoutInv, NEW q \in Reqs, Lock(q)
  PROVE  LogoutInv'
<1>1. UNCHANGED <<row, kc>> /\ req[q].pc = "lock"
  BY DEF Lock
<1>2. RowsCalm /\ FamiliesCalm /\ LogoutAllKillsKeycloak'
  BY <1>1, SameRowsCalm, SameFamiliesCalm, SameReasons
<1>3. CASE End(q)
  BY <1>2, <1>3, EndLogout, CalmStep
<1>4. CASE ~End(q)
  <2> DEFINE pc == IF ~NeedsRefresh(req[q].copy) THEN "touch"
                   ELSE IF req[q].copy.readable THEN "exchange" ELSE "unreadable"
  <2>1. req' = [req EXCEPT ![q] = [req[q] EXCEPT !.copy = req[q].copy, !.pc = pc]]
    BY <1>4 DEF Lock, Reread
  <2>2. pc \in {"touch", "exchange", "unreadable"} /\ (pc = "exchange" => req[q].copy.readable)
    OBVIOUS
  <2> HIDE DEF pc
  <2>3. /\ req'[q].pc = pc /\ req'[q].sid = req[q].sid /\ req'[q].copy = req[q].copy
        /\ \A p \in Reqs \ {q} : req'[p] = req[p]
    BY <2>1 DEF IInv, TypeOK, Req
  <2>4. Decrypts(q)' /\ Told(q)'
    BY <1>1, <1>2, <2>2, <2>3, DecryptsOn DEF Told
  <2> QED
    BY <1>2, <2>3, <2>4, CalmStep
<1> QED
  BY <1>3, <1>4

\* A family that is rotated was alive, and its fate stays what it was.
LEMMA RefreshLogout ==
  ASSUME IInv, IInv', LogoutInv, NEW q \in Reqs,
         RefreshOk(q) \/ RefreshRejected(q) \/ RefreshFails(q)
  PROVE  LogoutInv'
<1> DEFINE s == req[q].sid
<1>1. UNCHANGED row /\ req[q].pc = "exchange" /\ s \in Sids /\ req[q].copy \in Row
  BY DEF RefreshOk, RefreshRejected, RefreshFails, IInv, TypeOK, Shape, Req
<1>2. /\ \A t \in Sids \ {s} : kc'[t] = kc[t]
      /\ kc'[s].alive => (kc[s].alive /\ kc'[s].end = kc[s].end)
  <2> DEFINE f == [kc[s] EXCEPT !.cur = kc[s].cur + 1]
             g == [kc[s] EXCEPT !.cur = kc[s].cur + 1, !.lost = TRUE]
             h == [kc[s] EXCEPT !.alive = FALSE, !.end = "reuse"]
  <2>1. kc \in [Sids -> Family] /\ kc[s] \in Family
    BY <1>1 DEF IInv, TypeOK
  <2>2. /\ f.alive = kc[s].alive /\ f.end = kc[s].end
        /\ g.alive = kc[s].alive /\ g.end = kc[s].end
        /\ ~h.alive
    BY <2>1 DEF Family
  <2>3. \/ UNCHANGED kc
        \/ kc' = [kc EXCEPT ![s] = f]
        \/ kc' = [kc EXCEPT ![s] = g]
        \/ kc' = [kc EXCEPT ![s] = h]
    BY DEF RefreshOk, RefreshRejected, RefreshFails
  <2> HIDE DEF f, g, h
  <2> QED
    BY <1>1, <2>1, <2>2, <2>3
<1>3. FamiliesCalm
  BY <1>1, <1>2 DEF FamiliesCalm, Silenced
<1>4. RowsCalm /\ LogoutAllKillsKeycloak'
  BY <1>1, <1>3, SameRowsCalm, SameReasons
<1>5. CASE RefreshFails(q)
  BY <1>3, <1>4, <1>5, EndLogout, CalmStep DEF RefreshFails
<1>6. CASE RefreshRejected(q)
  BY <1>1, <1>3, <1>4, <1>6, GotoLogout, CalmStep DEF RefreshRejected, Pcs
<1>7. CASE RefreshOk(q)
  <2> DEFINE d == [req[q].copy EXCEPT !.rt = kc[s].cur + 1, !.readable = TRUE,
                                      !.accessExp = now + AccessTTL]
  <2>1. d.readable
    BY <1>1 DEF Row
  <2>2. req' = [req EXCEPT ![q] = [req[q] EXCEPT !.pc = "persist", !.copy = d]]
    BY <1>7 DEF RefreshOk
  <2> HIDE DEF d
  <2>3. /\ req'[q].pc = "persist" /\ req'[q].sid = s /\ req'[q].copy = d
        /\ \A p \in Reqs \ {q} : req'[p] = req[p]
    BY <2>2 DEF IInv, TypeOK, Req
  <2>4. req[q].copy.readable
    BY <1>1 DEF LogoutInv, Decrypts
  <2>5. Decrypts(q)' /\ Told(q)'
    BY <1>1, <1>4, <2>1, <2>3, <2>4, DecryptsOn DEF Told
  <2> QED
    BY <1>3, <1>4, <2>3, <2>5, CalmStep
<1> QED
  BY <1>5, <1>6, <1>7

\* What is stored was readable before: nobody refreshes with a token he cannot decrypt.
LEMMA PersistLogout ==
  ASSUME IInv, IInv', LogoutInv, NEW q \in Reqs, Persist(q)
  PROVE  LogoutInv'
<1> DEFINE s == req[q].sid
           r == [row[s] EXCEPT !.rt = req[q].copy.rt, !.readable = TRUE,
                               !.accessExp = req[q].copy.accessExp]
<1>1. /\ UNCHANGED kc /\ req[q].pc = "persist" /\ s \in Sids
      /\ row \in [Sids -> Row] /\ row' = [row EXCEPT ![s] = r] /\ Goto(q, "touch")
  BY DEF Persist, IInv, TypeOK, Shape
<1>2. /\ r.state = row[s].state /\ r.revokedAt = row[s].revokedAt /\ r.reason = row[s].reason
      /\ r.readable = TRUE
  BY <1>1 DEF Row
<1>3. row[s].state = "stored" => row[s].readable = TRUE
  BY <1>1 DEF LogoutInv, Decrypts, Row
<1> HIDE DEF r
<1>4. RowsCalm /\ NoNewLogoutAll
  BY <1>1, <1>2, <1>3 DEF RowsCalm, NoNewLogoutAll
<1>5. FamiliesCalm /\ LogoutAllKillsKeycloak'
  BY <1>1, <1>4, SameFamiliesCalm, SameReasons
<1>6. "touch" \in Pcs \ {"exchange", "persist", "kc_all"}
  BY DEF Pcs
<1> QED
  BY <1>1, <1>4, <1>5, <1>6, GotoLogout, CalmStep

LEMMA TouchLogout ==
  ASSUME IInv, IInv', LogoutInv, NEW q \in Reqs, Touch(q)
  PROVE  LogoutInv'
<1>1. /\ UNCHANGED <<row, kc>> /\ req[q].pc = "touch"
      /\ \A p \in Reqs \ {q} : req'[p] = req[p]
      /\ req'[q].sid = req[q].sid /\ req'[q].copy = req[q].copy /\ req'[q].pc = "body"
  BY DEF Touch, IInv, TypeOK, Req
<1>2. RowsCalm /\ FamiliesCalm /\ LogoutAllKillsKeycloak'
  BY <1>1, SameRowsCalm, SameFamiliesCalm, SameReasons
<1>3. Decrypts(q)' /\ Told(q)'
  BY <1>1, <1>2, DecryptsOn DEF Told
<1> QED
  BY <1>1, <1>2, <1>3, CalmStep

\* Every unrevoked session that the key decrypts is on the list.
LEMMA SelectAllLogout ==
  ASSUME IInv, IInv', LogoutInv, NEW q \in Reqs, SelectAll(q)
  PROVE  LogoutInv'
<1>1. UNCHANGED <<row, kc>> /\ req[q].pc = "select_all"
  BY DEF SelectAll
<1>2. RowsCalm /\ FamiliesCalm /\ LogoutAllKillsKeycloak'
  BY <1>1, SameRowsCalm, SameFamiliesCalm, SameReasons
<1>3. CASE End(q)
  BY <1>2, <1>3, EndLogout, CalmStep
<1>4. CASE ~End(q)
  <2> DEFINE readable == {s \in {t \in Sids : Unrevoked(t)} : row[s].readable}
             r == [req[q] EXCEPT !.pc = "kc_all", !.todo = readable]
  <2>1. req' = [req EXCEPT ![q] = r] /\ req \in [Reqs -> Req] /\ req[q] \in Req
    BY <1>4 DEF SelectAll, IInv, TypeOK
  <2> HIDE DEF readable
  <2>2. r.pc = "kc_all" /\ r.sid = req[q].sid /\ r.copy = req[q].copy /\ r.todo = readable
    BY <2>1 DEF Req
  <2> HIDE DEF r
  <2>3. /\ req'[q].pc = "kc_all" /\ req'[q].sid = req[q].sid /\ req'[q].copy = req[q].copy
        /\ \A s \in Sids : Unrevoked(s) /\ row[s].readable => s \in req'[q].todo
        /\ \A p \in Reqs \ {q} : req'[p] = req[p]
    BY <2>1, <2>2 DEF readable
  <2>4. Decrypts(q)'
    BY <1>1, <1>2, <2>3, DecryptsOn
  <2>5. Told(q)'
    BY <1>1, <2>3 DEF Told, Unrevoked
  <2> QED
    BY <1>2, <2>3, <2>4, <2>5, CalmStep
<1> QED
  BY <1>3, <1>4

LEMMA KcLogoutOneLogout ==
  ASSUME IInv, IInv', LogoutInv, NEW q \in Reqs, NEW s \in Sids, KcLogoutOne(q, s)
  PROVE  LogoutInv'
<1>1. /\ UNCHANGED row /\ req[q].pc = "kc_all" /\ req'[q].pc = "kc_all"
      /\ req'[q].sid = req[q].sid /\ req'[q].copy = req[q].copy
      /\ req'[q].todo = req[q].todo \ {s}
      /\ \A p \in Reqs \ {q} : req'[p] = req[p]
  BY DEF KcLogoutOne, IInv, TypeOK, Req
<1>2. FamiliesCalm /\ Silenced(s)'
  BY LogoutCalm DEF KcLogoutOne
<1>3. RowsCalm /\ LogoutAllKillsKeycloak'
  BY <1>1, <1>2, SameRowsCalm, SameReasons
<1>4. Decrypts(q)'
  BY <1>1, <1>3, DecryptsOn
<1>5. Told(q)
  BY DEF LogoutInv
<1>6. Told(q)'
  BY <1>1, <1>2, <1>5 DEF Told, Unrevoked, FamiliesCalm
<1> QED
  BY <1>1, <1>2, <1>3, <1>4, <1>6, CalmStep

\* The list is empty: what is revoked here, Keycloak was told of.
LEMMA RevokeAllLogout ==
  ASSUME IInv, IInv', LogoutInv, NEW q \in Reqs, RevokeAll(q)
  PROVE  LogoutInv'
<1> DEFINE n(s) == [row[s] EXCEPT !.revokedAt = now, !.reason = "logout_all"]
<1>1. /\ row' = [s \in Sids |-> IF Unrevoked(s) THEN n(s) ELSE row[s]]
      /\ UNCHANGED kc /\ End(q) /\ now # None
  BY SessionAssumption DEF RevokeAll, IInv, TypeOK
<1>2. ASSUME NEW s \in Sids, Unrevoked(s)
      PROVE  /\ row'[s].state = row[s].state /\ row'[s].readable = row[s].readable
             /\ row'[s].revokedAt = now
  <2>1. row[s] \in Row
    BY DEF IInv, TypeOK
  <2>2. /\ n(s).state = row[s].state /\ n(s).readable = row[s].readable
        /\ n(s).revokedAt = now
    BY <2>1 DEF Row
  <2> QED
    BY <1>1, <1>2, <2>2
<1> HIDE DEF n
<1>3. \A s \in Sids : ~Unrevoked(s) => row'[s] = row[s]
  BY <1>1
<1>4. RowsCalm /\ FamiliesCalm
  BY <1>1, <1>2, <1>3, SameFamiliesCalm DEF RowsCalm
<1>5. \A s \in Sids : Unrevoked(s) /\ row[s].readable => Silenced(s)
  BY DEF LogoutInv, Told, RevokeAll
<1>6. LogoutAllKillsKeycloak'
  <2> SUFFICES ASSUME NEW s \in Sids, row'[s].reason = "logout_all", row'[s].readable
               PROVE  Silenced(s)
    BY <1>1 DEF LogoutAllKillsKeycloak, Silenced
  <2>1. CASE Unrevoked(s)
    BY <1>2, <1>5, <2>1
  <2>2. CASE ~Unrevoked(s)
    BY <1>3, <2>2 DEF LogoutInv, LogoutAllKillsKeycloak, Silenced
  <2> QED
    BY <2>1, <2>2
<1> QED
  BY <1>1, <1>4, <1>6, EndLogout, CalmStep

\* Ends of requests and of single sessions.
LEMMA OtherHandlersLogout ==
  ASSUME IInv, IInv', LogoutInv, NEW q \in Reqs,
         \/ RevokeRejected(q) \/ EndRequest(q) \/ BodyError(q) \/ RevokeLogout(q) \/ KcLogout(q)
  PROVE  LogoutInv'
<1>1. CASE RevokeRejected(q)
  <2>1. PICK reason \in {"refresh_reuse", "decrypt_failed"} : row' = Revoked(req[q].sid, reason)
    BY <1>1 DEF RevokeRejected
  <2>2. req[q].sid \in Sids /\ End(q) /\ UNCHANGED kc
    BY <1>1 DEF RevokeRejected, IInv, Shape
  <2>3. RowsCalm /\ NoNewLogoutAll
    BY <2>1, <2>2, RevokedCalm DEF Reasons
  <2> QED
    BY <2>2, <2>3, SameFamiliesCalm, SameReasons, EndLogout, CalmStep
<1>2. CASE EndRequest(q)
  <2>1. End(q) /\ UNCHANGED kc
    BY <1>2 DEF EndRequest
  <2>2. \A s \in Sids : /\ row'[s].state = row[s].state /\ row'[s].readable = row[s].readable
                        /\ row'[s].revokedAt = row[s].revokedAt
                        /\ row'[s].reason = row[s].reason
    BY <1>2 DEF EndRequest, IInv, TypeOK, Row
  <2>3. RowsCalm /\ NoNewLogoutAll
    BY <2>2 DEF RowsCalm, NoNewLogoutAll
  <2> QED
    BY <2>1, <2>3, SameFamiliesCalm, SameReasons, EndLogout, CalmStep
<1>3. CASE BodyError(q)
  BY <1>3, SameRowsCalm, SameFamiliesCalm, SameReasons, EndLogout, CalmStep DEF BodyError
<1>4. CASE RevokeLogout(q)
  <2>1. /\ req[q].sid \in Sids /\ UNCHANGED kc /\ req[q].pc = "revoke"
        /\ row' = Revoked(req[q].sid, "logout")
        /\ End(q) \/ Goto(q, "kc_logout")
    BY <1>4 DEF RevokeLogout, IInv, Shape
  <2>2. RowsCalm /\ NoNewLogoutAll
    BY <2>1, RevokedCalm DEF Reasons
  <2>3. /\ \A p \in Reqs \ {q} : req'[p] = req[p]
        /\ Decrypts(q)' /\ Told(q)'
    BY <2>1, <2>2, EndLogout, GotoLogout DEF Pcs
  <2> QED
    BY <2>1, <2>2, <2>3, SameFamiliesCalm, SameReasons, CalmStep
<1>5. CASE KcLogout(q)
  <2>1. /\ req[q].sid \in Sids /\ UNCHANGED row /\ End(q)
        /\ kc' = LoggedOut(req[q].sid) \/ kc' = Unreached(req[q].sid)
    BY <1>5 DEF KcLogout, IInv, Shape
  <2> QED
    BY <2>1, LogoutCalm, SameRowsCalm, SameReasons, EndLogout, CalmStep
<1> QED
  BY <1>1, <1>2, <1>3, <1>4, <1>5

LEMMA EnvironmentLogout ==
  ASSUME IInv, IInv', LogoutInv, Environment
  PROVE  LogoutInv'
<1>1. CASE Tick
  BY <1>1, SameRowsCalm, SameFamiliesCalm, SameReasons, CalmStep DEF Tick
<1>2. CASE DeleteExpired
  <2>1. RowsCalm /\ NoNewLogoutAll
    BY <1>2, SessionAssumption DEF DeleteExpired, RowsCalm, NoNewLogoutAll, NoRow, Reasons
  <2> QED
    BY <1>2, <2>1, SameFamiliesCalm, SameReasons, CalmStep DEF DeleteExpired
<1>3. ASSUME Restart
      PROVE  /\ FamiliesCalm
             /\ \A p \in Reqs : Decrypts(p)' /\ Told(p)'
  <2>1. \A s \in Sids : kc'[s].alive = kc[s].alive /\ kc'[s].end = kc[s].end
    BY <1>3 DEF Restart, IInv, TypeOK, Family
  <2>2. \A p \in Reqs : req'[p].pc = "idle"
    BY <1>3 DEF Restart, IdleReq
  <2> QED
    BY <2>1, <2>2 DEF FamiliesCalm, Silenced, Decrypts, Told
<1>4. CASE DropKey
  <2>1. \A s \in Sids : row'[s].state = "stored" => ~row'[s].readable
    BY <1>4 DEF DropKey, IInv, TypeOK, Row
  <2>2. \A s \in Sids : row'[s].reason = "logout_all" => row'[s].state = "stored"
    BY SessionAssumption DEF IInv, TypeOK, RowOK, Reasons
  <2>3. LogoutAllKillsKeycloak'
    BY <2>1, <2>2 DEF LogoutAllKillsKeycloak
  <2> QED
    BY <1>3, <1>4, <2>3 DEF DropKey, LogoutInv
<1>5. CASE Crash
  BY <1>3, <1>5, SameRowsCalm, SameReasons, CalmStep DEF Crash
<1>6. ASSUME NEW s \in Sids, KcExpire(s) PROVE LogoutInv'
  <2>1. FamiliesCalm
    BY <1>6 DEF KcExpire, FamiliesCalm, Silenced, IInv, TypeOK, Family
  <2> QED
    BY <1>6, <2>1, SameRowsCalm, SameReasons, CalmStep DEF KcExpire
<1> QED
  BY <1>1, <1>2, <1>4, <1>5, <1>6 DEF Environment

LEMMA NextLogout ==
  ASSUME OneCookie, IInv, LogoutInv, [Next]_vars
  PROVE  LogoutInv'
<1>1. IInv'
  BY NextKeeps
<1>2. CASE UNCHANGED vars
  BY <1>1, <1>2, SameRowsCalm, SameFamiliesCalm, SameReasons, CalmStep DEF vars
<1>3. CASE Arrive
  <2>1. PICK q \in Reqs, s \in Sids :
          LoginExchange(q, s) \/ Use(q, s) \/ Logout(q, s) \/ LogoutAll(q, s)
    BY <1>3 DEF Arrive
  <2>2. CASE LoginExchange(q, s)
    BY <2>2, LoginExchangeLogout
  <2>3. CASE Use(q, s)
    BY <1>1, <2>3, LookupLogout DEF Use
  <2>4. CASE Logout(q, s)
    BY <1>1, <2>4, LookupLogout DEF Logout
  <2>5. CASE LogoutAll(q, s)
    BY <1>1, <2>5, LookupLogout DEF LogoutAll
  <2> QED
    BY <2>1, <2>2, <2>3, <2>4, <2>5
<1>4. CASE Environment
  BY <1>1, <1>4, EnvironmentLogout
<1>5. ASSUME NEW q \in Reqs, Handle(q) PROVE LogoutInv'
  BY <1>1, <1>5, CreateLogout, LockLogout, RefreshLogout, PersistLogout, TouchLogout,
     SelectAllLogout, KcLogoutOneLogout, RevokeAllLogout, OtherHandlersLogout DEF Handle
<1> QED
  BY <1>2, <1>3, <1>4, <1>5 DEF Next

\* A logout-all leaves no Keycloak session behind the row it revokes, whatever other
\* requests of the session refresh, expire or revoke in between (revoke_all_for_user):
\* for one cookie, any number of requests, any lifetimes and every fault.
THEOREM LogoutAllKillsKeycloakAlways ==
  ASSUME OneCookie
  PROVE  Spec => []LogoutAllKillsKeycloak
<1>1. Init => LogoutInv
  BY SessionAssumption
     DEF Init, LogoutInv, LogoutAllKillsKeycloak, Decrypts, Told, IdleReq, NoRow, Reasons
<1>2. IInv /\ LogoutInv /\ [Next]_vars => LogoutInv'
  BY NextLogout
<1>3. LogoutInv => LogoutAllKillsKeycloak
  BY DEF LogoutInv
<1> QED
  BY <1>1, <1>2, <1>3, Inductive, PTL DEF Spec

=============================================================================
