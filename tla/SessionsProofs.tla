--------------------------- MODULE SessionsProofs ---------------------------
(* Proofs about Sessions, for every User, SessionId and Request.           *)
EXTENDS Sessions, TLAPS

-----------------------------------------------------------------------------
(* The inductive invariant.  TypeOK alone is not inductive: a reply makes  *)
(* its token delivered, so the token has to be a row already, and a        *)
(* revocation revokes what it scanned, so that has to be rows too.         *)

RequestInv ==
  \A q \in Request :
    /\ pc[q] \notin {"idle", "login"} => tok[q] \in rows
    /\ pc[q] = "login" => who[q] \in User
    /\ scan[q] \subseteq rows

Lineage == LineageIsClosed /\ AtMostOneLive /\ SingleUse

IInv == TypeOK /\ RequestInv /\ LockDiscipline /\ Lineage

\* The initial state satisfies the invariant.
LEMMA InitIInv == Init => IInv
<1> SUFFICES ASSUME Init PROVE IInv
  OBVIOUS
<1> USE NoneAssumption DEF Init
<1>1. TypeOK
  BY DEF TypeOK, Status, PC
<1>2. RequestInv
  BY DEF RequestInv
<1>3. LockDiscipline
  BY DEF LockDiscipline
<1>4. Lineage
  BY DEF Lineage, LineageIsClosed, AtMostOneLive, SingleUse, Live
<1>5. QED
  BY <1>1, <1>2, <1>3, <1>4 DEF IInv

\* Revoking more rows, or none, preserves what is known of lineages.
LEMMA RevocationKeepsLineage ==
  ASSUME Lineage, UNCHANGED tableVars, revoked \subseteq revoked'
  PROVE  Lineage'
<1>1. LineageIsClosed'
  BY DEF Lineage, LineageIsClosed, tableVars
<1>2. AtMostOneLive'
  BY DEF Lineage, AtMostOneLive, Live, tableVars
<1>3. SingleUse'
  BY DEF Lineage, SingleUse, tableVars
<1>4. QED
  BY <1>1, <1>2, <1>3 DEF Lineage

\* A first session starts a lineage of its own.
LEMMA NewFamilyKeepsLineage ==
  ASSUME TypeOK, Lineage, NEW s \in SessionId, NEW u \in User,
         Insert(s, u, s, None), UNCHANGED revoked
  PROVE  Lineage'
<1> USE DEF Insert, TypeOK
<1>1. LineageIsClosed'
  BY DEF Lineage, LineageIsClosed
<1>2. AtMostOneLive'
  BY DEF Lineage, LineageIsClosed, AtMostOneLive, Live
<1>3. SingleUse'
  BY DEF Lineage, SingleUse
<1>4. QED
  BY <1>1, <1>2, <1>3 DEF Lineage

\* A rotation replaces the one usable session of its family.
LEMMA RotationKeepsLineage ==
  ASSUME TypeOK, Lineage, NEW s \in SessionId, NEW t \in Live,
         Insert(s, owner[t], family[t], t), revoked' = revoked \cup {t}
  PROVE  Lineage'
<1> USE DEF Insert, TypeOK
<1>1. LineageIsClosed'
  BY DEF Lineage, LineageIsClosed, Live
<1>2. AtMostOneLive'
  BY DEF Lineage, LineageIsClosed, AtMostOneLive, Live
<1>3. SingleUse'
  BY DEF Lineage, LineageIsClosed, SingleUse, Live
<1>4. QED
  BY <1>1, <1>2, <1>3 DEF Lineage

-----------------------------------------------------------------------------
(* One lemma per action that writes sessions, one for those that do not.   *)

LEMMA RegisterKeepsIInv ==
  ASSUME IInv, NEW q \in Request, NEW u \in User, NEW s \in SessionId,
         Register(q, u, s)
  PROVE  IInv'
<1> USE NoneAssumption DEF IInv, Register, Reply
<1>1. TypeOK'
  BY DEF TypeOK, Insert, Status, PC, expiryVars
<1>2. RequestInv'
  BY DEF RequestInv, TypeOK, Insert
<1>3. LockDiscipline'
  BY DEF LockDiscipline, TypeOK, Insert, Live
<1>4. Lineage'
  BY NewFamilyKeepsLineage
<1>5. QED
  BY <1>1, <1>2, <1>3, <1>4 DEF IInv

LEMMA LoginCreateKeepsIInv ==
  ASSUME IInv, NEW q \in Request, NEW s \in SessionId, LoginCreate(q, s)
  PROVE  IInv'
<1> USE NoneAssumption DEF IInv, LoginCreate, Reply
<1>1. who[q] \in User
  BY DEF RequestInv
<1>2. TypeOK'
  BY <1>1 DEF TypeOK, Insert, PC, expiryVars
<1>3. RequestInv'
  BY DEF RequestInv, TypeOK, Insert
<1>4. LockDiscipline'
  BY DEF LockDiscipline, TypeOK, Insert, Live
<1>5. Lineage'
  BY <1>1, NewFamilyKeepsLineage
<1>6. QED
  BY <1>2, <1>3, <1>4, <1>5 DEF IInv

\* Under the lock the compare-and-swap succeeds: the session is still live.
LEMMA RefreshCommitKeepsIInv ==
  ASSUME IInv, NEW q \in Request, NEW s \in SessionId, RefreshCommit(q, s)
  PROVE  IInv'
<1> DEFINE t == tok[q]
<1> USE NoneAssumption DEF IInv
<1>1. t \in Live /\ lock[t] = q
  BY DEF RefreshCommit, LockDiscipline
<1>2. /\ Insert(s, owner[t], family[t], t)
      /\ revoked' = revoked \cup {t}
      /\ lock' = [lock EXCEPT ![t] = None]
      /\ Reply(q, s)
      /\ UNCHANGED <<status, expiryVars, delivered>>
  BY <1>1 DEF RefreshCommit, Live
<1> HIDE DEF t
<1> USE DEF Reply
<1>3. TypeOK'
  BY <1>1, <1>2 DEF TypeOK, Insert, PC, expiryVars, Live
<1>4. RequestInv'
  BY <1>1, <1>2 DEF RequestInv, TypeOK, Insert
<1>5. LockDiscipline'
  <2>1. ASSUME NEW x \in SessionId, NEW p \in Request, lock'[x] = p
        PROVE  /\ x \in Live'
               /\ \/ pc'[p] = "rotate" /\ tok'[p] = x
                  \/ pc'[p] \in {"revoke_family", "revoke_all"} /\ x \in scan'[p]
    <3>1. x # t /\ lock[x] = p /\ p # q
      BY <1>1, <1>2, <2>1 DEF LockDiscipline, TypeOK, RefreshCommit, t
    <3>2. QED
      BY <1>1, <1>2, <3>1 DEF LockDiscipline, TypeOK, Insert, Live
  <2>2. ASSUME NEW p \in Request, pc'[p] = "rotate"
        PROVE  lock'[tok'[p]] = p /\ tok'[p] \in Live'
    BY <1>1, <1>2, <2>2 DEF LockDiscipline, TypeOK, Insert, Live, t
  <2>3. QED
    BY <2>1, <2>2 DEF LockDiscipline
<1>6. Lineage'
  BY <1>1, <1>2, RotationKeepsLineage
<1>7. QED
  BY <1>3, <1>4, <1>5, <1>6 DEF IInv

\* Both multi-row revocations hold every row that they revoke, so no other
\* request does.
LEMMA RevokeScannedKeepsIInv ==
  ASSUME IInv, NEW q \in Request, NEW label \in PC \ {"idle", "rotate"},
         RevokeScanned(q, label)
  PROVE  IInv'
<1> USE NoneAssumption DEF IInv, RevokeScanned, Answer
<1>1. TypeOK'
  BY DEF TypeOK, PC, expiryVars, tableVars, RequestInv, Released
<1>2. RequestInv'
  BY DEF RequestInv, TypeOK, tableVars
<1>3. \A s \in scan[q] \ revoked : lock[s] = q
  BY DEF Unreached
<1>4. LockDiscipline'
  <2>1. ASSUME NEW s \in SessionId, NEW p \in Request, lock'[s] = p
        PROVE  lock[s] = p /\ p # q
    BY <2>1 DEF Released
  <2>2. ASSUME NEW s \in SessionId, NEW p \in Request, lock[s] = p, p # q
        PROVE  s \in Live /\ s \in Live'
    BY <1>3, <2>2 DEF LockDiscipline, tableVars, Live
  <2>3. ASSUME NEW p \in Request, pc'[p] = "rotate"
        PROVE  /\ p # q /\ pc[p] = "rotate" /\ tok'[p] = tok[p]
               /\ tok[p] \in SessionId
    BY <2>3 DEF TypeOK, LockDiscipline, Live
  <2>4. ASSUME NEW p \in Request, p # q
        PROVE  pc'[p] = pc[p] /\ tok'[p] = tok[p] /\ scan'[p] = scan[p]
    BY <2>4 DEF TypeOK
  <2>5. \A p \in Request : pc'[p] = "rotate" => lock'[tok'[p]] = p /\ tok'[p] \in Live'
    BY <2>2, <2>3 DEF LockDiscipline, Released
  <2>6. QED
    BY <2>1, <2>2, <2>4, <2>5 DEF LockDiscipline
<1>5. Lineage'
  BY RevocationKeepsLineage
<1>6. QED
  BY <1>1, <1>2, <1>4, <1>5 DEF IInv

\* Reaching a row takes its lock, which nobody had.
LEMMA UpdateRowKeepsIInv ==
  ASSUME IInv, NEW q \in Request, NEW s \in SessionId, UpdateRow(q, s)
  PROVE  IInv'
<1> USE NoneAssumption DEF IInv, UpdateRow, requestVars
<1>1. TypeOK'
  BY DEF TypeOK, expiryVars, tableVars
<1>2. RequestInv'
  BY DEF RequestInv, tableVars
<1>3. s \in Live /\ s \in scan[q]
  BY DEF RequestInv, Unreached, Live
<1>4. LockDiscipline'
  BY <1>3 DEF LockDiscipline, TypeOK, tableVars, Live
<1>5. Lineage'
  BY RevocationKeepsLineage
<1>6. QED
  BY <1>1, <1>2, <1>4, <1>5 DEF IInv

LEMMA RevokeSessionKeepsIInv ==
  ASSUME IInv, NEW q \in Request, RevokeSession(q)
  PROVE  IInv'
<1> USE NoneAssumption DEF IInv, RevokeSession, Answer
<1>1. TypeOK'
  BY DEF TypeOK, PC, expiryVars, tableVars, RequestInv
<1>2. RequestInv'
  BY DEF RequestInv, TypeOK, tableVars
<1>3. LockDiscipline'
  BY DEF LockDiscipline, TypeOK, tableVars, Live, Updatable
<1>4. Lineage'
  BY RevocationKeepsLineage
<1>5. QED
  BY <1>1, <1>2, <1>3, <1>4 DEF IInv

\* The steps of requests that write no session.
LEMMA QuietKeepsIInv ==
  ASSUME IInv, NEW q \in Request,
         \/ \E u \in User : LoginCheck(q, u)
         \/ \E t \in SessionId :
              RefreshBegin(q, t) \/ LogoutBegin(q, t) \/ LogoutAllBegin(q, t)
         \/ RefreshLock(q) \/ RefreshReplay(q) \/ RefreshExpired(q)
         \/ ReplayScan(q) \/ LogoutAllScan(q)
         \/ Fail(q) \/ Deliver(q) \/ LoseReply(q)
  PROVE  IInv'
<1> USE NoneAssumption DEF IInv, Answer, Take
<1>1. ASSUME NEW u \in User, LoginCheck(q, u) PROVE IInv'
  <2> USE <1>1 DEF LoginCheck
  <2>1. TypeOK'
    BY DEF TypeOK, PC, expiryVars, tableVars, RequestInv, Live
  <2>2. RequestInv'
    BY DEF RequestInv, TypeOK, tableVars, Live
  <2>3. LockDiscipline'
    BY DEF LockDiscipline, TypeOK, tableVars, RequestInv, Live
  <2>4. Lineage'
    BY RevocationKeepsLineage
  <2>5. QED
    BY <2>1, <2>2, <2>3, <2>4 DEF IInv
<1>2. ASSUME NEW t \in SessionId, RefreshBegin(q, t) PROVE IInv'
  <2> USE <1>2 DEF RefreshBegin
  <2>1. TypeOK'
    BY DEF TypeOK, PC, expiryVars, tableVars, RequestInv, Live
  <2>2. RequestInv'
    BY DEF RequestInv, TypeOK, tableVars, Live
  <2>3. LockDiscipline'
    BY DEF LockDiscipline, TypeOK, tableVars, RequestInv, Live
  <2>4. Lineage'
    BY RevocationKeepsLineage
  <2>5. QED
    BY <2>1, <2>2, <2>3, <2>4 DEF IInv
<1>3. CASE RefreshReplay(q)
  <2> USE <1>3 DEF RefreshReplay
  <2>1. TypeOK'
    BY DEF TypeOK, PC, expiryVars, tableVars, RequestInv, Live
  <2>2. RequestInv'
    BY DEF RequestInv, TypeOK, tableVars, Live
  <2>3. LockDiscipline'
    BY DEF LockDiscipline, TypeOK, tableVars, RequestInv, Live
  <2>4. Lineage'
    BY RevocationKeepsLineage
  <2>5. QED
    BY <2>1, <2>2, <2>3, <2>4 DEF IInv
<1>4. CASE RefreshExpired(q)
  <2> USE <1>4 DEF RefreshExpired
  <2>1. TypeOK'
    BY DEF TypeOK, PC, expiryVars, tableVars, RequestInv, Live
  <2>2. RequestInv'
    BY DEF RequestInv, TypeOK, tableVars, Live
  <2>3. LockDiscipline'
    BY DEF LockDiscipline, TypeOK, tableVars, RequestInv, Live
  <2>4. Lineage'
    BY RevocationKeepsLineage
  <2>5. QED
    BY <2>1, <2>2, <2>3, <2>4 DEF IInv
<1>5. CASE RefreshLock(q)
  <2> USE <1>5 DEF RefreshLock
  <2>1. TypeOK'
    BY DEF TypeOK, PC, expiryVars, tableVars, RequestInv, Live
  <2>2. RequestInv'
    BY DEF RequestInv, TypeOK, tableVars, Live
  <2>3. LockDiscipline'
    BY DEF LockDiscipline, TypeOK, tableVars, RequestInv, Live
  <2>4. Lineage'
    BY RevocationKeepsLineage
  <2>5. QED
    BY <2>1, <2>2, <2>3, <2>4 DEF IInv
<1>6. CASE ReplayScan(q)
  <2> USE <1>6 DEF ReplayScan
  <2>1. TypeOK'
    BY DEF TypeOK, PC, expiryVars, tableVars, RequestInv, Live
  <2>2. RequestInv'
    BY DEF RequestInv, TypeOK, tableVars, Live
  <2>3. LockDiscipline'
    BY DEF LockDiscipline, TypeOK, tableVars, RequestInv, Live
  <2>4. Lineage'
    BY RevocationKeepsLineage
  <2>5. QED
    BY <2>1, <2>2, <2>3, <2>4 DEF IInv
<1>7. ASSUME NEW t \in SessionId, LogoutBegin(q, t) PROVE IInv'
  <2> USE <1>7 DEF LogoutBegin
  <2>1. TypeOK'
    BY DEF TypeOK, PC, expiryVars, tableVars, RequestInv, Live
  <2>2. RequestInv'
    BY DEF RequestInv, TypeOK, tableVars, Live
  <2>3. LockDiscipline'
    BY DEF LockDiscipline, TypeOK, tableVars, RequestInv, Live
  <2>4. Lineage'
    BY RevocationKeepsLineage
  <2>5. QED
    BY <2>1, <2>2, <2>3, <2>4 DEF IInv
<1>8. ASSUME NEW t \in SessionId, LogoutAllBegin(q, t) PROVE IInv'
  <2> USE <1>8 DEF LogoutAllBegin
  <2>1. TypeOK'
    BY DEF TypeOK, PC, expiryVars, tableVars, RequestInv, Live
  <2>2. RequestInv'
    BY DEF RequestInv, TypeOK, tableVars, Live
  <2>3. LockDiscipline'
    BY DEF LockDiscipline, TypeOK, tableVars, RequestInv, Live
  <2>4. Lineage'
    BY RevocationKeepsLineage
  <2>5. QED
    BY <2>1, <2>2, <2>3, <2>4 DEF IInv
<1>9. CASE LogoutAllScan(q)
  <2> USE <1>9 DEF LogoutAllScan
  <2>1. TypeOK'
    BY DEF TypeOK, PC, expiryVars, tableVars, RequestInv, Live
  <2>2. RequestInv'
    BY DEF RequestInv, TypeOK, tableVars, Live
  <2>3. LockDiscipline'
    BY DEF LockDiscipline, TypeOK, tableVars, RequestInv, Live
  <2>4. Lineage'
    BY RevocationKeepsLineage
  <2>5. QED
    BY <2>1, <2>2, <2>3, <2>4 DEF IInv
<1>10. CASE Fail(q)
  <2> USE <1>10 DEF Fail, Released
  <2>1. TypeOK'
    BY DEF TypeOK, PC, expiryVars, tableVars, RequestInv, Live
  <2>2. RequestInv'
    BY DEF RequestInv, TypeOK, tableVars, Live
  <2>3. LockDiscipline'
    BY DEF LockDiscipline, TypeOK, tableVars, RequestInv, Live
  <2>4. Lineage'
    BY RevocationKeepsLineage
  <2>5. QED
    BY <2>1, <2>2, <2>3, <2>4 DEF IInv
<1>11. CASE Deliver(q)
  <2> USE <1>11 DEF Deliver
  <2>1. TypeOK'
    BY DEF TypeOK, PC, expiryVars, tableVars, RequestInv, Live
  <2>2. RequestInv'
    BY DEF RequestInv, TypeOK, tableVars, Live
  <2>3. LockDiscipline'
    BY DEF LockDiscipline, TypeOK, tableVars, RequestInv, Live
  <2>4. Lineage'
    BY RevocationKeepsLineage
  <2>5. QED
    BY <2>1, <2>2, <2>3, <2>4 DEF IInv
<1>12. CASE LoseReply(q)
  <2> USE <1>12 DEF LoseReply
  <2>1. TypeOK'
    BY DEF TypeOK, PC, expiryVars, tableVars, RequestInv, Live
  <2>2. RequestInv'
    BY DEF RequestInv, TypeOK, tableVars, Live
  <2>3. LockDiscipline'
    BY DEF LockDiscipline, TypeOK, tableVars, RequestInv, Live
  <2>4. Lineage'
    BY RevocationKeepsLineage
  <2>5. QED
    BY <2>1, <2>2, <2>3, <2>4 DEF IInv
<1>13. QED
  BY <1>1, <1>2, <1>3, <1>4, <1>5, <1>6, <1>7, <1>8, <1>9, <1>10, <1>11, <1>12

\* Expiry and suspension.
LEMMA EnvironmentKeepsIInv ==
  ASSUME IInv, Environment
  PROVE  IInv'
<1> USE NoneAssumption DEF IInv, Environment, ExpireAccess, ExpireRefresh,
        Suspend, Reactivate, SetStatus
<1>1. TypeOK'
  BY DEF TypeOK, Status, tableVars, requestVars, expiryVars
<1>2. RequestInv'
  BY DEF RequestInv, tableVars, requestVars
<1>3. LockDiscipline'
  BY DEF LockDiscipline, tableVars, requestVars, Live
<1>4. Lineage'
  BY RevocationKeepsLineage
<1>5. QED
  BY <1>1, <1>2, <1>3, <1>4 DEF IInv

LEMMA NextIInv == IInv /\ [Next]_vars => IInv'
<1> SUFFICES ASSUME IInv, [Next]_vars PROVE IInv'
  OBVIOUS
<1>1. ASSUME NEW q \in Request, Arrive(q) PROVE IInv'
  BY <1>1, RegisterKeepsIInv, QuietKeepsIInv DEF Arrive
<1>2. ASSUME NEW q \in Request, Wait(q) PROVE IInv'
  BY <1>2, QuietKeepsIInv, UpdateRowKeepsIInv, RevokeSessionKeepsIInv DEF Wait
<1>3. ASSUME NEW q \in Request, Proceed(q) PROVE IInv'
  BY <1>3, LoginCreateKeepsIInv, RefreshCommitKeepsIInv, QuietKeepsIInv,
     RevokeScannedKeepsIInv
     DEF Proceed, RevokeFamily, RevokeAllSessionsForUser, PC
<1>4. ASSUME NEW q \in Request, Fail(q) PROVE IInv'
  BY <1>4, QuietKeepsIInv
<1>5. CASE Environment
  BY <1>5, EnvironmentKeepsIInv
<1>6. CASE UNCHANGED vars
  BY <1>6 DEF vars, tableVars, IInv, TypeOK, RequestInv, LockDiscipline, Lineage,
     LineageIsClosed, AtMostOneLive, SingleUse, Live
<1>7. QED
  BY <1>1, <1>2, <1>3, <1>4, <1>5, <1>6 DEF Next

\* The invariant holds throughout.
THEOREM Invariant == Spec => []IInv
  BY InitIInv, NextIInv, PTL DEF Spec

-----------------------------------------------------------------------------
(* What the runs check of MCSessions, for every size of the sets           *)

\* Every variable keeps its type; revoked and delivered tokens are rows.
THEOREM TypeCorrect == Spec => []TypeOK
  BY Invariant, PTL DEF IInv

\* A token family has at most one usable session (service.go:280-333).
THEOREM OneLivePerFamily == Spec => []AtMostOneLive
  BY Invariant, PTL DEF IInv, Lineage

\* No two sessions were bought with one refresh token.
THEOREM TokensAreSingleUse == Spec => []SingleUse
  BY Invariant, PTL DEF IInv, Lineage

\* Rotation keeps a lineage within its family and its user.
THEOREM LineagesAreClosed == Spec => []LineageIsClosed
  BY Invariant, PTL DEF IInv, Lineage

\* Only a rotation in progress holds a row lock, on the row it rotates, and
\* a revocation of many rows, on live rows of its snapshot.
THEOREM LocksAreDisciplined == Spec => []LockDiscipline
  BY Invariant, PTL DEF IInv

-----------------------------------------------------------------------------
(* Deadlocks *)

Revoking(q) == pc[q] \in {"revoke_family", "revoke_all"}

\* In every deadlock two revocations of many rows meet, of which one waits for
\* a row of the other (repository.go:221, 296): rotations and logouts of one
\* session wait before they hold a row, never while they do.
DeadlocksNeedRevocations ==
  \A q \in Request :
    Deadlocked(q) =>
      \E p, r \in Request :
        p # r /\ Revoking(p) /\ Revoking(r) /\ \E s \in scan[p] : lock[s] = r

\* Deadlocks are only between revocations of many rows.
THEOREM OnlyRevocationsDeadlock == Spec => []DeadlocksNeedRevocations
<1>1. IInv => DeadlocksNeedRevocations
  <2> SUFFICES ASSUME IInv, NEW q \in Request, Deadlocked(q)
               PROVE  \E p, r \in Request :
                        /\ p # r /\ Revoking(p) /\ Revoking(r)
                        /\ \E s \in scan[p] : lock[s] = r
    BY DEF DeadlocksNeedRevocations
  <2>1. PICK S \in SUBSET Request :
          q \in S /\ \A p \in S : Blockers(p) # {} /\ Blockers(p) \subseteq S
    BY DEF Deadlocked
  <2>2. ASSUME NEW p \in S PROVE \E r \in S : r \in Blockers(p)
    BY <2>1
  <2>3. ASSUME NEW p \in S, NEW r \in S, r \in Blockers(p)
        PROVE  Revoking(r)
    <3>1. \E s \in SessionId : lock[s] = r
      BY <2>1, <2>3 DEF Blockers, Unreached, IInv, TypeOK, RequestInv
    <3>2. pc[r] = "rotate" \/ Revoking(r)
      BY <2>1, <3>1 DEF IInv, LockDiscipline, Revoking
    <3>3. pc[r] # "rotate"
      BY <2>1 DEF Blockers
    <3>4. QED
      BY <3>2, <3>3
  <2>4. PICK p \in S : Revoking(p)
    BY <2>1, <2>2, <2>3
  <2>5. PICK r \in S : r \in Blockers(p)
    BY <2>2
  <2>6. PICK s \in Unreached(p) : lock[s] = r
    BY <2>4, <2>5 DEF Blockers, Revoking
  <2>7. s \in scan[p] /\ r # p
    BY <2>6 DEF Unreached
  <2>8. QED
    BY <2>1, <2>3, <2>4, <2>5, <2>6, <2>7
<1>2. QED
  BY <1>1, Invariant, PTL

-----------------------------------------------------------------------------
(* Steps that write sessions, as the abstract specification sees them      *)

\* What a step does to the table: a first session, a rotation of a live
\* session, or revocations (perhaps of no row).
Starts ==
  \E s \in SessionId, u \in User : Insert(s, u, s, None) /\ UNCHANGED revoked

Rotates ==
  \E s \in SessionId, t \in Live :
    Insert(s, owner[t], family[t], t) /\ revoked' = revoked \cup {t}

Revokes == UNCHANGED tableVars /\ revoked \subseteq revoked'

LEMMA StepKinds ==
  ASSUME IInv, [Next]_vars
  PROVE  Starts \/ Rotates \/ Revokes
<1>1. ASSUME NEW q \in Request, Arrive(q) PROVE Starts \/ Revokes
  BY <1>1 DEF Arrive, Register, LoginCheck, RefreshBegin, LogoutBegin,
     LogoutAllBegin, Starts, Revokes
<1>2. ASSUME NEW q \in Request, Wait(q) PROVE Revokes
  BY <1>2 DEF Wait, RefreshLock, RefreshReplay, RefreshExpired, UpdateRow,
     RevokeSession, Revokes
<1>3. ASSUME NEW q \in Request, Proceed(q) PROVE Starts \/ Rotates \/ Revokes
  <2>1. ASSUME NEW s \in SessionId, LoginCreate(q, s) PROVE Starts
    BY <2>1 DEF LoginCreate, Starts, IInv, RequestInv
  <2>2. ASSUME NEW s \in SessionId, RefreshCommit(q, s) PROVE Rotates
    <3>1. tok[q] \in Live
      BY <2>2 DEF RefreshCommit, IInv, LockDiscipline
    <3>2. QED
      BY <2>2, <3>1 DEF RefreshCommit, Rotates, Live
  <2>3. CASE ReplayScan(q) \/ LogoutAllScan(q) \/ Deliver(q) \/ LoseReply(q)
    BY <2>3 DEF ReplayScan, LogoutAllScan, Deliver, LoseReply, Revokes
  <2>4. CASE RevokeFamily(q) \/ RevokeAllSessionsForUser(q)
    BY <2>4 DEF RevokeFamily, RevokeAllSessionsForUser, RevokeScanned, Revokes
  <2>5. QED
    BY <1>3, <2>1, <2>2, <2>3, <2>4 DEF Proceed
<1>4. ASSUME NEW q \in Request, Fail(q) PROVE Revokes
  BY <1>4 DEF Fail, Revokes
<1>5. CASE Environment
  BY <1>5 DEF Environment, ExpireAccess, ExpireRefresh, Suspend, Reactivate,
     SetStatus, Revokes
<1>6. CASE UNCHANGED vars
  BY <1>6 DEF vars, tableVars, Revokes
<1>7. QED
  BY <1>1, <1>2, <1>3, <1>4, <1>5, <1>6 DEF Next

\* A killed family never has a usable session again.
THEOREM KilledFamiliesStayDead == Spec => DeadStaysDead
<1> DEFINE Stays == \A f \in SessionId : Dead(f) => Dead(f)'
<1>1. IInv /\ [Next]_vars => Stays
  <2> SUFFICES ASSUME IInv, [Next]_vars, NEW f \in SessionId, Dead(f)
               PROVE  Dead(f)'
    OBVIOUS
  <2>1. CASE Starts
    BY <2>1 DEF Starts, Insert, Dead, IInv, TypeOK
  <2>2. CASE Rotates
    BY <2>2 DEF Rotates, Insert, Dead, Live, IInv, TypeOK
  <2>3. CASE Revokes
    BY <2>3 DEF Revokes, tableVars, Dead
  <2>4. QED
    BY <2>1, <2>2, <2>3, StepKinds
<1>2. IInv /\ [Next]_vars => [Stays]_vars
  BY <1>1
<1>3. QED
  BY <1>2, Invariant, PTL DEF Spec, DeadStaysDead

\* A revocation that skips no row ends every family it selected.
THEOREM RevocationsEndFamilies == Spec => RevocationEndsFamilies
<1> DEFINE Ends ==
      \A q \in Request :
        /\ RevokeFamily(q) \/ RevokeAllSessionsForUser(q)
        /\ scan[q] \subseteq Live
        => \A s \in scan[q] : Dead(family[s])'
<1>1. IInv /\ [Next]_vars => Ends
  <2> SUFFICES ASSUME IInv, NEW q \in Request,
                      RevokeFamily(q) \/ RevokeAllSessionsForUser(q),
                      scan[q] \subseteq Live, NEW s \in scan[q]
               PROVE  Dead(family[s])'
    OBVIOUS
  <2>1. /\ UNCHANGED tableVars
        /\ revoked' = revoked \cup scan[q]
    BY DEF RevokeFamily, RevokeAllSessionsForUser, RevokeScanned
  <2>2. family[s] \in rows
    BY DEF IInv, Lineage, LineageIsClosed, Live
  <2>3. ASSUME NEW x \in rows, family[x] = family[s] PROVE x \in revoked'
    BY <2>1, <2>3 DEF IInv, Lineage, AtMostOneLive, Live
  <2>4. QED
    BY <2>1, <2>2, <2>3 DEF Dead, tableVars
<1>2. IInv /\ [Next]_vars => [Ends]_vars
  BY <1>1
<1>3. QED
  BY <1>2, Invariant, PTL DEF Spec, RevocationEndsFamilies

-----------------------------------------------------------------------------
(* Refinement of TokenFamily *)

\* What the CHOOSE of UsableToken amounts to when a family has at most one
\* usable session.
UsableFacts ==
  /\ UsableToken = [f \in SessionId |-> UsableToken[f]]
  /\ \A s \in Live : UsableToken[family[s]] = s
  /\ \A f \in SessionId : (\A s \in Live : family[s] # f) => UsableToken[f] = None

LEMMA UsableTokenIsUsable == IInv => UsableFacts
<1> SUFFICES ASSUME IInv PROVE UsableFacts
  OBVIOUS
<1>1. ASSUME NEW s \in Live PROVE UsableToken[family[s]] = s
  <2>1. family[s] \in SessionId
    BY DEF IInv, TypeOK, Lineage, LineageIsClosed, Live
  <2>2. (CHOOSE x \in Live : family[x] = family[s]) = s
    BY DEF IInv, Lineage, AtMostOneLive
  <2>3. QED
    BY <2>1, <2>2 DEF UsableToken
<1>2. ASSUME NEW f \in SessionId, \A s \in Live : family[s] # f
      PROVE  UsableToken[f] = None
  BY <1>2 DEF UsableToken
<1>3. UsableToken = [f \in SessionId |-> UsableToken[f]]
  BY DEF UsableToken
<1>4. QED
  BY <1>1, <1>2, <1>3 DEF UsableFacts

\* Register and login start a family; the others keep their usable token.
LEMMA StartsRefines ==
  ASSUME IInv, UsableFacts, UsableFacts', Starts
  PROVE  Families!FNext
<1>1. PICK s \in SessionId, u \in User :
        Insert(s, u, s, None) /\ UNCHANGED revoked
  BY DEF Starts
<1> USE <1>1 DEF Insert, IInv, TypeOK, Lineage, LineageIsClosed
<1>2. s \in Live' /\ family'[s] = s
  BY DEF Live
<1>3. ASSUME NEW f \in SessionId, f # s
      PROVE  UsableToken'[f] = UsableToken[f]
  <2>1. \A x \in SessionId :
          x \in Live /\ family[x] = f <=> x \in Live' /\ family'[x] = f
    BY <1>3 DEF Live
  <2>2. CASE \E x \in Live : family[x] = f
    BY <2>1, <2>2 DEF UsableFacts, Live
  <2>3. CASE \A x \in Live : family[x] # f
    BY <2>1, <2>3 DEF UsableFacts, Live
  <2>4. QED
    BY <2>2, <2>3
<1>4. UsableToken' = [UsableToken EXCEPT ![s] = s]
  BY <1>2, <1>3 DEF UsableFacts
<1>5. Families!Start(s)
  BY <1>4 DEF Families!Start
<1>6. QED
  BY <1>5 DEF Families!FNext

\* Refresh exchanges the usable token of one family for a fresh one.
LEMMA RotatesRefines ==
  ASSUME IInv, UsableFacts, UsableFacts', Rotates
  PROVE  Families!FNext
<1>1. PICK s \in SessionId, t \in Live :
        Insert(s, owner[t], family[t], t) /\ revoked' = revoked \cup {t}
  BY DEF Rotates
<1> DEFINE g == family[t]
<1> USE <1>1 DEF Insert, IInv, TypeOK, Lineage, LineageIsClosed
<1>2. s \in Live' /\ family'[s] = g /\ g \in SessionId
  BY DEF Live
<1>3. UsableToken[g] = t /\ t # None
  BY NoneAssumption DEF UsableFacts, Live
<1>4. ASSUME NEW f \in SessionId, f # g
      PROVE  UsableToken'[f] = UsableToken[f]
  <2>1. \A x \in SessionId :
          x \in Live /\ family[x] = f <=> x \in Live' /\ family'[x] = f
    BY <1>4 DEF Live
  <2>2. CASE \E x \in Live : family[x] = f
    BY <2>1, <2>2 DEF UsableFacts, Live
  <2>3. CASE \A x \in Live : family[x] # f
    BY <2>1, <2>3 DEF UsableFacts, Live
  <2>4. QED
    BY <2>2, <2>3
<1>5. UsableToken' = [UsableToken EXCEPT ![g] = s]
  BY <1>2, <1>4 DEF UsableFacts
<1>6. Families!Rotate(g, s)
  BY <1>2, <1>3, <1>5 DEF Families!Rotate
<1>7. QED
  BY <1>2, <1>6 DEF Families!FNext

\* Revocations kill the families that have no usable session afterwards.
LEMMA RevokesRefines ==
  ASSUME IInv, UsableFacts, UsableFacts', Revokes
  PROVE  Families!FNext
<1> DEFINE F == {f \in SessionId : \A s \in Live' : family'[s] # f}
<1> USE DEF Revokes, tableVars, IInv, TypeOK
<1>1. ASSUME NEW f \in SessionId
      PROVE  UsableToken'[f] = IF f \in F THEN None ELSE UsableToken[f]
  <2>1. CASE f \in F
    BY <2>1 DEF UsableFacts
  <2>2. CASE f \notin F
    <3>1. PICK s \in Live' : family'[s] = f
      BY <2>2
    <3>2. s \in Live
      BY DEF Live
    <3>3. QED
      BY <2>2, <3>1, <3>2 DEF UsableFacts
  <2>3. QED
    BY <2>1, <2>2
<1>2. UsableToken' = [f \in SessionId |-> IF f \in F THEN None ELSE UsableToken[f]]
  BY <1>1 DEF UsableFacts
<1>3. F \in SUBSET SessionId
  OBVIOUS
<1> HIDE DEF F
<1>4. Families!Kill(F)
  BY <1>2 DEF Families!Kill
<1>5. QED
  BY <1>3, <1>4 DEF Families!FNext

\* Sessions implements the rotation protocol of TokenFamily.
THEOREM Refinement == Spec => ImplementsTokenFamily
<1>1. Init => Families!FInit
  BY DEF Init, Families!FInit, UsableToken, Live
<1>2. IInv /\ IInv' /\ [Next]_vars => [Families!FNext]_Families!fvars
  <2>1. IInv' => UsableFacts'
    BY UsableTokenIsUsable, PTL
  <2>2. IInv /\ [Next]_vars /\ UsableFacts' => Families!FNext
    BY UsableTokenIsUsable, StepKinds, StartsRefines, RotatesRefines,
       RevokesRefines
  <2>3. QED
    BY <2>1, <2>2
<1>3. QED
  BY <1>1, <1>2, Invariant, PTL DEF Spec, ImplementsTokenFamily, Families!FSpec

=============================================================================
