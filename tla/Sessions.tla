------------------------------ MODULE Sessions ------------------------------
(***************************************************************************)
(* Sessions, refresh-token rotation and revocation (internal/auth).        *)
(*                                                                         *)
(* A row of the table `sessions` is one access token, one refresh token    *)
(* and their expiry times; the rows a client obtains by rotating its       *)
(* refresh token share a token family.  HTTP requests run concurrently,    *)
(* each in a goroutine of its own, and meet in PostgreSQL under            *)
(* READ COMMITTED.  A slot q of Request is one such goroutine: it is idle, *)
(* takes a request, runs it one database step at a time and is idle again. *)
(*                                                                         *)
(* How SQL is mapped to steps:                                             *)
(*  - a guarded UPDATE of one row is one step, enabled when no other       *)
(*    transaction holds the row (an UPDATE waits for the lock and then     *)
(*    evaluates its WHERE again);                                          *)
(*  - an UPDATE of many rows takes several: its snapshot selects the       *)
(*    committed rows that match; these are locked one by one, in any       *)
(*    order, if they still match when they are free; then it commits.      *)
(*    Rows committed in between are missed;                                *)
(*  - a transaction's writes become visible in its commit step.            *)
(* A request that changes nothing (a 4xx before any write) is a stutter.   *)
(***************************************************************************)
EXTENDS FiniteSets

CONSTANTS User,         \* people with an identifier and a password
          SessionId,    \* ids of session rows; a bound on how many exist
          Request,      \* goroutines that may serve requests at once
          None          \* the absent value

ASSUME NoneAssumption == None \notin User \cup SessionId \cup Request

VARIABLES
  (* Table users *)
  status,         \* user -> "absent" before Register, else users.status
  (* Table sessions: rows are the ids in use, the rest are its columns *)
  rows, owner, family, revoked, accessExpired, refreshExpired,
  lock,           \* row -> the transaction that has it locked
  (* Goroutines *)
  pc,             \* what the goroutine does next
  tok,            \* the session its request presented, or created
  who,            \* the user LoginCheck read
  scan,           \* rows its multi-row UPDATE selected in its snapshot
  (* The clients' side of the wire *)
  delivered,      \* sessions whose tokens reached a client
  (* History *)
  parent          \* row -> the row whose rotation created it

tableVars   == <<rows, owner, family, parent>>
expiryVars  == <<accessExpired, refreshExpired>>
requestVars == <<pc, tok, who, scan>>
vars == <<status, rows, owner, family, parent, revoked, accessExpired,
          refreshExpired, lock, pc, tok, who, scan, delivered>>

Status == {"absent", "active", "suspended"}

PC == {"idle", "login", "select", "rotate", "replayed", "revoke_family",
       "logout", "logout_all", "revoke_all", "reply"}

TypeOK ==
  /\ status \in [User -> Status]
  /\ rows \subseteq SessionId
  /\ owner \in [SessionId -> User \cup {None}]
  /\ family \in [SessionId -> SessionId \cup {None}]
  /\ parent \in [SessionId -> SessionId \cup {None}]
  /\ revoked \subseteq rows
  /\ accessExpired \subseteq rows
  /\ refreshExpired \subseteq rows
  /\ lock \in [SessionId -> Request \cup {None}]
  /\ pc \in [Request -> PC]
  /\ tok \in [Request -> SessionId \cup {None}]
  /\ who \in [Request -> User \cup {None}]
  /\ scan \in [Request -> SUBSET SessionId]
  /\ delivered \subseteq rows

Init ==
  /\ status = [u \in User |-> "absent"]
  /\ rows = {}
  /\ owner = [s \in SessionId |-> None]
  /\ family = [s \in SessionId |-> None]
  /\ parent = [s \in SessionId |-> None]
  /\ revoked = {}
  /\ accessExpired = {}
  /\ refreshExpired = {}
  /\ lock = [s \in SessionId |-> None]
  /\ pc = [q \in Request |-> "idle"]
  /\ tok = [q \in Request |-> None]
  /\ who = [q \in Request |-> None]
  /\ scan = [q \in Request |-> {}]
  /\ delivered = {}

-----------------------------------------------------------------------------
(* Helpers *)

Live == rows \ revoked

\* Middleware Authn: the access token is accepted.
Authenticates(t) ==
  /\ t \in Live \ accessExpired
  /\ status[owner[t]] = "active"

\* A single-row UPDATE ... AND revoked = false does not wait on row s.
Updatable(s) == s \in revoked \/ lock[s] = None

\* q takes a request and remembers the session it presents.
Take(q, label, t) ==
  /\ pc[q] = "idle"
  /\ pc' = [pc EXCEPT ![q] = label]
  /\ tok' = [tok EXCEPT ![q] = t]
  /\ UNCHANGED <<who, scan>>

\* q answers without a new session: its slot is free again.
Answer(q) ==
  /\ pc' = [pc EXCEPT ![q] = "idle"]
  /\ tok' = [tok EXCEPT ![q] = None]
  /\ who' = [who EXCEPT ![q] = None]
  /\ scan' = [scan EXCEPT ![q] = {}]

\* q has committed session s and is about to write its tokens.
Reply(q, s) ==
  /\ pc' = [pc EXCEPT ![q] = "reply"]
  /\ tok' = [tok EXCEPT ![q] = s]
  /\ who' = [who EXCEPT ![q] = None]
  /\ UNCHANGED scan

\* INSERT INTO sessions: row s of user u in family f, rotated from p.
Insert(s, u, f, p) ==
  /\ s \notin rows
  /\ rows' = rows \cup {s}
  /\ owner' = [owner EXCEPT ![s] = u]
  /\ family' = [family EXCEPT ![s] = f]
  /\ parent' = [parent EXCEPT ![s] = p]

-----------------------------------------------------------------------------
(* Register: user, personal organization and session in one transaction.   *)
(* The unique constraint on the identifier decides between two of them.    *)

Register(q, u, s) ==
  /\ pc[q] = "idle"
  /\ status[u] = "absent"
  /\ status' = [status EXCEPT ![u] = "active"]
  /\ Insert(s, u, s, None)
  /\ Reply(q, s)
  /\ UNCHANGED <<revoked, expiryVars, lock, delivered>>

-----------------------------------------------------------------------------
(* Login: the user is read and its password verified; the session is       *)
(* inserted by a statement of its own, later.                              *)

LoginCheck(q, u) ==
  /\ pc[q] = "idle"
  /\ status[u] = "active"
  /\ pc' = [pc EXCEPT ![q] = "login"]
  /\ who' = [who EXCEPT ![q] = u]
  /\ UNCHANGED <<status, tableVars, revoked, expiryVars, lock, tok, scan,
                 delivered>>

LoginCreate(q, s) ==
  /\ pc[q] = "login"
  /\ Insert(s, who[q], s, None)
  /\ Reply(q, s)
  /\ UNCHANGED <<status, revoked, expiryVars, lock, delivered>>

-----------------------------------------------------------------------------
(* Refresh.  Any delivered token may be presented at any time: retried,    *)
(* duplicated or stolen.                                                   *)

\* GetSessionForRefresh, its snapshot: the row exists, the user is active.
RefreshBegin(q, t) ==
  /\ t \in delivered
  /\ status[owner[t]] = "active"
  /\ Take(q, "select", t)
  /\ UNCHANGED <<status, tableVars, revoked, expiryVars, lock, delivered>>

\* ... FOR UPDATE OF s grants the lock on a row that is still good.
RefreshLock(q) ==
  /\ pc[q] = "select"
  /\ lock[tok[q]] = None
  /\ tok[q] \notin revoked \cup refreshExpired
  /\ lock' = [lock EXCEPT ![tok[q]] = q]
  /\ pc' = [pc EXCEPT ![q] = "rotate"]
  /\ UNCHANGED <<status, tableVars, revoked, expiryVars, tok, who, scan,
                 delivered>>

\* Mutant: a retried token is forgiven, a second successor is issued.
RefreshReplayForgiven(q) ==
  /\ pc[q] = "select"
  /\ lock[tok[q]] = None
  /\ tok[q] \in revoked
  /\ \E s \in SessionId :
       /\ Insert(s, owner[tok[q]], family[tok[q]], tok[q])
       /\ Reply(q, s)
  /\ UNCHANGED <<status, revoked, expiryVars, lock, delivered>>

\* The locked row is revoked: the transaction rolls back with
\* errRefreshReplay, which releases the lock.
RefreshReplay(q) ==
  /\ pc[q] = "select"
  /\ lock[tok[q]] = None
  /\ tok[q] \in revoked
  /\ pc' = [pc EXCEPT ![q] = "replayed"]
  /\ UNCHANGED <<status, tableVars, revoked, expiryVars, lock, tok, who, scan,
                 delivered>>

\* The locked row has expired: roll back, ErrInvalidToken.
RefreshExpired(q) ==
  /\ pc[q] = "select"
  /\ lock[tok[q]] = None
  /\ tok[q] \in refreshExpired \ revoked
  /\ Answer(q)
  /\ UNCHANGED <<status, tableVars, revoked, expiryVars, lock, delivered>>

\* Mutant: the refresh token that was presented is not revoked.
RefreshCommitKeepsOld(q, s) ==
  LET t == tok[q] IN
  /\ pc[q] = "rotate"
  /\ lock' = [lock EXCEPT ![t] = None]
  /\ Insert(s, owner[t], family[t], t)
  /\ Reply(q, s)
  /\ UNCHANGED <<status, revoked, expiryVars, delivered>>

\* Mutant: CreateSession instead of CreateSessionInFamily.
RefreshCommitNewFamily(q, s) ==
  LET t == tok[q] IN
  /\ pc[q] = "rotate"
  /\ lock' = [lock EXCEPT ![t] = None]
  /\ revoked' = revoked \cup {t}
  /\ Insert(s, owner[t], s, t)
  /\ Reply(q, s)
  /\ UNCHANGED <<status, expiryVars, delivered>>

\* Mutant: the tokens are sent although the insert was rolled back.
RefreshCommitNoInsert(q, s) ==
  LET t == tok[q] IN
  /\ pc[q] = "rotate"
  /\ s \notin rows
  /\ lock' = [lock EXCEPT ![t] = None]
  /\ Reply(q, s)
  /\ UNCHANGED <<status, tableVars, revoked, expiryVars, delivered>>

\* RevokeSessionIfActive, then CreateSessionInFamily, then COMMIT.
RefreshCommit(q, s) ==
  LET t == tok[q] IN
  /\ pc[q] = "rotate"
  /\ lock' = [lock EXCEPT ![t] = None]
  /\ IF t \in revoked
       THEN /\ pc' = [pc EXCEPT ![q] = "replayed"]
            /\ UNCHANGED <<tableVars, revoked, tok, who, scan>>
       ELSE /\ revoked' = revoked \cup {t}
            /\ Insert(s, owner[t], family[t], t)
            /\ Reply(q, s)
  /\ UNCHANGED <<status, expiryVars, delivered>>

-----------------------------------------------------------------------------
(* Revocation of many rows: a replayed token's family, or all of a user's  *)
(* sessions.                                                               *)

\* RevokeFamily: its snapshot.
ReplayScan(q) ==
  /\ pc[q] = "replayed"
  /\ pc' = [pc EXCEPT ![q] = "revoke_family"]
  /\ scan' = [scan EXCEPT ![q] = {s \in Live : family[s] = family[tok[q]]}]
  /\ UNCHANGED <<status, tableVars, revoked, expiryVars, lock, tok, who,
                 delivered>>

\* Authn has accepted the access token of POST /auth/logout-all.
LogoutAllBegin(q, t) ==
  /\ t \in delivered
  /\ Authenticates(t)
  /\ Take(q, "logout_all", t)
  /\ UNCHANGED <<status, tableVars, revoked, expiryVars, lock, delivered>>

\* RevokeAllSessionsForUser: its snapshot.
LogoutAllScan(q) ==
  /\ pc[q] = "logout_all"
  /\ pc' = [pc EXCEPT ![q] = "revoke_all"]
  /\ scan' = [scan EXCEPT ![q] = {s \in Live : owner[s] = owner[tok[q]]}]
  /\ UNCHANGED <<status, tableVars, revoked, expiryVars, lock, tok, who,
                 delivered>>

\* Rows the UPDATE of q has still to reach.
Unreached(q) == {s \in scan[q] \ revoked : lock[s] # q}

\* It reaches row s, which is free and still matches.
UpdateRow(q, s) ==
  /\ pc[q] \in {"revoke_family", "revoke_all"}
  /\ s \in Unreached(q) /\ lock[s] = None
  /\ lock' = [lock EXCEPT ![s] = q]
  /\ UNCHANGED <<status, tableVars, revoked, expiryVars, requestVars,
                 delivered>>

\* Its transaction ends, if it has one.
Released(q) == [s \in SessionId |-> IF lock[s] = q THEN None ELSE lock[s]]

\* Mutant: rows held by another transaction are skipped instead of waited for.
RevokeScannedSkipLocked(q, label) ==
  /\ pc[q] = label
  /\ \A s \in Unreached(q) : lock[s] # None
  /\ revoked' = revoked \cup {s \in scan[q] : lock[s] = q}
  /\ lock' = Released(q)
  /\ Answer(q)
  /\ UNCHANGED <<status, tableVars, expiryVars, delivered>>

\* Both statements have reached all rows they selected, and commit: rows that
\* no longer matched are skipped, rows committed since are not looked at.
RevokeScanned(q, label) ==
  /\ pc[q] = label
  /\ Unreached(q) = {}
  /\ revoked' = revoked \cup scan[q]
  /\ lock' = Released(q)
  /\ Answer(q)
  /\ UNCHANGED <<status, tableVars, expiryVars, delivered>>

RevokeFamily(q) == RevokeScanned(q, "revoke_family")

RevokeAllSessionsForUser(q) == RevokeScanned(q, "revoke_all")

-----------------------------------------------------------------------------
(* Logout of one session *)

LogoutBegin(q, t) ==
  /\ t \in delivered
  /\ Authenticates(t)
  /\ Take(q, "logout", t)
  /\ UNCHANGED <<status, tableVars, revoked, expiryVars, lock, delivered>>

RevokeSession(q) ==
  /\ pc[q] = "logout"
  /\ Updatable(tok[q])
  /\ revoked' = revoked \cup {tok[q]}
  /\ Answer(q)
  /\ UNCHANGED <<status, tableVars, expiryVars, lock, delivered>>

-----------------------------------------------------------------------------
(* Failure and the wire *)

\* Mutant: a failed refresh leaves its transaction open.
FailKeepsLock(q) ==
  /\ pc[q] \notin {"idle", "reply"}
  /\ Answer(q)
  /\ UNCHANGED <<status, tableVars, revoked, expiryVars, lock, delivered>>

\* A statement fails (database error, deadlock victim, cancelled context):
\* the transaction rolls back and the request answers with an error.  Of
\* RevokeFamily the error is only logged.
Fail(q) ==
  /\ pc[q] \notin {"idle", "reply"}
  /\ lock' = Released(q)
  /\ Answer(q)
  /\ UNCHANGED <<status, tableVars, revoked, expiryVars, delivered>>

\* The response with the new tokens reaches the client.
Deliver(q) ==
  /\ pc[q] = "reply"
  /\ delivered' = delivered \cup {tok[q]}
  /\ Answer(q)
  /\ UNCHANGED <<status, tableVars, revoked, expiryVars, lock>>

\* The session is committed and its tokens are not sent: newCSRFToken
\* fails, the process dies or the connection breaks.
LoseReply(q) ==
  /\ pc[q] = "reply"
  /\ Answer(q)
  /\ UNCHANGED <<status, tableVars, revoked, expiryVars, lock, delivered>>

-----------------------------------------------------------------------------
(* Time, and the operator who suspends users (no endpoint does) *)

ExpireAccess(s) ==
  /\ s \in rows \ accessExpired
  /\ accessExpired' = accessExpired \cup {s}
  /\ UNCHANGED <<status, tableVars, revoked, refreshExpired, lock,
                 requestVars, delivered>>

ExpireRefresh(s) ==
  /\ s \in rows \ refreshExpired
  /\ refreshExpired' = refreshExpired \cup {s}
  /\ UNCHANGED <<status, tableVars, revoked, accessExpired, lock,
                 requestVars, delivered>>

SetStatus(u, from, to) ==
  /\ status[u] = from
  /\ status' = [status EXCEPT ![u] = to]
  /\ UNCHANGED <<tableVars, revoked, expiryVars, lock, requestVars,
                 delivered>>

Suspend(u) == SetStatus(u, "active", "suspended")

Reactivate(u) == SetStatus(u, "suspended", "active")

-----------------------------------------------------------------------------
(* Next-state relation *)

Arrive(q) ==
  \/ \E u \in User, s \in SessionId : Register(q, u, s)
  \/ \E u \in User : LoginCheck(q, u)
  \/ \E t \in SessionId : RefreshBegin(q, t)
  \/ \E t \in SessionId : LogoutBegin(q, t)
  \/ \E t \in SessionId : LogoutAllBegin(q, t)

\* Steps that may have to wait for a row lock.
Wait(q) ==
  \/ RefreshLock(q)
  \/ RefreshReplay(q)
  \/ RefreshExpired(q)
  \/ \E s \in SessionId : UpdateRow(q, s)
  \/ RevokeSession(q)

\* Steps that never wait.
Proceed(q) ==
  \/ \E s \in SessionId : LoginCreate(q, s)
  \/ \E s \in SessionId : RefreshCommit(q, s)
  \/ ReplayScan(q)
  \/ LogoutAllScan(q)
  \/ RevokeFamily(q)
  \/ RevokeAllSessionsForUser(q)
  \/ Deliver(q)
  \/ LoseReply(q)

Environment ==
  \/ \E s \in SessionId : ExpireAccess(s) \/ ExpireRefresh(s)
  \/ \E u \in User : Suspend(u) \/ Reactivate(u)

Next ==
  \/ \E q \in Request : Arrive(q) \/ Wait(q) \/ Proceed(q) \/ Fail(q)
  \/ Environment

Spec == Init /\ [][Next]_vars

\* The holders of the rows that p asks for, when it can only wait.
Blockers(p) ==
  IF pc[p] \in {"revoke_family", "revoke_all"} THEN {lock[s] : s \in Unreached(p)}
  ELSE IF pc[p] \in {"select", "logout"} THEN {lock[tok[p]]}
  ELSE {}

\* Some wait for each other, in a circle that nobody outside can open.
Deadlocked(q) ==
  \E S \in SUBSET Request :
    q \in S /\ \A p \in S : Blockers(p) # {} /\ Blockers(p) \subseteq S

\* PostgreSQL fails one of them after deadlock_timeout.
DeadlockVictim(q) == Deadlocked(q) /\ Fail(q)

\* A goroutine that can run does, and PostgreSQL's lock queue does not pass
\* a waiter over for ever, and ends deadlocks.  Nothing is assumed of other
\* failures, except that an insert fails when the bound on ids is reached.
OutOfIds(q) == rows = SessionId /\ pc[q] \in {"login", "rotate"} /\ Fail(q)

Fairness ==
  \A q \in Request :
    /\ SF_vars(Wait(q))
    /\ WF_vars(Proceed(q))
    /\ WF_vars(OutOfIds(q))
    /\ WF_vars(DeadlockVictim(q))

FairSpec == Spec /\ Fairness

-----------------------------------------------------------------------------
(* Properties *)

\* At no time has a token family two usable sessions: of two clients that
\* hold tokens of one lineage at most one can go on without the theft alarm
\* (Refresh's lock and compare-and-swap, service.go:280-333).
AtMostOneLive ==
  \A s, t \in Live : family[s] = family[t] => s = t

\* A refresh token buys one successor, ever, however many requests present
\* it at once (regression_test.go, "exactly one may succeed").
SingleUse ==
  \A s, t \in rows : parent[s] # None /\ parent[s] = parent[t] => s = t

\* Rotation moves neither the user nor the family of a lineage, so that
\* killing one family or one user's sessions hits that one alone.
LineageIsClosed ==
  \A s \in rows :
    /\ family[s] \in rows
    /\ owner[s] = owner[family[s]]
    /\ parent[s] # None =>
         /\ parent[s] \in revoked
         /\ family[s] = family[parent[s]]

\* A row lock is held only by a refresh in the middle of its rotation, on
\* the session it was asked to rotate, and by a revocation on rows it selected,
\* which are unrevoked all the while: nothing is left locked by a request that
\* failed, no two rotations share a session, and none goes on under a
\* revocation that has reached its session.
LockDiscipline ==
  /\ \A s \in SessionId, q \in Request :
       lock[s] = q =>
         /\ s \in Live
         /\ \/ pc[q] = "rotate" /\ tok[q] = s
            \/ pc[q] \in {"revoke_family", "revoke_all"} /\ s \in scan[q]
  /\ \A q \in Request :
       pc[q] = "rotate" => lock[tok[q]] = q /\ tok[q] \in Live

\* A family all of whose sessions are revoked has no usable session again:
\* no interleaving of login, refresh and failure revives a killed lineage.
Dead(f) == f \in rows /\ \A s \in rows : family[s] = f => s \in revoked

DeadStaysDead ==
  [][\A f \in SessionId : Dead(f) => Dead(f)']_vars

\* A revocation of many rows that found all of them still unrevoked ends
\* every family it selected.  What it can miss is only a lineage rotated
\* between its snapshot and its update.
RevocationEndsFamilies ==
  [][\A q \in Request :
       /\ RevokeFamily(q) \/ RevokeAllSessionsForUser(q)
       /\ scan[q] \subseteq Live
       => \A s \in scan[q] : Dead(family[s])']_vars

\* The usable token of every family, for the abstract specification.
UsableToken ==
  [f \in SessionId |->
     IF \E s \in Live : family[s] = f
       THEN CHOOSE s \in Live : family[s] = f
       ELSE None]

Families == INSTANCE TokenFamily
              WITH Token <- SessionId, issued <- rows, usable <- UsableToken

\* All of it together is a rotation protocol: every step starts a family,
\* exchanges its usable token for a fresh one, kills families, or is not
\* seen by a holder of tokens.
ImplementsTokenFamily == Families!FSpec

\* Every request is answered: no lock is waited for in vain, by a rotation,
\* a logout or a revocation of many rows.
RequestsAnswered ==
  \A q \in Request : pc[q] # "idle" ~> pc[q] = "idle"

-----------------------------------------------------------------------------
(* What the documents say of the program, and the code does not do *)

\* VERIFICATION.md, "Logout-all revokes every session": when logout-all
\* answers, no lineage it found alive is usable.
LogoutAllEndsFamilies ==
  [][\A q \in Request :
       RevokeAllSessionsForUser(q) => \A s \in scan[q] : Dead(family[s])']_vars

=============================================================================
