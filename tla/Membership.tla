----------------------------- MODULE Membership -----------------------------
(***************************************************************************)
(* Organizations, memberships and invitations (internal/organization,      *)
(* internal/membership) behind the permission check of internal/authz.     *)
(*                                                                         *)
(* As in Sessions, a slot q of Request is a goroutine that takes one HTTP  *)
(* request at a time and runs it statement by statement under PostgreSQL's *)
(* READ COMMITTED:                                                         *)
(*  - a SELECT is a step; what it read may be stale in the next step;      *)
(*  - a last write and its COMMIT are one step, which waits while another  *)
(*    transaction holds the membership row;                                *)
(*  - SELECT ... FOR UPDATE of the owners is a step for the snapshot and   *)
(*    one for each row it then locks; the UPDATE of an organization's      *)
(*    invitations is two steps, the snapshot, and the writing of the rows  *)
(*    that then still match.                                               *)
(* No code writes the statuses "suspended" of organizations and            *)
(* memberships, so a membership is active when it exists.                  *)
(***************************************************************************)
EXTENDS FiniteSets

CONSTANTS Org, User,
          Invitation,   \* ids of invitations; a bound on how many exist
          Request,      \* goroutines that may serve requests at once
          Kind,         \* the role kinds in play
          None          \* the absent value

ASSUME NoneAssumption ==
  None \notin Org \cup User \cup Invitation \cup Request \cup Kind

ASSUME KindAssumption ==
  "owner" \in Kind /\ Kind \subseteq {"owner", "admin", "member", "viewer"}

VARIABLES
  orgStatus, orgType,     \* organizations.status, .type
  kind,                   \* org -> user -> kind of the member's role
  invStatus,              \* invitations.status, "absent" when not created
  invOrg, invKind,        \* its organization and the kind of its role
  expired,                \* invitations whose expires_at has passed
  lock,                   \* org -> user -> holder of the membership row
  pc,                     \* what the goroutine does next
  req,                    \* the request it serves
  seen,                   \* the role kind it read of its target
  scan,                   \* rows its multi-row statement selected
  root                    \* history: the first link of a rotated invitation

orgVars == <<orgStatus, orgType>>
invVars == <<invStatus, invOrg, invKind, root>>
localVars == <<pc, req, seen, scan>>
vars == <<orgStatus, orgType, kind, invStatus, invOrg, invKind, expired, lock,
          pc, req, seen, scan, root>>

\* Requests: the path and body parameters an operation uses.
Target(op)  == [op: {op}, org: Org, actor: User, target: User, role: {None}, inv: {None}]
Removals    == Target("remove")
Leaves      == {r \in Target("leave") : r.actor = r.target}
Assignments == [op: {"assign"}, org: Org, actor: User, target: User, role: Kind, inv: {None}]
Invites     == [op: {"invite"}, org: Org, actor: User, target: {None}, role: Kind, inv: {None}]
Rotations   == [op: {"rotate"}, org: Org, actor: User, target: {None}, role: {None}, inv: Invitation]
Accepts     == [op: {"accept"}, org: Org, actor: User, target: {None}, role: Kind, inv: Invitation]
Deletes     == [op: {"delete"}, org: Org, actor: User, target: {None}, role: {None}, inv: {None}]

Authorized == Removals \cup Assignments \cup Invites \cup Rotations \cup Deletes

Requests == Authorized \cup Leaves \cup Accepts

PC == {"idle", "read", "status", "actor", "count", "lock", "write", "type",
       "find", "inviter", "insert", "redeem", "get", "select", "delete"}

TypeOK ==
  /\ orgStatus \in [Org -> {"absent", "active", "deleted"}]
  /\ orgType \in [Org -> {"personal", "business"}]
  /\ kind \in [Org -> [User -> Kind \cup {None}]]
  /\ invStatus \in [Invitation -> {"absent", "active", "revoked", "accepted"}]
  /\ invOrg \in [Invitation -> Org \cup {None}]
  /\ invKind \in [Invitation -> Kind \cup {None}]
  /\ root \in [Invitation -> Invitation \cup {None}]
  /\ expired \subseteq Invitation
  /\ lock \in [Org -> [User -> Request \cup {None}]]
  /\ pc \in [Request -> PC]
  /\ req \in [Request -> Requests \cup {None}]
  /\ seen \in [Request -> Kind \cup {None}]
  /\ scan \in [Request -> SUBSET (User \cup Invitation)]

Init ==
  /\ orgStatus = [o \in Org |-> "absent"]
  /\ orgType = [o \in Org |-> "business"]
  /\ kind = [o \in Org |-> [u \in User |-> None]]
  /\ invStatus = [i \in Invitation |-> "absent"]
  /\ invOrg = [i \in Invitation |-> None]
  /\ invKind = [i \in Invitation |-> None]
  /\ root = [i \in Invitation |-> None]
  /\ expired = {}
  /\ lock = [o \in Org |-> [u \in User |-> None]]
  /\ pc = [q \in Request |-> "idle"]
  /\ req = [q \in Request |-> None]
  /\ seen = [q \in Request |-> None]
  /\ scan = [q \in Request |-> {}]

-----------------------------------------------------------------------------
(* Helpers *)

Owners(o) == {u \in User : kind[o][u] = "owner"}

\* The role kinds that hold the permission a route asks for (migration 3).
Permission == [remove |-> {"owner", "admin"}, assign |-> {"owner", "admin"},
               invite |-> {"owner", "admin"}, rotate |-> {"owner", "admin"},
               delete |-> {"owner"}]

\* Only an owner may grant the owner role or take it away ...
NeedsOwner(r, k) == k = "owner" \/ r.role = "owner"

\* ... and the owners are counted when one is about to be lost.
NeedsCount(r, k) == k = "owner" /\ r.role # "owner"

Goto(q, label) == pc' = [pc EXCEPT ![q] = label]

\* q answers its request: COMMIT or ROLLBACK releases its row locks.
Answer(q) ==
  /\ Goto(q, "idle")
  /\ req' = [req EXCEPT ![q] = None]
  /\ seen' = [seen EXCEPT ![q] = None]

Unlock(q) ==
  lock' = [o \in Org |->
             [u \in User |-> IF lock[o][u] = q THEN None ELSE lock[o][u]]]

\* CreateLinkInvitation: only foreign keys are checked, not the status of o.
InsertInvitation(i, o, k, first) ==
  /\ invStatus[i] = "absent"
  /\ invOrg' = [invOrg EXCEPT ![i] = o]
  /\ invKind' = [invKind EXCEPT ![i] = k]
  /\ root' = [root EXCEPT ![i] = first]

-----------------------------------------------------------------------------
(* Bootstrap: organization and owner membership in one transaction, for a  *)
(* personal organization the one that registers its user.                  *)

Bootstrap(o, type, u) ==
  /\ orgStatus[o] = "absent"
  /\ orgStatus' = [orgStatus EXCEPT ![o] = "active"]
  /\ orgType' = [orgType EXCEPT ![o] = type]
  /\ kind' = [kind EXCEPT ![o][u] = "owner"]
  /\ UNCHANGED <<invVars, expired, lock, localVars>>

-----------------------------------------------------------------------------
(* Requests arrive *)

FirstStep == [remove |-> "read", assign |-> "read", invite |-> "type",
              rotate |-> "find", delete |-> "get"]

\* Middleware Authz, CheckPermission: one query over organization,
\* membership and role.  A refusal changes nothing.
Authorize(q, r) ==
  /\ pc[q] = "idle"
  /\ orgStatus[r.org] = "active"
  /\ kind[r.org][r.actor] \in Permission[r.op]
  /\ Goto(q, FirstStep[r.op])
  /\ req' = [req EXCEPT ![q] = r]
  /\ UNCHANGED <<orgVars, kind, invVars, expired, lock, seen, scan>>

\* POST .../leave has no permission gate.
LeaveBegin(q, r) ==
  /\ pc[q] = "idle"
  /\ orgStatus[r.org] # "absent"
  /\ Goto(q, "read")
  /\ req' = [req EXCEPT ![q] = r]
  /\ UNCHANGED <<orgVars, kind, invVars, expired, lock, seen, scan>>

\* GetActiveInvitationByTokenHash and the expiry check, before the
\* transaction; whoever knows the link may redeem it.
AcceptBegin(q, r) ==
  /\ pc[q] = "idle"
  /\ invStatus[r.inv] = "active" /\ r.inv \notin expired
  /\ invOrg[r.inv] = r.org /\ invKind[r.inv] = r.role
  /\ orgStatus[r.org] = "active"
  /\ Goto(q, "redeem")
  /\ req' = [req EXCEPT ![q] = r]
  /\ UNCHANGED <<orgVars, kind, invVars, expired, lock, seen, scan>>

-----------------------------------------------------------------------------
(* Remove, Leave and AssignRole: the target's role is read, the owner      *)
(* rules are checked, and the row is written last.                         *)

\* GetMemberRoleKind of the target: not locked.
ReadTarget(q) ==
  LET r == req[q]
      k == kind[r.org][r.target] IN
  /\ pc[q] = "read"
  /\ k # None
  /\ seen' = [seen EXCEPT ![q] = k]
  /\ Goto(q, IF r.op = "leave" THEN "status"
             ELSE IF NeedsOwner(r, k) THEN "actor" ELSE "write")
  /\ UNCHANGED <<orgVars, kind, invVars, expired, lock, req, scan>>

\* Leave: OrganizationStatus.
CheckStatus(q) ==
  /\ pc[q] = "status"
  /\ orgStatus[req[q].org] = "active"
  /\ Goto(q, IF NeedsCount(req[q], seen[q]) THEN "count" ELSE "write")
  /\ UNCHANGED <<orgVars, kind, invVars, expired, lock, req, seen, scan>>

\* Remove and AssignRole: GetMemberRoleKind of the actor.
CheckActor(q) ==
  /\ pc[q] = "actor"
  /\ req[q].actor \in Owners(req[q].org)
  /\ Goto(q, IF NeedsCount(req[q], seen[q]) THEN "count" ELSE "write")
  /\ UNCHANGED <<orgVars, kind, invVars, expired, lock, req, seen, scan>>

\* CountActiveOwners: its snapshot.
SelectOwners(q) ==
  /\ pc[q] = "count"
  /\ scan' = [scan EXCEPT ![q] = Owners(req[q].org)]
  /\ Goto(q, "lock")
  /\ UNCHANGED <<orgVars, kind, invVars, expired, lock, req, seen>>

\* ... FOR UPDATE: the selected rows are locked one by one, in whatever order
\* this snapshot finds them (no ORDER BY),
LockOwner(q, u) ==
  LET o == req[q].org IN
  /\ pc[q] = "lock"
  /\ u \in scan[q]
  /\ lock[o][u] = None
  /\ lock' = [lock EXCEPT ![o][u] = q]
  /\ scan' = [scan EXCEPT ![q] = @ \ {u}]
  /\ UNCHANGED <<orgVars, kind, invVars, expired, pc, req, seen>>

\* The rows that were locked and are still owned.
Counted(q) ==
  LET o == req[q].org IN {u \in Owners(o) : lock[o][u] = q}

\* Mutant: count < 1 instead of count <= 1.
CountOwnersOffByOne(q) ==
  /\ pc[q] = "lock" /\ scan[q] = {}
  /\ \/ Counted(q) # {} /\ Goto(q, "write") /\ UNCHANGED <<req, seen, lock>>
     \/ Counted(q) = {} /\ Answer(q) /\ Unlock(q)
  /\ UNCHANGED <<orgVars, kind, invVars, expired, scan>>

\* Mutant: the locks are gone with the statement (CountActiveOwners on the
\* pool instead of the transaction).
CountOwnersOnPool(q) ==
  /\ pc[q] = "lock" /\ scan[q] = {}
  /\ \/ (\E u, v \in Counted(q) : u # v) /\ Goto(q, "write") /\ UNCHANGED <<req, seen>>
     \/ (\A u, v \in Counted(q) : u = v) /\ Answer(q)
  /\ Unlock(q)
  /\ UNCHANGED <<orgVars, kind, invVars, expired, scan>>

\* and counted: the last owner stays.
CountOwners(q) ==
  /\ pc[q] = "lock" /\ scan[q] = {}
  /\ \/ (\E u, v \in Counted(q) : u # v) /\ Goto(q, "write") /\ UNCHANGED <<req, seen, lock>>
     \/ (\A u, v \in Counted(q) : u = v) /\ Answer(q) /\ Unlock(q)
  /\ UNCHANGED <<orgVars, kind, invVars, expired, scan>>

\* The row of the target is free, or this transaction locked it.
Writable(q) == lock[req[q].org][req[q].target] \in {None, q}

\* Mutant: the transaction is left open after the delete.
RemoveMemberNoCommit(q) ==
  /\ pc[q] = "write"
  /\ req[q].op \in {"remove", "leave"}
  /\ Writable(q)
  /\ kind' = [kind EXCEPT ![req[q].org][req[q].target] = None]
  /\ Answer(q)
  /\ UNCHANGED <<orgVars, invVars, expired, lock, scan>>

\* DELETE FROM memberships, COMMIT.  A row deleted drops out of the
\* snapshots of those who wait for it, even if its user joins again.
RemoveMember(q) ==
  LET o == req[q].org
      t == req[q].target IN
  /\ pc[q] = "write"
  /\ req[q].op \in {"remove", "leave"}
  /\ Writable(q)
  /\ kind' = [kind EXCEPT ![o][t] = None]
  /\ scan' = [p \in Request |-> IF pc[p] = "lock" /\ req[p].org = o
                                  THEN scan[p] \ {t} ELSE scan[p]]
  /\ Answer(q) /\ Unlock(q)
  /\ UNCHANGED <<orgVars, invVars, expired>>

\* UPDATE memberships SET role_id, COMMIT: no row, nothing to update.
UpdateMemberRole(q) ==
  LET o == req[q].org
      t == req[q].target IN
  /\ pc[q] = "write"
  /\ req[q].op = "assign"
  /\ Writable(q)
  /\ kind' = [kind EXCEPT ![o][t] = IF @ = None THEN None ELSE req[q].role]
  /\ Answer(q) /\ Unlock(q)
  /\ UNCHANGED <<orgVars, invVars, expired, scan>>

-----------------------------------------------------------------------------
(* Invite and RotateInvite *)

\* Mutant: personal organizations are not refused.
CheckTypeAny(q) ==
  /\ pc[q] = "type"
  /\ orgStatus[req[q].org] = "active"
  /\ Goto(q, IF req[q].role = "owner" THEN "inviter" ELSE "insert")
  /\ UNCHANGED <<orgVars, kind, invVars, expired, lock, req, seen, scan>>

\* Invite: GetOrganizationType.
CheckType(q) ==
  /\ pc[q] = "type"
  /\ orgStatus[req[q].org] = "active"
  /\ orgType[req[q].org] # "personal"
  /\ Goto(q, IF req[q].role = "owner" THEN "inviter" ELSE "insert")
  /\ UNCHANGED <<orgVars, kind, invVars, expired, lock, req, seen, scan>>

\* RotateInvite: GetInvitationByID, of any status, within the organization.
FindInvitation(q) ==
  LET i == req[q].inv IN
  /\ pc[q] = "find"
  /\ invOrg[i] = req[q].org
  /\ orgStatus[req[q].org] = "active"
  /\ Goto(q, IF invKind[i] = "owner" THEN "inviter" ELSE "insert")
  /\ UNCHANGED <<orgVars, kind, invVars, expired, lock, req, seen, scan>>

\* An invitation to be owner is handed out by an owner.
CheckInviter(q) ==
  /\ pc[q] = "inviter"
  /\ req[q].actor \in Owners(req[q].org)
  /\ Goto(q, "insert")
  /\ UNCHANGED <<orgVars, kind, invVars, expired, lock, req, seen, scan>>

CreateLinkInvitation(q, i) ==
  /\ pc[q] = "insert"
  /\ req[q].op = "invite"
  /\ InsertInvitation(i, req[q].org, req[q].role, i)
  /\ invStatus' = [invStatus EXCEPT ![i] = "active"]
  /\ Answer(q)
  /\ UNCHANGED <<orgVars, kind, expired, lock, scan>>

\* Mutant: the new link is committed and the old one still active.
RotateInvitationKeepsOld(q, i) ==
  LET old == req[q].inv IN
  /\ pc[q] = "insert"
  /\ req[q].op = "rotate"
  /\ invStatus[old] = "active"
  /\ InsertInvitation(i, req[q].org, invKind[old], root[old])
  /\ invStatus' = [invStatus EXCEPT ![i] = "active"]
  /\ Answer(q)
  /\ UNCHANGED <<orgVars, kind, expired, lock, scan>>

\* Mutant: the old link becomes "expired", which no reader expects.
RotateInvitationExpires(q, i) ==
  LET old == req[q].inv IN
  /\ pc[q] = "insert"
  /\ req[q].op = "rotate"
  /\ invStatus[old] = "active"
  /\ InsertInvitation(i, req[q].org, invKind[old], root[old])
  /\ invStatus' = [invStatus EXCEPT ![old] = "expired", ![i] = "active"]
  /\ Answer(q)
  /\ UNCHANGED <<orgVars, kind, expired, lock, scan>>

\* Mutant: the rows RevokeInvitation affected are not counted.
RotateInvitationAny(q, i) ==
  LET old == req[q].inv IN
  /\ pc[q] = "insert"
  /\ req[q].op = "rotate"
  /\ InsertInvitation(i, req[q].org, invKind[old], root[old])
  /\ invStatus' = [invStatus EXCEPT ![old] = IF @ = "active" THEN "revoked" ELSE @,
                                    ![i] = "active"]
  /\ Answer(q)
  /\ UNCHANGED <<orgVars, kind, expired, lock, scan>>

\* RevokeInvitation if still active, CreateLinkInvitation, COMMIT.
RotateInvitation(q, i) ==
  LET old == req[q].inv IN
  /\ pc[q] = "insert"
  /\ req[q].op = "rotate"
  /\ invStatus[old] = "active"
  /\ InsertInvitation(i, req[q].org, invKind[old], root[old])
  /\ invStatus' = [invStatus EXCEPT ![old] = "revoked", ![i] = "active"]
  /\ Answer(q)
  /\ UNCHANGED <<orgVars, kind, expired, lock, scan>>

-----------------------------------------------------------------------------
(* Accept: MarkInvitationAccepted and CreateMembership in one transaction. *)

\* Mutant: the link is marked without AND status = 'active'.
RedeemAny(q) ==
  LET r == req[q] IN
  /\ pc[q] = "redeem"
  /\ kind[r.org][r.actor] = None
  /\ invStatus' = [invStatus EXCEPT ![r.inv] = "accepted"]
  /\ kind' = [kind EXCEPT ![r.org][r.actor] = r.role]
  /\ Answer(q)
  /\ UNCHANGED <<orgVars, invOrg, invKind, root, expired, lock, scan>>

Redeem(q) ==
  LET r == req[q] IN
  /\ pc[q] = "redeem"
  /\ invStatus[r.inv] = "active"
  /\ kind[r.org][r.actor] = None
  /\ invStatus' = [invStatus EXCEPT ![r.inv] = "accepted"]
  /\ kind' = [kind EXCEPT ![r.org][r.actor] = r.role]
  /\ Answer(q)
  /\ UNCHANGED <<orgVars, invOrg, invKind, root, expired, lock, scan>>

-----------------------------------------------------------------------------
(* Delete *)

\* GetByID: not deleted and not personal.
GetOrganization(q) ==
  /\ pc[q] = "get"
  /\ orgStatus[req[q].org] # "deleted"
  /\ orgType[req[q].org] # "personal"
  /\ Goto(q, "select")
  /\ UNCHANGED <<orgVars, kind, invVars, expired, lock, req, seen, scan>>

\* SoftDelete: the snapshot of its one statement.
SelectInvitations(q) ==
  /\ pc[q] = "select"
  /\ scan' = [scan EXCEPT ![q] =
                {i \in Invitation : invOrg[i] = req[q].org /\ invStatus[i] = "active"}]
  /\ Goto(q, "delete")
  /\ UNCHANGED <<orgVars, kind, invVars, expired, lock, req, seen>>

\* Both UPDATEs commit: the organization is deleted, the invitations that
\* were selected and are still active are revoked.
SoftDelete(q) ==
  /\ pc[q] = "delete"
  /\ orgStatus' = [orgStatus EXCEPT ![req[q].org] = "deleted"]
  /\ invStatus' = [i \in Invitation |->
                     IF i \in scan[q] /\ invStatus[i] = "active"
                       THEN "revoked" ELSE invStatus[i]]
  /\ scan' = [scan EXCEPT ![q] = {}]
  /\ Answer(q)
  /\ UNCHANGED <<orgType, kind, invOrg, invKind, root, expired, lock>>

-----------------------------------------------------------------------------
(* Refusals, failures, time *)

\* A check fails after the permission check passed: 4xx, nothing written.
Refuse(q) ==
  LET r == req[q] IN
  /\ \/ pc[q] = "read" /\ kind[r.org][r.target] = None
     \/ pc[q] \in {"status", "type", "find"} /\ orgStatus[r.org] # "active"
     \/ pc[q] \in {"actor", "inviter"} /\ r.actor \notin Owners(r.org)
     \/ pc[q] \in {"type", "get"} /\ orgType[r.org] = "personal"
     \/ pc[q] = "find" /\ invOrg[r.inv] # r.org
     \/ pc[q] = "get" /\ orgStatus[r.org] = "deleted"
     \/ pc[q] = "insert" /\ r.op = "rotate" /\ invStatus[r.inv] # "active"
     \/ pc[q] = "redeem" /\ invStatus[r.inv] # "active"
     \/ pc[q] = "redeem" /\ kind[r.org][r.actor] # None
  /\ Answer(q)
  /\ UNCHANGED <<orgVars, kind, invVars, expired, lock, scan>>

\* A statement fails (database error, deadlock victim, cancelled context):
\* the transaction rolls back.
Fail(q) ==
  /\ pc[q] # "idle"
  /\ Answer(q) /\ Unlock(q)
  /\ scan' = [scan EXCEPT ![q] = {}]
  /\ UNCHANGED <<orgVars, kind, invVars, expired>>

Expire(i) ==
  /\ invStatus[i] # "absent" /\ i \notin expired
  /\ expired' = expired \cup {i}
  /\ UNCHANGED <<orgVars, kind, invVars, lock, localVars>>

-----------------------------------------------------------------------------
(* Next-state relation *)

Arrive(q) ==
  \/ \E r \in Authorized : Authorize(q, r)
  \/ \E r \in Leaves : LeaveBegin(q, r)
  \/ \E r \in Accepts : AcceptBegin(q, r)

\* Steps that may have to wait for a membership row.
Wait(q) ==
  \/ \E u \in User : LockOwner(q, u)
  \/ RemoveMember(q) \/ UpdateMemberRole(q)

Proceed(q) ==
  \/ ReadTarget(q) \/ CheckStatus(q) \/ CheckActor(q)
  \/ SelectOwners(q) \/ CountOwners(q)
  \/ CheckType(q) \/ FindInvitation(q) \/ CheckInviter(q)
  \/ \E i \in Invitation : CreateLinkInvitation(q, i) \/ RotateInvitation(q, i)
  \/ Redeem(q)
  \/ GetOrganization(q) \/ SelectInvitations(q) \/ SoftDelete(q)
  \/ Refuse(q)

Next ==
  \/ \E o \in Org, type \in {"personal", "business"}, u \in User :
       Bootstrap(o, type, u)
  \/ \E q \in Request : Arrive(q) \/ Wait(q) \/ Proceed(q) \/ Fail(q)
  \/ \E i \in Invitation : Expire(i)

Spec == Init /\ [][Next]_vars

\* The holders of the rows that p asks for, when it can only wait.
Blockers(p) ==
  LET o == req[p].org IN
  IF pc[p] = "lock" THEN {lock[o][u] : u \in scan[p]}
  ELSE IF pc[p] = "write" /\ ~ Writable(p) THEN {lock[o][req[p].target]}
  ELSE {}

\* Some wait for each other, in a circle that nobody outside can open.
Deadlocked(q) ==
  \E S \in SUBSET Request :
    q \in S /\ \A p \in S : Blockers(p) # {} /\ Blockers(p) \subseteq S

\* PostgreSQL fails one of them after deadlock_timeout.
DeadlockVictim(q) == Deadlocked(q) /\ Fail(q)

\* A goroutine that can run does, PostgreSQL does not pass a waiter for a row
\* lock over for ever, and ends deadlocks.  Nothing is assumed of other
\* failures, except that an insert fails when the bound on ids is reached.
OutOfIds(q) ==
  /\ \A i \in Invitation : invStatus[i] # "absent"
  /\ pc[q] = "insert"
  /\ Fail(q)

Fairness ==
  \A q \in Request :
    /\ SF_vars(Wait(q))
    /\ WF_vars(Proceed(q))
    /\ WF_vars(OutOfIds(q))
    /\ WF_vars(DeadlockVictim(q))

FairSpec == Spec /\ Fairness

-----------------------------------------------------------------------------
(* Properties *)

\* Who acts on a count of the owners acts on one that is still true: when
\* the row is written, two owners exist whose rows this transaction holds
\* (CountActiveOwners, repository.go:118-140).
CountStillTrue ==
  \A q \in Request :
    pc[q] = "write" /\ NeedsCount(req[q], seen[q]) =>
      \E u, v \in Owners(req[q].org) :
        u # v /\ lock[req[q].org][u] = q /\ lock[req[q].org][v] = q

\* Hence an organization is left without owner only by a request that read
\* its target as a plain member, before somebody made the target owner.
OwnersLostOnlyByStaleRead ==
  [][\A o \in Org :
       Owners(o) # {} /\ Owners(o)' = {} =>
         \E q \in Request :
           /\ pc[q] = "write" /\ req[q].org = o
           /\ seen[q] # "owner" /\ req[q].target \in Owners(o)]_vars

\* A personal organization is its owner's alone, and for ever: no sequence of
\* requests deletes it, lets someone else in, or takes its owner's role.
PersonalOrgSealed ==
  \A o \in Org :
    orgType[o] = "personal" =>
      /\ orgStatus[o] = "active"
      /\ \E u \in User : kind[o] = [v \in User |-> IF v = u THEN "owner" ELSE None]
      /\ \A i \in Invitation : invOrg[i] # o

\* Nobody becomes a member but by founding the organization or by using up
\* an active invitation to it, in the same step and for the invited role;
\* and no invitation is used up without admitting exactly one member.
Admits(i, o, u) ==
  /\ invStatus[i] = "active" /\ invOrg[i] = o
  /\ kind[o][u] = None /\ kind'[o][u] = invKind[i]

AdmittedByInvitation ==
  [][/\ \A o \in Org, u \in User :
          kind[o][u] = None /\ kind'[o][u] # None /\ orgStatus[o] # "absent"
            => \E i \in Invitation : Admits(i, o, u) /\ invStatus'[i] = "accepted"
     /\ \A i \in Invitation :
          invStatus[i] # "accepted" /\ invStatus'[i] = "accepted"
            => \E o \in Org, u \in User : Admits(i, o, u)]_vars

\* However many requests rotate a link at once, one of its descendants at
\* most is active (000001_init_schema.up.sql, "only one ACTIVE token per
\* lineage").
OneActivePerLineage ==
  \A i, j \in Invitation :
    invStatus[i] = "active" /\ invStatus[j] = "active" /\ root[i] = root[j]
      => i = j

\* The active link of every lineage, for the abstract specification.
ActiveLink ==
  [f \in Invitation |->
     IF \E i \in Invitation : invStatus[i] = "active" /\ root[i] = f
       THEN CHOOSE i \in Invitation : invStatus[i] = "active" /\ root[i] = f
       ELSE None]

Links == INSTANCE TokenFamily
           WITH Token <- Invitation,
                issued <- {i \in Invitation : invStatus[i] # "absent"},
                usable <- ActiveLink

\* Links keep the promise refresh tokens keep: a lineage is born with one
\* active link, which rotation exchanges for a fresh one; redeemed, or revoked
\* with its organization, the lineage has no active link ever again, whatever
\* rotations were under way (RotateInvite, repository.go:75-91).
LinksImplementTokenFamily == Links!FSpec

\* Every request is answered: those that count, remove and demote owners at
\* the same time may wait for each other's rows, but not for ever.
RequestsAnswered ==
  \A q \in Request : pc[q] # "idle" ~> pc[q] = "idle"

-----------------------------------------------------------------------------
(* What the documents say of the program, and the code does not do *)

\* THREAT_MODEL.md, "the last owner cannot be removed, demoted or leave".
LastOwnerStays ==
  \A o \in Org : orgStatus[o] = "active" => Owners(o) # {}

\* regression_org_test.go, "pending invitations cannot be redeemed
\* afterwards": nobody joins an organization that is deleted.
NobodyJoinsDeletedOrg ==
  [][\A o \in Org, u \in User :
       orgStatus[o] = "deleted" /\ kind[o][u] = None => kind'[o][u] = None]_vars

=============================================================================
