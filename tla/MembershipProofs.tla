-------------------------- MODULE MembershipProofs --------------------------
(* Proofs about Membership, for every value of its constants.              *)
EXTENDS Membership, TLAPS

-----------------------------------------------------------------------------
(* Types, and which fields a request has at each of its steps              *)

OwnerStep == {"read", "status", "actor", "count", "lock", "write"}

OwnerRequest(r) ==
  /\ r.target \in User
  /\ \/ r.op \in {"remove", "leave"} /\ r.role = None
     \/ r.op = "assign" /\ r.role \in Kind

InviteRequest(r) == r.op = "invite" /\ r.role \in Kind

RotateRequest(r) == r.op = "rotate" /\ r.inv \in Invitation

Shape ==
  \A q \in Request :
    /\ pc[q] # "idle" => req[q].org \in Org /\ req[q].actor \in User
    /\ pc[q] \in OwnerStep => OwnerRequest(req[q])
    /\ pc[q] = "status" => req[q].op = "leave"
    /\ pc[q] = "actor" => req[q].op # "leave"
    /\ pc[q] = "type" => InviteRequest(req[q])
    /\ pc[q] = "find" => RotateRequest(req[q])
    /\ pc[q] \in {"inviter", "insert"} =>
         InviteRequest(req[q]) \/ RotateRequest(req[q])
    /\ pc[q] = "redeem" => req[q].inv \in Invitation /\ req[q].role \in Kind

TypeInv == TypeOK /\ Shape

LEMMA AuthorizedFields ==
  ASSUME NEW r \in Authorized
  PROVE  /\ r \in Requests /\ r.org \in Org /\ r.actor \in User
         /\ \/ /\ r.op \in {"remove", "assign"} /\ FirstStep[r.op] = "read"
               /\ OwnerRequest(r)
            \/ FirstStep[r.op] = "type" /\ InviteRequest(r)
            \/ FirstStep[r.op] = "find" /\ RotateRequest(r)
            \/ r.op = "delete" /\ FirstStep[r.op] = "get"
<1>1. CASE r \in Removals
  BY <1>1 DEF Removals, Target, Requests, Authorized, FirstStep, OwnerRequest
<1>2. CASE r \in Assignments
  BY <1>2 DEF Assignments, Requests, Authorized, FirstStep, OwnerRequest
<1>3. CASE r \in Invites
  BY <1>3 DEF Invites, Requests, Authorized, FirstStep, InviteRequest
<1>4. CASE r \in Rotations
  BY <1>4 DEF Rotations, Requests, Authorized, FirstStep, RotateRequest
<1>5. CASE r \in Deletes
  BY <1>5 DEF Deletes, Requests, Authorized, FirstStep
<1>6. QED
  BY <1>1, <1>2, <1>3, <1>4, <1>5 DEF Authorized

LEMMA OtherFields ==
  /\ \A r \in Leaves : /\ r \in Requests /\ r.org \in Org /\ r.actor \in User
                       /\ r.op = "leave" /\ OwnerRequest(r)
  /\ \A r \in Accepts : /\ r \in Requests /\ r.org \in Org /\ r.actor \in User
                        /\ r.inv \in Invitation /\ r.role \in Kind
  BY DEF Leaves, Target, Accepts, Requests, OwnerRequest

LEMMA InitTypeInv == Init => TypeInv
  BY NoneAssumption DEF Init, TypeInv, TypeOK, Shape, PC, OwnerStep

\* Types and request shapes are preserved by every step.
LEMMA NextTypeInv == TypeInv /\ [Next]_vars => TypeInv'
<1> SUFFICES ASSUME TypeInv, [Next]_vars PROVE TypeInv'
  OBVIOUS
<1> USE NoneAssumption, KindAssumption DEF TypeInv
<1>1. ASSUME NEW o \in Org, NEW type \in {"personal", "business"}, NEW u \in User, Bootstrap(o, type, u) PROVE TypeInv'
  <2> USE <1>1 DEF Bootstrap
  <2>1. TypeOK'
    BY DEF TypeOK, PC, Answer, Unlock, Goto, orgVars, invVars, localVars
  <2>2. Shape'
    BY DEF Shape, TypeOK, Answer, Goto, OwnerStep, localVars
  <2>3. QED
    BY <2>1, <2>2
<1>2. ASSUME NEW q \in Request, NEW r \in Authorized, Authorize(q, r) PROVE TypeInv'
  <2> USE <1>2 DEF Authorize
  <2>1. TypeOK'
    BY AuthorizedFields DEF TypeOK, PC, Answer, Unlock, Goto, orgVars, invVars, localVars
  <2>2. Shape'
    BY AuthorizedFields DEF Shape, TypeOK, Answer, Goto, OwnerStep, localVars
  <2>3. QED
    BY <2>1, <2>2
<1>3. ASSUME NEW q \in Request, NEW r \in Leaves, LeaveBegin(q, r) PROVE TypeInv'
  <2> USE <1>3 DEF LeaveBegin
  <2>1. TypeOK'
    BY OtherFields DEF TypeOK, PC, Answer, Unlock, Goto, orgVars, invVars, localVars
  <2>2. Shape'
    BY OtherFields DEF Shape, TypeOK, Answer, Goto, OwnerStep, localVars
  <2>3. QED
    BY <2>1, <2>2
<1>4. ASSUME NEW q \in Request, NEW r \in Accepts, AcceptBegin(q, r) PROVE TypeInv'
  <2> USE <1>4 DEF AcceptBegin
  <2>1. TypeOK'
    BY OtherFields DEF TypeOK, PC, Answer, Unlock, Goto, orgVars, invVars, localVars
  <2>2. Shape'
    BY OtherFields DEF Shape, TypeOK, Answer, Goto, OwnerStep, localVars
  <2>3. QED
    BY <2>1, <2>2
<1>5. ASSUME NEW q \in Request, NEW u \in User, LockOwner(q, u) PROVE TypeInv'
  <2> USE <1>5 DEF LockOwner
  <2>1. TypeOK'
    <3>1. req[q].org \in Org
      BY DEF Shape
    <3>2. lock' \in [Org -> [User -> Request \cup {None}]]
      BY <3>1 DEF TypeOK
    <3>3. QED
      BY <3>2 DEF TypeOK, PC, orgVars, invVars
  <2>2. Shape'
    BY DEF Shape, TypeOK, OwnerStep
  <2>3. QED
    BY <2>1, <2>2
<1>5a. ASSUME NEW q \in Request, CountOwners(q) PROVE TypeInv'
  <2> USE <1>5a DEF CountOwners
  <2>1. TypeOK'
    <3>1. lock' \in [Org -> [User -> Request \cup {None}]]
      BY DEF TypeOK, Unlock
    <3>2. /\ pc' \in [Request -> PC] /\ req' \in [Request -> Requests \cup {None}]
          /\ seen' \in [Request -> Kind \cup {None}]
      <4>1. CASE Answer(q)
        BY <4>1 DEF TypeOK, PC, Answer, Goto
      <4>2. CASE Goto(q, "write") /\ UNCHANGED <<req, seen>>
        BY <4>2 DEF TypeOK, PC, Goto
      <4>3. QED
        BY <4>1, <4>2
    <3>3. QED
      BY <3>1, <3>2 DEF TypeOK, orgVars, invVars
  <2>2. Shape'
    BY DEF Shape, TypeOK, Answer, Goto, OwnerStep
  <2>3. QED
    BY <2>1, <2>2
<1>6. ASSUME NEW q \in Request, RemoveMember(q) PROVE TypeInv'
  <2> USE <1>6 DEF RemoveMember
  <2>1. TypeOK'
    BY DEF TypeOK, PC, Answer, Unlock, Goto, orgVars, invVars, localVars
  <2>2. Shape'
    BY DEF Shape, TypeOK, Answer, Goto, OwnerStep, localVars
  <2>3. QED
    BY <2>1, <2>2
<1>7. ASSUME NEW q \in Request, UpdateMemberRole(q) PROVE TypeInv'
  <2> USE <1>7 DEF UpdateMemberRole
  <2>1. TypeOK'
    <3>1. req[q].role \in Kind
      BY DEF Shape, OwnerStep, OwnerRequest
    <3>2. kind' \in [Org -> [User -> Kind \cup {None}]]
      BY <3>1 DEF TypeOK
    <3>3. QED
      BY <3>1, <3>2 DEF TypeOK, PC, Answer, Unlock, Goto, orgVars, invVars, localVars
  <2>2. Shape'
    BY DEF Shape, TypeOK, Answer, Goto, OwnerStep, localVars
  <2>3. QED
    BY <2>1, <2>2
<1>8. ASSUME NEW q \in Request, ReadTarget(q) PROVE TypeInv'
  <2> USE <1>8 DEF ReadTarget
  <2>1. TypeOK'
    <3>1. kind[req[q].org][req[q].target] \in Kind
      BY DEF TypeOK, Shape, OwnerStep, OwnerRequest
    <3>2. QED
      BY <3>1 DEF TypeOK, PC, Answer, Unlock, Goto, orgVars, invVars, localVars
  <2>2. Shape'
    BY DEF Shape, TypeOK, Answer, Goto, OwnerStep, localVars
  <2>3. QED
    BY <2>1, <2>2
<1>9. ASSUME NEW q \in Request, CheckStatus(q) PROVE TypeInv'
  <2> USE <1>9 DEF CheckStatus
  <2>1. TypeOK'
    BY DEF TypeOK, PC, Answer, Unlock, Goto, orgVars, invVars, localVars
  <2>2. Shape'
    BY DEF Shape, TypeOK, Answer, Goto, OwnerStep, localVars
  <2>3. QED
    BY <2>1, <2>2
<1>10. ASSUME NEW q \in Request, CheckActor(q) PROVE TypeInv'
  <2> USE <1>10 DEF CheckActor
  <2>1. TypeOK'
    BY DEF TypeOK, PC, Answer, Unlock, Goto, orgVars, invVars, localVars
  <2>2. Shape'
    BY DEF Shape, TypeOK, Answer, Goto, OwnerStep, localVars
  <2>3. QED
    BY <2>1, <2>2
<1>11. ASSUME NEW q \in Request, SelectOwners(q) PROVE TypeInv'
  <2> USE <1>11 DEF SelectOwners
  <2>1. TypeOK'
    BY DEF TypeOK, PC, Answer, Unlock, Goto, orgVars, invVars, localVars, Owners
  <2>2. Shape'
    BY DEF Shape, TypeOK, Answer, Goto, OwnerStep, localVars
  <2>3. QED
    BY <2>1, <2>2
<1>12. ASSUME NEW q \in Request, CheckType(q) PROVE TypeInv'
  <2> USE <1>12 DEF CheckType
  <2>1. TypeOK'
    BY DEF TypeOK, PC, Answer, Unlock, Goto, orgVars, invVars, localVars
  <2>2. Shape'
    BY DEF Shape, TypeOK, Answer, Goto, OwnerStep, localVars
  <2>3. QED
    BY <2>1, <2>2
<1>13. ASSUME NEW q \in Request, FindInvitation(q) PROVE TypeInv'
  <2> USE <1>13 DEF FindInvitation
  <2>1. TypeOK'
    BY DEF TypeOK, PC, Answer, Unlock, Goto, orgVars, invVars, localVars
  <2>2. Shape'
    BY DEF Shape, TypeOK, Answer, Goto, OwnerStep, localVars
  <2>3. QED
    BY <2>1, <2>2
<1>14. ASSUME NEW q \in Request, CheckInviter(q) PROVE TypeInv'
  <2> USE <1>14 DEF CheckInviter
  <2>1. TypeOK'
    BY DEF TypeOK, PC, Answer, Unlock, Goto, orgVars, invVars, localVars
  <2>2. Shape'
    BY DEF Shape, TypeOK, Answer, Goto, OwnerStep, localVars
  <2>3. QED
    BY <2>1, <2>2
<1>15. ASSUME NEW q \in Request, NEW i \in Invitation, CreateLinkInvitation(q, i) PROVE TypeInv'
  <2> USE <1>15 DEF CreateLinkInvitation
  <2>1. TypeOK'
    BY DEF TypeOK, PC, Answer, Unlock, Goto, orgVars, invVars, localVars, Shape, InsertInvitation, InviteRequest, RotateRequest
  <2>2. Shape'
    BY DEF Shape, TypeOK, Answer, Goto, OwnerStep, localVars
  <2>3. QED
    BY <2>1, <2>2
<1>16. ASSUME NEW q \in Request, NEW i \in Invitation, RotateInvitation(q, i) PROVE TypeInv'
  <2> USE <1>16 DEF RotateInvitation
  <2>1. TypeOK'
    BY DEF TypeOK, PC, Answer, Unlock, Goto, orgVars, invVars, localVars, Shape, InsertInvitation, InviteRequest, RotateRequest
  <2>2. Shape'
    BY DEF Shape, TypeOK, Answer, Goto, OwnerStep, localVars
  <2>3. QED
    BY <2>1, <2>2
<1>17. ASSUME NEW q \in Request, Redeem(q) PROVE TypeInv'
  <2> USE <1>17 DEF Redeem
  <2>1. TypeOK'
    <3>1. req[q].role \in Kind
      BY DEF Shape
    <3>2. kind' \in [Org -> [User -> Kind \cup {None}]]
      BY <3>1 DEF TypeOK
    <3>3. invStatus' \in [Invitation -> {"absent", "active", "revoked", "accepted"}]
      BY DEF TypeOK
    <3>4. QED
      BY <3>1, <3>2, <3>3 DEF TypeOK, PC, Answer, Unlock, Goto, orgVars, invVars, localVars
  <2>2. Shape'
    BY DEF Shape, TypeOK, Answer, Goto, OwnerStep, localVars
  <2>3. QED
    BY <2>1, <2>2
<1>18. ASSUME NEW q \in Request, GetOrganization(q) PROVE TypeInv'
  <2> USE <1>18 DEF GetOrganization
  <2>1. TypeOK'
    BY DEF TypeOK, PC, Answer, Unlock, Goto, orgVars, invVars, localVars
  <2>2. Shape'
    BY DEF Shape, TypeOK, Answer, Goto, OwnerStep, localVars
  <2>3. QED
    BY <2>1, <2>2
<1>19. ASSUME NEW q \in Request, SelectInvitations(q) PROVE TypeInv'
  <2> USE <1>19 DEF SelectInvitations
  <2>1. TypeOK'
    BY DEF TypeOK, PC, Answer, Unlock, Goto, orgVars, invVars, localVars
  <2>2. Shape'
    BY DEF Shape, TypeOK, Answer, Goto, OwnerStep, localVars
  <2>3. QED
    BY <2>1, <2>2
<1>20. ASSUME NEW q \in Request, SoftDelete(q) PROVE TypeInv'
  <2> USE <1>20 DEF SoftDelete
  <2>1. TypeOK'
    BY DEF TypeOK, PC, Answer, Unlock, Goto, orgVars, invVars, localVars
  <2>2. Shape'
    BY DEF Shape, TypeOK, Answer, Goto, OwnerStep, localVars
  <2>3. QED
    BY <2>1, <2>2
<1>21. ASSUME NEW q \in Request, Refuse(q) PROVE TypeInv'
  <2> USE <1>21 DEF Refuse
  <2>1. TypeOK'
    BY DEF TypeOK, PC, Answer, Unlock, Goto, orgVars, invVars, localVars
  <2>2. Shape'
    BY DEF Shape, TypeOK, Answer, Goto, OwnerStep, localVars
  <2>3. QED
    BY <2>1, <2>2
<1>22. ASSUME NEW q \in Request, Fail(q) PROVE TypeInv'
  <2> USE <1>22 DEF Fail
  <2>1. TypeOK'
    BY DEF TypeOK, PC, Answer, Unlock, Goto, orgVars, invVars, localVars
  <2>2. Shape'
    BY DEF Shape, TypeOK, Answer, Goto, OwnerStep, localVars
  <2>3. QED
    BY <2>1, <2>2
<1>23. ASSUME NEW i \in Invitation, Expire(i) PROVE TypeInv'
  <2> USE <1>23 DEF Expire
  <2>1. TypeOK'
    BY DEF TypeOK, PC, Answer, Unlock, Goto, orgVars, invVars, localVars
  <2>2. Shape'
    BY DEF Shape, TypeOK, Answer, Goto, OwnerStep, localVars
  <2>3. QED
    BY <2>1, <2>2
<1>24. CASE UNCHANGED vars
  BY <1>24 DEF vars, TypeInv, TypeOK, Shape
<1>25. QED
  BY <1>1, <1>2, <1>3, <1>4, <1>5, <1>5a, <1>6, <1>7, <1>8, <1>9, <1>10, <1>11, <1>12,
     <1>13, <1>14, <1>15, <1>16, <1>17, <1>18, <1>19, <1>20, <1>21, <1>22, <1>23, <1>24
     DEF Next, Arrive, Wait, Proceed

\* Every variable keeps its type: the service only writes statuses and role
\* kinds that its readers know.
THEOREM TypeCorrect == Spec => []TypeOK
<1>1. TypeInv => TypeOK
  BY DEF TypeInv
<1>2. QED
  BY InitTypeInv, NextTypeInv, <1>1, PTL DEF Spec

-----------------------------------------------------------------------------
(* Owners are counted under lock                                           *)

\* Only a request that counts the owners, or has counted them and is about to
\* write, holds row locks, on its own organization.
LockInv ==
  \A o \in Org, u \in User, q \in Request :
    lock[o][u] = q => pc[q] \in {"lock", "write"} /\ req[q].org = o

\* CountStillTrue, taken apart: q is about to write on the strength of a
\* count, and holds two owners.
ActsOnCount(q) == pc[q] = "write" /\ NeedsCount(req[q], seen[q])

HoldsTwo(q) ==
  \E u, v \in Owners(req[q].org) :
    u # v /\ lock[req[q].org][u] = q /\ lock[req[q].org][v] = q

CountInv == LockInv /\ CountStillTrue

\* What all goroutines but q know and do.
OthersIdle(q) ==
  \A p \in Request \ {q} : pc'[p] = pc[p] /\ req'[p] = req[p] /\ seen'[p] = seen[p]

\* A request far from its write, or one that needs no count, that takes no
\* owner away and no lock, preserves what the others know.
LEMMA QuietStep ==
  ASSUME TypeInv, CountInv, NEW q \in Request, OthersIdle(q),
         pc[q] \notin {"lock", "write"},
         ~ActsOnCount(q)',
         UNCHANGED lock, \A o \in Org : Owners(o) \subseteq Owners(o)'
  PROVE  CountInv'
<1>1. LockInv'
  BY DEF CountInv, LockInv, OthersIdle
<1>2. ASSUME NEW p \in Request, ActsOnCount(p)' PROVE HoldsTwo(p)'
  <2>1. p # q
    BY <1>2
  <2>2. ActsOnCount(p) /\ req'[p] = req[p]
    BY <1>2, <2>1 DEF OthersIdle, ActsOnCount, NeedsCount
  <2>3. req[p].org \in Org
    BY <2>2 DEF TypeInv, Shape, ActsOnCount
  <2>4. PICK u, v \in Owners(req[p].org) :
          u # v /\ lock[req[p].org][u] = p /\ lock[req[p].org][v] = p
    BY <2>2 DEF CountInv, CountStillTrue, ActsOnCount
  <2>5. QED
    BY <2>2, <2>3, <2>4 DEF HoldsTwo, Owners
<1>3. QED
  BY <1>1, <1>2 DEF CountInv, CountStillTrue, ActsOnCount, HoldsTwo

\* The holder q of row locks writes one membership it may write, and unlocks.
LEMMA WriteStep ==
  ASSUME TypeInv, CountInv, NEW q \in Request, OthersIdle(q),
         pc[q] = "write", pc'[q] = "idle", Writable(q), Unlock(q),
         \A o \in Org, u \in User :
           o # req[q].org \/ u # req[q].target => kind'[o][u] = kind[o][u]
  PROVE  CountInv'
<1> USE NoneAssumption
<1>1. \A o \in Org, u \in User :
        lock'[o][u] = IF lock[o][u] = q THEN None ELSE lock[o][u]
  BY DEF Unlock
<1>2. LockInv'
  BY <1>1 DEF CountInv, LockInv, OthersIdle
<1>3. ASSUME NEW p \in Request, ActsOnCount(p)' PROVE HoldsTwo(p)'
  <2>1. p # q
    BY <1>3 DEF ActsOnCount
  <2>2. ActsOnCount(p) /\ req'[p] = req[p]
    BY <1>3, <2>1 DEF OthersIdle, ActsOnCount, NeedsCount
  <2>3. req[p].org \in Org
    BY <2>2 DEF TypeInv, Shape, ActsOnCount
  <2>4. PICK u, v \in Owners(req[p].org) :
          u # v /\ lock[req[p].org][u] = p /\ lock[req[p].org][v] = p
    BY <2>2 DEF CountInv, CountStillTrue, ActsOnCount
  <2>5. u \in User /\ v \in User
    BY <2>4 DEF Owners
  <2>6. lock'[req[p].org][u] = p /\ lock'[req[p].org][v] = p
    BY <1>1, <2>1, <2>3, <2>4, <2>5
  <2>7. \A w \in User : lock[req[p].org][w] = p =>
                          kind'[req[p].org][w] = kind[req[p].org][w]
    BY <2>1, <2>3 DEF Writable
  <2>8. u \in Owners(req[p].org)' /\ v \in Owners(req[p].org)'
    BY <2>2, <2>4, <2>5, <2>7 DEF Owners
  <2>9. QED
    BY <2>2, <2>4, <2>5, <2>6, <2>8 DEF HoldsTwo, Owners
<1>4. QED
  BY <1>2, <1>3 DEF CountInv, CountStillTrue, ActsOnCount, HoldsTwo

\* q gives up and unlocks.
LEMMA EndStep ==
  ASSUME TypeInv, CountInv, NEW q \in Request, OthersIdle(q),
         pc'[q] = "idle", Unlock(q), UNCHANGED kind
  PROVE  CountInv'
<1> USE NoneAssumption
<1>1. \A o \in Org, u \in User :
        lock'[o][u] = IF lock[o][u] = q THEN None ELSE lock[o][u]
  BY DEF Unlock
<1>2. LockInv'
  BY <1>1 DEF CountInv, LockInv, OthersIdle
<1>3. CountStillTrue'
  BY <1>1 DEF CountInv, CountStillTrue, OthersIdle, Owners, TypeInv, Shape
<1>4. QED
  BY <1>2, <1>3 DEF CountInv

\* The count and its locks are inductive relative to the types.
LEMMA NextCountInv == TypeInv /\ CountInv /\ [Next]_vars => CountInv'
<1> SUFFICES ASSUME TypeInv, CountInv, [Next]_vars PROVE CountInv'
  OBVIOUS
<1> USE NoneAssumption, KindAssumption
<1>1. ASSUME NEW o \in Org, NEW type \in {"personal", "business"}, NEW u \in User,
             Bootstrap(o, type, u)
      PROVE  CountInv'
  BY <1>1 DEF Bootstrap, CountInv, LockInv, CountStillTrue, Owners, localVars, TypeInv, TypeOK
<1>2. ASSUME NEW q \in Request, NEW r \in Authorized, Authorize(q, r) PROVE CountInv'
  <2>1. OthersIdle(q) /\ pc[q] \notin {"lock", "write"} /\ UNCHANGED lock
    BY <1>2 DEF Authorize, OthersIdle, Goto, Answer, TypeInv, TypeOK
  <2>2. ~ActsOnCount(q)'
    BY <1>2, AuthorizedFields DEF Authorize, Goto, Answer, NeedsOwner, NeedsCount, ActsOnCount, TypeInv, TypeOK, Shape
  <2>3. \A o \in Org : Owners(o) \subseteq Owners(o)'
    BY <1>2 DEF Authorize, Owners, TypeInv, TypeOK
  <2>4. QED
    BY <2>1, <2>2, <2>3, QuietStep
<1>3. ASSUME NEW q \in Request, NEW r \in Leaves, LeaveBegin(q, r) PROVE CountInv'
  <2>1. OthersIdle(q) /\ pc[q] \notin {"lock", "write"} /\ UNCHANGED lock
    BY <1>3 DEF LeaveBegin, OthersIdle, Goto, Answer, TypeInv, TypeOK
  <2>2. ~ActsOnCount(q)'
    BY <1>3 DEF LeaveBegin, Goto, Answer, NeedsOwner, NeedsCount, ActsOnCount, TypeInv, TypeOK, Shape
  <2>3. \A o \in Org : Owners(o) \subseteq Owners(o)'
    BY <1>3 DEF LeaveBegin, Owners, TypeInv, TypeOK
  <2>4. QED
    BY <2>1, <2>2, <2>3, QuietStep
<1>4. ASSUME NEW q \in Request, NEW r \in Accepts, AcceptBegin(q, r) PROVE CountInv'
  <2>1. OthersIdle(q) /\ pc[q] \notin {"lock", "write"} /\ UNCHANGED lock
    BY <1>4 DEF AcceptBegin, OthersIdle, Goto, Answer, TypeInv, TypeOK
  <2>2. ~ActsOnCount(q)'
    BY <1>4 DEF AcceptBegin, Goto, Answer, NeedsOwner, NeedsCount, ActsOnCount, TypeInv, TypeOK, Shape
  <2>3. \A o \in Org : Owners(o) \subseteq Owners(o)'
    BY <1>4 DEF AcceptBegin, Owners, TypeInv, TypeOK
  <2>4. QED
    BY <2>1, <2>2, <2>3, QuietStep
<1>5. ASSUME NEW q \in Request, ReadTarget(q) PROVE CountInv'
  <2>1. OthersIdle(q) /\ pc[q] \notin {"lock", "write"} /\ UNCHANGED lock
    BY <1>5 DEF ReadTarget, OthersIdle, Goto, Answer, TypeInv, TypeOK
  <2>2. ~ActsOnCount(q)'
    BY <1>5 DEF ReadTarget, Goto, Answer, NeedsOwner, NeedsCount, ActsOnCount, TypeInv, TypeOK, Shape
  <2>3. \A o \in Org : Owners(o) \subseteq Owners(o)'
    BY <1>5 DEF ReadTarget, Owners, TypeInv, TypeOK
  <2>4. QED
    BY <2>1, <2>2, <2>3, QuietStep
<1>6. ASSUME NEW q \in Request, CheckStatus(q) PROVE CountInv'
  <2>1. OthersIdle(q) /\ pc[q] \notin {"lock", "write"} /\ UNCHANGED lock
    BY <1>6 DEF CheckStatus, OthersIdle, Goto, Answer, TypeInv, TypeOK
  <2>2. ~ActsOnCount(q)'
    BY <1>6 DEF CheckStatus, Goto, Answer, NeedsOwner, NeedsCount, ActsOnCount, TypeInv, TypeOK, Shape
  <2>3. \A o \in Org : Owners(o) \subseteq Owners(o)'
    BY <1>6 DEF CheckStatus, Owners, TypeInv, TypeOK
  <2>4. QED
    BY <2>1, <2>2, <2>3, QuietStep
<1>7. ASSUME NEW q \in Request, CheckActor(q) PROVE CountInv'
  <2>1. OthersIdle(q) /\ pc[q] \notin {"lock", "write"} /\ UNCHANGED lock
    BY <1>7 DEF CheckActor, OthersIdle, Goto, Answer, TypeInv, TypeOK
  <2>2. ~ActsOnCount(q)'
    BY <1>7 DEF CheckActor, Goto, Answer, NeedsOwner, NeedsCount, ActsOnCount, TypeInv, TypeOK, Shape
  <2>3. \A o \in Org : Owners(o) \subseteq Owners(o)'
    BY <1>7 DEF CheckActor, Owners, TypeInv, TypeOK
  <2>4. QED
    BY <2>1, <2>2, <2>3, QuietStep
<1>8. ASSUME NEW q \in Request, SelectOwners(q) PROVE CountInv'
  <2>1. OthersIdle(q) /\ pc[q] \notin {"lock", "write"} /\ UNCHANGED lock
    BY <1>8 DEF SelectOwners, OthersIdle, Goto, Answer, TypeInv, TypeOK
  <2>2. ~ActsOnCount(q)'
    BY <1>8 DEF SelectOwners, Goto, Answer, NeedsOwner, NeedsCount, ActsOnCount, TypeInv, TypeOK, Shape
  <2>3. \A o \in Org : Owners(o) \subseteq Owners(o)'
    BY <1>8 DEF SelectOwners, Owners, TypeInv, TypeOK
  <2>4. QED
    BY <2>1, <2>2, <2>3, QuietStep
<1>9. ASSUME NEW q \in Request, CheckType(q) PROVE CountInv'
  <2>1. OthersIdle(q) /\ pc[q] \notin {"lock", "write"} /\ UNCHANGED lock
    BY <1>9 DEF CheckType, OthersIdle, Goto, Answer, TypeInv, TypeOK
  <2>2. ~ActsOnCount(q)'
    BY <1>9 DEF CheckType, Goto, Answer, NeedsOwner, NeedsCount, ActsOnCount, TypeInv, TypeOK, Shape
  <2>3. \A o \in Org : Owners(o) \subseteq Owners(o)'
    BY <1>9 DEF CheckType, Owners, TypeInv, TypeOK
  <2>4. QED
    BY <2>1, <2>2, <2>3, QuietStep
<1>10. ASSUME NEW q \in Request, FindInvitation(q) PROVE CountInv'
  <2>1. OthersIdle(q) /\ pc[q] \notin {"lock", "write"} /\ UNCHANGED lock
    BY <1>10 DEF FindInvitation, OthersIdle, Goto, Answer, TypeInv, TypeOK
  <2>2. ~ActsOnCount(q)'
    BY <1>10 DEF FindInvitation, Goto, Answer, NeedsOwner, NeedsCount, ActsOnCount, TypeInv, TypeOK, Shape
  <2>3. \A o \in Org : Owners(o) \subseteq Owners(o)'
    BY <1>10 DEF FindInvitation, Owners, TypeInv, TypeOK
  <2>4. QED
    BY <2>1, <2>2, <2>3, QuietStep
<1>11. ASSUME NEW q \in Request, CheckInviter(q) PROVE CountInv'
  <2>1. OthersIdle(q) /\ pc[q] \notin {"lock", "write"} /\ UNCHANGED lock
    BY <1>11 DEF CheckInviter, OthersIdle, Goto, Answer, TypeInv, TypeOK
  <2>2. ~ActsOnCount(q)'
    BY <1>11 DEF CheckInviter, Goto, Answer, NeedsOwner, NeedsCount, ActsOnCount, TypeInv, TypeOK, Shape
  <2>3. \A o \in Org : Owners(o) \subseteq Owners(o)'
    BY <1>11 DEF CheckInviter, Owners, TypeInv, TypeOK
  <2>4. QED
    BY <2>1, <2>2, <2>3, QuietStep
<1>12. ASSUME NEW q \in Request, NEW i \in Invitation, CreateLinkInvitation(q, i) PROVE CountInv'
  <2>1. OthersIdle(q) /\ pc[q] \notin {"lock", "write"} /\ UNCHANGED lock
    BY <1>12 DEF CreateLinkInvitation, OthersIdle, Goto, Answer, TypeInv, TypeOK
  <2>2. ~ActsOnCount(q)'
    BY <1>12 DEF CreateLinkInvitation, Goto, Answer, NeedsOwner, NeedsCount, ActsOnCount, TypeInv, TypeOK, Shape
  <2>3. \A o \in Org : Owners(o) \subseteq Owners(o)'
    BY <1>12 DEF CreateLinkInvitation, Owners, TypeInv, TypeOK
  <2>4. QED
    BY <2>1, <2>2, <2>3, QuietStep
<1>13. ASSUME NEW q \in Request, NEW i \in Invitation, RotateInvitation(q, i) PROVE CountInv'
  <2>1. OthersIdle(q) /\ pc[q] \notin {"lock", "write"} /\ UNCHANGED lock
    BY <1>13 DEF RotateInvitation, OthersIdle, Goto, Answer, TypeInv, TypeOK
  <2>2. ~ActsOnCount(q)'
    BY <1>13 DEF RotateInvitation, Goto, Answer, NeedsOwner, NeedsCount, ActsOnCount, TypeInv, TypeOK, Shape
  <2>3. \A o \in Org : Owners(o) \subseteq Owners(o)'
    BY <1>13 DEF RotateInvitation, Owners, TypeInv, TypeOK
  <2>4. QED
    BY <2>1, <2>2, <2>3, QuietStep
<1>14. ASSUME NEW q \in Request, Redeem(q) PROVE CountInv'
  <2>1. OthersIdle(q) /\ pc[q] \notin {"lock", "write"} /\ UNCHANGED lock
    BY <1>14 DEF Redeem, OthersIdle, Goto, Answer, TypeInv, TypeOK
  <2>2. ~ActsOnCount(q)'
    BY <1>14 DEF Redeem, Goto, Answer, NeedsOwner, NeedsCount, ActsOnCount, TypeInv, TypeOK, Shape
  <2>3. \A o \in Org : Owners(o) \subseteq Owners(o)'
    BY <1>14 DEF Redeem, Owners, TypeInv, TypeOK
  <2>4. QED
    BY <2>1, <2>2, <2>3, QuietStep
<1>15. ASSUME NEW q \in Request, GetOrganization(q) PROVE CountInv'
  <2>1. OthersIdle(q) /\ pc[q] \notin {"lock", "write"} /\ UNCHANGED lock
    BY <1>15 DEF GetOrganization, OthersIdle, Goto, Answer, TypeInv, TypeOK
  <2>2. ~ActsOnCount(q)'
    BY <1>15 DEF GetOrganization, Goto, Answer, NeedsOwner, NeedsCount, ActsOnCount, TypeInv, TypeOK, Shape
  <2>3. \A o \in Org : Owners(o) \subseteq Owners(o)'
    BY <1>15 DEF GetOrganization, Owners, TypeInv, TypeOK
  <2>4. QED
    BY <2>1, <2>2, <2>3, QuietStep
<1>16. ASSUME NEW q \in Request, SelectInvitations(q) PROVE CountInv'
  <2>1. OthersIdle(q) /\ pc[q] \notin {"lock", "write"} /\ UNCHANGED lock
    BY <1>16 DEF SelectInvitations, OthersIdle, Goto, Answer, TypeInv, TypeOK
  <2>2. ~ActsOnCount(q)'
    BY <1>16 DEF SelectInvitations, Goto, Answer, NeedsOwner, NeedsCount, ActsOnCount, TypeInv, TypeOK, Shape
  <2>3. \A o \in Org : Owners(o) \subseteq Owners(o)'
    BY <1>16 DEF SelectInvitations, Owners, TypeInv, TypeOK
  <2>4. QED
    BY <2>1, <2>2, <2>3, QuietStep
<1>17. ASSUME NEW q \in Request, SoftDelete(q) PROVE CountInv'
  <2>1. OthersIdle(q) /\ pc[q] \notin {"lock", "write"} /\ UNCHANGED lock
    BY <1>17 DEF SoftDelete, OthersIdle, Goto, Answer, TypeInv, TypeOK
  <2>2. ~ActsOnCount(q)'
    BY <1>17 DEF SoftDelete, Goto, Answer, NeedsOwner, NeedsCount, ActsOnCount, TypeInv, TypeOK, Shape
  <2>3. \A o \in Org : Owners(o) \subseteq Owners(o)'
    BY <1>17 DEF SoftDelete, Owners, TypeInv, TypeOK
  <2>4. QED
    BY <2>1, <2>2, <2>3, QuietStep
<1>18. ASSUME NEW q \in Request, Refuse(q) PROVE CountInv'
  <2>1. OthersIdle(q) /\ pc[q] \notin {"lock", "write"} /\ UNCHANGED lock
    BY <1>18 DEF Refuse, OthersIdle, Goto, Answer, TypeInv, TypeOK
  <2>2. ~ActsOnCount(q)'
    BY <1>18 DEF Refuse, Goto, Answer, NeedsOwner, NeedsCount, ActsOnCount, TypeInv, TypeOK, Shape
  <2>3. \A o \in Org : Owners(o) \subseteq Owners(o)'
    BY <1>18 DEF Refuse, Owners, TypeInv, TypeOK
  <2>4. QED
    BY <2>1, <2>2, <2>3, QuietStep
<1>19. ASSUME NEW q \in Request, NEW u \in User, LockOwner(q, u) PROVE CountInv'
  <2>1. /\ req[q].org \in Org /\ pc[q] = "lock" /\ lock[req[q].org][u] = None
        /\ UNCHANGED <<kind, pc, req, seen>>
    BY <1>19 DEF LockOwner, TypeInv, Shape
  <2>2. \A o \in Org, v \in User :
          lock'[o][v] = IF o = req[q].org /\ v = u THEN q ELSE lock[o][v]
    BY <1>19, <2>1 DEF LockOwner, TypeInv, TypeOK
  <2>3. LockInv'
    BY <2>1, <2>2 DEF CountInv, LockInv
  <2>4. ASSUME NEW p \in Request, ActsOnCount(p)' PROVE HoldsTwo(p)'
    <3>1. ActsOnCount(p) /\ req[p].org \in Org
      BY <2>1, <2>4 DEF ActsOnCount, NeedsCount, TypeInv, Shape
    <3>2. PICK v, w \in Owners(req[p].org) :
            v # w /\ lock[req[p].org][v] = p /\ lock[req[p].org][w] = p
      BY <3>1 DEF CountInv, CountStillTrue, ActsOnCount
    <3>3. lock'[req[p].org][v] = p /\ lock'[req[p].org][w] = p
      BY <2>1, <2>2, <3>1, <3>2 DEF Owners
    <3>4. QED
      BY <2>1, <3>2, <3>3 DEF HoldsTwo, Owners
  <2>5. QED
    BY <2>3, <2>4 DEF CountInv, CountStillTrue, ActsOnCount, HoldsTwo
<1>19a. ASSUME NEW q \in Request, CountOwners(q) PROVE CountInv'
  <2>1. OthersIdle(q) /\ UNCHANGED kind
    BY <1>19a DEF CountOwners, OthersIdle, Goto, Answer, TypeInv, TypeOK
  <2>2. CASE Answer(q) /\ Unlock(q)
    <3>1. pc'[q] = "idle"
      BY <2>2 DEF Answer, Goto, TypeInv, TypeOK
    <3>2. QED
      BY <2>1, <2>2, <3>1, EndStep
  <2>3. CASE /\ \E u, v \in Counted(q) : u # v
             /\ Goto(q, "write") /\ UNCHANGED <<req, seen, lock>>
    <3>1. pc[q] = "lock" /\ pc'[q] = "write"
      BY <1>19a, <2>3 DEF CountOwners, Goto, TypeInv, TypeOK
    <3>2. LockInv'
      BY <2>1, <2>3, <3>1 DEF CountInv, LockInv, OthersIdle
    <3>3. ASSUME NEW p \in Request, ActsOnCount(p)' PROVE HoldsTwo(p)'
      <4>1. CASE p = q
        BY <2>1, <2>3, <4>1 DEF Counted, HoldsTwo, Owners
      <4>2. CASE p # q
        BY <2>1, <2>3, <3>3, <4>2
           DEF OthersIdle, ActsOnCount, HoldsTwo, Owners, CountInv, CountStillTrue
      <4>3. QED
        BY <4>1, <4>2
    <3>4. QED
      BY <3>2, <3>3 DEF CountInv, CountStillTrue, ActsOnCount, HoldsTwo
  <2>4. QED
    BY <1>19a, <2>2, <2>3 DEF CountOwners
<1>20. ASSUME NEW q \in Request, RemoveMember(q) PROVE CountInv'
  <2>1. OthersIdle(q) /\ pc[q] = "write" /\ pc'[q] = "idle" /\ Writable(q) /\ Unlock(q)
    BY <1>20 DEF RemoveMember, OthersIdle, Goto, Answer, TypeInv, TypeOK
  <2>2. \A o \in Org, u \in User :
          o # req[q].org \/ u # req[q].target => kind'[o][u] = kind[o][u]
    BY <1>20 DEF RemoveMember, TypeInv, TypeOK
  <2>3. QED
    BY <2>1, <2>2, WriteStep
<1>21. ASSUME NEW q \in Request, UpdateMemberRole(q) PROVE CountInv'
  <2>1. OthersIdle(q) /\ pc[q] = "write" /\ pc'[q] = "idle" /\ Writable(q) /\ Unlock(q)
    BY <1>21 DEF UpdateMemberRole, OthersIdle, Goto, Answer, TypeInv, TypeOK
  <2>2. \A o \in Org, u \in User :
          o # req[q].org \/ u # req[q].target => kind'[o][u] = kind[o][u]
    BY <1>21 DEF UpdateMemberRole, TypeInv, TypeOK
  <2>3. QED
    BY <2>1, <2>2, WriteStep
<1>22. ASSUME NEW q \in Request, Fail(q) PROVE CountInv'
  <2>1. OthersIdle(q) /\ pc'[q] = "idle" /\ UNCHANGED kind /\ Unlock(q)
    BY <1>22 DEF Fail, OthersIdle, Goto, Answer, TypeInv, TypeOK
  <2>2. QED
    BY <2>1, EndStep
<1>23. ASSUME NEW i \in Invitation, Expire(i) PROVE CountInv'
  BY <1>23 DEF Expire, CountInv, LockInv, CountStillTrue, Owners, localVars
<1>24. CASE UNCHANGED vars
  BY <1>24 DEF vars, CountInv, LockInv, CountStillTrue, Owners
<1>25. QED
  BY <1>1, <1>2, <1>3, <1>4, <1>5, <1>6, <1>7, <1>8, <1>9, <1>10, <1>11, <1>12, <1>13, <1>14, <1>15, <1>16, <1>17, <1>18, <1>19, <1>19a, <1>20, <1>21, <1>22, <1>23, <1>24
     DEF Next, Arrive, Wait, Proceed

\* Counts are acted on under lock, for any number of requests that remove and
\* demote owners at once.
LEMMA CountInvariant == Spec => [](TypeInv /\ CountInv)
<1>1. Init => CountInv
  BY NoneAssumption DEF Init, CountInv, LockInv, CountStillTrue
<1>2. QED
  BY <1>1, InitTypeInv, NextTypeInv, NextCountInv, PTL DEF Spec

\* Whoever counted the owners acts on a count that is still true.
THEOREM CountsStayTrue == Spec => []CountStillTrue
<1>1. CountInv => CountStillTrue
  BY DEF CountInv
<1>2. QED
  BY <1>1, CountInvariant, PTL

\* Who counts waits for rows of memberships, and for none of its own.
WaitInv ==
  \A q \in Request :
    pc[q] = "lock" =>
      scan[q] \subseteq User /\ \A u \in scan[q] : lock[req[q].org][u] # q

\* Steps that start no count and take no lock.
LEMMA FewerWaits ==
  ASSUME TypeInv, WaitInv,
         \A p \in Request : pc'[p] = "lock" =>
           pc[p] = "lock" /\ req'[p] = req[p] /\ scan'[p] \subseteq scan[p],
         \A o \in Org, u \in User, p \in Request :
           lock'[o][u] = p => lock[o][u] = p
  PROVE  WaitInv'
<1> SUFFICES ASSUME NEW p \in Request, pc'[p] = "lock", NEW u \in scan'[p]
             PROVE  u \in User /\ lock'[req'[p].org][u] # p
  BY DEF WaitInv
<1>1. pc[p] = "lock" /\ req'[p] = req[p] /\ u \in scan[p]
  OBVIOUS
<1>2. u \in User /\ lock[req[p].org][u] # p
  BY <1>1 DEF WaitInv
<1>3. req[p].org \in Org
  BY <1>1 DEF TypeInv, Shape
<1>4. QED
  BY <1>1, <1>2, <1>3

\* Steps of q, which may end it.
LEMMA LocalWaits ==
  ASSUME TypeInv, WaitInv, NEW q \in Request, OthersIdle(q), pc'[q] # "lock",
         UNCHANGED lock \/ Unlock(q),
         \A p \in Request \ {q} : pc[p] = "lock" => scan'[p] \subseteq scan[p]
  PROVE  WaitInv'
<1>1. \A o \in Org, u \in User, p \in Request :
        lock'[o][u] = p => lock[o][u] = p
  BY NoneAssumption DEF Unlock
<1>2. QED
  BY <1>1, FewerWaits DEF OthersIdle

LEMMA NextWaitInv == TypeInv /\ CountInv /\ WaitInv /\ [Next]_vars => WaitInv'
<1> SUFFICES ASSUME TypeInv, CountInv, WaitInv, [Next]_vars PROVE WaitInv'
  OBVIOUS
<1> USE NoneAssumption
<1>1. ASSUME NEW q \in Request, SelectOwners(q) PROVE WaitInv'
  <2>0. pc[q] = "count" /\ req[q].org \in Org
    BY <1>1 DEF SelectOwners, TypeInv, Shape
  <2>1. ASSUME NEW u \in User PROVE lock[req[q].org][u] # q
    <3>1. LockInv
      BY DEF CountInv
    <3>2. PICK o \in Org : o = req[q].org
      BY <2>0
    <3>3. lock[o][u] = q => pc[q] \in {"lock", "write"}
      BY <3>1 DEF LockInv
    <3>4. QED
      BY <2>0, <3>2, <3>3
  <2>2. scan'[q] \subseteq User
    BY <1>1 DEF SelectOwners, Owners, TypeInv, TypeOK
  <2>3. /\ \A p \in Request \ {q} : pc'[p] = pc[p] /\ scan'[p] = scan[p]
        /\ UNCHANGED <<lock, req>>
    BY <1>1 DEF SelectOwners, Goto, TypeInv, TypeOK
  <2>4. QED
    BY <2>1, <2>2, <2>3 DEF WaitInv
<1>2. ASSUME NEW q \in Request, NEW u \in User, LockOwner(q, u) PROVE WaitInv'
  <2>1. \A o \in Org, v \in User :
          lock'[o][v] = IF o = req[q].org /\ v = u THEN q ELSE lock[o][v]
    BY <1>2 DEF LockOwner, TypeInv, TypeOK, Shape
  <2>2. scan'[q] = scan[q] \ {u} /\ \A p \in Request \ {q} : scan'[p] = scan[p]
    BY <1>2 DEF LockOwner, TypeInv, TypeOK
  <2>3. ASSUME NEW p \in Request, pc[p] = "lock", NEW v \in scan'[p]
        PROVE  v \in User /\ lock'[req[p].org][v] # p
    <3>1. v \in User /\ v \in scan[p] /\ req[p].org \in Org
      BY <2>2, <2>3 DEF TypeInv, Shape, WaitInv
    <3>2. QED
      BY <2>1, <2>2, <2>3, <3>1 DEF WaitInv
  <2>4. QED
    BY <1>2, <2>3 DEF LockOwner, WaitInv
<1>3. ASSUME NEW q \in Request, NEW r \in Authorized, Authorize(q, r) PROVE WaitInv'
  <2>1. OthersIdle(q) /\ pc'[q] # "lock" /\ (UNCHANGED lock \/ Unlock(q))
    BY <1>3, AuthorizedFields DEF Authorize, OthersIdle, Goto, Answer, TypeInv, TypeOK
  <2>2. \A p \in Request \ {q} : pc[p] = "lock" => scan'[p] \subseteq scan[p]
    BY <1>3 DEF Authorize, TypeInv, TypeOK
  <2>3. QED
    BY <2>1, <2>2, LocalWaits
<1>4. ASSUME NEW q \in Request, NEW r \in Leaves, LeaveBegin(q, r) PROVE WaitInv'
  <2>1. OthersIdle(q) /\ pc'[q] # "lock" /\ (UNCHANGED lock \/ Unlock(q))
    BY <1>4 DEF LeaveBegin, OthersIdle, Goto, Answer, TypeInv, TypeOK
  <2>2. \A p \in Request \ {q} : pc[p] = "lock" => scan'[p] \subseteq scan[p]
    BY <1>4 DEF LeaveBegin, TypeInv, TypeOK
  <2>3. QED
    BY <2>1, <2>2, LocalWaits
<1>5. ASSUME NEW q \in Request, NEW r \in Accepts, AcceptBegin(q, r) PROVE WaitInv'
  <2>1. OthersIdle(q) /\ pc'[q] # "lock" /\ (UNCHANGED lock \/ Unlock(q))
    BY <1>5 DEF AcceptBegin, OthersIdle, Goto, Answer, TypeInv, TypeOK
  <2>2. \A p \in Request \ {q} : pc[p] = "lock" => scan'[p] \subseteq scan[p]
    BY <1>5 DEF AcceptBegin, TypeInv, TypeOK
  <2>3. QED
    BY <2>1, <2>2, LocalWaits
<1>6. ASSUME NEW q \in Request, ReadTarget(q) PROVE WaitInv'
  <2>1. OthersIdle(q) /\ pc'[q] # "lock" /\ (UNCHANGED lock \/ Unlock(q))
    BY <1>6 DEF ReadTarget, OthersIdle, Goto, Answer, TypeInv, TypeOK
  <2>2. \A p \in Request \ {q} : pc[p] = "lock" => scan'[p] \subseteq scan[p]
    BY <1>6 DEF ReadTarget, TypeInv, TypeOK
  <2>3. QED
    BY <2>1, <2>2, LocalWaits
<1>7. ASSUME NEW q \in Request, CheckStatus(q) PROVE WaitInv'
  <2>1. OthersIdle(q) /\ pc'[q] # "lock" /\ (UNCHANGED lock \/ Unlock(q))
    BY <1>7 DEF CheckStatus, OthersIdle, Goto, Answer, TypeInv, TypeOK
  <2>2. \A p \in Request \ {q} : pc[p] = "lock" => scan'[p] \subseteq scan[p]
    BY <1>7 DEF CheckStatus, TypeInv, TypeOK
  <2>3. QED
    BY <2>1, <2>2, LocalWaits
<1>8. ASSUME NEW q \in Request, CheckActor(q) PROVE WaitInv'
  <2>1. OthersIdle(q) /\ pc'[q] # "lock" /\ (UNCHANGED lock \/ Unlock(q))
    BY <1>8 DEF CheckActor, OthersIdle, Goto, Answer, TypeInv, TypeOK
  <2>2. \A p \in Request \ {q} : pc[p] = "lock" => scan'[p] \subseteq scan[p]
    BY <1>8 DEF CheckActor, TypeInv, TypeOK
  <2>3. QED
    BY <2>1, <2>2, LocalWaits
<1>9. ASSUME NEW q \in Request, CountOwners(q) PROVE WaitInv'
  <2>1. OthersIdle(q) /\ pc'[q] # "lock" /\ (UNCHANGED lock \/ Unlock(q))
    BY <1>9 DEF CountOwners, OthersIdle, Goto, Answer, TypeInv, TypeOK
  <2>2. \A p \in Request \ {q} : pc[p] = "lock" => scan'[p] \subseteq scan[p]
    BY <1>9 DEF CountOwners, TypeInv, TypeOK
  <2>3. QED
    BY <2>1, <2>2, LocalWaits
<1>10. ASSUME NEW q \in Request, CheckType(q) PROVE WaitInv'
  <2>1. OthersIdle(q) /\ pc'[q] # "lock" /\ (UNCHANGED lock \/ Unlock(q))
    BY <1>10 DEF CheckType, OthersIdle, Goto, Answer, TypeInv, TypeOK
  <2>2. \A p \in Request \ {q} : pc[p] = "lock" => scan'[p] \subseteq scan[p]
    BY <1>10 DEF CheckType, TypeInv, TypeOK
  <2>3. QED
    BY <2>1, <2>2, LocalWaits
<1>11. ASSUME NEW q \in Request, FindInvitation(q) PROVE WaitInv'
  <2>1. OthersIdle(q) /\ pc'[q] # "lock" /\ (UNCHANGED lock \/ Unlock(q))
    BY <1>11 DEF FindInvitation, OthersIdle, Goto, Answer, TypeInv, TypeOK
  <2>2. \A p \in Request \ {q} : pc[p] = "lock" => scan'[p] \subseteq scan[p]
    BY <1>11 DEF FindInvitation, TypeInv, TypeOK
  <2>3. QED
    BY <2>1, <2>2, LocalWaits
<1>12. ASSUME NEW q \in Request, CheckInviter(q) PROVE WaitInv'
  <2>1. OthersIdle(q) /\ pc'[q] # "lock" /\ (UNCHANGED lock \/ Unlock(q))
    BY <1>12 DEF CheckInviter, OthersIdle, Goto, Answer, TypeInv, TypeOK
  <2>2. \A p \in Request \ {q} : pc[p] = "lock" => scan'[p] \subseteq scan[p]
    BY <1>12 DEF CheckInviter, TypeInv, TypeOK
  <2>3. QED
    BY <2>1, <2>2, LocalWaits
<1>13. ASSUME NEW q \in Request, NEW i \in Invitation, CreateLinkInvitation(q, i) PROVE WaitInv'
  <2>1. OthersIdle(q) /\ pc'[q] # "lock" /\ (UNCHANGED lock \/ Unlock(q))
    BY <1>13 DEF CreateLinkInvitation, OthersIdle, Goto, Answer, TypeInv, TypeOK
  <2>2. \A p \in Request \ {q} : pc[p] = "lock" => scan'[p] \subseteq scan[p]
    BY <1>13 DEF CreateLinkInvitation, TypeInv, TypeOK
  <2>3. QED
    BY <2>1, <2>2, LocalWaits
<1>14. ASSUME NEW q \in Request, NEW i \in Invitation, RotateInvitation(q, i) PROVE WaitInv'
  <2>1. OthersIdle(q) /\ pc'[q] # "lock" /\ (UNCHANGED lock \/ Unlock(q))
    BY <1>14 DEF RotateInvitation, OthersIdle, Goto, Answer, TypeInv, TypeOK
  <2>2. \A p \in Request \ {q} : pc[p] = "lock" => scan'[p] \subseteq scan[p]
    BY <1>14 DEF RotateInvitation, TypeInv, TypeOK
  <2>3. QED
    BY <2>1, <2>2, LocalWaits
<1>15. ASSUME NEW q \in Request, Redeem(q) PROVE WaitInv'
  <2>1. OthersIdle(q) /\ pc'[q] # "lock" /\ (UNCHANGED lock \/ Unlock(q))
    BY <1>15 DEF Redeem, OthersIdle, Goto, Answer, TypeInv, TypeOK
  <2>2. \A p \in Request \ {q} : pc[p] = "lock" => scan'[p] \subseteq scan[p]
    BY <1>15 DEF Redeem, TypeInv, TypeOK
  <2>3. QED
    BY <2>1, <2>2, LocalWaits
<1>16. ASSUME NEW q \in Request, GetOrganization(q) PROVE WaitInv'
  <2>1. OthersIdle(q) /\ pc'[q] # "lock" /\ (UNCHANGED lock \/ Unlock(q))
    BY <1>16 DEF GetOrganization, OthersIdle, Goto, Answer, TypeInv, TypeOK
  <2>2. \A p \in Request \ {q} : pc[p] = "lock" => scan'[p] \subseteq scan[p]
    BY <1>16 DEF GetOrganization, TypeInv, TypeOK
  <2>3. QED
    BY <2>1, <2>2, LocalWaits
<1>17. ASSUME NEW q \in Request, SelectInvitations(q) PROVE WaitInv'
  <2>1. OthersIdle(q) /\ pc'[q] # "lock" /\ (UNCHANGED lock \/ Unlock(q))
    BY <1>17 DEF SelectInvitations, OthersIdle, Goto, Answer, TypeInv, TypeOK
  <2>2. \A p \in Request \ {q} : pc[p] = "lock" => scan'[p] \subseteq scan[p]
    BY <1>17 DEF SelectInvitations, TypeInv, TypeOK
  <2>3. QED
    BY <2>1, <2>2, LocalWaits
<1>18. ASSUME NEW q \in Request, SoftDelete(q) PROVE WaitInv'
  <2>1. OthersIdle(q) /\ pc'[q] # "lock" /\ (UNCHANGED lock \/ Unlock(q))
    BY <1>18 DEF SoftDelete, OthersIdle, Goto, Answer, TypeInv, TypeOK
  <2>2. \A p \in Request \ {q} : pc[p] = "lock" => scan'[p] \subseteq scan[p]
    BY <1>18 DEF SoftDelete, TypeInv, TypeOK
  <2>3. QED
    BY <2>1, <2>2, LocalWaits
<1>19. ASSUME NEW q \in Request, Refuse(q) PROVE WaitInv'
  <2>1. OthersIdle(q) /\ pc'[q] # "lock" /\ (UNCHANGED lock \/ Unlock(q))
    BY <1>19 DEF Refuse, OthersIdle, Goto, Answer, TypeInv, TypeOK
  <2>2. \A p \in Request \ {q} : pc[p] = "lock" => scan'[p] \subseteq scan[p]
    BY <1>19 DEF Refuse, TypeInv, TypeOK
  <2>3. QED
    BY <2>1, <2>2, LocalWaits
<1>20. ASSUME NEW q \in Request, RemoveMember(q) PROVE WaitInv'
  <2>1. OthersIdle(q) /\ pc'[q] # "lock" /\ (UNCHANGED lock \/ Unlock(q))
    BY <1>20 DEF RemoveMember, OthersIdle, Goto, Answer, TypeInv, TypeOK
  <2>2. \A p \in Request \ {q} : pc[p] = "lock" => scan'[p] \subseteq scan[p]
    BY <1>20 DEF RemoveMember, TypeInv, TypeOK
  <2>3. QED
    BY <2>1, <2>2, LocalWaits
<1>21. ASSUME NEW q \in Request, UpdateMemberRole(q) PROVE WaitInv'
  <2>1. OthersIdle(q) /\ pc'[q] # "lock" /\ (UNCHANGED lock \/ Unlock(q))
    BY <1>21 DEF UpdateMemberRole, OthersIdle, Goto, Answer, TypeInv, TypeOK
  <2>2. \A p \in Request \ {q} : pc[p] = "lock" => scan'[p] \subseteq scan[p]
    BY <1>21 DEF UpdateMemberRole, TypeInv, TypeOK
  <2>3. QED
    BY <2>1, <2>2, LocalWaits
<1>22. ASSUME NEW q \in Request, Fail(q) PROVE WaitInv'
  <2>1. OthersIdle(q) /\ pc'[q] # "lock" /\ (UNCHANGED lock \/ Unlock(q))
    BY <1>22 DEF Fail, OthersIdle, Goto, Answer, TypeInv, TypeOK
  <2>2. \A p \in Request \ {q} : pc[p] = "lock" => scan'[p] \subseteq scan[p]
    BY <1>22 DEF Fail, TypeInv, TypeOK
  <2>3. QED
    BY <2>1, <2>2, LocalWaits
<1>23. ASSUME NEW o \in Org, NEW type \in {"personal", "business"}, NEW u \in User,
             Bootstrap(o, type, u)
      PROVE  WaitInv'
  BY <1>23 DEF Bootstrap, localVars, WaitInv
<1>24. ASSUME NEW i \in Invitation, Expire(i) PROVE WaitInv'
  BY <1>24 DEF Expire, localVars, WaitInv
<1>25. CASE UNCHANGED vars
  BY <1>25 DEF vars, WaitInv
<1>26. QED
  BY <1>1, <1>2, <1>3, <1>4, <1>5, <1>6, <1>7, <1>8, <1>9, <1>10, <1>11, <1>12, <1>13, <1>14, <1>15, <1>16, <1>17, <1>18, <1>19, <1>20, <1>21, <1>22, <1>23, <1>24, <1>25
     DEF Next, Arrive, Wait, Proceed

\* p asks for a row that r holds.
WaitsFor(p, r) ==
  \E u \in User :
    /\ lock[req[p].org][u] = r
    /\ IF pc[p] = "lock" THEN u \in scan[p] ELSE pc[p] = "write" /\ u = req[p].target

\* In every deadlock two requests of one organization meet that both hold rows
\* of members, and one waits for a row of the other: only who counts owners
\* can cause one (CountActiveOwners, repository.go:118-140), and never by itself.
DeadlocksNeedCounters ==
  \A q \in Request :
    Deadlocked(q) =>
      \E p, r \in Request :
        /\ p # r /\ WaitsFor(p, r)
        /\ req[p].org = req[r].org
        /\ \E u \in User : lock[req[p].org][u] = p

\* Deadlocks are only between requests that count the owners of one
\* organization.
THEOREM OnlyCountersDeadlock == Spec => []DeadlocksNeedCounters
<1>1. Init => WaitInv
  BY DEF Init, WaitInv
<1>2. TypeInv /\ CountInv /\ WaitInv => DeadlocksNeedCounters
  <2> SUFFICES ASSUME TypeInv, CountInv, WaitInv, NEW q \in Request, Deadlocked(q)
               PROVE  \E p, r \in Request :
                        /\ p # r /\ WaitsFor(p, r)
                        /\ req[p].org = req[r].org
                        /\ \E u \in User : lock[req[p].org][u] = p
    BY DEF DeadlocksNeedCounters
  <2>1. PICK S \in SUBSET Request :
          q \in S /\ \A p \in S : Blockers(p) # {} /\ Blockers(p) \subseteq S
    BY DEF Deadlocked
  <2>2. ASSUME NEW p \in S, NEW r \in S, r \in Blockers(p)
        PROVE  /\ p # r /\ WaitsFor(p, r)
               /\ req[p].org = req[r].org
               /\ \E u \in User : lock[req[r].org][u] = r
    <3>1. pc[p] \in {"lock", "write"}
      BY <2>2 DEF Blockers
    <3>2. PICK o \in Org : o = req[p].org
      BY <3>1 DEF TypeInv, Shape
    <3>3. CASE pc[p] = "lock"
      <4>1. PICK u \in scan[p] : lock[o][u] = r
        BY <2>2, <3>2, <3>3 DEF Blockers
      <4>2. u \in User /\ r # p
        BY <3>2, <3>3, <4>1 DEF WaitInv
      <4>3. req[r].org = o
        BY <4>1, <4>2 DEF CountInv, LockInv
      <4>4. QED
        BY <3>2, <3>3, <4>1, <4>2, <4>3 DEF WaitsFor
    <3>4. CASE pc[p] = "write"
      <4>1. lock[o][req[p].target] = r /\ r # p
        BY <2>2, <3>2, <3>4 DEF Blockers, Writable
      <4>2. req[p].target \in User
        BY <3>4 DEF TypeInv, Shape, OwnerStep, OwnerRequest
      <4>3. req[r].org = o
        BY <4>1, <4>2 DEF CountInv, LockInv
      <4>4. QED
        BY <3>2, <3>4, <4>1, <4>2, <4>3 DEF WaitsFor
    <3>5. QED
      BY <3>1, <3>3, <3>4
  <2>3. PICK p \in S : p \in Blockers(q)
    BY <2>1
  <2>4. PICK r \in S : r \in Blockers(p)
    BY <2>1
  <2>5. QED
    BY <2>1, <2>2, <2>3, <2>4
<1>3. QED
  BY <1>1, <1>2, NextWaitInv, CountInvariant, PTL DEF Spec

\* The steps that change a membership.
LEMMA KindSteps ==
  ASSUME [Next]_vars
  PROVE  \/ UNCHANGED kind
         \/ \E o \in Org, type \in {"personal", "business"}, u \in User :
              Bootstrap(o, type, u)
         \/ \E q \in Request :
              RemoveMember(q) \/ UpdateMemberRole(q) \/ Redeem(q)
<1>1. ASSUME NEW q \in Request, Arrive(q) PROVE UNCHANGED kind
  BY <1>1 DEF Arrive, Authorize, LeaveBegin, AcceptBegin
<1>2. ASSUME NEW q \in Request, Wait(q)
      PROVE  UNCHANGED kind \/ RemoveMember(q) \/ UpdateMemberRole(q)
  BY <1>2 DEF Wait, LockOwner
<1>3. ASSUME NEW q \in Request, Proceed(q) PROVE UNCHANGED kind \/ Redeem(q)
  BY <1>3 DEF Proceed, ReadTarget, CheckStatus, CheckActor, SelectOwners,
     CountOwners, CheckType, FindInvitation, CheckInviter, CreateLinkInvitation,
     RotateInvitation, GetOrganization, SelectInvitations, SoftDelete, Refuse
<1>4. ASSUME NEW q \in Request, Fail(q) PROVE UNCHANGED kind
  BY <1>4 DEF Fail
<1>5. ASSUME NEW i \in Invitation, Expire(i) PROVE UNCHANGED kind
  BY <1>5 DEF Expire
<1>6. CASE UNCHANGED vars
  BY <1>6 DEF vars
<1>7. QED
  BY <1>1, <1>2, <1>3, <1>4, <1>5, <1>6 DEF Next

\* A counted write leaves an owner.
LEMMA CountedWrite ==
  ASSUME TypeInv, CountInv, NEW q \in Request,
         RemoveMember(q) \/ UpdateMemberRole(q),
         NEW o \in Org, Owners(o) # {}, Owners(o)' = {}
  PROVE  req[q].org = o /\ seen[q] # "owner" /\ req[q].target \in Owners(o)
<1> DEFINE r == req[q]
<1> USE NoneAssumption, KindAssumption
<1>1. pc[q] = "write" /\ r.org \in Org /\ OwnerRequest(r)
  BY DEF RemoveMember, UpdateMemberRole, TypeInv, Shape, OwnerStep
<1>2. \A p \in Org, u \in User :
        p # r.org \/ u # r.target => kind'[p][u] = kind[p][u]
  BY DEF RemoveMember, UpdateMemberRole, TypeInv, TypeOK
<1>3. \A u \in Owners(o) : r.org = o /\ r.target = u
  BY <1>2 DEF Owners
<1>4. r.org = o /\ r.target \in Owners(o)
  BY <1>3
<1>5. r.role # "owner"
  <2>1. CASE UpdateMemberRole(q)
    <3>1. kind'[o][r.target] = r.role
      BY <2>1, <1>1, <1>4 DEF UpdateMemberRole, Owners, OwnerRequest, TypeInv, TypeOK
    <3>2. QED
      BY <3>1, <1>1 DEF Owners, OwnerRequest
  <2>2. CASE RemoveMember(q)
    BY <2>2, <1>1 DEF RemoveMember, OwnerRequest
  <2>3. QED
    BY <2>1, <2>2
<1>6. ASSUME seen[q] = "owner" PROVE FALSE
  <2>1. ActsOnCount(q)
    BY <1>1, <1>5, <1>6 DEF ActsOnCount, NeedsCount
  <2>2. \E u, v \in Owners(o) : u # v
    BY <1>4, <2>1 DEF ActsOnCount, CountInv, CountStillTrue
  <2>3. QED
    BY <1>3, <2>2
<1>7. QED
  BY <1>4, <1>6

\* An organization loses its last owner only to a request that read its
\* target before somebody made it owner.
THEOREM OwnersSurvive == Spec => OwnersLostOnlyByStaleRead
<1> DEFINE Lost ==
      \A o \in Org :
        Owners(o) # {} /\ Owners(o)' = {} =>
          \E q \in Request :
            /\ pc[q] = "write" /\ req[q].org = o
            /\ seen[q] # "owner" /\ req[q].target \in Owners(o)
<1>1. TypeInv /\ CountInv /\ [Next]_vars => Lost
  <2> SUFFICES ASSUME TypeInv, CountInv, [Next]_vars,
                      NEW o \in Org, Owners(o) # {}, Owners(o)' = {}
               PROVE  \E q \in Request :
                        /\ pc[q] = "write" /\ req[q].org = o
                        /\ seen[q] # "owner" /\ req[q].target \in Owners(o)
    OBVIOUS
  <2> USE NoneAssumption, KindAssumption
  <2>1. CASE UNCHANGED kind
    BY <2>1 DEF Owners
  <2>2. ASSUME NEW p \in Org, NEW type \in {"personal", "business"}, NEW u \in User,
               Bootstrap(p, type, u)
        PROVE  FALSE
    BY <2>2 DEF Bootstrap, Owners, TypeInv, TypeOK
  <2>3. ASSUME NEW q \in Request, Redeem(q) PROVE FALSE
    BY <2>3 DEF Redeem, Owners, TypeInv, TypeOK
  <2>4. ASSUME NEW q \in Request, RemoveMember(q) \/ UpdateMemberRole(q)
        PROVE  /\ pc[q] = "write" /\ req[q].org = o
               /\ seen[q] # "owner" /\ req[q].target \in Owners(o)
    BY <2>4, CountedWrite DEF RemoveMember, UpdateMemberRole
  <2>5. QED
    BY <2>1, <2>2, <2>3, <2>4, KindSteps
<1>2. TypeInv /\ CountInv /\ [Next]_vars => [Lost]_vars
  BY <1>1
<1>3. [][Lost]_vars => OwnersLostOnlyByStaleRead
  BY DEF OwnersLostOnlyByStaleRead
<1>4. QED
  BY <1>2, <1>3, CountInvariant, PTL DEF Spec

-----------------------------------------------------------------------------
(* Invitations                                                             *)

\* A redemption under way holds what its invitation says.
RedeemInv ==
  \A q \in Request :
    pc[q] = "redeem" =>
      /\ invStatus[req[q].inv] # "absent"
      /\ invOrg[req[q].inv] = req[q].org
      /\ invKind[req[q].inv] = req[q].role

\* Lineages begin with an invitation that exists.
RootInv ==
  \A j \in Invitation :
    invStatus[j] # "absent" => root[j] \in Invitation /\ invStatus[root[j]] # "absent"

LinkInv == RedeemInv /\ RootInv /\ OneActivePerLineage

\* A step of q that leaves all invitations alone and redeems none.
LEMMA QuietLinks ==
  ASSUME LinkInv, NEW q \in Request, OthersIdle(q), UNCHANGED invVars,
         pc'[q] # "redeem"
  PROVE  LinkInv'
<1>1. RedeemInv'
  BY DEF LinkInv, RedeemInv, OthersIdle, invVars
<1>2. RootInv' /\ OneActivePerLineage'
  BY DEF LinkInv, RootInv, OneActivePerLineage, invVars
<1>3. QED
  BY <1>1, <1>2 DEF LinkInv

\* A step of q that only ends invitations.
LEMMA EndLinks ==
  ASSUME LinkInv, TypeInv, NEW q \in Request, OthersIdle(q), pc'[q] # "redeem",
         UNCHANGED <<invOrg, invKind, root>>,
         \A j \in Invitation : /\ invStatus'[j] = "absent" <=> invStatus[j] = "absent"
                               /\ invStatus'[j] = "active" => invStatus[j] = "active"
  PROVE  LinkInv'
<1>1. RedeemInv'
  BY DEF LinkInv, RedeemInv, OthersIdle, TypeInv, Shape
<1>2. RootInv'
  BY DEF LinkInv, RootInv
<1>3. OneActivePerLineage'
  BY DEF LinkInv, OneActivePerLineage
<1>4. QED
  BY <1>1, <1>2, <1>3 DEF LinkInv

\* Lineages and redemptions are inductive relative to the types.
LEMMA NextLinkInv == TypeInv /\ LinkInv /\ [Next]_vars => LinkInv'
<1> SUFFICES ASSUME TypeInv, LinkInv, [Next]_vars PROVE LinkInv'
  OBVIOUS
<1>1. ASSUME NEW o \in Org, NEW type \in {"personal", "business"}, NEW u \in User,
             Bootstrap(o, type, u)
      PROVE  LinkInv'
  BY <1>1 DEF Bootstrap, LinkInv, RedeemInv, RootInv, OneActivePerLineage,
     invVars, localVars
<1>2. ASSUME NEW q \in Request, NEW r \in Authorized, Authorize(q, r) PROVE LinkInv'
  <2>1. OthersIdle(q) /\ UNCHANGED invVars /\ pc'[q] # "redeem"
    BY <1>2, AuthorizedFields DEF Authorize, OthersIdle, Goto, Answer, TypeInv, TypeOK
  <2>2. QED
    BY <2>1, QuietLinks
<1>3. ASSUME NEW q \in Request, NEW r \in Leaves, LeaveBegin(q, r) PROVE LinkInv'
  <2>1. OthersIdle(q) /\ UNCHANGED invVars /\ pc'[q] # "redeem"
    BY <1>3 DEF LeaveBegin, OthersIdle, Goto, Answer, TypeInv, TypeOK
  <2>2. QED
    BY <2>1, QuietLinks
<1>4. ASSUME NEW q \in Request, NEW r \in Accepts, AcceptBegin(q, r) PROVE LinkInv'
  <2>1. OthersIdle(q) /\ UNCHANGED invVars /\ req'[q] = r
    BY <1>4 DEF AcceptBegin, OthersIdle, Goto, TypeInv, TypeOK
  <2>2. RedeemInv'
    BY <1>4, <2>1 DEF AcceptBegin, LinkInv, RedeemInv, OthersIdle, invVars
  <2>3. RootInv' /\ OneActivePerLineage'
    BY <2>1 DEF LinkInv, RootInv, OneActivePerLineage, invVars
  <2>4. QED
    BY <2>2, <2>3 DEF LinkInv
<1>5. ASSUME NEW q \in Request, NEW u \in User, LockOwner(q, u) PROVE LinkInv'
  <2>1. OthersIdle(q) /\ UNCHANGED invVars /\ pc'[q] # "redeem"
    BY <1>5 DEF LockOwner, OthersIdle
  <2>2. QED
    BY <2>1, QuietLinks
<1>5a. ASSUME NEW q \in Request, CountOwners(q) PROVE LinkInv'
  <2>1. OthersIdle(q) /\ UNCHANGED invVars /\ pc'[q] # "redeem"
    BY <1>5a DEF CountOwners, OthersIdle, Goto, Answer, TypeInv, TypeOK
  <2>2. QED
    BY <2>1, QuietLinks
<1>6. ASSUME NEW q \in Request, RemoveMember(q) PROVE LinkInv'
  <2>1. OthersIdle(q) /\ UNCHANGED invVars /\ pc'[q] # "redeem"
    BY <1>6 DEF RemoveMember, OthersIdle, Goto, Answer, TypeInv, TypeOK
  <2>2. QED
    BY <2>1, QuietLinks
<1>7. ASSUME NEW q \in Request, UpdateMemberRole(q) PROVE LinkInv'
  <2>1. OthersIdle(q) /\ UNCHANGED invVars /\ pc'[q] # "redeem"
    BY <1>7 DEF UpdateMemberRole, OthersIdle, Goto, Answer, TypeInv, TypeOK
  <2>2. QED
    BY <2>1, QuietLinks
<1>8. ASSUME NEW q \in Request, ReadTarget(q) PROVE LinkInv'
  <2>1. OthersIdle(q) /\ UNCHANGED invVars /\ pc'[q] # "redeem"
    BY <1>8 DEF ReadTarget, OthersIdle, Goto, Answer, TypeInv, TypeOK
  <2>2. QED
    BY <2>1, QuietLinks
<1>9. ASSUME NEW q \in Request, CheckStatus(q) PROVE LinkInv'
  <2>1. OthersIdle(q) /\ UNCHANGED invVars /\ pc'[q] # "redeem"
    BY <1>9 DEF CheckStatus, OthersIdle, Goto, Answer, TypeInv, TypeOK
  <2>2. QED
    BY <2>1, QuietLinks
<1>10. ASSUME NEW q \in Request, CheckActor(q) PROVE LinkInv'
  <2>1. OthersIdle(q) /\ UNCHANGED invVars /\ pc'[q] # "redeem"
    BY <1>10 DEF CheckActor, OthersIdle, Goto, Answer, TypeInv, TypeOK
  <2>2. QED
    BY <2>1, QuietLinks
<1>11. ASSUME NEW q \in Request, SelectOwners(q) PROVE LinkInv'
  <2>1. OthersIdle(q) /\ UNCHANGED invVars /\ pc'[q] # "redeem"
    BY <1>11 DEF SelectOwners, OthersIdle, Goto, Answer, TypeInv, TypeOK
  <2>2. QED
    BY <2>1, QuietLinks
<1>12. ASSUME NEW q \in Request, CheckType(q) PROVE LinkInv'
  <2>1. OthersIdle(q) /\ UNCHANGED invVars /\ pc'[q] # "redeem"
    BY <1>12 DEF CheckType, OthersIdle, Goto, Answer, TypeInv, TypeOK
  <2>2. QED
    BY <2>1, QuietLinks
<1>13. ASSUME NEW q \in Request, FindInvitation(q) PROVE LinkInv'
  <2>1. OthersIdle(q) /\ UNCHANGED invVars /\ pc'[q] # "redeem"
    BY <1>13 DEF FindInvitation, OthersIdle, Goto, Answer, TypeInv, TypeOK
  <2>2. QED
    BY <2>1, QuietLinks
<1>14. ASSUME NEW q \in Request, CheckInviter(q) PROVE LinkInv'
  <2>1. OthersIdle(q) /\ UNCHANGED invVars /\ pc'[q] # "redeem"
    BY <1>14 DEF CheckInviter, OthersIdle, Goto, Answer, TypeInv, TypeOK
  <2>2. QED
    BY <2>1, QuietLinks
<1>15. ASSUME NEW q \in Request, NEW i \in Invitation, CreateLinkInvitation(q, i) PROVE LinkInv'
  <2>1. OthersIdle(q) /\ pc'[q] = "idle"
    BY <1>15 DEF CreateLinkInvitation, OthersIdle, Goto, Answer, TypeInv, TypeOK
  <2>2. invStatus[i] = "absent" /\ (\A j \in Invitation \ {i} : /\ invOrg'[j] = invOrg[j]
                                                            /\ invKind'[j] = invKind[j]
                                                            /\ root'[j] = root[j])
    BY <1>15 DEF CreateLinkInvitation, InsertInvitation, TypeInv, TypeOK
  <2>3. /\ invStatus' = [invStatus EXCEPT ![i] = "active"]
        /\ root'[i] = i
    BY <1>15 DEF CreateLinkInvitation, InsertInvitation, TypeInv, TypeOK
  <2>4. RedeemInv'
    BY <2>1, <2>2, <2>3 DEF LinkInv, RedeemInv, OthersIdle, TypeInv, TypeOK, Shape
  <2>5. RootInv'
    BY <2>2, <2>3 DEF LinkInv, RootInv, TypeInv, TypeOK
  <2>6. OneActivePerLineage'
    BY <2>2, <2>3 DEF LinkInv, RootInv, OneActivePerLineage, TypeInv, TypeOK
  <2>7. QED
    BY <2>4, <2>5, <2>6 DEF LinkInv
<1>16. ASSUME NEW q \in Request, NEW i \in Invitation, RotateInvitation(q, i) PROVE LinkInv'
  <2>1. OthersIdle(q) /\ pc'[q] = "idle"
    BY <1>16 DEF RotateInvitation, OthersIdle, Goto, Answer, TypeInv, TypeOK
  <2>2. invStatus[i] = "absent" /\ (\A j \in Invitation \ {i} : /\ invOrg'[j] = invOrg[j]
                                                            /\ invKind'[j] = invKind[j]
                                                            /\ root'[j] = root[j])
    BY <1>16 DEF RotateInvitation, InsertInvitation, TypeInv, TypeOK
  <2>3. PICK old \in Invitation :
          /\ invStatus[old] = "active"
          /\ invStatus' = [invStatus EXCEPT ![old] = "revoked", ![i] = "active"]
          /\ root'[i] = root[old]
    BY <1>16 DEF RotateInvitation, InsertInvitation, RotateRequest, InviteRequest, TypeInv, TypeOK, Shape
  <2>4. \A j \in Invitation :
          invStatus'[j] = IF j = i THEN "active"
                          ELSE IF j = old THEN "revoked" ELSE invStatus[j]
    BY <2>3 DEF TypeInv, TypeOK
  <2>5. RedeemInv'
    BY <2>1, <2>2, <2>4 DEF LinkInv, RedeemInv, OthersIdle, TypeInv, Shape
  <2>6. RootInv'
    <3>1. \A j \in Invitation : invStatus[j] # "absent" \/ j = i => invStatus'[j] # "absent"
      BY <2>4
    <3>2. root'[i] \in Invitation /\ invStatus[root'[i]] # "absent"
      BY <2>3 DEF LinkInv, RootInv
    <3>3. \A j \in Invitation \ {i} : invStatus'[j] # "absent" =>
            root'[j] \in Invitation /\ invStatus[root'[j]] # "absent"
      BY <2>2, <2>3, <2>4 DEF LinkInv, RootInv
    <3>4. QED
      BY <3>1, <3>2, <3>3 DEF RootInv
  <2>7. OneActivePerLineage'
    BY <2>2, <2>3, <2>4 DEF LinkInv, OneActivePerLineage
  <2>8. QED
    BY <2>5, <2>6, <2>7 DEF LinkInv
<1>17. ASSUME NEW q \in Request, Redeem(q) PROVE LinkInv'
  <2>1. OthersIdle(q) /\ pc'[q] = "idle" /\ UNCHANGED <<invOrg, invKind, root>>
    BY <1>17 DEF Redeem, OthersIdle, Goto, Answer, TypeInv, TypeOK
  <2>2. \A j \in Invitation : /\ invStatus'[j] = "absent" <=> invStatus[j] = "absent"
                              /\ invStatus'[j] = "active" => invStatus[j] = "active"
    BY <1>17 DEF Redeem, TypeInv, TypeOK, Shape
  <2>3. QED
    BY <2>1, <2>2, EndLinks
<1>18. ASSUME NEW q \in Request, GetOrganization(q) PROVE LinkInv'
  <2>1. OthersIdle(q) /\ UNCHANGED invVars /\ pc'[q] # "redeem"
    BY <1>18 DEF GetOrganization, OthersIdle, Goto, Answer, TypeInv, TypeOK
  <2>2. QED
    BY <2>1, QuietLinks
<1>19. ASSUME NEW q \in Request, SelectInvitations(q) PROVE LinkInv'
  <2>1. OthersIdle(q) /\ UNCHANGED invVars /\ pc'[q] # "redeem"
    BY <1>19 DEF SelectInvitations, OthersIdle, Goto, Answer, TypeInv, TypeOK
  <2>2. QED
    BY <2>1, QuietLinks
<1>20. ASSUME NEW q \in Request, SoftDelete(q) PROVE LinkInv'
  <2>1. OthersIdle(q) /\ pc'[q] = "idle" /\ UNCHANGED <<invOrg, invKind, root>>
    BY <1>20 DEF SoftDelete, OthersIdle, Goto, Answer, TypeInv, TypeOK
  <2>2. \A j \in Invitation : /\ invStatus'[j] = "absent" <=> invStatus[j] = "absent"
                              /\ invStatus'[j] = "active" => invStatus[j] = "active"
    BY <1>20 DEF SoftDelete, TypeInv, TypeOK, Shape
  <2>3. QED
    BY <2>1, <2>2, EndLinks
<1>21. ASSUME NEW q \in Request, Refuse(q) PROVE LinkInv'
  <2>1. OthersIdle(q) /\ UNCHANGED invVars /\ pc'[q] # "redeem"
    BY <1>21 DEF Refuse, OthersIdle, Goto, Answer, TypeInv, TypeOK
  <2>2. QED
    BY <2>1, QuietLinks
<1>22. ASSUME NEW q \in Request, Fail(q) PROVE LinkInv'
  <2>1. OthersIdle(q) /\ UNCHANGED invVars /\ pc'[q] # "redeem"
    BY <1>22 DEF Fail, OthersIdle, Goto, Answer, TypeInv, TypeOK
  <2>2. QED
    BY <2>1, QuietLinks
<1>23. ASSUME NEW i \in Invitation, Expire(i) PROVE LinkInv'
  BY <1>23 DEF Expire, LinkInv, RedeemInv, RootInv, OneActivePerLineage,
     invVars, localVars
<1>24. CASE UNCHANGED vars
  BY <1>24 DEF vars, LinkInv, RedeemInv, RootInv, OneActivePerLineage
<1>25. QED
  BY <1>1, <1>2, <1>3, <1>4, <1>5, <1>5a, <1>6, <1>7, <1>8, <1>9, <1>10, <1>11, <1>12, <1>13, <1>14, <1>15, <1>16, <1>17, <1>18, <1>19, <1>20, <1>21, <1>22, <1>23, <1>24
     DEF Next, Arrive, Wait, Proceed

\* Types, lineages and redemptions of every reachable state.
LEMMA LinkInvariant == Spec => [](TypeInv /\ LinkInv)
<1>1. Init => LinkInv
  BY DEF Init, LinkInv, RedeemInv, RootInv, OneActivePerLineage
<1>2. QED
  BY <1>1, InitTypeInv, NextTypeInv, NextLinkInv, PTL DEF Spec

\* However many requests rotate a link, one descendant at most is active.
THEOREM LineagesHaveOneActiveLink == Spec => []OneActivePerLineage
<1>1. LinkInv => OneActivePerLineage
  BY DEF LinkInv
<1>2. QED
  BY <1>1, LinkInvariant, PTL

-----------------------------------------------------------------------------
(* Refinement of TokenFamily *)

\* What the CHOOSE of ActiveLink amounts to when a lineage has at most one
\* active link.
ActiveFacts ==
  /\ ActiveLink = [f \in Invitation |-> ActiveLink[f]]
  /\ \A i \in Invitation : invStatus[i] = "active" => ActiveLink[root[i]] = i
  /\ \A f \in Invitation :
       (\A i \in Invitation : invStatus[i] = "active" => root[i] # f)
         => ActiveLink[f] = None

LEMMA ActiveLinkIsActive == LinkInv => ActiveFacts
<1> SUFFICES ASSUME LinkInv PROVE ActiveFacts
  OBVIOUS
<1>1. ASSUME NEW i \in Invitation, invStatus[i] = "active"
      PROVE  ActiveLink[root[i]] = i
  <2>1. root[i] \in Invitation
    BY <1>1 DEF LinkInv, RootInv
  <2>2. (CHOOSE j \in Invitation : invStatus[j] = "active" /\ root[j] = root[i]) = i
    BY <1>1 DEF LinkInv, OneActivePerLineage
  <2>3. QED
    BY <1>1, <2>1, <2>2 DEF ActiveLink
<1>2. ASSUME NEW f \in Invitation,
             \A i \in Invitation : invStatus[i] = "active" => root[i] # f
      PROVE  ActiveLink[f] = None
  BY <1>2 DEF ActiveLink
<1>3. ActiveLink = [f \in Invitation |-> ActiveLink[f]]
  BY DEF ActiveLink
<1>4. QED
  BY <1>1, <1>2, <1>3 DEF ActiveFacts

\* What a step does to the links: one begins a lineage, one takes the place
\* of another, or some of them end.
Born(i) ==
  /\ invStatus[i] = "absent"
  /\ invStatus' = [invStatus EXCEPT ![i] = "active"]
  /\ root' = [root EXCEPT ![i] = i]

Exchanged(old, i) ==
  /\ invStatus[old] = "active" /\ invStatus[i] = "absent"
  /\ invStatus' = [invStatus EXCEPT ![old] = "revoked", ![i] = "active"]
  /\ root' = [root EXCEPT ![i] = root[old]]

Ended ==
  /\ \A j \in Invitation : /\ invStatus'[j] = "absent" <=> invStatus[j] = "absent"
                           /\ invStatus'[j] = "active" => invStatus[j] = "active"
  /\ UNCHANGED root

LEMMA LinkSteps ==
  ASSUME TypeInv, [Next]_vars
  PROVE  \/ \E i \in Invitation : Born(i)
         \/ \E old, i \in Invitation : Exchanged(old, i)
         \/ Ended
<1>1. ASSUME UNCHANGED <<invStatus, root>> PROVE Ended
  BY <1>1 DEF Ended
<1>2. ASSUME NEW q \in Request, NEW i \in Invitation, CreateLinkInvitation(q, i)
      PROVE  Born(i)
  BY <1>2 DEF CreateLinkInvitation, InsertInvitation, Born
<1>3. ASSUME NEW q \in Request, NEW i \in Invitation, RotateInvitation(q, i)
      PROVE  \E old \in Invitation : Exchanged(old, i)
  <2>1. req[q].inv \in Invitation
    BY <1>3 DEF RotateInvitation, TypeInv, Shape, RotateRequest, InviteRequest
  <2>2. Exchanged(req[q].inv, i)
    BY <1>3 DEF RotateInvitation, InsertInvitation, Exchanged
  <2>3. QED
    BY <2>1, <2>2
<1>4. ASSUME NEW q \in Request, Redeem(q) \/ SoftDelete(q) PROVE Ended
  BY <1>4 DEF Redeem, SoftDelete, Ended, TypeInv, TypeOK, Shape
<1>5. ASSUME NEW q \in Request, Arrive(q) \/ Wait(q) \/ Fail(q)
      PROVE  UNCHANGED <<invStatus, root>>
  BY <1>5 DEF Arrive, Authorize, LeaveBegin, AcceptBegin, Wait, LockOwner,
     RemoveMember, UpdateMemberRole, Fail, invVars
<1>6. ASSUME NEW q \in Request, Proceed(q), ~ Redeem(q), ~ SoftDelete(q),
             \A i \in Invitation : ~ CreateLinkInvitation(q, i) /\ ~ RotateInvitation(q, i)
      PROVE  UNCHANGED <<invStatus, root>>
  BY <1>6 DEF Proceed, ReadTarget, CheckStatus, CheckActor, SelectOwners,
     CountOwners, CheckType,
     FindInvitation, CheckInviter, GetOrganization, SelectInvitations, Refuse, invVars
<1>7. ASSUME \/ \E o \in Org, type \in {"personal", "business"}, u \in User :
                  Bootstrap(o, type, u)
             \/ \E i \in Invitation : Expire(i)
             \/ UNCHANGED vars
      PROVE  UNCHANGED <<invStatus, root>>
  BY <1>7 DEF Bootstrap, Expire, vars, invVars
<1>8. QED
  BY <1>1, <1>2, <1>3, <1>4, <1>5, <1>6, <1>7 DEF Next

LEMMA BornRefines ==
  ASSUME TypeInv, LinkInv, ActiveFacts, ActiveFacts', NEW i \in Invitation, Born(i)
  PROVE  Links!FNext
<1> USE DEF Born, TypeInv, TypeOK
<1>1. \A j \in Invitation \ {i} : invStatus'[j] = invStatus[j] /\ root'[j] = root[j]
  OBVIOUS
<1>2. invStatus'[i] = "active" /\ root'[i] = i
  OBVIOUS
<1>3. ActiveLink' = [ActiveLink EXCEPT ![i] = i]
  <2>1. ASSUME NEW f \in Invitation, f # i PROVE ActiveLink'[f] = ActiveLink[f]
    <3>1. CASE \E j \in Invitation : invStatus[j] = "active" /\ root[j] = f
      <4>1. PICK j \in Invitation \ {i} : invStatus[j] = "active" /\ root[j] = f
        BY <3>1
      <4>2. invStatus'[j] = "active" /\ root'[j] = f
        BY <1>1, <4>1
      <4>3. ActiveLink[f] = j
        BY <4>1 DEF ActiveFacts
      <4>4. ActiveLink'[f] = j
        BY <4>2 DEF ActiveFacts
      <4>5. QED
        BY <4>3, <4>4
    <3>2. CASE \A j \in Invitation : invStatus[j] = "active" => root[j] # f
      BY <1>1, <1>2, <2>1, <3>2 DEF ActiveFacts
    <3>3. QED
      BY <3>1, <3>2
  <2>2. ActiveLink'[i] = i
    BY <1>2 DEF ActiveFacts
  <2>3. QED
    BY <2>1, <2>2 DEF ActiveFacts
<1>4. {j \in Invitation : invStatus[j] # "absent"}'
        = {j \in Invitation : invStatus[j] # "absent"} \cup {i}
  BY <1>1, <1>2
<1>5. Links!Start(i)
  BY <1>3, <1>4 DEF Links!Start
<1>6. QED
  BY <1>5 DEF Links!FNext

LEMMA ExchangedRefines ==
  ASSUME TypeInv, LinkInv, ActiveFacts, ActiveFacts',
         NEW old \in Invitation, NEW i \in Invitation, Exchanged(old, i)
  PROVE  Links!FNext
<1>1. PICK g : g = root[old]
  OBVIOUS
<1>2. g \in Invitation
  BY <1>1 DEF LinkInv, RootInv, Exchanged
<1> USE DEF Exchanged, TypeInv, TypeOK
<1>3. /\ invStatus'[old] = "revoked" /\ invStatus'[i] = "active" /\ root'[i] = g
      /\ root'[old] = g
      /\ \A j \in Invitation \ {old, i} :
           invStatus'[j] = invStatus[j] /\ root'[j] = root[j]
  BY <1>1
<1>4. ActiveLink' = [ActiveLink EXCEPT ![g] = i]
  <2>1. ASSUME NEW f \in Invitation, f # g PROVE ActiveLink'[f] = ActiveLink[f]
    <3>1. CASE \E j \in Invitation : invStatus[j] = "active" /\ root[j] = f
      <4>1. PICK j \in Invitation \ {old, i} : invStatus[j] = "active" /\ root[j] = f
        BY <1>1, <2>1, <3>1
      <4>2. invStatus'[j] = "active" /\ root'[j] = f
        BY <1>3, <4>1
      <4>3. ActiveLink[f] = j
        BY <4>1 DEF ActiveFacts
      <4>4. ActiveLink'[f] = j
        BY <4>2 DEF ActiveFacts
      <4>5. QED
        BY <4>3, <4>4
    <3>2. CASE \A j \in Invitation : invStatus[j] = "active" => root[j] # f
      BY <1>3, <2>1, <3>2 DEF ActiveFacts
    <3>3. QED
      BY <3>1, <3>2
  <2>2. ActiveLink'[g] = i
    BY <1>3 DEF ActiveFacts
  <2>3. QED
    BY <1>2, <2>1, <2>2 DEF ActiveFacts
<1>5. {j \in Invitation : invStatus[j] # "absent"}'
        = {j \in Invitation : invStatus[j] # "absent"} \cup {i}
  BY <1>3
<1>6. ActiveLink[g] = old /\ old # None
  BY <1>1, NoneAssumption DEF ActiveFacts
<1>7. Links!Rotate(g, i)
  BY <1>4, <1>5, <1>6 DEF Links!Rotate
<1>8. QED
  BY <1>2, <1>7 DEF Links!FNext

\* The lineages without an active link afterwards are the ones that died.
LEMMA EndedRefines ==
  ASSUME TypeInv, LinkInv, ActiveFacts, ActiveFacts', Ended
  PROVE  Links!FNext
<1>1. PICK F \in SUBSET Invitation :
        F = {f \in Invitation :
               \A i \in Invitation : invStatus'[i] = "active" => root'[i] # f}
  OBVIOUS
<1>2. ASSUME NEW f \in Invitation
      PROVE  ActiveLink'[f] = IF f \in F THEN None ELSE ActiveLink[f]
  <2>1. CASE f \in F
    BY <1>1, <2>1 DEF ActiveFacts
  <2>2. CASE f \notin F
    <3>1. PICK i \in Invitation : invStatus'[i] = "active" /\ root'[i] = f
      BY <1>1, <2>2
    <3>2. invStatus[i] = "active" /\ root[i] = f
      BY <3>1 DEF Ended
    <3>3. QED
      BY <2>2, <3>1, <3>2 DEF ActiveFacts
  <2>3. QED
    BY <2>1, <2>2
<1>3. ActiveLink' = [f \in Invitation |-> IF f \in F THEN None ELSE ActiveLink[f]]
  BY <1>2 DEF ActiveFacts
<1>4. {j \in Invitation : invStatus[j] # "absent"}'
        = {j \in Invitation : invStatus[j] # "absent"}
  BY DEF Ended
<1>5. Links!Kill(F)
  BY <1>3, <1>4 DEF Links!Kill
<1>6. QED
  BY <1>5 DEF Links!FNext

\* Invitation links keep the promise of TokenFamily.
THEOREM LinksRefine == Spec => LinksImplementTokenFamily
<1>1. Init => Links!FInit
  BY DEF Init, Links!FInit, ActiveLink
<1>2. /\ TypeInv /\ LinkInv /\ (TypeInv /\ LinkInv)' /\ [Next]_vars
      => [Links!FNext]_Links!fvars
  <2>1. LinkInv' => ActiveFacts'
    BY ActiveLinkIsActive, PTL
  <2>2. TypeInv /\ LinkInv /\ [Next]_vars /\ ActiveFacts' => Links!FNext
    BY ActiveLinkIsActive, LinkSteps, BornRefines, ExchangedRefines, EndedRefines
  <2>3. QED
    BY <2>1, <2>2
<1>3. QED
  BY <1>1, <1>2, LinkInvariant, PTL DEF Spec, LinksImplementTokenFamily, Links!FSpec

-----------------------------------------------------------------------------
(* Admission by invitation *)

\* The steps that use an invitation up.
LEMMA AcceptSteps ==
  ASSUME TypeInv, [Next]_vars, NEW i \in Invitation,
         invStatus[i] # "accepted", invStatus'[i] = "accepted"
  PROVE  \E q \in Request : Redeem(q)
<1>1. ASSUME NEW q \in Request, NEW j \in Invitation,
             CreateLinkInvitation(q, j) \/ RotateInvitation(q, j)
      PROVE  FALSE
  BY <1>1 DEF CreateLinkInvitation, RotateInvitation, TypeInv, TypeOK
<1>2. ASSUME NEW q \in Request, SoftDelete(q) PROVE FALSE
  BY <1>2 DEF SoftDelete
<1>3. ASSUME NEW q \in Request, Arrive(q) \/ Wait(q) \/ Fail(q) PROVE FALSE
  BY <1>3 DEF Arrive, Authorize, LeaveBegin, AcceptBegin, Wait, LockOwner,
     RemoveMember, UpdateMemberRole, Fail, invVars
<1>4. ASSUME NEW q \in Request, Proceed(q), ~Redeem(q) PROVE FALSE
  BY <1>1, <1>2, <1>4 DEF Proceed, ReadTarget, CheckStatus, CheckActor,
     SelectOwners, CountOwners, CheckType, FindInvitation, CheckInviter, GetOrganization,
     SelectInvitations, Refuse, invVars
<1>5. CASE UNCHANGED vars
  BY <1>5 DEF vars
<1>6. QED
  BY <1>3, <1>4, <1>5 DEF Next, Bootstrap, Expire, invVars

\* A redemption admits its caller, by its invitation.
LEMMA RedeemAdmits ==
  ASSUME TypeInv, LinkInv, NEW q \in Request, Redeem(q)
  PROVE  LET r == req[q] IN
         /\ r.inv \in Invitation /\ r.org \in Org /\ r.actor \in User
         /\ Admits(r.inv, r.org, r.actor) /\ invStatus'[r.inv] = "accepted"
         /\ \A j \in Invitation \ {r.inv} : invStatus'[j] = invStatus[j]
         /\ \A o \in Org, u \in User :
              o # r.org \/ u # r.actor => kind'[o][u] = kind[o][u]
<1> DEFINE r == req[q]
<1>1. r.inv \in Invitation /\ r.org \in Org /\ r.actor \in User
  BY DEF Redeem, TypeInv, Shape
<1>2. invOrg[r.inv] = r.org /\ invKind[r.inv] = r.role
  BY DEF Redeem, LinkInv, RedeemInv
<1>3. kind'[r.org][r.actor] = r.role
  BY <1>1 DEF Redeem, TypeInv, TypeOK
<1>4. /\ invStatus'[r.inv] = "accepted"
      /\ \A j \in Invitation \ {r.inv} : invStatus'[j] = invStatus[j]
  BY <1>1 DEF Redeem, TypeInv, TypeOK
<1>5. \A o \in Org, u \in User :
        o # r.org \/ u # r.actor => kind'[o][u] = kind[o][u]
  BY <1>1 DEF Redeem, TypeInv, TypeOK
<1>6. QED
  BY <1>1, <1>2, <1>3, <1>4, <1>5 DEF Redeem, Admits

\* One invitation, one member: nobody comes in otherwise, and no invitation
\* is used up in vain.
THEOREM MembersAreInvited == Spec => AdmittedByInvitation
<1> DEFINE Joined(o, u) ==
             kind[o][u] = None /\ kind'[o][u] # None /\ orgStatus[o] # "absent"
           Used(i) == invStatus[i] # "accepted" /\ invStatus'[i] = "accepted"
           Fair == /\ \A o \in Org, u \in User :
                        Joined(o, u) => \E i \in Invitation :
                          Admits(i, o, u) /\ invStatus'[i] = "accepted"
                   /\ \A i \in Invitation :
                        Used(i) => \E o \in Org, u \in User : Admits(i, o, u)
<1>1. TypeInv /\ LinkInv /\ [Next]_vars => Fair
  <2> SUFFICES ASSUME TypeInv, LinkInv, [Next]_vars PROVE Fair
    OBVIOUS
  <2> USE NoneAssumption, KindAssumption
  <2>1. ASSUME NEW o \in Org, NEW u \in User, Joined(o, u)
        PROVE  \E i \in Invitation : Admits(i, o, u) /\ invStatus'[i] = "accepted"
    <3>1. ASSUME NEW p \in Org, NEW type \in {"personal", "business"},
                 NEW v \in User, Bootstrap(p, type, v)
          PROVE  FALSE
      BY <2>1, <3>1 DEF Bootstrap, TypeInv, TypeOK
    <3>2. ASSUME NEW q \in Request, RemoveMember(q) \/ UpdateMemberRole(q)
          PROVE  FALSE
      <4>1. req[q].org \in Org /\ req[q].target \in User
        BY <3>2 DEF RemoveMember, UpdateMemberRole, TypeInv, Shape, OwnerStep, OwnerRequest
      <4>2. CASE RemoveMember(q)
        BY <2>1, <4>1, <4>2 DEF RemoveMember, TypeInv, TypeOK
      <4>3. CASE UpdateMemberRole(q)
        BY <2>1, <4>1, <4>3 DEF UpdateMemberRole, TypeInv, TypeOK
      <4>4. QED
        BY <3>2, <4>2, <4>3
    <3>3. ASSUME NEW q \in Request, Redeem(q)
          PROVE  \E i \in Invitation : Admits(i, o, u) /\ invStatus'[i] = "accepted"
      BY <2>1, <3>3, RedeemAdmits
    <3>4. QED
      BY <2>1, <3>1, <3>2, <3>3, KindSteps
  <2>2. ASSUME NEW i \in Invitation, Used(i)
        PROVE  \E o \in Org, u \in User : Admits(i, o, u)
    BY <2>2, AcceptSteps, RedeemAdmits
  <2>3. QED
    BY <2>1, <2>2
<1>2. TypeInv /\ LinkInv /\ [Next]_vars => [Fair]_vars
  BY <1>1
<1>3. [][Fair]_vars => AdmittedByInvitation
  BY DEF AdmittedByInvitation
<1>4. QED
  BY <1>2, <1>3, LinkInvariant, PTL DEF Spec

-----------------------------------------------------------------------------
(* Personal organizations                                                  *)

\* Nothing refers to an organization before it is created.
AbsentInv ==
  \A o \in Org :
    orgStatus[o] = "absent" =>
      /\ \A u \in User : kind[o][u] = None
      /\ \A i \in Invitation : invOrg[i] # o
      /\ \A q \in Request : pc[q] # "idle" => req[q].org # o

\* How far a request gets on a personal organization: it is refused, or it
\* confirms the owner.
Harmless(q) ==
  LET o == req[q].org
      t == req[q].target IN
  \/ pc[q] \in {"read", "type", "find", "get"}
  \/ /\ pc[q] \in {"status", "actor", "count", "lock"}
     /\ seen[q] = "owner" /\ kind[o][t] = "owner"
  \/ /\ pc[q] = "write" /\ req[q].op = "assign" /\ req[q].role = "owner"
     /\ kind[o][t] = "owner"

HarmlessInv ==
  \A q \in Request :
    pc[q] # "idle" /\ orgType[req[q].org] = "personal" => Harmless(q)

SealInv == AbsentInv /\ HarmlessInv /\ PersonalOrgSealed

\* A step of q that changes no table SealInv is about.
LEMMA QuietSeal ==
  ASSUME TypeInv, SealInv, NEW q \in Request, OthersIdle(q),
         UNCHANGED <<orgStatus, orgType, kind, invOrg>>,
         \/ pc'[q] = "idle"
         \/ /\ orgStatus[req'[q].org] # "absent"
            /\ orgType[req'[q].org] = "personal" => Harmless(q)'
  PROVE  SealInv'
<1>1. AbsentInv'
  BY DEF SealInv, AbsentInv, OthersIdle
<1>2. HarmlessInv'
  BY DEF SealInv, HarmlessInv, Harmless, OthersIdle
<1>3. PersonalOrgSealed'
  BY DEF SealInv, PersonalOrgSealed
<1>4. QED
  BY <1>1, <1>2, <1>3 DEF SealInv

\* A last step of q on an organization that is not personal.
LEMMA BusinessStep ==
  ASSUME TypeInv, SealInv, NEW q \in Request, OthersIdle(q),
         pc[q] # "idle", pc'[q] = "idle", UNCHANGED orgType,
         orgType[req[q].org] # "personal", orgStatus'[req[q].org] # "absent",
         \A o \in Org \ {req[q].org} : orgStatus'[o] = orgStatus[o] /\ kind'[o] = kind[o],
         \A i \in Invitation : invOrg'[i] = invOrg[i] \/ invOrg'[i] = req[q].org
  PROVE  SealInv'
<1>1. AbsentInv'
  BY DEF SealInv, AbsentInv, OthersIdle
<1>2. HarmlessInv'
  <2> SUFFICES ASSUME NEW p \in Request, pc'[p] # "idle",
                      orgType[req'[p].org] = "personal"
               PROVE  Harmless(p)'
    BY DEF HarmlessInv
  <2>1. p # q /\ pc'[p] = pc[p] /\ req'[p] = req[p] /\ seen'[p] = seen[p]
    BY DEF OthersIdle
  <2>2. req[p].org \in Org /\ Harmless(p)
    BY <2>1 DEF SealInv, HarmlessInv, TypeInv, Shape
  <2>3. kind'[req[p].org] = kind[req[p].org]
    BY <2>1, <2>2
  <2>4. QED
    BY <2>1, <2>2, <2>3 DEF Harmless
<1>3. PersonalOrgSealed'
  BY DEF SealInv, PersonalOrgSealed
<1>4. QED
  BY <1>1, <1>2, <1>3 DEF SealInv

\* On a personal organization, everybody with a role is the owner.
LEMMA PersonalMember ==
  ASSUME SealInv, NEW o \in Org, orgType[o] = "personal"
  PROVE  /\ orgStatus[o] = "active"
         /\ \A u \in User : kind[o][u] # None => kind[o][u] = "owner"
         /\ \A u, v \in User : kind[o][u] = "owner" /\ kind[o][v] = "owner" => u = v
         /\ \A i \in Invitation : invOrg[i] # o
<1>1. PICK w \in User : kind[o] = [v \in User |-> IF v = w THEN "owner" ELSE None]
  BY DEF SealInv, PersonalOrgSealed
<1>2. QED
  BY <1>1, NoneAssumption, KindAssumption DEF SealInv, PersonalOrgSealed

\* Personal organizations stay sealed, step by step.
LEMMA NextSealInv == TypeInv /\ SealInv /\ [Next]_vars => SealInv'
<1> SUFFICES ASSUME TypeInv, SealInv, [Next]_vars PROVE SealInv'
  OBVIOUS
<1> USE NoneAssumption, KindAssumption
<1>0. \A q \in Request :
        pc[q] # "idle" => req[q].org \in Org /\ orgStatus[req[q].org] # "absent"
  BY DEF SealInv, AbsentInv, TypeInv, Shape
<1>1. ASSUME NEW o \in Org, NEW type \in {"personal", "business"}, NEW u \in User,
             Bootstrap(o, type, u)
      PROVE  SealInv'
  <2>1. /\ orgStatus[o] = "absent" /\ UNCHANGED <<invOrg, pc, req, seen>>
        /\ orgStatus' = [orgStatus EXCEPT ![o] = "active"]
        /\ orgType' = [orgType EXCEPT ![o] = type]
        /\ kind' = [kind EXCEPT ![o][u] = "owner"]
    BY <1>1 DEF Bootstrap, invVars, localVars
  <2>2. \A p \in Org \ {o} : /\ orgStatus'[p] = orgStatus[p]
                             /\ orgType'[p] = orgType[p] /\ kind'[p] = kind[p]
    BY <2>1 DEF TypeInv, TypeOK
  <2>3. /\ orgStatus'[o] = "active" /\ orgType'[o] = type
        /\ kind'[o] = [v \in User |-> IF v = u THEN "owner" ELSE None]
    <3>1. /\ kind \in [Org -> [User -> Kind \cup {None}]]
          /\ orgStatus \in [Org -> {"absent", "active", "deleted"}]
          /\ orgType \in [Org -> {"personal", "business"}]
      BY DEF TypeInv, TypeOK
    <3>2. \A v \in User : kind[o][v] = None
      BY <2>1 DEF SealInv, AbsentInv
    <3>3. kind[o] = [v \in User |-> None]
      BY <3>1, <3>2
    <3>4. kind'[o] = [kind[o] EXCEPT ![u] = "owner"]
      BY <2>1, <3>1
    <3>5. kind'[o] = [v \in User |-> IF v = u THEN "owner" ELSE None]
      BY <3>3, <3>4
    <3>6. QED
      BY <2>1, <3>1, <3>5
  <2>4. \A q \in Request : pc[q] # "idle" => req[q].org # o
    BY <2>1 DEF SealInv, AbsentInv
  <2>5. AbsentInv'
    BY <2>1, <2>2, <2>3 DEF SealInv, AbsentInv
  <2>6. HarmlessInv'
    <3> SUFFICES ASSUME NEW q \in Request, pc[q] # "idle",
                        orgType'[req[q].org] = "personal"
                 PROVE  Harmless(q)'
      BY <2>1 DEF HarmlessInv
    <3>1. req[q].org \in Org \ {o}
      BY <1>0, <2>4
    <3>2. Harmless(q) /\ kind'[req[q].org] = kind[req[q].org]
      BY <2>2, <3>1 DEF SealInv, HarmlessInv
    <3>3. QED
      BY <2>1, <3>2 DEF Harmless
  <2>7. PersonalOrgSealed'
    <3>1. \A i \in Invitation : invOrg'[i] # o
      BY <2>1 DEF SealInv, AbsentInv
    <3> SUFFICES ASSUME NEW p \in Org, orgType'[p] = "personal"
                 PROVE  /\ orgStatus'[p] = "active"
                        /\ \E w \in User :
                             kind'[p] = [v \in User |-> IF v = w THEN "owner" ELSE None]
                        /\ \A i \in Invitation : invOrg'[i] # p
      BY DEF PersonalOrgSealed
    <3>2. CASE p = o
      BY <2>3, <3>1, <3>2
    <3>3. CASE p # o
      <4>1. /\ orgStatus'[p] = orgStatus[p] /\ orgType'[p] = orgType[p]
            /\ kind'[p] = kind[p] /\ invOrg' = invOrg
        BY <2>1, <2>2, <3>3
      <4>2. QED
        BY <4>1 DEF SealInv, PersonalOrgSealed
    <3>4. QED
      BY <3>2, <3>3
  <2>8. QED
    BY <2>5, <2>6, <2>7 DEF SealInv
<1>2. ASSUME NEW q \in Request, NEW r \in Authorized, Authorize(q, r) PROVE SealInv'
  <2>1. /\ OthersIdle(q) /\ UNCHANGED <<orgStatus, orgType, kind, invOrg>>
        /\ req'[q] = r /\ orgStatus[r.org] # "absent"
    BY <1>2 DEF Authorize, OthersIdle, Goto, orgVars, invVars, TypeInv, TypeOK
  <2>2. pc'[q] \in {"read", "type", "find", "get"}
    BY <1>2, AuthorizedFields DEF Authorize, Goto, TypeInv, TypeOK
  <2>3. QED
    BY <2>1, <2>2, QuietSeal DEF Harmless
<1>3. ASSUME NEW q \in Request, NEW r \in Leaves, LeaveBegin(q, r) PROVE SealInv'
  <2>1. /\ OthersIdle(q) /\ UNCHANGED <<orgStatus, orgType, kind, invOrg>>
        /\ req'[q] = r /\ orgStatus[r.org] # "absent" /\ pc'[q] = "read"
    BY <1>3 DEF LeaveBegin, OthersIdle, Goto, orgVars, invVars, TypeInv, TypeOK
  <2>2. QED
    BY <2>1, QuietSeal DEF Harmless
<1>4. ASSUME NEW q \in Request, NEW r \in Accepts, AcceptBegin(q, r) PROVE SealInv'
  <2>1. /\ OthersIdle(q) /\ UNCHANGED <<orgStatus, orgType, kind, invOrg>>
        /\ req'[q] = r /\ orgStatus[r.org] # "absent"
    BY <1>4 DEF AcceptBegin, OthersIdle, Goto, orgVars, invVars, TypeInv, TypeOK
  <2>2. r.org \in Org /\ r.inv \in Invitation /\ invOrg[r.inv] = r.org
    BY <1>4, OtherFields DEF AcceptBegin
  <2>3. orgType[r.org] # "personal"
    BY <2>2, PersonalMember
  <2>4. QED
    BY <2>1, <2>3, QuietSeal
<1>5. ASSUME NEW q \in Request, ReadTarget(q) PROVE SealInv'
  <2>1. /\ OthersIdle(q) /\ UNCHANGED <<orgStatus, orgType, kind, invOrg, req>>
        /\ pc[q] = "read" /\ seen'[q] = kind[req[q].org][req[q].target]
        /\ seen'[q] # None
        /\ pc'[q] = IF req[q].op = "leave" THEN "status"
                    ELSE IF NeedsOwner(req[q], seen'[q]) THEN "actor" ELSE "write"
    BY <1>5 DEF ReadTarget, OthersIdle, Goto, orgVars, invVars, TypeInv, TypeOK
  <2>2. req[q].org \in Org /\ req[q].target \in User
    BY <2>1 DEF TypeInv, Shape, OwnerStep, OwnerRequest
  <2>3. ASSUME orgType[req[q].org] = "personal" PROVE Harmless(q)'
    <3>1. seen'[q] = "owner"
      BY <2>1, <2>2, <2>3, PersonalMember
    <3>2. pc'[q] \in {"status", "actor"}
      BY <2>1, <3>1 DEF NeedsOwner
    <3>3. QED
      BY <2>1, <3>1, <3>2 DEF Harmless
  <2>4. QED
    BY <1>0, <2>1, <2>3, QuietSeal
<1>6. ASSUME NEW q \in Request, CheckStatus(q) PROVE SealInv'
  <2>1. /\ OthersIdle(q) /\ UNCHANGED <<orgStatus, orgType, kind, invOrg, req, seen>>
        /\ pc[q] = "status"
        /\ pc'[q] = IF NeedsCount(req[q], seen[q]) THEN "count" ELSE "write"
    BY <1>6 DEF CheckStatus, OthersIdle, Goto, orgVars, invVars, TypeInv, TypeOK
  <2>2. OwnerRequest(req[q])
    BY <2>1 DEF TypeInv, Shape, OwnerStep
  <2>3. ASSUME orgType[req[q].org] = "personal" PROVE Harmless(q)'
    <3>1. seen[q] = "owner" /\ kind[req[q].org][req[q].target] = "owner"
      BY <2>1, <2>3 DEF SealInv, HarmlessInv, Harmless
    <3>2. pc'[q] = "count" \/ (pc'[q] = "write" /\ req[q].role = "owner")
      BY <2>1, <3>1 DEF NeedsCount
    <3>3. req[q].role = "owner" => req[q].op = "assign"
      BY <2>2 DEF OwnerRequest
    <3>4. QED
      BY <2>1, <3>1, <3>2, <3>3 DEF Harmless
  <2>4. QED
    BY <1>0, <2>1, <2>3, QuietSeal
<1>7. ASSUME NEW q \in Request, CheckActor(q) PROVE SealInv'
  <2>1. /\ OthersIdle(q) /\ UNCHANGED <<orgStatus, orgType, kind, invOrg, req, seen>>
        /\ pc[q] = "actor"
        /\ pc'[q] = IF NeedsCount(req[q], seen[q]) THEN "count" ELSE "write"
    BY <1>7 DEF CheckActor, OthersIdle, Goto, orgVars, invVars, TypeInv, TypeOK
  <2>2. OwnerRequest(req[q])
    BY <2>1 DEF TypeInv, Shape, OwnerStep
  <2>3. ASSUME orgType[req[q].org] = "personal" PROVE Harmless(q)'
    <3>1. seen[q] = "owner" /\ kind[req[q].org][req[q].target] = "owner"
      BY <2>1, <2>3 DEF SealInv, HarmlessInv, Harmless
    <3>2. pc'[q] = "count" \/ (pc'[q] = "write" /\ req[q].role = "owner")
      BY <2>1, <3>1 DEF NeedsCount
    <3>3. req[q].role = "owner" => req[q].op = "assign"
      BY <2>2 DEF OwnerRequest
    <3>4. QED
      BY <2>1, <3>1, <3>2, <3>3 DEF Harmless
  <2>4. QED
    BY <1>0, <2>1, <2>3, QuietSeal
<1>8. ASSUME NEW q \in Request, SelectOwners(q) PROVE SealInv'
  <2>1. /\ OthersIdle(q) /\ UNCHANGED <<orgStatus, orgType, kind, invOrg, req, seen>>
        /\ pc[q] = "count" /\ pc'[q] = "lock"
    BY <1>8 DEF SelectOwners, OthersIdle, Goto, orgVars, invVars, TypeInv, TypeOK
  <2>2. orgType[req[q].org] = "personal" => Harmless(q)'
    BY <2>1 DEF SealInv, HarmlessInv, Harmless
  <2>3. QED
    BY <1>0, <2>1, <2>2, QuietSeal
<1>9. ASSUME NEW q \in Request, NEW u \in User, LockOwner(q, u) PROVE SealInv'
  <2>1. /\ OthersIdle(q) /\ pc[q] = "lock"
        /\ UNCHANGED <<orgStatus, orgType, kind, invOrg, pc, req, seen>>
    BY <1>9 DEF LockOwner, OthersIdle, orgVars, invVars
  <2>2. orgType[req[q].org] = "personal" => Harmless(q)'
    BY <2>1 DEF SealInv, HarmlessInv, Harmless
  <2>3. QED
    BY <1>0, <2>1, <2>2, QuietSeal
<1>9a. ASSUME NEW q \in Request, CountOwners(q) PROVE SealInv'
  <2>1. UNCHANGED <<orgStatus, orgType, kind, invOrg>> /\ pc[q] = "lock"
    BY <1>9a DEF CountOwners, orgVars, invVars
  <2>2. CASE Answer(q)
    <3>1. OthersIdle(q) /\ pc'[q] = "idle"
      BY <2>2 DEF Answer, Goto, OthersIdle, TypeInv, TypeOK
    <3>2. QED
      BY <2>1, <3>1, QuietSeal
  <2>3. CASE /\ \E u, v \in Counted(q) : u # v
             /\ Goto(q, "write") /\ UNCHANGED <<req, seen, lock>>
    <3>1. OthersIdle(q)
      BY <2>3 DEF Goto, OthersIdle, TypeInv, TypeOK
    <3>2. orgType[req[q].org] # "personal"
      BY <1>0, <2>1, <2>3, PersonalMember DEF Counted, Owners
    <3>3. QED
      BY <1>0, <2>1, <2>3, <3>1, <3>2, QuietSeal
  <2>4. QED
    BY <1>9a, <2>2, <2>3 DEF CountOwners
<1>10. ASSUME NEW q \in Request, RemoveMember(q) PROVE SealInv'
  <2>1. OthersIdle(q) /\ pc[q] # "idle" /\ pc'[q] = "idle" /\ UNCHANGED orgType
    BY <1>10 DEF RemoveMember, OthersIdle, Answer, Goto, orgVars, TypeInv, TypeOK
  <2>2. orgType[req[q].org] # "personal"
    BY <1>10 DEF RemoveMember, SealInv, HarmlessInv, Harmless
  <2>3. /\ orgStatus'[req[q].org] # "absent"
        /\ \A o \in Org \ {req[q].org} :
             orgStatus'[o] = orgStatus[o] /\ kind'[o] = kind[o]
        /\ \A i1 \in Invitation : invOrg'[i1] = invOrg[i1] \/ invOrg'[i1] = req[q].org
    BY <1>0, <1>10, <2>1 DEF RemoveMember, orgVars, invVars, TypeInv, TypeOK
  <2>4. QED
    BY <2>1, <2>2, <2>3, BusinessStep
<1>11. ASSUME NEW q \in Request, UpdateMemberRole(q) PROVE SealInv'
  <2>1. /\ OthersIdle(q) /\ pc[q] = "write" /\ pc'[q] = "idle"
        /\ UNCHANGED <<orgStatus, orgType, invOrg>>
    BY <1>11 DEF UpdateMemberRole, OthersIdle, Answer, Goto, orgVars, invVars, TypeInv, TypeOK
  <2>2. CASE orgType[req[q].org] = "personal"
    <3>1. req[q].role = "owner" /\ kind[req[q].org][req[q].target] = "owner"
      BY <2>1, <2>2 DEF SealInv, HarmlessInv, Harmless
    <3>2. /\ kind \in [Org -> [User -> Kind \cup {None}]]
          /\ req[q].org \in Org /\ req[q].target \in User
      BY <2>1 DEF TypeInv, TypeOK, Shape, OwnerStep, OwnerRequest
    <3>3. kind' = [kind EXCEPT ![req[q].org][req[q].target] = "owner"]
      BY <1>11, <3>1 DEF UpdateMemberRole
    <3>4. [kind[req[q].org] EXCEPT ![req[q].target] = "owner"] = kind[req[q].org]
      BY <3>1, <3>2
    <3>5. UNCHANGED kind
      BY <3>2, <3>3, <3>4
    <3>6. QED
      BY <2>1, <3>5, QuietSeal
  <2>3. CASE orgType[req[q].org] # "personal"
    <3>1. \A o \in Org \ {req[q].org} : kind'[o] = kind[o]
      BY <1>11 DEF UpdateMemberRole, TypeInv, TypeOK
    <3>2. QED
      BY <1>0, <2>1, <2>3, <3>1, BusinessStep
  <2>4. QED
    BY <2>2, <2>3
<1>12. ASSUME NEW q \in Request, CheckType(q) PROVE SealInv'
  <2>1. /\ OthersIdle(q) /\ UNCHANGED <<orgStatus, orgType, kind, invOrg, req>>
        /\ pc[q] # "idle" /\ orgType[req[q].org] # "personal"
    BY <1>12 DEF CheckType, OthersIdle, Goto, orgVars, invVars, TypeInv, TypeOK
  <2>2. QED
    BY <1>0, <2>1, QuietSeal
<1>13. ASSUME NEW q \in Request, GetOrganization(q) PROVE SealInv'
  <2>1. /\ OthersIdle(q) /\ UNCHANGED <<orgStatus, orgType, kind, invOrg, req>>
        /\ pc[q] # "idle" /\ orgType[req[q].org] # "personal"
    BY <1>13 DEF GetOrganization, OthersIdle, Goto, orgVars, invVars, TypeInv, TypeOK
  <2>2. QED
    BY <1>0, <2>1, QuietSeal
<1>14. ASSUME NEW q \in Request, FindInvitation(q) PROVE SealInv'
  <2>1. /\ OthersIdle(q) /\ UNCHANGED <<orgStatus, orgType, kind, invOrg, req>>
        /\ pc[q] = "find" /\ invOrg[req[q].inv] = req[q].org
    BY <1>14 DEF FindInvitation, OthersIdle, Goto, orgVars, invVars, TypeInv, TypeOK
  <2>2. req[q].inv \in Invitation
    BY <2>1 DEF TypeInv, Shape, RotateRequest
  <2>3. orgType[req[q].org] # "personal"
    BY <1>0, <2>1, <2>2, PersonalMember
  <2>4. QED
    BY <1>0, <2>1, <2>3, QuietSeal
<1>15. ASSUME NEW q \in Request, CheckInviter(q) PROVE SealInv'
  <2>1. /\ OthersIdle(q) /\ UNCHANGED <<orgStatus, orgType, kind, invOrg, req>>
        /\ pc[q] \in {"inviter", "select"}
    BY <1>15 DEF CheckInviter, OthersIdle, Goto, orgVars, invVars, TypeInv, TypeOK
  <2>2. orgType[req[q].org] # "personal"
    BY <2>1 DEF SealInv, HarmlessInv, Harmless
  <2>3. QED
    BY <1>0, <2>1, <2>2, QuietSeal
<1>16. ASSUME NEW q \in Request, SelectInvitations(q) PROVE SealInv'
  <2>1. /\ OthersIdle(q) /\ UNCHANGED <<orgStatus, orgType, kind, invOrg, req>>
        /\ pc[q] \in {"inviter", "select"}
    BY <1>16 DEF SelectInvitations, OthersIdle, Goto, orgVars, invVars, TypeInv, TypeOK
  <2>2. orgType[req[q].org] # "personal"
    BY <2>1 DEF SealInv, HarmlessInv, Harmless
  <2>3. QED
    BY <1>0, <2>1, <2>2, QuietSeal
<1>17. ASSUME NEW q \in Request, NEW i \in Invitation, CreateLinkInvitation(q, i) PROVE SealInv'
  <2>1. OthersIdle(q) /\ pc[q] # "idle" /\ pc'[q] = "idle" /\ UNCHANGED orgType
    BY <1>17 DEF CreateLinkInvitation, OthersIdle, Answer, Goto, orgVars, TypeInv, TypeOK
  <2>2. orgType[req[q].org] # "personal"
    BY <1>17 DEF CreateLinkInvitation, SealInv, HarmlessInv, Harmless
  <2>3. /\ orgStatus'[req[q].org] # "absent"
        /\ \A o \in Org \ {req[q].org} :
             orgStatus'[o] = orgStatus[o] /\ kind'[o] = kind[o]
        /\ \A i1 \in Invitation : invOrg'[i1] = invOrg[i1] \/ invOrg'[i1] = req[q].org
    BY <1>0, <1>17, <2>1 DEF CreateLinkInvitation, InsertInvitation, orgVars, invVars, TypeInv, TypeOK
  <2>4. QED
    BY <2>1, <2>2, <2>3, BusinessStep
<1>18. ASSUME NEW q \in Request, NEW i \in Invitation, RotateInvitation(q, i) PROVE SealInv'
  <2>1. OthersIdle(q) /\ pc[q] # "idle" /\ pc'[q] = "idle" /\ UNCHANGED orgType
    BY <1>18 DEF RotateInvitation, OthersIdle, Answer, Goto, orgVars, TypeInv, TypeOK
  <2>2. orgType[req[q].org] # "personal"
    BY <1>18 DEF RotateInvitation, SealInv, HarmlessInv, Harmless
  <2>3. /\ orgStatus'[req[q].org] # "absent"
        /\ \A o \in Org \ {req[q].org} :
             orgStatus'[o] = orgStatus[o] /\ kind'[o] = kind[o]
        /\ \A i1 \in Invitation : invOrg'[i1] = invOrg[i1] \/ invOrg'[i1] = req[q].org
    BY <1>0, <1>18, <2>1 DEF RotateInvitation, InsertInvitation, orgVars, invVars, TypeInv, TypeOK
  <2>4. QED
    BY <2>1, <2>2, <2>3, BusinessStep
<1>19. ASSUME NEW q \in Request, Redeem(q) PROVE SealInv'
  <2>1. OthersIdle(q) /\ pc[q] # "idle" /\ pc'[q] = "idle" /\ UNCHANGED orgType
    BY <1>19 DEF Redeem, OthersIdle, Answer, Goto, orgVars, TypeInv, TypeOK
  <2>2. orgType[req[q].org] # "personal"
    BY <1>19 DEF Redeem, SealInv, HarmlessInv, Harmless
  <2>3. /\ orgStatus'[req[q].org] # "absent"
        /\ \A o \in Org \ {req[q].org} :
             orgStatus'[o] = orgStatus[o] /\ kind'[o] = kind[o]
        /\ \A i1 \in Invitation : invOrg'[i1] = invOrg[i1] \/ invOrg'[i1] = req[q].org
    BY <1>0, <1>19, <2>1 DEF Redeem, orgVars, invVars, TypeInv, TypeOK
  <2>4. QED
    BY <2>1, <2>2, <2>3, BusinessStep
<1>20. ASSUME NEW q \in Request, SoftDelete(q) PROVE SealInv'
  <2>1. OthersIdle(q) /\ pc[q] # "idle" /\ pc'[q] = "idle" /\ UNCHANGED orgType
    BY <1>20 DEF SoftDelete, OthersIdle, Answer, Goto, orgVars, TypeInv, TypeOK
  <2>2. orgType[req[q].org] # "personal"
    BY <1>20 DEF SoftDelete, SealInv, HarmlessInv, Harmless
  <2>3. /\ orgStatus'[req[q].org] # "absent"
        /\ \A o \in Org \ {req[q].org} :
             orgStatus'[o] = orgStatus[o] /\ kind'[o] = kind[o]
        /\ \A i1 \in Invitation : invOrg'[i1] = invOrg[i1] \/ invOrg'[i1] = req[q].org
    BY <1>0, <1>20, <2>1 DEF SoftDelete, orgVars, invVars, TypeInv, TypeOK
  <2>4. QED
    BY <2>1, <2>2, <2>3, BusinessStep
<1>21. ASSUME NEW q \in Request, Refuse(q) PROVE SealInv'
  <2>1. /\ OthersIdle(q) /\ UNCHANGED <<orgStatus, orgType, kind, invOrg>>
        /\ pc'[q] = "idle"
    BY <1>21 DEF Refuse, OthersIdle, Answer, Goto, orgVars, invVars, TypeInv, TypeOK
  <2>2. QED
    BY <2>1, QuietSeal
<1>22. ASSUME NEW q \in Request, Fail(q) PROVE SealInv'
  <2>1. /\ OthersIdle(q) /\ UNCHANGED <<orgStatus, orgType, kind, invOrg>>
        /\ pc'[q] = "idle"
    BY <1>22 DEF Fail, OthersIdle, Answer, Goto, orgVars, invVars, TypeInv, TypeOK
  <2>2. QED
    BY <2>1, QuietSeal
<1>23. ASSUME NEW i \in Invitation, Expire(i) PROVE SealInv'
  BY <1>23 DEF Expire, SealInv, AbsentInv, HarmlessInv, Harmless,
     PersonalOrgSealed, orgVars, invVars, localVars
<1>24. CASE UNCHANGED vars
  BY <1>24 DEF vars, SealInv, AbsentInv, HarmlessInv, Harmless, PersonalOrgSealed
<1>25. QED
  BY <1>1, <1>2, <1>3, <1>4, <1>5, <1>6, <1>7, <1>8, <1>9, <1>9a, <1>10, <1>11, <1>12, <1>13, <1>14, <1>15, <1>16, <1>17, <1>18, <1>19, <1>20, <1>21, <1>22, <1>23, <1>24
     DEF Next, Arrive, Wait, Proceed

\* A personal organization stays what Register made it.
THEOREM PersonalOrgsStaySealed == Spec => []PersonalOrgSealed
<1>1. Init => SealInv
  BY NoneAssumption DEF Init, SealInv, AbsentInv, HarmlessInv, PersonalOrgSealed
<1>2. SealInv => PersonalOrgSealed
  BY DEF SealInv
<1>3. QED
  BY <1>1, <1>2, InitTypeInv, NextTypeInv, NextSealInv, PTL DEF Spec

=============================================================================
