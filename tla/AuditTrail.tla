----------------------------- MODULE AuditTrail -----------------------------
(***************************************************************************)
(* The two trails the service keeps, audit_logs and authz_decisions, and   *)
(* how they are read.  A trail is written beside the work it describes,    *)
(* never in its transaction: a decision before the handler runs            *)
(* (internal/middleware/authz.go), an audit entry after the commit         *)
(* (internal/auth/service.go).  A write that fails is logged and the       *)
(* request goes on.                                                        *)
(*                                                                         *)
(* created_at defaults to NOW(), the time the INSERT starts; the row can   *)
(* be read when the INSERT commits, so rows appear out of the order of     *)
(* their stamps and two rows may share one.  A reader takes the decisions  *)
(* of its organization page by page with LIMIT and OFFSET, and every page  *)
(* it asks for is itself a protected request that adds a decision.         *)
(*                                                                         *)
(* Only the registration entry names an organization, so decisions are     *)
(* the trail that pages; the two list queries are the same.                *)
(*                                                                         *)
(* A request whose client leaves or whose process dies is one that takes   *)
(* no further step, so nothing here has to be done.                        *)
(***************************************************************************)
EXTENDS Integers, FiniteSets

CONSTANTS
  Requests,      \* the requests, each of one kind
  Pagers,        \* the ones that page, each by the requests of one client
  DefaultLimit,  \* the page size when the query names none that is allowed
  MaxLimit,      \* the largest page size a query may ask for
  Wants,         \* the limits clients ask for, allowed or not
  NoRow,         \* no row under way
  MaxTurns,      \* bound: the pages one client asks for
  MaxClock       \* bound: the last stamp

ASSUME LimitsAssumption ==
  /\ Pagers \subseteq Requests
  /\ DefaultLimit \in Nat \ {0}
  /\ MaxLimit \in Nat \ {0}
  /\ Wants \subseteq Int
  /\ MaxTurns \in Nat
  /\ MaxClock \in Nat
  /\ NoRow \notin [of : Requests, turn : Nat, allowed : BOOLEAN, created_at : Nat]

VARIABLES
  pc,         \* where each request is, and how it was answered
  kind,       \* what each request asks for
  effect,     \* whether its change is in the database
  logged,     \* the failures it wrote to the service's log
  row,        \* the decision it is writing
  audit,      \* the requests that have a row in audit_logs
  decisions,  \* the rows of authz_decisions
  clock,      \* the database's clock
  turn,       \* how many pages a paging client has had
  offset,     \* the offset it asks for next
  owed,       \* the decisions there when it read its first page
  seen        \* the decisions it has been shown

vars == <<pc, kind, effect, logged, row, audit, decisions, clock, turn,
          offset, owed, seen>>

(***************************************************************************)
(* "register", "login" and "replay" reach audit.Service.Log; "change" and  *)
(* "page" pass the permission check, a page with audit_log.view.           *)
(***************************************************************************)
Audited == {"register", "login", "replay"}
Protected == {"change", "page"}
Kinds == Audited \cup Protected

Answered == {"ok", "forbidden", "refused", "failed"}
PC == {"start", "recording", "handler", "logging"} \cup Answered

Decision == [of : Requests, turn : 0..MaxTurns, allowed : BOOLEAN,
             created_at : 0..MaxClock]

(***************************************************************************)
(* What a statement did and what its caller heard: a timeout or a cut      *)
(* connection reports as failed what may have been committed.              *)
(***************************************************************************)
Outcome == {o \in [done : BOOLEAN, err : BOOLEAN] : o.done \/ o.err}

paging == <<turn, offset, owed, seen>>

Init ==
  /\ pc = [q \in Requests |-> "start"]
  /\ kind \in [Requests -> Kinds]
  /\ \A q \in Requests : kind[q] = "page" <=> q \in Pagers
  /\ effect = [q \in Requests |-> FALSE]
  /\ logged = [q \in Requests |-> {}]
  /\ row = [q \in Requests |-> NoRow]
  /\ audit = {}
  /\ decisions = {}
  /\ clock = 0
  /\ turn = [q \in Requests |-> 0]
  /\ offset = [q \in Requests |-> 0]
  /\ owed = [q \in Requests |-> {}]
  /\ seen = [q \in Requests |-> {}]

-----------------------------------------------------------------------------
(* The permission check and the decision it leaves.                        *)

\* A build that stamps the row itself, on a machine whose clock is ahead.
CheckPermissionOwnClock(q) ==
  /\ pc[q] = "start"
  /\ kind[q] \in Protected
  /\ turn[q] < MaxTurns
  /\ \E allowed \in BOOLEAN :
       row' = [row EXCEPT ![q] = [of |-> q, turn |-> turn[q],
                                  allowed |-> allowed, created_at |-> clock + 1]]
  /\ pc' = [pc EXCEPT ![q] = "recording"]
  /\ UNCHANGED <<kind, effect, logged, audit, decisions, clock, paging>>

(***************************************************************************)
(* The check answers and the INSERT of the decision starts, which fixes    *)
(* its stamp; nothing of the request happens between the two.              *)
(***************************************************************************)
CheckPermission(q) ==
  /\ pc[q] = "start"
  /\ kind[q] \in Protected
  /\ turn[q] < MaxTurns
  /\ \E allowed \in BOOLEAN :
       row' = [row EXCEPT ![q] = [of |-> q, turn |-> turn[q],
                                  allowed |-> allowed, created_at |-> clock]]
  /\ pc' = [pc EXCEPT ![q] = "recording"]
  /\ UNCHANGED <<kind, effect, logged, audit, decisions, clock, paging>>

\* The check's query fails: 500, and no decision is recorded.
CheckFails(q) ==
  /\ pc[q] = "start"
  /\ kind[q] \in Protected
  /\ pc' = [pc EXCEPT ![q] = "failed"]
  /\ UNCHANGED <<kind, effect, logged, row, audit, decisions,
                 clock, paging>>

\* A build that lets a denied request through when its decision is not kept.
RecordDecisionFailsOpen(q) ==
  /\ pc[q] = "recording"
  /\ \E o \in Outcome :
       /\ decisions' = IF o.done THEN decisions \cup {row[q]}
                                 ELSE decisions
       /\ logged' = IF o.err THEN [logged EXCEPT ![q] = @ \cup {"decision"}]
                             ELSE logged
       /\ pc' = [pc EXCEPT ![q] = IF row[q].allowed \/ o.err THEN "handler"
                                                         ELSE "forbidden"]
  /\ row' = [row EXCEPT ![q] = NoRow]
  /\ UNCHANGED <<kind, effect, audit, clock, paging>>

\* A build that drops the error of a failed write.
RecordDecisionSilently(q) ==
  /\ pc[q] = "recording"
  /\ \E o \in Outcome :
       decisions' = IF o.done THEN decisions \cup {row[q]}
                              ELSE decisions
  /\ pc' = [pc EXCEPT ![q] = IF row[q].allowed THEN "handler" ELSE "forbidden"]
  /\ row' = [row EXCEPT ![q] = NoRow]
  /\ UNCHANGED <<kind, effect, logged, audit, clock, paging>>

\* The decision is kept or its loss is logged; the answer does not depend on it.
RecordDecision(q) ==
  /\ pc[q] = "recording"
  /\ \E o \in Outcome :
       /\ decisions' = IF o.done THEN decisions \cup {row[q]}
                                 ELSE decisions
       /\ logged' = IF o.err THEN [logged EXCEPT ![q] = @ \cup {"decision"}]
                             ELSE logged
  /\ pc' = [pc EXCEPT ![q] = IF row[q].allowed THEN "handler" ELSE "forbidden"]
  /\ row' = [row EXCEPT ![q] = NoRow]
  /\ UNCHANGED <<kind, effect, audit, clock, paging>>

\* The handler of a change: its transaction, and the answer.
Handle(q) ==
  /\ pc[q] = "handler"
  /\ kind[q] = "change"
  /\ \E o \in Outcome :
       /\ effect' = [effect EXCEPT ![q] = o.done]
       /\ pc' = [pc EXCEPT ![q] = IF o.err THEN "failed" ELSE "ok"]
  /\ UNCHANGED <<kind, logged, row, audit, decisions, clock, paging>>

-----------------------------------------------------------------------------
(* The operations that write an audit entry once their work is done.       *)

\* Register's transaction, or the INSERT of Login's session: a failure is the
\* answer, and then no entry is written.
Commit(q) ==
  /\ pc[q] = "start"
  /\ kind[q] \in {"register", "login"}
  /\ \E o \in Outcome :
       /\ effect' = [effect EXCEPT ![q] = o.done]
       /\ pc' = [pc EXCEPT ![q] = IF o.err THEN "failed" ELSE "logging"]
  /\ UNCHANGED <<kind, logged, row, audit, decisions, clock, paging>>

\* A replayed token: the family is revoked, or the failure is logged; the
\* entry is written either way.
RevokeFamily(q) ==
  /\ pc[q] = "start"
  /\ kind[q] = "replay"
  /\ \E o \in Outcome :
       /\ effect' = [effect EXCEPT ![q] = o.done]
       /\ logged' = IF o.err THEN [logged EXCEPT ![q] = @ \cup {"revoke"}]
                             ELSE logged
  /\ pc' = [pc EXCEPT ![q] = "logging"]
  /\ UNCHANGED <<kind, row, audit, decisions, clock, paging>>

\* audit.Service.Log: the entry is kept or its loss is logged, and the answer
\* is what it would have been.
Log(q) ==
  /\ pc[q] = "logging"
  /\ \E o \in Outcome :
       /\ audit' = IF o.done THEN audit \cup {q} ELSE audit
       /\ logged' = IF o.err THEN [logged EXCEPT ![q] = @ \cup {"entry"}]
                             ELSE logged
  /\ pc' = [pc EXCEPT ![q] = IF kind[q] = "replay" THEN "refused" ELSE "ok"]
  /\ UNCHANGED <<kind, effect, row, decisions, clock, paging>>

-----------------------------------------------------------------------------
(* Reading the decisions page by page.                                     *)

\* The limit a query gets: the one it names if that is allowed, or the default.
ParsePagination(want) == IF want \in 1..MaxLimit THEN want ELSE DefaultLimit

\* A build whose query has no ORDER BY.
FirstAnyOrder(n) ==
  {U \in SUBSET decisions : \/ Cardinality(U) = n
                            \/ U = decisions /\ Cardinality(decisions) < n}

\* What may stand in the first n rows, newest first: rows of one stamp stand in
\* any order, and another one in the next query.
First(n) ==
  {U \in SUBSET decisions :
     /\ \/ Cardinality(U) = n
        \/ U = decisions /\ Cardinality(decisions) < n
     /\ \A d \in U, e \in decisions \ U : d.created_at >= e.created_at}

\* The pages LIMIT limit OFFSET off may return.
ListForOrg(limit, off) ==
  {p[2] \ p[1] : p \in {t \in First(off) \X First(off + limit) : t[1] \subseteq t[2]}}

\* The list handler answers with a page.  The client steps on by the rows it
\* got and asks again, until a page is empty.
List(q) ==
  /\ pc[q] = "handler"
  /\ kind[q] = "page"
  /\ \E want \in Wants : \E rows \in ListForOrg(ParsePagination(want), offset[q]) :
       /\ seen' = [seen EXCEPT ![q] = @ \cup rows]
       /\ offset' = [offset EXCEPT ![q] = @ + Cardinality(rows)]
       /\ pc' = [pc EXCEPT ![q] = IF rows = {} THEN "ok" ELSE "start"]
  /\ turn' = [turn EXCEPT ![q] = @ + 1]
  /\ owed' = [owed EXCEPT ![q] = IF turn[q] = 0 THEN decisions ELSE @]
  /\ UNCHANGED <<kind, effect, logged, row, audit, decisions, clock>>

\* The list query fails: 500, and the client stops.
ListFails(q) ==
  /\ pc[q] = "handler"
  /\ kind[q] = "page"
  /\ pc' = [pc EXCEPT ![q] = "failed"]
  /\ UNCHANGED <<kind, effect, logged, row, audit, decisions, clock, paging>>

-----------------------------------------------------------------------------
\* The database's clock goes on.
Tick ==
  /\ clock < MaxClock
  /\ clock' = clock + 1
  /\ UNCHANGED <<pc, kind, effect, logged, row, audit, decisions,
                 paging>>

Next ==
  \/ \E q \in Requests :
       \/ CheckPermission(q) \/ CheckFails(q) \/ RecordDecision(q) \/ Handle(q)
       \/ Commit(q) \/ RevokeFamily(q) \/ Log(q)
       \/ List(q) \/ ListFails(q)
  \/ Tick

Spec == Init /\ [][Next]_vars

-----------------------------------------------------------------------------
(* What the trails promise.                                                *)

\* The variables have their types, and no row is stamped ahead of the clock.
TypeOK ==
  /\ pc \in [Requests -> PC]
  /\ kind \in [Requests -> Kinds]
  /\ effect \in [Requests -> BOOLEAN]
  /\ logged \in [Requests -> SUBSET {"decision", "revoke", "entry"}]
  /\ row \in [Requests -> Decision \cup {NoRow}]
  /\ \A q \in Requests :
       IF pc[q] = "recording"
       THEN row[q] \in Decision /\ row[q].of = q /\ row[q].created_at <= clock
       ELSE row[q] = NoRow
  /\ audit \subseteq Requests
  /\ decisions \subseteq Decision
  /\ clock \in 0..MaxClock
  /\ turn \in [Requests -> 0..MaxTurns]
  /\ \A q \in Requests : pc[q] \in {"recording", "handler"} => turn[q] < MaxTurns
  /\ offset \in [Requests -> Nat]
  /\ owed \in [Requests -> SUBSET decisions]
  /\ seen \in [Requests -> SUBSET decisions]

\* No trail tells what did not happen: an entry of a registration or a login
\* stands for a committed one, the entry of a replay for a revoked family or a
\* logged failure to revoke it (service.go:121-137, 337-364), and a request
\* recorded as denied changed nothing (authz.go:44-60).
TrailTellsTruth ==
  /\ \A q \in audit : effect[q] \/ (kind[q] = "replay" /\ "revoke" \in logged[q])
  /\ \A d \in decisions : d.allowed \/ ~effect[d.of]

\* No trail is silent: a change has its allowing decision, a refusal its denying
\* one, and a finished registration, login or replay its entry, unless the
\* service logged that the write failed (authz.go:46-54, service.go:125-137).
MissesAreLogged ==
  \A q \in Requests :
    /\ (kind[q] = "change" /\ effect[q]) \/ pc[q] = "forbidden"
         => \/ \E d \in decisions : d.of = q /\ (d.allowed <=> effect[q])
            \/ "decision" \in logged[q]
    /\ kind[q] \in Audited /\ pc[q] \in {"ok", "refused"}
         => q \in audit \/ "entry" \in logged[q]

\* No other row has the stamp of decision d.
AloneAt(d) == \A e \in decisions : e.created_at = d.created_at => e = d

\* A client that pages to the end is shown every decision there was when it
\* began, whatever was appended meanwhile and in whatever order it became
\* visible, its own requests included; only rows of one and the same stamp may
\* trade places between two pages (authz/repository.go:43-49).
NothingMissed ==
  \A q \in Requests :
    kind[q] = "page" /\ pc[q] = "ok" =>
      \A d \in owed[q] : AloneAt(d) => d \in seen[q]
=============================================================================
