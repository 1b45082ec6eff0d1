# Verification of the multi-tenant authorization service

TLA+ models of this service, the TLC runs that check them on small instances
and the TLAPS proofs of what holds on every instance.  Paths are relative to
the repository; line numbers are in `PROJECT.json` ("map").

## The system

A stateless Go HTTP server in front of PostgreSQL.  All lasting state is in
tables; every request runs in a goroutine of its own.  Two requests meet in the
database, under its default isolation READ COMMITTED, and in three places of the
process: the connection pool, the rate limiter's map and the readiness flag.
What is hard is therefore what happens between two statements of one request,
what a client's cookies have become by the time an answer arrives, and how the
process starts, stops and is replaced under load.

| Component | State | Operations | Interacts through | Hard because | Correct when |
|---|---|---|---|---|---|
| Sessions (`internal/auth`) | `users`, `sessions` | Register, Login, Refresh, Logout, LogoutAll, ListSessions | rows of `sessions`, row locks; calls `organization.Bootstrap` inside Register's transaction; writes audit entries after the commit | one token presented many times at once, revocation of many rows against rotation, answers lost after a commit | a lineage of tokens never forks, a dead one never revives, a revocation misses nothing it should hit |
| Memberships (`internal/membership`) | `memberships`, `invitations` | Invite, Accept, Remove, AssignRole, RotateInvite, Leave, ListMembers | rows of both tables, `FOR UPDATE` on owners, reads `organizations` | role read first and acted on later, owners counted while they change, links used or rotated at once | an organization keeps an owner, only owners touch the owner role, one link admits one member |
| Organizations (`internal/organization`) | `organizations` | Create, UpdateName, Delete, Get, ListForUser | Delete revokes invitations; Bootstrap writes memberships | delete against invitations in flight | a deleted organization is closed, a personal one cannot be deleted |
| Permission check (`internal/authz`, `middleware.Authz`) | `authz_decisions` (append only) | CheckPermission, RecordDecision | reads organizations, memberships, roles | checked before the handler, used during it | a request runs only if allowed when it was checked |
| Authentication (`middleware.Authn`) | none | look-up of the access token | reads `sessions`, `users` | the token may be revoked while the handler runs | a revoked or suspended caller gets in no more |
| Cookies and CSRF (`internal/auth`: cookies, csrf, handler) | two cookies per browser, a CSRF value per tab | setAuthCookies, clearAuthCookies, verifyCSRF | the browser, in front of Sessions | tabs share the cookies but not the CSRF value; answers get lost, late or repeated | who refreshes one at a time and gets the answers is never logged out |
| Rate limiter (`middleware.RateLimiter`) | map of token buckets | getLimiter, cleanupLoop, Allow | shared by all requests, background goroutine | eviction races a request that holds the old bucket | a key gets exactly its rate, idle keys leave the map |
| Migration runner (`internal/migrate`) | `schema_migrations`, advisory lock | Run, applyOne | two deployers at once | crash between statements, a lock held by a session whose process is gone | each file is applied once, in order, and no run hangs |
| Process (`cmd/main.go`, `internal/health`, `internal/db`) | phase of main, readiness, listener, pool | start, shutdown, acquire and give back connections | signals; all requests share the pool | a full pool, a request that waits for a row for ever, the shutdown deadline | the pool never holds itself up, is closed last, and a signal ends the process |
| Audit trail (`internal/audit`, `authz_decisions`) | two append-only tables | Log, RecordDecision, the paged lists | written beside the work it is about, in no transaction with it | a write fails or reports the wrong outcome; rows become visible out of the order of their stamps while a client pages | tells only what happened, and what is missing was logged; paging misses nothing |
| Roles, routes, configuration, validation, normalization, responses | none | | | | |

Every hazard, at its line and with the property that covers it, is listed in
`PROJECT.json` ("hazards").

## Modules

| Module | What it is |
|---|---|
| `TokenFamily` | abstract specification of the rotation of refresh tokens and of invitation links: start, rotate, kill |
| `Sessions` | `internal/auth` with `middleware.Authn`; properties, and `ImplementsTokenFamily`, the refinement mapping to `TokenFamily` |
| `Browser` | tabs, cookies and calls under way in front of `TokenFamily`: composes the client with the protocol that `Sessions` implements |
| `Membership` | `internal/membership`, `internal/organization` and the permission check; `LinksImplementTokenFamily` is the refinement mapping of its links to `TokenFamily` |
| `MigrationLog` | abstract specification of a deployment: a log that grows by the next file, applied and recorded in one step |
| `Migrate` | `internal/migrate` as `cmd/migrate` runs it; `ImplementsLog` is its refinement mapping to `MigrationLog` |
| `TokenBucket` | abstract specification of rate limiting: one everlasting bucket per key |
| `RateLimiter` | `middleware.RateLimiter` in discrete time; `ImplementsTokenBucket` is its refinement mapping |
| `RateWindow` | `RateLimiter` with a stopwatch: two history variables that count ticks and the requests let through |
| `Server` | `cmd/main.go`, readiness, and the pool as requests use it |
| `AuditTrail` | `internal/audit` and the decisions of `internal/authz`: written, failed, paged |
| `SessionsProofs`, `BrowserProofs`, `MembershipProofs`, `MigrateProofs`, `RateLimiterProofs`, `ServerProofs`, `AuditTrailProofs` | proofs about the module of the same name |
| `MCSessions`, `MCBrowser`, ... | the symmetries used by TLC |

The definitions marked "Mutant" or "A build that" are plausible bugs.  Nothing refers to them:
each is put in the place of the definition that follows it to see that the
property that guards against it notices.

### From code to model

A slot `q` of `Request` is a goroutine.  `pc[q]` says which database statement
comes next, and the other local variables (`tok`, `who`, `scan`; `req`, `seen`,
`scan`) hold what the Go code keeps in locals across statements, stale or not.
A request that is refused without having written anything is a stutter in
`Sessions`; in `Membership` the refusals after the permission check are the
action `Refuse`.

How SQL becomes steps, under READ COMMITTED:

* A SELECT is one step.  Its result is kept in a local and may be stale.
* `SELECT ... FOR UPDATE`, and an UPDATE of several rows, start with a step that
  is the statement's snapshot: it fixes which rows the statement can touch.  Then
  each row is locked, in any order, when no other transaction holds it; PostgreSQL
  evaluates the WHERE clause again on its current version and drops it if it no
  longer matches.  Rows committed after the snapshot are missed.  This is what the
  code is exposed to.  `RevokeFamily` and `RevokeAllSessionsForUser` (one row a
  step: `UpdateRow`) and `CountActiveOwners` (`LockOwner`) have this form.  So has
  `SoftDelete`, with its rows taken in one step: whoever else holds a link's row
  holds no other that anybody waits for, and its transaction ends.
* A guarded UPDATE of one row, identified by its key, is one step: the key does
  not change, so the snapshot plays no role.
* The writes of a transaction are one step, its commit, as nobody sees them
  before.  What others can notice earlier is a row lock held from one statement
  to the next: `lock`.  In `Sessions` the lock of `GetSessionForRefresh` is held
  until the rotation commits, and those of a revocation until all its rows are
  reached; in `Membership` those of `CountActiveOwners` until
  the owner is removed or demoted.
* No query orders the rows it locks.  Two requests that count the same owners, or
  two that log the same user out everywhere, can each hold a row the other one
  wants: `Deadlocked`.  PostgreSQL fails one of them after a second,
  `DeadlockVictim`.
* A COMMIT whose acknowledgement is lost is a commit followed by `LoseReply`; a
  statement or commit that fails, a cancelled context and a server that dies
  are `Fail` (the database rolls back and releases the locks).

`Membership` identifies a role with its kind: no endpoint creates, edits or
deletes roles, and migration 4 gives each organization one of each kind.  No
code writes the status "suspended" of an organization or a membership, nor
"expired" of an invitation; the first two are left out, and the type invariant
says that the last never occurs.  Suspending a *user* is done by an operator,
in SQL; since the code of `internal/auth` checks for it, it is an external
action of `Sessions`.

**`Browser`.**  The tables and their transactions are the actions of
`TokenFamily`; that is justified by `ImplementsTokenFamily`.  A call is a record
that is sent, handled in one step, and whose answer is delivered or lost; a
logout passes `Authn` in a step before.  Calls and answers overtake each other.
What a revocation misses in `Sessions` (a rotation under way) is here a choice of
the families that die.  Each answer with tokens has a refresh token, an
access token and a CSRF value of its own, so one name stands for the three.
`Login` covers Register.  The CSRF cookie's path is `/v1/auth`, so no page of an
application served elsewhere can read it back (THREAT_MODEL.md:27): a tab knows
only the value of the last answer it got, and `Reload` makes it forget that one.
Of the answers to calls it had under way then, the cookies still arrive and the
bodies do not.  The session of a browser whose tabs have all forgotten lives on
and no tab can refresh it, until somebody logs in again; no property says
otherwise, and nothing in the repository does.

**`Migrate`.**  `pc[d]` is the statement deployer `d` sends next.  `Statement`
is what the server process executes for it, `client[d]` whether the deployer is
still there: one that dies leaves at most one statement that is still executed
(`lost`), after which PostgreSQL notices and `SessionEnds` rolls back and
releases the advisory lock.  The deferred `pg_advisory_unlock` and the end of the
session release the same lock, and are one step.

**`RateLimiter`.**  Steps of `getLimiter` and of one round of `cleanupLoop` are
atomic as both hold the mutex; `Allow` is a step of its own.  `Patience` bounds
the time between the two in ticks: nothing there blocks, but the scheduler may
take its time.  `FillAssumption` says that a bucket fills in the three minutes
before its key is evicted; production has 5 tokens a second and a bucket of 10,
the integration tests use a rate of 0, where it does not hold and an evicted key
does get a second bucket.

**`Server`.**  `phase` follows `main` statement by statement.  A request uses the
pool several times in turn and holds at most one connection at a time, as every
transaction of the code runs its statements on the one it began with; `row`
stands for whatever rows two transactions both want.  Only `GetUserByIdentifier`,
`CreateSession` and the audit entry have a timeout of 5 s (`WithDBTimeout`), so
that a statement may wait for ever for an outsider's lock; `Fail` covers those
that time out.  A shutdown that gives up calls `os.Exit(1)` and cuts requests
off, which `cut` records.

**`AuditTrail`.**  A decision is stamped when its INSERT starts
(`CheckPermission`) and can be read when it commits (`RecordDecision`); between
the two others come and go, so that a row may appear below rows that were read
already.  Every page a client asks for is itself a protected request that writes
a decision before it reads.  The client steps on by what it got.  A statement may
have been executed though its caller heard an error (`Outcome`).  Of the entries
of `audit_logs` only that of a registration names an organization, so the list of
an organization shows no login and no replay; which is why decisions are the
trail that is paged here, with the query both lists share.

Row ids, token values and password hashes are model values.  That generated
tokens never collide is assumed (256 random bits and a unique index).

## Runs

| Run | Instance | Shows |
|---|---|---|
| `sessions_safety` | 1 user, 3 sessions, 2 goroutines, up to 2 tokens expire | types; `AtMostOneLive`, `SingleUse`, `LineageIsClosed`, `LockDiscipline`; as action properties `DeadStaysDead`, `RevocationEndsFamilies`; and `ImplementsTokenFamily`: the tables and the interleaved requests implement the abstract protocol |
| `sessions_live` | 1 user, 2 sessions, 2 goroutines | `RequestsAnswered` under `FairSpec`, through the deadlocks of two revocations |
| `browser` | 4 tokens, 2 tabs, 2 calls under way | `UndisturbedFamiliesLive`: a family dies only by a logout, or if one of its refreshes was repeated, overlapped or lost its answer, though tabs are reloaded and forget; types: both cookies come and go together |
| `membership_safety` | 1 organization, 2 users, 3 invitations, the third of the lineage of the others, 2 goroutines, roles owner and admin | types; `CountStillTrue`, `PersonalOrgSealed`, `OneActivePerLineage`; `OwnersLostOnlyByStaleRead`, `AdmittedByInvitation`; `LinksImplementTokenFamily`: links are rotated, used up and revoked as refresh tokens are |
| `membership_live` | 1 organization, 2 users, 1 invitation that does not expire, 2 goroutines, roles owner and member | `RequestsAnswered` under `FairSpec`, through the deadlocks that two counters run into |
| `migrate` | 2 deployers, images of up to 3 files | `AppliedOnceIffRecorded`, `CheckStillTrue`, `DoneMeansApplied`, wherever a deployer fails or dies; `ImplementsLog`: all of it looks like one deployer at a time, one file a step, in order; `RunsEnd`: no run hangs on a lock left behind |
| `rate_limiter` | 2 keys, 3 limiters, 2 requests, bucket of 2, 1 a tick, evicted after 3 ticks, patience 1, spans of up to 4 ticks | `WithinLimit`: what a key gets in a span of time; `ImplementsTokenBucket`: eviction is invisible; `IdleKeysEvicted` |
| `server` | 3 requests, 2 connections, 2 uses each | `NoStandstill`: some request can always go on, unless an outsider holds the row; `ClosedLast`: first the probe says no, then the listener is closed, then requests end, then the pool is closed; `SuccessIsClean`; `StopsOnSignal`, `RequestsAnswered` |
| `audit_trail` | 1 paging client, 2 other requests of any kind, pages of 1 or 2, 3 pages, 3 stamps | `TrailTellsTruth`, `MissesAreLogged`; `NothingMissed`: who pages to the end has been shown every decision there was at the start |

**Bounds.**  `SessionId` bounds how many sessions are ever created.  Three are a
rotation with a second login beside it, or a rotation twice over: enough for a
replay of an old token while a newer one is being rotated, which needs the
longest lineage of all the races found.  Two goroutines are a race; a third
would only add races of pairs, as every rule is about two requests, one of which
acts on what the other has changed.  `FewExpire` lets at most two tokens, access
or refresh, run out in `sessions_safety`: a refresh looks at one refresh token and
a logout at one access token, and two requests run at once.  One user is enough for `Sessions` as no
statement relates sessions of two users except `LineageIsClosed`, which is
proved for any number.  In `Browser`, four tokens are two logins whose answers
cross and a refresh of each, or three refreshes in a row; two calls and two tabs
are what overlaps.  `LastToken` leaves out, once the fourth token is issued, calls
whose tab was reloaded and states in which no family is undisturbed any more: of
these the invariant says nothing, then or later.  In `Membership`, "admin" and "owner" are the kinds with
permissions; "member" and "viewer" differ from them only in being refused, and
the liveness run has "member" in place of "admin".  It leaves out that links
expire (`NothingExpires`): that only keeps requests from starting.  Two users are the fewest for
which the last-owner rule says anything.  A race of two rotations for one link
needs three links, the one and what each would put in its place; `FewLinks` keeps
the third for that: it is of the lineage of the other two, it exists only when
none has expired and only beside requests about links, and no more than one link
expires at all.
In `Migrate`, three files are one before, one at and one after a failure, and two
deployers are one that holds the lock and one that waits for it or comes after.
In `RateLimiter` the four numbers are the smallest with which `FillAssumption`
holds with equality, so that one tick less would break it, and three limiters are
one for each key and one just evicted.  A span of four ticks is as long as it takes
to spend a bucket, be evicted and spend a second one.  `age` stops counting past `EvictAfter`,
where nothing changes any more.  In `Server`, one request more than there are
connections makes the pool the bottleneck, and two uses are one before and one
after another request got in between.  In `AuditTrail`, `MaxTurns` and `MaxClock`
bound the pages and the stamps: two stamps are what makes rows appear out of
order, and with three a row may appear late between two others and share the stamp
of neither, `NothingMissed` being about rows alone at their stamp; `LastStamp`
leaves out, at the third one, requests that add no decision, failures of the
others' requests, and denials.  Three pages are a first one, one moved by new rows and the empty one that
ends the list; `CHECK_DEADLOCK` is off as the bounds end every run, and in
`Server` as the process ends.  The proofs have none of these bounds but those
they name as constants.

**Fairness.**  `WF(Proceed(q))`: the Go scheduler runs a goroutine that can run,
and a statement that waits for nothing ends.  `SF(Wait(q))`: a statement that
waits for a row lock is not passed over for ever, as PostgreSQL queues waiters.
`WF(DeadlockVictim(q))`: PostgreSQL looks for circles of waiters and fails one of
them; without it the runs `sessions_live` and `membership_live` end with two logouts, or
two removals, that each hold a row the other one waits for.
Strong fairness is needed since the lock is taken and released by others again
and again.  Nothing is assumed of arrivals, failures and time.  `OutOfIds` is no
part of the code: with a bounded number of ids an insert may find none, and
the request then fails.

`Migrate`: statements end (weak fairness of `Proceed`), PostgreSQL queues those
who wait for the advisory lock (strong fairness of `Lock`) and notices sessions
whose client is gone (weak fairness of `SessionEnds`).  A deployer need not be
started and may always fail or die.  `RateLimiter`: time passes, the ticker of
`cleanupLoop` comes round, a request that has a limiter goes on.  `Server`: main
and a request that can go on do, the deadline passes, and those who wait for a
connection or a row are queued.  Nothing is assumed of outsiders, who may hold a
row for ever: hence the premise of `Server`'s `RequestsAnswered`, and the weight
of `StopsOnSignal`, which has none.  `Browser` and `AuditTrail` state no liveness:
a client need not go on, and one that pages the decisions one by one never
reaches the end, as each page adds a decision.

### Where the documents promise more than the code does

Each of these runs is expected to end in a counterexample.

| Run | The text | The behaviour |
|---|---|---|
| `sessions_logout_all` | VERIFICATION.md:38, "Logout-all revokes every session" | the snapshot of logout-all selects session 1; a refresh that already held its lock commits session 2; the UPDATE skips session 1, revoked by now, and has never seen session 2 |
| `membership_last_owner` | THREAT_MODEL.md:55, "the last owner cannot be removed, demoted or leave" | Remove reads its target as an admin; the target becomes owner and the other owner leaves; Remove deletes the last owner, uncounted |
| `membership_join_deleted` | integration/regression_org_test.go:12-14, "pending invitations cannot be redeemed afterwards" | Accept looked such a link up before the delete committed and redeems it after |

The same three races have other faces, which have no run of their own.  The
revocation on a replay misses a rotation under way just as logout-all does
(THREAT_MODEL.md:40, "The whole token family is revoked").  The stale read by
which Remove takes the last owner also lets an admin remove somebody who is an
owner by then (THREAT_MODEL.md:55, "Only an owner can grant or revoke the owner
role").  Invite, past its checks when the organization is deleted, inserts a link
after the snapshot of the delete (THREAT_MODEL.md:56, "soft delete revokes
outstanding invitations").  And a rotation whose CSRF value cannot be generated,
or whose answer gets lost, has committed all the same (THREAT_MODEL.md:41, "a
client never loses its token without receiving the replacement"); what that
costs the client is `disturbed` in `Browser`.

What remains true of revocations is `RevocationEndsFamilies`: one that finds all
rows it selected still unrevoked has ended every family of theirs.  What remains
true of the last-owner rule is `CountStillTrue` (who counted acts on a true
count) and `OwnersLostOnlyByStaleRead` (the stale read is the only way to lose
the last owner).

## Proofs

For every value of the constants: any sets of users, sessions, tokens, organizations,
invitations, role kinds, goroutines, deployers, keys, limiters, finite or not, any
numbers of files, tabs, calls, connections, uses, pages and ticks.  They rest on the
assumptions named in the modules.  `NoneAssumption` (`None` is none of the
others), `KindAssumption` (roles are the seeded kinds, owner among them),
`DeployerAssumption`, `FilesAssumption`, `PoolAssumption`, `LimitAssumption` and
`LimitsAssumption` say what the constants are; only `FillAssumption` says
something about the system, see above.

**`SessionsProofs`.**  None of the invariants is inductive by itself.  That a
family keeps at most one usable session when a rotation commits
(`AtMostOneLive`), and that no token is exchanged twice (`SingleUse`), needs that
the session rotated is still live and locked by this request, which is
`LockDiscipline`; that the new session joins the family of the old one needs
`LineageIsClosed`; and all need that the locals of a request refer to sessions
that exist (`RequestInv`).  The inductive invariant is their conjunction,
`IInv == TypeOK /\ RequestInv /\ LockDiscipline /\ Lineage`, where `Lineage` is
the three lineage invariants; `Invariant` proves it and `TypeCorrect`,
`OneLivePerFamily`, `TokensAreSingleUse`, `LineagesAreClosed` and
`LocksAreDisciplined` are its consequences.  A revocation may revoke what it
scanned since it holds every such row that is still live, so that none of them is
in a rotation.  `OnlyRevocationsDeadlock` says who can deadlock: a rotation that
holds a row waits for nothing, a logout of one session waits before it holds one,
so every circle of waiting has two revocations of many rows in it.  For the action properties (`KilledFamiliesStayDead`,
`RevocationsEndFamilies`) and for `Refinement` each step is first sorted into one
that starts a family, rotates a session, revokes some, or changes no session:
these are the actions of `TokenFamily`.

**`MembershipProofs`.**  `TypeInv` adds to the types which parameters a request
has at each statement (`Shape`).  On it rest three invariants, kept apart so that
each names what it needs:

| Invariant | Is | Theorems |
|---|---|---|
| `CountInv` | `LockInv` (row locks belong to requests that lock the owners they saw or are about to write) and `CountStillTrue`: a request holds the rows of all it counted, so whoever removes or demotes one of them waits | `CountsStayTrue`, `OwnersSurvive` |
| `LinkInv` | `RedeemInv` (what Accept read of a link is still what the link says), `RootInv` (the first link of a lineage exists, so that a new link starts a lineage of its own) and `OneActivePerLineage` | `LineagesHaveOneActiveLink`, `MembersAreInvited` |
| `SealInv` | `AbsentInv` (nothing refers to an organization before it is created), `HarmlessInv` (how far a request gets on a personal organization) and `PersonalOrgSealed` | `PersonalOrgsStaySealed` |

`LinksRefine` adds that links implement `TokenFamily`: a family is a lineage
(named by `root`), its usable token the active link.  On `TypeInv` and `LinkInv` each
step is one of three, a first link (`Born`), a rotation (`Exchanged`), or the end
of some links (`Ended`: accepted, expired, revoked with the organization), or
does not touch them.  `OneActivePerLineage` is what makes the usable token of a
lineage one.

`OnlyCountersDeadlock` says who can deadlock over members' rows: in every circle
of waiting there are two different requests of one organization that both hold
rows, and only `LockOwner`, the count of the owners, takes one and keeps it.  A request may
have several rows to wait for, but none of them is its own (`WaitInv`).

**`BrowserProofs`.**  `UndisturbedFamiliesLive` holds because the one refresh of an
undisturbed family that is out was sent with the family's usable token, so that it
is no replay.  `Fresh(f)` says why: the jar has that token, unless its successor
is on its way with the one call that is out, and while the answer to the login is,
nothing can have been sent yet.  It needs that a family is named after its first
token (`FamilyInv`) and that calls hold tokens that were issued (`KnownInv`).
A tab that forgets sends refreshes that are refused before the token is read, so
that `Fresh` does not mention tabs at all.

**`MigrateProofs`.**  That a file on record took effect exactly once needs that
a transaction has done what its program has come past (`TxInv`) and that nobody
else records the file in between: whoever is past the lock holds it (`LockInv`),
and the loop has left nothing unrecorded behind it (`LoopInv`).  With these
`AppliedOnceIffRecorded`, `InOrder` (recorded files have no gap before them) and
`DoneMeansApplied` are inductive, and
`CheckStillTrue` follows from `LockInv` and `LoopInv`.  For `RunsImplementLog`
every step but `Commit` is shown to be the start or the end of a run, or nothing;
`Commit` adds the next file: by `LoopInv` it is in the image, missing, and the
first that is.

**`RateLimiterProofs`.**  `HeldIsCurrent` (no request spends from a limiter its key
has lost) is inductive with `Fresh`: a key is no older than the wait of a request that looked it up, so it is not evicted under
it, as `EvictAfter >= Patience`.  That eviction is a stutter of `TokenBucket`
needs `Filled`: once no request can still hold the limiter of an idle key, its
bucket gains with every tick of its age, and so is full when evicted
(`FillAssumption`).  `BucketsApart` (keys do not share a limiter) makes a token
taken from a limiter a token of one key only.
`KeysStayWithinLimit` follows by `Budget`: what a key got since the watch was
started and what it has left (`Level`) never exceed a full bucket and what has
flowed in since.  Each step of the limiter is there by the refinement one of the
everlasting bucket, of which this is easy.  `WatchedIsLimiter` says that the watch
only watches.

**`ServerProofs`.**  `HoldInv` says what a request has at each point,
`PhaseInv` what main has done at each phase; the second gives `ClosedLast` and
`SuccessIsClean`, where the step that matters is `Drained`: with the listener
closed nobody arrives, so that who is quiet stays quiet.  `NoHoldAndWait` (who
waits for a connection holds nothing) follows from `HoldInv`.  `ServerNeverStandsStill` (`NoStandstill`) is the absence of every
circle of waiting among the server's own requests, for pools of any size: who has
the row can go on, as it waits for nothing (`RowHolderGoesOn`); if nobody has
it, who waits for it goes on; if nobody does either, no connection is in use and
one is free (`QuietPool`); and the pool is open as long as a request is under way.

**`AuditTrailProofs`.**  `ProgressInv` and `DecisionInv` say which rows a request
can have at each point; `TrailTellsTruth` and `MissesAreLogged` are inductive with
them.  For `NothingMissed` it is `PagingInv`: a row that a client is still owed,
and whose stamp no other row has, has at least `offset` newer rows above it, so it
is not on a page that was skipped.  Rows that become visible late only push it
down; a page that stops above it holds rows newer than it only; and when a page
is empty nothing is left below the offset.

**Only model-checked**: liveness under fairness (`RequestsAnswered` of `Sessions`,
`Membership` and `Server`, `RunsEnd`, `IdleKeysEvicted`, `StopsOnSignal`), which is
out of the prover's reach.

## Not modelled

See "components" in `PROJECT.json` for each part and the reason.  In short: what
keeps no state (validation, normalization, responses, headers, roles, lists
without pages), names and timestamps that no rule reads, and what is planned
below.  Three listed hazards have no property.  A user suspended between the status
check of Login and the insert of the session (service.go:195) still gets one; Authn
refuses it from then on, and nothing in the repository promises more.  An actor who
loses a permission after `Authz` checked it (authz.go:32) still has the request
carried out: `Membership` has these steps, as what is checked once is no guard of
what follows, but the code does it so by design, one check a request, and no text
claims more; what it costs beside other requests is left to `Gateway`.  And a tab that
forgets its CSRF value (cookies.go:12) is described above.

## Plan

Done: all modules above, and proofs of every safety property that the passing
runs check.

1. `Gateway`: composition of `Sessions` and `Membership` through Authn, Authz and
   the handlers; what a revoked session or a lost role can still do, and for how
   long.
2. An abstract `OwnerPolicy` (who may hold and who may take the owner role) that
   `Membership` implements but for its stale read.
