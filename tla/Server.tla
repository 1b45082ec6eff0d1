------------------------------- MODULE Server -------------------------------
(***************************************************************************)
(* The life of the server process (cmd/main.go) and of the requests in it, *)
(* as far as they share the connection pool (internal/db).                 *)
(*                                                                         *)
(* main starts up, serves, and on a signal stops: it is no longer ready,   *)
(* closes the listener, waits for the requests for 15 seconds at most, and *)
(* closes the pool last.  A request uses the pool several times in turn    *)
(* (Authn, Authz, the handler's transaction, the audit entry), each time   *)
(* with one connection that it gives back; while it has it, it may wait    *)
(* for a row that another transaction has locked, a request's or that of   *)
(* somebody outside (an operator, a migration), who need not let go: most  *)
(* statements have no timeout.                                             *)
(***************************************************************************)
EXTENDS Naturals, FiniteSets

CONSTANTS Request,    \* goroutines that serve requests
          PoolSize,   \* config.MaxConns
          MaxUses,    \* no request uses the pool more often
          Outside,    \* a transaction that is none of the server's
          None

ASSUME PoolAssumption == PoolSize \in Nat \ {0} /\ MaxUses \in Nat
ASSUME NoneAssumption ==
  Outside \notin Request /\ None \notin Request /\ Outside # None

VARIABLES
  (* The process *)
  phase,      \* where main is
  code,       \* how it ended; "killed": by a signal it does not handle yet
  ready,      \* health.Handler.ready
  listener,   \* what ListenAndServe has come to
  signalled,  \* a signal has come through the channel shutdownSignal
  expired,    \* the shutdown deadline has passed
  pool,       \* open for acquisition
  held,       \* connections in use: <<q, n>>, the one q got for its n-th use
  (* Requests *)
  pc,
  uses,       \* q -> how often it has used the pool
  row         \* who has locked the one row everybody wants

mainVars == <<phase, code, ready, listener, signalled, expired, pool>>
requestVars == <<held, pc, uses, row>>
vars == <<phase, code, ready, listener, signalled, expired, pool,
          held, pc, uses, row>>

Phase == {"load", "connect", "serve", "set_ready", "notify", "select",
          "shutdown", "drain", "close", "closing", "exited"}

\* "run": between two uses; "acquire": waits for a connection; "query": has
\* one; "wait_row": and waits for the row; "locked": has both; "cut": ended by
\* the exit of the process.
PC == {"idle", "run", "acquire", "query", "wait_row", "locked", "cut"}

TypeOK ==
  /\ phase \in Phase
  /\ code \in {"none", "success", "failure", "killed"}
  /\ ready \in BOOLEAN
  /\ listener \in {"off", "starting", "open", "failed", "closed"}
  /\ signalled \in BOOLEAN
  /\ expired \in BOOLEAN
  /\ pool \in {"none", "open", "closed"}
  /\ held \subseteq Request \X (1..MaxUses)
  /\ pc \in [Request -> PC]
  /\ uses \in [Request -> 0..MaxUses]
  /\ row \in Request \cup {Outside, None}

Init ==
  /\ phase = "load"
  /\ code = "none"
  /\ ready = FALSE
  /\ listener = "off"
  /\ signalled = FALSE
  /\ expired = FALSE
  /\ pool = "none"
  /\ held = {}
  /\ pc = [q \in Request |-> "idle"]
  /\ uses = [q \in Request |-> 0]
  /\ row = None

-----------------------------------------------------------------------------
(* Helpers *)

Active(q) == pc[q] \notin {"idle", "cut"}

HoldsConn(q) == \E n \in 1..MaxUses : <<q, n>> \in held

ConnFree == Cardinality(held) < PoolSize

Querying(q) == pc[q] \in {"query", "wait_row", "locked"}

\* What a statement or a transaction gives back when it ends.
GivesBack(q) ==
  /\ held' = {h \in held : h[1] # q}
  /\ row' = IF row = q THEN None ELSE row

Goto(q, label) == pc' = [pc EXCEPT ![q] = label]

\* main goes from one phase to the next.
Step(from, to) == phase = from /\ phase' = to

\* The process ends, and with it the requests and their database sessions.
Exit(n) ==
  /\ phase' = "exited"
  /\ code' = n
  /\ pc' = [q \in Request |-> IF Active(q) THEN "cut" ELSE pc[q]]
  /\ held' = {}
  /\ row' = IF row \in Request THEN None ELSE row
  /\ uses' = [q \in Request |-> 0]
  /\ UNCHANGED <<ready, listener, signalled, expired, pool>>

-----------------------------------------------------------------------------
(* Start *)

LoadConfig ==
  /\ Step("load", "connect")
  /\ UNCHANGED <<code, ready, listener, signalled, expired, pool, requestVars>>

\* The configuration is invalid, or the database does not answer in 5 s.
FailStart == phase \in {"load", "connect"} /\ Exit("failure")

Connect ==
  /\ Step("connect", "serve")
  /\ pool' = "open"
  /\ UNCHANGED <<code, ready, listener, signalled, expired, requestVars>>

\* go server.ListenAndServe()
StartServer ==
  /\ Step("serve", "set_ready")
  /\ listener' = "starting"
  /\ UNCHANGED <<code, ready, signalled, expired, pool, requestVars>>

SetReady ==
  /\ Step("set_ready", "notify")
  /\ ready' = TRUE
  /\ UNCHANGED <<code, listener, signalled, expired, pool, requestVars>>

Notify ==
  /\ Step("notify", "select")
  /\ UNCHANGED <<code, ready, listener, signalled, expired, pool, requestVars>>

\* In its goroutine: the port is bound, or is not, or accepting fails later.
Listen ==
  /\ phase # "exited"
  /\ \/ listener = "starting" /\ listener' \in {"open", "failed"}
     \/ listener = "open" /\ listener' = "failed"
  /\ UNCHANGED <<phase, code, ready, signalled, expired, pool, requestVars>>

-----------------------------------------------------------------------------
(* Stop *)

\* SIGTERM or SIGINT; before signal.Notify it kills the process, and after the
\* first nobody reads the channel again.
Signal ==
  \/ phase \in {"load", "connect", "serve", "set_ready", "notify"} /\ Exit("killed")
  \/ /\ phase = "select" /\ ~ signalled
     /\ signalled' = TRUE
     /\ UNCHANGED <<phase, code, ready, listener, expired, pool, requestVars>>

SelectSignal ==
  /\ Step("select", "shutdown")
  /\ signalled
  /\ ready' = FALSE
  /\ UNCHANGED <<code, listener, signalled, expired, pool, requestVars>>

SelectError == phase = "select" /\ listener = "failed" /\ Exit("failure")

\* server.Shutdown closes the listener; ListenAndServe returns.
Shutdown ==
  /\ Step("shutdown", "drain")
  /\ listener' = "closed"
  /\ UNCHANGED <<code, ready, signalled, expired, pool, requestVars>>

\* Mutant: a server without listener is taken for one without requests.
DrainedUnasked ==
  /\ Step("drain", "close")
  /\ UNCHANGED <<code, ready, listener, signalled, expired, pool, requestVars>>

\* ... and returns when no request is left,
Drained ==
  /\ Step("drain", "close")
  /\ \A q \in Request : ~ Active(q)
  /\ UNCHANGED <<code, ready, listener, signalled, expired, pool, requestVars>>

\* Mutant: Shutdown(context.Background()).
ExpireNever == FALSE

\* the 15 seconds are over,
Expire ==
  /\ phase = "drain" /\ ~ expired
  /\ expired' = TRUE
  /\ UNCHANGED <<phase, code, ready, listener, signalled, pool, requestVars>>

\* Mutant: the error of Shutdown is logged, no more.
GiveUpGoesOn ==
  /\ Step("drain", "close")
  /\ expired
  /\ UNCHANGED <<code, ready, listener, signalled, expired, pool, requestVars>>

\* Mutant: a deadline missed has an exit code of its own.
GiveUpTimeout == phase = "drain" /\ expired /\ Exit("timeout")

\* or gives up.
GiveUp == phase = "drain" /\ expired /\ Exit("failure")

\* dbPool.Close(): acquires nothing more, and waits for what was acquired.
ClosePool ==
  /\ Step("close", "closing")
  /\ pool' = "closed"
  /\ UNCHANGED <<code, ready, listener, signalled, expired, requestVars>>

ReturnFromMain ==
  /\ phase = "closing" /\ held = {}
  /\ Exit("success")

-----------------------------------------------------------------------------
(* Requests *)

\* A request is accepted.
Arrive(q) ==
  /\ listener = "open" /\ phase # "exited"
  /\ pc[q] = "idle"
  /\ Goto(q, "run")
  /\ UNCHANGED <<mainVars, held, uses, row>>

\* The next repository call, or BeginFunc: asks the pool for a connection.
Use(q) ==
  /\ pc[q] = "run" /\ uses[q] < MaxUses
  /\ Goto(q, "acquire")
  /\ uses' = [uses EXCEPT ![q] = @ + 1]
  /\ UNCHANGED <<mainVars, held, row>>

\* pgxpool hands out a connection that is free.  (A closed pool refuses, but none
\* asks it: ClosedLast.)
Acquire(q) ==
  /\ pc[q] = "acquire" /\ pool = "open"
  /\ ConnFree
  /\ held' = held \cup {<<q, uses[q]>>}
  /\ Goto(q, "query")
  /\ UNCHANGED <<mainVars, uses, row>>

\* A statement wants the row,
WantRow(q) ==
  /\ pc[q] = "query"
  /\ Goto(q, "wait_row")
  /\ UNCHANGED <<mainVars, held, uses, row>>

\* and gets it when nobody else has it.
LockRow(q) ==
  /\ pc[q] = "wait_row" /\ row = None
  /\ Goto(q, "locked")
  /\ row' = q
  /\ UNCHANGED <<mainVars, held, uses>>

\* Mutant: revokeFamily, on the pool, before the transaction has ended.
ReleaseAfterUse(q) ==
  /\ pc[q] \in {"query", "locked"}
  /\ \/ /\ uses[q] < MaxUses
        /\ Goto(q, "acquire")
        /\ uses' = [uses EXCEPT ![q] = @ + 1]
        /\ UNCHANGED <<held, row>>
     \/ /\ uses[q] = MaxUses
        /\ Goto(q, "run")
        /\ GivesBack(q)
        /\ UNCHANGED uses
  /\ UNCHANGED mainVars

\* The statement, or the transaction, ends.
Release(q) ==
  /\ pc[q] \in {"query", "locked"}
  /\ Goto(q, "run")
  /\ GivesBack(q)
  /\ UNCHANGED <<mainVars, uses>>

\* It fails, or the client goes away and the request's context is cancelled.
Fail(q) ==
  /\ pc[q] = "acquire" \/ Querying(q)
  /\ Goto(q, "run")
  /\ GivesBack(q)
  /\ UNCHANGED <<mainVars, uses>>

Answer(q) ==
  /\ pc[q] = "run"
  /\ Goto(q, "idle")
  /\ uses' = [uses EXCEPT ![q] = 0]
  /\ UNCHANGED <<mainVars, held, row>>

-----------------------------------------------------------------------------
(* Outside *)

OutsideLocks ==
  /\ row = None
  /\ row' = Outside
  /\ UNCHANGED <<mainVars, held, pc, uses>>

OutsideLetsGo ==
  /\ row = Outside
  /\ row' = None
  /\ UNCHANGED <<mainVars, held, pc, uses>>

-----------------------------------------------------------------------------
Main ==
  \/ LoadConfig \/ FailStart \/ Connect \/ StartServer \/ SetReady \/ Notify
  \/ SelectSignal \/ SelectError
  \/ Shutdown \/ Drained \/ GiveUp \/ ClosePool \/ ReturnFromMain

Proceed(q) == Use(q) \/ Release(q) \/ Answer(q)

Next ==
  \/ Main \/ Listen \/ Signal \/ Expire
  \/ \E q \in Request :
       \/ Arrive(q) \/ Proceed(q) \/ Fail(q)
       \/ Acquire(q) \/ WantRow(q) \/ LockRow(q)
  \/ OutsideLocks \/ OutsideLetsGo

Spec == Init /\ [][Next]_vars

\* main and a request that can go on do, time passes, and those who wait for a
\* connection or for the row are queued.  Nothing is assumed of outsiders.
FairSpec ==
  /\ Spec
  /\ WF_vars(Main) /\ WF_vars(Expire)
  /\ \A q \in Request :
       WF_vars(Proceed(q)) /\ SF_vars(Acquire(q)) /\ SF_vars(LockRow(q))

-----------------------------------------------------------------------------
(* Properties *)

\* The server never comes to a standstill of its own making: while a request is
\* under way, one of them can go on, or whoever else has the row holds them up;
\* a full pool is full of requests that need nothing more (Refresh revokes a
\* replayed family after its transaction, service.go:268 and 337).
CanGoOn(q) ==
  \/ pc[q] \in {"run", "query", "locked"}
  \/ pc[q] = "acquire" /\ pool = "open" /\ ConnFree
  \/ pc[q] = "wait_row" /\ row = None

NoStandstill ==
  (\E q \in Request : Active(q)) =>
    row = Outside \/ \E q \in Request : CanGoOn(q)

\* Things stop in order: the probe says no before the listener is closed and
\* from then on, and the pool is closed last, when nothing is accepted any more
\* and no request is left to find it closed (main.go:123-140).
ClosedLast ==
  /\ listener = "closed" => ~ ready
  /\ pool = "closed" =>
       /\ listener = "closed"
       /\ \A q \in Request : ~ Active(q)

\* Exit code 0 says that every request accepted was answered, and the pool
\* closed; who was cut off by the deadline shows as 1 (main.go:134-137).
SuccessIsClean ==
  code = "success" => pool = "closed" /\ \A q \in Request : pc[q] # "cut"

\* A signal stops the process, though a request may wait for ever for a row
\* (the 15 seconds, main.go:131).
StopsOnSignal == signalled ~> phase = "exited"

\* Every request is answered, or ends with the process, if outsiders let go of
\* the row again and again: the server's own requests never hold each other up.
RequestsAnswered ==
  []<>(row # Outside) => \A q \in Request : Active(q) ~> ~ Active(q)

=============================================================================
