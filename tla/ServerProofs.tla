---------------------------- MODULE ServerProofs ----------------------------
(* Proofs about Server, for any requests, pool size and number of uses.    *)
EXTENDS Server, FiniteSetTheorems, TLAPS

-----------------------------------------------------------------------------
(* The inductive invariant                                                 *)

\* A request has a connection only while it queries, and the row only while it
\* has locked it; who waits for a connection has begun a use; once a request is
\* cut the process is gone.
HoldInv ==
  \A q \in Request :
    /\ HoldsConn(q) => Querying(q)
    /\ pc[q] = "acquire" => uses[q] # 0
    /\ row = q => pc[q] = "locked"
    /\ pc[q] = "cut" => phase = "exited"

Quiet == \A q \in Request : ~ Active(q)

\* What main has done by the time it is at each phase.
PhaseInv ==
  /\ phase \in {"drain", "close", "closing"} => listener = "closed"
  /\ listener = "closed" => phase \in {"drain", "close", "closing", "exited"}
  /\ phase \in {"shutdown", "drain", "close", "closing"} => ~ ready
  /\ phase \in {"close", "closing"} => Quiet
  /\ phase = "closing" => pool = "closed"
  /\ pool = "none" => /\ phase \in {"load", "connect", "exited"}
                      /\ listener = "off" /\ Quiet
  /\ pool = "closed" => phase \in {"closing", "exited"}
  /\ code # "none" => phase = "exited"

IInv == TypeOK /\ HoldInv /\ PhaseInv /\ ClosedLast /\ SuccessIsClean

LEMMA InitInv == Init => IInv
<1> SUFFICES ASSUME Init PROVE IInv
  OBVIOUS
<1> USE PoolAssumption, NoneAssumption DEF Init
<1>1. TypeOK
  <2>1. pc \in [Request -> PC] /\ uses \in [Request -> 0..MaxUses]
    BY DEF PC
  <2>2. held \subseteq Request \X (1..MaxUses)
    OBVIOUS
  <2>3. QED
    BY <2>1, <2>2 DEF TypeOK, Phase
<1>2. HoldInv /\ PhaseInv /\ ClosedLast /\ SuccessIsClean
  BY DEF HoldInv, HoldsConn, PhaseInv, Quiet, Active, ClosedLast, SuccessIsClean, Querying
<1>3. QED
  BY <1>1, <1>2 DEF IInv

-----------------------------------------------------------------------------
(* The process                                                             *)

LEMMA ExitInv ==
  ASSUME IInv, NEW n \in {"success", "failure", "killed"}, Exit(n),
         phase # "exited",
         n = "success" => phase = "closing"
  PROVE  IInv'
<1> USE NoneAssumption, PoolAssumption DEF IInv, Exit
<1>1. TypeOK'
  BY DEF TypeOK, Phase, PC
<1>2. HoldInv'
  BY DEF HoldInv, HoldsConn, Querying, Active, TypeOK
<1>3. PhaseInv'
  BY DEF PhaseInv, ClosedLast, Quiet, Active, TypeOK
<1>4. \A q \in Request : ~ Active(q)'
  BY DEF Active, TypeOK
<1>5. ClosedLast'
  BY <1>4 DEF ClosedLast
<1>6. SuccessIsClean'
  BY DEF SuccessIsClean, PhaseInv, HoldInv, Quiet, TypeOK
<1>7. QED
  BY <1>1, <1>2, <1>3, <1>5, <1>6

\* main's other steps, and those beside it, leave the requests alone.
MainSteps ==
  \/ LoadConfig \/ Connect \/ StartServer \/ SetReady \/ Notify
  \/ SelectSignal \/ Shutdown \/ Drained \/ ClosePool \/ Listen \/ Expire
  \/ /\ phase = "select" /\ signalled' = TRUE
     /\ UNCHANGED <<phase, code, ready, listener, expired, pool, requestVars>>

LEMMA MainStepsInv ==
  ASSUME IInv, MainSteps
  PROVE  IInv'
<1> USE DEF IInv
<1>1. UNCHANGED requestVars /\ code' = code
  BY DEF MainSteps, LoadConfig, Connect, StartServer, SetReady, Notify,
     SelectSignal, Shutdown, Drained, ClosePool, Listen, Expire
<1>2. phase # "exited" /\ (phase' # "exited")
  BY DEF MainSteps, LoadConfig, Connect, StartServer, SetReady, Notify, Step,
     SelectSignal, Shutdown, Drained, ClosePool, Listen, Expire
<1>3. TypeOK'
  <2>1. /\ phase' \in Phase /\ ready' \in BOOLEAN /\ signalled' \in BOOLEAN
        /\ expired' \in BOOLEAN /\ pool' \in {"none", "open", "closed"}
        /\ listener' \in {"off", "starting", "open", "failed", "closed"}
    BY DEF MainSteps, LoadConfig, Connect, StartServer, SetReady, Notify, Step,
       SelectSignal, Shutdown, Drained, ClosePool, Listen, Expire, TypeOK, Phase
  <2>2. QED
    BY <1>1, <2>1 DEF TypeOK, requestVars
<1>4. HoldInv'
  BY <1>1, <1>2 DEF HoldInv, HoldsConn, Querying, requestVars
<1>5. Quiet' = Quiet
  BY <1>1 DEF Quiet, Active, requestVars
<1>6. PhaseInv'
  BY <1>1, <1>2, <1>5 DEF MainSteps, LoadConfig, Connect, StartServer, SetReady,
     Notify, Step, SelectSignal, Shutdown, Drained, ClosePool, Listen, Expire,
     PhaseInv, Quiet
<1>7. ClosedLast'
  BY <1>2, <1>5, <1>6 DEF PhaseInv, Quiet, ClosedLast
<1>8. SuccessIsClean'
  BY <1>1, <1>2 DEF SuccessIsClean, PhaseInv
<1>9. QED
  BY <1>3, <1>4, <1>6, <1>7, <1>8

-----------------------------------------------------------------------------
(* Requests                                                                *)

\* What q does in a process that runs.
RequestSteps(q) ==
  \/ Arrive(q) \/ Use(q) \/ Acquire(q) \/ WantRow(q)
  \/ LockRow(q) \/ Release(q) \/ Fail(q) \/ Answer(q)

\* Who gives back has no connection and no row left; nobody else notices.
LEMMA GivesBackAll ==
  ASSUME TypeOK, NEW q \in Request, GivesBack(q)
  PROVE  /\ held' \subseteq Request \X (1..MaxUses) /\ row' \in Request \cup {Outside, None}
         /\ ~ HoldsConn(q)' /\ row' # q
         /\ \A p \in Request : /\ HoldsConn(p)' => HoldsConn(p)
                               /\ row' = p => row = p
<1>1. held' \subseteq held /\ \A h \in held' : h[1] # q
  BY DEF GivesBack
<1>2. ~ HoldsConn(q)' /\ \A p \in Request : HoldsConn(p)' => HoldsConn(p)
  BY <1>1 DEF HoldsConn
<1>3. QED
  BY <1>1, <1>2, NoneAssumption DEF GivesBack, TypeOK

\* It stays itself, has what it should have, and was active unless it arrives
\* at an open listener.
LEMMA RequestFrame ==
  ASSUME IInv, NEW q \in Request, RequestSteps(q)
  PROVE  /\ UNCHANGED mainVars
         /\ TypeOK'
         /\ pc'[q] \notin {pc[q], "cut"}
         /\ HoldsConn(q)' => Querying(q)'
         /\ pc'[q] = "acquire" => uses'[q] # 0
         /\ row' = q => pc'[q] = "locked"
         /\ \A p \in Request \ {q} : /\ pc'[p] = pc[p] /\ uses'[p] = uses[p]
                                     /\ HoldsConn(p)' => HoldsConn(p)
                                     /\ row' = p => row = p
         /\ Active(q) \/ (listener = "open" /\ phase # "exited")
<1> USE PoolAssumption, NoneAssumption
    DEF IInv, TypeOK, PC, HoldInv, Goto, Querying, Active
<1> DEFINE Frame ==
      /\ UNCHANGED mainVars
      /\ TypeOK'
      /\ pc'[q] \notin {pc[q], "cut"}
      /\ HoldsConn(q)' => Querying(q)'
      /\ pc'[q] = "acquire" => uses'[q] # 0
      /\ row' = q => pc'[q] = "locked"
      /\ \A p \in Request \ {q} : /\ pc'[p] = pc[p] /\ uses'[p] = uses[p]
                                  /\ HoldsConn(p)' => HoldsConn(p)
                                  /\ row' = p => row = p
      /\ Active(q) \/ (listener = "open" /\ phase # "exited")
<1>1. ASSUME Arrive(q) PROVE Frame
  BY <1>1 DEF Arrive, HoldsConn, mainVars
<1>2. ASSUME Use(q) PROVE Frame
  BY <1>2 DEF Use, HoldsConn, mainVars
<1>3. ASSUME Acquire(q) PROVE Frame
  BY <1>3 DEF Acquire, HoldsConn, mainVars
<1>4. ASSUME WantRow(q) PROVE Frame
  BY <1>4 DEF WantRow, HoldsConn, mainVars
<1>5. ASSUME LockRow(q) PROVE Frame
  BY <1>5 DEF LockRow, HoldsConn, mainVars
<1>6. ASSUME Release(q) PROVE Frame
  <2>1. /\ GivesBack(q) /\ UNCHANGED <<mainVars, uses>>
        /\ pc' = [pc EXCEPT ![q] = "run"] /\ pc[q] \notin {"run", "idle", "cut"}
    BY <1>6 DEF Release
  <2>2. TypeOK' /\ UNCHANGED mainVars
    BY <2>1, GivesBackAll DEF mainVars
  <2>3. /\ ~ HoldsConn(q)' /\ row' # q
        /\ \A p \in Request : /\ HoldsConn(p)' => HoldsConn(p)
                              /\ row' = p => row = p
    BY <2>1, GivesBackAll
  <2>4. pc'[q] = "run" /\ pc[q] # "run" /\ UNCHANGED uses
        /\ \A p \in Request \ {q} : pc'[p] = pc[p]
    BY <2>1
  <2>5. \A p \in Request \ {q} : /\ pc'[p] = pc[p] /\ uses'[p] = uses[p]
                                 /\ HoldsConn(p)' => HoldsConn(p)
                                 /\ row' = p => row = p
    BY <2>3, <2>4
  <2>6. QED
    BY <2>1, <2>2, <2>3, <2>4, <2>5
<1>7. ASSUME Fail(q) PROVE Frame
  <2>1. /\ GivesBack(q) /\ UNCHANGED <<mainVars, uses>>
        /\ pc' = [pc EXCEPT ![q] = "run"] /\ pc[q] \notin {"run", "idle", "cut"}
    BY <1>7 DEF Fail
  <2>2. TypeOK' /\ UNCHANGED mainVars
    BY <2>1, GivesBackAll DEF mainVars
  <2>3. /\ ~ HoldsConn(q)' /\ row' # q
        /\ \A p \in Request : /\ HoldsConn(p)' => HoldsConn(p)
                              /\ row' = p => row = p
    BY <2>1, GivesBackAll
  <2>4. pc'[q] = "run" /\ pc[q] # "run" /\ UNCHANGED uses
        /\ \A p \in Request \ {q} : pc'[p] = pc[p]
    BY <2>1
  <2>5. \A p \in Request \ {q} : /\ pc'[p] = pc[p] /\ uses'[p] = uses[p]
                                 /\ HoldsConn(p)' => HoldsConn(p)
                                 /\ row' = p => row = p
    BY <2>3, <2>4
  <2>6. QED
    BY <2>1, <2>2, <2>3, <2>4, <2>5
<1>8. ASSUME Answer(q) PROVE Frame
  BY <1>8 DEF Answer, HoldsConn, mainVars
<1>9. QED
  BY <1>1, <1>2, <1>3, <1>4, <1>5, <1>6, <1>7, <1>8 DEF RequestSteps

LEMMA RequestStepsInv ==
  ASSUME IInv, NEW q \in Request, RequestSteps(q)
  PROVE  IInv'
<1> USE DEF IInv
<1>1. UNCHANGED mainVars /\ TypeOK'
  BY RequestFrame
<1>2. Active(q) \/ (listener = "open" /\ phase # "exited")
  BY RequestFrame
<1>3. pool = "open" /\ phase \notin {"close", "closing"}
  BY <1>2 DEF ClosedLast, PhaseInv, Quiet, TypeOK
<1>4. HoldInv'
  BY <1>1, RequestFrame DEF HoldInv, Querying, mainVars
<1>5. PhaseInv' /\ ClosedLast' /\ SuccessIsClean'
  BY <1>1, <1>3 DEF PhaseInv, ClosedLast, SuccessIsClean, mainVars
<1>6. QED
  BY <1>1, <1>4, <1>5

LEMMA OutsideInv ==
  ASSUME IInv, OutsideLocks \/ OutsideLetsGo
  PROVE  IInv'
  BY NoneAssumption DEF OutsideLocks, OutsideLetsGo, mainVars, IInv, TypeOK,
     HoldInv, HoldsConn, Querying, PhaseInv, Quiet, Active, ClosedLast, SuccessIsClean

-----------------------------------------------------------------------------
(* Theorems                                                                *)

LEMMA NextInv == IInv /\ [Next]_vars => IInv'
<1> SUFFICES ASSUME IInv, [Next]_vars PROVE IInv'
  OBVIOUS
<1>1. CASE UNCHANGED vars
  BY <1>1 DEF vars, IInv, TypeOK, HoldInv, HoldsConn, Querying, PhaseInv, Quiet, Active,
     ClosedLast, SuccessIsClean
<1>2. ASSUME FailStart \/ SelectError \/ GiveUp PROVE IInv'
  BY <1>2, ExitInv DEF FailStart, SelectError, GiveUp
<1>3. ASSUME ReturnFromMain PROVE IInv'
  BY <1>3, ExitInv DEF ReturnFromMain
<1>4. ASSUME Signal PROVE IInv'
  BY <1>4, ExitInv, MainStepsInv DEF Signal, MainSteps
<1>5. ASSUME Main \/ Listen \/ Expire PROVE IInv'
  BY <1>2, <1>3, <1>5, MainStepsInv DEF Main, MainSteps
<1>6. ASSUME NEW q \in Request,
             \/ Arrive(q) \/ Proceed(q) \/ Fail(q)
             \/ Acquire(q) \/ WantRow(q) \/ LockRow(q)
      PROVE  IInv'
  BY <1>6, RequestStepsInv DEF Proceed, RequestSteps
<1>7. QED
  BY <1>1, <1>4, <1>5, <1>6, OutsideInv DEF Next

THEOREM Invariant == Spec => []IInv
  BY InitInv, NextInv, PTL DEF Spec

\* The types, for any requests, pool size and number of uses.
THEOREM TypeCorrect == Spec => []TypeOK
  BY Invariant, PTL DEF IInv

\* Who waits for a connection holds none, and no row: requests use connections
\* in turn, so that a full pool cannot hold itself up (Refresh revokes a
\* replayed family after its transaction, service.go:268 and 337).
NoHoldAndWait ==
  \A q \in Request : pc[q] = "acquire" =>
    ~ HoldsConn(q) /\ row # q

\* No request waits for a connection while it has one, or the row.
THEOREM NobodyHoldsAndWaits == Spec => []NoHoldAndWait
<1>1. IInv => NoHoldAndWait
  BY DEF IInv, HoldInv, NoHoldAndWait, Querying
<1>2. QED
  BY <1>1, Invariant, PTL

\* The pool is open while a request is under way.
LEMMA OpenWhileActive ==
  ASSUME IInv, NEW q \in Request, Active(q)
  PROVE  pool = "open"
  BY DEF IInv, PhaseInv, Quiet, ClosedLast, TypeOK

\* Who waits for the row waits for somebody who goes on, or for an outsider.
LEMMA RowHolderGoesOn ==
  ASSUME IInv, row \notin {None, Outside}
  PROVE  \E q \in Request : CanGoOn(q)
  BY DEF IInv, TypeOK, HoldInv, CanGoOn

\* When nobody queries the whole pool is free.
LEMMA QuietPool ==
  ASSUME IInv, \A q \in Request : ~ Querying(q)
  PROVE  ConnFree
<1>1. held = {}
  <2> SUFFICES ASSUME NEW h \in held PROVE FALSE
    OBVIOUS
  <2>1. PICK q \in Request, n \in 1..MaxUses : h = <<q, n>>
    BY DEF IInv, TypeOK
  <2>2. QED
    BY <2>1 DEF IInv, HoldInv, HoldsConn
<1>2. QED
  BY <1>1, FS_EmptySet, PoolAssumption DEF ConnFree

\* No number of requests brings a pool of any size to a standstill.
THEOREM ServerNeverStandsStill == Spec => []NoStandstill
<1>1. IInv => NoStandstill
  <2> SUFFICES ASSUME IInv, row # Outside, NEW q \in Request, Active(q)
               PROVE  \E p \in Request : CanGoOn(p)
    BY DEF NoStandstill
  <2>1. CASE row # None
    BY <2>1, RowHolderGoesOn
  <2>2. CASE row = None
    <3>1. CASE \E p \in Request : Querying(p)
      BY <2>2, <3>1 DEF Querying, CanGoOn
    <3>2. CASE \A p \in Request : ~ Querying(p)
      <4>1. pool = "open" /\ ConnFree
        BY <3>2, OpenWhileActive, QuietPool
      <4>2. pc[q] \in {"run", "acquire"}
        BY <3>2 DEF Active, Querying, IInv, TypeOK, PC
      <4>3. QED
        BY <4>1, <4>2 DEF CanGoOn
    <3>3. QED
      BY <3>1, <3>2
  <2>3. QED
    BY <2>1, <2>2
<1>2. QED
  BY <1>1, Invariant, PTL

\* The probe says no before the listener is closed, and the pool is closed when
\* nothing is left that could use it (main.go:123-140).
THEOREM PoolClosedLast == Spec => []ClosedLast
  BY Invariant, PTL DEF IInv

\* Who exits with 0 has answered every request.
THEOREM SuccessCutsNobody == Spec => []SuccessIsClean
  BY Invariant, PTL DEF IInv

=============================================================================
