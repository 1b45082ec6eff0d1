----------------------------- MODULE RateWindow -----------------------------
(***************************************************************************)
(* The rate limiter seen through a stopwatch: what a key gets out of it    *)
(* within a span of time, which is what a limit of 5 a second with bursts  *)
(* of 10 (cmd/main.go) is understood to bound.                             *)
(*                                                                         *)
(* RateLimiter with two history variables.  The watch may be started anew  *)
(* at any time, and stops after Window ticks.                              *)
(***************************************************************************)
EXTENDS RateLimiter

CONSTANT Window         \* ticks

ASSUME WindowAssumption == Window \in Nat

VARIABLES
  elapsed,    \* ticks since the watch was started
  passed      \* key -> requests let through since then

wvars == <<vars, elapsed, passed>>

WInit == Init /\ elapsed = 0 /\ passed = [k \in Key |-> 0]

Restarted == elapsed' = 0 /\ passed' = [k \in Key |-> 0]

\* The watch is started anew, or stopped.
Watch == Restarted /\ UNCHANGED vars

WAllow(q) ==
  /\ Allow(q)
  /\ passed' = [passed EXCEPT ![key[q]] = @ + 1]
  /\ UNCHANGED elapsed

WTick ==
  /\ Tick
  /\ IF elapsed < Window
     THEN elapsed' = elapsed + 1 /\ UNCHANGED passed
     ELSE Restarted

WOther ==
  /\ \/ \E q \in Request, k \in Key : GetKnown(q, k) \/ GetNew(q, k)
     \/ \E q \in Request : Refuse(q)
     \/ Cleanup
  /\ UNCHANGED <<elapsed, passed>>

WNext == Watch \/ (\E q \in Request : WAllow(q)) \/ WTick \/ WOther

WSpec == WInit /\ [][WNext]_wvars

WFairSpec ==
  /\ WSpec
  /\ WF_vars(Tick) /\ WF_vars(Cleanup)
  /\ \A q \in Request : WF_vars(Serve(q))

-----------------------------------------------------------------------------
(* Property *)

\* In no span of n ticks, whenever it begins, is a key let through more than
\* Burst + n * Rate times: not by requests that overlap, nor by an eviction that
\* hands it a full bucket, nor by a request that still holds the evicted one
\* (getLimiter, cleanupLoop, limiter.Allow).
WithinLimit == \A k \in Key : passed[k] <= Burst + elapsed * Rate

=============================================================================
