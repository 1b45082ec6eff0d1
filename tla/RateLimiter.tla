---------------------------- MODULE RateLimiter ----------------------------
(***************************************************************************)
(* The rate limiter in front of the routes (internal/middleware).          *)
(*                                                                         *)
(* A map, under a mutex, gives each key (an IP, or an organization) its    *)
(* limiter, a token bucket of golang.org/x/time/rate.  A request looks the *)
(* limiter up and uses it after it has let go of the mutex; a background   *)
(* loop evicts the keys that were not looked up for three minutes.  An     *)
(* evicted key starts over with a full bucket, and a request may by then   *)
(* hold the limiter that was evicted.                                      *)
(*                                                                         *)
(* Time passes in ticks.  A request gets from getLimiter to Allow within   *)
(* Patience ticks: nothing that blocks lies between the two.               *)
(***************************************************************************)
EXTENDS Naturals

CONSTANTS Key,          \* what routes pass in
          Limiter,      \* addresses of limiters, used again once forgotten
          Request,      \* goroutines
          Burst, Rate,  \* NewRateLimiter; the rate is per tick
          EvictAfter,   \* the three minutes, in ticks
          Patience,
          None

ASSUME LimitAssumption ==
  /\ Burst \in Nat /\ Rate \in Nat /\ EvictAfter \in Nat /\ Patience \in Nat

\* A bucket fills before its key is evicted: 5 a second, 10, three minutes.
ASSUME FillAssumption ==
  EvictAfter >= Patience /\ (EvictAfter - Patience) * Rate >= Burst

ASSUME NoneAssumption == None \notin Key \cup Limiter

VARIABLES
  visitor,    \* key -> its limiter; None for a key not in the map
  age,        \* key -> ticks since lastSeen, at most EvictAfter + 1
  tokens,     \* limiter -> its tokens
  held,       \* q -> the limiter getLimiter gave it; None outside of that
  key,        \* q -> the key it was looked up for
  waited,     \* q -> ticks since then
  verdict     \* history: the last answer of Allow

vars == <<visitor, age, tokens, held, key, waited, verdict>>

TypeOK ==
  /\ visitor \in [Key -> Limiter \cup {None}]
  /\ age \in [Key -> 0..EvictAfter + 1]
  /\ tokens \in [Limiter -> 0..Burst]
  /\ held \in [Request -> Limiter \cup {None}]
  /\ key \in [Request -> Key \cup {None}]
  /\ waited \in [Request -> 0..Patience]
  /\ verdict \in {<<>>} \cup (Key \X BOOLEAN)

Init ==
  /\ visitor = [k \in Key |-> None]
  /\ age = [k \in Key |-> 0]
  /\ tokens = [l \in Limiter |-> Burst]
  /\ held = [q \in Request |-> None]
  /\ key = [q \in Request |-> None]
  /\ waited = [q \in Request |-> 0]
  /\ verdict = <<>>

-----------------------------------------------------------------------------
(* Helpers *)

\* No one refers to limiter l.
Unused(l) ==
  /\ \A k \in Key : visitor[k] # l
  /\ \A q \in Request : held[q] # l

\* x/time/rate: a token bucket's tokens a tick later.
Advance(n) == IF n + Rate > Burst THEN Burst ELSE n + Rate

\* q goes on with limiter l, of key k.
Hold(q, k, l) ==
  /\ held[q] = None
  /\ held' = [held EXCEPT ![q] = l]
  /\ key' = [key EXCEPT ![q] = k]
  /\ waited' = [waited EXCEPT ![q] = 0]
  /\ age' = [age EXCEPT ![k] = 0]
  /\ UNCHANGED verdict

-----------------------------------------------------------------------------
(* A request *)

\* getLimiter, of a key in the map: lastSeen is now.
GetKnown(q, k) ==
  /\ visitor[k] # None
  /\ Hold(q, k, visitor[k])
  /\ UNCHANGED <<visitor, tokens>>

\* getLimiter, of a key that is not: a new and full bucket.
GetNew(q, k) ==
  /\ visitor[k] = None
  /\ \E l \in Limiter :
       /\ Unused(l)
       /\ Hold(q, k, l)
       /\ visitor' = [visitor EXCEPT ![k] = l]
       /\ tokens' = [tokens EXCEPT ![l] = Burst]

\* q has its answer for its key.
Answered(q, passed) ==
  /\ verdict' = <<key[q], passed>>
  /\ held' = [held EXCEPT ![q] = None]
  /\ key' = [key EXCEPT ![q] = None]
  /\ waited' = [waited EXCEPT ![q] = 0]
  /\ UNCHANGED <<visitor, age>>

\* Mutant: a request that was let through does not pay.
AllowFree(q) ==
  /\ held[q] # None /\ tokens[held[q]] > 0
  /\ Answered(q, TRUE)
  /\ UNCHANGED tokens

\* Mutant: the bucket is not looked at.
AllowAlways(q) ==
  /\ held[q] # None
  /\ tokens' = [tokens EXCEPT ![held[q]] = @ - 1]
  /\ Answered(q, TRUE)

\* limiter.Allow() takes a token: the next handler runs.
Allow(q) ==
  /\ held[q] # None /\ tokens[held[q]] > 0
  /\ tokens' = [tokens EXCEPT ![held[q]] = @ - 1]
  /\ Answered(q, TRUE)

\* There is none: 429.
Refuse(q) ==
  /\ held[q] # None /\ tokens[held[q]] = 0
  /\ Answered(q, FALSE)
  /\ UNCHANGED tokens

-----------------------------------------------------------------------------
(* Eviction and time *)

\* Mutant: the keys seen lately are evicted, the idle ones stay.
CleanupFresh ==
  /\ visitor' = [k \in Key |-> IF age[k] < EvictAfter THEN None ELSE visitor[k]]
  /\ UNCHANGED <<age, tokens, held, key, waited, verdict>>

\* Mutant: a key is idle as soon as it was not looked up in this tick.
CleanupEarly ==
  /\ visitor' = [k \in Key |-> IF age[k] > 0 THEN None ELSE visitor[k]]
  /\ UNCHANGED <<age, tokens, held, key, waited, verdict>>

\* One round of cleanupLoop, all of it under the mutex.
Cleanup ==
  /\ visitor' = [k \in Key |-> IF age[k] > EvictAfter THEN None ELSE visitor[k]]
  /\ UNCHANGED <<age, tokens, held, key, waited, verdict>>

Tick ==
  /\ \A q \in Request : held[q] # None => waited[q] < Patience
  /\ tokens' = [l \in Limiter |-> Advance(tokens[l])]
  /\ age' = [k \in Key |-> IF age[k] > EvictAfter THEN age[k] ELSE age[k] + 1]
  /\ waited' = [q \in Request |-> IF held[q] = None THEN 0 ELSE waited[q] + 1]
  /\ UNCHANGED <<visitor, held, key, verdict>>

-----------------------------------------------------------------------------
Serve(q) == Allow(q) \/ Refuse(q)

Next ==
  \/ \E q \in Request :
       \/ \E k \in Key : GetKnown(q, k) \/ GetNew(q, k)
       \/ Serve(q)
  \/ Cleanup
  \/ Tick

Spec == Init /\ [][Next]_vars

\* Time passes, the loop comes round, and a request finishes.
FairSpec ==
  /\ Spec
  /\ WF_vars(Tick) /\ WF_vars(Cleanup)
  /\ \A q \in Request : WF_vars(Serve(q))

-----------------------------------------------------------------------------
(* Properties *)

\* What a key may spend: its bucket's tokens, and a full bucket's before its
\* first request and after its eviction.
Level ==
  [k \in Key |-> IF visitor[k] = None THEN Burst ELSE tokens[visitor[k]]]

Buckets == INSTANCE TokenBucket WITH level <- Level, verdict <- verdict

\* Eviction is invisible: the map, the look-ups and the evictions behave as one
\* everlasting bucket per key, so that no key is let through more often, or
\* less, than the limit says (NewRateLimiter(5, 10) in cmd/main.go).
ImplementsTokenBucket == Buckets!BSpec

\* "evicts idle keys so the map does not grow forever": a key that is not
\* looked up any more leaves the map (cleanupLoop).
IdleKeysEvicted ==
  \A k \in Key : []<>(visitor[k] = None \/ age[k] = 0)

============================================================================
