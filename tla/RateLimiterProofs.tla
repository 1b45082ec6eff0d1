------------------------- MODULE RateLimiterProofs -------------------------
(* Proofs about RateLimiter and RateWindow, for any keys, requests, rate,  *)
(* size and span.                                                          *)
EXTENDS RateWindow, Integers, TLAPS

-----------------------------------------------------------------------------
(* Arithmetic                                                              *)

\* What a bucket gains in the ticks after a request's patience ended.
Gained(n) == (n - Patience) * Rate

LEMMA GainedGrows ==
  ASSUME NEW n \in Nat
  PROVE  /\ Gained(n) \in Int
         /\ Gained(n + 1) = Gained(n) + Rate
  BY LimitAssumption DEF Gained

LEMMA GainedFills ==
  /\ Gained(EvictAfter) >= Burst
  /\ Gained(EvictAfter + 1) >= Burst
  /\ Gained(Patience) = 0
<1>1. Gained(EvictAfter) >= Burst
  BY FillAssumption DEF Gained
<1>2. Gained(Patience) = 0
  BY LimitAssumption DEF Gained
<1>3. QED
  BY <1>1, <1>2, GainedGrows, LimitAssumption

LEMMA AdvanceFacts ==
  ASSUME NEW n \in 0..Burst
  PROVE  /\ Advance(n) \in 0..Burst
         /\ Advance(n) >= n
         /\ Advance(n) >= n + Rate \/ Advance(n) = Burst
  BY LimitAssumption DEF Advance

-----------------------------------------------------------------------------
(* The inductive invariant                                                 *)

\* A request never spends from a limiter that its key has lost: two requests
\* of one key, whatever was evicted between them, use one bucket (lastSeen is
\* set by the look-up, under the mutex that eviction takes).
HeldIsCurrent ==
  \A q \in Request : held[q] # None => visitor[key[q]] = held[q]

\* Keys do not share a bucket.
BucketsApart ==
  \A j, k \in Key : visitor[j] # None /\ visitor[j] = visitor[k] => j = k

\* A request looked its key up itself, so the key is no older than its wait.
Fresh ==
  \A q \in Request :
    held[q] # None => key[q] \in Key /\ age[key[q]] <= waited[q]

\* A bucket no request can still hold fills as its key ages.
Filled ==
  \A k \in Key :
    visitor[k] # None /\ age[k] > Patience =>
      tokens[visitor[k]] = Burst \/ tokens[visitor[k]] >= Gained(age[k])

IInv == TypeOK /\ HeldIsCurrent /\ BucketsApart /\ Fresh /\ Filled

LEMMA InitInv == Init => IInv
<1> SUFFICES ASSUME Init PROVE IInv
  OBVIOUS
<1>1. TypeOK
  BY LimitAssumption DEF Init, TypeOK
<1>2. HeldIsCurrent /\ BucketsApart /\ Fresh /\ Filled
  BY DEF Init, HeldIsCurrent, BucketsApart, Fresh, Filled
<1>3. QED
  BY <1>1, <1>2 DEF IInv

-----------------------------------------------------------------------------
(* Looking a key up                                                        *)

LEMMA HoldKeepsFresh ==
  ASSUME IInv, NEW q \in Request, NEW k \in Key, NEW l \in Limiter, Hold(q, k, l)
  PROVE  Fresh'
<1> USE LimitAssumption DEF IInv, TypeOK, Hold
<1> SUFFICES ASSUME NEW p \in Request, held'[p] # None
             PROVE  key'[p] \in Key /\ age'[key'[p]] <= waited'[p]
  BY DEF Fresh
<1>1. CASE p = q
  BY <1>1
<1>2. CASE p # q
  <2>1. held[p] # None /\ key'[p] = key[p] /\ waited'[p] = waited[p]
    BY <1>2
  <2>2. key[p] \in Key /\ age[key[p]] <= waited[p] /\ waited[p] \in 0..Patience
    BY <2>1 DEF Fresh
  <2>3. age'[key[p]] = 0 \/ age'[key[p]] = age[key[p]]
    BY <2>2
  <2>4. QED
    BY <2>1, <2>2, <2>3
<1>3. QED
  BY <1>1, <1>2

LEMMA GetKnownInv ==
  ASSUME IInv, NEW q \in Request, NEW k \in Key, GetKnown(q, k)
  PROVE  IInv' /\ Level' = Level
<1> USE LimitAssumption, NoneAssumption DEF IInv, GetKnown
<1>1. visitor[k] \in Limiter /\ Hold(q, k, visitor[k])
  BY DEF TypeOK
<1>2. TypeOK'
  BY <1>1 DEF TypeOK, Hold
<1>3. Fresh'
  BY <1>1, HoldKeepsFresh
<1>4. HeldIsCurrent' /\ BucketsApart'
  BY <1>1 DEF HeldIsCurrent, BucketsApart, Hold, TypeOK
<1>5. Filled'
  BY <1>1 DEF Filled, Hold, TypeOK
<1>6. Level' = Level
  BY DEF Level
<1>7. QED
  BY <1>2, <1>3, <1>4, <1>5, <1>6

LEMMA GetNewInv ==
  ASSUME IInv, NEW q \in Request, NEW k \in Key, GetNew(q, k)
  PROVE  IInv' /\ Level' = Level
<1> USE LimitAssumption, NoneAssumption DEF IInv
<1>1. PICK l \in Limiter :
        /\ visitor[k] = None /\ Unused(l) /\ Hold(q, k, l)
        /\ visitor' = [visitor EXCEPT ![k] = l]
        /\ tokens' = [tokens EXCEPT ![l] = Burst]
  BY DEF GetNew
<1>2. TypeOK'
  BY <1>1 DEF TypeOK, Hold
<1>3. Fresh'
  BY <1>1, HoldKeepsFresh
<1>4. HeldIsCurrent'
  <2> SUFFICES ASSUME NEW p \in Request, held'[p] # None
               PROVE  visitor'[key'[p]] = held'[p]
    BY DEF HeldIsCurrent
  <2>1. CASE p = q
    BY <1>1, <2>1 DEF Hold, TypeOK
  <2>2. CASE p # q
    <3>1. held[p] # None /\ held'[p] = held[p] /\ key'[p] = key[p]
      BY <1>1, <2>2 DEF Hold, TypeOK
    <3>2. visitor[key[p]] = held[p] /\ key[p] \in Key /\ key[p] # k
      BY <1>1, <3>1 DEF HeldIsCurrent, Fresh
    <3>3. QED
      BY <1>1, <3>1, <3>2 DEF TypeOK
  <2>3. QED
    BY <2>1, <2>2
<1>5. BucketsApart'
  BY <1>1 DEF BucketsApart, Unused, TypeOK
<1>6. \A j \in Key : j # k => /\ visitor'[j] = visitor[j] /\ age'[j] = age[j]
                              /\ visitor[j] # None =>
                                   tokens'[visitor[j]] = tokens[visitor[j]]
  BY <1>1 DEF Unused, Hold, TypeOK
<1>7. Filled'
  BY <1>1, <1>6 DEF Filled, Hold, TypeOK
<1>8. Level' = Level
  <2>1. visitor'[k] = l /\ tokens'[l] = Burst /\ l # None
    BY <1>1 DEF TypeOK
  <2>2. QED
    BY <1>1, <1>6, <2>1 DEF Level
<1>9. QED
  BY <1>2, <1>3, <1>4, <1>5, <1>7, <1>8

-----------------------------------------------------------------------------
(* Spending                                                                *)

\* An answered request leaves every bucket but its own as it was, and its own
\* key is young.
LEMMA AnsweredInv ==
  ASSUME IInv, NEW q \in Request, NEW b \in BOOLEAN, held[q] # None,
         Answered(q, b), tokens' \in [Limiter -> 0..Burst],
         \A l \in Limiter : l # held[q] => tokens'[l] = tokens[l]
  PROVE  IInv'
<1> USE LimitAssumption, NoneAssumption DEF IInv, Answered
<1>1. /\ key[q] \in Key /\ visitor[key[q]] = held[q]
      /\ age[key[q]] <= Patience
  BY DEF HeldIsCurrent, Fresh, TypeOK
<1>2. TypeOK'
  BY <1>1 DEF TypeOK
<1>3. HeldIsCurrent' /\ BucketsApart' /\ Fresh'
  BY DEF HeldIsCurrent, BucketsApart, Fresh, TypeOK
<1>4. Filled'
  <2> SUFFICES ASSUME NEW k \in Key, visitor[k] # None, age[k] > Patience
               PROVE  \/ tokens'[visitor[k]] = Burst
                      \/ tokens'[visitor[k]] >= Gained(age[k])
    BY DEF Filled
  <2>1. k # key[q] /\ visitor[k] \in Limiter
    BY <1>1 DEF TypeOK
  <2>2. visitor[k] # held[q]
    BY <1>1, <2>1 DEF BucketsApart
  <2>3. tokens'[visitor[k]] = tokens[visitor[k]]
    BY <2>1, <2>2
  <2>4. QED
    BY <2>3 DEF Filled
<1>5. QED
  BY <1>2, <1>3, <1>4

\* The bucket a request finds is its key's.
LEMMA ServeKey ==
  ASSUME IInv, NEW q \in Request, held[q] # None
  PROVE  /\ key[q] \in Key /\ held[q] \in Limiter
         /\ visitor[key[q]] = held[q]
         /\ Level[key[q]] = tokens[held[q]]
         /\ tokens[held[q]] \in 0..Burst
         /\ \A k \in Key : k # key[q] => visitor[k] # held[q]
  BY NoneAssumption DEF IInv, HeldIsCurrent, Fresh, Level, TypeOK, BucketsApart

LEMMA AllowInv ==
  ASSUME IInv, NEW q \in Request, Allow(q)
  PROVE  IInv' /\ Buckets!Pass(key[q])
<1> USE LimitAssumption, NoneAssumption
<1>1. /\ held[q] # None /\ tokens[held[q]] > 0 /\ Answered(q, TRUE)
      /\ tokens' = [tokens EXCEPT ![held[q]] = @ - 1]
  BY DEF Allow
<1>2. tokens' \in [Limiter -> 0..Burst]
  BY <1>1, ServeKey DEF IInv, TypeOK
<1>3. IInv'
  BY <1>1, <1>2, AnsweredInv DEF IInv, TypeOK
<1>4. Level' = [Level EXCEPT ![key[q]] = @ - 1]
  <2>1. \A k \in Key :
          Level'[k] = IF k = key[q] THEN Level[k] - 1 ELSE Level[k]
    <3> SUFFICES ASSUME NEW k \in Key
                 PROVE  Level'[k] = IF k = key[q] THEN Level[k] - 1 ELSE Level[k]
      OBVIOUS
    <3>1. Level[k] = IF visitor[k] = None THEN Burst ELSE tokens[visitor[k]]
      BY DEF Level
    <3>2. Level'[k] = IF visitor[k] = None THEN Burst ELSE tokens'[visitor[k]]
      BY <1>1 DEF Level, Answered
    <3>3. visitor[k] # None => visitor[k] \in Limiter
      BY DEF IInv, TypeOK
    <3>4. tokens \in [Limiter -> 0..Burst]
      BY DEF IInv, TypeOK
    <3>5. CASE k = key[q]
      BY <1>1, <3>1, <3>2, <3>4, <3>5, ServeKey
    <3>6. CASE k # key[q]
      BY <1>1, <3>1, <3>2, <3>3, <3>4, <3>6, ServeKey
    <3>7. QED
      BY <3>5, <3>6
  <2>2. QED
    BY <2>1, ServeKey, <1>1 DEF Level
<1>5. Buckets!Pass(key[q])
  BY <1>1, <1>4, ServeKey DEF Buckets!Pass, Answered
<1>6. QED
  BY <1>3, <1>5

LEMMA RefuseInv ==
  ASSUME IInv, NEW q \in Request, Refuse(q)
  PROVE  IInv' /\ Buckets!Reject(key[q])
<1>1. /\ held[q] # None /\ tokens[held[q]] = 0 /\ Answered(q, FALSE)
      /\ tokens' = tokens
  BY DEF Refuse
<1>2. IInv'
  BY <1>1, AnsweredInv DEF IInv, TypeOK
<1>3. Level' = Level
  BY <1>1 DEF Level, Answered
<1>4. Buckets!Reject(key[q])
  BY <1>1, <1>3, ServeKey DEF Buckets!Reject, Answered
<1>5. QED
  BY <1>2, <1>4

-----------------------------------------------------------------------------
(* Eviction and time                                                       *)

\* What is evicted is full, and nobody holds it.
LEMMA CleanupInv ==
  ASSUME IInv, Cleanup
  PROVE  IInv' /\ Level' = Level
<1> USE LimitAssumption, NoneAssumption, FillAssumption DEF IInv, Cleanup
<1>1. ASSUME NEW k \in Key, age[k] > EvictAfter, visitor[k] # None
      PROVE  tokens[visitor[k]] = Burst
  <2>1. age[k] = EvictAfter + 1 /\ age[k] > Patience
    BY <1>1 DEF TypeOK
  <2>2. tokens[visitor[k]] \in 0..Burst
    BY <1>1 DEF TypeOK
  <2>3. Gained(EvictAfter + 1) \in Int
    BY GainedGrows
  <2>4. QED
    BY <1>1, <2>1, <2>2, <2>3, GainedFills DEF Filled
<1>2. \A q \in Request : held[q] # None => age[key[q]] <= EvictAfter
  BY DEF Fresh, TypeOK
<1>3. TypeOK'
  BY DEF TypeOK
<1>4. HeldIsCurrent' /\ BucketsApart' /\ Fresh' /\ Filled'
  BY <1>2 DEF HeldIsCurrent, BucketsApart, Fresh, Filled, TypeOK
<1>5. Level' = Level
  BY <1>1 DEF Level, TypeOK
<1>6. QED
  BY <1>3, <1>4, <1>5

LEMMA TickFills ==
  ASSUME IInv, Tick
  PROVE  Filled'
<1> USE LimitAssumption, NoneAssumption, FillAssumption DEF IInv, Tick
<1> SUFFICES ASSUME NEW k \in Key, visitor[k] # None, age'[k] > Patience
             PROVE  \/ tokens'[visitor[k]] = Burst
                    \/ tokens'[visitor[k]] >= Gained(age'[k])
  BY DEF Filled
<1> DEFINE l == visitor[k]
           n == tokens[l]
<1>1. /\ l \in Limiter /\ n \in 0..Burst /\ tokens'[l] = Advance(n)
      /\ age[k] \in 0..EvictAfter + 1
      /\ age'[k] = IF age[k] > EvictAfter THEN age[k] ELSE age[k] + 1
  BY DEF TypeOK
<1>2. /\ Advance(n) \in 0..Burst /\ Advance(n) >= n
      /\ Advance(n) >= n + Rate \/ Advance(n) = Burst
  BY <1>1, AdvanceFacts
<1>3. Gained(age[k]) \in Int /\ Gained(age[k] + 1) = Gained(age[k]) + Rate
  BY <1>1, GainedGrows
<1>4. CASE age[k] > EvictAfter
  <2>1. n = Burst \/ n >= Gained(age[k])
    BY <1>1, <1>4 DEF Filled
  <2>2. QED
    BY <1>1, <1>2, <1>3, <1>4, <2>1
<1>5. CASE age[k] <= EvictAfter /\ age[k] > Patience
  <2>1. n = Burst \/ n >= Gained(age[k])
    BY <1>1, <1>5 DEF Filled
  <2>2. QED
    BY <1>1, <1>2, <1>3, <1>5, <2>1
<1>6. CASE age[k] = Patience
  BY <1>1, <1>2, <1>3, <1>6, GainedFills
<1>7. QED
  BY <1>1, <1>4, <1>5, <1>6

LEMMA TickInv ==
  ASSUME IInv, Tick
  PROVE  IInv' /\ Buckets!Refill
<1> USE LimitAssumption, NoneAssumption DEF IInv, Tick
<1>1. TypeOK'
  <2>1. tokens' \in [Limiter -> 0..Burst]
    BY AdvanceFacts DEF TypeOK
  <2>2. age' \in [Key -> 0..EvictAfter + 1]
    BY DEF TypeOK
  <2>3. waited' \in [Request -> 0..Patience]
    BY DEF TypeOK
  <2>4. QED
    BY <2>1, <2>2, <2>3 DEF TypeOK
<1>2. HeldIsCurrent' /\ BucketsApart'
  BY DEF HeldIsCurrent, BucketsApart
<1>3. Fresh'
  BY DEF Fresh, TypeOK
<1>4. Filled'
  BY TickFills
<1>5. \A k \in Key : Level'[k] = Buckets!Refilled(Level[k])
  <2>1. Advance(Burst) = Burst
    BY DEF Advance
  <2>2. QED
    BY <2>1 DEF Level, Buckets!Refilled, Advance, TypeOK
<1>6. Buckets!Refill
  BY <1>5 DEF Buckets!Refill, Level
<1>7. QED
  BY <1>1, <1>2, <1>3, <1>4, <1>6

-----------------------------------------------------------------------------
(* Theorems                                                                *)

\* Every step keeps the invariant and is one of the buckets' steps, or none.
LEMMA StepInv ==
  ASSUME IInv, [Next]_vars
  PROVE  IInv' /\ [Buckets!BNext]_(Buckets!bvars)
<1>1. CASE UNCHANGED vars
  BY <1>1 DEF vars, IInv, TypeOK, HeldIsCurrent, BucketsApart, Fresh, Filled,
     Level, Buckets!bvars
<1>2. ASSUME NEW q \in Request, NEW k \in Key, GetKnown(q, k) \/ GetNew(q, k)
      PROVE  IInv' /\ UNCHANGED Buckets!bvars
  BY <1>2, GetKnownInv, GetNewInv DEF GetKnown, GetNew, Hold, Buckets!bvars
<1>3. ASSUME NEW q \in Request, Serve(q)
      PROVE  IInv' /\ Buckets!BNext
  <2>1. held[q] # None
    BY <1>3 DEF Serve, Allow, Refuse
  <2>2. key[q] \in Key
    BY <2>1, ServeKey
  <2>3. QED
    BY <1>3, <2>2, AllowInv, RefuseInv DEF Serve, Buckets!BNext
<1>4. CASE Cleanup
  BY <1>4, CleanupInv DEF Cleanup, Buckets!bvars
<1>5. CASE Tick
  BY <1>5, TickInv DEF Buckets!BNext
<1>6. QED
  BY <1>1, <1>2, <1>3, <1>4, <1>5 DEF Next

THEOREM Invariant == Spec => []IInv
<1>1. IInv /\ [Next]_vars => IInv'
  BY StepInv
<1>2. QED
  BY InitInv, <1>1, PTL DEF Spec

\* The types, for any keys, requests, rate and size.
THEOREM TypeCorrect == Spec => []TypeOK
  BY Invariant, PTL DEF IInv

\* No request ever spends from an evicted limiter.
THEOREM HeldLimitersAreCurrent == Spec => []HeldIsCurrent
  BY Invariant, PTL DEF IInv

\* Evictions are invisible: each key has one everlasting token bucket.
THEOREM Refinement == Spec => ImplementsTokenBucket
<1>1. Init => Buckets!BInit
  BY DEF Init, Buckets!BInit, Level
<1>2. IInv /\ [Next]_vars => [Buckets!BNext]_(Buckets!bvars)
  BY StepInv
<1>3. QED
  BY <1>1, <1>2, Invariant, PTL DEF Spec, ImplementsTokenBucket, Buckets!BSpec

-----------------------------------------------------------------------------
(* The limit over a span of time                                           *)

\* What a key got since the watch was started and what it has left come from
\* the bucket it had then and what has filled it since.
Budget == \A k \in Key : passed[k] + Level[k] <= Burst + elapsed * Rate

WInv ==
  /\ IInv
  /\ elapsed \in 0..Window /\ passed \in [Key -> Nat]
  /\ Budget

LEMMA LevelBounded ==
  ASSUME IInv, NEW k \in Key
  PROVE  Level[k] \in 0..Burst
  BY LimitAssumption DEF IInv, TypeOK, Level

LEMMA Products ==
  ASSUME NEW n \in Nat
  PROVE  n * Rate \in Nat /\ (n + 1) * Rate = n * Rate + Rate
  BY LimitAssumption

LEMMA RestartedInv ==
  ASSUME WInv, IInv', Restarted
  PROVE  WInv'
<1>1. elapsed' * Rate = 0
  BY LimitAssumption DEF Restarted
<1>2. \A k \in Key : passed'[k] = 0 /\ Level'[k] \in 0..Burst
  <2> SUFFICES ASSUME NEW k \in Key
               PROVE  passed'[k] = 0 /\ Level'[k] \in 0..Burst
    OBVIOUS
  <2>1. QED
    BY LimitAssumption DEF Restarted, IInv, TypeOK, Level
<1>3. elapsed' \in 0..Window /\ passed' \in [Key -> Nat]
  BY WindowAssumption DEF Restarted
<1>4. Budget'
  BY <1>1, <1>2, LimitAssumption DEF Budget
<1>5. QED
  BY <1>3, <1>4 DEF WInv

LEMMA SameBudget ==
  ASSUME WInv, IInv', Level' = Level, UNCHANGED <<elapsed, passed>>
  PROVE  WInv'
  BY DEF WInv, Budget

LEMMA WAllowInv ==
  ASSUME WInv, NEW q \in Request, WAllow(q)
  PROVE  WInv'
<1> USE DEF WInv
<1>1. IInv' /\ Buckets!Pass(key[q]) /\ key[q] \in Key
  BY AllowInv, ServeKey DEF WAllow, Allow
<1>2. passed' = [passed EXCEPT ![key[q]] = @ + 1] /\ elapsed' = elapsed
  BY DEF WAllow
<1>3. Level' = [Level EXCEPT ![key[q]] = @ - 1]
  BY <1>1 DEF Buckets!Pass
<1>4. Budget'
  <2> SUFFICES ASSUME NEW k \in Key
               PROVE  passed'[k] + Level'[k] <= Burst + elapsed * Rate
    BY <1>2 DEF Budget
  <2>1. Level[k] \in 0..Burst /\ passed[k] \in Nat
    BY LevelBounded
  <2>2. Level'[k] = IF k = key[q] THEN Level[k] - 1 ELSE Level[k]
    BY <1>3 DEF Level
  <2>3. passed'[k] = IF k = key[q] THEN passed[k] + 1 ELSE passed[k]
    BY <1>2
  <2>4. passed'[k] + Level'[k] = passed[k] + Level[k]
    BY <2>1, <2>2, <2>3, LimitAssumption
  <2>5. QED
    BY <2>4 DEF Budget
<1>5. QED
  BY <1>1, <1>2, <1>4

LEMMA WTickInv ==
  ASSUME WInv, WTick
  PROVE  WInv'
<1>1. IInv' /\ Buckets!Refill
  BY TickInv DEF WInv, WTick
<1>2. CASE elapsed < Window
  <2>1. elapsed' = elapsed + 1 /\ passed' = passed /\ elapsed \in Nat
    BY <1>2 DEF WTick, WInv
  <2>2. elapsed' \in 0..Window
    BY <1>2, <2>1, WindowAssumption
  <2>3. Budget'
    <3> SUFFICES ASSUME NEW k \in Key
                 PROVE  passed[k] + Level'[k] <= Burst + (elapsed + 1) * Rate
      BY <2>1 DEF Budget
    <3>1. Level[k] \in 0..Burst /\ passed[k] \in Nat
      BY LevelBounded DEF WInv
    <3>2. Level'[k] = Buckets!Refilled(Level[k])
      BY <1>1 DEF Buckets!Refill
    <3>3. Level'[k] \in Nat /\ Level'[k] <= Level[k] + Rate
      BY <3>1, <3>2, LimitAssumption DEF Buckets!Refilled
    <3>4. passed[k] + Level[k] <= Burst + elapsed * Rate
      BY DEF WInv, Budget
    <3>5. elapsed * Rate \in Nat /\ (elapsed + 1) * Rate = elapsed * Rate + Rate
      BY <2>1, Products
    <3>6. QED
      BY <3>1, <3>3, <3>4, <3>5, LimitAssumption
  <2>4. QED
    BY <1>1, <2>1, <2>2, <2>3 DEF WInv
<1>3. CASE ~ (elapsed < Window)
  BY <1>1, <1>3, RestartedInv DEF WTick
<1>4. QED
  BY <1>2, <1>3

LEMMA WStepInv ==
  ASSUME WInv, [WNext]_wvars
  PROVE  WInv' /\ [Next]_vars
<1>1. CASE UNCHANGED wvars
  <2>1. IInv' /\ Level' = Level
    BY <1>1, StepInv DEF WInv, wvars, vars, Level
  <2>2. QED
    BY <1>1, <2>1, SameBudget DEF wvars
<1>2. CASE Watch
  BY <1>2, StepInv, RestartedInv DEF Watch, WInv
<1>3. ASSUME NEW q \in Request, WAllow(q)
      PROVE  WInv' /\ Next
  BY <1>3, WAllowInv DEF WAllow, Serve, Next
<1>4. CASE WTick
  BY <1>4, WTickInv DEF WTick, Next
<1>5. CASE WOther
  <2>1. ASSUME NEW q \in Request, NEW k \in Key, GetKnown(q, k) \/ GetNew(q, k)
        PROVE  IInv' /\ Level' = Level /\ Next
    BY <2>1, GetKnownInv, GetNewInv DEF WInv, Next
  <2>2. ASSUME NEW q \in Request, Refuse(q)
        PROVE  IInv' /\ Level' = Level /\ Next
    BY <2>2, RefuseInv DEF WInv, Next, Serve, Buckets!Reject
  <2>3. ASSUME Cleanup
        PROVE  IInv' /\ Level' = Level /\ Next
    BY <2>3, CleanupInv DEF WInv, Next
  <2>4. IInv' /\ Level' = Level /\ Next
    BY <1>5, <2>1, <2>2, <2>3 DEF WOther
  <2>5. QED
    BY <1>5, <2>4, SameBudget DEF WOther
<1>6. QED
  BY <1>1, <1>2, <1>3, <1>4, <1>5 DEF WNext

\* The watch watches: what is proved of RateLimiter holds under it.
THEOREM WatchedIsLimiter == WSpec => Spec
<1>1. WInit => Init
  BY DEF WInit
<1>2. [WNext]_wvars => [Next]_vars
  BY DEF WNext, wvars, Watch, WAllow, WTick, WOther, Next, Serve
<1>3. QED
  BY <1>1, <1>2, PTL DEF WSpec, Spec

\* In any n ticks a key is let through at most Burst + n * Rate times.
THEOREM KeysStayWithinLimit == WSpec => []WithinLimit
<1>1. WInit => WInv
  <2> SUFFICES ASSUME WInit PROVE WInv
    OBVIOUS
  <2>1. IInv /\ elapsed \in 0..Window /\ passed \in [Key -> Nat]
    BY InitInv, WindowAssumption DEF WInit
  <2>2. elapsed * Rate = 0 /\ \A k \in Key : passed[k] = 0
    BY LimitAssumption DEF WInit
  <2>3. ASSUME NEW k \in Key
        PROVE  passed[k] + Level[k] <= Burst + elapsed * Rate
    <3>1. Level[k] \in 0..Burst
      BY <2>1, LevelBounded
    <3>2. QED
      BY <2>2, <3>1, LimitAssumption
  <2>4. QED
    BY <2>1, <2>3 DEF WInv, Budget
<1>2. WInv /\ [WNext]_wvars => WInv'
  BY WStepInv
<1>3. WInv => WithinLimit
  <2> SUFFICES ASSUME WInv, NEW k \in Key
               PROVE  passed[k] <= Burst + elapsed * Rate
    BY DEF WithinLimit
  <2>1. Level[k] \in 0..Burst /\ passed[k] \in Nat
    BY LevelBounded DEF WInv
  <2>2. elapsed * Rate \in Nat
    BY Products DEF WInv
  <2>3. QED
    BY <2>1, <2>2, LimitAssumption DEF WInv, Budget
<1>4. QED
  BY <1>1, <1>2, <1>3, PTL DEF WSpec

============================================================================
