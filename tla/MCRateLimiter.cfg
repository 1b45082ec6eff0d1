\* Two keys, two requests; a bucket of two that fills in two ticks, which are
\* as long as eviction waits beyond a request's patience; spans of up to as many
\* ticks as an eviction and what follows it take.
CONSTANTS
  Key = {k1, k2}
  Limiter = {l1, l2, l3}
  Request = {q1, q2}
  Burst = 2
  Rate = 1
  EvictAfter = 3
  Patience = 1
  Window = 4
  None = None
SPECIFICATION WFairSpec
INVARIANTS
  TypeOK
  WithinLimit
PROPERTIES
  ImplementsTokenBucket
  IdleKeysEvicted
