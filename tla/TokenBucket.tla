---------------------------- MODULE TokenBucket ----------------------------
(***************************************************************************)
(* What a rate limiter promises, without limiters, maps or eviction: every *)
(* key has a bucket of its own, which fills at a rate up to its size; a    *)
(* request is let through exactly if its key's bucket has a token, which   *)
(* it takes.                                                               *)
(***************************************************************************)
EXTENDS Naturals

CONSTANTS Key, Burst, Rate

VARIABLES
  level,      \* key -> tokens in its bucket
  verdict     \* the last answer: the key asked for and whether it passed

bvars == <<level, verdict>>

BInit ==
  /\ level = [k \in Key |-> Burst]
  /\ verdict = <<>>

Refilled(n) == IF n + Rate > Burst THEN Burst ELSE n + Rate

Refill ==
  /\ level' = [k \in Key |-> Refilled(level[k])]
  /\ UNCHANGED verdict

Pass(k) ==
  /\ level[k] > 0
  /\ level' = [level EXCEPT ![k] = @ - 1]
  /\ verdict' = <<k, TRUE>>

Reject(k) ==
  /\ level[k] = 0
  /\ verdict' = <<k, FALSE>>
  /\ UNCHANGED level

BNext == Refill \/ \E k \in Key : Pass(k) \/ Reject(k)

BSpec == BInit /\ [][BNext]_bvars

============================================================================
