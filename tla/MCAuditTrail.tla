---------------------------- MODULE MCAuditTrail ----------------------------
EXTENDS AuditTrail, TLC

\* Bound: at the last stamp the requests that do not page are changes of which
\* nothing has failed, and every decision allows.
LastStamp ==
  clock = MaxClock =>
    /\ \A q \in Requests \ Pagers :
         kind[q] = "change" /\ logged[q] = {} /\ pc[q] # "failed"
    /\ \A d \in decisions : d.allowed

Symmetry == Permutations(Requests \ Pagers)
=============================================================================
