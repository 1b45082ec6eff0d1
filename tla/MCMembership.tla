--------------------------- MODULE MCMembership ---------------------------
(* Membership on small sets, for TLC. *)
EXTENDS Membership, TLC

\* Bound of the liveness run: links do not expire.
NothingExpires == expired = {}

\* Bounds of the safety run: one link expires at most, and a third one exists
\* only in the lineage of the other two, when none has expired and no request
\* about members is under way.
FewLinks ==
  /\ \A i, j \in expired : i = j
  /\ (\A i \in Invitation : invStatus[i] # "absent") =>
       /\ expired = {}
       /\ \A i, j \in Invitation : root[i] = root[j]
       /\ \A q \in Request : req[q] \in Rotations \cup Accepts \cup Deletes \cup {None}

Symmetry ==
  Permutations(Org) \cup Permutations(User) \cup Permutations(Invitation)
    \cup Permutations(Request)

===========================================================================
