---------------------------- MODULE TokenFamily ----------------------------
(***************************************************************************)
(* What the rotation of refresh tokens, and of invitation links, promises, *)
(* without requests, locks or rows.                                        *)
(*                                                                         *)
(* A family starts with one usable token.  Rotation exchanges the usable   *)
(* token for a fresh one; a token that was exchanged or killed is never    *)
(* usable again; a family killed has no usable token ever after.  A family *)
(* is named after its first token.                                         *)
(***************************************************************************)
CONSTANTS Token, None     \* None is no token

VARIABLES
  issued,     \* tokens ever issued
  usable      \* family -> its usable token, None if unborn or dead

fvars == <<issued, usable>>

FTypeOK ==
  /\ issued \subseteq Token
  /\ usable \in [Token -> Token \cup {None}]

FInit ==
  /\ issued = {}
  /\ usable = [f \in Token |-> None]

\* Register or login, or an invitation: a new family.
Start(t) ==
  /\ t \notin issued
  /\ issued' = issued \cup {t}
  /\ usable' = [usable EXCEPT ![t] = t]

\* Refresh or RotateInvite: a living family's usable token buys a fresh one.
Rotate(f, t) ==
  /\ usable[f] # None
  /\ t \notin issued
  /\ issued' = issued \cup {t}
  /\ usable' = [usable EXCEPT ![f] = t]

\* Logout, logout-all, a detected replay, an invitation accepted, an
\* organization deleted: a set of families dies at once.
Kill(F) ==
  /\ usable' = [f \in Token |-> IF f \in F THEN None ELSE usable[f]]
  /\ UNCHANGED issued

FNext ==
  \/ \E t \in Token : Start(t)
  \/ \E f, t \in Token : Rotate(f, t)
  \/ \E F \in SUBSET Token : Kill(F)

FSpec == FInit /\ [][FNext]_fvars

=============================================================================
