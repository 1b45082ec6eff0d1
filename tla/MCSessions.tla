---------------------------- MODULE MCSessions ----------------------------
(* Sessions on small sets, for TLC. *)
EXTENDS Sessions, Naturals, TLC

\* Bound of the safety run: at most this many tokens expire.
FewExpire == Cardinality(accessExpired) + Cardinality(refreshExpired) <= 2

Symmetry ==
  Permutations(User) \cup Permutations(SessionId) \cup Permutations(Request)

=============================================================================
