----------------------------- MODULE MCBrowser -----------------------------
(* Browser on small sets, for TLC. *)
EXTENDS Browser, TLC

\* Bound: after the last token, no call is left that a reload has made nobody's,
\* and some family is undisturbed (else UndisturbedFamiliesLive says no more).
LastToken ==
  issued = Token =>
    /\ \A c \in Call : call[c] # Free => call[c].tab # None
    /\ \E f \in issued : family[f] = f /\ f \notin ended \cup disturbed

Symmetry == Permutations(Token) \cup Permutations(Tab) \cup Permutations(Call)

============================================================================
