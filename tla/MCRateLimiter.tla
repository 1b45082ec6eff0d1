--------------------------- MODULE MCRateLimiter ---------------------------
(* RateWindow on small sets, for TLC. *)
EXTENDS RateWindow

============================================================================
