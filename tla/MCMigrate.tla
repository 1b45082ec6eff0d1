----------------------------- MODULE MCMigrate -----------------------------
(* Migrate on small sets, for TLC. *)
EXTENDS Migrate

============================================================================
