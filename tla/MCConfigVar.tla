----------------------------- MODULE MCConfigVar -----------------------------
(* ConfigVar for TLC. *)
EXTENDS ConfigVar

=============================================================================
