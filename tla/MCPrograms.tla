----------------------------- MODULE MCPrograms -----------------------------
(* Instances of Programs for TLC. *)
EXTENDS Programs
=============================================================================
