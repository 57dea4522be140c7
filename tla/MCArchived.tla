----------------------------- MODULE MCArchived -----------------------------
(* Model checking of the archived runtimes with up to two PEs.             *)
EXTENDS Archived
=============================================================================
