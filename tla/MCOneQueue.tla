----------------------------- MODULE MCOneQueue -----------------------------
(* Instance of OneQueue for TLC. *)
EXTENDS OneQueue
=============================================================================
