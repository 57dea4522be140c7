----------------------------- MODULE MCBroadcast -----------------------------
(* Instance of Broadcast for TLC. *)
EXTENDS Broadcast

MCTreeProcs == 1 .. 16
=============================================================================
