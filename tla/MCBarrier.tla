------------------------------ MODULE MCBarrier ------------------------------
(* Instances of Barrier for TLC: the threads are given in the configuration. *)
EXTENDS Barrier, TLC
=============================================================================
