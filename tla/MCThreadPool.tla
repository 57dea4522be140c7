---------------------------- MODULE MCThreadPool ----------------------------
(* Instances of ThreadPool for TLC: the PEs, callers and units are given in *)
(* the configurations.                                                      *)
EXTENDS ThreadPool
=============================================================================
