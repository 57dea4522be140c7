------------------------------ MODULE MCReduce ------------------------------
(* Instance of Reduce for TLC. *)
EXTENDS Reduce

MCSizes == {1, 2, 5}

\* Element i is 2^(i+1), so that each set of elements has a sum of its own.
PowersOfTwo == [i \in 1 .. 5 |-> 2 ^ i]
=============================================================================
