----------------------------- MODULE MCTransfer -----------------------------
(* Instance of Transfer for TLC: 32 bits become 7, 64 become 9. *)
EXTENDS Transfer

MCCounts == {0, 1, 2, 3, WORD, WORD + 2}
MCStrides == {-16} \cup -1 .. 2 \cup {65}
=============================================================================
