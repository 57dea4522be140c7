--------------------------- MODULE MCRandomAccess ---------------------------
(* Instance of RandomAccess for TLC: words of 6 bits, whose sequence has    *)
(* period 31; starts with up to three times that.                           *)
EXTENDS RandomAccess

MCArgs == 0 .. 3 * PERIOD
MCProcs == 1 .. 6
MCMemWords == {3, 4, 7}
MCTables == {8, 12, 13}
=============================================================================
