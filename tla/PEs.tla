--------------------------------- MODULE PEs ---------------------------------
(* The processing elements of a process that xbrtime_init has set up, which *)
(* every component above the pool counts in the same way.                   *)
EXTENDS Integers

CONSTANT Num        \* _NPES, what the constructor asked tpool_create for

ASSUME NumAssumption == Num \in 1 .. 16      \* MAX_NUM_OF_THREADS

PE == 0 .. Num - 1
=============================================================================
