------------------------------- MODULE Reduce -------------------------------
(***************************************************************************)
(* xbrtime_int_reduce_sum and xbrtime_longlong_reduce_sum, which differ in *)
(* their element type only: the source is divided among the PEs, the task  *)
(* of a PE stores the sum of its part in dest at the part's first index,   *)
(* and the caller adds those up and fills dest with the sum.               *)
(*                                                                         *)
(* The tasks' arguments are an array on the caller's stack.  A task that   *)
(* runs after the call returned reads dead memory: it is recorded in stray *)
(* and may leave dest as it is or spoil any cell of it.                    *)
(*                                                                         *)
(* Definitions named Bug_... are slips this code invites.  Each stands     *)
(* before the definition it would replace; the specification uses none.    *)
(***************************************************************************)
EXTENDS ForkJoin, FiniteSetsExt

CONSTANTS
    Sizes,      \* bound of the model: the values of nelems
    Src,        \* the elements of src at the call
    Junk        \* what dest holds at the call, if it is not src

ASSUME SizesAssumption == Sizes \subseteq Nat \ {0}
ASSUME SrcAssumption ==
    /\ Junk \in Int
    /\ Src \in Seq(Int) /\ \A s \in Sizes : s <= Len(Src)

VARIABLES
    nelems,
    inPlace,    \* dest and src are the same array
    dest,       \* the array dest
    sum,        \* the task's local sum, per PE
    next,       \* the task's loop index, per PE
    final,      \* the caller's final_sum
    gathered,   \* PEs whose partial sum the caller has read
    filled,     \* the caller's index in its last loop
    seen,       \* history: gathered PEs whose task had stored by then
    stray       \* PEs whose task ran after the call returned

reduceVars == <<nelems, inPlace, dest, sum, next, final, gathered, filled, seen, stray>>
vars == <<forkVars, reduceVars>>

----------------------------------------------------------------------------
Index == 0 .. nelems - 1

\* src[i] at the call
SrcAt(i) == Src[i + 1]

ElemsPerTask == nelems \div Num

Start(p) == p * ElemsPerTask

\* The last task does not get the remainder.
Bug_End(p) == Start(p) + ElemsPerTask

End(p) == IF p = Num - 1 THEN nelems ELSE Start(p) + ElemsPerTask

InitialDest(i) == IF inPlace THEN SrcAt(i) ELSE Junk

\* What a task reads at src[i].
Source(i) == IF inPlace THEN dest[i] ELSE SrcAt(i)

TypeOK ==
    /\ ForkTypeOK
    /\ nelems \in Sizes /\ inPlace \in BOOLEAN
    /\ dest \in [Index -> Int]
    /\ sum \in [PE -> Int]
    /\ next \in [PE -> 0 .. nelems]
    /\ final \in Int
    /\ gathered \subseteq PE /\ seen \subseteq PE /\ stray \subseteq PE
    /\ filled \in 0 .. nelems

Init ==
    /\ ForkInit
    /\ nelems \in Sizes /\ inPlace \in BOOLEAN
    /\ dest = [i \in Index |-> InitialDest(i)]
    /\ sum = [p \in PE |-> 0]
    /\ next = [p \in PE |-> Start(p)]
    /\ final = 0 /\ gathered = {} /\ filled = 0
    /\ seen = {} /\ stray = {}

----------------------------------------------------------------------------
(* reduction_task *)

Running(p) == worker[p] = "running" /\ ~Returned

AddElement(p) ==
    /\ Running(p) /\ next[p] < End(p)
    /\ sum' = [sum EXCEPT ![p] = @ + Source(next[p])]
    /\ next' = [next EXCEPT ![p] = @ + 1]
    /\ UNCHANGED <<forkVars, nelems, inPlace, dest, final, gathered, filled, seen, stray>>

\* The store of the partial sum; the task returns.
Store(p) ==
    /\ Running(p) /\ next[p] >= End(p)
    /\ dest' = [dest EXCEPT ![Start(p)] = sum[p]]
    /\ Pool!Complete(p)
    /\ UNCHANGED <<main, missed, nelems, inPlace, sum, next, final, gathered, filled,
                   seen, stray>>

\* The task's arguments are gone.
Astray(p) ==
    /\ worker[p] = "running" /\ Returned
    /\ stray' = stray \cup {p}
    /\ dest' \in {dest} \cup {[dest EXCEPT ![i] = Junk] : i \in Index}
    /\ Pool!Complete(p)
    /\ UNCHANGED <<main, missed, nelems, inPlace, sum, next, final, gathered, filled, seen>>

----------------------------------------------------------------------------
(* The caller after its waits *)

\* final_sum += dest[args[i].start]
Gather ==
    /\ main.at = "joined" /\ gathered # PE
    /\ LET p == Cardinality(gathered) IN
        /\ final' = final + dest[Start(p)]
        /\ gathered' = gathered \cup {p}
        /\ seen' = IF p \in finished THEN seen \cup {p} ELSE seen
    /\ UNCHANGED <<forkVars, nelems, inPlace, dest, sum, next, filled, stray>>

\* dest[i] = final_sum
Fill ==
    /\ main.at = "joined" /\ gathered = PE /\ filled < nelems
    /\ dest' = [dest EXCEPT ![filled] = final]
    /\ filled' = filled + 1
    /\ UNCHANGED <<forkVars, nelems, inPlace, sum, next, final, gathered, seen, stray>>

\* The call returns, and its array of arguments with it.
Return ==
    /\ main.at = "joined" /\ filled = nelems
    /\ main' = [main EXCEPT !.at = "done"]
    /\ UNCHANGED <<missed, poolVars, reduceVars>>

Caller == (CallerStep /\ UNCHANGED reduceVars) \/ Gather \/ Fill \/ Return

Worker(p) ==
    \/ WorkerLoop(p) /\ UNCHANGED reduceVars
    \/ AddElement(p) \/ Store(p) \/ Astray(p)

Next ==
    \/ Caller
    \/ \E p \in PE : Worker(p)
    \/ Spurious /\ UNCHANGED reduceVars

Spec == Init /\ [][Next]_vars

----------------------------------------------------------------------------
(* Properties *)

\* The PE an element belongs to: blocks of ElemsPerTask, the rest to the last.
Owner(i) == Min({i \div ElemsPerTask, Num - 1})

SumOf(S) == SumFunctionOnSet([i \in Index |-> SrcAt(i)], S)

PartialSum(p) == SumOf({i \in Index : Owner(i) = p})

Total == SumOf(Index)

AllGathered == gathered = PE

\* What PE p's cell holds when the caller reads it.
Contribution == [p \in PE |-> IF p \in seen THEN PartialSum(p) ELSE InitialDest(Start(p))]

\* With at least one element per PE the caller's sum is made of the partial
\* sums of the tasks that had stored when it looked, and of what dest held
\* before for the others: no task disturbs another's cell or, when the
\* reduction is in place, its source.
GatherExplained ==
    nelems >= Num => final = SumFunctionOnSet(Contribution, gathered)

\* With fewer elements than PEs every part but the last is empty and all of
\* them begin at 0: each task stores in dest[0], and the caller, which means
\* to aggregate "results from all tasks", adds that cell once per PE.  What it
\* returns is some multiple of the sum, and which one is a race; in place, of
\* what is left of the sum once the first element has been overwritten.
SmallExplained ==
    nelems < Num /\ AllGathered /\ seen = PE =>
        \E k \in 0 .. Num :
            final \in {k * Total} \cup IF inPlace THEN {k * (Total - SrcAt(0))} ELSE {}

\* What the sum a reduction leaves in dest is made of, for any number of elements.
SumExplained == GatherExplained /\ SmallExplained

\* A task that runs after the call returned, on arguments that are gone, is
\* one tpool_wait never looked at: still queued when the wait for its own PE
\* returned.  A task that had started is never left behind.
StrayWasMissed == stray \subseteq missed
=============================================================================
