------------------------------- MODULE Barrier -------------------------------
(***************************************************************************)
(* xbrtime_barrier of runtime/xbrtime_morello.h: a counter, a sense word   *)
(* and an array of slots under barrier_mutex, with barrier_cond.  Any      *)
(* thread of the process may call it: the main thread does so directly,    *)
(* the workers through the tasks of xbrtime_barrier_all.                   *)
(*                                                                         *)
(* The mutex is held from the arrival to the return or the wait, so an     *)
(* arrival is one action; a sleeper that was woken evaluates the loop      *)
(* condition in another.                                                   *)
(*                                                                         *)
(* Definitions named Bug_... are slips this code invites.  Each stands     *)
(* before the definition it would replace; the specification uses none.    *)
(***************************************************************************)
EXTENDS PEs, FiniteSets

CONSTANTS
    Threads,    \* the threads that may call xbrtime_barrier
    MaxCalls    \* bound of the model: how often each of them calls it

VARIABLES
    counter,    \* arrivals since the last release
    sense,      \* _SENSE
    slots,      \* _BARRIER, the words of xb_barrier
    at,         \* at[t]: "out", "asleep" in pthread_cond_wait, or "woken"
    arrivals,   \* history: calls of all threads
    entered,    \* history: calls of each thread
    left,       \* history: those that returned
    releases    \* history: how often the last arriver flipped the sense

barrierVars == <<counter, sense, slots>>
history == <<arrivals, entered, left, releases>>
vars == <<barrierVars, at, history>>

----------------------------------------------------------------------------
\* The three values the words take.
Zero == "0x0"
Ones == "0xfffffffff"
Tens == "0xaaaaaaaaa"

Slot == 0 .. 19

\* _ID is threads[0].thread_id whoever the caller is.
ID == 0

Flip(s) == IF s = Zero THEN Ones ELSE Zero

TypeOK ==
    /\ counter \in 0 .. Num - 1
    /\ sense \in {Zero, Ones}
    /\ slots \in [Slot -> {Zero, Ones, Tens}]
    /\ at \in [Threads -> {"out", "asleep", "woken"}]
    /\ arrivals \in Nat
    /\ entered \in [Threads -> Nat]
    /\ left \in [Threads -> Nat]
    /\ releases \in Nat

----------------------------------------------------------------------------
\* As xbrtime_init leaves the barrier.
Init ==
    /\ counter = 0
    /\ sense = Zero
    /\ slots = [i \in Slot |-> IF i < 10 THEN Ones ELSE Tens]
    /\ at = [t \in Threads |-> "out"]
    /\ arrivals = 0
    /\ entered = [t \in Threads |-> 0]
    /\ left = [t \in Threads |-> 0]
    /\ releases = 0

Leave(t) == left' = [left EXCEPT ![t] = @ + 1]

\* The comparison is inverted.
Bug_MustWait == slots[ID] = Flip(sense)

\* The loop condition.
MustWait == slots[ID] # Flip(sense)

\* One arrival too late.
Bug_IsLast == counter + 1 > Num

\* This arrival is not followed by another of its generation.
IsLast == counter + 1 >= Num

\* The slots of the PEs after a release.
Flipped == [i \in Slot |-> IF i < Num THEN Flip(sense) ELSE slots[i]]

Enter(t) ==
    /\ at[t] = "out"
    /\ entered[t] < MaxCalls
    /\ entered' = [entered EXCEPT ![t] = @ + 1]
    /\ arrivals' = arrivals + 1

\* Not the last to arrive, and the loop condition holds at once.
ArriveAndWait(t) ==
    /\ Enter(t)
    /\ ~IsLast
    /\ MustWait
    /\ counter' = counter + 1
    /\ at' = [at EXCEPT ![t] = "asleep"]
    /\ UNCHANGED <<sense, slots, left, releases>>

\* Not the last to arrive, and the loop condition is false.
ArriveAndPass(t) ==
    /\ Enter(t)
    /\ ~IsLast
    /\ ~MustWait
    /\ counter' = counter + 1
    /\ Leave(t)
    /\ UNCHANGED <<sense, slots, at, releases>>

\* The last to arrive flips the slots and the sense, resets the counter,
\* wakes everybody and returns.
ArriveLast(t) ==
    /\ Enter(t)
    /\ IsLast
    /\ counter' = 0
    /\ sense' = Flip(sense)
    /\ slots' = Flipped
    /\ at' = [u \in Threads |-> IF at[u] = "asleep" THEN "woken" ELSE at[u]]
    /\ releases' = releases + 1
    /\ Leave(t)

\* A woken thread evaluates the loop condition again: it leaves or sleeps on.
Recheck(t) ==
    /\ at[t] = "woken"
    /\ at' = [at EXCEPT ![t] = IF MustWait THEN "asleep" ELSE "out"]
    /\ left' = [left EXCEPT ![t] = IF MustWait THEN @ ELSE @ + 1]
    /\ UNCHANGED <<barrierVars, arrivals, entered, releases>>

SpuriousWake(t) ==
    /\ at[t] = "asleep"
    /\ at' = [at EXCEPT ![t] = "woken"]
    /\ UNCHANGED <<barrierVars, history>>

Arrive(t) == ArriveAndWait(t) \/ ArriveAndPass(t) \/ ArriveLast(t)

Next == \E t \in Threads : Arrive(t) \/ Recheck(t) \/ SpuriousWake(t)

Spec == Init /\ [][Next]_vars

\* A thread that was woken gets the mutex back; nobody is obliged to arrive.
FairSpec == Spec /\ \A t \in Threads : WF_vars(Recheck(t))

----------------------------------------------------------------------------
(* Properties *)

\* The counter and the releases are the remainder and the quotient of the
\* number of calls by Num, however the calls of the threads interleave: no
\* arrival is lost or counted for two generations.
CounterCountsArrivals ==
    arrivals = releases * Num + counter /\ counter < Num

\* After the first release the slot every waiter reads always equals the
\* sense, where the loop waits for its complement.
SlotsFollowSense ==
    releases > 0 => \A i \in 0 .. Num - 1 : slots[i] = sense

\* Nobody waits in the first generation: its first Num - 1 arrivals return at
\* once, because xbrtime_init stores in the slots the value they wait for.
FirstGenerationPasses ==
    releases = 0 => \A t \in Threads : at[t] = "out" /\ left[t] = entered[t]

\* From the second generation on only the last arriver returns: after r >= 1
\* releases exactly (r-1)*(Num-1) + counter threads are in the barrier.
StuckCount ==
    LET inside == Cardinality({t \in Threads : at[t] # "out"})
    IN  inside = IF releases = 0 THEN 0
                 ELSE (releases - 1) * (Num - 1) + counter

\* A thread that started to wait never leaves the barrier, not even when a
\* later generation is released.
SleepersStuck ==
    [][\A t \in Threads : at[t] # "out" => at'[t] # "out"]_vars

\* xbrtime_morello.h:1100-1102, "If not all threads have reached the barrier /
\* Wait until the last thread signals": nobody returns from his k-th call
\* before k generations have arrived.
WaitsForAll == \A t \in Threads : left[t] * Num <= arrivals

\* xbrtime_morello.h:1108-1109, flipping the sense is "effectively releasing
\* all waiting threads": only those of the current generation still sleep.
ReleasesAll == Cardinality({t \in Threads : at[t] = "asleep"}) <= counter

\* The barrier keeps one of its two promises, if not both.  It keeps neither:
\* the first generation is not held, and the next ones are not released.
KeepsAPromise == []WaitsForAll \/ []ReleasesAll
=============================================================================
