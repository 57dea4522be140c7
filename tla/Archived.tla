------------------------------ MODULE Archived ------------------------------
(***************************************************************************)
(* The three earlier runtimes under archived/: that of oneQueueVersion,    *)
(* and xbrtime_morello_20231018.h and _20231022.h.  They share the shape   *)
(* of the life cycle and differ in how the pool's thread table is kept, in *)
(* xbrtime_init, in the destructor, and above all in the barrier:          *)
(*                                                                         *)
(*   "one"    a fence and nothing else;                                    *)
(*   "oct18"  a counter and a static sense under barrier_lock;             *)
(*   "oct22"  a counter and slots under barrier_mutex, which is held while *)
(*            a thread spins.                                              *)
(*                                                                         *)
(* xbrtime_morello_20231018.h defines xbrtime_barrier a second time, as a  *)
(* fence, and does not compile as it stands; its barrier here is the first *)
(* of the two definitions.                                                 *)
(*                                                                         *)
(* The main thread and one task per PE call the barrier.  A null or freed  *)
(* pointer that is used is recorded in fault and stops the process.        *)
(* Definitions named Bug_... are slips no specification uses.              *)
(***************************************************************************)
EXTENDS Integers, FiniteSets

CONSTANTS
    MAX_NUM_OF_THREADS,
    Main,           \* the main thread
    MaxCalls,       \* bound of the model: barrier calls of each thread
    MaxInits        \* bound of the model: calls of xbrtime_init

ASSUME MaxAssumption == MAX_NUM_OF_THREADS \in 1 .. 16
ASSUME MainAssumption == Main \notin 0 .. 15
ASSUME BoundAssumption == MaxCalls \in Nat /\ MaxInits \in Nat

VARIABLES
    version,    \* which of the three
    npes,       \* NUM_OF_THREADS after the constructor
    table,      \* the thread table: "heap", "stack" (out of scope), "null"
    config,     \* __XBRTIME_CONFIG: "null", "live", "dangling"
    mmap,       \* its _MMAP: "null" or "live"
    map,        \* its _MAP: "null" or "live"
    id,         \* its _ID: "zero" or "junk"
    phase,      \* "running" or "exited"
    fault,      \* the pointer that stopped the process, or "none"
    inits,      \* how often xbrtime_init was called
    counter,    \* barrier_counter, counter
    sense,      \* oct18: the static sense; 0 or 1
    slot,       \* oct22: _BARRIER[_ID], as the number of its value
    cfgSense,   \* _SENSE: 0 or 1, for 0x0 and 0xfffffffff
    mutex,      \* oct22: who spins with barrier_mutex held, a set
    at,         \* at[t]: "out", "asleep", "woken", "spin"
    calls,      \* history: barrier calls of each thread
    releases,   \* history: completed generations
    awaits,     \* oct22: opposite_sense, the value t compares the slot with
    since       \* history: releases when t started to wait

lifeVars == <<version, npes, table, config, mmap, map, id, phase, inits>>
barVars == <<counter, sense, slot, cfgSense, mutex, at, calls, releases, awaits, since>>
archivedVars == <<lifeVars, fault, barVars>>

Threads == 0 .. npes - 1 \cup {Main}

ArchivedTypeOK ==
    /\ version \in {"one", "oct18", "oct22"}
    /\ npes \in 1 .. MAX_NUM_OF_THREADS
    /\ table \in {"heap", "stack", "null"}
    /\ config \in {"null", "live", "dangling"}
    /\ mmap \in {"null", "live"} /\ map \in {"null", "live"}
    /\ id \in {"zero", "junk"}
    /\ phase \in {"running", "exited"}
    /\ fault \in {"none", "table", "null", "freed"}
    /\ inits \in 0 .. MaxInits
    /\ counter \in 0 .. npes - 1
    /\ sense \in 0 .. 1 /\ slot \in 0 .. 1 /\ cfgSense \in 0 .. 1
    /\ mutex \subseteq Threads
    /\ at \in [Threads -> {"out", "asleep", "woken", "spin"}]
    /\ calls \in [Threads -> 0 .. MaxCalls]
    /\ releases \in Nat
    /\ awaits \in [Threads -> 0 .. 1]
    /\ since \in [Threads -> Nat]

----------------------------------------------------------------------------
(* Constructors *)

\* An unset or unusable NUM_OF_THREADS (0 here) is replaced by the maximum.
Configured ==
    \E env \in 0 .. MAX_NUM_OF_THREADS :
        npes = IF env = 0 THEN MAX_NUM_OF_THREADS ELSE env

\* pool->threads is left pointing at an array of tpool_create's frame.
OneQueueCtor == version = "one" /\ Configured /\ table = "stack"

\* The result of tpool_create is not looked at.
Oct18Ctor == version = "oct18" /\ Configured /\ table \in {"heap", "null"}

Oct22Ctor == version = "oct22" /\ Configured /\ table \in {"heap", "null"}

ArchivedInit ==
    /\ OneQueueCtor \/ Oct18Ctor \/ Oct22Ctor
    /\ config = "null" /\ mmap = "null" /\ map = "null" /\ id = "zero"
    /\ phase = "running" /\ fault = "none" /\ inits = 0
    /\ counter = 0 /\ sense = 1 /\ slot = 0 /\ cfgSense = 0 /\ mutex = {}
    /\ at = [t \in Threads |-> "out"]
    /\ calls = [t \in Threads |-> 0]
    /\ releases = 0
    /\ awaits = [t \in Threads |-> 0]
    /\ since = [t \in Threads |-> 0]

Running == phase = "running" /\ fault = "none"

Crash(f) ==
    /\ fault' = f
    /\ UNCHANGED <<lifeVars, barVars>>

----------------------------------------------------------------------------
(* xbrtime_init *)

MainMay == Running /\ at[Main] = "out"

\* What xbrtime_init leaves behind.
Leaves(c, mm, mp) ==
    /\ config' = c /\ mmap' = mm /\ map' = mp
    /\ inits' = inits + 1
    /\ UNCHANGED <<version, npes, table, phase>>

\* The barrier's words, set before the last allocation may fail.
FreshBarrier ==
    /\ cfgSense' = 0
    /\ slot' = 1
    /\ UNCHANGED <<counter, sense, mutex, at, calls, releases, awaits, since>>

\* What the pointer is after an allocation failed: the structure is freed and the
\* pointer kept.
AfterFailure == "dangling"

CallInit == MainMay /\ inits < MaxInits

\* "one" and "oct18" set the pointer to NULL first, whatever it held.
ConfigFails ==
    /\ CallInit
    /\ IF version = "oct22" THEN config = "null" ELSE TRUE
    /\ Leaves("null", mmap, map)
    /\ UNCHANGED <<fault, id, barVars>>

\* "one": the ID is read from the array that went out of scope, and the result
\* of the allocation of _MMAP is used unseen.
OneQueueInit ==
    /\ version = "one" /\ CallInit
    /\ id' \in {"zero", "junk"}
    /\ FreshBarrier
    /\ \/ Leaves("live", "live", "live") /\ UNCHANGED fault
       \/ \E mm \in {"live", "null"} :            \* _MAP cannot be allocated
            Leaves(AfterFailure, mm, "null") /\ UNCHANGED fault
       \/ Leaves("live", "null", "live") /\ fault' = "null"

Oct18Init ==
    /\ version = "oct18" /\ CallInit /\ table # "null"
    /\ UNCHANGED id
    /\ FreshBarrier
    /\ \/ Leaves("live", "live", "live") /\ UNCHANGED fault
       \/ \E mm \in {"live", "null"} :
            Leaves(AfterFailure, mm, "null") /\ UNCHANGED fault
       \/ Leaves("live", "null", "live") /\ fault' = "null"

\* A test that lets a closed or failed runtime be initialised again.
Bug_MayInit22 == config # "live"

\* "oct22" refuses whenever the pointer is not NULL.
MayInit22 == config = "null"

Oct22Refuse ==
    /\ version = "oct22" /\ CallInit
    /\ ~MayInit22
    /\ Leaves(config, mmap, map)
    /\ UNCHANGED <<fault, id, barVars>>

Oct22Init ==
    /\ version = "oct22" /\ CallInit
    /\ MayInit22
    /\ \/ /\ Leaves(AfterFailure, "null", "null")   \* no _MMAP: before the table
          /\ UNCHANGED <<fault, id, barVars>>
       \/ /\ table # "null"
          /\ Leaves("live", "live", "live") \/ Leaves(AfterFailure, "null", "null")
          /\ FreshBarrier
          /\ UNCHANGED <<fault, id>>

\* threads[0] of a pool that was not created.
InitFaults ==
    /\ CallInit /\ table = "null"
    /\ version = "oct22" => MayInit22
    /\ Crash("table")

----------------------------------------------------------------------------
(* xbrtime_close and the destructors *)

\* What the pointer is after free(__XBRTIME_CONFIG).
AfterClose == "dangling"

\* The three versions of xbrtime_close are alike: no barrier, and the pointer is
\* kept.
Close ==
    /\ MainMay /\ config = "live"
    /\ config' = AfterClose /\ mmap' = "null" /\ map' = "null"
    /\ UNCHANGED <<version, npes, table, id, phase, inits, fault, barVars>>

CloseFaults == MainMay /\ config = "dangling" /\ Crash("freed")

AllIdle == \A t \in Threads \ {Main} : at[t] = "out"

Exits ==
    /\ phase' = "exited"
    /\ UNCHANGED <<version, npes, table, config, mmap, map, id, inits,
                   fault, barVars>>

\* tpool_wait and tpool_destroy let the running tasks end (see OneQueue).
OneQueueDtor == version = "one" /\ MainMay /\ AllIdle /\ Exits

\* The calls are commented out: only xb_barrier is freed.
Oct18Dtor == version = "oct18" /\ MainMay /\ Exits

\* tpool_wait on each queue.
Oct22Dtor ==
    /\ version = "oct22" /\ MainMay /\ table # "null"
    /\ AllIdle
    /\ Exits

DtorFaults ==
    version = "oct22" /\ MainMay /\ table = "null" /\ Crash("table")

----------------------------------------------------------------------------
(* xbrtime_barrier *)

MayEnter(t) == Running /\ at[t] = "out" /\ calls[t] < MaxCalls

Enter(t) ==
    /\ MayEnter(t)
    /\ calls' = [calls EXCEPT ![t] = @ + 1]
    /\ UNCHANGED <<lifeVars, fault>>

\* The debug print of its last lines reads the configuration, if there is one.
OneQueueBarrier(t) ==
    /\ version = "one" /\ config # "dangling" /\ Enter(t)
    /\ UNCHANGED <<counter, sense, slot, cfgSense, mutex, at, releases, awaits, since>>

OneQueueFaults(t) ==
    /\ version = "one" /\ MayEnter(t) /\ config = "dangling"
    /\ Crash("freed")

\* The sense is set and not toggled.
Bug_Toggled == 0

Toggled == 1 - sense

\* What the last thread to arrive leaves in the counter.
AfterLast == 0

\* The loop condition of "oct18".
Held == cfgSense # sense

\* pthread_cond_broadcast.
Woken == {[t \in Threads |-> IF at[t] = "asleep" THEN "woken" ELSE at[t]]}

Oct18Last(t) ==
    /\ version = "oct18" /\ config = "live" /\ Enter(t)
    /\ counter + 1 = npes
    /\ counter' = AfterLast
    /\ sense' = Toggled
    /\ at' \in Woken
    /\ releases' = releases + 1
    /\ UNCHANGED <<slot, cfgSense, mutex, awaits, since>>

Oct18Arrive(t) ==
    /\ version = "oct18" /\ config = "live" /\ Enter(t)
    /\ counter + 1 # npes
    /\ counter' = counter + 1
    /\ at' = [at EXCEPT ![t] = IF Held THEN "asleep" ELSE "out"]
    /\ since' = [since EXCEPT ![t] = releases]
    /\ UNCHANGED <<sense, slot, cfgSense, mutex, releases, awaits>>

\* The loop condition reads the configuration again.
Oct18Recheck(t) ==
    /\ version = "oct18" /\ Running /\ at[t] = "woken"
    /\ config = "live"
    /\ at' = [at EXCEPT ![t] = IF Held THEN "asleep" ELSE "out"]
    /\ UNCHANGED <<lifeVars, fault, counter, sense, slot, cfgSense, mutex,
                   calls, releases, awaits, since>>

Oct18RecheckFaults(t) ==
    /\ version = "oct18" /\ Running /\ at[t] = "woken"
    /\ config # "live"
    /\ Crash(IF config = "null" THEN "null" ELSE "freed")

SpuriousWake(t) ==
    /\ Running /\ at[t] = "asleep"
    /\ at' = [at EXCEPT ![t] = "woken"]
    /\ UNCHANGED <<lifeVars, fault, counter, sense, slot, cfgSense, mutex,
                   calls, releases, awaits, since>>

\* "oct18" has no test for a missing configuration.
Oct18Faults(t) ==
    /\ version = "oct18" /\ MayEnter(t) /\ config # "live"
    /\ Crash(IF config = "null" THEN "null" ELSE "freed")

\* "oct22" returns without a configuration.
Oct22NoConfig(t) ==
    /\ version = "oct22" /\ config = "null" /\ Enter(t)
    /\ UNCHANGED <<counter, sense, slot, cfgSense, mutex, at, releases, awaits, since>>

Oct22Last(t) ==
    /\ version = "oct22" /\ config = "live" /\ mutex = {} /\ Enter(t)
    /\ counter + 1 >= npes
    /\ counter' = AfterLast
    /\ slot' = 1 - cfgSense
    /\ cfgSense' = 1 - cfgSense
    /\ releases' = releases + 1
    /\ UNCHANGED <<sense, mutex, at, awaits, since>>

\* The value waited for is computed once, on entry; the slot is compared with it
\* at once, and a thread that must spin keeps barrier_mutex.
Oct22Arrive(t) ==
    /\ version = "oct22" /\ config = "live" /\ mutex = {} /\ Enter(t)
    /\ counter + 1 < npes
    /\ counter' = counter + 1
    /\ awaits' = [awaits EXCEPT ![t] = 1 - cfgSense]
    /\ IF slot = 1 - cfgSense
         THEN UNCHANGED <<at, mutex>>
         ELSE at' = [at EXCEPT ![t] = "spin"] /\ mutex' = {t}
    /\ since' = [since EXCEPT ![t] = releases]
    /\ UNCHANGED <<sense, slot, cfgSense, releases>>

\* The slot has the value waited for.
Released22(t) == slot = awaits[t]

\* The spinning thread reads the slot again: it leaves, and unlocks barrier_mutex,
\* or goes on spinning.
Oct22Spin(t) ==
    /\ version = "oct22" /\ Running /\ at[t] = "spin" /\ config = "live"
    /\ at' = IF Released22(t) THEN [at EXCEPT ![t] = "out"] ELSE at
    /\ mutex' = IF Released22(t) THEN {} ELSE mutex
    /\ UNCHANGED <<lifeVars, fault, counter, sense, slot, cfgSense, calls,
                   releases, awaits, since>>

\* A freed configuration is read on entry, or by the spinning thread.
Oct22Faults(t) ==
    /\ version = "oct22" /\ Running /\ config = "dangling"
    /\ at[t] = "spin" \/ (MayEnter(t) /\ mutex = {})
    /\ Crash("freed")

----------------------------------------------------------------------------
Lifecycle ==
    \/ ConfigFails \/ OneQueueInit \/ Oct18Init \/ Oct22Refuse \/ Oct22Init
    \/ InitFaults \/ Close \/ CloseFaults

Dtor == OneQueueDtor \/ Oct18Dtor \/ Oct22Dtor \/ DtorFaults

Barrier(t) ==
    \/ OneQueueBarrier(t) \/ OneQueueFaults(t)
    \/ Oct18Last(t) \/ Oct18Arrive(t) \/ Oct18Faults(t)
    \/ Oct22NoConfig(t) \/ Oct22Last(t) \/ Oct22Arrive(t)

Continue(t) ==
    \/ Oct18Recheck(t) \/ Oct18RecheckFaults(t)
    \/ Oct22Spin(t) \/ Oct22Faults(t)

ArchivedNext ==
    \/ Lifecycle \/ Dtor
    \/ \E t \in Threads : Barrier(t) \/ Continue(t) \/ SpuriousWake(t)

ArchivedSpec == ArchivedInit /\ [][ArchivedNext]_archivedVars

----------------------------------------------------------------------------
(* Properties *)

\* "oct18" flips its sense with every generation and waits for it to become 0,
\* which _SENSE always is: it holds threads in odd generations, and nobody in
\* even ones.
SenseParity == version = "oct18" => sense = (releases + 1) % 2 /\ cfgSense = 0

\* "oct18" lets a waiter go only after an odd number of generations since it
\* came: if the others got through two before it looked, it is held again.
LeavesAfterOddReleases ==
    [][\A t \in Threads :
        at[t] = "woken" /\ at'[t] # at[t] =>
            (at'[t] = "out" <=> (releases - since[t]) % 2 = 1)]_archivedVars

\* "oct22" initialises its runtime once: after xbrtime_close, or an xbrtime_init
\* that failed half-way, every later one is refused and the barrier gets through
\* no further generation; who calls it reads the freed configuration.
NoWayBack22 ==
    [][version = "oct22" /\ config = "dangling" =>
        config' = "dangling" /\ releases' = releases]_archivedVars

\* "oct22" gets through one generation: "effectively releasing all waiting
\* threads" and "Reset the counter for the next barrier call" (690, 699) promise
\* more, ...
OneGenerationPerInit == version = "oct22" /\ npes > 1 => releases <= 1

\* ... as does "stuck here until the last one arrives" (685): a spinning thread
\* finds the slot as it was whenever it looks, so nobody enters or leaves again.
SpinnerStopsAll ==
    [][(\E t \in Threads : at[t] = "spin") =>
        /\ at' = at /\ calls' = calls /\ releases' = releases]_archivedVars

\* Nobody sleeps in the barrier of "oct18" while the sense would let him go: the
\* broadcast reaches every waiter.
NobodyLeftAsleep ==
    \A t \in Threads : at[t] = "asleep" => Held

\* A thread that spins is the only one: the mutex is its own.
OneSpinner ==
    \A t, u \in Threads : at[t] = "spin" /\ at[u] = "spin" => t = u

\* A configuration that xbrtime_init reported ready has its two tables: the paths
\* that fail half-way free it.
LiveConfigComplete ==
    config = "live" /\ fault = "none" => mmap = "live" /\ map = "live"
=============================================================================
