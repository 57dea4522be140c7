------------------------------- MODULE Runtime -------------------------------
(***************************************************************************)
(* The life of a process that uses runtime/xbrtime_morello.h: the          *)
(* constructor creates the thread pool, the main thread calls              *)
(* xbrtime_init, xbrtime_close, the allocator, the queries and the barrier *)
(* in any order and any number of times, and any allocation may fail.      *)
(*                                                                         *)
(* Heap objects are tracked by the state of the pointer that owns them:    *)
(* "null", "live", or "dangling" (freed, pointer kept).  A step that uses  *)
(* a null or dangling pointer records the misuse in faults; what such a    *)
(* step does to the rest of the state is not looked at any further.        *)
(*                                                                         *)
(* Definitions named Bug_... are slips this code invites.  Each stands     *)
(* before the definition it would replace; the specification uses none.    *)
(***************************************************************************)
EXTENDS Integers, FiniteSets

CONSTANTS
    MAX_NUM_OF_THREADS,
    EnvThreads,     \* atoi of NUM_OF_THREADS; 0 when unset or not a number
    Main,           \* the main thread
    Blocks,         \* what xbrtime_malloc may return
    MaxCalls        \* bound of the model: calls of the barrier

ASSUME ThreadsAssumption ==
    MAX_NUM_OF_THREADS \in 1 .. 16 /\ EnvThreads \in Int
ASSUME MaxCallsAssumption == MaxCalls \in Nat

\* The constructor replaces an unreasonable value, in the environment too.
NPES ==
    IF EnvThreads \in 1 .. MAX_NUM_OF_THREADS THEN EnvThreads
    ELSE MAX_NUM_OF_THREADS

VARIABLES
    phase,          \* "create" (tpool_create), "main" or "exited"
    threads,        \* the pool: "null", "live", "dangling"
    queues,         \* queues allocated and reachable from threads
    lostQueues,     \* queues allocated and reachable from nothing
    xbBarrier,      \* the barrier words: "null", "live", "dangling"
    config,         \* __XBRTIME_CONFIG
    mmap,           \* its _MMAP block: "none", "live" or "freed"
    map,            \* its _MAP block: "none", "live" or "freed"
    initialized,    \* the static flag of xbrtime_init
    cond,           \* barrier_cond: "ready" or "destroyed"
    shared,         \* live blocks of xbrtime_malloc
    initResult,     \* what the last xbrtime_init returned: "ok" or "error";
                    \* "none" before the first and after xbrtime_close
    faults,         \* misuses so far
    counter, sense, slots, at, arrivals, entered, left, releases  \* the barrier

Bar == INSTANCE Barrier WITH Num <- NPES, Threads <- {Main}

barVars == <<counter, sense, slots, at, arrivals, entered, left, releases>>
poolVars == <<phase, threads, queues, lostQueues, xbBarrier>>
configVars == <<config, mmap, map, initialized, cond>>
vars == <<poolVars, configVars, shared, initResult, faults, barVars>>

Pointer == {"null", "live", "dangling"}

TypeOK ==
    /\ phase \in {"create", "main", "exited"}
    /\ threads \in Pointer /\ xbBarrier \in Pointer /\ config \in Pointer
    /\ queues \in 0 .. NPES /\ lostQueues \in 0 .. NPES
    /\ mmap \in {"none", "live", "freed"} /\ map \in {"none", "live", "freed"}
    /\ initialized \in BOOLEAN
    /\ cond \in {"ready", "destroyed"}
    /\ shared \subseteq Blocks
    /\ initResult \in {"none", "ok", "error"}
    /\ faults \subseteq {"null pointer", "use after free", "double free",
                         "destroyed twice"}
    /\ Bar!TypeOK

Init ==
    /\ phase = "create"
    /\ threads \in {"null", "live"}         \* calloc of the thread array
    /\ queues = 0 /\ lostQueues = 0
    /\ xbBarrier \in {"null", "live"}       \* malloc of the barrier words
    /\ config = "null" /\ mmap = "none" /\ map = "none"
    /\ initialized = FALSE
    /\ cond = "ready"                       \* the static initializer
    /\ shared = {} /\ initResult = "none" /\ faults = {}
    /\ Bar!Init

----------------------------------------------------------------------------
(* The constructor: tpool_create's first loop *)

\* One turn of the loop: a queue is allocated and initialised.
CreateQueue ==
    /\ phase = "create" /\ threads = "live" /\ queues < NPES
    /\ queues' = queues + 1
    /\ UNCHANGED <<phase, threads, lostQueues, xbBarrier, configVars,
                   shared, initResult, faults, barVars>>

\* What a failure in the loop leaves behind.
GiveUp(lost) ==
    /\ phase = "create" /\ threads = "live" /\ queues < NPES
    /\ threads' = "null"
    /\ queues' = 0
    /\ lostQueues' = lost
    /\ UNCHANGED <<phase, xbBarrier, configVars, shared, initResult, faults,
                   barVars>>

\* calloc of the queue fails: the earlier queues are freed.
QueueAllocFails == GiveUp(0)

\* pthread_mutex_init or pthread_cond_init fails: only this queue is freed.
QueueInitFails == GiveUp(queues)

\* tpool_create returned; the constructor does not look at its result.
Constructed ==
    /\ phase = "create"
    /\ threads = "live" => queues = NPES
    /\ phase' = "main"
    /\ UNCHANGED <<threads, queues, lostQueues, xbBarrier, configVars,
                   shared, initResult, faults, barVars>>

----------------------------------------------------------------------------
(* xbrtime_init, with the allocation that fails, if one does *)

\* The main thread is in main() and not stuck in the barrier.
Running == phase = "main" /\ at[Main] = "out"

Returned(r) ==
    /\ initResult' = r
    /\ UNCHANGED <<poolVars, shared, barVars>>

AlreadyInitialized ==
    /\ Running /\ initialized
    /\ Returned("ok")
    /\ UNCHANGED <<configVars, faults>>

\* A configuration is already there (or its pointer still is).
RefuseInit ==
    /\ Running /\ ~initialized /\ config # "null"
    /\ Returned("error")
    /\ UNCHANGED <<configVars, faults>>

\* The configuration of an earlier attempt is not looked at.
Bug_MayInit == Running /\ ~initialized

MayInit == Running /\ ~initialized /\ config = "null"

InitNoConfig ==
    /\ MayInit
    /\ Returned("error")
    /\ UNCHANGED <<configVars, faults>>

\* Freed without resetting the pointer.
Bug_Released == "null"

\* What the failure paths and xbrtime_close make of the pointer.
Released == "dangling"

\* The flag is set before the configuration is complete.
Bug_InitNoMmap ==
    /\ MayInit
    /\ config' = Released
    /\ initialized' = TRUE
    /\ Returned("error")
    /\ UNCHANGED <<mmap, map, cond, faults>>

InitNoMmap ==
    /\ MayInit
    /\ config' = Released
    /\ Returned("error")
    /\ UNCHANGED <<mmap, map, initialized, cond, faults>>

\* threads[0] and the barrier words are used without a check.
PoolMissing == "null" \in {threads, xbBarrier}

InitWithoutPool ==
    /\ MayInit /\ PoolMissing
    /\ faults' = faults \cup {"null pointer"}
    /\ phase' = "exited"
    /\ config' = "live" /\ mmap' = "live"
    /\ UNCHANGED <<threads, queues, lostQueues, xbBarrier, map, initialized,
                   cond, shared, initResult, barVars>>

InitNoMap ==
    /\ MayInit /\ ~PoolMissing
    /\ mmap' = "freed"
    /\ config' = Released
    /\ Returned("error")
    /\ UNCHANGED <<map, initialized, cond, faults>>

\* pthread_cond_init is left out.
Bug_CondAfterInit == cond

\* pthread_cond_init, which xbrtime_close's pthread_cond_destroy calls for.
CondAfterInit == "ready"

\* The sense and the slots are set to what Bar!Init gives them: nobody has
\* used the barrier before.
InitOk ==
    /\ MayInit /\ ~PoolMissing
    /\ config' = "live" /\ mmap' = "live" /\ map' = "live"
    /\ initialized' = TRUE
    /\ cond' = CondAfterInit
    /\ Returned("ok")
    /\ UNCHANGED faults

InitStep ==
    \/ AlreadyInitialized \/ RefuseInit \/ InitNoConfig \/ InitNoMmap
    \/ InitWithoutPool \/ InitNoMap \/ InitOk

----------------------------------------------------------------------------
(* xbrtime_barrier and xbrtime_close, called by the main thread *)

\* Without a configuration the barrier prints an error and returns.
EnterBarrier ==
    CASE config = "null" -> UNCHANGED barVars
      [] config = "live" -> Bar!Arrive(Main)
      [] config = "dangling" -> UNCHANGED barVars

BarrierFaults == IF config = "dangling" THEN {"use after free"} ELSE {}

CallBarrier ==
    /\ Running
    /\ EnterBarrier
    /\ faults' = faults \cup BarrierFaults
    /\ UNCHANGED <<poolVars, configVars, shared, initResult>>

\* A thread that waits wakes, finds its condition unchanged and waits again.
BarrierSpin ==
    /\ phase = "main"
    /\ Bar!Recheck(Main) \/ Bar!SpuriousWake(Main)
    /\ UNCHANGED <<poolVars, configVars, shared, initResult, faults>>

\* _MMAP is not freed, and none of its slots is ever registered, so the loop
\* over them frees no shared block.
CloseFaults ==
    BarrierFaults
      \cup (IF cond = "destroyed" THEN {"destroyed twice"} ELSE {})
      \cup (IF config = "dangling" THEN {"double free"} ELSE {})

CloseEffect ==
    /\ cond' = "destroyed"
    /\ config' = IF config = "null" THEN "null" ELSE Released
    /\ map' = IF config = "null" THEN map ELSE "freed"
    /\ faults' = faults \cup CloseFaults
    /\ initResult' = "none"
    /\ UNCHANGED <<mmap, initialized>>

\* xbrtime_close: the rest follows only if the barrier lets its caller go.
Close ==
    /\ Running
    /\ EnterBarrier
    /\ IF at'[Main] = "out"
         THEN CloseEffect
         ELSE UNCHANGED <<configVars, initResult, faults>>
    /\ UNCHANGED <<poolVars, shared>>

----------------------------------------------------------------------------
(* The other calls *)

\* xbrtime_mype and xbrtime_num_pes read the configuration if the pointer is
\* not NULL.
Query ==
    /\ Running /\ config = "dangling"
    /\ faults' = faults \cup {"use after free"}
    /\ UNCHANGED <<poolVars, configVars, shared, initResult, barVars>>

\* xbrtime_malloc and xbrtime_free are malloc and free; a failed malloc
\* changes nothing.
Malloc ==
    \E b \in Blocks \ shared :
        /\ Running
        /\ shared' = shared \cup {b}
        /\ UNCHANGED <<poolVars, configVars, initResult, faults, barVars>>

Free ==
    \E b \in shared :
        /\ Running
        /\ shared' = shared \ {b}
        /\ UNCHANGED <<poolVars, configVars, initResult, faults, barVars>>

\* main returns and the destructor runs: with idle queues its tpool_wait calls
\* return, queue 0 and the thread array are freed, then the barrier words.  The
\* worker of queue 0 still sleeps in it: it would touch the freed queue only if
\* it woke before the process ends (Programs has that).
Exit ==
    /\ Running /\ threads = "live"
    /\ phase' = "exited"
    /\ threads' = "dangling"
    /\ lostQueues' = queues - 1
    /\ queues' = 0
    /\ xbBarrier' = IF xbBarrier = "null" THEN "null" ELSE "dangling"
    /\ UNCHANGED <<configVars, shared, initResult, faults, barVars>>

\* Without a pool the destructor's threads[0] is a null pointer.
ExitWithoutPool ==
    /\ Running /\ threads = "null"
    /\ phase' = "exited"
    /\ faults' = faults \cup {"null pointer"}
    /\ UNCHANGED <<threads, queues, lostQueues, xbBarrier, configVars, shared,
                   initResult, barVars>>

Next ==
    \/ CreateQueue \/ QueueAllocFails \/ QueueInitFails \/ Constructed
    \/ InitStep \/ CallBarrier \/ BarrierSpin \/ Close
    \/ Query \/ Malloc \/ Free \/ Exit \/ ExitWithoutPool

Spec == Init /\ [][Next]_vars

----------------------------------------------------------------------------
(* Properties *)

\* While the configuration is live so is everything a call reaches through it:
\* both blocks, the barrier's condition variable (which an earlier
\* xbrtime_close may have destroyed) and the static flag agree.
LiveConfigComplete ==
    config = "live" /\ phase = "main" =>
        initialized /\ mmap = "live" /\ map = "live" /\ cond = "ready"

\* A freed configuration is never replaced: neither a retry after a failed
\* xbrtime_init nor an xbrtime_init after xbrtime_close gives the process a
\* usable one again.
NoWayBack == [][config = "dangling" => config' = "dangling"]_vars

\* No call misuses memory while the pool exists and the configuration is live:
\* the only calls that do are those made after the configuration was freed,
\* those of a process whose pool could not be created, and an xbrtime_close
\* repeated without an xbrtime_init between.
MisuseExplained ==
    [][faults' # faults => \/ config = "dangling"
                           \/ PoolMissing
                           \/ config = "null" /\ cond = "destroyed"]_vars

\* xbrtime_init returns "0 on success" (xbrtime_morello.h:187), and then there
\* is a configuration to work with; the one exception is an xbrtime_init after
\* xbrtime_close, which finds the static flag still set and does nothing.
SuccessExplained ==
    initResult = "ok" =>
        config = "live" \/ (config = "dangling" /\ cond = "destroyed" /\ initialized)
=============================================================================
