------------------------------ MODULE OneQueue ------------------------------
(***************************************************************************)
(* The first thread pool of the repository, archived/oneQueueVersion/      *)
(* threadpool.h: one list of work units served by all the workers, under   *)
(* one mutex and two condition variables.  Its num_threads does count the  *)
(* workers of its queue.                                                   *)
(*                                                                         *)
(* Atomicity and wait sets are those of ThreadPool: a critical section is  *)
(* an action, the task runs outside, a sleeper may wake for no reason.     *)
(* Definitions named Bug_... are slips no specification uses.              *)
(***************************************************************************)
EXTENDS Integers, Sequences, FiniteSets, Functions

CONSTANTS
    Num,        \* the argument of tpool_create
    Clients,    \* threads that call the pool's functions
    Units,      \* work units; each is submitted at most once
    None        \* no unit

ASSUME NumAssumption == Num \in Nat
ASSUME NoneAssumption == None \notin Units

\* tpool_create replaces 0 by 2.
Size == IF Num = 0 THEN 2 ELSE Num

Workers == 0 .. Size - 1

VARIABLES
    queue,      \* the list from work_head to work_tail
    working,    \* working_cnt
    alive,      \* num_threads
    stop,
    freed,      \* tpool_destroy released the pool
    worker,     \* where each worker is in tpool_worker
    unit,       \* its local variable work
    client,     \* where each client is in tpool_wait or tpool_destroy
    submitted,  \* history: units accepted, in order
    started,    \* history: units taken, in order
    finished    \* history: units whose function returned

poolVars == <<queue, working, alive, stop, freed>>
history == <<submitted, started, finished>>
vars == <<poolVars, worker, unit, client, history>>

----------------------------------------------------------------------------
WorkerState == {"none", "fetch", "asleep", "running", "finish", "exited"}

ClientState ==
    [at : {"idle", "check", "blocked"}, op : {"wait", "destroy"},
     queued : SUBSET Units,     \* in the queue when the call began
     inFlight : SUBSET Units]   \* running then

IdleClient == [at |-> "idle", op |-> "wait", queued |-> {}, inFlight |-> {}]

TypeOK ==
    /\ queue \in Seq(Units)
    /\ working \in 0 .. Size
    /\ alive \in 0 .. Size
    /\ stop \in BOOLEAN
    /\ freed \in BOOLEAN
    /\ worker \in [Workers -> WorkerState]
    /\ unit \in [Workers -> Units \cup {None}]
    /\ client \in [Clients -> ClientState]
    /\ submitted \in Seq(Units)
    /\ started \in Seq(Units)
    /\ finished \subseteq Units

(* tpool_create.  The results of calloc and of the pthread functions are   *)
(* not looked at: a worker may never start.                                *)
Init ==
    /\ queue = <<>>
    /\ working = 0
    /\ alive = Size
    /\ stop = FALSE
    /\ freed = FALSE
    /\ worker \in [Workers -> {"fetch", "none"}]
    /\ unit = [w \in Workers |-> None]
    /\ client = [c \in Clients |-> IdleClient]
    /\ submitted = <<>>
    /\ started = <<>>
    /\ finished = {}

----------------------------------------------------------------------------
(* tpool_worker *)

Waiters == {c \in Clients : client[c].at = "blocked"}

\* pthread_cond_signal(working_cond).
SignalWorking ==
    \/ Waiters = {} /\ UNCHANGED client
    \/ \E c \in Waiters : client' = [client EXCEPT ![c].at = "check"]

Sleep(w) ==
    /\ worker[w] = "fetch"
    /\ queue = <<>> /\ ~stop
    /\ worker' = [worker EXCEPT ![w] = "asleep"]
    /\ UNCHANGED <<poolVars, unit, client, history>>

\* num_threads is left as it is.
Bug_Exit(w) ==
    /\ worker[w] = "fetch"
    /\ stop
    /\ worker' = [worker EXCEPT ![w] = "exited"]
    /\ SignalWorking
    /\ UNCHANGED <<queue, working, alive, stop, freed, unit, history>>

Exit(w) ==
    /\ worker[w] = "fetch"
    /\ stop
    /\ alive' = alive - 1
    /\ worker' = [worker EXCEPT ![w] = "exited"]
    /\ SignalWorking
    /\ UNCHANGED <<queue, working, stop, freed, unit, history>>

\* The list after tpool_work_unit_get.
Rest == Tail(queue)

Take(w) ==
    /\ worker[w] = "fetch"
    /\ queue # <<>> /\ ~stop
    /\ unit' = [unit EXCEPT ![w] = Head(queue)]
    /\ queue' = Rest
    /\ working' = working + 1
    /\ worker' = [worker EXCEPT ![w] = "running"]
    /\ started' = Append(started, Head(queue))
    /\ UNCHANGED <<alive, stop, freed, client, submitted, finished>>

Complete(w) ==
    /\ worker[w] = "running"
    /\ finished' = finished \cup {unit[w]}
    /\ unit' = [unit EXCEPT ![w] = None]
    /\ worker' = [worker EXCEPT ![w] = "finish"]
    /\ UNCHANGED <<poolVars, client, submitted, started>>

Finish(w) ==
    /\ worker[w] = "finish"
    /\ working' = working - 1
    /\ IF ~stop /\ working' = 0 /\ queue = <<>>
         THEN SignalWorking
         ELSE UNCHANGED client
    /\ worker' = [worker EXCEPT ![w] = "fetch"]
    /\ UNCHANGED <<queue, alive, stop, freed, unit, history>>

WorkerStep(w) == Sleep(w) \/ Exit(w) \/ Take(w) \/ Complete(w) \/ Finish(w)

SpuriousWorkerWake(w) ==
    /\ worker[w] = "asleep"
    /\ worker' = [worker EXCEPT ![w] = "fetch"]
    /\ UNCHANGED <<poolVars, unit, client, history>>

----------------------------------------------------------------------------
(* The pool's callers; as in ThreadPool, nobody uses the pool after        *)
(* tpool_destroy, which is called while no other call is in progress.      *)

MayCall(c) == client[c].at = "idle" /\ ~stop

\* The broadcast reaches nobody.
Bug_Roused == worker

\* pthread_cond_broadcast(work_cond).
Roused == [w \in Workers |-> IF worker[w] = "asleep" THEN "fetch" ELSE worker[w]]

\* tpool_add_work.
AddWork(c, u) ==
    /\ MayCall(c)
    /\ u \notin Range(submitted)
    /\ queue' = Append(queue, u)
    /\ worker' = Roused
    /\ submitted' = Append(submitted, u)
    /\ UNCHANGED <<working, alive, stop, freed, unit, client, started, finished>>

InCall(op) ==
    [at |-> "check", op |-> op, queued |-> Range(queue),
     inFlight |-> Range(started) \ finished]

WaitCall(c) ==
    /\ MayCall(c)
    /\ client' = [client EXCEPT ![c] = InCall("wait")]
    /\ UNCHANGED <<poolVars, worker, unit, history>>

\* tpool_destroy up to its call of tpool_wait.
Destroy(c) ==
    /\ MayCall(c)
    /\ \A d \in Clients : client[d].at = "idle"
    /\ stop' = TRUE
    /\ worker' = Roused
    /\ client' = [client EXCEPT ![c] = InCall("destroy")]
    /\ UNCHANGED <<queue, working, alive, freed, unit, history>>

\* Only the busy workers are counted, even after stop.
Bug_MustWait == working # 0

\* The busy workers are not counted.
Bug_WaitForThreads == stop /\ alive # 0

MustWait == (~stop /\ working # 0) \/ (stop /\ alive # 0)

WaitBlock(c) ==
    /\ client[c].at = "check"
    /\ MustWait
    /\ client' = [client EXCEPT ![c].at = "blocked"]
    /\ UNCHANGED <<poolVars, worker, unit, history>>

WaitReturn(c) ==
    /\ client[c].at = "check"
    /\ ~MustWait
    /\ client' = [client EXCEPT ![c] = IdleClient]
    /\ freed' = (freed \/ client[c].op = "destroy")
    /\ UNCHANGED <<queue, working, alive, stop, worker, unit, history>>

SpuriousClientWake(c) ==
    /\ client[c].at = "blocked"
    /\ client' = [client EXCEPT ![c].at = "check"]
    /\ UNCHANGED <<poolVars, worker, unit, history>>

ClientCheck(c) == WaitBlock(c) \/ WaitReturn(c)

ClientCall(c) ==
    WaitCall(c) \/ Destroy(c) \/ \E u \in Units : AddWork(c, u)

----------------------------------------------------------------------------
Next ==
    \/ \E w \in Workers : WorkerStep(w) \/ SpuriousWorkerWake(w)
    \/ \E c \in Clients :
        ClientCall(c) \/ ClientCheck(c) \/ SpuriousClientWake(c)

Spec == Init /\ [][Next]_vars

\* Every worker, and every caller inside a call, is scheduled.
FairSpec ==
    /\ Spec
    /\ \A w \in Workers : WF_vars(WorkerStep(w))
    /\ \A c \in Clients : WF_vars(ClientCheck(c))

----------------------------------------------------------------------------
(* Properties *)

Busy == {w \in Workers : worker[w] \in {"running", "finish"}}

\* The workers that compete for the one list neither lose a unit nor start
\* two out of order.
AcceptedInOrder == submitted = started \o queue

\* No two workers run the same unit, and none runs a finished one.
RunOnce ==
    \A v, w \in Workers :
        worker[w] = "running" =>
            unit[w] \notin finished /\ (unit[v] = unit[w] => v = w)

\* working_cnt, changed by all workers in two critical sections each, is the
\* number of workers between the two.
WorkingCountsBusy == working = Cardinality(Busy)

\* No worker sleeps while there is work or the pool was told to stop.
NoLostWakeup ==
    \A w \in Workers : worker[w] = "asleep" => queue = <<>> /\ ~stop

\* tpool_destroy releases the pool only after every worker left it, and then
\* every task that was started has finished.
FreedAfterAll ==
    freed => /\ \A w \in Workers : worker[w] = "exited"
             /\ Range(started) \subseteq finished

Returns(c) == client[c].at # "idle" /\ client'[c].at = "idle"

\* When tpool_wait returns, the tasks that were running when it was called have
\* finished; those that were queued then may not even have started.
WaitCoversInFlight ==
    [][\A c \in Clients : Returns(c) => client[c].inFlight \subseteq finished]_vars

\* Accepted work is run unless the pool has no worker or is destroyed first.
AcceptedWorkRuns ==
    \A u \in Units :
        (\E w \in Workers : worker[w] # "none") /\ u \in Range(submitted)
            ~> u \in finished \/ stop

\* With all its workers started, tpool_destroy comes back, unlike that of the
\* pool with one queue per PE.
DestroyReturns == (\A w \in Workers : worker[w] # "none") /\ stop ~> freed

----------------------------------------------------------------------------
Service == INSTANCE SharedService WITH
    Slots <- Size,
    pending <- IF stop THEN <<>> ELSE queue,
    running <- {unit[w] : w \in Workers} \ {None},
    done <- finished,
    shut <- stop,
    waiting <- {c \in Clients : client[c].at # "idle"}

\* Every behaviour of the pool is one of SharedService: FIFO starts by at most
\* Size tasks at a time, and a wait that ends only while nothing runs.
ImplementsService == Service!Spec
=============================================================================
