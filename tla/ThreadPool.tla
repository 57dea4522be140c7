----------------------------- MODULE ThreadPool -----------------------------
(***************************************************************************)
(* The thread pool of runtime/threadpool.h after tpool_create returned:    *)
(* one work queue per processing element (PE), each with one mutex, two    *)
(* condition variables (work_cond, working_cond) and the one worker thread *)
(* tpool_create starts for it.                                             *)
(*                                                                         *)
(* Every critical section of work_mutex is one action; what runs outside   *)
(* it (the task itself) is an action of its own.  A thread asleep in       *)
(* pthread_cond_wait is in a wait set; a broadcast empties the set, a      *)
(* signal removes one member of it, and a sleeper may also wake for no     *)
(* reason.  A woken thread re-evaluates its condition in a new critical    *)
(* section.                                                                *)
(*                                                                         *)
(* Definitions named Bug_... are slips this code invites.  Each stands     *)
(* before the definition it would replace; the specification uses none.    *)
(***************************************************************************)
EXTENDS Integers, Sequences, FiniteSets, Functions

CONSTANTS
    Num,        \* the argument of tpool_create
    Clients,    \* threads that call the pool's functions
    Units,      \* work units; each is submitted at most once
    None        \* no unit

ASSUME NumAssumption == Num \in Nat
ASSUME NoneAssumption == None \notin Units

\* tpool_create replaces 0 by 2.
NPES == IF Num = 0 THEN 2 ELSE Num

PE == 0 .. NPES - 1

VARIABLES
    queue,      \* queue[p]: the list from work_head to work_tail
    working,    \* queue p's working_cnt
    alive,      \* queue p's num_threads
    stop,       \* queue p's stop
    freed,      \* queue p was destroyed and released
    worker,     \* where PE p's worker is in tpool_worker
    unit,       \* the worker's local variable work
    client,     \* where each client is in tpool_wait or tpool_destroy
    refused,    \* units for which tpool_add_work returned false
    submitted,  \* history: units accepted by queue p, in order
    started,    \* history: units taken from queue p, in order
    finished    \* history: units whose function returned

poolVars == <<queue, working, alive, stop, freed>>
history == <<refused, submitted, started, finished>>
vars == <<poolVars, worker, unit, client, history>>

----------------------------------------------------------------------------
(* "none": pthread_create failed; "fetch": about to lock at the head of    *)
(* the loop; "asleep": in pthread_cond_wait(work_cond); "running": in the  *)
(* task; "finish": about to lock after the task; "exited": left the loop.  *)
WorkerState == {"none", "fetch", "asleep", "running", "finish", "exited"}

\* "check": about to evaluate tpool_wait's loop condition;
\* "blocked": in pthread_cond_wait(working_cond).
ClientState ==
    [at : {"idle", "check", "blocked"}, op : {"wait", "destroy"}, on : PE,
     pending  : SUBSET Units,    \* accepted, not finished when the call began
     inFlight : SUBSET Units]    \* those of them already started then

IdleClient == [at |-> "idle", op |-> "wait", on |-> 0,
               pending |-> {}, inFlight |-> {}]

TypeOK ==
    /\ queue \in [PE -> Seq(Units)]
    /\ working \in [PE -> Nat]
    /\ alive \in [PE -> Nat]
    /\ stop \in [PE -> BOOLEAN]
    /\ freed \in [PE -> BOOLEAN]
    /\ worker \in [PE -> WorkerState]
    /\ unit \in [PE -> Units \cup {None}]
    /\ client \in [Clients -> ClientState]
    /\ refused \subseteq Units
    /\ submitted \in [PE -> Seq(Units)]
    /\ started \in [PE -> Seq(Units)]
    /\ finished \subseteq Units

Accepted == UNION {Range(submitted[p]) : p \in PE}

----------------------------------------------------------------------------
\* num_threads of a new queue: the size of the pool, although one worker
\* serves the queue.
ThreadsPerQueue == NPES

(* tpool_create on success.  A failing pthread_create is printed and       *)
(* otherwise ignored.                                                      *)
Init ==
    /\ queue = [p \in PE |-> <<>>]
    /\ working = [p \in PE |-> 0]
    /\ alive = [p \in PE |-> ThreadsPerQueue]
    /\ stop = [p \in PE |-> FALSE]
    /\ freed = [p \in PE |-> FALSE]
    /\ worker \in [PE -> {"fetch", "none"}]
    /\ unit = [p \in PE |-> None]
    /\ client = [c \in Clients |-> IdleClient]
    /\ refused = {}
    /\ submitted = [p \in PE |-> <<>>]
    /\ started = [p \in PE |-> <<>>]
    /\ finished = {}

----------------------------------------------------------------------------
(* The condition variables *)

\* The broadcast is forgotten.
Bug_NotRoused(p) == worker[p]

\* pthread_cond_broadcast(work_cond): the queue's only possible sleeper.
Roused(p) == IF worker[p] = "asleep" THEN "fetch" ELSE worker[p]

Waiters(p) == {c \in Clients : client[c].at = "blocked" /\ client[c].on = p}

\* The signal is forgotten.
Bug_NoSignal(p) == UNCHANGED client

\* pthread_cond_signal(working_cond): one waiter, if there is one.
SignalWorking(p) ==
    \/ Waiters(p) = {} /\ UNCHANGED client
    \/ \E c \in Waiters(p) : client' = [client EXCEPT ![c].at = "check"]

----------------------------------------------------------------------------
(* tpool_worker *)

Sleep(p) ==
    /\ worker[p] = "fetch"
    /\ queue[p] = <<>> /\ ~stop[p]
    /\ worker' = [worker EXCEPT ![p] = "asleep"]
    /\ UNCHANGED <<poolVars, unit, client, history>>

Exit(p) ==
    /\ worker[p] = "fetch"
    /\ stop[p]
    /\ alive' = [alive EXCEPT ![p] = @ - 1]
    /\ worker' = [worker EXCEPT ![p] = "exited"]
    /\ IF alive'[p] = 0 \/ working[p] = 0
         THEN SignalWorking(p)
         ELSE UNCHANGED client
    /\ UNCHANGED <<queue, working, stop, freed, unit, history>>

\* Not asleep, and stop is looked at before the queue.
MayTake(p) == queue[p] # <<>> /\ ~stop[p]

\* tpool_work_unit_get and working_cnt++.
Take(p) ==
    /\ worker[p] = "fetch"
    /\ MayTake(p)
    /\ unit' = [unit EXCEPT ![p] = Head(queue[p])]
    /\ queue' = [queue EXCEPT ![p] = Tail(@)]
    /\ working' = [working EXCEPT ![p] = @ + 1]
    /\ worker' = [worker EXCEPT ![p] = "running"]
    /\ started' = [started EXCEPT ![p] = Append(@, Head(queue[p]))]
    /\ UNCHANGED <<alive, stop, freed, client, refused, submitted, finished>>

\* The task returns and its work unit is freed, outside the lock.
Complete(p) ==
    /\ worker[p] = "running"
    /\ finished' = finished \cup {unit[p]}
    /\ unit' = [unit EXCEPT ![p] = None]
    /\ worker' = [worker EXCEPT ![p] = "finish"]
    /\ UNCHANGED <<poolVars, client, refused, submitted, started>>

\* working_cnt is decremented twice.
Bug_FinishTwice(p) ==
    /\ worker[p] = "finish"
    /\ working' = [working EXCEPT ![p] = @ - 2]
    /\ worker' = [worker EXCEPT ![p] = "fetch"]
    /\ UNCHANGED <<queue, alive, stop, freed, unit, client, history>>

Finish(p) ==
    /\ worker[p] = "finish"
    /\ working' = [working EXCEPT ![p] = @ - 1]
    /\ IF ~stop[p] /\ working'[p] = 0 /\ queue[p] = <<>>
         THEN SignalWorking(p)
         ELSE UNCHANGED client
    /\ worker' = [worker EXCEPT ![p] = "fetch"]
    /\ UNCHANGED <<queue, alive, stop, freed, unit, history>>

WorkerStep(p) == Sleep(p) \/ Exit(p) \/ Take(p) \/ Complete(p) \/ Finish(p)

SpuriousWorkerWake(p) ==
    /\ worker[p] = "asleep"
    /\ worker' = [worker EXCEPT ![p] = "fetch"]
    /\ UNCHANGED <<poolVars, unit, client, history>>

----------------------------------------------------------------------------
(* The pool's callers.  A caller does not touch a queue once tpool_destroy *)
(* was called on it, and calls tpool_destroy only while no other caller is *)
(* in a call on that queue.                                                *)

MayCall(c, p) == client[c].at = "idle" /\ ~stop[p]

Fresh(u) == u \notin Accepted \cup refused

\* The new unit goes behind work_tail.
Enqueued(p, u) == Append(queue[p], u)

\* tpool_add_work.
AddWork(c, p, u) ==
    /\ MayCall(c, p)
    /\ Fresh(u)
    /\ queue' = [queue EXCEPT ![p] = Enqueued(p, u)]
    /\ worker' = [worker EXCEPT ![p] = Roused(p)]
    /\ submitted' = [submitted EXCEPT ![p] = Append(@, u)]
    /\ UNCHANGED <<working, alive, stop, freed, unit, client,
                   refused, started, finished>>

\* tpool_add_work returns false: a NULL func, or malloc failed.
RefuseWork(c, p, u) ==
    /\ MayCall(c, p)
    /\ Fresh(u)
    /\ refused' = refused \cup {u}
    /\ UNCHANGED <<poolVars, worker, unit, client,
                   submitted, started, finished>>

InCall(op, p) ==
    [at |-> "check", op |-> op, on |-> p,
     pending  |-> Range(submitted[p]) \ finished,
     inFlight |-> Range(started[p]) \ finished]

\* tpool_wait is entered.
WaitCall(c, p) ==
    /\ MayCall(c, p)
    /\ client' = [client EXCEPT ![c] = InCall("wait", p)]
    /\ UNCHANGED <<poolVars, worker, unit, history>>

\* tpool_destroy up to its call of tpool_wait: every pending unit is freed
\* without being run, stop is set and the workers are woken.  work_head is not
\* reset: from now on the queue holds freed units.
Destroy(c, p) ==
    /\ MayCall(c, p)
    /\ \A d \in Clients : client[d].at # "idle" => client[d].on # p
    /\ stop' = [stop EXCEPT ![p] = TRUE]
    /\ worker' = [worker EXCEPT ![p] = Roused(p)]
    /\ client' = [client EXCEPT ![c] = InCall("destroy", p)]
    /\ UNCHANGED <<queue, working, alive, freed, unit, history>>

\* The two halves of the loop condition, each without the other.
Bug_WaitForThreads(p) == stop[p] /\ alive[p] # 0
Bug_WaitForWork(p) == working[p] # 0

\* The loop condition of tpool_wait.
MustWait(p) ==
    \/ ~stop[p] /\ working[p] # 0
    \/ stop[p] /\ alive[p] # 0

WaitBlock(c) ==
    /\ client[c].at = "check"
    /\ MustWait(client[c].on)
    /\ client' = [client EXCEPT ![c].at = "blocked"]
    /\ UNCHANGED <<poolVars, worker, unit, history>>

\* tpool_wait returns; in tpool_destroy the queue is then released.
WaitReturn(c) ==
    /\ client[c].at = "check"
    /\ ~MustWait(client[c].on)
    /\ client' = [client EXCEPT ![c] = IdleClient]
    /\ freed' = [freed EXCEPT ![client[c].on] =
                    @ \/ client[c].op = "destroy"]
    /\ UNCHANGED <<queue, working, alive, stop, worker, unit, history>>

SpuriousClientWake(c) ==
    /\ client[c].at = "blocked"
    /\ client' = [client EXCEPT ![c].at = "check"]
    /\ UNCHANGED <<poolVars, worker, unit, history>>

ClientCheck(c) == WaitBlock(c) \/ WaitReturn(c)

ClientCall(c) ==
    \E p \in PE :
        \/ \E u \in Units : AddWork(c, p, u) \/ RefuseWork(c, p, u)
        \/ WaitCall(c, p)
        \/ Destroy(c, p)

----------------------------------------------------------------------------
Next ==
    \/ \E p \in PE : WorkerStep(p) \/ SpuriousWorkerWake(p)
    \/ \E c \in Clients :
        ClientCall(c) \/ ClientCheck(c) \/ SpuriousClientWake(c)

Spec == Init /\ [][Next]_vars

(* A worker or a caller that can take a step of its own takes it: the      *)
(* operating system schedules every thread, work_mutex is held for a       *)
(* bounded time, and a task terminates.  Nothing obliges a caller to call  *)
(* again, and spurious wakeups are never relied upon.                      *)
Fairness ==
    /\ \A p \in PE : WF_vars(WorkerStep(p))
    /\ \A c \in Clients : WF_vars(ClientCheck(c))

FairSpec == Spec /\ Fairness

----------------------------------------------------------------------------
(* Safety *)

Busy(p) == worker[p] \in {"running", "finish"}

\* A queue neither loses, duplicates nor reorders work: what tpool_add_work
\* accepted is what the worker took, in that order, followed by what is queued.
AcceptedInOrder ==
    \A p \in PE : submitted[p] = started[p] \o queue[p]

\* working_cnt, which the worker changes in two critical sections around an
\* unlocked task, is exactly the number of workers between the two; in
\* particular the decrement of a size_t never wraps.
WorkingCountsBusy ==
    \A p \in PE : working[p] = IF Busy(p) THEN 1 ELSE 0

\* No lost wakeup: a worker never sleeps in pthread_cond_wait on a queue that
\* holds work or that was told to stop, however tpool_add_work and
\* tpool_destroy interleave with its loop.
NoLostWakeup ==
    \A p \in PE : worker[p] = "asleep" => queue[p] = <<>> /\ ~stop[p]

\* num_threads starts at the size of the pool in every queue and one worker
\* leaves each, so it never falls below NPES - 1.
AliveCountsPool ==
    \A p \in PE : alive[p] = IF worker[p] = "exited" THEN NPES - 1 ELSE NPES

\* tpool_destroy frees a queue only after its worker left the loop for good:
\* the worker never locks a destroyed mutex.
FreedAfterExit ==
    \A p \in PE : freed[p] => worker[p] = "exited"

\* In a pool of two or more PEs tpool_destroy never gets past its tpool_wait:
\* no queue is ever released, although its worker exited.
DestroyNeverFrees ==
    NPES > 1 => \A p \in PE : ~freed[p]

\* The worker is busy, or awake with work left to do.
HasWaker(p) == Busy(p) \/ (worker[p] = "fetch" /\ queue[p] # <<>>)

\* A thread blocked in tpool_wait on a live queue has somebody to wake it: no
\* deadlock between its pthread_cond_wait and the worker's signal, which wakes
\* one waiter.  (True while one thread at a time waits on a queue.)
BlockedHasWaker ==
    \A c \in Clients :
        client[c].at = "blocked" /\ ~stop[client[c].on] => HasWaker(client[c].on)

----------------------------------------------------------------------------
(* What a step may never do *)

Returns(c) == client[c].at = "check" /\ client'[c].at = "idle"

\* When tpool_wait returns, every task of the queue that was RUNNING when it
\* was called has finished.
WaitCoversInFlight ==
    [][\A c \in Clients : Returns(c) => client[c].inFlight \subseteq finished]_vars

\* threadpool.h:49 says tpool_wait "Blocks until all work has been completed":
\* everything accepted before the call has finished when it returns.
WaitCoversPending ==
    [][\A c \in Clients :
        Returns(c) /\ client[c].op = "wait" => client[c].pending \subseteq finished]_vars

\* Once tpool_destroy ran, no further task of that queue starts: its worker
\* never takes one of the units tpool_destroy freed and left in the list.
NoStartAfterStop ==
    [][\A p \in PE : stop[p] => started'[p] = started[p]]_vars

----------------------------------------------------------------------------
(* Liveness *)

Served(p) == worker[p] # "none"

\* Accepted work of a queue whose worker thread exists is eventually run,
\* unless the queue is destroyed first.
AcceptedWorkRuns ==
    \A p \in PE, u \in Units :
        Served(p) /\ u \in Range(submitted[p]) ~> u \in finished \/ stop[p]

InWait(c) == client[c].at # "idle" /\ client[c].op = "wait"

\* Two callers wait on one queue.
Together(c, d) == InWait(c) /\ InWait(d) /\ client[c].on = client[d].on

\* A caller of tpool_wait gets out of it if nobody else waits on its queue; of
\* two that do one gets out.  The worker signals once, when it runs out of
\* work, and pthread_cond_signal wakes one of them.
WaitReturns ==
    \A c \in Clients :
        LET others == Clients \ {c}
        IN  /\ [](\A d \in others : ~Together(c, d)) => (InWait(c) ~> ~InWait(c))
            /\ \A d \in others : Together(c, d) ~> ~Together(c, d)

\* threadpool.h:359: tpool_destroy waits "for the processing threads to
\* finish" and then releases the queue.
DestroyReturns ==
    \A p \in PE : Served(p) /\ stop[p] ~> freed[p]

----------------------------------------------------------------------------
(* The pool implements TaskService *)

\* The PE a caller is waiting for.
WaitsOn ==
    [c \in Clients |-> IF client[c].at = "idle" THEN {} ELSE {client[c].on}]

\* What is still to be run: tpool_destroy throws the queued units away.
Pending == [p \in PE |-> IF stop[p] THEN <<>> ELSE queue[p]]

Service == INSTANCE TaskService WITH
    pending <- Pending,
    current <- unit,
    shut <- stop,
    done <- finished,
    waitsOn <- WaitsOn

\* Every behaviour of the pool is one of TaskService: per-PE FIFO service by
\* one task at a time, nothing started after tpool_destroy, and tpool_wait
\* returning only while the PE runs no task.
ImplementsService == Service!Spec
=============================================================================
