------------------------------ MODULE ForkJoin ------------------------------
(***************************************************************************)
(* The shape xbrtime_int_reduce_sum, xbrtime_longlong_reduce_sum,          *)
(* xbrtime_int_broadcast and xbrtime_longlong_broadcast share: the calling *)
(* thread adds one task to the queue of every PE in turn, then calls       *)
(* tpool_wait on every queue in turn, then goes on.                        *)
(*                                                                         *)
(* A module that extends this one says what a task does while its worker   *)
(* is running, and what the caller does once main.at = "joined".           *)
(***************************************************************************)
EXTENDS PEs, Sequences, FiniteSets, Functions

CONSTANTS
    Main,       \* the calling thread
    None

VARIABLES
    main,       \* where the caller is: [at, pe]
    missed,     \* history: PEs whose task was still queued when tpool_wait
                \* on their queue returned
    queue, working, alive, stop, freed, worker, unit, client,
    refused, submitted, started, finished           \* the pool

ASSUME NoneAssumption == None \notin PE

\* The task of a PE is named by the PE.
Pool == INSTANCE ThreadPool WITH Clients <- {Main}, Units <- PE

poolVars == <<queue, working, alive, stop, freed, worker, unit, client,
              refused, submitted, started, finished>>
forkVars == <<main, missed, poolVars>>

MainState == {"submit", "join", "waiting", "joined", "done"}

ForkTypeOK ==
    /\ Pool!TypeOK
    /\ main \in [at : MainState, pe : PE]
    /\ missed \subseteq PE

ForkInit ==
    /\ Pool!Init
    /\ main = [at |-> "submit", pe |-> 0]
    /\ missed = {}

\* The next turn of a loop over the PEs that ends with the caller at a place.
NextTurn(again, after) ==
    main' = IF main.pe < Num - 1 THEN [at |-> again, pe |-> main.pe + 1]
            ELSE [at |-> after, pe |-> 0]

\* The result of tpool_add_work is not looked at.
Submit ==
    /\ main.at = "submit"
    /\ \/ Pool!AddWork(Main, main.pe, main.pe)
       \/ Pool!RefuseWork(Main, main.pe, main.pe)
    /\ NextTurn("submit", "join")
    /\ UNCHANGED missed

Join ==
    /\ main.at = "join"
    /\ Pool!WaitCall(Main, main.pe)
    /\ main' = [main EXCEPT !.at = "waiting"]
    /\ UNCHANGED missed

JoinBlock ==
    /\ main.at = "waiting"
    /\ Pool!WaitBlock(Main)
    /\ UNCHANGED <<main, missed>>

JoinReturn ==
    /\ main.at = "waiting"
    /\ Pool!WaitReturn(Main)
    /\ missed' = missed \cup Range(queue[main.pe])
    /\ NextTurn("join", "joined")

CallerStep == Submit \/ Join \/ JoinBlock \/ JoinReturn

\* What a worker does apart from running a task.
WorkerLoop(p) ==
    /\ Pool!Sleep(p) \/ Pool!Take(p) \/ Pool!Finish(p)
    /\ UNCHANGED <<main, missed>>

Spurious ==
    /\ Pool!SpuriousClientWake(Main) \/ \E p \in PE : Pool!SpuriousWorkerWake(p)
    /\ UNCHANGED <<main, missed>>

Returned == main.at = "done"

----------------------------------------------------------------------------
\* However the tasks, the workers of several PEs and the caller interleave, the
\* pool does what TaskService promises: it serves each queue in order, one task
\* at a time, and lets tpool_wait return only while that PE runs none.
PoolServes == Pool!ImplementsService
=============================================================================
