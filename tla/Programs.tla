------------------------------ MODULE Programs ------------------------------
(***************************************************************************)
(* The programs under bench/ that run on this runtime: their main thread   *)
(* composed with the pool that runs its tasks and with the barrier, which  *)
(* the main thread calls directly and through tasks.  A worker that waits  *)
(* in the barrier is still running its task: the two components share the  *)
(* worker thread.                                                          *)
(*                                                                         *)
(* A program is the sequence of its calls that matter to the pool, the     *)
(* barrier and what it frees, ended by the destructor.  Data are left out: *)
(* what the transfers move is in Transfer, the indices in RandomAccess.    *)
(* An access to freed memory is recorded in late or in spoiled and leaves  *)
(* the rest as it is.  Definitions named Bug_... are slips no              *)
(* specification uses.                                                     *)
(***************************************************************************)
EXTENDS PEs, Sequences, FiniteSets, SequencesExt

CONSTANTS
    Updates,    \* bound of the model: turns of the loops that add transfers
    MaxRefused, \* bound of the model: calls of tpool_add_work that fail (none
                \* does in RandomAccess, which adds the most)
    Main,       \* the main thread
    None

ASSUME BoundAssumption == Updates \in Nat \ {0} /\ MaxRefused \in Nat

VARIABLES
    program,    \* which of the programs
    main,       \* where its main thread is: [step, pe, turn, waiting]
    shared,     \* the memory the tasks of the program use: "live" or "freed"
    config,     \* __XBRTIME_CONFIG: "live" or "freed"
    array,      \* threads, its queue 0 and xb_barrier: "live" or "freed"
    stage,      \* stage[p]: how far the update the worker runs has come
    reducer,    \* reducer[p]: where its worker is in a reduction's loop
    held,       \* the main thread does not come back from xbrtime_close
    late,       \* history: units that used shared or config when freed
    spoiled,    \* history: units the destructor freed something under
    missed,     \* history: units still queued when a wait on their queue returned
    queue, working, alive, stop, freed, worker, unit, client,
    refused, submitted, started, finished,          \* the pool
    counter, sense, slots, at, arrivals, entered, left, releases  \* the barrier

----------------------------------------------------------------------------
(* The scripts *)

Call(op) == <<[op |-> op, tasks |-> <<>>]>>

\* A loop over the PEs that adds tasks of the given kinds to each queue.
Fork(kinds) == <<[op |-> "fork", tasks |-> kinds]>>

\* A loop of n turns, each of which contributes seq.
Times(n, seq) ==
    [i \in 1 .. n * Len(seq) |-> seq[((i - 1) % Len(seq)) + 1]]

\* xbrtime_barrier_all.
BarrierAll == Fork(<<"barrier">>)

\* xbrtime_close begins with a barrier of its own.
CloseCall == Call("barrier") \o Call("close")

\* The destructor forgets to wait.
Bug_Exit == Call("release") \o Call("end")

\* The destructor, and the end of the process.
Exit == Call("wait") \o Call("release") \o Call("end")

\* SHMEMRandomAccess.c; what it frees before the last barrier no task uses.
RandomAccess ==
    BarrierAll \o BarrierAll \o Fork(Times(Updates, <<"get", "put", "barrier">>))
    \o BarrierAll \o BarrierAll \o BarrierAll \o CloseCall \o Exit

\* The waits before the table is freed are forgotten.
Bug_Gups ==
    Call("barrier") \o Fork(Times(Updates, <<"update">>))
    \o Call("barrier") \o Call("free") \o CloseCall \o Exit

\* xbrtime_gups.c
Gups ==
    Call("barrier") \o Fork(Times(Updates, <<"update">>)) \o Call("wait")
    \o Call("barrier") \o Call("free") \o CloseCall \o Exit

\* SHMEMRandomAccess_v2.c, which differs in where it checks the index.
GupsV2 == Gups

\* Either, when the table cannot be allocated.
NoTable == CloseCall \o Exit

\* xbrtime_matmul.c
Matmul ==
    Call("barrier") \o Fork(Times(Updates, <<"get">>))
    \o Call("barrier") \o Call("barrier") \o Call("free") \o CloseCall \o Exit

\* xbrtime_gather.c
Gather ==
    Call("barrier") \o Fork(Times(Updates, <<"get">>))
    \o Call("barrier") \o Call("free") \o CloseCall \o Exit

\* xbrtime_reduction8.c; the array is not freed.
Reduction8 ==
    Call("barrier") \o Fork(<<"sum">>) \o Call("wait")
    \o Call("barrier") \o CloseCall \o Exit

\* xbrtime_broadcast8.c; neither is the value.
Broadcast8 ==
    Call("barrier") \o Fork(<<"copy">>) \o Call("wait")
    \o Call("barrier") \o CloseCall \o Exit

\* A caller of xbrtime_reduce_sum_broadcast_all.
ReduceAll == Fork(<<"reduce">>) \o Exit

\* A caller of xbrtime_int_broadcast_deprecated: a barrier per stage, of which
\* there are the logarithm of the PEs, rounded up: a stage for every power of
\* two below their number, which is at most 16.
TreeBroadcast ==
    LET stages == Cardinality({k \in 0 .. 3 : 2 ^ k < Num})
    IN  Times(stages, Call("barrier")) \o Exit

Script ==
    [RandomAccess |-> RandomAccess, gups |-> Gups, gups_v2 |-> GupsV2,
     no_table |-> NoTable, matmul |-> Matmul, gather |-> Gather,
     reduction8 |-> Reduction8, broadcast8 |-> Broadcast8,
     reduce_all |-> ReduceAll, tree_broadcast |-> TreeBroadcast]

Programs == DOMAIN Script

MaxSteps == 12
MaxTurns == 3 * Updates

----------------------------------------------------------------------------
(* The components *)

\* Every queue has a worker thread of its own beside the main thread.
ASSUME MainAssumption == Main \notin PE

\* A unit is named by the step and the turn that add it, and its PE.
Unit == (1 .. MaxSteps) \X (1 .. MaxTurns) \X PE

ASSUME NoneAssumption == None \notin Unit

Pool == INSTANCE ThreadPool WITH Clients <- {Main}, Units <- Unit

Bar == INSTANCE Barrier WITH
    Threads <- PE \cup {Main}, MaxCalls <- MaxSteps + MaxTurns

poolVars == <<queue, working, alive, stop, freed, worker, unit, client,
              refused, submitted, started, finished>>
barVars == <<counter, sense, slots, at, arrivals, entered, left, releases>>
memory == <<shared, config, array, late, spoiled>>
locals == <<stage, reducer>>
vars == <<program, main, held, memory, locals, missed, poolVars, barVars>>

\* xbrtime_reduce_sum_broadcast: its thread_id, its updates_received, and
\* whether it is "asleep" on update_cond or "woken".
Reducer ==
    [turn : 0 .. Num, received : 0 .. Num, at : {"out", "asleep", "woken"}]

LoopStart == [turn |-> 0, received |-> 0, at |-> "out"]

TypeOK ==
    /\ Pool!TypeOK
    /\ Bar!TypeOK
    /\ program \in Programs
    /\ main \in [step : 1 .. MaxSteps, pe : PE, turn : 1 .. MaxTurns,
                 waiting : BOOLEAN]
    /\ {shared, config, array} \subseteq {"live", "freed"}
    /\ stage \in [PE -> {"start", "checked"}]
    /\ reducer \in [PE -> Reducer]
    /\ held \in BOOLEAN
    /\ late \cup spoiled \cup missed \subseteq Unit

\* xbrtime_init ran; a worker that never started is left to ThreadPool.
Init ==
    /\ Pool!Init
    /\ worker = [p \in PE |-> "fetch"]
    /\ Bar!Init
    /\ program \in Programs
    /\ main = [step |-> 1, pe |-> 0, turn |-> 1, waiting |-> FALSE]
    /\ shared = "live" /\ config = "live" /\ array = "live"
    /\ stage = [p \in PE |-> "start"]
    /\ reducer = [p \in PE |-> LoopStart]
    /\ held = FALSE
    /\ late = {} /\ spoiled = {} /\ missed = {}

----------------------------------------------------------------------------
(* The main thread *)

Done == main.step > Len(Script[program])

Now == Script[program][main.step]

At(op) == ~Done /\ Now.op = op /\ at[Main] = "out" /\ ~held

NextStep == [step |-> main.step + 1, pe |-> 0, turn |-> 1, waiting |-> FALSE]

\* The next turn of the loop over the PEs, or what follows it.
NextPE == IF main.pe < Num - 1
            THEN [main EXCEPT !.pe = @ + 1, !.turn = 1, !.waiting = FALSE]
            ELSE NextStep

NextTurn == IF main.turn < Len(Now.tasks) THEN [main EXCEPT !.turn = @ + 1]
            ELSE NextPE

ThisUnit == <<main.step, main.turn, main.pe>>

\* No task is added in a turn: the element is the caller's own (gather), the
\* index is refused (gups_v2), or there is no memory for the arguments (gups).
MaySkip == program \in {"gather", "gups", "gups_v2"}

\* The result of tpool_add_work is not acted upon.
Submit ==
    /\ At("fork")
    /\ \/ Pool!AddWork(Main, main.pe, ThisUnit)
       \/ /\ program # "RandomAccess"
          /\ Cardinality(refused) < MaxRefused
          /\ Pool!RefuseWork(Main, main.pe, ThisUnit)
       \/ MaySkip /\ UNCHANGED poolVars
    /\ main' = NextTurn
    /\ UNCHANGED <<program, held, memory, locals, missed, barVars>>

\* tpool_wait on each queue.
Wait ==
    /\ At("wait") /\ ~main.waiting
    /\ Pool!WaitCall(Main, main.pe)
    /\ main' = [main EXCEPT !.waiting = TRUE]
    /\ UNCHANGED <<program, held, memory, locals, missed, barVars>>

WaitBlocks ==
    /\ main.waiting
    /\ Pool!WaitBlock(Main)
    /\ UNCHANGED <<program, main, held, memory, locals, missed, barVars>>

WaitReturns ==
    /\ main.waiting
    /\ Pool!WaitReturn(Main)
    /\ missed' = missed \cup ToSet(queue[main.pe])
    /\ main' = NextPE
    /\ UNCHANGED <<program, held, memory, locals, barVars>>

\* The main thread's own call of the barrier, which may not return.
MainBarrier ==
    /\ \/ At("barrier") /\ Bar!Arrive(Main)
       \/ ~Done /\ Bar!Recheck(Main)
    /\ main' = IF at'[Main] = "out" THEN NextStep ELSE main
    /\ UNCHANGED <<program, held, memory, locals, missed, poolVars>>

Free ==
    /\ At("free")
    /\ shared' = "freed"
    /\ main' = NextStep
    /\ UNCHANGED <<program, held, config, array, late, spoiled, locals, missed,
                   poolVars, barVars>>

\* pthread_cond_destroy and the free of the configuration.  The destruction of
\* a condition variable somebody sleeps on is undefined: it may never return.
Close ==
    /\ At("close")
    /\ \/ config' = "freed" /\ main' = NextStep /\ UNCHANGED held
       \/ /\ \E t \in PE \cup {Main} : at[t] = "asleep"
          /\ held' = TRUE
          /\ UNCHANGED <<config, main>>
    /\ UNCHANGED <<program, shared, array, late, spoiled, locals, missed,
                   poolVars, barVars>>

\* tpool_thread_free and the free of xb_barrier.  What is queued in queue 0 is
\* freed, its last unit twice; a worker 0 that runs a task will come back from
\* it to a queue that is gone.  (The loop of an idle worker 0 uses that queue
\* too, when it next locks the mutex or wakes: not recorded.)
Release ==
    /\ At("release")
    /\ array' = "freed"
    /\ spoiled' = spoiled \cup ToSet(queue[0]) \cup ({unit[0]} \ {None})
    /\ main' = NextStep
    /\ UNCHANGED <<program, held, shared, config, late, locals, missed,
                   poolVars, barVars>>

\* The process ends, and its workers with it.
End ==
    /\ At("end")
    /\ main' = NextStep
    /\ UNCHANGED <<program, held, memory, locals, missed, poolVars, barVars>>

MainStep ==
    \/ Submit \/ Wait \/ WaitBlocks \/ WaitReturns \/ MainBarrier
    \/ Free \/ Close \/ Release \/ End

----------------------------------------------------------------------------
(* The workers *)

Kind(u) == Script[program][u[1]].tasks[u[2]]

Runs(p, kinds) ==
    ~Done /\ worker[p] = "running" /\ Kind(unit[p]) \in kinds

\* The unit p runs uses memory in the given state.
Uses(p, block) ==
    /\ late' = IF block = "freed" THEN late \cup {unit[p]} ELSE late
    /\ UNCHANGED <<shared, config, array>>

\* The task returns when its call of the barrier does.
TaskReturns(p) ==
    IF at'[p] = "out" THEN Pool!Complete(p) ELSE UNCHANGED poolVars

\* The call uses the configuration, and xb_barrier for its slots.
EnterBarrier(p) ==
    /\ Runs(p, {"barrier"})
    /\ Bar!Arrive(p) \/ Bar!Recheck(p)
    /\ Uses(p, config)
    /\ spoiled' = IF array = "freed" THEN spoiled \cup {unit[p]} ELSE spoiled
    /\ TaskReturns(p)
    /\ UNCHANGED <<program, main, held, locals, missed>>

\* xbrtime_ulonglong_get on the shared array.
RunGet(p) ==
    /\ Runs(p, {"get"})
    /\ Uses(p, shared)
    /\ Pool!Complete(p)
    /\ UNCHANGED <<program, main, held, spoiled, locals, missed, barVars>>

\* The put stores nothing; the tasks of the reduction and the broadcast have
\* modules of their own.
RunOther(p) ==
    /\ Runs(p, {"put", "sum", "copy"})
    /\ Pool!Complete(p)
    /\ UNCHANGED <<program, main, held, memory, locals, missed, barVars>>

\* update_remote_value reads the configuration, gups to check the index.
CheckUpdate(p) ==
    /\ Runs(p, {"update"}) /\ stage[p] = "start"
    /\ Uses(p, config)
    /\ \/ program = "gups" /\ Pool!Complete(p) /\ UNCHANGED stage
       \/ stage' = [stage EXCEPT ![p] = "checked"] /\ UNCHANGED poolVars
    /\ UNCHANGED <<program, main, held, spoiled, reducer, missed, barVars>>

\* The get of the update; its put stores nothing.
ApplyUpdate(p) ==
    /\ Runs(p, {"update"}) /\ stage[p] = "checked"
    /\ Uses(p, shared)
    /\ Pool!Complete(p)
    /\ stage' = [stage EXCEPT ![p] = "start"]
    /\ UNCHANGED <<program, main, held, spoiled, reducer, missed, barVars>>

\* The loop condition of the first turn.
AwaitsUpdates(r) == r.turn = 0 /\ r.received < Num

\* A turn counts the update, unless it goes on behind pthread_cond_wait, and
\* ends if it need not wait.
Turn(r) ==
    LET counted == IF r.at = "out" THEN r.received + 1 ELSE r.received
        now     == [r EXCEPT !.received = counted]
    IN  IF AwaitsUpdates(now) THEN [now EXCEPT !.at = "asleep"]
                              ELSE [now EXCEPT !.at = "out", !.turn = @ + 1]

\* pthread_cond_signal in the later turns: the sleeper it wakes, if any.
Signalled(r) ==
    LET sleepers == {q \in PE : reducer[q].at = "asleep"}
    IN  IF r.turn > 0 /\ sleepers # {} THEN {{q} : q \in sleepers} ELSE {{}}

\* xbrtime_reduce_sum_broadcast: a turn of its loop over the PEs under
\* update_mutex, up to pthread_cond_wait or from there.
RunReduce(p) ==
    /\ Runs(p, {"reduce"}) /\ reducer[p].at # "asleep"
    /\ Uses(p, config)
    /\ LET next    == Turn(reducer[p])
           returns == next.turn = Num
       IN  /\ \E woken \in Signalled(reducer[p]) :
                reducer' = [q \in PE |->
                    IF q = p THEN IF returns THEN LoopStart ELSE next
                    ELSE [reducer[q] EXCEPT !.at = IF q \in woken THEN "woken" ELSE @]]
           /\ IF returns THEN Pool!Complete(p) ELSE UNCHANGED poolVars
    /\ UNCHANGED <<program, main, held, spoiled, stage, missed, barVars>>

RunTask(p) ==
    EnterBarrier(p) \/ RunGet(p) \/ RunOther(p) \/ CheckUpdate(p)
    \/ ApplyUpdate(p) \/ RunReduce(p)

WorkerLoop(p) ==
    /\ ~Done
    /\ Pool!Sleep(p) \/ Pool!Take(p) \/ Pool!Finish(p)
    /\ UNCHANGED <<program, main, held, memory, locals, missed, barVars>>

WorkerStep(p) == RunTask(p) \/ WorkerLoop(p)

PoolSpurious ==
    /\ ~Done
    /\ Pool!SpuriousClientWake(Main) \/ \E p \in PE : Pool!SpuriousWorkerWake(p)
    /\ UNCHANGED <<program, main, held, memory, locals, missed, barVars>>

BarrierSpurious ==
    /\ ~Done
    /\ \E t \in PE \cup {Main} : Bar!SpuriousWake(t)
    /\ UNCHANGED <<program, main, held, memory, locals, missed, poolVars>>

UpdateSpurious ==
    /\ ~Done
    /\ \E p \in PE :
        /\ reducer[p].at = "asleep"
        /\ reducer' = [reducer EXCEPT ![p].at = "woken"]
    /\ UNCHANGED <<program, main, held, memory, stage, missed, poolVars, barVars>>

----------------------------------------------------------------------------
Next ==
    \/ MainStep
    \/ \E p \in PE : WorkerStep(p)
    \/ PoolSpurious \/ BarrierSpurious \/ UpdateSpurious

Spec == Init /\ [][Next]_vars

\* Every thread of the process is scheduled.
FairSpec ==
    /\ Spec
    /\ WF_vars(MainStep)
    /\ \A p \in PE : WF_vars(WorkerStep(p))

----------------------------------------------------------------------------
(* Properties *)

\* The PEs whose worker will never serve its queue again: it waits in the
\* barrier or for update_cond.
Wedged == {p \in PE : at[p] # "out" \/ reducer[p].at # "out"}

\* After the second generation of RandomAccess at most one PE still serves its
\* queue, or two if the main thread was caught in it as well.
OneSurvivor ==
    releases >= 2 /\ Num > 1 =>
        Cardinality(PE \ Wedged) <= IF at[Main] = "out" THEN 1 ELSE 2

\* However the threads lap each other in it, the barrier has kept exactly those
\* its generations account for, the main thread and the tasks together.
StuckCount == Bar!StuckCount

\* In the programs that wait for their tasks before they free the table and
\* close the runtime, a task that uses the one or the other afterwards is one
\* that was still queued when tpool_wait on its queue returned.
LateWasMissed ==
    program \in {"gups", "gups_v2", "reduction8", "broadcast8"} => late \subseteq missed

\* What the destructor frees under a unit, queued or running, it frees under
\* one that was still queued when tpool_wait on its queue returned, in whatever
\* program: its waits cover the rest.
ExitExplained == spoiled \subseteq missed

\* The main thread is kept by the barrier, by the condition variable it
\* destroys, or by a worker that is kept itself.
MainStuck ==
    \/ at[Main] # "out"
    \/ held
    \/ main.waiting /\ main.pe \in Wedged

\* A process ends, unless its main thread comes to wait for ever and for one of
\* those reasons: no other queue keeps the destructor (xbrtime_morello.h:159)
\* or the programs' own waits from returning.
EndsUnlessWedged == <>[](Done \/ MainStuck)

\* No task of the program waits for another.
Independent ==
    \A s \in 1 .. Len(Script[program]) :
        ToSet(Script[program][s].tasks) \cap {"barrier", "reduce"} = {}

MainBarriers ==
    Cardinality({s \in 1 .. Len(Script[program]) : Script[program][s].op = "barrier"})

\* The main thread alone gets through the barrier NPES times, and the call in
\* xbrtime_close counts: a program with more calls never gets past the last,
\* whatever its tasks do.  Most of the benchmarks have three calls and hang with
\* two PEs; matmul has four, and hangs with three as well.
OverBudgetHangs ==
    Independent /\ Num > 1 /\ MainBarriers > Num => ~Done

\* A program within that budget ends.
EndsWithinBudget ==
    Independent /\ MainBarriers <= Num ~> Done
=============================================================================
