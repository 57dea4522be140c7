# A verification development of xbrtime-simple

`xbrtime-simple` runs programs written for the xBGAS global address space on one
machine: instead of one process per processing element (PE) it starts one worker
thread per PE, gives each a queue of tasks, and lets a single main thread submit
work to them. This directory holds TLA+ modules of that runtime, the TLC
configurations that check them, and proofs for the TLA+ proof system.

Line numbers refer to `src/runtime/xbrtime_morello.h` unless another file is named.

## The system

| Component | State | Operations | Where it is hard |
|---|---|---|---|
| Thread pool (`runtime/threadpool.h`) | per PE: list of work units, `working_cnt`, `num_threads`, `stop`, a mutex and two condition variables; a worker thread | `tpool_create`, `tpool_add_work`, `tpool_wait`, `tpool_destroy`, the worker's loop | wakeups, counters changed in two critical sections, release of memory others use |
| Barrier (1088-1130) | `counter`, `_SENSE`, `_BARRIER[]`, `barrier_cond` | `xbrtime_barrier` | generations, sense reversal, who wakes whom |
| Barrier on all PEs (1151-1155) | none of its own | `xbrtime_barrier_all` submits one barrier task per PE | a worker that waits in a task does not serve its queue |
| Life cycle (71-392) | pool pointer, barrier words, `__XBRTIME_CONFIG` and its blocks, a static flag | constructor, `xbrtime_init`, `xbrtime_close`, destructor, `xbrtime_mype`, `xbrtime_num_pes` | failing allocations, repeated calls, freed pointers that are kept |
| Allocator (`runtime/xbMrtime-alloc.h`) | the heap | `xbrtime_malloc`, `xbrtime_free` | what `xbrtime_close` believes of it |
| Reduction (953-1080) | dest array, task arguments on the stack, partial sums | `xbrtime_int_reduce_sum`, `xbrtime_longlong_reduce_sum` | tasks that outlive the call, division of the elements, in-place use |
| Broadcast (839-944) | dest, task arguments on the heap | `xbrtime_int_broadcast`, `xbrtime_longlong_broadcast` | late tasks, the root |
| Mutex reduction, tree broadcast (748-833) | `update_mutex`, `update_cond` | `xbrtime_reduce_sum_broadcast(_all)`, `xbrtime_int_broadcast_deprecated` | waits for itself |
| Transfers (505-743, `runtime/xbMrtime_api_asm.s`) | user memory | `xbrtime_*_get`, `xbrtime_*_put`, the copy loops | widths, strides, loops that test at the end |
| Benchmarks (`bench/`) | tables, random words | GUPS, RandomAccess, matmul, gather, reduction and broadcast drivers | resources freed while tasks are queued, calls of the barrier, table indices |
| Archived pool (`archived/oneQueueVersion/threadpool.h`) | one list for all workers, the same counters | as above | workers compete for the list and for its wakeups |
| Archived runtimes (`archived/`) | configuration, `barrier_counter`, a static sense or slots | constructor, init, close, barrier, destructor | parity of generations, a mutex held while spinning |
| Archived transfers (`archived/xbMrtime_api.c`) | user memory | get and put of 23 types, blocking and not | which loop runs for which type, the size of a step |

Interaction. The constructor creates the pool before `main`. The main thread
calls the runtime; collectives and `xbrtime_barrier_all` add tasks to the queues
(`threads[i].thread_queue`), the workers take and run them, and a task may itself
call the barrier. `tpool_wait` is the only way back from the workers to the
caller. The destructor calls `tpool_wait` on every queue, frees queue 0 and the array
of queues, and the process ends with its workers wherever they are.
There is no retry, no timeout, no message that can be lost and nothing persistent.

The build modelled is the one the headers select: `EXPERIMENTAL_A` and
`EXPERIMENTAL_B` are defined (32-33), so `xbrtime_init` is the version at 288 and
`xbrtime_barrier` the one at 1088.

`src/archived` is no part of the build; it is modelled because it holds two other
designs of the same components. `src/security` (stand-alone experiments with CHERI
traps) and `src/bench/openshmem` (programs for another library) are not modelled.
`PROJECT.json` lists every component with its status.

## The modules

```
TaskService <-- ThreadPool ----+------> ForkJoin --> Reduce, Broadcast
                               |
SharedService <-- OneQueue     +--+
                                  +---> Programs
                               +--+
                  Barrier -----+------> Runtime

                  Archived     Transfer     RandomAccess
```

PEs, which is not drawn, holds the number of PEs and is extended by Barrier, ForkJoin
and Programs.

An arrow to the left is a refinement (the abstract service on the left), an arrow
to the right a module that instantiates or extends another. Each checked module is
extended by an `MC` module that TLC runs; `...Proofs` modules hold theorems.
Definitions named `Bug_...` are plausible slips kept next to the definition they
would replace; no specification uses them. They serve to show that each property
fails when the code is wrong.

**ThreadPool** - the pool after `tpool_create` returned. Each critical section of
`work_mutex` is one action, and the task, which runs outside it, another: `Sleep`,
`Exit`, `Take`, `Complete`, `Finish` are the worker's, `AddWork`, `RefuseWork`,
`WaitCall`, `WaitBlock`, `WaitReturn` and `Destroy` the callers'. A condition
variable is the set of threads asleep on it: a broadcast empties it, a signal wakes
one member, any one of them, and any sleeper may wake spuriously. A worker that
`pthread_create` failed to start is in state `none` from the beginning. A caller
does not use a queue after `tpool_destroy` and destroys it only while no other call
on it is in progress: anything else is a misuse of a freed object. `tpool_destroy`
frees the units and leaves `work_head` alone, so the list stays in `queue`. History
variables record what was accepted, started, finished and refused.

**TaskService**, **SharedService** - the abstract services: pending tasks, running
tasks, a shut flag, the finished tasks and who waits; no locks, threads or wakeups.
A wait may end at any moment at which nothing runs: the code promises no more.

**OneQueue** - the archived pool, in the same style: `Num` workers, one list, one
`working_cnt`. Its `num_threads` does count the workers of its queue, so its
`tpool_destroy` ends.

**Barrier** - `counter`, `sense` and the twenty slot words. The mutex is held from
the arrival to the return or to `pthread_cond_wait`, so an arrival is one action
with three outcomes (`ArriveAndWait`, `ArriveAndPass`, `ArriveLast`) and a woken
thread re-evaluates the condition in `Recheck`. `_ID` is the ID of thread 0 in
every thread, so everyone reads slot 0.

**Programs** - ThreadPool and Barrier composed on the same worker threads: a worker
inside the barrier is still running its task. The main thread follows the script of
one of ten programs: the seven benchmarks that use this runtime, one of them without
a table, and callers of the two collectives that nobody calls. A script is
the sequence of the program's calls that matter to the pool, the barrier and what
it frees, ended by the destructor: its waits, what it frees (`Release`) and the end of
the process. Data are left out; an access to freed memory is recorded, in `late` for
what the program and `xbrtime_close` free and in `spoiled` for what the destructor
does, and has no further effect. `xbrtime_close` destroys `barrier_cond`, which is
undefined while threads sleep on it: it may then never return (`held`). The tasks of
`xbrtime_reduce_sum_broadcast` go through its loop turn by turn (`RunReduce`), with
`updates_received`, the wait on `update_cond`, its signals and spurious wakeups.
Not recorded: an idle worker 0 sleeps on the condition variable of the queue that the
destructor frees, in every process.

**Runtime** - the life of one process. Pointers are `null`, `live` or `dangling`;
each allocation may fail at its place; the calls come in any order and any
number. A step that uses a null or dangling pointer records it in `faults` and
its further effect is not followed. The barrier is an instance of Barrier with the
main thread alone. The branch for more than 1024 PEs is unreachable because the
constructor admits at most 16, and is left out. When the destructor is reached
here the queues are idle; queues with work left are in Programs.

**ForkJoin** - what the pool's collectives share: one task per PE is added in turn,
then `tpool_wait` is called on each queue in turn. `missed` remembers the PEs whose
task was still queued when the wait on their queue returned.

**Reduce** - the two sum reductions. A task adds one element per step and stores
its sum; the caller reads the cells one per step and fills dest one cell per step,
so that late tasks interleave with it. Sums are unbounded integers (the overflow of
`int` is left out), and the element type is the only difference between the two
versions. `inPlace`, chosen by the caller, makes dest and src one array. A task that
runs after the return finds its arguments gone and may spoil any cell.

**Broadcast** - the two broadcasts on the pool and the caller's part of the tree
broadcast. The `int` version copies in every task, the `long long` version only if
`root_pe` is `xbrtime_mype()`, which is 0 everywhere. The tree's caller loads its
buffer if it is the root (`TreeLoad`), puts in the stages it is active in, each time
from the buffer to the buffer (`TreeStage`), and copies the buffer to dest
(`TreeReturn`). A failing `malloc` of the
arguments crashes the caller at once and is left out.

**Transfer** - every get and put of the runtime and of the archived API with the
copy loops, one call a behaviour. A function is a row of sizes: what a turn moves,
what the step's expression counts, what the type has, which loop runs. The wrapper's
tests and the loops are actions; parameters are cut to `WORD`, registers to `REG`,
and a 32-bit parameter in a 64-bit register may keep its upper half. Fences are left
out.

**RandomAccess** - the arithmetic of the RandomAccess and GUPS programs. A word is
the set of its bits, that is, a polynomial over GF(2); `starts` is the loop of the
code over the bits of n. The updates of the pool's and the flat program and the
bounds check of GUPS follow. `Power` is the sequence itself, one step at a time. That it
repeats after `PERIOD` words, which the code relies on, is `PeriodAssumption`: TLC
evaluates it for the run's word, and it is true of the code's 64 bits and
1317624576693539401.

**Archived** - the three earlier runtimes: how the thread table comes about, what
`xbrtime_init` and `xbrtime_close` leave behind when an allocation fails, the
destructors, and the barriers: a mere fence, one with a static sense, one that spins
with its mutex held. A null or freed pointer that is used stops the process. The
thread that spins computes the value it waits for on entry (`awaits`) and reads the
slot again and again (`Oct22Spin`). `xbrtime_morello_20231018.h` defines
`xbrtime_barrier` twice, at 575 and at 596, and does not compile as it stands; the
model has the first definition, the second is a fence.

## The runs

| Run | Instance | What it shows |
|---|---|---|
| `pool` | 1 PE, 2 callers, 2 units; fair | type invariant, exact counters, no lost wakeup, the refinement of TaskService (which has the order of service and what a wait covers); accepted work runs, `tpool_wait` returns, and `tpool_destroy` returns and frees the queue only after its worker left. Two units are needed for an order, two callers for a race on a queue; queues of different PEs share nothing, and one PE is the only pool whose `tpool_destroy` ends. `WaitReturns` excepts two callers that wait together: one of them can sleep on. |
| `one_queue` | 3 workers, 1 caller, 3 units; fair | the same promises with workers that compete: three, so that two can be awake for one unit while the third runs one; `tpool_destroy` returns; the refinement of SharedService |
| `programs` | 3 PEs, loops of 1 turn, 1 refused task; fair | which programs end and what keeps the others; which tasks outlive the memory they use, that which the destructor frees included; how many threads the barrier keeps below a program. With three PEs some programs are within the barrier's budget and some beyond it, and the main thread and three tasks are the four threads that can lap each other in the barrier. RandomAccess, which adds the most tasks, is checked without refusals. A script has at most 12 steps (`MaxSteps`). |
| `runtime` | 2 of 3 PEs, 2 blocks, 4 barrier calls | every order of calls and failures of the life cycle; two PEs, so that `xbrtime_close` can hang in its barrier |
| `reduce` | 2 PEs; 1, 2 and 5 elements, distinct powers of two; dest apart from src and dest = src | which values the result is made of, in every interleaving with late tasks: fewer elements than PEs, one each, and a remainder; and that the pool is TaskService below a collective, too |
| `broadcast` | pool forms on 2 PEs, every root; the tree for 1 to 16 PEs | ownership of the arguments, what dest holds afterwards and why, whom the tree's caller puts to. 16 is the most the constructor admits. |
| `transfer` | 7-bit parameters in 9-bit registers; counts 0-3, 2^7 and 2^7+2; strides -16, -1 to 2 and 65 | what each function copies, which calls lose data, which leave the caller's arrays. The two large counts are cut to 0 and to 2, the outer strides give steps that are cut or run backwards. |
| `random_access` | 6-bit words (period 31), starts from 0 to 93, 1 to 6 PEs | `starts` against single steps over three periods, the indices of the update loops, the targets, the bounds check. The period must be less than a signed word holds, as the code's is; 31 is the longest such period at 6 bits. |
| `archived` | up to 2 PEs, 3 barrier calls a thread, 2 inits | whom the "oct18" barrier lets go, and that "oct22" is initialised once. Three calls, so that a waiter of the "oct18" barrier can be overtaken by a further generation. |
| `wait_early` | 2 PEs, 1 caller, 1 unit | a counterexample: `tpool_wait` returns while accepted work is queued |
| `destroy_hangs` | 2 PEs, 1 caller, 1 unit; fair | a counterexample: `tpool_destroy` waits for ever |
| `barrier` | 2 PEs, 3 threads, 2 calls each; fair | a counterexample: nobody waits in a first generation, and the waiters of a second are not released |

Deadlock checking is off where the system may rightly stop: all work done, the
process ended, or a thread asleep for ever because of what is said below.

### Where the code and its comments disagree

Three runs are expected to end in a counterexample, and `PROJECT.json` has them as
findings:

- `wait_early`, against threadpool.h:49, "Blocks until all work has been completed":
  `tpool_wait` looks at `working_cnt`, which is 0 until the worker takes the unit
  (421). The collectives can return, and GUPS can free its table, before their tasks
  ran; `StrayWasMissed`, `LateWasMissed` and `ExitExplained` say that the tasks that
  outlive a call, a table or the pool are exactly those `tpool_wait` found still queued.
- `destroy_hangs`, against threadpool.h:359, "Wait for the processing threads to
  finish", and 73, "number of threads alive": each queue has one worker and counts
  `Num` of them (229), so that `num_threads` never falls to 0 with two or more PEs.
  Theorem `DestroyHangs` has it for every number of them.
- `barrier`, against 1100-1102, "If not all threads have reached the barrier" / "Wait
  until the last thread signals the conditional variable" (`WaitsForAll`), and
  1108-1109, "effectively releasing all waiting threads", and 1123, "Signal all waiting
  threads" (`ReleasesAll`). The property, `KeepsAPromise`, says that one of the two
  promises is kept, and neither is: the slots start with the value the waiters wait
  for, and later the sense is flipped together with the slots, so that who waits is
  woken and sleeps again. Theorems `FirstGeneration` and `WaitersNeverLeave` say so for
  every number of threads, and `StuckCount` how many are kept.

Others are settled by a theorem, or named as an exception in the property that says
what the code does instead:

- 757, "If master thread, wait until updates from all threads are received", and 761,
  "Now, broadcast dest to other threads": the updates `xbrtime_reduce_sum_broadcast`
  waits for in the first turn of its loop are made by later turns of the same loop, so
  it broadcasts nothing with two or more PEs (theorem `ReductionsHang`).
- 925, "Each thread will copy the value from src to dest for the root PE": with a root
  other than 0 the `long long` broadcast copies nothing, because `xbrtime_mype` is 0 in
  every thread. It is the exception in `TargetExplained`; so is the tree, whose caller
  copies memory nobody has written unless it is the root.
- 1008, "aggregate results from all tasks": with fewer elements than PEs the reduction
  returns some multiple of the sum (second part of `SumExplained`).
- 187, on what `xbrtime_init` returns: it returns 0 with a freed configuration after
  `xbrtime_close`, and no later call brings a usable one back (`SuccessExplained`,
  `NoWayBack`).
- archived/xbrtime_morello_20231022.h:690, "effectively releasing all waiting threads",
  and 699, "Reset the counter for the next barrier call": the barrier gets through one
  generation, and there is no next one (theorem `OneGeneration`). 685, "Threads that
  arrive early will be stuck here until the last one arrives": the last one cannot
  arrive, because it needs the mutex (theorem `SpinnerBlocks`).
- bench/gups/SHMEMRandomAccess.c:226, "Forces updates to remote PE only": the division
  makes the own PE, 0, of itself again, or names PE 1 where there is only PE 0
  (`Target`). The loop of bench/SHMEMRandomAccess.c, under the same comment, takes the
  remainder and keeps it (`RemoteForced`).

What else a reader may not expect:

- `OneSurvivor`, `EndsUnlessWedged`: a worker held in a barrier task no longer
  serves its queue; after two generations at most one PE is left, and nothing else
  keeps a program from ending.
- `OverBudgetHangs`, `EndsWithinBudget`: the main thread alone gets through the
  barrier `NPES` times, and `xbrtime_close` calls it too. Most benchmarks make three
  such calls and hang with two PEs, matmul makes four and hangs with three as well.
- `LossExplained`: five types move a part of each element only, `int` without blocking
  steps by half an element, `char` get does nothing for contiguous data, and the
  runtime's `long long` put stores nothing. Every other call copies what it was asked
  for, unless its count or its step was cut to the width of a parameter.
- `OutsideExplained`, `RefusesRemainder`: where the table indices go and which of them
  are refused.
- `LeavesAfterOddReleases`: whether a waiter of the "oct18" barrier leaves depends on the
  parity of the generations it saw. `NoWayBack22`: the "oct22" runtime is initialised
  once.

Two more have no property: a `tpool_create` that fails to initialise a later queue
forgets the earlier ones (`QueueInitFails`), and `xbrtime_close` frees none of the
shared blocks, since nothing ever records a mapping.

## Fairness

Weak fairness on each worker's step and on each caller's step inside a call: the
operating system schedules every thread, mutexes are held for a bounded time,
tasks end. Nothing is assumed of spurious wakeups, nor that a caller of the pool
ever calls again. Barrier assumes that a thread that was woken goes on, and nothing
that a thread calls it. Programs assumes in addition that the main thread goes on with its
script. The other modules are checked for safety only. No strong fairness is used:
whether a thread gets a mutex is not modelled as a competition, the critical
sections being atomic.

## The proofs

For every value of the constants; all of it rests on the named assumptions of the
modules (`Num` a natural number or in 1..16, `None` no unit and no PE, the bounds
natural numbers) and on nothing else.

*ThreadPoolProofs*. `PoolInvariant` is the inductive invariant: `TypeOK`,
`AliveCountsPool`, `WorkingCountsBusy`, `NoLostWakeup`, `UnitHeld` (a worker holds a
unit exactly while it runs it), `DestroyStops` (a caller inside `tpool_destroy` has
set `stop`) and `FreedAtZero`. Type correctness alone is not inductive: the
decrements of `working_cnt` and `num_threads` stay in Nat only because the counters
are tied to where the worker is. From it: `TypeCorrect`, `WorkingCountExact`,
`AliveCounted`, `WakeupsNotLost`, `FreedQueueHasNoWorker`, `DestroyHangs` (with two or
more PEs no queue is ever freed);
`ServedInOrder` by a step lemma per action that touches the list; the action
properties `StopIsFinal` and `WaitDrainsRunning`; `OneCallerHasWaker` (one caller: a
blocked one is always owed a wakeup); `Refinement` (TaskService).

*BarrierProofs*. `BarrierInvariant`: slots follow the sense from the first release
on, nobody is inside before it. From it `SlotsEqualSense`, `FirstGeneration`,
`WaitersNeverLeave`, `ArrivalsCounted`. `StuckCounted` is a second induction, over
the set of threads inside, which is finite although `Threads` need not be.

*CollectiveProofs*. A collective's step is a step of the pool or leaves it alone
(`PoolStepIsNext`), which gives `PoolServed` (`PoolServes`), so
the pool's invariant carries over; `ForkInv` adds where each PE's task is (not
accepted, queued, running, done) and that a wait that returned saw it done, or not
accepted, or missed it. `StrayMissed` and `LossMissed`: whatever a reduction loses, and
whatever outlives it, was missed by the wait or never accepted. `ResultExplained` and
`FewElementsExplained` say which values the result is made of (`GatherExplained` and
`SmallExplained`, together `SumExplained`): `CellsInv` ties each cell to the sum of the
elements its task has read, and the sums themselves are taken apart by an induction over
finite sets that the library's well-founded induction does not allow and that is
therefore carried out on sets of counterexamples. `ArgumentsOwned` and `DestExplained` are `ArgsOwned` and
`TargetExplained` of the broadcasts: whatever dest holds goes back to which tasks had
run, and `ForkInv` says which those are. `TreeChildren` is `TreeReachesChildren` for every
number of PEs and every root: every number has exactly one lowest bit (`HasLowestBit`,
`LowestBit`), so a place has one parent (`ParentIs`); the stages are the powers of two
below the number of PEs (`CeilLogFacts`); `TreeInv` says that the partners so far are
those of the stages so far, and `PlaceFacts` that a place that wraps around the end is
never above the caller's.

*ProgramsProofs*. Every step of a program is a step of the pool, of the barrier, of
both, or leaves them alone (`ComponentsKept`, `ServiceKept`), so the invariants of
ThreadPoolProofs and BarrierProofs are used through instances and not proved again.
`ProgramInvariant` adds where the main thread is in its script, that what it added are
the script's units, and that a worker inside the barrier is in a barrier task.
From it `BarrierHolds`, `StuckCounts` (`StuckCount`), `OneServes` (`OneSurvivor`),
`LateMissed` (`LateWasMissed`, from the order of the script: a unit accepted before a
wait is finished, or was missed, or is left behind), `ExitMissed` (`ExitExplained`: every
script ends with the destructor, `ExitFacts` and `LastWait`, so that when it frees the
queues every unit added so far is finished or missed, `KnownBehind`) and `OverBudget`
(`OverBudgetHangs`, by counting the main thread's own arrivals). `ReductionsHang` rests on
`ReduceInv`: a worker in the reduction's loop has counted one update and sleeps, or was
woken and will find the same count, because nobody else adds to it. What is
assumed of the script's constants is in `MainAssumption` and `NoneAssumption`: the main
thread is no PE, and `None` is nothing else.

*RuntimeProofs*. `ConfigInvariant`: the configuration pointer, the static flag of
`xbrtime_init` and the condition variable move together. From it `LiveComplete`,
`SuccessMeans`, `FreedForGood`, `MisusesListed`.

*TransferProofs*. The two addresses of a copy loop are equal as offsets at all times:
`SpecIInv`, `SpecTypeOK`, `SpecNoMisplacedByte`. `SpecStrayExplained` and
`SpecLossExplained` hold for every count, every stride of either sign and every width:
`Pace` relates the address to the turns done as a signed distance from the start
(registers wrap, distances do not), `March` says which elements the turns so far have
reached and that all of them were inside, `Still` is the loop that stays on one
element, and `Called` keeps what the wrapper passed on. Assumed: two arrays that do not
overlap fit into the address space (`2 * MaxArray <= REG`) and a register holds a sum
of two parameters (`2 * WORD <= REG`). The proof attempt showed that `LossExplained` had
been true only within the bounds of its run: a step cut to 32 bits loses data too,
which is now part of the property (`Cut`), and the run has strides at which it happens.

*ArchivedProofs*, first part: OneQueue. The same as for ThreadPool, for the shared list,
with cardinalities in the place of flags: `working_cnt` is the number of busy workers,
`num_threads` that of those that have not left. Units are started once because the
history is free of repetition. `OneQueueInvariant` and from it `OneQueueTypes`,
`OneQueueCounts`, `OneQueueWakeups`, `OneQueueOrder`, `OneQueueRunsOnce`,
`OneQueueFreed`, `OneQueueWaitDrains`, and the refinement `OneQueueRefines`
(SharedService). Second part: Archived (whose names carry the word Archived, since both
are extended by one module). `ArchivedInvariant` ties the sense of "oct18" to the parity
of its generations and the mutex of "oct22" to who spins, on a slot that differs from
the value waited for; from it `ArchivedTypes`,
`SenseIsParity`, `SleepersHeld`, `OneGeneration`, `SpinnerAlone`, `OddReleases`,
`SpinnerBlocks`, `LiveTables`; `InitialisedOnce` needs no invariant.

*RandomAccessProofs*. `SpecSequenceCorrect`: for every width of a word and every start,
the square-and-multiply loop of `starts` returns what that many single steps give. A word
is a polynomial over GF(2), so a step is a shift and one XOR (`StepXor`), squaring adds
(`SquareXor`) and commutes with a step on one side and two on the other (`SquareStep`);
hence the square of the m-th word is the 2m-th (`SquarePower`), once the word
2W steps lead to is found to be the square of `POLY`. `PowerPeriod` and
`PowerFold` are the reduction of n. Then the indices: `MaskBounds` (a mask bounds what it
cuts), `IndexFacts`, `TargetFacts`, and the invariant `AccessInv`, from which `SpecOutsideExplained`, `SpecRemoteForced` and
`SpecRefusesRemainder` follow. Two things had to be found first. The prover knows nothing
of `2 ^ k`: the library's theorem on the number of subsets says that it is the number of
subsets of `1 .. k`, from which doubling follows (`PowersOfTwo`). And a recursive function
is an unspecified choice until it is shown to have a solution: `Recursion` finds one by
an induction on sets of numbers. Assumed, as the code does: the sequence repeats after
`PERIOD`, a period below 2^(W-1) (`PeriodAssumption`), and the words of all PEs together
can be counted in a word (`SizesAssumption`).

Some of these (`AcceptedInOrder`, `AliveCountsPool`, `WaitCoversInFlight`,
`NoStartAfterStop`, `BlockedHasWaker`, `CounterCountsArrivals`, `SlotsFollowSense`,
`RunOnce`, `SenseParity`, `LiveConfigComplete`, ...) are proved and not repeated in a
run.

Every safety and every action property of a passing run is proved. Only model-checked:
all liveness (`AcceptedWorkRuns`, `WaitReturns`, `DestroyReturns`, `EndsUnlessWedged`,
`EndsWithinBudget`), which is out of the prover's reach, as is ENABLED.

## Not modelled

- The OpenSHMEM programs and the capability experiments: they do not use this runtime.
- The control of `bench/gups/SHMEMRandomAccess.c`: it calls
  `xbrtime_longlong_atomic_add`, which the repository does not define. Its arithmetic
  is in RandomAccess.
- The second of the two definitions of `xbrtime_barrier` in
  `xbrtime_morello_20231018.h` (596), a fence, and the queries of the archived runtimes,
  which only read.
- Memory ordering: every model is sequentially consistent, fences are left out. The
  unlocked reads of the barrier words and of the configuration are single steps.
- The overflow of the reductions' sums, printing, timing and argument parsing.
- What the random words of the other PEs hold in RandomAccess: only `ran[0]` is
  initialised (bench/SHMEMRandomAccess.c:284), so the model lets them be anything.

## What is left

Larger instances: Programs with loops of two turns, Reduce on three PEs.
