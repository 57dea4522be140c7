-------------------------- MODULE ThreadPoolProofs --------------------------
(***************************************************************************)
(* Proofs about ThreadPool, for every pool size, every set of callers and  *)
(* every set of work units.                                                *)
(***************************************************************************)
EXTENDS ThreadPool, TLAPS

\* The pool has at least one PE: the argument 0 is replaced by 2.
LEMMA PoolNotEmpty == NPES \in Nat /\ NPES >= 1 /\ 0 \in PE
BY NumAssumption DEF NPES, PE

\* What a call remembers of the queue is a set of units.
LEMMA InCallType ==
    ASSUME TypeOK, NEW p \in PE, NEW op \in {"wait", "destroy"}
    PROVE  InCall(op, p) \in ClientState
BY DEF TypeOK, InCall, ClientState, Range

\* The callers are in the same calls, with the same memory of them.
SameCalls ==
    /\ client' \in [Clients -> ClientState]
    /\ \A c \in Clients : /\ client'[c].op = client[c].op
                          /\ client'[c].on = client[c].on
                          /\ client'[c].at = "idle" <=> client[c].at = "idle"

\* Falling asleep and waking leave a caller in its call.
LEMMA AtSet ==
    ASSUME client \in [Clients -> ClientState],
           NEW c \in Clients, client[c].at # "idle",
           NEW at \in {"check", "blocked"}, client' = [client EXCEPT ![c].at = at]
    PROVE  SameCalls
BY DEF ClientState, SameCalls

\* So does a signal.
LEMMA Signalled ==
    ASSUME client \in [Clients -> ClientState], NEW p \in PE, SignalWorking(p)
    PROVE  SameCalls
<1>1. CASE UNCHANGED client
  BY <1>1 DEF SameCalls
<1>2. ASSUME NEW c \in Waiters(p), client' = [client EXCEPT ![c].at = "check"]
      PROVE  SameCalls
  BY <1>2, AtSet DEF Waiters
<1> QED
  BY <1>1, <1>2 DEF SignalWorking

----------------------------------------------------------------------------
(* The invariant.  CountsInRange keeps the decrements of working_cnt and   *)
(* num_threads from leaving Nat, so type correctness needs it.             *)

\* The worker holds a unit exactly while it runs it.
UnitHeld == \A p \in PE : unit[p] # None <=> worker[p] = "running"

\* A caller inside tpool_destroy set stop on its queue.
DestroyStops ==
    \A c \in Clients :
        client[c].at # "idle" /\ client[c].op = "destroy" => stop[client[c].on]

\* A queue is released only when its num_threads reached zero.
FreedAtZero == \A p \in PE : freed[p] => alive[p] = 0

PoolInv ==
    /\ TypeOK
    /\ WorkingCountsBusy
    /\ AliveCountsPool
    /\ NoLostWakeup
    /\ UnitHeld
    /\ DestroyStops
    /\ FreedAtZero

LEMMA PoolInvInit == Init => PoolInv
<1> SUFFICES ASSUME Init PROVE PoolInv
  OBVIOUS
<1>1. TypeOK
  <2>1. IdleClient \in ClientState
    BY PoolNotEmpty DEF IdleClient, ClientState
  <2>2. client \in [Clients -> ClientState]
    BY <2>1 DEF Init
  <2> QED
    BY <2>2, PoolNotEmpty DEF Init, ThreadsPerQueue, TypeOK, WorkerState
<1>2. WorkingCountsBusy /\ AliveCountsPool /\ NoLostWakeup
  BY DEF Init, ThreadsPerQueue, WorkingCountsBusy, AliveCountsPool, NoLostWakeup, Busy
<1>3. UnitHeld /\ DestroyStops /\ FreedAtZero
  BY DEF Init, UnitHeld, DestroyStops, FreedAtZero, IdleClient
<1> QED
  BY <1>1, <1>2, <1>3 DEF PoolInv

\* Each step of a worker preserves the invariant.
LEMMA WorkerPreserves ==
    ASSUME PoolInv, NEW p \in PE, WorkerStep(p) \/ SpuriousWorkerWake(p)
    PROVE  PoolInv'
<1> USE PoolNotEmpty DEF PoolInv
<1>1. CASE Sleep(p)
  BY <1>1 DEF Sleep, poolVars, history, TypeOK, WorkerState, WorkingCountsBusy,
    AliveCountsPool, NoLostWakeup, UnitHeld, DestroyStops, FreedAtZero, Busy
<1>2. CASE Exit(p)
  <2>1. SameCalls
    <3>1. CASE UNCHANGED client
      BY <3>1 DEF TypeOK, SameCalls
    <3> QED
      BY <1>2, <3>1, Signalled DEF Exit, TypeOK
  <2>2. TypeOK'
    <3>1. alive[p] = NPES /\ NPES - 1 \in Nat
      BY <1>2 DEF Exit, AliveCountsPool
    <3>2. alive' \in [PE -> Nat] /\ worker' \in [PE -> WorkerState]
      BY <1>2, <3>1 DEF Exit, TypeOK, WorkerState
    <3> QED
      BY <1>2, <2>1, <3>2 DEF Exit, history, TypeOK, SameCalls
  <2>3. (WorkingCountsBusy /\ AliveCountsPool /\ NoLostWakeup)'
    BY <1>2, NumAssumption DEF Exit, history, TypeOK, WorkingCountsBusy, AliveCountsPool,
      NoLostWakeup, Busy, NPES
  <2>4. (UnitHeld /\ FreedAtZero)'
    <3>1. UnitHeld'
      BY <1>2 DEF Exit, TypeOK, UnitHeld
    <3>2. ~freed[p]
      BY <1>2 DEF Exit, FreedAtZero, AliveCountsPool
    <3> QED
      BY <1>2, <3>1, <3>2 DEF Exit, TypeOK, FreedAtZero
  <2>5. DestroyStops'
    BY <1>2, <2>1 DEF Exit, DestroyStops, SameCalls
  <2> QED
    BY <2>2, <2>3, <2>4, <2>5
<1>3. CASE Take(p)
  <2>1. Head(queue[p]) \in Units /\ Tail(queue[p]) \in Seq(Units)
    BY <1>3 DEF Take, MayTake, TypeOK
  <2>2. TypeOK'
    <3>1. /\ queue' \in [PE -> Seq(Units)] /\ started' \in [PE -> Seq(Units)]
          /\ unit' \in [PE -> Units \cup {None}]
      BY <1>3, <2>1 DEF Take, TypeOK
    <3>2. working' \in [PE -> Nat] /\ worker' \in [PE -> WorkerState]
      BY <1>3 DEF Take, TypeOK, WorkerState
    <3> QED
      BY <1>3, <3>1, <3>2 DEF Take, TypeOK
  <2>3. (WorkingCountsBusy /\ AliveCountsPool /\ NoLostWakeup)'
    <3>1. WorkingCountsBusy'
      <4>1. working \in [PE -> Nat] /\ worker \in [PE -> WorkerState]
        BY DEF TypeOK
      <4>2. /\ working' = [working EXCEPT ![p] = working[p] + 1]
            /\ worker' = [worker EXCEPT ![p] = "running"]
            /\ worker[p] = "fetch"
        BY <1>3 DEF Take
      <4> QED
        BY <4>1, <4>2 DEF WorkingCountsBusy, Busy
    <3>2. AliveCountsPool'
      BY <1>3 DEF Take, MayTake, TypeOK, AliveCountsPool
    <3>3. NoLostWakeup'
      BY <1>3 DEF Take, MayTake, TypeOK, NoLostWakeup
    <3> QED
      BY <3>1, <3>2, <3>3
  <2>4. (UnitHeld /\ DestroyStops /\ FreedAtZero)'
    BY <1>3, <2>1, NoneAssumption DEF Take, MayTake, TypeOK, UnitHeld, DestroyStops, FreedAtZero
  <2> QED
    BY <2>2, <2>3, <2>4
<1>4. CASE Complete(p)
  <2>1. unit[p] \in Units
    BY <1>4 DEF Complete, TypeOK, UnitHeld
  <2>2. TypeOK'
    BY <1>4, <2>1 DEF Complete, poolVars, TypeOK, WorkerState
  <2>3. (WorkingCountsBusy /\ AliveCountsPool /\ NoLostWakeup)'
    BY <1>4 DEF Complete, poolVars, TypeOK, WorkingCountsBusy, AliveCountsPool,
      NoLostWakeup, Busy
  <2>4. (UnitHeld /\ DestroyStops /\ FreedAtZero)'
    BY <1>4 DEF Complete, poolVars, TypeOK, UnitHeld, DestroyStops, FreedAtZero
  <2> QED
    BY <2>2, <2>3, <2>4
<1>5. CASE Finish(p)
  <2>1. SameCalls
    <3>1. CASE UNCHANGED client
      BY <3>1 DEF TypeOK, SameCalls
    <3> QED
      BY <1>5, <3>1, Signalled DEF Finish, TypeOK
  <2>2. TypeOK'
    BY <1>5, <2>1 DEF Finish, history, TypeOK, WorkerState, WorkingCountsBusy, Busy, SameCalls
  <2>3. (WorkingCountsBusy /\ AliveCountsPool /\ NoLostWakeup)'
    BY <1>5 DEF Finish, history, TypeOK, WorkingCountsBusy, AliveCountsPool,
      NoLostWakeup, Busy
  <2>4. (UnitHeld /\ FreedAtZero)'
    BY <1>5 DEF Finish, history, TypeOK, UnitHeld, FreedAtZero
  <2>5. DestroyStops'
    BY <1>5, <2>1 DEF Finish, DestroyStops, SameCalls
  <2> QED
    BY <2>2, <2>3, <2>4, <2>5
<1>6. CASE SpuriousWorkerWake(p)
  BY <1>6 DEF SpuriousWorkerWake, poolVars, history, TypeOK, WorkerState, WorkingCountsBusy,
    AliveCountsPool, NoLostWakeup, UnitHeld, DestroyStops, FreedAtZero, Busy
<1> QED
  BY <1>1, <1>2, <1>3, <1>4, <1>5, <1>6 DEF WorkerStep

\* Each step of a caller preserves the invariant.
LEMMA ClientPreserves ==
    ASSUME PoolInv, NEW c \in Clients,
           ClientCall(c) \/ ClientCheck(c) \/ SpuriousClientWake(c)
    PROVE  PoolInv'
<1> USE PoolNotEmpty DEF PoolInv
<1>1. ASSUME NEW p \in PE, NEW u \in Units, AddWork(c, p, u)
      PROVE  PoolInv'
  <2>1. TypeOK'
    BY <1>1 DEF AddWork, Enqueued, Roused, TypeOK, WorkerState
  <2>2. (WorkingCountsBusy /\ AliveCountsPool /\ NoLostWakeup)'
    BY <1>1 DEF AddWork, Enqueued, Roused, TypeOK, WorkingCountsBusy, AliveCountsPool,
      NoLostWakeup, Busy
  <2>3. (UnitHeld /\ DestroyStops /\ FreedAtZero)'
    BY <1>1 DEF AddWork, Enqueued, Roused, TypeOK, UnitHeld, DestroyStops, FreedAtZero
  <2> QED
    BY <2>1, <2>2, <2>3
<1>2. ASSUME NEW p \in PE, NEW u \in Units, RefuseWork(c, p, u)
      PROVE  PoolInv'
  BY <1>2 DEF RefuseWork, poolVars, TypeOK, WorkingCountsBusy, AliveCountsPool,
    NoLostWakeup, Busy, UnitHeld, DestroyStops, FreedAtZero
<1>3. ASSUME NEW p \in PE, WaitCall(c, p)
      PROVE  PoolInv'
  <2>1. TypeOK'
    BY <1>3, InCallType DEF WaitCall, poolVars, history, TypeOK
  <2>2. DestroyStops'
    BY <1>3 DEF WaitCall, poolVars, TypeOK, DestroyStops, InCall
  <2> QED
    BY <1>3, <2>1, <2>2 DEF WaitCall, poolVars, WorkingCountsBusy, AliveCountsPool,
      NoLostWakeup, Busy, UnitHeld, FreedAtZero
<1>4. ASSUME NEW p \in PE, Destroy(c, p)
      PROVE  PoolInv'
  <2>1. TypeOK'
    BY <1>4, InCallType DEF Destroy, Roused, history, TypeOK, WorkerState
  <2>2. DestroyStops'
    BY <1>4 DEF Destroy, TypeOK, DestroyStops, InCall
  <2>3. (WorkingCountsBusy /\ AliveCountsPool /\ NoLostWakeup)'
    BY <1>4 DEF Destroy, Roused, TypeOK, WorkingCountsBusy, AliveCountsPool,
      NoLostWakeup, Busy
  <2>4. (UnitHeld /\ FreedAtZero)'
    BY <1>4 DEF Destroy, Roused, TypeOK, UnitHeld, FreedAtZero
  <2> QED
    BY <2>1, <2>2, <2>3, <2>4
<1>5. CASE WaitBlock(c)
  <2>1. SameCalls
    BY <1>5, AtSet DEF WaitBlock, TypeOK
  <2>2. TypeOK'
    BY <1>5, <2>1 DEF WaitBlock, poolVars, history, TypeOK, SameCalls
  <2>3. DestroyStops'
    BY <1>5, <2>1 DEF WaitBlock, poolVars, DestroyStops, SameCalls
  <2> QED
    BY <1>5, <2>2, <2>3 DEF WaitBlock, poolVars, WorkingCountsBusy, AliveCountsPool,
      NoLostWakeup, Busy, UnitHeld, FreedAtZero
<1>6. CASE WaitReturn(c)
  <2>1. client[c] \in ClientState /\ client[c].on \in PE
    BY DEF TypeOK, ClientState
  <2>2. TypeOK'
    <3>1. IdleClient \in ClientState
      BY DEF IdleClient, ClientState
    <3>2. freed' \in [PE -> BOOLEAN]
      BY <1>6, <2>1 DEF WaitReturn, TypeOK
    <3> QED
      BY <1>6, <3>1, <3>2 DEF WaitReturn, history, TypeOK
  <2>3. DestroyStops'
    BY <1>6 DEF WaitReturn, TypeOK, DestroyStops, IdleClient
  <2>4. FreedAtZero'
    <3>1. client[c].op = "destroy" => alive[client[c].on] = 0
      BY <1>6, <2>1 DEF WaitReturn, MustWait, DestroyStops, ClientState
    <3> QED
      BY <1>6, <2>1, <3>1 DEF WaitReturn, TypeOK, FreedAtZero, ClientState
  <2> QED
    BY <1>6, <2>2, <2>3, <2>4 DEF WaitReturn, WorkingCountsBusy, AliveCountsPool,
      NoLostWakeup, Busy, UnitHeld
<1>7. CASE SpuriousClientWake(c)
  <2>1. SameCalls
    BY <1>7, AtSet DEF SpuriousClientWake, TypeOK
  <2>2. TypeOK'
    BY <1>7, <2>1 DEF SpuriousClientWake, poolVars, history, TypeOK, SameCalls
  <2>3. DestroyStops'
    BY <1>7, <2>1 DEF SpuriousClientWake, poolVars, DestroyStops, SameCalls
  <2> QED
    BY <1>7, <2>2, <2>3 DEF SpuriousClientWake, poolVars, WorkingCountsBusy, AliveCountsPool,
      NoLostWakeup, Busy, UnitHeld, FreedAtZero
<1> QED
  BY <1>1, <1>2, <1>3, <1>4, <1>5, <1>6, <1>7 DEF ClientCall, ClientCheck

LEMMA PoolInvStep == PoolInv /\ [Next]_vars => PoolInv'
<1> SUFFICES ASSUME PoolInv, [Next]_vars PROVE PoolInv'
  OBVIOUS
<1>1. CASE UNCHANGED vars
  BY <1>1 DEF vars, poolVars, history, PoolInv, TypeOK, WorkingCountsBusy, AliveCountsPool,
    NoLostWakeup, Busy, UnitHeld, DestroyStops, FreedAtZero
<1>2. CASE Next
  BY <1>2, WorkerPreserves, ClientPreserves DEF Next
<1> QED
  BY <1>1, <1>2

\* The invariant holds in every reachable state of the pool.
THEOREM PoolInvariant == Spec => []PoolInv
BY PoolInvInit, PoolInvStep, PTL DEF Spec

\* Type correctness: in particular working_cnt and num_threads, both size_t,
\* are never decremented below zero.
THEOREM TypeCorrect == Spec => []TypeOK
BY PoolInvariant, PTL DEF PoolInv

\* working_cnt is the number of busy workers of the queue.
THEOREM WorkingCountExact == Spec => []WorkingCountsBusy
BY PoolInvariant, PTL DEF PoolInv

\* num_threads of a queue stays at the size of the pool until its only worker
\* leaves: it reaches zero in a pool of one PE alone.
THEOREM AliveCounted == Spec => []AliveCountsPool
BY PoolInvariant, PTL DEF PoolInv

\* No worker sleeps on a queue with work or on a stopped queue.
THEOREM WakeupsNotLost == Spec => []NoLostWakeup
BY PoolInvariant, PTL DEF PoolInv

\* tpool_destroy releases a queue only once its worker has left its loop.
THEOREM FreedQueueHasNoWorker == Spec => []FreedAfterExit
<1>1. PoolInv => FreedAfterExit
  BY PoolNotEmpty DEF PoolInv, FreedAtZero, AliveCountsPool, FreedAfterExit
<1> QED
  BY PoolInvariant, <1>1, PTL

\* With two or more PEs tpool_destroy releases nothing, whatever happens.
THEOREM DestroyHangs == Spec => []DestroyNeverFrees
<1>1. PoolInv => DestroyNeverFrees
  BY NumAssumption DEF PoolInv, FreedAtZero, AliveCountsPool, DestroyNeverFrees, NPES
<1> QED
  BY PoolInvariant, <1>1, PTL
----------------------------------------------------------------------------
(* Order of service *)

\* Moving the head of the right part to the end of the left part.
LEMMA MoveHead ==
    ASSUME NEW S, NEW a \in Seq(S), NEW b \in Seq(S), b # <<>>
    PROVE  Append(a, Head(b)) \o Tail(b) = a \o b
OBVIOUS

\* A queue neither loses, duplicates nor reorders the accepted work.
THEOREM ServedInOrder == Spec => []AcceptedInOrder
<1>1. Init => AcceptedInOrder
  BY DEF Init, AcceptedInOrder
<1>2. TypeOK /\ AcceptedInOrder /\ [Next]_vars => AcceptedInOrder'
  <2> SUFFICES ASSUME TypeOK, AcceptedInOrder, [Next]_vars, NEW q \in PE
               PROVE  submitted'[q] = started'[q] \o queue'[q]
    BY DEF AcceptedInOrder
  <2>1. CASE UNCHANGED <<queue, submitted, started>>
    BY <2>1 DEF AcceptedInOrder
  <2>2. ASSUME NEW p \in PE, Take(p)
        PROVE  submitted'[q] = started'[q] \o queue'[q]
    <3>1. CASE q = p
      <4>1. submitted[p] = started[p] \o queue[p]
        BY DEF AcceptedInOrder
      <4>2. Append(started[p], Head(queue[p])) \o Tail(queue[p]) = started[p] \o queue[p]
        <5>1. started[p] \in Seq(Units) /\ queue[p] \in Seq(Units) /\ queue[p] # <<>>
          BY <2>2 DEF Take, MayTake, TypeOK
        <5> QED
          BY <5>1, MoveHead, Zenon
      <4>3. /\ started'[p] = Append(started[p], Head(queue[p]))
            /\ queue'[p] = Tail(queue[p])
            /\ submitted' = submitted
        BY <2>2 DEF Take, TypeOK
      <4> QED
        BY <3>1, <4>1, <4>2, <4>3, Zenon
    <3>2. CASE q # p
      BY <2>2, <3>2 DEF Take, TypeOK, AcceptedInOrder
    <3> QED
      BY <3>1, <3>2
  <2>3. ASSUME NEW c \in Clients, NEW p \in PE, NEW u \in Units, AddWork(c, p, u)
        PROVE  submitted'[q] = started'[q] \o queue'[q]
    <3>1. CASE q = p
      <4>1. submitted[p] = started[p] \o queue[p]
        BY DEF AcceptedInOrder
      <4>2. Append(started[p] \o queue[p], u) = started[p] \o Append(queue[p], u)
        <5>1. started[p] \in Seq(Units) /\ queue[p] \in Seq(Units)
          BY DEF TypeOK
        <5>2. \A a, b \in Seq(Units) : Append(a \o b, u) = a \o Append(b, u)
          OBVIOUS
        <5> QED
          BY <5>1, <5>2, Zenon
      <4>3. /\ submitted'[p] = Append(submitted[p], u)
            /\ queue'[p] = Append(queue[p], u)
            /\ started' = started
        BY <2>3 DEF AddWork, Enqueued, TypeOK
      <4> QED
        BY <3>1, <4>1, <4>2, <4>3, Zenon
    <3>2. CASE q # p
      BY <2>3, <3>2 DEF AddWork, TypeOK, AcceptedInOrder
    <3> QED
      BY <3>1, <3>2
  <2> QED
    BY <2>1, <2>2, <2>3 DEF Next, vars, poolVars, history, WorkerStep, Sleep, Exit,
      Complete, Finish, SpuriousWorkerWake, ClientCall, ClientCheck, RefuseWork, WaitCall,
      Destroy, WaitBlock, WaitReturn, SpuriousClientWake
<1> QED
  BY <1>1, <1>2, TypeCorrect, PTL DEF Spec

\* Once tpool_destroy ran, no further task of that queue starts: the units it
\* freed and left in the list are never taken.
THEOREM StopIsFinal == Spec => NoStartAfterStop
<1>1. TypeOK /\ [Next]_vars => [\A p \in PE : stop[p] => started'[p] = started[p]]_vars
  BY DEF Next, vars, poolVars, history, TypeOK, WorkerStep, Sleep, Exit, Take, MayTake,
    Complete, Finish, SpuriousWorkerWake, ClientCall, ClientCheck, AddWork, RefuseWork,
    WaitCall, Destroy, WaitBlock, WaitReturn, SpuriousClientWake
<1> QED
  BY <1>1, TypeCorrect, PTL DEF Spec, NoStartAfterStop

----------------------------------------------------------------------------
(* What tpool_wait does guarantee *)

\* A unit that was started has finished or is the one its worker holds.
StartedInHand ==
    \A p \in PE : Range(started[p]) \subseteq finished \cup {unit[p]}

\* Of the units in flight when a call began, only the one the worker still
\* holds has not finished.
CallInHand ==
    \A c \in Clients : client[c].at # "idle" =>
        client[c].inFlight \subseteq finished \cup {unit[client[c].on]}

InHandInv == StartedInHand /\ CallInHand

\* The range of a sequence grows by the appended element.
LEMMA RangeAppend ==
    ASSUME NEW S, NEW a \in Seq(S), NEW e \in S
    PROVE  Range(Append(a, e)) \subseteq Range(a) \cup {e}
BY DEF Range

\* A caller that blocks or wakes keeps what its call remembers.
LEMMA WokenInHand ==
    ASSUME TypeOK, InHandInv, NEW c \in Clients, client[c].at # "idle",
           NEW at \in {"check", "blocked"},
           client' = [client EXCEPT ![c].at = at], UNCHANGED <<unit, history>>
    PROVE  InHandInv'
<1>1. \A d \in Clients :
        /\ client'[d].inFlight = client[d].inFlight
        /\ client'[d].on = client[d].on
        /\ client'[d].at # "idle" => client[d].at # "idle"
  BY DEF TypeOK, ClientState
<1> QED
  BY <1>1 DEF InHandInv, StartedInHand, CallInHand, history

LEMMA InHandStep == PoolInv /\ InHandInv /\ [Next]_vars => InHandInv'
<1> SUFFICES ASSUME PoolInv, InHandInv, [Next]_vars PROVE InHandInv'
  OBVIOUS
<1> USE DEF PoolInv, InHandInv
<1>1. CASE UNCHANGED <<unit, started, finished, client>>
  BY <1>1 DEF StartedInHand, CallInHand
<1>2. ASSUME NEW p \in PE, Take(p) PROVE InHandInv'
  <2>1. Head(queue[p]) \in Units /\ unit[p] = None /\ unit'[p] = Head(queue[p])
    BY <1>2 DEF Take, MayTake, TypeOK, UnitHeld
  <2>2. StartedInHand'
    <3> SUFFICES ASSUME NEW q \in PE
                 PROVE  Range(started'[q]) \subseteq finished' \cup {unit'[q]}
      BY DEF StartedInHand
    <3>1. CASE q = p
      <4>1. Range(started'[p]) \subseteq Range(started[p]) \cup {Head(queue[p])}
        BY <1>2, <2>1, RangeAppend DEF Take, MayTake, TypeOK
      <4>2. Range(started[p]) \subseteq finished
        <5>1. Range(started[p]) \subseteq Units
          BY DEF TypeOK, Range
        <5> QED
          BY <5>1, <2>1, NoneAssumption DEF StartedInHand
      <4> QED
        BY <1>2, <2>1, <3>1, <4>1, <4>2 DEF Take
    <3>2. CASE q # p
      BY <1>2, <3>2 DEF Take, MayTake, TypeOK, StartedInHand
    <3> QED
      BY <3>1, <3>2
  <2>3. CallInHand'
    BY <1>2, <2>1, NoneAssumption DEF Take, MayTake, TypeOK, ClientState, CallInHand
  <2> QED
    BY <2>2, <2>3
<1>3. ASSUME NEW p \in PE, Complete(p) PROVE InHandInv'
  BY <1>3 DEF Complete, TypeOK, ClientState, StartedInHand, CallInHand
<1>4. ASSUME NEW p \in PE, SignalWorking(p), UNCHANGED <<unit, history>>
      PROVE  InHandInv'
  <2>1. CASE UNCHANGED client
    BY <1>1, <1>4, <2>1 DEF history
  <2>2. ASSUME NEW c \in Waiters(p), client' = [client EXCEPT ![c].at = "check"]
        PROVE  InHandInv'
    BY <1>4, <2>2, WokenInHand DEF Waiters
  <2> QED
    BY <1>4, <2>1, <2>2 DEF SignalWorking
<1>5. ASSUME NEW c \in Clients, NEW p \in PE, NEW op \in {"wait", "destroy"},
             client' = [client EXCEPT ![c] = InCall(op, p)],
             UNCHANGED <<unit, history>>
      PROVE  InHandInv'
  BY <1>5 DEF history, TypeOK, InCall, StartedInHand, CallInHand
<1>6. ASSUME NEW c \in Clients, WaitBlock(c) \/ SpuriousClientWake(c)
      PROVE  InHandInv'
  BY <1>6, WokenInHand DEF WaitBlock, SpuriousClientWake
<1>7. ASSUME NEW c \in Clients, WaitReturn(c) PROVE InHandInv'
  BY <1>7 DEF WaitReturn, history, IdleClient, TypeOK, StartedInHand, CallInHand
<1>8. ASSUME NEW c \in Clients, NEW p \in PE, WaitCall(c, p) \/ Destroy(c, p)
      PROVE  InHandInv'
  BY <1>5, <1>8 DEF WaitCall, Destroy
<1>9. ASSUME NEW p \in PE, Exit(p) \/ Finish(p) PROVE InHandInv'
  BY <1>1, <1>4, <1>9 DEF Exit, Finish, history
<1> QED
  BY <1>1, <1>2, <1>3, <1>6, <1>7, <1>8, <1>9 DEF Next, vars, poolVars, history, WorkerStep,
    Sleep, SpuriousWorkerWake, ClientCall, ClientCheck, AddWork, RefuseWork

\* Only WaitReturn takes a caller out of its call.
LEMMA ReturnIsWaitReturn ==
    ASSUME TypeOK, [Next]_vars, NEW c \in Clients, Returns(c)
    PROVE  WaitReturn(c)
<1>1. ASSUME NEW d \in Clients, NEW at \in {"check", "blocked"},
             client' = [client EXCEPT ![d].at = at]
      PROVE  FALSE
  BY <1>1 DEF Returns, TypeOK, ClientState
<1>2. ~UNCHANGED client
  BY DEF Returns
<1>3. ASSUME NEW p \in PE, SignalWorking(p) PROVE FALSE
  BY <1>1, <1>2, <1>3 DEF SignalWorking, Waiters
<1>4. ASSUME NEW p \in PE, WorkerStep(p) \/ SpuriousWorkerWake(p) PROVE FALSE
  BY <1>2, <1>3, <1>4 DEF WorkerStep, Sleep, Exit, Take, Complete, Finish, SpuriousWorkerWake
<1>5. ASSUME NEW d \in Clients, ClientCall(d) PROVE FALSE
  <2>1. ASSUME NEW p \in PE, NEW op \in {"wait", "destroy"},
               client' = [client EXCEPT ![d] = InCall(op, p)]
        PROVE  FALSE
    BY <2>1 DEF Returns, TypeOK, InCall
  <2> QED
    BY <1>2, <1>5, <2>1 DEF ClientCall, AddWork, RefuseWork, WaitCall, Destroy
<1>6. ASSUME NEW d \in Clients, WaitBlock(d) \/ SpuriousClientWake(d) PROVE FALSE
  BY <1>1, <1>6 DEF WaitBlock, SpuriousClientWake
<1>7. ASSUME NEW d \in Clients, WaitReturn(d) PROVE d = c
  BY <1>7 DEF WaitReturn, Returns, TypeOK
<1> QED
  BY <1>2, <1>4, <1>5, <1>6, <1>7 DEF Next, vars, ClientCheck

\* tpool_wait (and the wait inside tpool_destroy) returns only after every task
\* that was running when it was called has finished.
THEOREM WaitDrainsRunning == Spec => WaitCoversInFlight
<1>1. Init => InHandInv
  BY PoolNotEmpty DEF Init, InHandInv, StartedInHand, CallInHand, IdleClient, Range
<1>2. PoolInv /\ InHandInv /\ [Next]_vars =>
        [\A c \in Clients : Returns(c) => client[c].inFlight \subseteq finished]_vars
  <2> SUFFICES ASSUME PoolInv, InHandInv, [Next]_vars, NEW c \in Clients, Returns(c)
               PROVE  client[c].inFlight \subseteq finished
    OBVIOUS
  <2>1. client[c] \in ClientState /\ client[c].on \in PE
    BY DEF PoolInv, TypeOK, ClientState
  <2>2. ~MustWait(client[c].on)
    BY ReturnIsWaitReturn DEF PoolInv, WaitReturn
  <2>3. unit[client[c].on] = None
    <3> DEFINE p == client[c].on
    <3>1. CASE stop[p]
      BY <2>1, <2>2, <3>1, PoolNotEmpty DEF MustWait, PoolInv, UnitHeld, AliveCountsPool
    <3>2. CASE ~stop[p]
      BY <2>1, <2>2, <3>2 DEF MustWait, PoolInv, UnitHeld, WorkingCountsBusy, Busy
    <3> QED
      BY <3>1, <3>2
  <2> QED
    BY <2>1, <2>3, NoneAssumption DEF InHandInv, CallInHand, Returns, ClientState
<1>3. PoolInv /\ InHandInv /\ [Next]_vars => InHandInv'
  BY InHandStep
<1> QED
  BY <1>1, <1>2, <1>3, PoolInvariant, PTL DEF Spec, WaitCoversInFlight

----------------------------------------------------------------------------
(* A blocked caller is always owed a wakeup *)

\* With one calling thread, as in the runtime and its benchmarks, a thread
\* blocked in tpool_wait always has a worker that is busy or about to be: no
\* deadlock between pthread_cond_wait and the single pthread_cond_signal.
THEOREM OneCallerHasWaker ==
    ASSUME \A c, d \in Clients : c = d
    PROVE  Spec => []BlockedHasWaker
<1>1. Init => BlockedHasWaker
  BY DEF Init, BlockedHasWaker, IdleClient
<1>2. PoolInv /\ BlockedHasWaker /\ [Next]_vars => BlockedHasWaker'
  <2> SUFFICES ASSUME PoolInv, PoolInv', BlockedHasWaker, [Next]_vars,
                      NEW c \in Clients, NEW q \in PE,
                      client'[c].at = "blocked", client'[c].on = q, ~stop'[q]
               PROVE  HasWaker(q)'
    BY PoolInvStep DEF BlockedHasWaker, PoolInv, TypeOK, ClientState
  <2> USE DEF PoolInv, TypeOK, HasWaker
  <2>1. client[c].at = "blocked" /\ client[c].on = q /\ ~stop[q] => HasWaker(q)
    BY DEF BlockedHasWaker
  <2>2. CASE UNCHANGED vars
    BY <2>1, <2>2 DEF vars, poolVars, Busy
  <2>3. ASSUME NEW p \in PE, Sleep(p) \/ Take(p) \/ Complete(p) \/ SpuriousWorkerWake(p)
        PROVE  HasWaker(q)'
    BY <2>1, <2>3 DEF Sleep, Take, Complete, SpuriousWorkerWake, poolVars, Busy
  <2>4. ASSUME NEW p \in PE, SignalWorking(p)
        PROVE  client' = client /\ ~(client[c].at = "blocked" /\ client[c].on = p)
    <3>1. client \in [Clients -> ClientState] /\ \A d \in Clients : d = c
      OBVIOUS
    <3>2. ASSUME NEW d \in Waiters(p), client' = [client EXCEPT ![d].at = "check"]
          PROVE  FALSE
      <4>1. d = c /\ client'[c].at = "check"
        BY <3>1, <3>2 DEF Waiters, ClientState
      <4> QED
        BY <4>1
    <3> QED
      BY <2>4, <3>2 DEF SignalWorking, Waiters
  <2>5. ASSUME NEW p \in PE, Exit(p) PROVE HasWaker(q)'
    <3>1. client' = client
      BY <2>4, <2>5 DEF Exit
    <3> QED
      BY <2>1, <2>5, <3>1 DEF Exit, Busy
  <2>6. ASSUME NEW p \in PE, Finish(p) PROVE HasWaker(q)'
    <3>1. client' = client
      BY <2>4, <2>6 DEF Finish
    <3>2. CASE q # p
      BY <2>1, <2>6, <3>1, <3>2 DEF Finish, Busy
    <3>3. CASE q = p
      <4>1. working'[p] = 0 /\ ~stop[p]
        BY <2>6, <3>3 DEF Finish, WorkingCountsBusy, Busy
      <4>2. queue[p] # <<>>
        BY <2>4, <2>6, <3>1, <3>3, <4>1 DEF Finish
      <4> QED
        BY <2>6, <3>3, <4>2 DEF Finish
    <3> QED
      BY <3>2, <3>3
  <2>7. ASSUME NEW d \in Clients, ClientCall(d) PROVE HasWaker(q)'
    <3>1. d = c /\ client[c].at = "idle"
      BY <2>7 DEF ClientCall, AddWork, RefuseWork, WaitCall, Destroy, MayCall
    <3>2. client'[c].at # "blocked"
      <4>1. ASSUME NEW p \in PE, NEW op \in {"wait", "destroy"},
                   client' = [client EXCEPT ![d] = InCall(op, p)]
            PROVE  client'[c].at # "blocked"
        BY <3>1, <4>1 DEF InCall
      <4> QED
        BY <2>7, <3>1, <4>1 DEF ClientCall, AddWork, RefuseWork, WaitCall, Destroy
    <3> QED
      BY <3>2
  <2>8. ASSUME NEW d \in Clients, WaitBlock(d) PROVE HasWaker(q)'
    <3>1. d = c
      OBVIOUS
    <3>2. client[c].on = q
      BY <2>8, <3>1 DEF WaitBlock, ClientState
    <3>3. Busy(q)
      BY <2>8, <3>1, <3>2 DEF WaitBlock, MustWait, poolVars, WorkingCountsBusy
    <3> QED
      BY <2>8, <3>3 DEF WaitBlock, poolVars, Busy
  <2>9. ASSUME NEW d \in Clients, WaitReturn(d) \/ SpuriousClientWake(d)
        PROVE  HasWaker(q)'
    <3>1. d = c
      OBVIOUS
    <3>2. client'[c].at # "blocked"
      <4>1. CASE WaitReturn(d)
        BY <3>1, <4>1 DEF WaitReturn, IdleClient
      <4>2. CASE SpuriousClientWake(d)
        BY <3>1, <4>2 DEF SpuriousClientWake, ClientState
      <4> QED
        BY <2>9, <4>1, <4>2
    <3> QED
      BY <3>2
  <2> QED
    BY <2>2, <2>3, <2>5, <2>6, <2>7, <2>8, <2>9 DEF Next, WorkerStep, ClientCheck
<1> QED
  BY <1>1, <1>2, PoolInvariant, PTL DEF Spec

----------------------------------------------------------------------------
(* The pool implements TaskService *)

\* Waking or putting to sleep a caller does not change what it waits for.
LEMMA WaitsOnKept ==
    ASSUME TypeOK, NEW c \in Clients, client[c].at # "idle",
           NEW at \in {"check", "blocked"}, client' = [client EXCEPT ![c].at = at]
    PROVE  WaitsOn' = WaitsOn
BY DEF TypeOK, ClientState, WaitsOn

\* A call makes its caller wait for that PE.
LEMMA WaitsOnSet ==
    ASSUME TypeOK, NEW c \in Clients, NEW p \in PE, NEW op \in {"wait", "destroy"},
           client' = [client EXCEPT ![c] = InCall(op, p)]
    PROVE  WaitsOn' = [WaitsOn EXCEPT ![c] = {p}]
BY DEF TypeOK, WaitsOn, InCall

LEMMA ServiceStep ==
    ASSUME PoolInv, [Next]_vars
    PROVE  [Service!Next]_(Service!svars)
<1> USE DEF PoolInv, TypeOK
<1>1. CASE UNCHANGED <<queue, unit, stop, finished, client>>
  BY <1>1 DEF Service!svars, Pending, WaitsOn
<1>2. ASSUME NEW p \in PE, Exit(p) \/ Finish(p)
      PROVE  [Service!Next]_(Service!svars)
  <2>1. UNCHANGED <<queue, unit, stop, finished>>
    BY <1>2 DEF Exit, Finish, history
  <2>2. UNCHANGED WaitsOn
    <3>1. ASSUME SignalWorking(p) PROVE UNCHANGED WaitsOn
      <4>1. CASE UNCHANGED client
        BY <4>1 DEF WaitsOn
      <4>2. ASSUME NEW c \in Waiters(p), client' = [client EXCEPT ![c].at = "check"]
            PROVE  UNCHANGED WaitsOn
        BY <4>2, WaitsOnKept DEF Waiters
      <4> QED
        BY <3>1, <4>1, <4>2 DEF SignalWorking
    <3>2. CASE UNCHANGED client
      BY <3>2 DEF WaitsOn
    <3> QED
      BY <1>2, <3>1, <3>2 DEF Exit, Finish
  <2> QED
    BY <2>1, <2>2 DEF Service!svars, Pending
<1>3. ASSUME NEW p \in PE, Take(p)
      PROVE  Service!Start(p)
  BY <1>3 DEF Take, MayTake, UnitHeld, Service!Start, WaitsOn, Pending
<1>4. ASSUME NEW p \in PE, Complete(p)
      PROVE  Service!Done(p)
  BY <1>4 DEF Complete, poolVars, UnitHeld, Service!Done, WaitsOn, Pending
<1>5. ASSUME NEW c \in Clients, NEW p \in PE, NEW u \in Units, AddWork(c, p, u)
      PROVE  Service!Submit(p, u)
  BY <1>5 DEF AddWork, Enqueued, MayCall, Service!Submit, WaitsOn, Pending
<1>6. ASSUME NEW c \in Clients, NEW p \in PE, WaitCall(c, p)
      PROVE  Service!BeginWait(c, p)
  <2>1. WaitsOn[c] = {}
    BY <1>6 DEF WaitCall, MayCall, WaitsOn
  <2> QED
    BY <1>6, <2>1, WaitsOnSet DEF WaitCall, MayCall, poolVars, history, Pending, Service!BeginWait
<1>7. ASSUME NEW c \in Clients, NEW p \in PE, Destroy(c, p)
      PROVE  Service!ShutDown(c, p)
  <2>1. WaitsOn[c] = {}
    BY <1>7 DEF Destroy, MayCall, WaitsOn
  <2> QED
    BY <1>7, <2>1, WaitsOnSet DEF Destroy, MayCall, history, Pending, Service!ShutDown
<1>8. ASSUME NEW c \in Clients, WaitBlock(c) \/ SpuriousClientWake(c)
      PROVE  [Service!Next]_(Service!svars)
  <2>1. UNCHANGED WaitsOn
    BY <1>8, WaitsOnKept DEF WaitBlock, SpuriousClientWake
  <2> QED
    BY <1>8, <2>1 DEF WaitBlock, SpuriousClientWake, poolVars, history, Service!svars, Pending
<1>9. ASSUME NEW c \in Clients, WaitReturn(c)
      PROVE  Service!EndWait(c, client[c].on)
  <2> DEFINE p == client[c].on
  <2>1. p \in PE
    BY DEF ClientState
  <2>2. unit[p] = None
    <3>1. CASE stop[p]
      <4>1. alive[p] = 0
        BY <1>9, <3>1 DEF WaitReturn, MustWait
      <4>2. worker[p] = "exited"
        BY <2>1, <4>1, PoolNotEmpty DEF AliveCountsPool
      <4> QED
        BY <2>1, <4>2 DEF UnitHeld
    <3>2. CASE ~stop[p]
      BY <1>9, <2>1, <3>2 DEF WaitReturn, MustWait, UnitHeld, WorkingCountsBusy, Busy
    <3> QED
      BY <3>1, <3>2
  <2>3. WaitsOn[c] = {p}
    BY <1>9 DEF WaitReturn, WaitsOn
  <2>4. WaitsOn' = [WaitsOn EXCEPT ![c] = {}]
    BY <1>9 DEF WaitReturn, WaitsOn, IdleClient
  <2> QED
    BY <1>9, <2>2, <2>3, <2>4 DEF WaitReturn, history, Pending, Service!EndWait
<1>10. ASSUME NEW c \in Clients PROVE client[c].on \in PE
  BY DEF ClientState
<1> QED
  BY <1>1, <1>2, <1>3, <1>4, <1>5, <1>6, <1>7, <1>8, <1>9, <1>10 DEF Next, vars, poolVars,
    history, WorkerStep, Sleep, SpuriousWorkerWake, ClientCall, ClientCheck, RefuseWork,
    Service!Next

\* Every behaviour of the pool is a behaviour of the abstract service.
THEOREM Refinement == Spec => ImplementsService
<1>1. Init => Service!Init
  BY DEF Init, Service!Init, WaitsOn, Pending, IdleClient
<1> QED
  BY <1>1, ServiceStep, PoolInvariant, PTL DEF Spec, ImplementsService, Service!Spec
=============================================================================
