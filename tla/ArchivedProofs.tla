--------------------------- MODULE ArchivedProofs ---------------------------
(***************************************************************************)
(* Proofs about the two archived components.  OneQueue: for every number   *)
(* of workers, every set of callers and every set of work units.           *)
(* Archived: for every number of PEs and without a bound on the calls,     *)
(* what the two earlier barriers do in every process.                      *)
(***************************************************************************)
EXTENDS OneQueue, Archived, FiniteSetTheorems, TLAPS

----------------------------------------------------------------------------
(* The pool with one queue *)

\* The pool has a worker: the argument 0 is replaced by 2.
LEMMA PoolNotEmpty ==
    /\ Size \in Nat /\ Size > 0 /\ 0 \in Workers
    /\ IsFiniteSet(Workers) /\ Cardinality(Workers) = Size
BY NumAssumption, FS_Interval DEF Size, Workers

----------------------------------------------------------------------------
(* Counting workers *)

\* A counter of the workers of some set follows one that joins or leaves it.
LEMMA Counted ==
    ASSUME NEW S \in SUBSET Workers
    PROVE  /\ Cardinality(S) \in 0 .. Size
           /\ Cardinality(S) = 0 => S = {}
           /\ \A w \in Workers \ S : Cardinality(S \cup {w}) = Cardinality(S) + 1
           /\ \A w \in S : Cardinality(S \ {w}) = Cardinality(S) - 1
<1>1. IsFiniteSet(S) /\ Cardinality(S) <= Size
  BY PoolNotEmpty, FS_Subset
<1>2. Cardinality(S) \in Nat
  BY <1>1, FS_CardinalityType
<1>3. Cardinality(S) = 0 => S = {}
  BY <1>1, FS_EmptySet
<1>4. \A w \in Workers \ S : Cardinality(S \cup {w}) = Cardinality(S) + 1
  BY <1>1, FS_AddElement
<1>5. \A w \in S : Cardinality(S \ {w}) = Cardinality(S) - 1
  BY <1>1, FS_RemoveElement
<1> QED
  BY <1>1, <1>2, <1>3, <1>4, <1>5, PoolNotEmpty

----------------------------------------------------------------------------
(* Sequences without repetition *)

\* Appending an element adds it to the range; a new one keeps the sequence
\* free of repetition.
LEMMA AppendRange ==
    ASSUME NEW S, NEW a \in Seq(S), NEW e \in S
    PROVE  /\ Range(Append(a, e)) = Range(a) \cup {e}
           /\ IsInjective(a) /\ e \notin Range(a) => IsInjective(Append(a, e))
<1> DEFINE b == Append(a, e)
<1>1. /\ DOMAIN a = 1 .. Len(a) /\ DOMAIN b = 1 .. Len(a) + 1
      /\ b[Len(a) + 1] = e
      /\ \A i \in 1 .. Len(a) : b[i] = a[i]
      /\ Len(a) \in Nat
  OBVIOUS
<1>2. Range(b) = Range(a) \cup {e}
  <2>1. Range(a) \cup {e} \subseteq Range(b)
    BY <1>1 DEF Range
  <2>2. Range(b) \subseteq Range(a) \cup {e}
    <3> SUFFICES ASSUME NEW i \in DOMAIN b PROVE b[i] \in Range(a) \cup {e}
      BY DEF Range
    <3>1. CASE i = Len(a) + 1
      BY <1>1, <3>1
    <3>2. CASE i \in 1 .. Len(a)
      BY <1>1, <3>2 DEF Range
    <3> QED
      BY <1>1, <3>1, <3>2
  <2> QED
    BY <2>1, <2>2
<1>3. IsInjective(a) /\ e \notin Range(a) => IsInjective(b)
  BY <1>1 DEF IsInjective, Range
<1> QED
  BY <1>2, <1>3

\* Taking the head off a sequence without repetition takes it off the range.
LEMMA TailRange ==
    ASSUME NEW S, NEW a \in Seq(S), a # <<>>, IsInjective(a)
    PROVE  /\ Head(a) \in S /\ Head(a) \in Range(a)
           /\ Tail(a) \in Seq(S) /\ IsInjective(Tail(a))
           /\ Range(Tail(a)) \subseteq Range(a)
           /\ Head(a) \notin Range(Tail(a))
<1> DEFINE b == Tail(a)
<1>1. /\ DOMAIN a = 1 .. Len(a) /\ DOMAIN b = 1 .. Len(a) - 1
      /\ Head(a) = a[1] /\ b \in Seq(S) /\ 1 \in DOMAIN a
      /\ \A i \in 1 .. Len(a) - 1 : b[i] = a[i + 1] /\ i + 1 \in DOMAIN a /\ i + 1 # 1
      /\ Len(a) \in Nat
  OBVIOUS
<1>2. IsInjective(b)
  BY <1>1 DEF IsInjective
<1>3. Range(b) \subseteq Range(a) /\ Head(a) \notin Range(b)
  BY <1>1 DEF IsInjective, Range
<1> QED
  BY <1>1, <1>2, <1>3 DEF Range

\* Moving the head of the right part to the end of the left part.
LEMMA MoveHead ==
    ASSUME NEW S, NEW a \in Seq(S), NEW b \in Seq(S), b # <<>>
    PROVE  Append(a, Head(b)) \o Tail(b) = a \o b
OBVIOUS

----------------------------------------------------------------------------
(* The invariant.  The counters are the sizes of sets of workers, so that  *)
(* decrementing them keeps them in Nat.  Fresh says that nothing in the    *)
(* list was started before, which is what makes every unit run once.       *)

Alive == {w \in Workers : worker[w] # "exited"}

\* num_threads is the number of workers that have not left.
AliveCounted == alive = Cardinality(Alive)

\* A worker holds a unit exactly while it runs it.
UnitHeld == \A w \in Workers : unit[w] # None <=> worker[w] = "running"

\* A caller inside tpool_destroy set stop.
DestroyStops ==
    \A c \in Clients : client[c].at # "idle" /\ client[c].op = "destroy" => stop

\* The pool is released only when num_threads reached zero, which it keeps.
FreedAtZero == freed => alive = 0 /\ stop

\* The list holds no unit twice and none that was started.
Fresh ==
    /\ IsInjective(queue)
    /\ Range(queue) \cap Range(started) = {}
    /\ Range(queue) \cup Range(started) \subseteq Range(submitted)

\* A started unit has finished or is in the hands of a worker, and nothing else
\* is; a call remembers started units only.
StartedInHand ==
    /\ Range(started) \subseteq finished \cup {unit[w] : w \in Workers}
    /\ finished \subseteq Range(started)
    /\ \A w \in Workers : unit[w] # None => unit[w] \in Range(started)
    /\ \A c \in Clients : client[c].inFlight \subseteq Range(started)

PoolInv ==
    /\ TypeOK
    /\ WorkingCountsBusy
    /\ AliveCounted
    /\ NoLostWakeup
    /\ UnitHeld
    /\ DestroyStops
    /\ FreedAtZero
    /\ AcceptedInOrder
    /\ Fresh
    /\ StartedInHand
    /\ RunOnce

LEMMA PoolInvInit == Init => PoolInv
<1> SUFFICES ASSUME Init PROVE PoolInv
  OBVIOUS
<1>1. TypeOK
  <2>1. client \in [Clients -> ClientState]
    BY DEF Init, ClientState, IdleClient
  <2> QED
    BY <2>1, PoolNotEmpty DEF Init, TypeOK, WorkerState
<1>2. WorkingCountsBusy
  <2>1. Busy = {}
    BY DEF Init, Busy
  <2> QED
    BY <2>1, FS_EmptySet DEF Init, WorkingCountsBusy
<1>3. AliveCounted
  <2>1. Alive = Workers
    BY DEF Init, Alive
  <2> QED
    BY <2>1, PoolNotEmpty DEF Init, AliveCounted
<1>4. NoLostWakeup /\ UnitHeld /\ DestroyStops /\ FreedAtZero /\ AcceptedInOrder
  BY DEF Init, NoLostWakeup, UnitHeld, DestroyStops, IdleClient, FreedAtZero, AcceptedInOrder
<1>5. Range(<<>>) = {} /\ IsInjective(<<>>)
  BY DEF Range, IsInjective
<1>6. Fresh /\ StartedInHand /\ RunOnce
  BY <1>5 DEF Init, Fresh, StartedInHand, IdleClient, RunOnce
<1> QED
  BY <1>1, <1>2, <1>3, <1>4, <1>6 DEF PoolInv

----------------------------------------------------------------------------
(* What the steps do to the callers *)

\* The callers are in the same calls, with the same memory of them.
SameCalls ==
    /\ client' \in [Clients -> ClientState]
    /\ \A c \in Clients : /\ client'[c].op = client[c].op
                          /\ client'[c].inFlight = client[c].inFlight
                          /\ client'[c].at = "idle" <=> client[c].at = "idle"

\* Falling asleep and waking leave a caller in its call.
LEMMA AtSet ==
    ASSUME TypeOK, NEW c \in Clients, client[c].at # "idle",
           NEW a \in {"check", "blocked"}, client' = [client EXCEPT ![c].at = a]
    PROVE  SameCalls
BY DEF TypeOK, ClientState, SameCalls

\* So does a signal.
LEMMA Signalled ==
    ASSUME TypeOK, SignalWorking
    PROVE  SameCalls
<1>1. CASE UNCHANGED client
  BY <1>1 DEF TypeOK, SameCalls
<1>2. ASSUME NEW c \in Waiters, client' = [client EXCEPT ![c].at = "check"]
      PROVE  SameCalls
  BY <1>2, AtSet DEF Waiters
<1> QED
  BY <1>1, <1>2 DEF SignalWorking

\* A call remembers units of the pool, and started ones as being in flight.
LEMMA InCallType ==
    ASSUME TypeOK, NEW op \in {"wait", "destroy"}
    PROVE  InCall(op) \in ClientState
BY DEF TypeOK, InCall, ClientState, Range

----------------------------------------------------------------------------
(* Each step of a worker preserves the invariant *)

LEMMA TakePreserves ==
    ASSUME PoolInv, NEW w \in Workers, Take(w)
    PROVE  PoolInv'
<1> DEFINE u == Head(queue)
<1> USE PoolNotEmpty DEF PoolInv
<1>1. /\ u \in Units /\ u \in Range(queue)
      /\ Tail(queue) \in Seq(Units) /\ IsInjective(Tail(queue))
      /\ Range(Tail(queue)) \subseteq Range(queue)
      /\ u \notin Range(Tail(queue))
  BY TailRange DEF Take, TypeOK, Fresh
<1>2. /\ queue' = Tail(queue) /\ started' = Append(started, u)
      /\ unit' = [unit EXCEPT ![w] = u]
      /\ worker' = [worker EXCEPT ![w] = "running"]
      /\ UNCHANGED <<alive, stop, freed, client, submitted, finished>>
  BY DEF Take, Rest
<1>3. worker[w] = "fetch" /\ unit[w] = None
  BY DEF Take, UnitHeld
<1>4. Range(started') = Range(started) \cup {u}
  BY <1>1, <1>2, AppendRange DEF TypeOK
<1>5. u \notin Range(started) /\ u # None
  BY <1>1, NoneAssumption DEF Fresh
<1>6. WorkingCountsBusy' /\ working' \in 0 .. Size
  <2>1. Busy' = Busy \cup {w} /\ w \notin Busy
    BY <1>2, <1>3 DEF Busy, TypeOK
  <2>2. Busy \subseteq Workers /\ Busy' \subseteq Workers
    BY DEF Busy
  <2> QED
    BY <2>1, <2>2, Counted DEF Take, WorkingCountsBusy
<1>7. TypeOK'
  BY <1>1, <1>2, <1>6 DEF TypeOK, WorkerState
<1>8. AliveCounted'
  <2>1. Alive' = Alive
    BY <1>2, <1>3 DEF Alive, TypeOK
  <2> QED
    BY <1>2, <2>1 DEF AliveCounted
<1>9. NoLostWakeup' /\ DestroyStops' /\ FreedAtZero'
  BY <1>2 DEF Take, TypeOK, NoLostWakeup, DestroyStops, FreedAtZero
<1>10. UnitHeld'
  BY <1>2, <1>5 DEF TypeOK, UnitHeld
<1>11. AcceptedInOrder'
  <2>1. started \in Seq(Units) /\ queue \in Seq(Units) /\ queue # <<>>
    BY DEF TypeOK, Take
  <2>2. Append(started, u) \o Tail(queue) = started \o queue
    BY <2>1, MoveHead, Zenon
  <2> QED
    BY <1>2, <2>2, Zenon DEF AcceptedInOrder
<1>12. Fresh'
  BY <1>1, <1>2, <1>4 DEF Fresh
<1>13. StartedInHand'
  <2>1. Range(started') \subseteq finished' \cup {unit'[v] : v \in Workers}
    <3> SUFFICES ASSUME NEW x \in Range(started), x \notin finished
                 PROVE  \E v \in Workers : x = unit'[v]
      BY <1>2, <1>4 DEF TypeOK
    <3>1. PICK v \in Workers : x = unit[v]
      BY DEF StartedInHand
    <3>2. x # None
      BY NoneAssumption DEF TypeOK, Range
    <3> QED
      BY <1>2, <1>3, <3>1, <3>2 DEF TypeOK
  <2> QED
    BY <1>2, <1>4, <2>1 DEF TypeOK, StartedInHand
<1>14. RunOnce'
  BY <1>2, <1>3, <1>5 DEF TypeOK, RunOnce, StartedInHand, UnitHeld
<1> QED
  BY <1>6, <1>7, <1>8, <1>9, <1>10, <1>11, <1>12, <1>13, <1>14

LEMMA CompletePreserves ==
    ASSUME PoolInv, NEW w \in Workers, Complete(w)
    PROVE  PoolInv'
<1> USE PoolNotEmpty DEF PoolInv
<1>1. /\ worker[w] = "running" /\ unit[w] \in Units
      /\ worker' = [worker EXCEPT ![w] = "finish"]
      /\ unit' = [unit EXCEPT ![w] = None]
      /\ finished' = finished \cup {unit[w]}
      /\ UNCHANGED <<queue, working, alive, stop, freed, client, submitted, started>>
  BY DEF Complete, poolVars, TypeOK, UnitHeld
<1>2. TypeOK'
  BY <1>1 DEF TypeOK, WorkerState
<1>3. Busy' = Busy /\ Alive' = Alive
  BY <1>1 DEF Busy, Alive, TypeOK
<1>4. (WorkingCountsBusy /\ AliveCounted)'
  BY <1>1, <1>3 DEF WorkingCountsBusy, AliveCounted
<1>5. (NoLostWakeup /\ UnitHeld /\ DestroyStops /\ FreedAtZero)'
  BY <1>1 DEF TypeOK, NoLostWakeup, UnitHeld, DestroyStops, FreedAtZero
<1>6. (AcceptedInOrder /\ Fresh)'
  BY <1>1 DEF AcceptedInOrder, Fresh
<1>7. StartedInHand'
  <2>1. Range(started') \subseteq finished' \cup {unit'[v] : v \in Workers}
    BY <1>1 DEF TypeOK, StartedInHand
  <2>2. finished' \subseteq Range(started')
    BY <1>1, NoneAssumption DEF StartedInHand
  <2>3. \A v \in Workers : unit'[v] # None => unit'[v] \in Range(started')
    BY <1>1 DEF TypeOK, StartedInHand
  <2> QED
    BY <1>1, <2>1, <2>2, <2>3 DEF StartedInHand
<1>8. RunOnce'
  BY <1>1 DEF TypeOK, RunOnce, UnitHeld
<1> QED
  BY <1>2, <1>4, <1>5, <1>6, <1>7, <1>8

LEMMA FinishPreserves ==
    ASSUME PoolInv, NEW w \in Workers, Finish(w)
    PROVE  PoolInv'
<1> USE PoolNotEmpty DEF PoolInv
<1>1. /\ worker[w] = "finish" /\ working' = working - 1
      /\ worker' = [worker EXCEPT ![w] = "fetch"]
      /\ UNCHANGED <<queue, alive, stop, freed, unit, submitted, started, finished>>
  BY DEF Finish, history
<1>2. SameCalls
  <2>1. CASE UNCHANGED client
    BY <2>1 DEF TypeOK, SameCalls
  <2> QED
    BY <2>1, Signalled DEF Finish
<1>3. WorkingCountsBusy' /\ working' \in 0 .. Size
  <2>1. Busy' = Busy \ {w} /\ w \in Busy
    BY <1>1 DEF Busy, TypeOK
  <2>2. Busy \subseteq Workers /\ Busy' \subseteq Workers
    BY DEF Busy
  <2> QED
    BY <1>1, <2>1, <2>2, Counted DEF WorkingCountsBusy
<1>4. TypeOK'
  BY <1>1, <1>2, <1>3 DEF TypeOK, WorkerState, SameCalls
<1>5. AliveCounted'
  <2>1. Alive' = Alive
    BY <1>1 DEF Alive, TypeOK
  <2> QED
    BY <1>1, <2>1 DEF AliveCounted
<1>6. (NoLostWakeup /\ UnitHeld /\ FreedAtZero /\ RunOnce)'
  BY <1>1 DEF TypeOK, NoLostWakeup, UnitHeld, FreedAtZero, RunOnce
<1>7. (DestroyStops /\ AcceptedInOrder /\ Fresh /\ StartedInHand)'
  BY <1>1, <1>2 DEF SameCalls, DestroyStops, AcceptedInOrder, Fresh, StartedInHand
<1> QED
  BY <1>3, <1>4, <1>5, <1>6, <1>7

LEMMA ExitPreserves ==
    ASSUME PoolInv, NEW w \in Workers, Exit(w)
    PROVE  PoolInv'
<1> USE PoolNotEmpty DEF PoolInv
<1>1. /\ worker[w] = "fetch" /\ stop /\ alive' = alive - 1
      /\ worker' = [worker EXCEPT ![w] = "exited"]
      /\ UNCHANGED <<queue, working, stop, freed, unit, submitted, started, finished>>
  BY DEF Exit, history
<1>2. SameCalls
  BY Signalled DEF Exit
<1>3. AliveCounted' /\ alive' \in 0 .. Size /\ alive > 0
  <2>1. Alive' = Alive \ {w} /\ w \in Alive
    BY <1>1 DEF Alive, TypeOK
  <2>2. Alive \subseteq Workers /\ Alive' \subseteq Workers
    BY DEF Alive
  <2> QED
    BY <1>1, <2>1, <2>2, Counted DEF AliveCounted
<1>4. TypeOK'
  BY <1>1, <1>2, <1>3 DEF TypeOK, WorkerState, SameCalls
<1>5. WorkingCountsBusy'
  <2>1. Busy' = Busy
    BY <1>1 DEF Busy, TypeOK
  <2> QED
    BY <1>1, <2>1 DEF WorkingCountsBusy
<1>6. (NoLostWakeup /\ UnitHeld /\ FreedAtZero /\ RunOnce)'
  BY <1>1, <1>3 DEF TypeOK, NoLostWakeup, UnitHeld, FreedAtZero, RunOnce
<1>7. (DestroyStops /\ AcceptedInOrder /\ Fresh /\ StartedInHand)'
  BY <1>1, <1>2 DEF SameCalls, DestroyStops, AcceptedInOrder, Fresh, StartedInHand
<1> QED
  BY <1>3, <1>4, <1>5, <1>6, <1>7

\* Between waiting for work and looking for it.
LEMMA RestPreserves ==
    ASSUME PoolInv, NEW w \in Workers, Sleep(w) \/ SpuriousWorkerWake(w)
    PROVE  PoolInv'
<1> USE DEF PoolInv
<1>1. /\ worker[w] \in {"fetch", "asleep"}
      /\ \E s \in {"fetch", "asleep"} :
            /\ worker' = [worker EXCEPT ![w] = s]
            /\ s = "asleep" => queue = <<>> /\ ~stop
      /\ UNCHANGED <<poolVars, unit, client, history>>
  BY DEF Sleep, SpuriousWorkerWake
<1>2. TypeOK'
  BY <1>1 DEF TypeOK, WorkerState, poolVars, history
<1>3. Busy' = Busy /\ Alive' = Alive
  BY <1>1 DEF Busy, Alive, TypeOK
<1>4. (WorkingCountsBusy /\ AliveCounted)'
  BY <1>1, <1>3 DEF WorkingCountsBusy, AliveCounted, poolVars
<1>5. (NoLostWakeup /\ UnitHeld /\ RunOnce)'
  BY <1>1 DEF TypeOK, NoLostWakeup, UnitHeld, RunOnce, poolVars, history
<1>6. (DestroyStops /\ FreedAtZero /\ AcceptedInOrder /\ Fresh /\ StartedInHand)'
  BY <1>1 DEF DestroyStops, FreedAtZero, AcceptedInOrder, Fresh, StartedInHand,
    poolVars, history
<1> QED
  BY <1>2, <1>4, <1>5, <1>6

----------------------------------------------------------------------------
(* Each step of a caller preserves the invariant *)

LEMMA AddPreserves ==
    ASSUME PoolInv, NEW c \in Clients, NEW u \in Units, AddWork(c, u)
    PROVE  PoolInv'
<1> USE PoolNotEmpty DEF PoolInv
<1>1. /\ ~stop /\ u \notin Range(submitted)
      /\ queue' = Append(queue, u) /\ submitted' = Append(submitted, u)
      /\ worker' = Roused
      /\ UNCHANGED <<working, alive, stop, freed, unit, client, started, finished>>
  BY DEF AddWork, MayCall
<1>2. \A w \in Workers :
        /\ worker'[w] = IF worker[w] = "asleep" THEN "fetch" ELSE worker[w]
        /\ worker'[w] # "asleep"
  BY <1>1 DEF Roused
<1>3. TypeOK'
  BY <1>1 DEF TypeOK, Roused, WorkerState
<1>4. Busy' = Busy /\ Alive' = Alive
  BY <1>2 DEF Busy, Alive
<1>5. (WorkingCountsBusy /\ AliveCounted)'
  BY <1>1, <1>4 DEF WorkingCountsBusy, AliveCounted
<1>6. (NoLostWakeup /\ UnitHeld /\ RunOnce)'
  BY <1>1, <1>2 DEF NoLostWakeup, UnitHeld, RunOnce
<1>7. (DestroyStops /\ FreedAtZero /\ StartedInHand)'
  BY <1>1 DEF DestroyStops, FreedAtZero, StartedInHand
<1>8. AcceptedInOrder'
  <2>1. started \in Seq(Units) /\ queue \in Seq(Units)
    BY DEF TypeOK
  <2>2. \A a, b \in Seq(Units) : Append(a \o b, u) = a \o Append(b, u)
    OBVIOUS
  <2> QED
    BY <1>1, <2>1, <2>2, Zenon DEF AcceptedInOrder
<1>9. Fresh'
  <2>1. /\ Range(queue') = Range(queue) \cup {u}
        /\ Range(submitted') = Range(submitted) \cup {u}
        /\ u \notin Range(queue) => IsInjective(queue')
    BY <1>1, AppendRange DEF TypeOK, Fresh
  <2> QED
    BY <1>1, <2>1 DEF Fresh
<1> QED
  BY <1>3, <1>5, <1>6, <1>7, <1>8, <1>9

LEMMA DestroyPreserves ==
    ASSUME PoolInv, NEW c \in Clients, Destroy(c)
    PROVE  PoolInv'
<1> USE PoolNotEmpty DEF PoolInv
<1>1. /\ ~stop /\ stop' = TRUE /\ worker' = Roused
      /\ client' = [client EXCEPT ![c] = InCall("destroy")]
      /\ UNCHANGED <<queue, working, alive, freed, unit, submitted, started, finished>>
  BY DEF Destroy, MayCall, history
<1>2. \A w \in Workers :
        /\ worker'[w] = IF worker[w] = "asleep" THEN "fetch" ELSE worker[w]
        /\ worker'[w] # "asleep"
  BY <1>1 DEF Roused
<1>3. TypeOK'
  BY <1>1, InCallType DEF TypeOK, Roused, WorkerState
<1>4. Busy' = Busy /\ Alive' = Alive
  BY <1>2 DEF Busy, Alive
<1>5. (WorkingCountsBusy /\ AliveCounted)'
  BY <1>1, <1>4 DEF WorkingCountsBusy, AliveCounted
<1>6. (NoLostWakeup /\ UnitHeld /\ RunOnce)'
  BY <1>1, <1>2 DEF NoLostWakeup, UnitHeld, RunOnce
<1>7. (DestroyStops /\ FreedAtZero /\ AcceptedInOrder /\ Fresh)'
  BY <1>1 DEF DestroyStops, FreedAtZero, AcceptedInOrder, Fresh
<1>8. StartedInHand'
  BY <1>1 DEF TypeOK, StartedInHand, InCall
<1> QED
  BY <1>3, <1>5, <1>6, <1>7, <1>8

\* A step that changes at most the calls, and releases the pool only if it may.
LEMMA CallsPreserve ==
    ASSUME PoolInv,
           UNCHANGED <<queue, working, alive, stop, worker, unit, history>>,
           client' \in [Clients -> ClientState],
           freed' \in BOOLEAN, freed' => freed \/ (alive = 0 /\ stop),
           DestroyStops',
           \A c \in Clients : client'[c].inFlight \subseteq Range(started)
    PROVE  PoolInv'
<1> USE DEF PoolInv, history
<1>1. TypeOK'
  BY DEF TypeOK
<1>2. (WorkingCountsBusy /\ AliveCounted /\ NoLostWakeup /\ UnitHeld /\ FreedAtZero)'
  BY DEF WorkingCountsBusy, Busy, AliveCounted, Alive, NoLostWakeup, UnitHeld, FreedAtZero
<1>3. (AcceptedInOrder /\ Fresh /\ StartedInHand /\ RunOnce)'
  BY DEF AcceptedInOrder, Fresh, StartedInHand, RunOnce
<1> QED
  BY <1>1, <1>2, <1>3

LEMMA WaitPreserves ==
    ASSUME PoolInv, NEW c \in Clients,
           WaitCall(c) \/ ClientCheck(c) \/ SpuriousClientWake(c)
    PROVE  PoolInv'
<1>1. TypeOK /\ DestroyStops /\ StartedInHand
  BY DEF PoolInv
<1>2. CASE WaitCall(c)
  <2>1. client' \in [Clients -> ClientState]
    BY <1>1, <1>2, InCallType DEF WaitCall, TypeOK
  <2>2. DestroyStops'
    BY <1>1, <1>2 DEF WaitCall, poolVars, TypeOK, DestroyStops, InCall
  <2>3. \A d \in Clients : client'[d].inFlight \subseteq Range(started)
    BY <1>1, <1>2 DEF WaitCall, TypeOK, StartedInHand, InCall
  <2> QED
    BY <1>1, <1>2, <2>1, <2>2, <2>3, CallsPreserve DEF WaitCall, poolVars, TypeOK
<1>3. CASE WaitBlock(c) \/ SpuriousClientWake(c)
  <2>1. SameCalls
    BY <1>1, <1>3, AtSet DEF WaitBlock, SpuriousClientWake
  <2>2. DestroyStops'
    BY <1>1, <1>3, <2>1 DEF WaitBlock, SpuriousClientWake, poolVars, SameCalls, DestroyStops
  <2>3. \A d \in Clients : client'[d].inFlight \subseteq Range(started)
    BY <1>1, <2>1 DEF SameCalls, StartedInHand
  <2> QED
    BY <1>1, <1>3, <2>1, <2>2, <2>3, CallsPreserve
      DEF WaitBlock, SpuriousClientWake, poolVars, SameCalls, TypeOK
<1>4. CASE WaitReturn(c)
  <2>1. client' \in [Clients -> ClientState]
    BY <1>1, <1>4 DEF WaitReturn, TypeOK, IdleClient, ClientState
  <2>2. freed' => freed \/ (alive = 0 /\ stop)
    BY <1>1, <1>4 DEF WaitReturn, MustWait, DestroyStops
  <2>3. DestroyStops'
    BY <1>1, <1>4 DEF WaitReturn, TypeOK, DestroyStops, IdleClient
  <2>4. \A d \in Clients : client'[d].inFlight \subseteq Range(started)
    BY <1>1, <1>4 DEF WaitReturn, TypeOK, StartedInHand, IdleClient
  <2>5. freed' \in BOOLEAN
    BY <1>1, <1>4 DEF WaitReturn, TypeOK
  <2> QED
    BY <1>4, <2>1, <2>2, <2>3, <2>4, <2>5, CallsPreserve DEF WaitReturn
<1> QED
  BY <1>2, <1>3, <1>4 DEF ClientCheck

LEMMA PoolInvStep == PoolInv /\ [Next]_vars => PoolInv'
<1> SUFFICES ASSUME PoolInv, [Next]_vars PROVE PoolInv'
  OBVIOUS
<1>1. CASE UNCHANGED vars
  BY <1>1, CallsPreserve DEF vars, poolVars, PoolInv, TypeOK, DestroyStops, StartedInHand
<1>2. ASSUME NEW w \in Workers, WorkerStep(w) \/ SpuriousWorkerWake(w)
      PROVE  PoolInv'
  BY <1>2, TakePreserves, CompletePreserves, FinishPreserves, ExitPreserves, RestPreserves
    DEF WorkerStep
<1>3. ASSUME NEW c \in Clients, ClientCall(c) \/ ClientCheck(c) \/ SpuriousClientWake(c)
      PROVE  PoolInv'
  BY <1>3, AddPreserves, DestroyPreserves, WaitPreserves DEF ClientCall
<1> QED
  BY <1>1, <1>2, <1>3 DEF Next

\* The invariant holds in every reachable state of the pool.
THEOREM OneQueueInvariant == Spec => []PoolInv
BY PoolInvInit, PoolInvStep, PTL DEF Spec

\* Type correctness: neither working_cnt nor num_threads is decremented below 0.
THEOREM OneQueueTypes == Spec => []TypeOK
BY OneQueueInvariant, PTL DEF PoolInv

\* working_cnt is the number of busy workers, however many of them compete.
THEOREM OneQueueCounts == Spec => []WorkingCountsBusy
BY OneQueueInvariant, PTL DEF PoolInv

\* No worker sleeps while there is work or the pool was told to stop.
THEOREM OneQueueWakeups == Spec => []NoLostWakeup
BY OneQueueInvariant, PTL DEF PoolInv

\* Accepted work is started in the order of acceptance, none lost.
THEOREM OneQueueOrder == Spec => []AcceptedInOrder
BY OneQueueInvariant, PTL DEF PoolInv

\* No unit is run by two workers or a second time.
THEOREM OneQueueRunsOnce == Spec => []RunOnce
BY OneQueueInvariant, PTL DEF PoolInv

\* num_threads has reached zero: no worker is left, and none has a unit.
LEMMA NobodyLeft ==
    ASSUME PoolInv, alive = 0
    PROVE  \A w \in Workers : worker[w] = "exited" /\ unit[w] = None
<1>1. Alive = {}
  BY Counted DEF PoolInv, AliveCounted, Alive
<1> QED
  BY <1>1 DEF PoolInv, UnitHeld, Alive

\* working_cnt is zero: no worker has a unit.
LEMMA NobodyBusy ==
    ASSUME PoolInv, working = 0
    PROVE  \A w \in Workers : unit[w] = None
<1>1. Busy = {}
  BY Counted DEF PoolInv, WorkingCountsBusy, Busy
<1> QED
  BY <1>1 DEF PoolInv, UnitHeld, Busy

\* Without a unit in hand every started task has finished.
LEMMA NoneInHand ==
    ASSUME PoolInv, \A w \in Workers : unit[w] = None
    PROVE  Range(started) \subseteq finished
<1>1. Range(started) \subseteq Units
  BY DEF PoolInv, TypeOK, Range
<1> QED
  BY <1>1, NoneAssumption DEF PoolInv, StartedInHand

\* tpool_destroy releases the pool only after every worker left it and every
\* started task finished.
THEOREM OneQueueFreed == Spec => []FreedAfterAll
<1>1. PoolInv => FreedAfterAll
  BY NobodyLeft, NoneInHand DEF PoolInv, FreedAtZero, FreedAfterAll
<1> QED
  BY OneQueueInvariant, <1>1, PTL

----------------------------------------------------------------------------
(* What tpool_wait does guarantee *)

\* Only WaitReturn takes a caller out of its call.
LEMMA ReturnIsWaitReturn ==
    ASSUME TypeOK, [Next]_vars, NEW c \in Clients, Returns(c)
    PROVE  WaitReturn(c)
<1>1. ~UNCHANGED client /\ ~SameCalls
  BY DEF Returns, SameCalls
<1>2. ~SignalWorking
  BY <1>1, Signalled
<1>3. ASSUME NEW w \in Workers, WorkerStep(w) \/ SpuriousWorkerWake(w) PROVE FALSE
  BY <1>1, <1>2, <1>3 DEF WorkerStep, Sleep, Exit, Take, Complete, Finish, SpuriousWorkerWake
<1>4. ASSUME NEW d \in Clients, ClientCall(d) PROVE FALSE
  <2>1. ASSUME NEW op \in {"wait", "destroy"}, client' = [client EXCEPT ![d] = InCall(op)]
        PROVE  FALSE
    BY <2>1 DEF Returns, TypeOK, InCall
  <2> QED
    BY <1>1, <1>4, <2>1 DEF ClientCall, AddWork, WaitCall, Destroy
<1>5. ASSUME NEW d \in Clients, WaitBlock(d) \/ SpuriousClientWake(d) PROVE FALSE
  BY <1>1, <1>5, AtSet DEF WaitBlock, SpuriousClientWake
<1>6. ASSUME NEW d \in Clients, WaitReturn(d) PROVE d = c
  BY <1>6 DEF WaitReturn, Returns, TypeOK
<1> QED
  BY <1>1, <1>3, <1>4, <1>5, <1>6 DEF Next, vars, ClientCheck

\* A wait that ends finds no worker with a unit.
LEMMA WaitEndsIdle ==
    ASSUME PoolInv, NEW c \in Clients, WaitReturn(c)
    PROVE  \A w \in Workers : unit[w] = None
<1>1. working = 0 \/ alive = 0
  BY DEF PoolInv, TypeOK, WaitReturn, MustWait
<1> QED
  BY <1>1, NobodyBusy, NobodyLeft

\* tpool_wait returns only after every task that was running when it was called
\* has finished.
THEOREM OneQueueWaitDrains == Spec => WaitCoversInFlight
<1>1. PoolInv /\ [Next]_vars =>
        [\A c \in Clients : Returns(c) => client[c].inFlight \subseteq finished]_vars
  <2> SUFFICES ASSUME PoolInv, [Next]_vars, NEW c \in Clients, Returns(c)
               PROVE  client[c].inFlight \subseteq finished
    OBVIOUS
  <2>1. \A w \in Workers : unit[w] = None
    BY ReturnIsWaitReturn, WaitEndsIdle DEF PoolInv
  <2> QED
    BY <2>1, NoneInHand DEF PoolInv, StartedInHand
<1> QED
  BY <1>1, OneQueueInvariant, PTL DEF Spec, WaitCoversInFlight

----------------------------------------------------------------------------
(* The pool implements SharedService *)

RunningUnits == {unit[w] : w \in Workers} \ {None}

\* While a worker is at leisure, fewer units run than there are workers.
LEMMA SlotLeft ==
    ASSUME TypeOK, NEW w \in Workers, unit[w] = None
    PROVE  Cardinality(RunningUnits) < Size
<1> DEFINE H == {v \in Workers : unit[v] # None}
           f == [v \in H |-> unit[v]]
<1>1. IsFiniteSet(Workers \ {w}) /\ Cardinality(Workers \ {w}) = Size - 1
  BY PoolNotEmpty, FS_RemoveElement
<1>2. H \in SUBSET (Workers \ {w})
  OBVIOUS
<1>3. IsFiniteSet(H) /\ Cardinality(H) <= Size - 1
  BY <1>1, <1>2, FS_Subset
<1>4. f \in Surjection(H, RunningUnits)
  BY DEF RunningUnits, Surjection
<1>5. IsFiniteSet(RunningUnits) /\ Cardinality(RunningUnits) <= Cardinality(H)
  BY <1>3, <1>4, FS_Surjection
<1> QED
  BY <1>3, <1>5, PoolNotEmpty, FS_CardinalityType

\* A step that leaves the units in hand and the calls alone leaves the service
\* alone.
LEMMA ServiceStutters ==
    ASSUME TypeOK, UNCHANGED <<queue, unit, stop, finished>>, SameCalls
    PROVE  UNCHANGED Service!svars
BY DEF Service!svars, SameCalls

LEMMA ServiceStep ==
    ASSUME PoolInv, [Next]_vars
    PROVE  [Service!Next]_(Service!svars)
<1> USE DEF PoolInv
<1>1. CASE UNCHANGED <<queue, unit, stop, finished, client>>
  BY <1>1 DEF Service!svars
<1>2. ASSUME NEW w \in Workers, Exit(w) \/ Finish(w)
      PROVE  UNCHANGED Service!svars
  <2>1. SameCalls
    <3>1. CASE UNCHANGED client
      BY <3>1 DEF TypeOK, SameCalls
    <3> QED
      BY <1>2, <3>1, Signalled DEF Exit, Finish
  <2> QED
    BY <1>2, <2>1, ServiceStutters DEF Exit, Finish, history
<1>3. ASSUME NEW w \in Workers, Take(w)
      PROVE  Service!Start
  <2> DEFINE u == Head(queue)
  <2>1. /\ ~stop /\ queue # <<>> /\ queue' = Tail(queue)
        /\ unit' = [unit EXCEPT ![w] = u] /\ unit[w] = None
        /\ UNCHANGED <<stop, finished, client>>
    BY <1>3 DEF Take, Rest, UnitHeld
  <2>2. u \in Range(queue) /\ u \in Units
    BY <2>1, TailRange DEF TypeOK, Fresh
  <2>3. u # None
    BY <2>2, NoneAssumption
  <2>4. u \notin RunningUnits \cup finished
    BY <2>2 DEF RunningUnits, Fresh, StartedInHand
  <2>5. RunningUnits' = RunningUnits \cup {u}
    BY <2>1, <2>3 DEF TypeOK, RunningUnits
  <2>6. Cardinality(RunningUnits) < Size
    BY <2>1, SlotLeft
  <2>7. Service!Cardinality(RunningUnits) = Cardinality(RunningUnits)
    BY DEF Service!Cardinality, Cardinality
  <2> QED
    BY <2>1, <2>4, <2>5, <2>6, <2>7 DEF Service!Start, RunningUnits
<1>4. ASSUME NEW w \in Workers, Complete(w)
      PROVE  \E u \in Units : Service!Done(u)
  <2>1. /\ worker[w] = "running" /\ unit[w] \in Units /\ unit[w] # None
        /\ unit' = [unit EXCEPT ![w] = None]
        /\ finished' = finished \cup {unit[w]}
        /\ UNCHANGED <<queue, stop, client>>
    BY <1>4 DEF Complete, poolVars, TypeOK, UnitHeld
  <2>2. \A v \in Workers : unit[v] = unit[w] => v = w
    BY <2>1 DEF RunOnce
  <2>3. RunningUnits' = RunningUnits \ {unit[w]}
    BY <2>1, <2>2 DEF TypeOK, RunningUnits
  <2>4. unit[w] \in RunningUnits
    BY <2>1 DEF RunningUnits
  <2> QED
    BY <2>1, <2>3, <2>4 DEF Service!Done, RunningUnits
<1>5. ASSUME NEW c \in Clients, NEW u \in Units, AddWork(c, u)
      PROVE  Service!Submit(u)
  BY <1>5 DEF AddWork, MayCall, Service!Submit
<1>6. ASSUME NEW c \in Clients, WaitCall(c)
      PROVE  Service!BeginWait(c)
  BY <1>6 DEF WaitCall, MayCall, poolVars, history, TypeOK, InCall, Service!BeginWait
<1>7. ASSUME NEW c \in Clients, Destroy(c)
      PROVE  Service!ShutDown(c)
  BY <1>7 DEF Destroy, MayCall, history, TypeOK, InCall, Service!ShutDown
<1>8. ASSUME NEW c \in Clients, WaitBlock(c) \/ SpuriousClientWake(c)
      PROVE  UNCHANGED Service!svars
  BY <1>8, AtSet, ServiceStutters DEF WaitBlock, SpuriousClientWake, poolVars, history
<1>9. ASSUME NEW c \in Clients, WaitReturn(c)
      PROVE  Service!EndWait(c)
  <2>1. RunningUnits = {}
    BY <1>9, WaitEndsIdle DEF RunningUnits
  <2> QED
    BY <1>9, <2>1 DEF WaitReturn, history, TypeOK, IdleClient, RunningUnits, Service!EndWait
<1> QED
  BY <1>1, <1>2, <1>3, <1>4, <1>5, <1>6, <1>7, <1>8, <1>9 DEF Next, vars, poolVars, history,
    WorkerStep, Sleep, SpuriousWorkerWake, ClientCall, ClientCheck, Service!Next

\* Every behaviour of the pool is a behaviour of the abstract service.
THEOREM OneQueueRefines == Spec => ImplementsService
<1>1. Init => Service!Init
  BY DEF Init, Service!Init, IdleClient
<1> QED
  BY <1>1, ServiceStep, OneQueueInvariant, PTL DEF Spec, ImplementsService, Service!Spec

----------------------------------------------------------------------------
(* The archived runtimes: the invariant *)

\* Only "oct18" puts threads to sleep, and only "oct22" lets them spin: with the
\* mutex held, and on a slot that has the other value.
WaitForms ==
    \A t \in Threads :
        /\ at[t] \in {"asleep", "woken"} => version = "oct18"
        /\ at[t] = "spin" => version = "oct22" /\ mutex = {t} /\ ~Released22(t)

\* Whoever waits in "oct18" came when the sense held threads: after an even
\* number of generations.
WaitersCameEven ==
    version = "oct18" =>
        \A t \in Threads :
            at[t] \in {"asleep", "woken"} => since[t] % 2 = 0 /\ since[t] <= releases

\* "oct22" before its first xbrtime_init: nobody was counted.
Unused22 ==
    version = "oct22" /\ config = "null" =>
        releases = 0 /\ counter = 0 /\ mutex = {}

\* "oct22" in its first generation: the slot already has the value waited for.
First22 ==
    version = "oct22" /\ config = "live" /\ releases = 0 =>
        slot = 1 /\ cfgSense = 0 /\ mutex = {}

\* "oct22" from its second generation on: the slot has the other value, and the
\* one thread that came holds the mutex.
Second22 ==
    version = "oct22" /\ releases > 0 /\ npes > 1 =>
        /\ releases = 1 /\ slot = cfgSense
        /\ counter > 0 => mutex # {}

BarrierInv ==
    /\ ArchivedTypeOK
    /\ WaitForms
    /\ SenseParity
    /\ NobodyLeftAsleep
    /\ WaitersCameEven
    /\ Unused22
    /\ First22
    /\ Second22

LEMMA Sizes == MAX_NUM_OF_THREADS \in Nat /\ MAX_NUM_OF_THREADS >= 1
BY MaxAssumption

LEMMA BarrierInvInit == ArchivedInit => BarrierInv
<1> SUFFICES ASSUME ArchivedInit PROVE BarrierInv
  OBVIOUS
<1>1. npes \in 1 .. MAX_NUM_OF_THREADS /\ npes \in Nat /\ npes >= 1
  BY Sizes DEF ArchivedInit, OneQueueCtor, Oct18Ctor, Oct22Ctor, Configured
<1>2. /\ version \in {"one", "oct18", "oct22"}
      /\ table \in {"heap", "stack", "null"}
  BY DEF ArchivedInit, OneQueueCtor, Oct18Ctor, Oct22Ctor
<1>3. ArchivedTypeOK
  BY <1>1, <1>2, BoundAssumption DEF ArchivedInit, ArchivedTypeOK
<1>4. WaitForms /\ NobodyLeftAsleep /\ WaitersCameEven
  BY DEF ArchivedInit, WaitForms, Released22, NobodyLeftAsleep, WaitersCameEven
<1>5. SenseParity /\ Unused22 /\ First22 /\ Second22
  BY DEF ArchivedInit, SenseParity, Unused22, First22, Second22
<1> QED
  BY <1>3, <1>4, <1>5 DEF BarrierInv

----------------------------------------------------------------------------
(* The life cycle preserves it *)

\* A step that leaves the barrier's words alone, and neither creates a
\* configuration nor brings "oct22" back to having none.
LEMMA WordsKept ==
    ASSUME BarrierInv, ArchivedTypeOK', UNCHANGED <<version, npes, barVars>>,
           version = "oct22" => /\ config' = "live" => config = "live"
                                /\ config' = "null" => config = "null"
    PROVE  BarrierInv'
<1> USE DEF BarrierInv, barVars
<1>1. Threads' = Threads /\ Held' = Held
  BY DEF Threads, Held
<1>2. (WaitForms /\ NobodyLeftAsleep /\ WaitersCameEven)'
  BY <1>1 DEF WaitForms, Released22, NobodyLeftAsleep, WaitersCameEven
<1>3. (SenseParity /\ Unused22 /\ First22 /\ Second22)'
  BY DEF SenseParity, Unused22, First22, Second22
<1> QED
  BY <1>2, <1>3

\* xbrtime_init sets the words of the barrier; that of "oct22" does so only
\* while there is no configuration, and never returns without one.
LEMMA WordsFresh ==
    ASSUME BarrierInv, ArchivedTypeOK', UNCHANGED <<version, npes>>, FreshBarrier,
           version = "oct22" => config = "null" /\ config' # "null"
    PROVE  BarrierInv'
<1> USE DEF BarrierInv, FreshBarrier
<1>1. Threads' = Threads
  BY DEF Threads
<1>2. WaitForms' /\ WaitersCameEven'
  BY <1>1 DEF WaitForms, Released22, Unused22, WaitersCameEven
<1>3. NobodyLeftAsleep'
  BY <1>1 DEF NobodyLeftAsleep, WaitForms, Released22, SenseParity, Held
<1>4. (SenseParity /\ Unused22 /\ First22 /\ Second22)'
  BY DEF SenseParity, Unused22, First22, Second22
<1> QED
  BY <1>2, <1>3, <1>4

LEMMA LifecyclePreserves ==
    ASSUME BarrierInv, Lifecycle \/ Dtor
    PROVE  BarrierInv'
<1>1. ArchivedTypeOK
  BY DEF BarrierInv
<1>2. ASSUME NEW f \in {"table", "null", "freed"}, Crash(f) PROVE BarrierInv'
  BY <1>1, <1>2, WordsKept DEF Crash, lifeVars, barVars, ArchivedTypeOK, Threads
<1>3. CASE ConfigFails
  <2>1. ArchivedTypeOK'
    BY <1>1, <1>3, BoundAssumption DEF ConfigFails, CallInit, Leaves, barVars, ArchivedTypeOK, Threads
  <2> QED
    BY <1>3, <2>1, WordsKept DEF ConfigFails, Leaves
<1>4. CASE OneQueueInit
  <2>1. ArchivedTypeOK'
    BY <1>1, <1>4, BoundAssumption DEF OneQueueInit, CallInit, Leaves, FreshBarrier,
      AfterFailure, ArchivedTypeOK, Threads
  <2> QED
    BY <1>4, <2>1, WordsFresh DEF OneQueueInit, Leaves
<1>5. CASE Oct18Init
  <2>1. ArchivedTypeOK'
    BY <1>1, <1>5, BoundAssumption DEF Oct18Init, CallInit, Leaves, FreshBarrier,
      AfterFailure, ArchivedTypeOK, Threads
  <2> QED
    BY <1>5, <2>1, WordsFresh DEF Oct18Init, Leaves
<1>6. CASE Oct22Refuse
  <2>1. ArchivedTypeOK'
    BY <1>1, <1>6, BoundAssumption DEF Oct22Refuse, CallInit, Leaves, barVars, ArchivedTypeOK, Threads
  <2> QED
    BY <1>6, <2>1, WordsKept DEF Oct22Refuse, Leaves
<1>7. CASE Oct22Init
  <2>1. /\ inits' \in 0 .. MaxInits
        /\ config' \in {"live", "dangling"} /\ mmap' \in {"null", "live"}
        /\ map' \in {"null", "live"}
        /\ UNCHANGED <<version, npes, table, phase, fault, id>>
    BY <1>1, <1>7, BoundAssumption DEF Oct22Init, CallInit, Leaves, AfterFailure, ArchivedTypeOK
  <2>2. config = "null"
    BY <1>7 DEF Oct22Init, MayInit22
  <2>3. CASE UNCHANGED barVars
    <3>1. config' = "dangling" \/ FreshBarrier
      BY <1>7, <2>3 DEF Oct22Init, Leaves, AfterFailure
    <3>2. CASE config' = "dangling"
      <4>1. ArchivedTypeOK'
        BY <1>1, <2>1, <2>3 DEF barVars, ArchivedTypeOK, Threads
      <4> QED
        BY <2>1, <2>2, <2>3, <3>2, <4>1, WordsKept
    <3>3. CASE FreshBarrier
      <4>1. ArchivedTypeOK'
        BY <1>1, <2>1, <2>3 DEF barVars, ArchivedTypeOK, Threads
      <4> QED
        BY <2>1, <2>2, <3>3, <4>1, WordsFresh
    <3> QED
      BY <3>1, <3>2, <3>3
  <2>4. CASE FreshBarrier
    <3>1. ArchivedTypeOK'
      BY <1>1, <2>1, <2>4 DEF FreshBarrier, ArchivedTypeOK, Threads
    <3> QED
      BY <2>1, <2>2, <2>4, <3>1, WordsFresh
  <2> QED
    BY <1>7, <2>3, <2>4 DEF Oct22Init
<1>8. CASE Close
  <2>1. ArchivedTypeOK'
    BY <1>1, <1>8 DEF Close, AfterClose, barVars, ArchivedTypeOK, Threads
  <2> QED
    BY <1>8, <2>1, WordsKept DEF Close, AfterClose
<1>9. CASE Exits
  <2>1. ArchivedTypeOK'
    BY <1>1, <1>9 DEF Exits, barVars, ArchivedTypeOK, Threads
  <2> QED
    BY <1>9, <2>1, WordsKept DEF Exits
<1> QED
  BY <1>2, <1>3, <1>4, <1>5, <1>6, <1>7, <1>8, <1>9 DEF Lifecycle, Dtor, InitFaults,
    CloseFaults, DtorFaults, OneQueueDtor, Oct18Dtor, Oct22Dtor

----------------------------------------------------------------------------
(* So do the barrier's steps *)

\* An arrival that is not counted: without a barrier, or without a configuration.
LEMMA UncountedPreserves ==
    ASSUME BarrierInv, NEW t \in Threads, OneQueueBarrier(t) \/ Oct22NoConfig(t)
    PROVE  BarrierInv'
<1> USE DEF BarrierInv
<1>1. /\ UNCHANGED <<lifeVars, fault, counter, sense, slot, cfgSense, mutex, at, releases, awaits, since>>
      /\ calls[t] < MaxCalls /\ calls' = [calls EXCEPT ![t] = @ + 1]
  BY DEF OneQueueBarrier, Oct22NoConfig, Enter, MayEnter
<1>2. Threads' = Threads /\ Held' = Held
  BY <1>1 DEF Threads, Held, lifeVars
<1>3. ArchivedTypeOK'
  <2>1. calls' \in [Threads -> 0 .. MaxCalls]
    BY <1>1, BoundAssumption DEF ArchivedTypeOK
  <2> QED
    BY <1>1, <1>2, <2>1 DEF ArchivedTypeOK, lifeVars
<1>4. (WaitForms /\ NobodyLeftAsleep /\ WaitersCameEven)'
  BY <1>1, <1>2 DEF WaitForms, Released22, NobodyLeftAsleep, WaitersCameEven, lifeVars
<1>5. (SenseParity /\ Unused22 /\ First22 /\ Second22)'
  BY <1>1 DEF SenseParity, Unused22, First22, Second22, lifeVars
<1> QED
  BY <1>3, <1>4, <1>5

\* What an arrival does to the counts, whatever the barrier.
LEMMA ArrivalCounts ==
    ASSUME ArchivedTypeOK, NEW t \in Threads, Enter(t)
    PROVE  /\ Threads' = Threads /\ at[t] = "out"
           /\ calls' \in [Threads' -> 0 .. MaxCalls]
           /\ UNCHANGED <<lifeVars, fault>>
<1>1. calls[t] < MaxCalls /\ calls' = [calls EXCEPT ![t] = @ + 1] /\ at[t] = "out"
  BY DEF Enter, MayEnter
<1>2. calls' \in [Threads -> 0 .. MaxCalls]
  BY <1>1, BoundAssumption DEF ArchivedTypeOK
<1> QED
  BY <1>1, <1>2 DEF Enter, lifeVars, Threads

LEMMA Oct18LastPreserves ==
    ASSUME BarrierInv, NEW t \in Threads, Oct18Last(t)
    PROVE  BarrierInv'
<1> USE DEF BarrierInv
<1>1. /\ version = "oct18" /\ counter' = 0 /\ sense' = 1 - sense
      /\ at' = [u \in Threads |-> IF at[u] = "asleep" THEN "woken" ELSE at[u]]
      /\ releases' = releases + 1
      /\ UNCHANGED <<slot, cfgSense, mutex, awaits, since>>
  BY DEF Oct18Last, AfterLast, Toggled, Woken
<1>2. /\ Threads' = Threads /\ calls' \in [Threads' -> 0 .. MaxCalls]
      /\ UNCHANGED <<lifeVars, fault>>
  BY ArrivalCounts DEF Oct18Last
<1>3. ArchivedTypeOK'
  BY <1>1, <1>2 DEF ArchivedTypeOK, lifeVars
<1>4. SenseParity'
  BY <1>1, <1>2 DEF SenseParity, lifeVars, ArchivedTypeOK
<1>5. (WaitForms /\ NobodyLeftAsleep /\ WaitersCameEven)'
  BY <1>1, <1>2 DEF WaitForms, Released22, NobodyLeftAsleep, WaitersCameEven, lifeVars, ArchivedTypeOK
<1>6. (Unused22 /\ First22 /\ Second22)'
  BY <1>1, <1>2 DEF Unused22, First22, Second22, lifeVars
<1> QED
  BY <1>3, <1>4, <1>5, <1>6

LEMMA Oct18ArrivePreserves ==
    ASSUME BarrierInv, NEW t \in Threads, Oct18Arrive(t)
    PROVE  BarrierInv'
<1> USE DEF BarrierInv
<1>1. /\ version = "oct18" /\ counter + 1 # npes /\ counter' = counter + 1
      /\ at' = [at EXCEPT ![t] = IF Held THEN "asleep" ELSE "out"]
      /\ since' = [since EXCEPT ![t] = releases]
      /\ UNCHANGED <<sense, slot, cfgSense, mutex, releases, awaits>>
  BY DEF Oct18Arrive
<1>2. /\ Threads' = Threads /\ calls' \in [Threads' -> 0 .. MaxCalls]
      /\ UNCHANGED <<lifeVars, fault>>
  BY ArrivalCounts DEF Oct18Arrive
<1>3. Held' = Held /\ (Held => releases % 2 = 0)
  BY <1>1, <1>2 DEF Held, SenseParity, ArchivedTypeOK
<1>4. ArchivedTypeOK'
  <2>1. at' \in [Threads -> {"out", "asleep", "woken", "spin"}] /\ since' \in [Threads -> Nat]
    BY <1>1 DEF ArchivedTypeOK
  <2>2. counter' \in 0 .. npes - 1
    BY <1>1 DEF ArchivedTypeOK
  <2> QED
    BY <1>1, <1>2, <2>1, <2>2 DEF ArchivedTypeOK, lifeVars
<1>5. (WaitForms /\ NobodyLeftAsleep)'
  BY <1>1, <1>2, <1>3 DEF WaitForms, Released22, NobodyLeftAsleep, lifeVars, ArchivedTypeOK
<1>6. WaitersCameEven'
  BY <1>1, <1>2, <1>3 DEF WaitersCameEven, lifeVars, ArchivedTypeOK
<1>7. (SenseParity /\ Unused22 /\ First22 /\ Second22)'
  BY <1>1, <1>2 DEF SenseParity, Unused22, First22, Second22, lifeVars
<1> QED
  BY <1>4, <1>5, <1>6, <1>7

LEMMA Oct18WakePreserves ==
    ASSUME BarrierInv, NEW t \in Threads, Oct18Recheck(t) \/ SpuriousWake(t)
    PROVE  BarrierInv'
<1> USE DEF BarrierInv
<1>1. /\ at[t] \in {"asleep", "woken"}
      /\ \E a \in {"asleep", "woken", "out"} :
            at' = [at EXCEPT ![t] = a] /\ (a = "asleep" => Held)
      /\ UNCHANGED <<lifeVars, fault, counter, sense, slot, cfgSense, mutex, calls, releases,
                     awaits, since>>
  BY DEF Oct18Recheck, SpuriousWake
<1>2. Threads' = Threads /\ Held' = Held
  BY <1>1 DEF Threads, Held, lifeVars
<1>3. ArchivedTypeOK'
  BY <1>1, <1>2 DEF ArchivedTypeOK, lifeVars
<1>4. (WaitForms /\ NobodyLeftAsleep /\ WaitersCameEven)'
  BY <1>1, <1>2 DEF WaitForms, Released22, NobodyLeftAsleep, WaitersCameEven, lifeVars, ArchivedTypeOK
<1>5. (SenseParity /\ Unused22 /\ First22 /\ Second22)'
  BY <1>1 DEF SenseParity, Unused22, First22, Second22, lifeVars
<1> QED
  BY <1>3, <1>4, <1>5

LEMMA Oct22LastPreserves ==
    ASSUME BarrierInv, NEW t \in Threads, Oct22Last(t)
    PROVE  BarrierInv'
<1> USE DEF BarrierInv
<1>1. /\ version = "oct22" /\ config = "live" /\ mutex = {} /\ counter + 1 >= npes
      /\ counter' = 0 /\ slot' = 1 - cfgSense /\ cfgSense' = 1 - cfgSense
      /\ releases' = releases + 1
      /\ UNCHANGED <<sense, mutex, at, awaits, since>>
  BY DEF Oct22Last, AfterLast
<1>2. /\ Threads' = Threads /\ calls' \in [Threads' -> 0 .. MaxCalls]
      /\ UNCHANGED <<lifeVars, fault>>
  BY ArrivalCounts DEF Oct22Last
<1>3. ArchivedTypeOK'
  BY <1>1, <1>2 DEF ArchivedTypeOK, lifeVars
<1>4. (WaitForms /\ NobodyLeftAsleep /\ WaitersCameEven)'
  BY <1>1, <1>2 DEF WaitForms, Released22, NobodyLeftAsleep, WaitersCameEven, lifeVars
<1>5. (SenseParity /\ Unused22 /\ First22)'
  BY <1>1, <1>2 DEF SenseParity, Unused22, First22, lifeVars, ArchivedTypeOK
<1>6. npes > 1 => releases = 0
  BY <1>1 DEF Second22, ArchivedTypeOK
<1>7. Second22'
  BY <1>1, <1>2, <1>6 DEF Second22, lifeVars
<1> QED
  BY <1>3, <1>4, <1>5, <1>7

LEMMA Oct22ArrivePreserves ==
    ASSUME BarrierInv, NEW t \in Threads, Oct22Arrive(t)
    PROVE  BarrierInv'
<1> USE DEF BarrierInv
<1>1. /\ version = "oct22" /\ config = "live" /\ mutex = {} /\ counter + 1 < npes
      /\ counter' = counter + 1
      /\ \/ slot = 1 - cfgSense /\ UNCHANGED <<at, mutex>>
         \/ /\ slot # 1 - cfgSense
            /\ at' = [at EXCEPT ![t] = "spin"] /\ mutex' = {t}
      /\ awaits' = [awaits EXCEPT ![t] = 1 - cfgSense]
      /\ since' = [since EXCEPT ![t] = releases]
      /\ UNCHANGED <<sense, slot, cfgSense, releases>>
  BY DEF Oct22Arrive
<1>2. /\ Threads' = Threads /\ calls' \in [Threads' -> 0 .. MaxCalls]
      /\ UNCHANGED <<lifeVars, fault>>
  BY ArrivalCounts DEF Oct22Arrive
<1>3. ArchivedTypeOK'
  <2>1. /\ at' \in [Threads -> {"out", "asleep", "woken", "spin"}]
        /\ since' \in [Threads -> Nat] /\ mutex' \subseteq Threads
        /\ awaits' \in [Threads -> 0 .. 1]
    BY <1>1 DEF ArchivedTypeOK
  <2>2. counter' \in 0 .. npes - 1
    BY <1>1 DEF ArchivedTypeOK
  <2> QED
    BY <1>1, <1>2, <2>1, <2>2 DEF ArchivedTypeOK, lifeVars
<1>4. \A u \in Threads : at[u] \in {"out", "spin"} /\ at[u] # "spin"
  BY <1>1 DEF WaitForms, Released22, ArchivedTypeOK
<1>5. (WaitForms /\ NobodyLeftAsleep /\ WaitersCameEven)'
  BY <1>1, <1>2, <1>4 DEF WaitForms, Released22, NobodyLeftAsleep, WaitersCameEven, lifeVars, ArchivedTypeOK
<1>6. (SenseParity /\ Unused22 /\ First22)'
  BY <1>1, <1>2 DEF SenseParity, Unused22, First22, lifeVars, ArchivedTypeOK
<1>7. Second22'
  <2>1. slot = cfgSense => mutex' # {}
    <3>1. slot = cfgSense => slot # 1 - cfgSense
      BY DEF ArchivedTypeOK
    <3> QED
      BY <1>1, <3>1
  <2> QED
    BY <1>1, <1>2, <2>1 DEF Second22, lifeVars
<1> QED
  BY <1>3, <1>5, <1>6, <1>7

\* A spinning thread finds the slot as it was.
LEMMA Oct22SpinStutters ==
    ASSUME BarrierInv, NEW t \in Threads, Oct22Spin(t)
    PROVE  UNCHANGED archivedVars
<1>1. ~Released22(t)
  BY DEF Oct22Spin, BarrierInv, WaitForms
<1> QED
  BY <1>1 DEF Oct22Spin, archivedVars, barVars

LEMMA BarrierInvStep == BarrierInv /\ [ArchivedNext]_archivedVars => BarrierInv'
<1> SUFFICES ASSUME BarrierInv, [ArchivedNext]_archivedVars PROVE BarrierInv'
  OBVIOUS
<1>1. ASSUME UNCHANGED archivedVars PROVE BarrierInv'
  <2>1. ArchivedTypeOK'
    BY <1>1 DEF archivedVars, lifeVars, barVars, BarrierInv, ArchivedTypeOK, Threads
  <2> QED
    BY <1>1, <2>1, WordsKept DEF archivedVars, lifeVars
<1>2. ASSUME NEW t \in Threads, NEW f \in {"table", "null", "freed"}, Crash(f)
      PROVE  BarrierInv'
  <2>1. ArchivedTypeOK'
    BY <1>2 DEF Crash, lifeVars, barVars, BarrierInv, ArchivedTypeOK, Threads
  <2> QED
    BY <1>2, <2>1, WordsKept DEF Crash, lifeVars
<1>3. ASSUME NEW t \in Threads, Barrier(t) \/ Continue(t) \/ SpuriousWake(t)
      PROVE  BarrierInv'
  BY <1>1, <1>2, <1>3, UncountedPreserves, Oct18LastPreserves, Oct18ArrivePreserves,
    Oct18WakePreserves, Oct22LastPreserves, Oct22ArrivePreserves, Oct22SpinStutters
    DEF Barrier, Continue, OneQueueFaults, Oct18Faults, Oct18RecheckFaults, Oct22Faults
<1> QED
  BY <1>1, <1>3, LifecyclePreserves DEF ArchivedNext

\* The invariant holds in every reachable state.
THEOREM ArchivedInvariant == ArchivedSpec => []BarrierInv
BY BarrierInvInit, BarrierInvStep, PTL DEF ArchivedSpec

\* Type correctness: the counter stays below the number of PEs.
THEOREM ArchivedTypes == ArchivedSpec => []ArchivedTypeOK
BY ArchivedInvariant, PTL DEF BarrierInv

\* The sense of "oct18" is the parity of its generations.
THEOREM SenseIsParity == ArchivedSpec => []SenseParity
BY ArchivedInvariant, PTL DEF BarrierInv

\* Nobody sleeps in "oct18" while the sense would let him go.
THEOREM SleepersHeld == ArchivedSpec => []NobodyLeftAsleep
BY ArchivedInvariant, PTL DEF BarrierInv

\* "oct22" gets through one generation, with any number of PEs above one.
THEOREM OneGeneration == ArchivedSpec => []OneGenerationPerInit
<1>1. BarrierInv => OneGenerationPerInit
  BY DEF BarrierInv, ArchivedTypeOK, Second22, OneGenerationPerInit
<1> QED
  BY ArchivedInvariant, <1>1, PTL

\* At most one thread spins.
THEOREM SpinnerAlone == ArchivedSpec => []OneSpinner
<1>1. BarrierInv => OneSpinner
  BY DEF BarrierInv, WaitForms, Released22, OneSpinner
<1> QED
  BY ArchivedInvariant, <1>1, PTL

\* "oct18" lets a waiter go exactly after an odd number of generations.
THEOREM OddReleases == ArchivedSpec => LeavesAfterOddReleases
<1>1. BarrierInv /\ [ArchivedNext]_archivedVars =>
        [\A t \in Threads :
            at[t] = "woken" /\ at'[t] # at[t] =>
                (at'[t] = "out" <=> (releases - since[t]) % 2 = 1)]_archivedVars
  <2> SUFFICES ASSUME BarrierInv, [ArchivedNext]_archivedVars, NEW t \in Threads,
                      at[t] = "woken", at'[t] # at[t]
               PROVE  at'[t] = "out" <=> (releases - since[t]) % 2 = 1
    OBVIOUS
  <2> USE DEF BarrierInv
  <2>1. Oct18Recheck(t)
    <3>1. at' # at
      OBVIOUS
    <3>2. ASSUME NEW u \in Threads, u # t, NEW a, at' = [at EXCEPT ![u] = a] PROVE FALSE
      BY <3>2 DEF ArchivedTypeOK
    <3>3. ASSUME NEW u \in Threads, at[u] = "out" \/ at[u] = "asleep", NEW a,
                 at' = [at EXCEPT ![u] = a]
          PROVE  FALSE
      BY <3>2, <3>3
    <3>4. ~(at' \in Woken)
      BY DEF Woken
    <3>5. ASSUME NEW u \in Threads, Barrier(u) \/ Continue(u) \/ SpuriousWake(u)
          PROVE  Oct18Recheck(t)
      BY <3>1, <3>2, <3>3, <3>4, <3>5, Oct22SpinStutters DEF archivedVars, Barrier, Continue, SpuriousWake, OneQueueBarrier,
        OneQueueFaults, Oct18Last, Oct18Arrive, Oct18Faults, Oct22NoConfig, Oct22Last,
        Oct22Arrive, Oct18Recheck, Oct18RecheckFaults, Oct22Faults, Crash, Enter, MayEnter,
        barVars
    <3>6. ~Lifecycle /\ ~Dtor
      BY <3>1 DEF Lifecycle, Dtor, ConfigFails, OneQueueInit, Oct18Init, Oct22Refuse, Oct22Init,
        InitFaults, Close, CloseFaults, OneQueueDtor, Oct18Dtor, Oct22Dtor, DtorFaults, Exits,
        Crash, FreshBarrier, barVars
    <3> QED
      BY <3>1, <3>5, <3>6 DEF ArchivedNext, archivedVars, barVars
  <2>2. /\ version = "oct18" /\ since[t] % 2 = 0 /\ since[t] <= releases
        /\ since[t] \in Nat /\ releases \in Nat
        /\ at'[t] = IF Held THEN "asleep" ELSE "out"
    BY <2>1 DEF Oct18Recheck, WaitersCameEven, ArchivedTypeOK
  <2>3. Held <=> releases % 2 = 0
    BY <2>2 DEF Held, SenseParity, ArchivedTypeOK
  <2> QED
    BY <2>2, <2>3
<1> QED
  BY <1>1, ArchivedInvariant, PTL DEF ArchivedSpec, LeavesAfterOddReleases

\* Once a thread spins nobody enters or leaves the barrier of "oct22", itself
\* included: whoever could change the slot it looks at needs the mutex it holds, or
\* a configuration pointer that is NULL, which it never is again.
THEOREM SpinnerBlocks == ArchivedSpec => SpinnerStopsAll
<1>1. BarrierInv /\ [ArchivedNext]_archivedVars =>
        [(\E t \in Threads : at[t] = "spin") =>
            /\ at' = at /\ calls' = calls /\ releases' = releases]_archivedVars
  <2> SUFFICES ASSUME BarrierInv, [ArchivedNext]_archivedVars, NEW t \in Threads, at[t] = "spin"
               PROVE  at' = at /\ calls' = calls /\ releases' = releases
    OBVIOUS
  <2> USE DEF BarrierInv
  <2>1. version = "oct22" /\ mutex = {t} /\ mutex # {} /\ config # "null"
    BY DEF WaitForms, Released22, Unused22
  <2>2. ASSUME NEW u \in Threads, Barrier(u) PROVE FALSE
    BY <2>1, <2>2 DEF Barrier, OneQueueBarrier, Oct18Last, Oct18Arrive, Oct18Faults,
      OneQueueFaults, Oct22NoConfig, Oct22Last, Oct22Arrive
  <2>3. ASSUME NEW u \in Threads, at[u] \in {"asleep", "woken"} PROVE FALSE
    BY <2>1, <2>3 DEF WaitForms, Released22
  <2>4. ASSUME NEW u \in Threads, Continue(u) \/ SpuriousWake(u) PROVE UNCHANGED barVars
    BY <2>3, <2>4, Oct22SpinStutters DEF Continue, SpuriousWake, Oct18Recheck,
      Oct18RecheckFaults, Oct22Faults, Crash, archivedVars
  <2>5. ASSUME Lifecycle \/ Dtor PROVE at' = at /\ calls' = calls /\ releases' = releases
    BY <2>5 DEF Lifecycle, Dtor, ConfigFails, OneQueueInit, Oct18Init, Oct22Refuse, Oct22Init,
      InitFaults, Close, CloseFaults, OneQueueDtor, Oct18Dtor, Oct22Dtor, DtorFaults, Exits,
      Crash, FreshBarrier, barVars
  <2> QED
    BY <2>2, <2>4, <2>5 DEF ArchivedNext, archivedVars, barVars
<1> QED
  BY <1>1, ArchivedInvariant, PTL DEF ArchivedSpec, SpinnerStopsAll

\* A configuration that xbrtime_init reported ready has its two tables: no path
\* of the three versions returns with half of them, and none frees a table while
\* it keeps the configuration.
THEOREM LiveTables == ArchivedSpec => []LiveConfigComplete
<1>1. ArchivedInit => LiveConfigComplete
  BY DEF ArchivedInit, LiveConfigComplete
<1>2. LiveConfigComplete /\ [ArchivedNext]_archivedVars => LiveConfigComplete'
  <2> SUFFICES ASSUME LiveConfigComplete, ArchivedNext PROVE LiveConfigComplete'
    BY DEF LiveConfigComplete, archivedVars, lifeVars
  <2> USE DEF LiveConfigComplete
  <2>1. ASSUME Lifecycle \/ Dtor PROVE LiveConfigComplete'
    BY <2>1 DEF Lifecycle, Dtor, ConfigFails, OneQueueInit, Oct18Init, Oct22Refuse, Oct22Init,
      InitFaults, Close, CloseFaults, OneQueueDtor, Oct18Dtor, Oct22Dtor, DtorFaults, Exits,
      Crash, Leaves, AfterFailure, AfterClose, lifeVars
  <2>2. ASSUME NEW t \in Threads, Barrier(t) \/ Continue(t) \/ SpuriousWake(t)
        PROVE  LiveConfigComplete'
    BY <2>2 DEF Barrier, Continue, SpuriousWake, OneQueueBarrier, OneQueueFaults, Oct18Last,
      Oct18Arrive, Oct18Faults, Oct22NoConfig, Oct22Last, Oct22Arrive, Oct18Recheck,
      Oct18RecheckFaults, Oct22Spin, Oct22Faults, Crash, Enter, lifeVars
  <2> QED
    BY <2>1, <2>2 DEF ArchivedNext
<1> QED
  BY <1>1, <1>2, PTL DEF ArchivedSpec

\* The runtime of "oct22" is initialised once.
THEOREM InitialisedOnce == ArchivedSpec => NoWayBack22
<1>1. [ArchivedNext]_archivedVars =>
        [version = "oct22" /\ config = "dangling" =>
            config' = "dangling" /\ releases' = releases]_archivedVars
  <2> SUFFICES ASSUME ArchivedNext, version = "oct22", config = "dangling"
               PROVE  config' = "dangling" /\ releases' = releases
    BY DEF archivedVars
  <2>1. ASSUME Lifecycle \/ Dtor PROVE config' = "dangling" /\ releases' = releases
    BY <2>1 DEF Lifecycle, Dtor, ConfigFails, OneQueueInit, Oct18Init, Oct22Refuse, Oct22Init,
      MayInit22, InitFaults, Close, CloseFaults, OneQueueDtor, Oct18Dtor, Oct22Dtor, DtorFaults,
      Exits, Crash, Leaves, lifeVars, barVars
  <2>2. ASSUME NEW t \in Threads, Barrier(t) \/ Continue(t) \/ SpuriousWake(t)
        PROVE  config' = "dangling" /\ releases' = releases
    BY <2>2 DEF Barrier, Continue, SpuriousWake, OneQueueBarrier, OneQueueFaults, Oct18Last,
      Oct18Arrive, Oct18Faults, Oct22NoConfig, Oct22Last, Oct22Arrive, Oct18Recheck,
      Oct18RecheckFaults, Oct22Spin, Oct22Faults, Crash, lifeVars, barVars
  <2> QED
    BY <2>1, <2>2 DEF ArchivedNext
<1> QED
  BY <1>1, PTL DEF ArchivedSpec, NoWayBack22
=============================================================================
