---------------------------- MODULE BarrierProofs ----------------------------
(***************************************************************************)
(* Proofs about Barrier, for every number of PEs from 1 to 16 and every    *)
(* set of calling threads.                                                 *)
(***************************************************************************)
EXTENDS Barrier, FiniteSetTheorems, TLAPS

\* A thread is inside the barrier only after a first release: until then the
\* slots hold what its arrivals wait for.
InsideAfterRelease ==
    \A t \in Threads : at[t] # "out" => releases > 0

\* Until the first release the sense and the slots are as initialised.
SlotsInitially ==
    releases = 0 => sense = Zero /\ slots[ID] = Ones

\* In the first generation whoever entered has left.
LeftAtOnce ==
    releases = 0 => \A t \in Threads : left[t] = entered[t]

BarrierInv ==
    /\ TypeOK
    /\ SlotsFollowSense
    /\ SlotsInitially
    /\ InsideAfterRelease
    /\ LeftAtOnce

LEMMA Values == Zero # Ones /\ Zero # Tens /\ Ones # Tens
BY DEF Zero, Ones, Tens

LEMMA BarrierInvInit == Init => BarrierInv
BY NumAssumption DEF Init, BarrierInv, TypeOK, SlotsFollowSense, SlotsInitially,
  InsideAfterRelease, LeftAtOnce, Slot, ID

\* The loop condition of a waiter holds from the first release on.
LEMMA MustWaitAfterRelease ==
    ASSUME BarrierInv, releases > 0
    PROVE  MustWait
<1>1. slots[ID] = sense
  BY NumAssumption DEF BarrierInv, SlotsFollowSense, ID
<1> QED
  BY <1>1, Values DEF MustWait, Flip, BarrierInv, TypeOK

LEMMA BarrierInvStep == BarrierInv /\ [Next]_vars => BarrierInv'
<1> SUFFICES ASSUME BarrierInv, [Next]_vars PROVE BarrierInv'
  OBVIOUS
<1> USE Values DEF BarrierInv
<1>1. CASE UNCHANGED vars
  BY <1>1 DEF vars, barrierVars, history, TypeOK, SlotsFollowSense, SlotsInitially,
    InsideAfterRelease, LeftAtOnce
<1>2. ASSUME NEW t \in Threads, ArriveAndWait(t) PROVE BarrierInv'
  <2>1. TypeOK'
    BY <1>2, NumAssumption DEF ArriveAndWait, IsLast, Enter, TypeOK
  <2>2. releases > 0
    BY <1>2 DEF ArriveAndWait, MustWait, SlotsInitially, Flip, TypeOK
  <2> QED
    BY <1>2, <2>1, <2>2 DEF ArriveAndWait, TypeOK, SlotsFollowSense, SlotsInitially,
      InsideAfterRelease, LeftAtOnce
<1>3. ASSUME NEW t \in Threads, ArriveAndPass(t) PROVE BarrierInv'
  <2>1. TypeOK'
    BY <1>3, NumAssumption DEF ArriveAndPass, IsLast, Enter, Leave, TypeOK
  <2>2. LeftAtOnce'
    BY <1>3 DEF ArriveAndPass, Enter, Leave, TypeOK, LeftAtOnce
  <2> QED
    BY <1>3, <2>1, <2>2 DEF ArriveAndPass, SlotsFollowSense, SlotsInitially,
      InsideAfterRelease
<1>4. ASSUME NEW t \in Threads, ArriveLast(t) PROVE BarrierInv'
  <2>1. TypeOK'
    BY <1>4, NumAssumption DEF ArriveLast, Flipped, Enter, Leave, TypeOK, Flip, Slot
  <2>2. releases' > 0
    BY <1>4 DEF ArriveLast, TypeOK
  <2>3. SlotsFollowSense'
    BY <1>4, NumAssumption DEF ArriveLast, Flipped, SlotsFollowSense, Slot
  <2> QED
    BY <2>1, <2>2, <2>3 DEF SlotsInitially, InsideAfterRelease, LeftAtOnce, TypeOK
<1>5. ASSUME NEW t \in Threads, Recheck(t) PROVE BarrierInv'
  <2>1. releases > 0
    BY <1>5 DEF Recheck, InsideAfterRelease
  <2>2. TypeOK'
    BY <1>5 DEF Recheck, barrierVars, TypeOK
  <2> QED
    BY <1>5, <2>1, <2>2 DEF Recheck, barrierVars, SlotsFollowSense, SlotsInitially,
      InsideAfterRelease, LeftAtOnce, TypeOK
<1>6. ASSUME NEW t \in Threads, SpuriousWake(t) PROVE BarrierInv'
  BY <1>6 DEF SpuriousWake, barrierVars, history, TypeOK, SlotsFollowSense, SlotsInitially,
    InsideAfterRelease, LeftAtOnce
<1> QED
  BY <1>1, <1>2, <1>3, <1>4, <1>5, <1>6 DEF Next, Arrive

THEOREM BarrierInvariant == Spec => []BarrierInv
BY BarrierInvInit, BarrierInvStep, PTL DEF Spec

\* From the first release on, the slot waiters read equals the sense.
THEOREM SlotsEqualSense == Spec => []SlotsFollowSense
BY BarrierInvariant, PTL DEF BarrierInv

\* Nobody waits in the first generation.
THEOREM FirstGeneration == Spec => []FirstGenerationPasses
<1>1. BarrierInv => FirstGenerationPasses
  BY DEF BarrierInv, TypeOK, InsideAfterRelease, LeftAtOnce, FirstGenerationPasses
<1> QED
  BY <1>1, BarrierInvariant, PTL

\* A thread that waits in the barrier never leaves it.
THEOREM WaitersNeverLeave == Spec => SleepersStuck
<1>1. BarrierInv /\ [Next]_vars =>
        [\A t \in Threads : at[t] # "out" => at'[t] # "out"]_vars
  <2> SUFFICES ASSUME BarrierInv, [Next]_vars, NEW t \in Threads, at[t] # "out"
               PROVE  at'[t] # "out"
    OBVIOUS
  <2>1. MustWait
    BY MustWaitAfterRelease DEF BarrierInv, InsideAfterRelease
  <2> QED
    BY <2>1 DEF Next, vars, Arrive, ArriveAndWait, ArriveAndPass, ArriveLast, Enter,
      Recheck, SpuriousWake, BarrierInv, TypeOK
<1> QED
  BY <1>1, BarrierInvariant, PTL DEF Spec, SleepersStuck

LEMMA ArrivalsInit == Init => CounterCountsArrivals
BY NumAssumption DEF Init, CounterCountsArrivals

LEMMA ArrivalsStep == TypeOK /\ CounterCountsArrivals /\ [Next]_vars => CounterCountsArrivals'
<1> SUFFICES ASSUME TypeOK, CounterCountsArrivals, [Next]_vars
             PROVE  CounterCountsArrivals'
  OBVIOUS
<1> USE NumAssumption DEF TypeOK, CounterCountsArrivals
<1>1. CASE UNCHANGED <<arrivals, releases, counter>>
  BY <1>1
<1>2. ASSUME NEW t \in Threads, ArriveAndWait(t) \/ ArriveAndPass(t)
      PROVE  CounterCountsArrivals'
  <2>1. counter' = counter + 1 /\ arrivals' = arrivals + 1 /\ releases' = releases
    BY <1>2 DEF ArriveAndWait, ArriveAndPass, Enter
  <2>2. counter + 1 < Num
    BY <1>2 DEF ArriveAndWait, ArriveAndPass, IsLast
  <2>3. releases * Num \in Nat
    OBVIOUS
  <2> QED
    BY <2>1, <2>2, <2>3
<1>3. ASSUME NEW t \in Threads, ArriveLast(t) PROVE CounterCountsArrivals'
  <2>1. counter' = 0 /\ arrivals' = arrivals + 1 /\ releases' = releases + 1
    BY <1>3 DEF ArriveLast, Enter
  <2>2. counter + 1 = Num
    BY <1>3 DEF ArriveLast, IsLast
  <2>3. (releases + 1) * Num = releases * Num + Num
    OBVIOUS
  <2> QED
    BY <2>1, <2>2, <2>3
<1> QED
  BY <1>1, <1>2, <1>3 DEF Next, vars, barrierVars, history, Arrive, Recheck, SpuriousWake

\* The counter and the releases count the arrivals.
THEOREM ArrivalsCounted == Spec => []CounterCountsArrivals
<1>1. Spec => []TypeOK
  BY BarrierInvariant, PTL DEF BarrierInv
<1> QED
  BY <1>1, ArrivalsInit, ArrivalsStep, PTL DEF Spec

----------------------------------------------------------------------------
(* How many threads the barrier holds *)

Inside == {t \in Threads : at[t] # "out"}

\* The set of threads inside is finite, whatever Threads is.
InsideCounted == IsFiniteSet(Inside) /\ StuckCount

LEMMA InsideInit == Init => InsideCounted
<1> SUFFICES ASSUME Init PROVE InsideCounted
  OBVIOUS
<1>1. Inside = {} /\ releases = 0
  BY DEF Init, Inside
<1> QED
  BY <1>1, FS_EmptySet DEF InsideCounted, StuckCount, Inside

LEMMA InsideStep == BarrierInv /\ InsideCounted /\ [Next]_vars => InsideCounted'
<1> SUFFICES ASSUME BarrierInv, InsideCounted, [Next]_vars PROVE InsideCounted'
  OBVIOUS
<1> USE DEF InsideCounted
<1>1. /\ releases \in Nat /\ counter \in 0 .. Num - 1 /\ Num \in Nat
      /\ at \in [Threads -> {"out", "asleep", "woken"}]
  BY NumAssumption DEF BarrierInv, TypeOK
<1>2. /\ IsFiniteSet(Inside)
      /\ Cardinality(Inside) = IF releases = 0 THEN 0
                               ELSE (releases - 1) * (Num - 1) + counter
  BY DEF StuckCount, Inside
<1>3. ASSUME Inside' = Inside, UNCHANGED <<releases, counter>> PROVE InsideCounted'
  BY <1>2, <1>3 DEF StuckCount, Inside
<1>4. ASSUME NEW t \in Threads, ArriveAndWait(t) PROVE InsideCounted'
  <2>1. /\ t \notin Inside /\ Inside' = Inside \cup {t}
        /\ counter' = counter + 1 /\ releases' = releases
    BY <1>1, <1>4 DEF ArriveAndWait, Enter, Inside
  <2>2. releases > 0
    BY <1>4, Values DEF ArriveAndWait, MustWait, BarrierInv, SlotsInitially, TypeOK, Flip
  <2>3. IsFiniteSet(Inside') /\ Cardinality(Inside') = Cardinality(Inside) + 1
    BY <1>2, <2>1, FS_AddElement
  <2>4. (releases - 1) * (Num - 1) \in Int
    BY <1>1
  <2> QED
    BY <1>1, <1>2, <2>1, <2>2, <2>3, <2>4 DEF StuckCount, Inside
<1>5. ASSUME NEW t \in Threads, ArriveAndPass(t) PROVE InsideCounted'
  <2>1. Inside' = Inside /\ releases' = releases
    BY <1>5 DEF ArriveAndPass, Inside
  <2>2. releases = 0
    BY <1>1, <1>5, MustWaitAfterRelease DEF ArriveAndPass
  <2> QED
    BY <1>2, <2>1, <2>2 DEF StuckCount, Inside
<1>6. ASSUME NEW t \in Threads, ArriveLast(t) PROVE InsideCounted'
  <2>1. /\ Inside' = Inside /\ releases' = releases + 1
        /\ counter' = 0 /\ counter = Num - 1
    BY <1>1, <1>6 DEF ArriveLast, IsLast, Inside
  <2>2. CASE releases = 0
    BY <1>1, <1>2, <2>1, <2>2 DEF StuckCount, Inside
  <2>3. CASE releases # 0
    <3>1. (releases - 1) * (Num - 1) + (Num - 1) = (releases' - 1) * (Num - 1) + counter'
      BY <1>1, <2>1
    <3>2. Cardinality(Inside') = (releases' - 1) * (Num - 1) + counter'
      BY <1>2, <2>1, <2>3, <3>1
    <3>3. releases' # 0
      BY <1>1, <2>1
    <3> QED
      BY <1>2, <2>1, <3>2, <3>3 DEF StuckCount, Inside
  <2> QED
    BY <2>2, <2>3
<1>7. ASSUME NEW t \in Threads, Recheck(t) PROVE InsideCounted'
  <2>1. MustWait
    BY <1>7, MustWaitAfterRelease DEF Recheck, BarrierInv, InsideAfterRelease
  <2>2. Inside' = Inside
    BY <1>1, <1>7, <2>1 DEF Recheck, Inside
  <2> QED
    BY <1>3, <1>7, <2>2 DEF Recheck, barrierVars
<1>8. ASSUME NEW t \in Threads, SpuriousWake(t) PROVE InsideCounted'
  BY <1>1, <1>3, <1>8 DEF SpuriousWake, barrierVars, history, Inside
<1> QED
  BY <1>3, <1>4, <1>5, <1>6, <1>7, <1>8
    DEF Next, Arrive, vars, barrierVars, history, Inside

\* Every generation after the first holds Num - 1 of its arrivals for ever: the
\* number of threads inside follows from the releases and the counter.
THEOREM StuckCounted == Spec => []StuckCount
<1>1. InsideCounted => StuckCount
  BY DEF InsideCounted
<1> QED
  BY <1>1, InsideInit, InsideStep, BarrierInvariant, PTL DEF Spec
=============================================================================
