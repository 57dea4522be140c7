--------------------------- MODULE ProgramsProofs ---------------------------
(***************************************************************************)
(* Proofs about Programs, for every number of PEs from 1 to 16 and every   *)
(* bound of the model.  The proofs about the pool and the barrier are used *)
(* through instances: every step of a program is one of theirs, or leaves  *)
(* them alone.  The programs' own part is where the main thread is in its  *)
(* script, and what each unit in the pool was added for.                   *)
(***************************************************************************)
EXTENDS Programs, FiniteSetTheorems, TLAPS

----------------------------------------------------------------------------
(* The barrier in the composition *)

B == INSTANCE BarrierProofs WITH
    Threads <- PE \cup {Main}, MaxCalls <- MaxSteps + MaxTurns

\* The barrier's invariants.
BarrierKept == B!BarrierInv /\ B!InsideCounted /\ B!CounterCountsArrivals

\* A call of the barrier goes on, the main thread's or a task's.
BarrierStep ==
    \E t \in PE \cup {Main} : Bar!Arrive(t) \/ Bar!Recheck(t) \/ Bar!SpuriousWake(t)

\* A call of the barrier that goes on is a step of the barrier.
LEMMA BarrierStepIsNext == BarrierStep => B!Next
<1> SUFFICES ASSUME NEW t \in PE \cup {Main},
                    Bar!Arrive(t) \/ Bar!Recheck(t) \/ Bar!SpuriousWake(t)
             PROVE  B!Next
  BY DEF BarrierStep
<1> USE DEF B!barrierVars, Bar!barrierVars, B!history, Bar!history, B!Enter, Bar!Enter,
      B!IsLast, Bar!IsLast, B!MustWait, Bar!MustWait, B!ID, Bar!ID, B!Flip, Bar!Flip,
      B!Zero, Bar!Zero, B!Ones, Bar!Ones
<1>1. CASE Bar!ArriveAndWait(t)
  BY <1>1 DEF B!ArriveAndWait, Bar!ArriveAndWait, B!Next, B!Arrive
<1>2. CASE Bar!ArriveAndPass(t)
  BY <1>2 DEF B!ArriveAndPass, Bar!ArriveAndPass, B!Leave, Bar!Leave, B!Next, B!Arrive
<1>3. CASE Bar!ArriveLast(t)
  BY <1>3 DEF B!ArriveLast, Bar!ArriveLast, B!Leave, Bar!Leave, B!Flipped, Bar!Flipped,
    B!Slot, Bar!Slot, B!Next, B!Arrive
<1>4. CASE Bar!Recheck(t)
  BY <1>4 DEF B!Recheck, Bar!Recheck, B!Next
<1>5. CASE Bar!SpuriousWake(t)
  BY <1>5 DEF B!SpuriousWake, Bar!SpuriousWake, B!Next
<1> QED
  BY <1>1, <1>2, <1>3, <1>4, <1>5 DEF Bar!Arrive

\* A step of the program is one of the barrier, or leaves it alone.
LEMMA StepOfBarrier == [Next]_vars => BarrierStep \/ UNCHANGED barVars
<1> SUFFICES ASSUME [Next]_vars PROVE BarrierStep \/ UNCHANGED barVars
  OBVIOUS
<1>1. CASE UNCHANGED vars
  BY <1>1 DEF vars
<1>2. CASE MainStep
  BY <1>2 DEF MainStep, Submit, Wait, WaitBlocks, WaitReturns, MainBarrier, Free, Close, Release, End,
    BarrierStep
<1>3. ASSUME NEW p \in PE, RunTask(p) PROVE BarrierStep \/ UNCHANGED barVars
  BY <1>3 DEF RunTask, EnterBarrier, RunGet, RunOther, CheckUpdate, ApplyUpdate, RunReduce,
    BarrierStep
<1>4. ASSUME NEW p \in PE, WorkerLoop(p) PROVE UNCHANGED barVars
  BY <1>4 DEF WorkerLoop
<1>5. CASE PoolSpurious \/ BarrierSpurious \/ UpdateSpurious
  BY <1>5 DEF PoolSpurious, BarrierSpurious, UpdateSpurious, BarrierStep
<1> QED
  BY <1>1, <1>2, <1>3, <1>4, <1>5 DEF Next, WorkerStep

\* The barrier is empty at the start.
LEMMA BarrierKeptInit == Init => BarrierKept
<1>1. Bar!Init => B!Init
  BY DEF Bar!Init, B!Init, Bar!Zero, B!Zero, Bar!Ones, B!Ones, Bar!Tens, B!Tens,
    Bar!Slot, B!Slot
<1>2. Num \in 1 .. 16 /\ MaxSteps + MaxTurns \in Nat
  BY NumAssumption, BoundAssumption DEF MaxSteps, MaxTurns
<1> QED
  BY <1>1, <1>2, B!BarrierInvInit, B!InsideInit, B!ArrivalsInit
    DEF Init, BarrierKept, B!NumAssumption

\* No step of a program breaks what the barrier keeps.
LEMMA BarrierKeptStep == BarrierKept /\ [Next]_vars => BarrierKept'
<1> SUFFICES ASSUME BarrierKept, [Next]_vars PROVE BarrierKept'
  OBVIOUS
<1>1. B!Next \/ UNCHANGED B!vars
  BY StepOfBarrier, BarrierStepIsNext DEF barVars, B!vars, B!barrierVars, B!history
<1>2. Num \in 1 .. 16 /\ MaxSteps + MaxTurns \in Nat
  BY NumAssumption, BoundAssumption DEF MaxSteps, MaxTurns
<1>3. B!TypeOK
  BY DEF BarrierKept, B!BarrierInv
<1> QED
  BY <1>1, <1>2, <1>3, B!BarrierInvStep, B!InsideStep, B!ArrivalsStep
    DEF BarrierKept, B!NumAssumption

\* Whatever the program, the main thread and the tasks keep the barrier's own
\* invariants: who is inside, and what its counter has counted.
THEOREM BarrierHolds == Spec => []BarrierKept
BY BarrierKeptInit, BarrierKeptStep, PTL DEF Spec

\* The barrier's instance counts a set as this module does.
LEMMA SameCounting ==
    \A S : B!IsFiniteSet(S) = IsFiniteSet(S) /\ B!Cardinality(S) = Cardinality(S)
BY DEF B!IsFiniteSet, IsFiniteSet, B!Cardinality, Cardinality

\* Every generation of the barrier after the first keeps all but one of those
\* who arrived in it.
THEOREM OneServes == Spec => []OneSurvivor
<1>1. BarrierKept => OneSurvivor
  <2> SUFFICES ASSUME BarrierKept, releases >= 2, Num > 1
               PROVE  Cardinality(PE \ Wedged) <= IF at[Main] = "out" THEN 1 ELSE 2
    BY DEF OneSurvivor
  <2> DEFINE Caught == {p \in PE : at[p] # "out"}
  <2>1. /\ Num \in Nat /\ releases \in Nat /\ counter \in Nat
        /\ IsFiniteSet(B!Inside)
        /\ Cardinality(B!Inside) = (releases - 1) * (Num - 1) + counter
    <3>1. Num \in Nat /\ releases \in Nat /\ counter \in Nat
      BY NumAssumption DEF BarrierKept, B!BarrierInv, B!TypeOK
    <3>2. IsFiniteSet(B!Inside) /\ B!StuckCount
      BY SameCounting DEF BarrierKept, B!InsideCounted
    <3>3. Cardinality(B!Inside) = IF releases = 0 THEN 0
                                 ELSE (releases - 1) * (Num - 1) + counter
      BY <3>2, SameCounting, Zenon DEF B!StuckCount, B!Inside
    <3> QED
      BY <3>1, <3>2, <3>3
  <2>2. Cardinality(B!Inside) >= Num - 1
    <3>1. (releases - 1) * (Num - 1) = (Num - 1) + (releases - 2) * (Num - 1)
      BY <2>1
    <3>2. (releases - 2) * (Num - 1) \in Nat
      BY <2>1
    <3> QED
      BY <2>1, <3>1, <3>2
  <2>3. IsFiniteSet(PE) /\ Cardinality(PE) = Num
    BY <2>1, FS_Interval DEF PE
  <2>4. IsFiniteSet(Caught) /\ IsFiniteSet(PE \ Caught)
        /\ Cardinality(PE \ Caught) = Num - Cardinality(Caught)
    <3>1. IsFiniteSet(Caught) /\ Caught \subseteq PE
      BY <2>3, FS_Subset
    <3>2. PE \cap Caught = Caught
      BY <3>1
    <3> HIDE DEF Caught
    <3>3. /\ IsFiniteSet(PE \ Caught)
          /\ Cardinality(PE \ Caught) = Cardinality(PE) - Cardinality(PE \cap Caught)
      BY <2>3, FS_Difference
    <3> QED
      BY <2>3, <3>1, <3>2, <3>3
  <2>5. IsFiniteSet(PE \ Wedged) /\ Cardinality(PE \ Wedged) <= Cardinality(PE \ Caught)
    <3>1. PE \ Wedged \subseteq PE \ Caught
      BY DEF Wedged
    <3> QED
      BY <2>4, <3>1, FS_Subset
  <2>6. /\ Cardinality(PE \ Wedged) \in Int /\ Cardinality(PE \ Caught) \in Int
        /\ Cardinality(Caught) \in Int /\ Cardinality(B!Inside) \in Int
    BY <2>1, <2>4, <2>5, FS_CardinalityType
  <2> HIDE DEF Caught
  <2>7. CASE at[Main] = "out"
    <3>1. B!Inside \subseteq Caught
      BY <2>7 DEF B!Inside, Caught
    <3>2. Cardinality(B!Inside) <= Cardinality(Caught)
      BY <2>4, <3>1, FS_Subset
    <3> QED
      BY <2>1, <2>2, <2>4, <2>5, <2>6, <2>7, <3>2
  <2>8. CASE at[Main] # "out"
    <3>1. B!Inside \subseteq Caught \cup {Main}
      BY DEF B!Inside, Caught
    <3>2. /\ IsFiniteSet(Caught \cup {Main})
          /\ Cardinality(Caught \cup {Main}) <= Cardinality(Caught) + 1
      BY <2>4, <2>6, FS_AddElement
    <3>3. Cardinality(B!Inside) <= Cardinality(Caught \cup {Main})
      BY <3>1, <3>2, FS_Subset
    <3>4. Cardinality(Caught \cup {Main}) \in Int
      BY <3>2, FS_CardinalityType
    <3> QED
      BY <2>1, <2>2, <2>4, <2>5, <2>6, <2>8, <3>2, <3>3, <3>4
  <2> QED
    BY <2>7, <2>8
<1> QED
  BY <1>1, BarrierHolds, PTL

----------------------------------------------------------------------------
(* The scripts: their steps, and how long they are *)

Operation == {"fork", "barrier", "wait", "free", "close", "release", "end"}

Task == {"barrier", "get", "put", "update", "sum", "copy", "reduce"}

\* A step whose loop over the PEs adds at least one task a turn.
Step == {s \in [op : Operation, tasks : Seq(Task)] :
            s.op = "fork" => Len(s.tasks) \in 1 .. MaxTurns}

\* At most n steps of a program before its destructor.
Scripts(n) ==
    {s \in Seq(Step) : Len(s) <= n /\ \A i \in 1 .. Len(s) : s[i].op # "release"}

\* The most turns of a loop are three for each update.
LEMMA Turns == Updates \in Nat /\ Updates >= 1 /\ MaxTurns \in Nat /\ MaxTurns = 3 * Updates
BY BoundAssumption DEF MaxTurns

\* One step is a script.
LEMMA OneStep == \A s \in Step : s.op # "release" => <<s>> \in Scripts(1)
BY DEF Scripts

\* A call is a script.
LEMMA CallIsScript == \A op \in Operation \ {"fork", "release"} : Call(op) \in Scripts(1)
<1> SUFFICES ASSUME NEW op \in Operation \ {"fork", "release"} PROVE Call(op) \in Scripts(1)
  OBVIOUS
<1>1. [op |-> op, tasks |-> <<>>] \in Step
  BY DEF Step, Operation
<1> QED
  BY <1>1, OneStep DEF Call

\* A loop that adds no more than MaxTurns tasks is a script.
LEMMA ForkIsScript ==
    ASSUME NEW kinds \in Seq(Task), Len(kinds) \in 1 .. MaxTurns
    PROVE  Fork(kinds) \in Scripts(1)
<1>1. [op |-> "fork", tasks |-> kinds] \in Step
  BY DEF Step, Operation
<1> QED
  BY <1>1, OneStep DEF Fork

\* The steps of two scripts, one after the other.
LEMMA StepsJoin ==
    \A a, b \in Seq(Step) :
        /\ a \o b \in Seq(Step) /\ Len(a \o b) = Len(a) + Len(b)
        /\ \A i \in 1 .. Len(a) : (a \o b)[i] = a[i]
        /\ \A i \in 1 .. Len(b) : (a \o b)[Len(a) + i] = b[i]
        /\ \A i \in 1 .. Len(a \o b) : i \in 1 .. Len(a) \/ i - Len(a) \in 1 .. Len(b)
OBVIOUS

\* Two scripts, one after the other, are a script.
LEMMA ScriptsJoin ==
    ASSUME NEW m \in Nat, NEW n \in Nat, NEW a \in Scripts(m), NEW b \in Scripts(n)
    PROVE  a \o b \in Scripts(m + n)
<1>1. /\ a \in Seq(Step) /\ b \in Seq(Step) /\ Len(a) \in Nat /\ Len(b) \in Nat
      /\ Len(a) <= m /\ Len(b) <= n
      /\ \A i \in 1 .. Len(a) : a[i].op # "release"
      /\ \A i \in 1 .. Len(b) : b[i].op # "release"
  BY DEF Scripts
<1> DEFINE s == a \o b
<1>2. /\ s \in Seq(Step) /\ Len(s) = Len(a) + Len(b)
      /\ \A i \in 1 .. Len(a) : s[i] = a[i]
      /\ \A i \in 1 .. Len(b) : s[Len(a) + i] = b[i]
      /\ \A i \in 1 .. Len(s) : i \in 1 .. Len(a) \/ i - Len(a) \in 1 .. Len(b)
  BY <1>1, StepsJoin
<1> HIDE DEF s
<1>3. \A i \in 1 .. Len(s) : s[i].op # "release"
  <2> SUFFICES ASSUME NEW i \in 1 .. Len(s) PROVE s[i].op # "release"
    OBVIOUS
  <2>1. CASE i \in 1 .. Len(a)
    BY <1>1, <1>2, <2>1
  <2>2. CASE i - Len(a) \in 1 .. Len(b)
    <3>1. i = Len(a) + (i - Len(a))
      BY <1>1
    <3>2. s[i] = b[i - Len(a)]
      BY <1>2, <2>2, <3>1
    <3> QED
      BY <1>1, <2>2, <3>2
  <2> QED
    BY <1>2, <2>1, <2>2
<1>4. s \in Scripts(m + n)
  BY <1>1, <1>2, <1>3 DEF Scripts
<1> QED
  BY <1>4 DEF s

\* What Times repeats keeps its elements, and has n times the length.
LEMMA TimesIsSeq ==
    ASSUME NEW S, NEW n \in Nat, NEW seq \in Seq(S), Len(seq) >= 1
    PROVE  Times(n, seq) \in Seq(S) /\ Len(Times(n, seq)) = n * Len(seq)
<1>1. Len(seq) \in Nat /\ n * Len(seq) \in Nat
  OBVIOUS
<1>2. \A i \in 1 .. n * Len(seq) : seq[((i - 1) % Len(seq)) + 1] \in S
  <2> SUFFICES ASSUME NEW i \in 1 .. n * Len(seq) PROVE seq[((i - 1) % Len(seq)) + 1] \in S
    OBVIOUS
  <2>1. (i - 1) % Len(seq) \in 0 .. Len(seq) - 1
    BY <1>1
  <2> QED
    BY <1>1, <2>1
<1> QED
  BY <1>1, <1>2 DEF Times

\* What Times repeats of one element is that element.
LEMMA TimesOfOne ==
    ASSUME NEW n \in Nat, NEW seq, Len(seq) = 1
    PROVE  \A i \in 1 .. n : Times(n, seq)[i] = seq[1]
<1> SUFFICES ASSUME NEW i \in 1 .. n PROVE Times(n, seq)[i] = seq[1]
  OBVIOUS
<1>1. i \in 1 .. n * Len(seq) /\ ((i - 1) % Len(seq)) + 1 = 1
  OBVIOUS
<1> QED
  BY <1>1 DEF Times

\* The loops of the GUPS programs are scripts.
LEMMA LoopIsScript ==
    /\ Fork(Times(Updates, <<"get", "put", "barrier">>)) \in Scripts(1)
    /\ Fork(Times(Updates, <<"update">>)) \in Scripts(1)
    /\ Fork(Times(Updates, <<"get">>)) \in Scripts(1)
    /\ BarrierAll \in Scripts(1)
<1>1. \A seq \in Seq(Task) : Len(seq) \in 1 .. 3 => Fork(Times(Updates, seq)) \in Scripts(1)
  <2> SUFFICES ASSUME NEW seq \in Seq(Task), Len(seq) \in 1 .. 3
               PROVE  Fork(Times(Updates, seq)) \in Scripts(1)
    OBVIOUS
  <2>1. \A n \in 1 .. 3, u \in Nat : u >= 1 => u * n \in 1 .. 3 * u
    OBVIOUS
  <2>2. Updates * Len(seq) \in 1 .. MaxTurns
    BY <2>1, Turns, Zenon
  <2>3. Len(seq) >= 1
    OBVIOUS
  <2>4. Times(Updates, seq) \in Seq(Task) /\ Len(Times(Updates, seq)) \in 1 .. MaxTurns
    BY <2>2, <2>3, Turns, TimesIsSeq
  <2> QED
    BY <2>4, ForkIsScript
<1>2. <<"barrier">> \in Seq(Task) /\ Len(<<"barrier">>) \in 1 .. MaxTurns
  BY Turns DEF Task
<1>3. /\ <<"get", "put", "barrier">> \in Seq(Task)
      /\ <<"update">> \in Seq(Task) /\ <<"get">> \in Seq(Task)
  BY DEF Task
<1>4. /\ Len(<<"get", "put", "barrier">>) \in 1 .. 3
      /\ Len(<<"update">>) \in 1 .. 3 /\ Len(<<"get">>) \in 1 .. 3
  OBVIOUS
<1>5. BarrierAll \in Scripts(1)
  BY <1>2, ForkIsScript DEF BarrierAll
<1> QED
  BY <1>1, <1>3, <1>4, <1>5, Zenon

\* So is a loop that adds one task.
LEMMA OneTaskIsScript == \A task \in Task : Fork(<<task>>) \in Scripts(1)
<1> SUFFICES ASSUME NEW task \in Task PROVE Fork(<<task>>) \in Scripts(1)
  OBVIOUS
<1>1. <<task>> \in Seq(Task) /\ Len(<<task>>) \in 1 .. MaxTurns
  BY Turns
<1> QED
  BY <1>1, ForkIsScript

\* So is the close of a program.
LEMMA CloseIsScript == CloseCall \in Scripts(2)
<1>1. Call("barrier") \in Scripts(1) /\ Call("close") \in Scripts(1)
  BY CallIsScript DEF Operation
<1> QED
  BY <1>1, ScriptsJoin DEF CloseCall

\* The tree broadcast calls no more than four stages.
LEMMA TreeIsScript == \E body \in Scripts(4) : TreeBroadcast = body \o Exit
<1> DEFINE Powers == {k \in 0 .. 3 : 2 ^ k < Num}
           stages == Cardinality(Powers)
<1>1. stages \in 0 .. 4
  <2>0. Powers \subseteq 0 .. 3
    OBVIOUS
  <2> HIDE DEF Powers
  <2>1. IsFiniteSet(Powers) /\ stages <= 4
    BY <2>0, FS_BoundedSetOfNaturals
  <2> QED
    BY <2>1, FS_CardinalityType
<1> HIDE DEF stages
<1>2. Call("barrier") \in Seq(Step) /\ Len(Call("barrier")) = 1
  BY DEF Call, Step, Operation
<1>3. /\ Times(stages, Call("barrier")) \in Seq(Step)
      /\ Len(Times(stages, Call("barrier"))) = stages * 1
  <2>1. stages \in Nat /\ Len(Call("barrier")) >= 1
    BY <1>1, <1>2
  <2> QED
    BY <1>2, <2>1, TimesIsSeq, Zenon
<1>4. Times(stages, Call("barrier")) \in Scripts(4)
  <2>1. \A i \in 1 .. stages : Times(stages, Call("barrier"))[i] = Call("barrier")[1]
    BY <1>1, <1>2, TimesOfOne
  <2>2. Call("barrier")[1].op = "barrier"
    BY DEF Call
  <2> QED
    BY <1>1, <1>3, <2>1, <2>2 DEF Scripts
<1>5. TreeBroadcast = Times(stages, Call("barrier")) \o Exit
  BY Zenon DEF TreeBroadcast, stages, Powers
<1> QED
  BY <1>4, <1>5

\* Every program is a script, shorter than the bound of the model, and the
\* destructor.
LEMMA ProgramIsScript ==
    \A p \in Programs : \E body \in Scripts(8) : Script[p] = body \o Exit
<1> DEFINE Ends(s, n) == \E body \in Scripts(n) : s = body \o Exit
<1>1. /\ Call("barrier") \in Scripts(1) /\ Call("free") \in Scripts(1)
      /\ Call("wait") \in Scripts(1)
  BY CallIsScript DEF Operation
<1>2. /\ \A a \in Scripts(1), b \in Scripts(1) : a \o b \in Scripts(2)
      /\ \A a \in Scripts(2), b \in Scripts(1) : a \o b \in Scripts(3)
      /\ \A a \in Scripts(3), b \in Scripts(1) : a \o b \in Scripts(4)
      /\ \A a \in Scripts(4), b \in Scripts(1) : a \o b \in Scripts(5)
      /\ \A a \in Scripts(5), b \in Scripts(1) : a \o b \in Scripts(6)
      /\ \A a \in Scripts(4), b \in Scripts(2) : a \o b \in Scripts(6)
      /\ \A a \in Scripts(5), b \in Scripts(2) : a \o b \in Scripts(7)
      /\ \A a \in Scripts(6), b \in Scripts(2) : a \o b \in Scripts(8)
  BY ScriptsJoin
<1>3. \A n \in {1, 2, 4, 6, 7, 8} : Scripts(n) \subseteq Scripts(8)
  BY DEF Scripts
<1>4. Ends(RandomAccess, 8)
  BY <1>2, LoopIsScript, CloseIsScript, Zenon DEF RandomAccess
<1>5. Ends(Gups, 7)
  BY <1>1, <1>2, LoopIsScript, CloseIsScript, Zenon DEF Gups
<1>6. Ends(NoTable, 2)
  BY CloseIsScript, Zenon DEF NoTable
<1>7. Ends(Matmul, 7)
  BY <1>1, <1>2, LoopIsScript, CloseIsScript, Zenon DEF Matmul
<1>8. Ends(Gather, 6)
  BY <1>1, <1>2, LoopIsScript, CloseIsScript, Zenon DEF Gather
<1>9. Ends(Reduction8, 6) /\ Ends(Broadcast8, 6)
  <2>1. "sum" \in Task /\ "copy" \in Task
    BY DEF Task
  <2> QED
    BY <1>1, <1>2, OneTaskIsScript, <2>1, CloseIsScript, Zenon DEF Reduction8, Broadcast8
<1>10. Ends(ReduceAll, 1)
  <2>1. "reduce" \in Task
    BY DEF Task
  <2> QED
    BY OneTaskIsScript, <2>1, Zenon DEF ReduceAll
<1>11. Ends(TreeBroadcast, 4)
  BY TreeIsScript
<1>12. \A s : (\E n \in {1, 2, 4, 6, 7, 8} : Ends(s, n)) => Ends(s, 8)
  BY <1>3, Zenon
<1>13. Ends(Gups, 8) /\ Ends(GupsV2, 8) /\ Ends(NoTable, 8) /\ Ends(Matmul, 8) /\ Ends(Gather, 8)
  BY <1>5, <1>6, <1>7, <1>8, <1>12 DEF GupsV2
<1>14. Ends(Reduction8, 8) /\ Ends(Broadcast8, 8) /\ Ends(ReduceAll, 8) /\ Ends(TreeBroadcast, 8)
  BY <1>9, <1>10, <1>11, <1>12
<1> HIDE DEF Ends
<1>15. \A p \in Programs : Ends(Script[p], 8)
  BY <1>4, <1>13, <1>14 DEF Programs, Script
<1> QED
  BY <1>15 DEF Ends

\* The last three steps of a program.
LEMMA ExitFacts ==
    /\ Exit \in Seq(Step) /\ Len(Exit) = 3
    /\ Exit[1].op = "wait" /\ Exit[2].op = "release" /\ Exit[3].op = "end"
<1>1. \A op \in Operation \ {"fork"} :
        Call(op) \in Seq(Step) /\ Len(Call(op)) = 1 /\ Call(op)[1].op = op
  BY DEF Call, Step
<1> DEFINE a == Call("wait")
           b == Call("release")
           c == Call("end")
<1>2. /\ a \in Seq(Step) /\ Len(a) = 1 /\ a[1].op = "wait"
      /\ b \in Seq(Step) /\ Len(b) = 1 /\ b[1].op = "release"
      /\ c \in Seq(Step) /\ Len(c) = 1 /\ c[1].op = "end"
  BY <1>1 DEF Operation
<1> HIDE DEF a, b, c
<1> DEFINE ab == a \o b
<1>3. /\ ab \in Seq(Step) /\ Len(ab) = 2 /\ ab[1].op = "wait" /\ ab[2].op = "release"
  BY <1>2, StepsJoin
<1> HIDE DEF ab
<1>4. LET s == ab \o c
      IN  /\ s \in Seq(Step) /\ Len(s) = 3
          /\ s[1].op = "wait" /\ s[2].op = "release" /\ s[3].op = "end"
  BY <1>2, <1>3, StepsJoin
<1>5. Exit = ab \o c
  BY DEF Exit, a, b, c, ab
<1> QED
  BY <1>4, <1>5

\* The step at which a program's destructor waits.
LastWait == Len(Script[program]) - 2

\* A script that adds no task behind its wait at step w.
WaitsAt(s, w) ==
    /\ s \in Seq(Step) /\ w \in 1 .. Len(s) /\ s[w].op = "wait"
    /\ \A i \in 1 .. Len(s) : s[i].op = "fork" => i < w

\* The destructor's wait is the last, and what it releases it releases behind it.
LEMMA ProgramWaits ==
    ASSUME program \in Programs
    PROVE  /\ WaitsAt(Script[program], LastWait)
           /\ \A i \in 1 .. Len(Script[program]) :
                Script[program][i].op = "release" => i > LastWait
<1> DEFINE s == Script[program]
<1>1. PICK body \in Scripts(8) : s = body \o Exit
  BY ProgramIsScript
<1>2. /\ body \in Seq(Step) /\ Len(body) \in Nat
      /\ \A i \in 1 .. Len(body) : body[i].op # "release"
  BY DEF Scripts
<1>3. /\ s \in Seq(Step) /\ Len(s) = Len(body) + 3
      /\ \A i \in 1 .. Len(body) : s[i] = body[i]
      /\ s[Len(body) + 1] = Exit[1] /\ s[Len(body) + 2] = Exit[2] /\ s[Len(body) + 3] = Exit[3]
  <2>1. Exit \in Seq(Step) /\ Len(Exit) = 3
    BY ExitFacts
  <2>2. /\ body \o Exit \in Seq(Step) /\ Len(body \o Exit) = Len(body) + Len(Exit)
        /\ \A i \in 1 .. Len(body) : (body \o Exit)[i] = body[i]
        /\ \A i \in 1 .. Len(Exit) : (body \o Exit)[Len(body) + i] = Exit[i]
    BY <1>2, <2>1, StepsJoin
  <2> HIDE DEF s
  <2> QED
    BY <1>1, <2>1, <2>2
<1> HIDE DEF s
<1>4. \A i \in 1 .. Len(s) :
        i \in 1 .. Len(body) \/ i = Len(body) + 1 \/ i = Len(body) + 2 \/ i = Len(body) + 3
  BY <1>2, <1>3
<1> DEFINE w == Len(body) + 1
<1>5. w = Len(s) - 2 /\ w \in 1 .. Len(s) /\ s[w].op = "wait"
  BY <1>2, <1>3, ExitFacts
<1>6. ASSUME NEW i \in 1 .. Len(s)
      PROVE  /\ s[i].op = "fork" => i < w
             /\ s[i].op = "release" => i > w
  BY <1>2, <1>3, <1>4, ExitFacts
<1> HIDE DEF w
<1>7. WaitsAt(s, w) /\ \A i \in 1 .. Len(s) : s[i].op = "release" => i > w
  BY <1>3, <1>5, <1>6 DEF WaitsAt
<1> QED
  BY <1>5, <1>7 DEF s, LastWait

----------------------------------------------------------------------------
(* The programs that wait for their tasks before they free anything *)

\* A script that adds no task.
ForksNothing(s) == s \in Seq(Step) /\ \A i \in 1 .. Len(s) : s[i].op # "fork"

\* A script that adds tasks in its second step only, waits for them in the
\* third, and frees nothing before that.
WaitsFirst(s) ==
    /\ s \in Seq(Step) /\ Len(s) >= 3
    /\ s[3].op = "wait"
    /\ \A i \in 1 .. Len(s) : s[i].op = "fork" => i = 2
    /\ \A i \in 1 .. Len(s) : s[i].op \in {"free", "close"} => i > 3

\* A script that waits first still does when one that adds no task follows.
LEMMA WaitFirstGrows ==
    \A a, b : WaitsFirst(a) /\ ForksNothing(b) => WaitsFirst(a \o b)
<1> SUFFICES ASSUME NEW a, NEW b, WaitsFirst(a), ForksNothing(b) PROVE WaitsFirst(a \o b)
  OBVIOUS
<1>1. /\ a \in Seq(Step) /\ b \in Seq(Step) /\ a \o b \in Seq(Step)
      /\ Len(a) \in Nat /\ Len(b) \in Nat /\ Len(a \o b) = Len(a) + Len(b) /\ Len(a) >= 3
  BY DEF WaitsFirst, ForksNothing
<1>2. \A i \in 1 .. Len(a) : (a \o b)[i] = a[i]
  BY <1>1
<1>3. \A i \in 1 .. Len(a) + Len(b) :
        i > Len(a) => (a \o b)[i] = b[i - Len(a)] /\ i - Len(a) \in 1 .. Len(b)
  BY <1>1
<1>4. (a \o b)[3].op = "wait"
  BY <1>1, <1>2 DEF WaitsFirst
<1>5. ASSUME NEW i \in 1 .. Len(a \o b)
      PROVE  /\ (a \o b)[i].op = "fork" => i = 2
             /\ (a \o b)[i].op \in {"free", "close"} => i > 3
  <2>1. CASE i <= Len(a)
    BY <1>1, <1>2, <2>1 DEF WaitsFirst
  <2>2. CASE i > Len(a)
    BY <1>1, <1>3, <2>2 DEF ForksNothing
  <2> QED
    BY <1>1, <2>1, <2>2
<1> QED
  BY <1>1, <1>4, <1>5 DEF WaitsFirst

\* No call but a fork adds a task.
LEMMA CallForksNothing == \A op \in Operation \ {"fork"} : ForksNothing(Call(op))
<1> SUFFICES ASSUME NEW op \in Operation \ {"fork"} PROVE ForksNothing(Call(op))
  OBVIOUS
<1>1. Call(op) \in Seq(Step) /\ Len(Call(op)) = 1 /\ Call(op)[1].op = op
  BY DEF Call, Step
<1> QED
  BY <1>1 DEF ForksNothing

\* The ends of a program add none.
LEMMA CloseForksNothing == ForksNothing(CloseCall) /\ ForksNothing(Exit)
<1>1. ForksNothing(Call("barrier")) /\ ForksNothing(Call("close")) /\ ForksNothing(Call("wait"))
      /\ ForksNothing(Call("release")) /\ ForksNothing(Call("end"))
  BY CallForksNothing DEF Operation
<1>2. \A a, b : ForksNothing(a) /\ ForksNothing(b) => ForksNothing(a \o b)
  <2> SUFFICES ASSUME NEW a, NEW b, ForksNothing(a), ForksNothing(b) PROVE ForksNothing(a \o b)
    OBVIOUS
  <2>1. a \o b \in Seq(Step) /\ Len(a \o b) = Len(a) + Len(b)
    BY DEF ForksNothing
  <2> QED
    BY <2>1 DEF ForksNothing
<1> QED
  BY <1>1, <1>2 DEF CloseCall, Exit

\* The barrier, a loop of tasks and a loop of waits is a script that waits first.
LEMMA WaitFirstStarts ==
    \A fork \in Scripts(1) : Len(fork) = 1 /\ fork[1].op = "fork" =>
        WaitsFirst(Call("barrier") \o fork \o Call("wait"))
<1> SUFFICES ASSUME NEW fork \in Scripts(1), Len(fork) = 1, fork[1].op = "fork"
             PROVE  WaitsFirst(Call("barrier") \o fork \o Call("wait"))
  OBVIOUS
<1> DEFINE b == Call("barrier")
           w == Call("wait")
<1>1. /\ b \in Seq(Step) /\ w \in Seq(Step) /\ fork \in Seq(Step)
      /\ Len(b) = 1 /\ Len(w) = 1 /\ b[1].op = "barrier" /\ w[1].op = "wait"
  BY DEF Call, Step, Operation, Scripts
<1> HIDE DEF b, w
<1>2. \A x, y \in Seq(Step) :
        /\ x \o y \in Seq(Step) /\ Len(x \o y) = Len(x) + Len(y)
        /\ \A i \in 1 .. Len(x) : (x \o y)[i] = x[i]
        /\ \A i \in 1 .. Len(y) : (x \o y)[Len(x) + i] = y[i]
  OBVIOUS
<1> DEFINE s == b \o fork
           t == s \o w
<1>3. s \in Seq(Step) /\ Len(s) = 2 /\ s[1].op = "barrier" /\ s[2].op = "fork"
  BY <1>1, <1>2
<1> HIDE DEF s
<1>4. t \in Seq(Step) /\ Len(t) = 3 /\ t[1].op = "barrier" /\ t[2].op = "fork" /\ t[3].op = "wait"
  BY <1>1, <1>2, <1>3
<1> HIDE DEF t
<1>5. WaitsFirst(t)
  BY <1>4 DEF WaitsFirst
<1> QED
  BY <1>5 DEF b, w, s, t

\* The programs LateWasMissed is about are such scripts.
Waiting == {"gups", "gups_v2", "reduction8", "broadcast8"}

\* The programs of Waiting wait first.
LEMMA WaitingPrograms == \A p \in Waiting : p \in Programs /\ WaitsFirst(Script[p])
<1>1. ForksNothing(Call("barrier")) /\ ForksNothing(Call("free"))
  BY CallForksNothing DEF Operation
<1>2. \A kinds : Len(Fork(kinds)) = 1 /\ Fork(kinds)[1].op = "fork"
  BY DEF Fork
<1>3. WaitsFirst(Gups)
  BY <1>1, <1>2, LoopIsScript, WaitFirstStarts, WaitFirstGrows, CloseForksNothing, Zenon DEF Gups
<1>4. WaitsFirst(Reduction8) /\ WaitsFirst(Broadcast8)
  <2>1. "sum" \in Task /\ "copy" \in Task
    BY DEF Task
  <2> QED
    BY <1>1, <1>2, OneTaskIsScript, <2>1, WaitFirstStarts, WaitFirstGrows, CloseForksNothing, Zenon
      DEF Reduction8, Broadcast8
<1> QED
  BY <1>3, <1>4 DEF Waiting, Programs, Script, GupsV2

----------------------------------------------------------------------------
(* The pool in the composition, and where the main thread is *)

P == INSTANCE ThreadPoolProofs WITH Clients <- {Main}, Units <- Unit

NeverStopped == \A p \in PE : ~stop[p]

\* Where the main thread is: it waits in a loop of waits, on the queue its loop
\* has reached, and it is in the barrier at a step that calls it.
MainInv ==
    /\ program \in Programs
    /\ main \in [step : 1 .. Len(Script[program]) + 1, pe : PE,
                 turn : 1 .. MaxTurns, waiting : BOOLEAN]
    /\ ~Done /\ Now.op = "fork" => main.turn <= Len(Now.tasks)
    /\ main.waiting =>
        ~Done /\ Now.op = "wait" /\ client[Main].at # "idle" /\ client[Main].on = main.pe
    /\ at[Main] # "out" => ~Done /\ Now.op = "barrier"

\* A unit a fork of the program added to p's queue.
Added(u, p) ==
    /\ u \in Unit /\ u[3] = p /\ u[1] <= Len(Script[program])
    /\ Script[program][u[1]].op = "fork" /\ u[2] <= Len(Script[program][u[1]].tasks)

UnitsAdded ==
    \A p \in PE : /\ unit[p] # None => Added(unit[p], p)
                  /\ \A u \in ToSet(queue[p]) : Added(u, p)

ProgramInv ==
    BarrierKept /\ P!PoolInv /\ NeverStopped /\ MainInv /\ UnitsAdded

\* The pool's PEs are the program's.
LEMMA SamePEs ==
    /\ Num \in Nat /\ Num >= 1 /\ 0 \in PE /\ PE = 0 .. Num - 1
    /\ P!NPES = Num /\ P!PE = PE /\ Pool!NPES = Num /\ Pool!PE = PE
BY NumAssumption DEF P!NPES, P!PE, PE, Pool!NPES, Pool!PE

\* A step of the pool that the program takes.
PoolStep ==
    \/ \E p \in PE, u \in Unit : Pool!AddWork(Main, p, u) \/ Pool!RefuseWork(Main, p, u)
    \/ \E p \in PE : Pool!WaitCall(Main, p)
    \/ Pool!WaitBlock(Main) \/ Pool!WaitReturn(Main) \/ Pool!SpuriousClientWake(Main)
    \/ \E p \in PE : \/ Pool!Sleep(p) \/ Pool!Take(p) \/ Pool!Complete(p) \/ Pool!Finish(p)
                     \/ Pool!SpuriousWorkerWake(p)

\* What a program asks of the pool, the pool's own specification allows.
LEMMA PoolStepIsNext == PoolStep => P!Next
<1> SUFFICES ASSUME PoolStep PROVE P!Next
  OBVIOUS
<1> USE SamePEs DEF P!poolVars, Pool!poolVars, P!history, Pool!history
<1>1. ASSUME NEW p \in PE, NEW u \in Unit, Pool!AddWork(Main, p, u) PROVE P!Next
  <2>1. P!AddWork(Main, p, u)
    BY <1>1 DEF P!AddWork, Pool!AddWork, P!MayCall, Pool!MayCall, P!Fresh, Pool!Fresh,
      P!Accepted, Pool!Accepted, P!Range, Pool!Range, P!Enqueued, Pool!Enqueued,
      P!Roused, Pool!Roused
  <2> QED
    BY <2>1 DEF P!Next, P!ClientCall
<1>2. ASSUME NEW p \in PE, NEW u \in Unit, Pool!RefuseWork(Main, p, u) PROVE P!Next
  <2>1. P!RefuseWork(Main, p, u)
    BY <1>2 DEF P!RefuseWork, Pool!RefuseWork, P!MayCall, Pool!MayCall, P!Fresh, Pool!Fresh,
      P!Accepted, Pool!Accepted, P!Range, Pool!Range
  <2> QED
    BY <2>1 DEF P!Next, P!ClientCall
<1>3. ASSUME NEW p \in PE, Pool!WaitCall(Main, p) PROVE P!Next
  <2>1. P!WaitCall(Main, p)
    BY <1>3 DEF P!WaitCall, Pool!WaitCall, P!MayCall, Pool!MayCall, P!InCall, Pool!InCall,
      P!Range, Pool!Range
  <2> QED
    BY <2>1 DEF P!Next, P!ClientCall
<1>4. CASE Pool!WaitBlock(Main) \/ Pool!WaitReturn(Main) \/ Pool!SpuriousClientWake(Main)
  <2>1. P!WaitBlock(Main) \/ P!WaitReturn(Main) \/ P!SpuriousClientWake(Main)
    BY <1>4 DEF P!WaitBlock, Pool!WaitBlock, P!WaitReturn, Pool!WaitReturn, P!MustWait,
      Pool!MustWait, P!IdleClient, Pool!IdleClient, P!SpuriousClientWake,
      Pool!SpuriousClientWake
  <2> QED
    BY <2>1 DEF P!Next, P!ClientCheck
<1>5. ASSUME NEW p \in PE, Pool!Sleep(p) \/ Pool!Complete(p) \/ Pool!SpuriousWorkerWake(p)
      PROVE  P!Next
  <2>1. P!Sleep(p) \/ P!Complete(p) \/ P!SpuriousWorkerWake(p)
    BY <1>5 DEF P!Sleep, Pool!Sleep, P!Complete, Pool!Complete, P!SpuriousWorkerWake,
      Pool!SpuriousWorkerWake
  <2> QED
    BY <2>1 DEF P!Next, P!WorkerStep
<1>6. ASSUME NEW p \in PE, Pool!Take(p) PROVE P!Next
  <2>1. P!Take(p)
    BY <1>6 DEF P!Take, Pool!Take, P!MayTake, Pool!MayTake
  <2> QED
    BY <2>1 DEF P!Next, P!WorkerStep
<1>7. ASSUME NEW p \in PE, Pool!Finish(p) PROVE P!Next
  <2>1. P!Finish(p)
    BY <1>7 DEF P!Finish, Pool!Finish, P!SignalWorking, Pool!SignalWorking, P!Waiters,
      Pool!Waiters
  <2> QED
    BY <2>1 DEF P!Next, P!WorkerStep
<1> QED
  BY <1>1, <1>2, <1>3, <1>4, <1>5, <1>6, <1>7 DEF PoolStep

\* The scripts' steps have their types.
LEMMA ScriptFacts ==
    ASSUME program \in Programs
    PROVE  /\ Script[program] \in Seq(Step) /\ Len(Script[program]) \in 0 .. 11
           /\ \A s \in 1 .. Len(Script[program]) :
                /\ Script[program][s].op \in Operation /\ Script[program][s].tasks \in Seq(Task)
                /\ Len(Script[program][s].tasks) \in Nat
                /\ Script[program][s].op = "fork" =>
                     Len(Script[program][s].tasks) \in 1 .. MaxTurns
<1>1. Script[program] \in Seq(Step) /\ Len(Script[program]) \in 0 .. 11
  <2>1. PICK body \in Scripts(8) : Script[program] = body \o Exit
    BY ProgramIsScript
  <2>2. Script[program] \in Seq(Step) /\ Len(Script[program]) <= 11
    <3>1. body \in Seq(Step) /\ Len(body) <= 8 /\ Len(body) \in Nat
      BY DEF Scripts
    <3>2. body \o Exit \in Seq(Step) /\ Len(body \o Exit) = Len(body) + 3
      BY <3>1, ExitFacts, StepsJoin
    <3> QED
      BY <2>1, <3>1, <3>2
  <2>3. \A s \in Seq(Step) : Len(s) \in Nat
    OBVIOUS
  <2>4. Len(Script[program]) \in Nat
    BY <2>2, <2>3, Zenon
  <2>5. \A n \in Nat : n <= 11 => n \in 0 .. 11
    OBVIOUS
  <2> QED
    BY <2>2, <2>4, <2>5, Zenon
<1>2. \A s \in Step : /\ s.op \in Operation /\ s.tasks \in Seq(Task) /\ Len(s.tasks) \in Nat
                      /\ s.op = "fork" => Len(s.tasks) \in 1 .. MaxTurns
  BY DEF Step
<1>3. \A s \in 1 .. Len(Script[program]) : Script[program][s] \in Step
  BY <1>1
<1> QED
  BY <1>1, <1>2, <1>3

\* The step the main thread is at is one of its script.
LEMMA NowFacts ==
    ASSUME MainInv, ~Done
    PROVE  /\ main.step \in 1 .. Len(Script[program]) /\ Now = Script[program][main.step]
           /\ Now.op \in Operation /\ Now.tasks \in Seq(Task) /\ Len(Now.tasks) \in Nat
           /\ Now.op = "fork" => Len(Now.tasks) \in 1 .. MaxTurns
<1>1. main.step \in 1 .. Len(Script[program]) + 1 /\ program \in Programs
  BY DEF MainInv
<1>2. main.step \in 1 .. Len(Script[program])
  BY <1>1, ScriptFacts DEF Done
<1> QED
  BY <1>1, <1>2, ScriptFacts DEF Now

\* The unit of the turn the main thread is at is one a fork adds.
LEMMA UnitIsUnit ==
    ASSUME MainInv, ~Done, Now.op = "fork"
    PROVE  Added(ThisUnit, main.pe) /\ ThisUnit \in Unit /\ main.pe \in PE
<1>1. /\ main.step \in 1 .. MaxSteps /\ main.step <= Len(Script[program])
      /\ main.turn \in 1 .. MaxTurns /\ main.pe \in PE
      /\ main.turn <= Len(Now.tasks) /\ Now = Script[program][main.step]
  BY NowFacts, ScriptFacts DEF MainInv, MaxSteps
<1> QED
  BY <1>1 DEF Added, ThisUnit, Unit

\* A step of the program is one of the pool, or leaves the pool alone.
LEMMA StepOfPool ==
    ASSUME MainInv, [Next]_vars
    PROVE  PoolStep \/ UNCHANGED poolVars
<1>1. CASE UNCHANGED vars
  BY <1>1 DEF vars
<1>2. CASE Submit
  <2>1. ThisUnit \in Unit /\ main.pe \in PE
    BY <1>2, UnitIsUnit DEF Submit, At
  <2> QED
    BY <1>2, <2>1 DEF Submit, PoolStep
<1>3. CASE Wait \/ WaitBlocks \/ WaitReturns \/ MainBarrier \/ Free \/ Close \/ Release \/ End
  <2>1. main.pe \in PE
    BY DEF MainInv
  <2> QED
    BY <1>3, <2>1 DEF Wait, WaitBlocks, WaitReturns, MainBarrier, Free, Close, Release, End, PoolStep
<1>4. ASSUME NEW p \in PE, RunTask(p) PROVE PoolStep \/ UNCHANGED poolVars
  BY <1>4 DEF RunTask, EnterBarrier, RunGet, RunOther, CheckUpdate, ApplyUpdate, RunReduce,
    TaskReturns, PoolStep
<1>5. ASSUME NEW p \in PE, WorkerLoop(p) PROVE PoolStep
  BY <1>5 DEF WorkerLoop, PoolStep
<1>6. CASE PoolSpurious \/ BarrierSpurious \/ UpdateSpurious
  BY <1>6 DEF PoolSpurious, BarrierSpurious, UpdateSpurious, PoolStep
<1> QED
  BY <1>1, <1>2, <1>3, <1>4, <1>5, <1>6 DEF Next, MainStep, WorkerStep

\* The pool keeps its invariant in every program.
LEMMA PoolKept ==
    ASSUME P!PoolInv, MainInv, [Next]_vars
    PROVE  P!PoolInv'
<1>1. Num \in Nat /\ None \notin Unit
  BY SamePEs, NoneAssumption
<1>2. P!Next \/ UNCHANGED P!vars
  BY StepOfPool, PoolStepIsNext DEF P!vars, P!poolVars, P!history, poolVars
<1> QED
  BY <1>1, <1>2, P!PoolInvStep DEF P!NumAssumption, P!NoneAssumption

\* What the pool's invariant says here.
LEMMA PoolFacts ==
    ASSUME P!PoolInv
    PROVE  /\ queue \in [PE -> Seq(Unit)]
           /\ worker \in [PE -> {"none", "fetch", "asleep", "running", "finish", "exited"}]
           /\ unit \in [PE -> Unit \cup {None}]
           /\ working \in [PE -> Nat] /\ stop \in [PE -> BOOLEAN]
           /\ client \in [{Main} -> P!ClientState]
           /\ \A p \in PE : unit[p] # None <=> worker[p] = "running"
           /\ \A p \in PE : working[p] = IF worker[p] \in {"running", "finish"} THEN 1 ELSE 0
BY SamePEs DEF P!PoolInv, P!TypeOK, P!WorkingCountsBusy, P!Busy, P!WorkerState, P!UnitHeld

\* Where everyone is in the barrier.
LEMMA AtFacts ==
    ASSUME BarrierKept
    PROVE  at \in [PE \cup {Main} -> {"out", "asleep", "woken"}]
BY DEF BarrierKept, B!BarrierInv, B!TypeOK

\* No program stops a worker.
LEMMA StopsKept ==
    ASSUME NeverStopped, MainInv, [Next]_vars
    PROVE  NeverStopped'
<1>1. PoolStep => UNCHANGED stop \/ \E p \in PE : stop[p]
  BY DEF PoolStep, Pool!AddWork, Pool!RefuseWork, Pool!WaitCall, Pool!WaitBlock, Pool!WaitReturn,
    Pool!SpuriousClientWake, Pool!Sleep, Pool!Take, Pool!Complete, Pool!Finish,
    Pool!SpuriousWorkerWake, Pool!poolVars
<1> QED
  BY <1>1, StepOfPool DEF NeverStopped, poolVars

\* At the head of a loop the main thread calls nothing yet.
LEMMA AtHead ==
    ASSUME program \in Programs, UNCHANGED program,
           main' \in [step : 1 .. Len(Script[program]) + 1, pe : PE,
                      turn : {1}, waiting : {FALSE}],
           at'[Main] = "out"
    PROVE  MainInv'
<1>1. 1 \in 1 .. MaxTurns
  BY Turns
<1>2. ~Done' /\ Now'.op = "fork" => main'.turn <= Len(Now'.tasks)
  <2> SUFFICES ASSUME ~Done', Now'.op = "fork" PROVE main'.turn <= Len(Now'.tasks)
    OBVIOUS
  <2>1. main'.step \in 1 .. Len(Script[program]) /\ Now' = Script[program][main'.step]
    BY ScriptFacts DEF Done, Now
  <2> QED
    BY <2>1, ScriptFacts
<1> QED
  BY <1>1, <1>2 DEF MainInv

\* The next step, or the next PE of a loop, is such a head.
LEMMA HeadTyped ==
    ASSUME MainInv, ~Done, NEW m \in {NextStep, NextPE}
    PROVE  m \in [step : 1 .. Len(Script[program]) + 1, pe : PE,
                  turn : {1}, waiting : {FALSE}]
<1>1. main.step \in 1 .. Len(Script[program]) /\ Len(Script[program]) \in Nat
  BY NowFacts, ScriptFacts DEF MainInv
<1>2. NextStep \in [step : 1 .. Len(Script[program]) + 1, pe : PE, turn : {1}, waiting : {FALSE}]
  BY <1>1, SamePEs DEF NextStep
<1>3. CASE main.pe < Num - 1
  <2>1. main.pe + 1 \in PE
    BY <1>3, SamePEs DEF MainInv
  <2>2. NextPE = [main EXCEPT !.pe = main.pe + 1, !.turn = 1, !.waiting = FALSE]
    BY <1>3 DEF NextPE
  <2> QED
    BY <1>1, <1>2, <2>1, <2>2 DEF MainInv
<1>4. CASE ~(main.pe < Num - 1)
  BY <1>2, <1>4 DEF NextPE
<1> QED
  BY <1>3, <1>4

\* So a step that moves the main thread keeps MainInv.
LEMMA NextHead ==
    ASSUME MainInv, ~Done, UNCHANGED program, main' \in {NextStep, NextPE}, at'[Main] = "out"
    PROVE  MainInv'
BY AtHead, HeadTyped DEF MainInv

\* The main thread stays where it is.
LEMMA MainStays ==
    ASSUME MainInv, UNCHANGED <<program, main>>,
           client[Main].at # "idle" =>
              client'[Main].at # "idle" /\ client'[Main].on = client[Main].on,
           at'[Main] # "out" => at[Main] # "out"
    PROVE  MainInv'
BY DEF MainInv, Done, Now

\* A worker's step leaves the main thread in its call, of the pool and of the
\* barrier.
LEMMA OthersLeaveMain ==
    ASSUME BarrierKept, P!PoolInv, [Next]_vars, ~MainStep, UNCHANGED <<program, main>>
    PROVE  /\ client[Main].at # "idle" =>
                client'[Main].at # "idle" /\ client'[Main].on = client[Main].on
           /\ at'[Main] # "out" => at[Main] # "out"
<1> DEFINE InCall == client[Main].at # "idle" =>
                        client'[Main].at # "idle" /\ client'[Main].on = client[Main].on
           InBarrier == at'[Main] # "out" => at[Main] # "out"
<1>1. /\ client[Main] \in P!ClientState /\ client \in [{Main} -> P!ClientState]
      /\ at \in [PE \cup {Main} -> {"out", "asleep", "woken"}]
  BY PoolFacts, AtFacts
<1>2. UNCHANGED client => InCall
  OBVIOUS
<1>3. UNCHANGED at => InBarrier
  OBVIOUS
<1>4. ASSUME NEW p \in PE, Bar!Arrive(p) \/ Bar!Recheck(p) PROVE InBarrier
  <2>1. p # Main
    BY MainAssumption
  <2> QED
    BY <1>1, <1>4, <2>1 DEF Bar!Arrive, Bar!ArriveAndWait, Bar!ArriveAndPass, Bar!ArriveLast,
      Bar!Recheck
<1>5. ASSUME NEW t \in PE \cup {Main}, Bar!SpuriousWake(t) PROVE InBarrier
  BY <1>1, <1>5 DEF Bar!SpuriousWake
<1>6. ASSUME NEW p \in PE, Pool!Finish(p) PROVE InCall
  BY <1>1, <1>6 DEF Pool!Finish, Pool!SignalWorking, Pool!Waiters, P!ClientState
<1>7. Pool!SpuriousClientWake(Main) => InCall
  BY <1>1 DEF Pool!SpuriousClientWake, P!ClientState
<1>8. ASSUME NEW p \in PE,
             \/ Pool!Sleep(p) \/ Pool!Take(p) \/ Pool!Complete(p) \/ Pool!SpuriousWorkerWake(p)
      PROVE  UNCHANGED client
  BY <1>8 DEF Pool!Sleep, Pool!Take, Pool!Complete, Pool!SpuriousWorkerWake
<1> HIDE DEF InCall, InBarrier
<1>9. ASSUME NEW p \in PE, RunTask(p) PROVE InCall /\ InBarrier
  <2>1. CASE EnterBarrier(p)
    BY <1>2, <1>4, <1>8, <2>1 DEF EnterBarrier, TaskReturns, poolVars
  <2>2. CASE ~EnterBarrier(p)
    BY <1>2, <1>3, <1>8, <1>9, <2>2 DEF RunTask, RunGet, RunOther, CheckUpdate, ApplyUpdate,
      RunReduce, poolVars, barVars
  <2> QED
    BY <2>1, <2>2
<1>10. ASSUME NEW p \in PE, WorkerLoop(p) PROVE InCall /\ InBarrier
  BY <1>2, <1>3, <1>6, <1>8, <1>10 DEF WorkerLoop, barVars
<1>11. PoolSpurious \/ UpdateSpurious => InCall /\ InBarrier
  BY <1>2, <1>3, <1>7, <1>8 DEF PoolSpurious, UpdateSpurious, barVars, poolVars
<1>12. BarrierSpurious => InCall /\ InBarrier
  BY <1>2, <1>3, <1>5 DEF BarrierSpurious, poolVars
<1>13. UNCHANGED vars => InCall /\ InBarrier
  BY <1>2, <1>3 DEF vars, poolVars, barVars
<1>14. InCall /\ InBarrier
  BY <1>9, <1>10, <1>11, <1>12, <1>13 DEF Next, WorkerStep
<1> QED
  BY <1>14 DEF InCall, InBarrier

\* Every step keeps MainInv.
LEMMA MainKept ==
    ASSUME BarrierKept, P!PoolInv, MainInv, [Next]_vars
    PROVE  MainInv'
<1> USE DEF At
<1>1. client[Main] \in P!ClientState /\ client \in [{Main} -> P!ClientState]
  BY PoolFacts
<1>2. CASE Submit
  <2>1. ~Done /\ Now.op = "fork" /\ at[Main] = "out" /\ ~main.waiting
        /\ UNCHANGED <<program, barVars>> /\ main' = NextTurn
    BY <1>2 DEF Submit, MainInv
  <2>2. CASE main.turn < Len(Now.tasks)
    <3>1. /\ main.turn + 1 \in 1 .. MaxTurns
          /\ main.turn + 1 <= Len(Now.tasks)
      BY <2>1, <2>2, NowFacts, Turns DEF MainInv
    <3>2. main' = [main EXCEPT !.turn = main.turn + 1]
      BY <2>1, <2>2 DEF NextTurn
    <3>3. /\ main'.step = main.step /\ main'.pe = main.pe /\ ~main'.waiting
          /\ main'.turn = main.turn + 1
      BY <2>1, <3>2 DEF MainInv
    <3>4. (Done' <=> Done) /\ Now' = Now
      BY <2>1, <3>3 DEF Done, Now
    <3> QED
      BY <2>1, <3>1, <3>2, <3>3, <3>4 DEF MainInv, barVars
  <2>3. CASE ~(main.turn < Len(Now.tasks))
    BY <2>1, <2>3, NextHead DEF NextTurn, barVars
  <2> QED
    BY <2>2, <2>3
<1>3. CASE Wait
  <2>1. ~Done /\ Now.op = "wait" /\ at'[Main] = "out" /\ UNCHANGED program
        /\ main' = [main EXCEPT !.waiting = TRUE]
    BY <1>3 DEF Wait, barVars
  <2>2. client'[Main].at = "check" /\ client'[Main].on = main.pe
    BY <1>1, <1>3 DEF Wait, Pool!WaitCall, Pool!InCall
  <2>3. /\ main'.step = main.step /\ main'.pe = main.pe /\ main'.waiting
        /\ main'.turn = main.turn
    BY <2>1 DEF MainInv
  <2>4. (Done' <=> Done) /\ Now' = Now
    BY <2>1, <2>3 DEF Done, Now
  <2> QED
    BY <2>1, <2>2, <2>3, <2>4 DEF MainInv
<1>4. CASE WaitBlocks
  BY <1>1, <1>4, MainStays DEF WaitBlocks, Pool!WaitBlock, barVars, P!ClientState
<1>5. CASE WaitReturns
  <2>1. ~Done /\ at'[Main] = "out" /\ UNCHANGED program /\ main' = NextPE
    BY <1>5 DEF WaitReturns, MainInv, barVars
  <2> QED
    BY <2>1, NextHead
<1>6. CASE MainBarrier
  <2>1. ~Done /\ Now.op = "barrier" /\ UNCHANGED <<program, client>>
    BY <1>6 DEF MainBarrier, Bar!Recheck, MainInv, poolVars
  <2>2. CASE at'[Main] = "out"
    BY <1>6, <2>1, <2>2, NextHead DEF MainBarrier
  <2>3. CASE at'[Main] # "out"
    <3>1. UNCHANGED main
      BY <1>6, <2>3 DEF MainBarrier
    <3> QED
      BY <2>1, <3>1 DEF MainInv, Done, Now
  <2> QED
    BY <2>2, <2>3
<1>7. CASE Free \/ Close \/ Release \/ End
  <2>1. ~Done /\ UNCHANGED <<program, client, at>> /\ at[Main] = "out"
    BY <1>7 DEF Free, Close, Release, End, barVars, poolVars
  <2>2. main' = NextStep \/ UNCHANGED main
    BY <1>7 DEF Free, Close, Release, End
  <2> QED
    BY <2>1, <2>2, NextHead, MainStays
<1>8. CASE UNCHANGED vars
  BY <1>8, MainStays DEF vars, poolVars, barVars
<1>9. ASSUME UNCHANGED <<program, main>>, ~MainStep PROVE MainInv'
  BY <1>9, OthersLeaveMain, MainStays
<1>10. ~MainStep => UNCHANGED <<program, main>>
  BY DEF Next, vars, WorkerStep, RunTask, EnterBarrier, RunGet, RunOther, CheckUpdate, ApplyUpdate,
    RunReduce, WorkerLoop, PoolSpurious, BarrierSpurious, UpdateSpurious
<1> QED
  BY <1>2, <1>3, <1>4, <1>5, <1>6, <1>7, <1>8, <1>9, <1>10 DEF MainStep

----------------------------------------------------------------------------
(* The units that travel through the pool *)

\* What appending to a queue and taking from it do to the set of its units.
LEMMA QueueEnds ==
    ASSUME NEW S, NEW q \in Seq(S)
    PROVE  /\ \A u \in S : ToSet(Append(q, u)) = ToSet(q) \cup {u}
           /\ q # <<>> => Head(q) \in ToSet(q) /\ ToSet(Tail(q)) \subseteq ToSet(q)
<1>1. ASSUME NEW u \in S PROVE ToSet(Append(q, u)) = ToSet(q) \cup {u}
  <2>1. /\ Len(Append(q, u)) = Len(q) + 1 /\ Append(q, u)[Len(q) + 1] = u /\ Len(q) \in Nat
        /\ \A i \in 1 .. Len(q) : Append(q, u)[i] = q[i]
        /\ DOMAIN Append(q, u) = 1 .. Len(q) + 1 /\ DOMAIN q = 1 .. Len(q)
    OBVIOUS
  <2>2. ToSet(q) \cup {u} \subseteq ToSet(Append(q, u))
    BY <2>1 DEF ToSet
  <2>3. ASSUME NEW v \in ToSet(Append(q, u)) PROVE v \in ToSet(q) \cup {u}
    <3>1. PICK i \in 1 .. Len(q) + 1 : v = Append(q, u)[i]
      BY <2>1, <2>3 DEF ToSet
    <3>2. CASE i = Len(q) + 1
      BY <2>1, <3>1, <3>2
    <3>3. CASE i # Len(q) + 1
      <4>1. i \in 1 .. Len(q)
        BY <2>1, <3>3
      <4> QED
        BY <2>1, <3>1, <4>1 DEF ToSet
    <3> QED
      BY <3>2, <3>3
  <2> QED
    BY <2>2, <2>3
<1>2. ASSUME q # <<>> PROVE Head(q) \in ToSet(q) /\ ToSet(Tail(q)) \subseteq ToSet(q)
  <2>1. /\ Len(q) \in Nat /\ Len(q) >= 1 /\ Head(q) = q[1] /\ DOMAIN q = 1 .. Len(q)
        /\ DOMAIN Tail(q) = 1 .. Len(q) - 1
        /\ \A i \in 1 .. Len(q) - 1 : Tail(q)[i] = q[i + 1]
    BY <1>2
  <2>2. \A i \in 1 .. Len(q) - 1 : i + 1 \in 1 .. Len(q)
    BY <2>1
  <2> QED
    BY <2>1, <2>2 DEF ToSet
<1> QED
  BY <1>1, <1>2

\* Who changes the queues and the workers' units: only Submit adds.
LEMMA QueueSteps ==
    ASSUME MainInv, P!PoolInv, [Next]_vars
    PROVE  \/ UNCHANGED <<queue, unit>>
           \/ /\ Submit /\ ThisUnit \in Unit /\ main.pe \in PE
              /\ queue' = [queue EXCEPT ![main.pe] = Append(queue[main.pe], ThisUnit)]
              /\ UNCHANGED unit
           \/ \E p \in PE :
                /\ worker[p] = "fetch" /\ queue[p] # <<>>
                /\ queue' = [queue EXCEPT ![p] = Tail(queue[p])]
                /\ unit' = [unit EXCEPT ![p] = Head(queue[p])]
           \/ \E p \in PE : UNCHANGED queue /\ unit' = [unit EXCEPT ![p] = None]
<1>1. CASE Submit
  <2>1. ThisUnit \in Unit /\ main.pe \in PE
    BY <1>1, UnitIsUnit DEF Submit, At
  <2> QED
    BY <1>1, <2>1 DEF Submit, Pool!AddWork, Pool!RefuseWork, Pool!Enqueued, Pool!poolVars, poolVars
<1>2. CASE WaitReturns \/ Wait \/ WaitBlocks \/ MainBarrier \/ Free \/ Close \/ Release \/ End
  BY <1>2 DEF Wait, WaitBlocks, WaitReturns, MainBarrier, Free, Close, Release, End, Pool!WaitCall,
    Pool!WaitBlock, Pool!WaitReturn, Pool!poolVars, poolVars
<1>3. ASSUME NEW p \in PE, Pool!Complete(p)
      PROVE  UNCHANGED queue /\ unit' = [unit EXCEPT ![p] = None]
  BY <1>3 DEF Pool!Complete, Pool!poolVars
<1>4. ASSUME NEW p \in PE, RunTask(p)
      PROVE  Pool!Complete(p) \/ UNCHANGED poolVars
  BY <1>4 DEF RunTask, EnterBarrier, RunGet, RunOther, CheckUpdate, ApplyUpdate, RunReduce,
    TaskReturns
<1>5. ASSUME NEW p \in PE, Pool!Sleep(p) \/ Pool!Finish(p) \/ Pool!SpuriousWorkerWake(p)
      PROVE  UNCHANGED <<queue, unit>>
  BY <1>5 DEF Pool!Sleep, Pool!Finish, Pool!SpuriousWorkerWake, Pool!poolVars
<1>6. ASSUME NEW p \in PE, Pool!Take(p)
      PROVE  /\ worker[p] = "fetch" /\ queue[p] # <<>>
             /\ queue' = [queue EXCEPT ![p] = Tail(queue[p])]
             /\ unit' = [unit EXCEPT ![p] = Head(queue[p])]
  BY <1>6 DEF Pool!Take, Pool!MayTake
<1>7. PoolSpurious \/ BarrierSpurious \/ UpdateSpurious => UNCHANGED <<queue, unit>>
  BY <1>5 DEF PoolSpurious, BarrierSpurious, UpdateSpurious, Pool!SpuriousClientWake, Pool!poolVars, poolVars
<1>8. UNCHANGED vars => UNCHANGED <<queue, unit>>
  BY DEF vars, poolVars
<1>9. ASSUME NEW p \in PE, WorkerLoop(p)
      PROVE  Pool!Sleep(p) \/ Pool!Take(p) \/ Pool!Finish(p)
  BY <1>9 DEF WorkerLoop
<1>10. UNCHANGED poolVars => UNCHANGED <<queue, unit>>
  BY DEF poolVars
<1> QED
  BY <1>1, <1>2, <1>3, <1>4, <1>5, <1>6, <1>7, <1>8, <1>9, <1>10 DEF Next, MainStep, WorkerStep

\* No step changes which program runs.
LEMMA ProgramConstant == [Next]_vars => UNCHANGED program
BY DEF Next, vars, MainStep, Submit, Wait, WaitBlocks, WaitReturns, MainBarrier, Free, Close, Release, End,
    WorkerStep, RunTask, EnterBarrier, RunGet, RunOther, CheckUpdate, ApplyUpdate,
    RunReduce, WorkerLoop, PoolSpurious, BarrierSpurious, UpdateSpurious

\* Every step keeps UnitsAdded.
LEMMA UnitsKept ==
    ASSUME MainInv, P!PoolInv, UnitsAdded, [Next]_vars
    PROVE  UnitsAdded'
<1>1. queue \in [PE -> Seq(Unit)] /\ unit \in [PE -> Unit \cup {None}]
  BY PoolFacts
<1>2. \A u, p : Added(u, p)' <=> Added(u, p)
  BY ProgramConstant DEF Added
<1>3. CASE UNCHANGED <<queue, unit>>
  BY <1>2, <1>3 DEF UnitsAdded
<1>4. ASSUME Submit, ThisUnit \in Unit, main.pe \in PE,
             queue' = [queue EXCEPT ![main.pe] = Append(queue[main.pe], ThisUnit)],
             UNCHANGED unit
      PROVE  UnitsAdded'
  <2>1. Added(ThisUnit, main.pe)
    BY <1>4, UnitIsUnit DEF Submit, At
  <2>2. ToSet(queue'[main.pe]) = ToSet(queue[main.pe]) \cup {ThisUnit}
    BY <1>1, <1>4, QueueEnds
  <2>3. \A p \in PE \ {main.pe} : queue'[p] = queue[p]
    BY <1>1, <1>4
  <2> QED
    BY <1>2, <1>4, <2>1, <2>2, <2>3 DEF UnitsAdded
<1>5. ASSUME NEW p \in PE, worker[p] = "fetch", queue[p] # <<>>,
             queue' = [queue EXCEPT ![p] = Tail(queue[p])],
             unit' = [unit EXCEPT ![p] = Head(queue[p])]
      PROVE  UnitsAdded'
  <2>1. unit'[p] \in ToSet(queue[p]) /\ ToSet(queue'[p]) \subseteq ToSet(queue[p])
    BY <1>1, <1>5, QueueEnds
  <2>2. \A q \in PE \ {p} : queue'[q] = queue[q] /\ unit'[q] = unit[q]
    BY <1>1, <1>5
  <2> QED
    BY <1>2, <2>1, <2>2 DEF UnitsAdded
<1>6. ASSUME NEW p \in PE, UNCHANGED queue, unit' = [unit EXCEPT ![p] = None] PROVE UnitsAdded'
  BY <1>1, <1>2, <1>6 DEF UnitsAdded
<1> QED
  BY <1>3, <1>4, <1>5, <1>6, QueueSteps

\* The invariant holds at the start.
LEMMA ProgramInvInit == Init => ProgramInv
<1> SUFFICES ASSUME Init PROVE ProgramInv
  OBVIOUS
<1>1. BarrierKept
  BY BarrierKeptInit
<1>2. P!PoolInv
  <2>1. P!Init
    BY SamePEs DEF Init, Pool!Init, P!Init, P!IdleClient, Pool!IdleClient, P!ThreadsPerQueue,
      Pool!ThreadsPerQueue
  <2>2. Num \in Nat /\ None \notin Unit
    BY SamePEs, NoneAssumption
  <2> QED
    BY <2>1, <2>2, P!PoolInvInit DEF P!NumAssumption, P!NoneAssumption
<1>3. NeverStopped
  BY SamePEs DEF Init, Pool!Init, NeverStopped
<1>4. MainInv
  <2>1. program \in Programs /\ main = [step |-> 1, pe |-> 0, turn |-> 1, waiting |-> FALSE]
        /\ at[Main] = "out"
    BY DEF Init, Bar!Init
  <2>2. Len(Script[program]) \in Nat /\ 1 \in 1 .. MaxTurns
    BY <2>1, ScriptFacts, Turns
  <2>3. main \in [step : 1 .. Len(Script[program]) + 1, pe : PE, turn : 1 .. MaxTurns,
                 waiting : BOOLEAN]
    BY <2>1, <2>2, SamePEs
  <2>4. ASSUME ~Done, Now.op = "fork" PROVE main.turn <= Len(Now.tasks)
    <3>1. main.step \in 1 .. Len(Script[program])
      BY <2>1, <2>2, <2>4 DEF Done
    <3> QED
      BY <2>1, <2>4, <3>1, ScriptFacts DEF Now
  <2> QED
    BY <2>1, <2>3, <2>4 DEF MainInv
<1>5. UnitsAdded
  BY SamePEs DEF Init, Pool!Init, UnitsAdded, ToSet
<1> QED
  BY <1>1, <1>2, <1>3, <1>4, <1>5 DEF ProgramInv

\* Every step keeps the invariant.
LEMMA ProgramInvStep == ProgramInv /\ [Next]_vars => ProgramInv'
BY BarrierKeptStep, PoolKept, StopsKept, MainKept, UnitsKept DEF ProgramInv

\* In every program the barrier and the pool keep their invariants, the main thread
\* is where MainInv says, and every unit in the pool is one a fork of the script added.
THEOREM ProgramInvariant == Spec => []ProgramInv
BY ProgramInvInit, ProgramInvStep, PTL DEF Spec

----------------------------------------------------------------------------
(* The reductions *)

\* No reduction gets to the turns that count the other updates and signal, and
\* none returns.
ReductionsWait ==
    Num > 1 => /\ \A p \in PE : reducer[p].turn = 0
               /\ \A u \in finished : Kind(u) # "reduce"

\* A task that is in pthread_cond_wait has counted one update, its own first.
FirstOnly ==
    [turn : {0}, received : {0}, at : {"out"}]
    \cup [turn : {0}, received : {1}, at : {"asleep", "woken"}]

ReduceInv ==
    Num > 1 => /\ reducer \in [PE -> FirstOnly]
               /\ \A u \in finished : Kind(u) # "reduce"

\* With two PEs or more the first turn waits, and goes on waiting when woken.
LEMMA FirstTurnWaits ==
    ASSUME Num > 1, NEW r \in FirstOnly
    PROVE  Turn(r) = [turn |-> 0, received |-> 1, at |-> "asleep"] /\ Signalled(r) = {{}}
<1>1. /\ r \in [turn : {0}, received : {0, 1}, at : {"out", "asleep", "woken"}]
      /\ (IF r.at = "out" THEN r.received + 1 ELSE r.received) = 1
  BY DEF FirstOnly
<1>2. [r EXCEPT !.received = 1] = [turn |-> 0, received |-> 1, at |-> r.at]
  BY <1>1
<1>3. AwaitsUpdates([r EXCEPT !.received = 1])
  BY <1>2, SamePEs DEF AwaitsUpdates
<1>4. Turn(r) = [[r EXCEPT !.received = 1] EXCEPT !.at = "asleep"]
  BY <1>1, <1>3, Zenon DEF Turn
<1>5. Signalled(r) = {{}}
  BY <1>1 DEF Signalled
<1> QED
  BY <1>2, <1>4, <1>5

\* Such a turn changes its own task only, and the task does not return.
LEMMA ReduceStays ==
    ASSUME Num > 1, reducer \in [PE -> FirstOnly], NEW p \in PE, RunReduce(p)
    PROVE  reducer' \in [PE -> FirstOnly] /\ UNCHANGED poolVars
<1> DEFINE next == Turn(reducer[p])
<1>1. next = [turn |-> 0, received |-> 1, at |-> "asleep"] /\ Signalled(reducer[p]) = {{}}
  BY FirstTurnWaits
<1>2. next.turn # Num /\ next \in FirstOnly
  BY <1>1, SamePEs DEF FirstOnly
<1> HIDE DEF next
<1>3. /\ \E woken \in {{}} :
            reducer' = [q \in PE |->
                IF q = p THEN next
                ELSE [reducer[q] EXCEPT !.at = IF q \in woken THEN "woken" ELSE reducer[q].at]]
      /\ UNCHANGED poolVars
  BY <1>1, <1>2 DEF RunReduce, next
<1>4. reducer' = [q \in PE |-> IF q = p THEN next
                               ELSE [reducer[q] EXCEPT !.at = reducer[q].at]]
  BY <1>3
<1>5. \A r \in FirstOnly : [r EXCEPT !.at = r.at] = r
  BY DEF FirstOnly
<1>6. \A q \in PE : [reducer[q] EXCEPT !.at = reducer[q].at] \in FirstOnly
  BY <1>5
<1> QED
  BY <1>2, <1>3, <1>4, <1>6

\* Who moves in a reduction, and which tasks finish.
LEMMA ReduceSteps ==
    ASSUME [Next]_vars
    PROVE  /\ \/ UNCHANGED reducer
              \/ \E p \in PE : RunReduce(p)
              \/ \E p \in PE : /\ reducer[p].at = "asleep"
                               /\ reducer' = [reducer EXCEPT ![p].at = "woken"]
           /\ \/ UNCHANGED finished
              \/ \E p \in PE : RunReduce(p) /\ ~UNCHANGED poolVars
              \/ \E p \in PE : finished' = finished \cup {unit[p]} /\ Kind(unit[p]) # "reduce"
<1>1. CASE MainStep
  BY <1>1 DEF MainStep, Submit, Wait, WaitBlocks, WaitReturns, MainBarrier, Free, Close, Release,
    End, locals, poolVars, Pool!AddWork, Pool!RefuseWork, Pool!WaitCall, Pool!WaitBlock,
    Pool!WaitReturn, Pool!history
<1>2. ASSUME NEW p \in PE, WorkerLoop(p) PROVE UNCHANGED <<reducer, finished>>
  BY <1>2 DEF WorkerLoop, locals, Pool!Sleep, Pool!Take, Pool!Finish, Pool!history
<1>3. CASE PoolSpurious \/ BarrierSpurious \/ UNCHANGED vars
  BY <1>3 DEF PoolSpurious, BarrierSpurious, vars, locals, poolVars, Pool!SpuriousClientWake,
    Pool!SpuriousWorkerWake, Pool!history
<1>4. CASE UpdateSpurious
  BY <1>4 DEF UpdateSpurious, poolVars
<1>5. ASSUME NEW p \in PE, RunReduce(p), UNCHANGED poolVars PROVE UNCHANGED finished
  BY <1>5 DEF poolVars
<1>6. ASSUME NEW p \in PE, RunTask(p), ~RunReduce(p)
      PROVE  /\ UNCHANGED reducer
             /\ \/ UNCHANGED finished
                \/ finished' = finished \cup {unit[p]} /\ Kind(unit[p]) # "reduce"
  BY <1>6 DEF RunTask, EnterBarrier, RunGet, RunOther, CheckUpdate, ApplyUpdate, TaskReturns, Runs,
    locals, poolVars, Pool!Complete
<1> QED
  BY <1>1, <1>2, <1>3, <1>4, <1>5, <1>6 DEF Next, WorkerStep, RunTask

\* With more than one PE no reduction task returns: it waits in its first turn
\* for updates that only its own later turns would count.
THEOREM ReductionsHang == Spec => []ReductionsWait
<1>1. Init => ReduceInv
  BY SamePEs DEF Init, Pool!Init, ReduceInv, LoopStart, FirstOnly
<1>2. ReduceInv /\ [Next]_vars => ReduceInv'
  <2> SUFFICES ASSUME ReduceInv, [Next]_vars, Num > 1
               PROVE  /\ reducer' \in [PE -> FirstOnly]
                      /\ \A u \in finished' : Kind(u)' # "reduce"
    BY DEF ReduceInv
  <2>1. reducer \in [PE -> FirstOnly] /\ \A u \in finished : Kind(u) # "reduce"
    BY DEF ReduceInv
  <2>2. \A v : Kind(v)' = Kind(v)
    BY ProgramConstant DEF Kind
  <2>3. reducer' \in [PE -> FirstOnly]
    <3>1. ASSUME NEW p \in PE, reducer[p].at = "asleep",
                 reducer' = [reducer EXCEPT ![p].at = "woken"]
          PROVE  reducer' \in [PE -> FirstOnly]
      <4>1. [reducer[p] EXCEPT !.at = "woken"] \in FirstOnly
        BY <2>1, <3>1 DEF FirstOnly
      <4> QED
        BY <2>1, <3>1, <4>1
    <3> QED
      BY <2>1, <3>1, ReduceSteps, ReduceStays
  <2>4. \A u \in finished' : Kind(u) # "reduce"
    BY <2>1, ReduceSteps, ReduceStays
  <2> QED
    BY <2>2, <2>3, <2>4
<1>3. ReduceInv => ReductionsWait
  BY DEF ReduceInv, ReductionsWait, FirstOnly
<1> QED
  BY <1>1, <1>2, <1>3, PTL DEF Spec

----------------------------------------------------------------------------
(* What is left when the program frees its memory *)

\* The main thread is past its wait on p's queue at step w.
Behind(p, w) == main.step > w \/ (main.step = w /\ p < main.pe)

\* What that wait left is known.
LeftKnown(p) ==
    ToSet(queue[p]) \subseteq missed /\ (unit[p] # None => unit[p] \in missed)

\* So it is for every queue the main thread has waited on at step w.
KnownBehind(w) == \A p \in PE : Behind(p, w) => LeftKnown(p)

\* Memory is freed behind the waits, so whoever comes late was left by one.
LateInv ==
    program \in Waiting =>
        /\ KnownBehind(3)
        /\ shared = "freed" \/ config = "freed" => main.step > 3
        /\ late \subseteq missed

\* The destructor releases its memory behind its waits.
ExitInv ==
    /\ KnownBehind(LastWait)
    /\ array = "freed" => main.step > LastWait
    /\ spoiled \subseteq missed

\* At the step of a wait, and behind it, the main thread adds no task.
LEMMA StepsOfWait ==
    ASSUME MainInv, ~Done, NEW w, WaitsAt(Script[program], w)
    PROVE  /\ Now.op = "fork" => main.step < w
           /\ main.step = w => Now.op = "wait"
<1>1. main.step \in 1 .. Len(Script[program]) /\ Now = Script[program][main.step]
  BY NowFacts
<1> QED
  BY <1>1 DEF WaitsAt

\* Where a script that waits first adds its tasks, waits for them and frees memory.
LEMMA StepsOfWaiting ==
    ASSUME MainInv, ~Done, program \in Waiting
    PROVE  /\ Now.op = "fork" => main.step = 2
           /\ WaitsAt(Script[program], 3)
           /\ Now.op \in {"free", "close"} => main.step > 3
<1>1. WaitsFirst(Script[program])
  BY WaitingPrograms
<1>2. WaitsAt(Script[program], 3)
  BY <1>1 DEF WaitsFirst, WaitsAt
<1> QED
  BY <1>1, <1>2, NowFacts DEF WaitsFirst

\* How the main thread moves.
LEMMA MainMoves ==
    ASSUME MainInv, [Next]_vars
    PROVE  \/ main'.step = main.step /\ main'.pe = main.pe
           \/ ~Done /\ Now.op = "fork" /\ main' = NextPE
           \/ WaitReturns /\ ~Done /\ Now.op = "wait" /\ main' = NextPE
           \/ /\ ~Done /\ Now.op \notin {"fork", "wait"} /\ main' = NextStep
              /\ Now.op = "barrier" => MainBarrier
<1>1. CASE Submit
  BY <1>1 DEF Submit, At, NextTurn, MainInv
<1>2. CASE Wait
  BY <1>2 DEF Wait, MainInv
<1>3. CASE WaitReturns
  BY <1>3 DEF WaitReturns, MainInv
<1>4. CASE MainBarrier
  <2>1. ~Done /\ Now.op = "barrier"
    BY <1>4 DEF MainBarrier, At, Bar!Recheck, MainInv
  <2> QED
    BY <1>4, <2>1 DEF MainBarrier
<1>5. CASE Free \/ Close \/ Release \/ End
  BY <1>5 DEF Free, Close, Release, End, At
<1>6. CASE ~MainStep \/ WaitBlocks
  BY <1>6 DEF Next, vars, WorkerStep, RunTask, EnterBarrier, RunGet, RunOther, CheckUpdate,
    ApplyUpdate, RunReduce, WorkerLoop, PoolSpurious, BarrierSpurious, UpdateSpurious, WaitBlocks
<1> QED
  BY <1>1, <1>2, <1>3, <1>4, <1>5, <1>6 DEF MainStep

\* The main thread gets past the wait on a queue when that wait returns.
LEMMA BehindGrows ==
    ASSUME MainInv, NEW w \in Nat, WaitsAt(Script[program], w), [Next]_vars,
           NEW p \in PE, Behind(p, w)'
    PROVE  Behind(p, w) \/ (WaitReturns /\ p = main.pe)
<1>1. main.step \in Nat /\ main.pe \in 0 .. Num - 1 /\ p \in 0 .. Num - 1
      /\ Num \in Nat
  BY ScriptFacts, SamePEs DEF MainInv
<1>2. CASE main'.step = main.step /\ main'.pe = main.pe
  BY <1>2 DEF Behind
<1>3. NextStep.step = main.step + 1 /\ NextStep.pe = 0
  BY DEF NextStep
<1>4. /\ main.pe < Num - 1 => NextPE.step = main.step /\ NextPE.pe = main.pe + 1
      /\ ~(main.pe < Num - 1) => NextPE = NextStep
  BY DEF NextPE, MainInv
<1>5. CASE ~Done /\ Now.op = "fork" /\ main' = NextPE
  <2>1. main.step < w
    BY <1>5, StepsOfWait
  <2>2. main'.step = main.step \/ (main'.step = main.step + 1 /\ main'.pe = 0)
    BY <1>3, <1>4, <1>5
  <2> QED
    BY <1>1, <2>1, <2>2 DEF Behind
<1>6. CASE WaitReturns /\ ~Done /\ Now.op = "wait" /\ main' = NextPE
  BY <1>1, <1>3, <1>4, <1>6 DEF Behind
<1>7. CASE ~Done /\ Now.op \notin {"fork", "wait"} /\ main' = NextStep
  <2>1. main.step # w
    BY <1>7, StepsOfWait
  <2> QED
    BY <1>1, <1>3, <1>7, <2>1 DEF Behind
<1> QED
  BY <1>2, <1>5, <1>6, <1>7, MainMoves

\* Who frees memory, who forgets no miss, and who comes late.
LEMMA MemorySteps ==
    ASSUME [Next]_vars
    PROVE  /\ missed \subseteq missed'
           /\ UNCHANGED <<shared, config>> \/ Free \/ Close
           /\ \/ UNCHANGED late
              \/ \E p \in PE : /\ worker[p] = "running" /\ late' \subseteq late \cup {unit[p]}
                               /\ shared = "freed" \/ config = "freed"
           /\ UNCHANGED array \/ Release
           /\ \/ UNCHANGED spoiled
              \/ Release
              \/ \E p \in PE : /\ worker[p] = "running" /\ array = "freed"
                               /\ spoiled' = spoiled \cup {unit[p]}
<1>1. CASE MainStep
  BY <1>1 DEF MainStep, Submit, Wait, WaitBlocks, WaitReturns, MainBarrier, Free, Close, Release,
    End, memory
<1>2. ASSUME NEW p \in PE, RunTask(p)
      PROVE  /\ UNCHANGED <<missed, shared, config, array>>
             /\ \/ UNCHANGED late
                \/ /\ worker[p] = "running" /\ late' \subseteq late \cup {unit[p]}
                   /\ shared = "freed" \/ config = "freed"
             /\ \/ UNCHANGED spoiled
                \/ /\ worker[p] = "running" /\ array = "freed"
                   /\ spoiled' = spoiled \cup {unit[p]}
  BY <1>2 DEF RunTask, EnterBarrier, RunGet, RunOther, CheckUpdate, ApplyUpdate, RunReduce, Runs,
    Uses, memory
<1>3. ASSUME NEW p \in PE, WorkerLoop(p) PROVE UNCHANGED <<missed, memory>>
  BY <1>3 DEF WorkerLoop
<1>4. CASE PoolSpurious \/ BarrierSpurious \/ UpdateSpurious
  BY <1>4 DEF PoolSpurious, BarrierSpurious, UpdateSpurious, memory
<1>5. CASE UNCHANGED vars
  BY <1>5 DEF vars, memory
<1> QED
  BY <1>1, <1>2, <1>3, <1>4, <1>5 DEF Next, WorkerStep, memory

\* What a wait left stays known: nothing is added to the queue after it.
LEMMA LeftKnownKept ==
    ASSUME ProgramInv, NEW w \in Nat, WaitsAt(Script[program], w), [Next]_vars,
           NEW p \in PE, Behind(p, w), LeftKnown(p)
    PROVE  LeftKnown(p)'
<1>1. /\ queue \in [PE -> Seq(Unit)] /\ unit \in [PE -> Unit \cup {None}]
      /\ missed \subseteq missed' /\ MainInv /\ P!PoolInv
  BY PoolFacts, MemorySteps DEF ProgramInv
<1>2. ~Submit
  <2>1. main.step \in Nat /\ main.step >= w
    BY <1>1, ScriptFacts DEF Behind, MainInv
  <2> QED
    BY <1>1, <2>1, StepsOfWait DEF Submit, At
<1>3. CASE UNCHANGED <<queue, unit>>
  BY <1>1, <1>3 DEF LeftKnown
<1>4. ASSUME NEW q \in PE, queue[q] # <<>>, queue' = [queue EXCEPT ![q] = Tail(queue[q])],
             unit' = [unit EXCEPT ![q] = Head(queue[q])]
      PROVE  LeftKnown(p)'
  <2>1. unit'[q] \in ToSet(queue[q]) /\ ToSet(queue'[q]) \subseteq ToSet(queue[q])
    BY <1>1, <1>4, QueueEnds
  <2>2. p # q => queue'[p] = queue[p] /\ unit'[p] = unit[p]
    BY <1>1, <1>4
  <2> QED
    BY <1>1, <2>1, <2>2 DEF LeftKnown
<1>5. ASSUME NEW q \in PE, UNCHANGED queue, unit' = [unit EXCEPT ![q] = None]
      PROVE  LeftKnown(p)'
  BY <1>1, <1>5 DEF LeftKnown
<1> QED
  BY <1>1, <1>2, <1>3, <1>4, <1>5, QueueSteps

\* A wait that returns knows what it leaves.
LEMMA WaitKnows ==
    ASSUME ProgramInv, WaitReturns, NEW p \in PE, p = main.pe
    PROVE  LeftKnown(p)'
<1>1. /\ P!PoolInv /\ MainInv /\ NeverStopped /\ main.pe \in PE
  BY DEF ProgramInv, MainInv
<1>2. client[Main].on = p /\ ~Pool!MustWait(client[Main].on) /\ UNCHANGED <<queue, unit>>
  BY <1>1 DEF WaitReturns, MainInv, Pool!WaitReturn
<1>3. working[p] = 0
  BY <1>1, <1>2 DEF Pool!MustWait, NeverStopped
<1>4. unit[p] = None
  BY <1>1, <1>3, PoolFacts
<1> QED
  BY <1>2, <1>4 DEF WaitReturns, LeftKnown

\* Every step keeps what is known behind a wait.
LEMMA KnownKept ==
    ASSUME ProgramInv, NEW w \in Nat, WaitsAt(Script[program], w), KnownBehind(w), [Next]_vars
    PROVE  \A p \in PE : Behind(p, w)' => LeftKnown(p)'
<1> SUFFICES ASSUME NEW p \in PE, Behind(p, w)' PROVE LeftKnown(p)'
  OBVIOUS
<1>1. CASE Behind(p, w)
  BY <1>1, LeftKnownKept DEF KnownBehind
<1>2. CASE WaitReturns /\ p = main.pe
  BY <1>2, WaitKnows
<1>3. MainInv
  BY DEF ProgramInv
<1> QED
  BY <1>1, <1>2, <1>3, BehindGrows

\* The main thread does not go back.
LEMMA StepsGrow ==
    ASSUME MainInv, [Next]_vars
    PROVE  main.step \in Nat /\ main'.step \in Nat /\ main'.step >= main.step
<1>1. main.step \in Nat
  BY ScriptFacts DEF MainInv
<1>2. NextStep.step = main.step + 1 /\ NextPE.step \in {main.step, main.step + 1}
  BY DEF NextStep, NextPE, MainInv
<1> QED
  BY <1>1, <1>2, MainMoves

\* A worker's unit behind a wait is known.
LEMMA RunningKnown ==
    ASSUME ProgramInv, NEW w \in Nat, KnownBehind(w), main.step > w,
           NEW p \in PE, worker[p] = "running"
    PROVE  unit[p] \in missed
<1>1. LeftKnown(p)
  BY DEF KnownBehind, Behind
<1> QED
  BY <1>1, PoolFacts DEF LeftKnown, ProgramInv

\* Every step keeps LateInv.
LEMMA LateInvStep == ProgramInv /\ LateInv /\ [Next]_vars => LateInv'
<1> SUFFICES ASSUME ProgramInv, LateInv, [Next]_vars, program \in Waiting PROVE LateInv'
  BY ProgramConstant DEF LateInv
<1>1. MainInv /\ P!PoolInv /\ WaitsAt(Script[program], 3) /\ KnownBehind(3)
  <2>1. WaitsFirst(Script[program])
    BY WaitingPrograms
  <2> QED
    BY <2>1 DEF ProgramInv, LateInv, WaitsFirst, WaitsAt
<1>2. KnownBehind(3)'
  BY <1>1, KnownKept DEF KnownBehind
<1>3. (shared' = "freed" \/ config' = "freed") => main'.step > 3
  <2>1. main.step \in Nat /\ main'.step \in Nat /\ main'.step >= main.step
    BY <1>1, StepsGrow
  <2>2. Free \/ Close => main.step > 3
    BY <1>1, StepsOfWaiting DEF Free, Close, At
  <2> QED
    BY <2>1, <2>2, MemorySteps DEF LateInv
<1>4. late' \subseteq missed'
  <2>1. CASE UNCHANGED late
    BY <2>1, MemorySteps DEF LateInv
  <2>2. ASSUME NEW p \in PE, worker[p] = "running", late' \subseteq late \cup {unit[p]},
               shared = "freed" \/ config = "freed"
        PROVE  late' \subseteq missed'
    <3>1. unit[p] \in missed
      BY <1>1, <2>2, RunningKnown DEF LateInv
    <3> QED
      BY <2>2, <3>1, MemorySteps DEF LateInv
  <2> QED
    BY <2>1, <2>2, MemorySteps
<1> QED
  BY <1>2, <1>3, <1>4 DEF LateInv

\* In the programs that wait for their tasks first, a task that used freed
\* memory was still queued when a wait on its queue returned.
THEOREM LateMissed == Spec => []LateWasMissed
<1>1. Init => LateInv
  <2> SUFFICES ASSUME Init PROVE LateInv
    OBVIOUS
  <2>1. main.step = 1 /\ shared = "live" /\ config = "live" /\ late = {}
    BY DEF Init
  <2> QED
    BY <2>1 DEF LateInv, KnownBehind, Behind
<1>2. LateInv => LateWasMissed
  BY DEF LateInv, LateWasMissed, Waiting
<1> QED
  BY <1>1, <1>2, LateInvStep, ProgramInvariant, PTL DEF Spec

\* Every step keeps ExitInv.
LEMMA ExitInvStep == ProgramInv /\ ExitInv /\ [Next]_vars => ExitInv'
<1> SUFFICES ASSUME ProgramInv, ExitInv, [Next]_vars PROVE ExitInv'
  OBVIOUS
<1>1. MainInv /\ P!PoolInv /\ program \in Programs /\ 0 \in PE
  BY SamePEs DEF ProgramInv, MainInv
<1>2. /\ WaitsAt(Script[program], LastWait) /\ KnownBehind(LastWait) /\ LastWait \in Nat
      /\ LastWait' = LastWait
  BY <1>1, ProgramWaits, ProgramConstant, ScriptFacts DEF ExitInv, WaitsAt, LastWait
<1>3. main.step \in Nat /\ main'.step \in Nat /\ main'.step >= main.step
  BY <1>1, StepsGrow
<1>4. Release => main.step > LastWait
  <2> SUFFICES ASSUME Release PROVE main.step > LastWait
    OBVIOUS
  <2>1. ~Done /\ Now.op = "release"
    BY DEF Release, At
  <2>2. main.step \in 1 .. Len(Script[program]) /\ Now = Script[program][main.step]
    BY <1>1, <2>1, NowFacts
  <2> QED
    BY <1>1, <2>1, <2>2, ProgramWaits
<1>5. KnownBehind(LastWait)'
  <2>1. \A p \in PE : Behind(p, LastWait)' => LeftKnown(p)'
    <3> DEFINE w == LastWait
    <3>1. \A p \in PE : (main'.step > w \/ (main'.step = w /\ p < main'.pe)) => LeftKnown(p)'
      <4> HIDE DEF w
      <4>1. w \in Nat /\ WaitsAt(Script[program], w) /\ KnownBehind(w)
        BY <1>2 DEF w
      <4> QED
        BY <4>1, KnownKept DEF Behind
    <3> QED
      BY <1>2, <3>1 DEF Behind
  <2> QED
    BY <2>1 DEF KnownBehind
<1>6. array' = "freed" => main'.step > LastWait'
  BY <1>2, <1>3, <1>4, MemorySteps DEF ExitInv
<1>7. spoiled' \subseteq missed'
  <2>1. CASE UNCHANGED spoiled
    BY <2>1, MemorySteps DEF ExitInv
  <2>2. CASE Release
    <3>1. LeftKnown(0)
      BY <1>1, <1>2, <1>4, <2>2 DEF KnownBehind, Behind
    <3>2. spoiled' = spoiled \cup ToSet(queue[0]) \cup ({unit[0]} \ {None})
      BY <2>2 DEF Release
    <3> QED
      BY <3>1, <3>2, MemorySteps DEF LeftKnown, ExitInv
  <2>3. ASSUME NEW p \in PE, worker[p] = "running", array = "freed",
               spoiled' = spoiled \cup {unit[p]}
        PROVE  spoiled' \subseteq missed'
    <3>1. unit[p] \in missed
      BY <1>2, <2>3, RunningKnown DEF ExitInv
    <3> QED
      BY <2>3, <3>1, MemorySteps DEF ExitInv
  <2> QED
    BY <2>1, <2>2, <2>3, MemorySteps
<1> QED
  BY <1>5, <1>6, <1>7 DEF ExitInv

\* In every program the destructor's waits cover whatever it frees, except what
\* was still queued when one of the waits on its queue returned.
THEOREM ExitMissed == Spec => []ExitExplained
<1>1. Init => ExitInv
  <2> SUFFICES ASSUME Init PROVE ExitInv
    OBVIOUS
  <2>1. /\ main.step = 1 /\ main.pe = 0 /\ array = "live" /\ spoiled = {}
        /\ program \in Programs
    BY DEF Init
  <2>2. LastWait \in 1 .. Len(Script[program]) /\ Len(Script[program]) \in Nat
    BY <2>1, ProgramWaits, ScriptFacts DEF WaitsAt
  <2>3. \A p \in PE : ~Behind(p, LastWait)
    BY <2>1, <2>2, SamePEs DEF Behind
  <2> QED
    BY <2>1, <2>3 DEF ExitInv, KnownBehind
<1>2. ExitInv => ExitExplained
  BY DEF ExitInv, ExitExplained
<1> QED
  BY <1>1, <1>2, ExitInvStep, ProgramInvariant, PTL DEF Spec

\* Whatever the program, the barrier has kept as many threads as its
\* generations account for.
THEOREM StuckCounts == Spec => []StuckCount
<1>1. \A S : Bar!Cardinality(S) = Cardinality(S)
  BY DEF Bar!Cardinality, Cardinality
<1>2. BarrierKept => StuckCount
  <2> SUFFICES ASSUME BarrierKept PROVE StuckCount
    OBVIOUS
  <2>1. B!StuckCount
    BY DEF BarrierKept, B!InsideCounted
  <2>2. Cardinality({t \in PE \cup {Main} : at[t] # "out"}) =
          IF releases = 0 THEN 0 ELSE (releases - 1) * (Num - 1) + counter
    BY <2>1, SameCounting, Zenon DEF B!StuckCount
  <2> QED
    BY <1>1, <2>2, Zenon DEF StuckCount, Bar!StuckCount
<1> QED
  BY <1>2, BarrierHolds, PTL

----------------------------------------------------------------------------
(* The budget of barrier calls *)

\* The calls of the barrier the main thread has left behind at a step.
CallsBefore(k) == {s \in 1 .. k - 1 : Script[program][s].op = "barrier"}

\* Nobody else calls the barrier, so the arrivals are the main thread's.
BudgetInv ==
    Independent =>
        /\ \A p \in PE : at[p] = "out"
        /\ arrivals = Cardinality(CallsBefore(main.step)) + IF at[Main] = "out" THEN 0 ELSE 1

\* The barrier calls left behind are finitely many.
LEMMA CallsCounted ==
    ASSUME NEW k \in Nat
    PROVE  IsFiniteSet(CallsBefore(k)) /\ Cardinality(CallsBefore(k)) \in Nat
<1>1. IsFiniteSet(1 .. k - 1)
  BY FS_Interval
<1>2. CallsBefore(k) \subseteq 1 .. k - 1
  BY DEF CallsBefore
<1>3. IsFiniteSet(CallsBefore(k))
  BY <1>1, <1>2, FS_Subset
<1> QED
  BY <1>3, FS_CardinalityType

\* Leaving a step behind adds one call, when the step is one.
LEMMA CallsGrow ==
    ASSUME NEW k \in Nat, k >= 1
    PROVE  Cardinality(CallsBefore(k + 1)) =
             Cardinality(CallsBefore(k)) + IF Script[program][k].op = "barrier" THEN 1 ELSE 0
<1>1. CASE Script[program][k].op = "barrier"
  <2>1. CallsBefore(k + 1) = CallsBefore(k) \cup {k} /\ k \notin CallsBefore(k)
    BY <1>1 DEF CallsBefore
  <2> QED
    BY <1>1, <2>1, CallsCounted, FS_AddElement
<1>2. CASE Script[program][k].op # "barrier"
  <2>1. CallsBefore(k + 1) = CallsBefore(k)
    BY <1>2 DEF CallsBefore
  <2> QED
    BY <1>2, <2>1, CallsCounted
<1> QED
  BY <1>1, <1>2

\* A program whose tasks are independent has no task in the barrier.
LEMMA NoBarrierTask ==
    ASSUME ProgramInv, Independent, NEW p \in PE
    PROVE  ~EnterBarrier(p)
<1> SUFFICES ASSUME EnterBarrier(p) PROVE FALSE
  OBVIOUS
<1>1. worker[p] = "running" /\ Kind(unit[p]) = "barrier"
  BY DEF EnterBarrier, Runs
<1>2. Added(unit[p], p) /\ program \in Programs
  BY <1>1, PoolFacts DEF ProgramInv, UnitsAdded, MainInv
<1>3. unit[p][1] \in 1 .. MaxSteps /\ unit[p][2] \in 1 .. MaxTurns
  BY <1>2 DEF Added, Unit
<1> DEFINE s == unit[p][1]
           k == unit[p][2]
           tasks == Script[program][s].tasks
<1>4. s \in 1 .. Len(Script[program]) /\ k \in 1 .. Len(tasks) /\ tasks \in Seq(Task)
  <2>1. s \in 1 .. Len(Script[program])
    <3>1. s \in 1 .. MaxSteps /\ s <= Len(Script[program]) /\ MaxSteps \in Nat
      BY <1>2, <1>3 DEF Added, MaxSteps
    <3>2. Len(Script[program]) \in 0 .. 11
      BY <1>2, ScriptFacts
    <3> HIDE DEF s
    <3> QED
      BY <3>1, <3>2
  <2>2. tasks \in Seq(Task) /\ Len(tasks) \in Nat
    BY <1>2, <2>1, ScriptFacts
  <2>3. k \in 1 .. MaxTurns /\ k <= Len(tasks) /\ MaxTurns \in Nat
    BY <1>2, <1>3, Turns DEF Added
  <2> HIDE DEF tasks, k
  <2>4. k \in 1 .. Len(tasks)
    BY <2>2, <2>3
  <2> QED
    BY <2>1, <2>2, <2>4
<1>5. tasks[k] = "barrier"
  BY <1>1 DEF Kind
<1>6. "barrier" \in ToSet(tasks)
  BY <1>4, <1>5 DEF ToSet
<1> QED
  BY <1>4, <1>6 DEF Independent

\* Every step keeps BudgetInv.
LEMMA BudgetInvStep == ProgramInv /\ BudgetInv /\ [Next]_vars => BudgetInv'
<1> SUFFICES ASSUME ProgramInv, BudgetInv, [Next]_vars, Independent PROVE BudgetInv'
  BY ProgramConstant DEF BudgetInv, Independent
<1>1. /\ MainInv /\ P!PoolInv /\ UNCHANGED program
      /\ main.step \in Nat /\ main.step >= 1
      /\ at \in [PE \cup {Main} -> {"out", "asleep", "woken"}] /\ arrivals \in Nat
  BY AtFacts, ProgramConstant, ScriptFacts
    DEF ProgramInv, MainInv, BarrierKept, B!BarrierInv, B!TypeOK
<1>2. /\ \A p \in PE : at[p] = "out"
      /\ arrivals = Cardinality(CallsBefore(main.step)) + IF at[Main] = "out" THEN 0 ELSE 1
  BY DEF BudgetInv
<1>3. /\ Cardinality(CallsBefore(main.step)) \in Nat
      /\ ~Done => Cardinality(CallsBefore(main.step + 1)) =
                    Cardinality(CallsBefore(main.step)) + IF Now.op = "barrier" THEN 1 ELSE 0
  BY <1>1, CallsCounted, CallsGrow, NowFacts
<1> DEFINE Goal == /\ \A p \in PE : at'[p] = "out"
                   /\ arrivals' = Cardinality(CallsBefore(main'.step))
                                    + IF at'[Main] = "out" THEN 0 ELSE 1
<1>4. Goal => BudgetInv'
  <2>1. CallsBefore(main.step)' = CallsBefore(main'.step)
    BY <1>1 DEF CallsBefore
  <2> QED
    BY <2>1 DEF BudgetInv
<1> SUFFICES Goal
  BY <1>4
<1>5. NextStep.step = main.step + 1 /\ NextPE.step \in {main.step, main.step + 1}
  BY <1>1 DEF NextStep, NextPE, MainInv
<1>6. ASSUME (at'[Main] = "out") <=> (at[Main] = "out"), \A p \in PE : at'[p] = "out",
             UNCHANGED arrivals,
             \/ main'.step = main.step
             \/ ~Done /\ Now.op # "barrier" /\ main'.step = main.step + 1
      PROVE  Goal
  BY <1>2, <1>3, <1>6
<1>7. CASE MainBarrier
  <2>1. ~Done /\ Now.op = "barrier"
    BY <1>1, <1>7 DEF MainBarrier, At, Bar!Recheck, MainInv
  <2>2. main'.step = IF at'[Main] = "out" THEN main.step + 1 ELSE main.step
    BY <1>5, <1>7 DEF MainBarrier
  <2>3. CASE Bar!Arrive(Main) /\ at[Main] = "out"
    <3>1. arrivals' = arrivals + 1
      BY <2>3 DEF Bar!Arrive, Bar!ArriveAndWait, Bar!ArriveAndPass, Bar!ArriveLast, Bar!Enter
    <3>2. \A p \in PE : at'[p] = "out"
      BY <1>1, <1>2, <2>3, MainAssumption
        DEF Bar!Arrive, Bar!ArriveAndWait, Bar!ArriveAndPass, Bar!ArriveLast
    <3>3. CASE at'[Main] = "out"
      <4>1. Cardinality(CallsBefore(main'.step)) = Cardinality(CallsBefore(main.step)) + 1
        BY <1>3, <2>1, <2>2, <3>3
      <4> QED
        BY <1>2, <1>3, <2>3, <3>1, <3>2, <3>3, <4>1
    <3>4. CASE at'[Main] # "out"
      <4>1. Cardinality(CallsBefore(main'.step)) = Cardinality(CallsBefore(main.step))
        BY <2>2, <3>4
      <4> QED
        BY <1>2, <1>3, <2>3, <3>1, <3>2, <3>4, <4>1
    <3> QED
      BY <3>3, <3>4
  <2>4. CASE Bar!Recheck(Main)
    <3>1. UNCHANGED arrivals /\ at[Main] # "out"
      BY <2>4 DEF Bar!Recheck
    <3>2. \A p \in PE : at'[p] = "out"
      BY <1>1, <1>2, <2>4, MainAssumption DEF Bar!Recheck
    <3>3. CASE at'[Main] = "out"
      <4>1. Cardinality(CallsBefore(main'.step)) = Cardinality(CallsBefore(main.step)) + 1
        BY <1>3, <2>1, <2>2, <3>3
      <4> QED
        BY <1>2, <1>3, <3>1, <3>2, <3>3, <4>1
    <3>4. CASE at'[Main] # "out"
      <4>1. Cardinality(CallsBefore(main'.step)) = Cardinality(CallsBefore(main.step))
        BY <2>2, <3>4
      <4> QED
        BY <1>2, <1>3, <3>1, <3>2, <3>4, <4>1
    <3> QED
      BY <3>3, <3>4
  <2> QED
    BY <1>7, <2>3, <2>4 DEF MainBarrier, At
<1>8. CASE BarrierSpurious
  <2>1. PICK t \in PE \cup {Main} : Bar!SpuriousWake(t)
    BY <1>8 DEF BarrierSpurious
  <2>2. t = Main /\ at[Main] = "asleep" /\ at' = [at EXCEPT ![Main] = "woken"]
    BY <1>2, <2>1 DEF Bar!SpuriousWake
  <2>3. UNCHANGED <<arrivals, main>>
    BY <1>8, <2>1 DEF BarrierSpurious, Bar!SpuriousWake, Bar!history
  <2>4. \A p \in PE : at'[p] = "out"
    BY <1>1, <1>2, <2>2, MainAssumption
  <2>5. at'[Main] = "woken"
    BY <1>1, <2>2
  <2>6. (at'[Main] = "out") <=> (at[Main] = "out")
    BY <2>2, <2>5
  <2> HIDE DEF Goal
  <2> QED
    BY <1>6, <2>3, <2>4, <2>6
<1>9. CASE ~MainBarrier /\ ~BarrierSpurious
  <2>1. UNCHANGED <<at, arrivals>>
    BY <1>9, NoBarrierTask DEF Next, vars, barVars, MainStep, Submit, Wait, WaitBlocks, WaitReturns,
      Free, Close, Release, End, WorkerStep, RunTask, RunGet, RunOther, CheckUpdate, ApplyUpdate,
      RunReduce, WorkerLoop, PoolSpurious, UpdateSpurious
  <2>2. \/ main'.step = main.step
        \/ ~Done /\ Now.op # "barrier" /\ main'.step = main.step + 1
    BY <1>1, <1>5, <1>9, MainMoves
  <2>3. /\ (at'[Main] = "out") <=> (at[Main] = "out")
        /\ \A p \in PE : at'[p] = "out"
    BY <1>2, <2>1
  <2> HIDE DEF Goal
  <2> QED
    BY <1>6, <2>1, <2>2, <2>3
<1> QED
  BY <1>7, <1>8, <1>9

\* Within the barrier the main thread is alone, and gets through Num times.
THEOREM OverBudget == Spec => []OverBudgetHangs
<1>1. Init => BudgetInv
  <2> SUFFICES ASSUME Init PROVE BudgetInv
    OBVIOUS
  <2>1. main.step = 1 /\ at = [t \in PE \cup {Main} |-> "out"] /\ arrivals = 0
    BY DEF Init, Bar!Init
  <2>2. CallsBefore(1) = {}
    BY DEF CallsBefore
  <2> QED
    BY <2>1, <2>2, FS_EmptySet DEF BudgetInv
<1>2. ProgramInv /\ BudgetInv => OverBudgetHangs
  <2> SUFFICES ASSUME ProgramInv, BudgetInv, Independent, Num > 1, MainBarriers > Num, Done
               PROVE  FALSE
    BY DEF OverBudgetHangs
  <2>1. MainInv /\ BarrierKept
    BY DEF ProgramInv
  <2>2. main.step = Len(Script[program]) + 1 /\ Len(Script[program]) \in Nat
    BY <2>1, ScriptFacts DEF MainInv, Done
  <2>3. MainBarriers = Cardinality(CallsBefore(main.step))
    <3>1. main.step - 1 = Len(Script[program])
      BY <2>2
    <3> QED
      BY <3>1, Zenon DEF MainBarriers, CallsBefore
  <2>4. at[Main] = "out" /\ \A p \in PE : at[p] = "out"
    BY <2>1 DEF MainInv, BudgetInv
  <2>5. arrivals = MainBarriers /\ MainBarriers \in Nat
    BY <2>2, <2>3, <2>4, CallsCounted DEF BudgetInv
  <2>6. B!Inside = {}
    BY <2>4 DEF B!Inside
  <2>7. 0 = IF releases = 0 THEN 0 ELSE (releases - 1) * (Num - 1) + counter
    <3>1. B!StuckCount
      BY <2>1 DEF BarrierKept, B!InsideCounted
    <3>2. Cardinality(B!Inside) = IF releases = 0 THEN 0
                                 ELSE (releases - 1) * (Num - 1) + counter
      BY <3>1, SameCounting, Zenon DEF B!StuckCount, B!Inside
    <3> QED
      BY <2>6, <3>2, FS_EmptySet
  <2>8. /\ arrivals = releases * Num + counter /\ counter < Num
        /\ releases \in Nat /\ counter \in Nat /\ Num \in Nat
    BY <2>1, SamePEs DEF BarrierKept, B!CounterCountsArrivals, B!BarrierInv, B!TypeOK
  <2>9. CASE releases = 0
    BY <2>5, <2>8, <2>9
  <2>10. CASE releases = 1
    BY <2>5, <2>7, <2>8, <2>10
  <2>11. CASE releases >= 2
    <3>1. (releases - 1) * (Num - 1) = (Num - 1) + (releases - 2) * (Num - 1)
      BY <2>8
    <3>2. (releases - 2) * (Num - 1) \in Nat
      BY <2>8, <2>11
    <3> QED
      BY <2>7, <2>8, <2>11, <3>1, <3>2
  <2> QED
    BY <2>8, <2>9, <2>10, <2>11
<1> QED
  BY <1>1, <1>2, BudgetInvStep, ProgramInvariant, PTL DEF Spec

----------------------------------------------------------------------------
(* The types *)

\* A reduction that runs has counted the turns it took, and the one it waits in.
InLoop ==
    {r \in Reducer : /\ r.turn < Num
                     /\ r.at = "out" => r.received = r.turn
                     /\ r.at # "out" => r.turn = 0 /\ r.received = 1}

\* The start of the loop is in it.
LEMMA StartsInLoop == LoopStart \in InLoop
<1>1. LoopStart \in Reducer
  BY SamePEs DEF LoopStart, Reducer
<1> QED
  BY <1>1, SamePEs DEF LoopStart, InLoop

\* A turn of a reduction keeps it so, or is its last.
LEMMA TurnKeeps ==
    ASSUME NEW r \in InLoop
    PROVE  Turn(r).turn = Num \/ Turn(r) \in InLoop
<1> DEFINE counted == IF r.at = "out" THEN r.received + 1 ELSE r.received
           now == [r EXCEPT !.received = counted]
<1>1. /\ r \in [turn : 0 .. Num, received : 0 .. Num, at : {"out", "asleep", "woken"}]
      /\ r.turn < Num /\ counted = r.turn + 1
      /\ r.at # "out" => r.turn = 0
      /\ Num \in Nat
  BY SamePEs DEF InLoop, Reducer
<1>2. now = [turn |-> r.turn, received |-> r.turn + 1, at |-> r.at]
  <2> HIDE DEF counted
  <2> QED
    BY <1>1
<1> HIDE DEF now
<1>3. Turn(r) = IF AwaitsUpdates(now) THEN [now EXCEPT !.at = "asleep"]
                                      ELSE [now EXCEPT !.at = "out", !.turn = now.turn + 1]
  BY DEF Turn, now
<1>4. CASE AwaitsUpdates(now)
  <2>1. r.turn = 0 /\ Turn(r) = [turn |-> 0, received |-> 1, at |-> "asleep"]
    BY <1>1, <1>2, <1>3, <1>4 DEF AwaitsUpdates
  <2> QED
    BY <1>1, <2>1 DEF InLoop, Reducer
<1>5. CASE ~AwaitsUpdates(now)
  <2>1. Turn(r) = [turn |-> r.turn + 1, received |-> r.turn + 1, at |-> "out"]
    BY <1>1, <1>2, <1>3, <1>5
  <2> QED
    BY <1>1, <2>1 DEF InLoop, Reducer
<1> QED
  BY <1>4, <1>5

\* The part of the types that is the programs' own.
OwnTypes ==
    /\ {shared, config, array} \subseteq {"live", "freed"}
    /\ stage \in [PE -> {"start", "checked"}]
    /\ reducer \in [PE -> InLoop]
    /\ held \in BOOLEAN
    /\ late \cup spoiled \cup missed \subseteq Unit

\* Every step keeps OwnTypes.
LEMMA OwnTypesStep == ProgramInv /\ OwnTypes /\ [Next]_vars => OwnTypes'
<1> SUFFICES ASSUME ProgramInv, OwnTypes, [Next]_vars PROVE OwnTypes'
  OBVIOUS
<1> USE DEF OwnTypes
<1>1. /\ MainInv /\ P!PoolInv /\ main.pe \in PE
      /\ queue \in [PE -> Seq(Unit)] /\ unit \in [PE -> Unit \cup {None}]
      /\ \A p \in PE : unit[p] # None <=> worker[p] = "running"
  BY PoolFacts DEF ProgramInv, MainInv
<1>2. \A q \in Seq(Unit) : ToSet(q) \subseteq Unit
  BY DEF ToSet
<1>3. /\ {shared', config', array'} \subseteq {"live", "freed"}
      /\ late' \cup spoiled' \subseteq Unit
  <2>1. {shared', config', array'} \subseteq {"live", "freed"}
    BY MemorySteps DEF Free, Close, Release
  <2>2. late' \subseteq Unit
    BY <1>1, MemorySteps
  <2>3. Release => spoiled' \subseteq Unit
    BY <1>1, <1>2, SamePEs DEF Release
  <2>4. spoiled' \subseteq Unit
    BY <1>1, <2>3, MemorySteps
  <2> QED
    BY <2>1, <2>2, <2>4
<1>4. missed' \subseteq Unit /\ held' \in BOOLEAN /\ stage' \in [PE -> {"start", "checked"}]
  <2>1. CASE MainStep
    BY <1>1, <1>2, <2>1 DEF MainStep, Submit, Wait, WaitBlocks, WaitReturns, MainBarrier,
      Free, Close, Release, End, locals
  <2>2. ASSUME NEW p \in PE, WorkerStep(p)
        PROVE  /\ missed' \subseteq Unit /\ held' \in BOOLEAN
               /\ stage' \in [PE -> {"start", "checked"}]
    BY <2>2 DEF WorkerStep, RunTask, EnterBarrier, RunGet, RunOther, CheckUpdate, ApplyUpdate,
      RunReduce, WorkerLoop, locals
  <2>3. CASE PoolSpurious \/ BarrierSpurious \/ UpdateSpurious \/ UNCHANGED vars
    BY <2>3 DEF PoolSpurious, BarrierSpurious, UpdateSpurious, vars, locals
  <2> QED
    BY <2>1, <2>2, <2>3 DEF Next
<1>5. reducer' \in [PE -> InLoop]
  <2>1. ASSUME NEW p \in PE, RunReduce(p) PROVE reducer' \in [PE -> InLoop]
    <3> DEFINE next == Turn(reducer[p])
               mine == IF next.turn = Num THEN LoopStart ELSE next
    <3>1. mine \in InLoop
      BY TurnKeeps, StartsInLoop
    <3> HIDE DEF mine
    <3>2. PICK woken \in Signalled(reducer[p]) :
            reducer' = [q \in PE |-> IF q = p THEN mine
              ELSE [reducer[q] EXCEPT !.at = IF q \in woken THEN "woken" ELSE reducer[q].at]]
      BY <2>1 DEF RunReduce, mine
    <3>3. \A q \in woken : reducer[q].at = "asleep"
      BY DEF Signalled
    <3>4. \A r \in InLoop : /\ r.at = "asleep" => [r EXCEPT !.at = "woken"] \in InLoop
                            /\ [r EXCEPT !.at = r.at] \in InLoop
      BY DEF InLoop, Reducer
    <3> QED
      BY <3>1, <3>2, <3>3, <3>4
  <2>2. ASSUME NEW p \in PE, reducer[p].at = "asleep",
               reducer' = [reducer EXCEPT ![p].at = "woken"]
        PROVE  reducer' \in [PE -> InLoop]
    <3>1. [reducer[p] EXCEPT !.at = "woken"] \in InLoop
      BY <2>2 DEF InLoop, Reducer
    <3> QED
      BY <2>2, <3>1
  <2> QED
    BY <2>1, <2>2, ReduceSteps
<1> QED
  BY <1>3, <1>4, <1>5

\* The types of the composed state: each component keeps its own, and the steps
\* and turns stay within the scripts.
THEOREM ProgramTypes == Spec => []TypeOK
<1>1. Init => OwnTypes
  BY StartsInLoop DEF Init, OwnTypes
<1>2. ProgramInv /\ OwnTypes => TypeOK
  <2> SUFFICES ASSUME ProgramInv, OwnTypes PROVE TypeOK
    OBVIOUS
  <2>1. MainInv /\ P!TypeOK /\ B!TypeOK
    BY DEF ProgramInv, P!PoolInv, BarrierKept, B!BarrierInv
  <2>2. Pool!TypeOK
    BY <2>1, SamePEs DEF P!TypeOK, Pool!TypeOK, P!WorkerState, Pool!WorkerState, P!ClientState,
      Pool!ClientState
  <2>3. Bar!TypeOK
    BY <2>1 DEF B!TypeOK, Bar!TypeOK, B!Zero, Bar!Zero, B!Ones, Bar!Ones, B!Tens, Bar!Tens,
      B!Slot, Bar!Slot
  <2>4. main \in [step : 1 .. MaxSteps, pe : PE, turn : 1 .. MaxTurns, waiting : BOOLEAN]
        /\ program \in Programs
    <3>1. /\ program \in Programs
          /\ main \in [step : 1 .. Len(Script[program]) + 1, pe : PE, turn : 1 .. MaxTurns,
                      waiting : BOOLEAN]
      BY <2>1 DEF MainInv
    <3>2. Len(Script[program]) \in 0 .. 11
      BY <3>1, ScriptFacts
    <3>3. \A n \in 0 .. 11 : 1 .. n + 1 \subseteq 1 .. MaxSteps
      BY DEF MaxSteps
    <3>4. 1 .. Len(Script[program]) + 1 \subseteq 1 .. MaxSteps
      BY <3>2, <3>3, Zenon
    <3> QED
      BY <3>1, <3>4
  <2> QED
    BY <2>2, <2>3, <2>4 DEF TypeOK, OwnTypes, InLoop
<1> QED
  BY <1>1, <1>2, OwnTypesStep, ProgramInvariant, PTL DEF Spec

----------------------------------------------------------------------------
(* The components are used as they are *)

\* Composed, the pool and the barrier still do only what they do alone: the
\* worker that waits in the barrier is the pool's worker running its task.
THEOREM ComponentsKept == Spec => P!Spec /\ B!Spec
<1>1. Init => P!Init /\ B!Init
  BY SamePEs DEF Init, Pool!Init, P!Init, P!IdleClient, Pool!IdleClient, P!ThreadsPerQueue,
    Pool!ThreadsPerQueue, Bar!Init, B!Init, Bar!Zero, B!Zero, Bar!Ones, B!Ones, Bar!Tens, B!Tens,
    Bar!Slot, B!Slot
<1>2. ProgramInv /\ [Next]_vars => [P!Next]_(P!vars)
  BY StepOfPool, PoolStepIsNext DEF P!vars, P!poolVars, P!history, poolVars, ProgramInv
<1>3. [Next]_vars => [B!Next]_(B!vars)
  BY StepOfBarrier, BarrierStepIsNext DEF barVars, B!vars, B!barrierVars, B!history
<1> QED
  BY <1>1, <1>2, <1>3, ProgramInvariant, PTL DEF Spec, P!Spec, B!Spec

\* So each queue still serves its PE in order, one task at a time, and nobody
\* who waits in the barrier leaves it.
THEOREM ServiceKept == Spec => P!ImplementsService /\ B!SleepersStuck
<1>1. Num \in Nat /\ None \notin Unit /\ Num \in 1 .. 16 /\ MaxSteps + MaxTurns \in Nat
  BY SamePEs, NumAssumption, NoneAssumption, Turns DEF MaxSteps
<1>2. P!Spec => P!ImplementsService
  BY <1>1, P!Refinement DEF P!NumAssumption, P!NoneAssumption
<1>3. B!Spec => B!SleepersStuck
  BY <1>1, B!WaitersNeverLeave DEF B!NumAssumption
<1> QED
  BY <1>2, <1>3, ComponentsKept, PTL
=============================================================================
