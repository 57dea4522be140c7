-------------------------- MODULE CollectiveProofs --------------------------
(***************************************************************************)
(* What the collectives do, for every number of PEs: where each PE's task  *)
(* is and what tpool_wait has seen of it (ForkJoin), what the result of a  *)
(* reduction is made of and what can outlive it (Reduce), who owns the     *)
(* arguments of a broadcast, what can be in its dest, and whom the caller  *)
(* of the tree puts to (Broadcast).                                        *)
(*                                                                         *)
(* The invariant of the pool comes from ThreadPoolProofs: every step of a  *)
(* collective is one of the pool's or leaves it alone.                     *)
(***************************************************************************)
EXTENDS Reduce, Broadcast, TLAPS, FiniteSetTheorems, WellFoundedInduction

----------------------------------------------------------------------------
(* Sums over finite sets *)

\* A set of numbers has a least one.
LEMMA LeastNumber ==
    ASSUME NEW T \in SUBSET Nat, T # {}
    PROVE  \E x \in T : \A y \in T : x <= y
<1>1. PICK x \in T : \A y \in T : ~(<<y, x>> \in OpToRel(<, Nat))
  BY NatLessThanWellFounded, WFMin
<1>2. \A y \in T : ~(y < x)
  BY <1>1 DEF OpToRel
<1> QED
  BY <1>2

\* A property of sets is given as the set F of those that have it.
LEMMA SetInduction ==
    ASSUME NEW S, IsFiniteSet(S), NEW F,
           \A s \in SUBSET S : (\A x \in s : s \ {x} \in F) => s \in F
    PROVE  \A s \in SUBSET S : s \in F
<1> DEFINE Cards == {Cardinality(s) : s \in (SUBSET S) \ F}
<1> SUFFICES ASSUME (SUBSET S) \ F # {} PROVE FALSE
  OBVIOUS
<1>1. \A s \in SUBSET S : IsFiniteSet(s) /\ Cardinality(s) \in Nat
  BY FS_Subset, FS_CardinalityType
<1>2. Cards \in SUBSET Nat /\ Cards # {}
  BY <1>1
<1>3. PICK n \in Cards : \A m \in Cards : n <= m
  <2> HIDE DEF Cards
  <2> QED BY <1>2, LeastNumber
<1>4. PICK s \in (SUBSET S) \ F : Cardinality(s) = n
  OBVIOUS
<1>5. PICK x \in s : s \ {x} \notin F
  OBVIOUS
<1>6. Cardinality(s \ {x}) = n - 1 /\ n \in Nat
  BY <1>1, <1>4, FS_RemoveElement
<1>7. n - 1 \in Cards
  BY <1>5, <1>6
<1>8. n <= n - 1
  <2> HIDE DEF Cards
  <2> QED BY <1>3, <1>7
<1> QED
  BY <1>6, <1>8

----------------------------------------------------------------------------
\* The equation that SumFunctionOnSet's recursion stands for.
SumStep(fun, g, s) ==
    IF s = {} THEN 0 ELSE LET x == CHOOSE y \in s : TRUE IN fun[x] + g[s \ {x}]

IsSum(fun, S, g) == g = [s \in SUBSET S |-> SumStep(fun, g, s)]

LEMMA SumDef ==
    ASSUME NEW fun, NEW S
    PROVE  SumFunctionOnSet(fun, S) = (CHOOSE g : IsSum(fun, S, g))[S]
BY DEF SumFunctionOnSet, FoldFunctionOnSet, MapThenFoldSet, IsSum, SumStep

\* The equation has one solution.
LEMMA SumsAgree ==
    ASSUME NEW fun, NEW S, IsFiniteSet(S), NEW T, S \subseteq T, NEW g, NEW h,
           IsSum(fun, S, g), IsSum(fun, T, h)
    PROVE  \A s \in SUBSET S : g[s] = h[s]
<1> DEFINE F == {s \in SUBSET S : g[s] = h[s]}
<1>1. ASSUME NEW s \in SUBSET S, \A x \in s : s \ {x} \in F PROVE s \in F
  <2>1. g[s] = SumStep(fun, g, s)
    BY DEF IsSum
  <2>2. h[s] = SumStep(fun, h, s)
    BY DEF IsSum
  <2>3. CASE s = {}
    BY <2>1, <2>2, <2>3 DEF SumStep
  <2>4. CASE s # {}
    <3> DEFINE c == CHOOSE y \in s : TRUE
    <3>1. c \in s
      BY <2>4
    <3>2. g[s \ {c}] = h[s \ {c}]
      BY <1>1, <3>1
    <3> QED
      BY <2>1, <2>2, <2>4, <3>2 DEF SumStep
  <2> QED
    BY <2>3, <2>4
<1> HIDE DEF F
<1>2. \A s \in SUBSET S : s \in F
  BY <1>1, SetInduction
<1> QED
  BY <1>2 DEF F

\* The fold has the value of any function that satisfies its equation.
LEMMA SumIs ==
    ASSUME NEW fun, NEW T, NEW h, IsSum(fun, T, h), NEW S \in SUBSET T, IsFiniteSet(S)
    PROVE  SumFunctionOnSet(fun, S) = h[S]
<1> DEFINE g == [s \in SUBSET S |-> h[s]]
<1>1. IsSum(fun, S, g)
  <2>1. ASSUME NEW s \in SUBSET S PROVE g[s] = SumStep(fun, g, s)
    <3>1. h[s] = SumStep(fun, h, s)
      BY DEF IsSum
    <3>2. CASE s = {}
      BY <3>1, <3>2 DEF SumStep
    <3>3. CASE s # {}
      <4> DEFINE c == CHOOSE y \in s : TRUE
      <4>1. g[s \ {c}] = h[s \ {c}]
        OBVIOUS
      <4> QED
        BY <3>1, <3>3, <4>1 DEF SumStep
    <3> QED
      BY <3>2, <3>3
  <2> QED
    BY <2>1 DEF IsSum
<1> HIDE DEF g
<1> DEFINE k == CHOOSE f : IsSum(fun, S, f)
<1>2. IsSum(fun, S, k)
  BY <1>1
<1>3. k[S] = h[S]
  <2> HIDE DEF k
  <2> QED BY <1>2, SumsAgree
<1> QED
  BY <1>3, SumDef

\* It has one for every finite set, and the fold is it.
LEMMA SumExists ==
    ASSUME NEW fun, NEW S, IsFiniteSet(S)
    PROVE  IsSum(fun, S, [s \in SUBSET S |-> SumFunctionOnSet(fun, s)])
<1> DEFINE sums(T) == [s \in SUBSET T |-> SumFunctionOnSet(fun, s)]
           F == {s \in SUBSET S : IsSum(fun, s, sums(s))}
<1>1. ASSUME NEW s \in SUBSET S, \A x \in s : s \ {x} \in F PROVE s \in F
  <2> DEFINE g == [t \in SUBSET s |-> IF t = s THEN SumStep(fun, sums(s), s) ELSE sums(s)[t]]
  <2>1. ASSUME NEW t \in SUBSET s PROVE g[t] = SumStep(fun, g, t)
    <3>1. SumStep(fun, g, t) = SumStep(fun, sums(s), t)
      <4>1. CASE t = {}
        BY <4>1 DEF SumStep
      <4>2. CASE t # {}
        <5> DEFINE c == CHOOSE y \in t : TRUE
        <5>1. c \in t /\ t \ {c} # s /\ t \ {c} \in SUBSET s
          BY <4>2
        <5>2. g[t \ {c}] = sums(s)[t \ {c}]
          BY <5>1
        <5> QED
          BY <4>2, <5>2 DEF SumStep
      <4> QED
        BY <4>1, <4>2
    <3>2. CASE t = s
      BY <3>1, <3>2
    <3>3. CASE t # s
      <4>1. PICK x \in s : t \in SUBSET (s \ {x})
        BY <3>3
      <4>2. IsSum(fun, s \ {x}, sums(s \ {x}))
        BY <1>1
      <4>3. sums(s \ {x})[t] = SumStep(fun, sums(s \ {x}), t)
        BY <4>1, <4>2 DEF IsSum
      <4>4. SumStep(fun, sums(s \ {x}), t) = SumStep(fun, sums(s), t)
        <5>1. CASE t = {}
          BY <5>1 DEF SumStep
        <5>2. CASE t # {}
          <6> DEFINE c == CHOOSE y \in t : TRUE
          <6>1. sums(s \ {x})[t \ {c}] = sums(s)[t \ {c}]
            BY <4>1
          <6> QED
            BY <5>2, <6>1 DEF SumStep
        <5> QED
          BY <5>1, <5>2
      <4> QED
        BY <3>1, <3>3, <4>1, <4>3, <4>4
    <3> QED
      BY <3>2, <3>3
  <2>2. IsSum(fun, s, g)
    BY <2>1 DEF IsSum
  <2>3. \A t \in SUBSET s : SumFunctionOnSet(fun, t) = g[t]
    <3> HIDE DEF g
    <3> QED BY <2>2, SumIs, FS_Subset
  <2>4. g = sums(s)
    BY <2>3
  <2> QED
    BY <2>2, <2>4
<1> HIDE DEF F
<1>2. S \in F
  BY <1>1, SetInduction
<1> QED
  BY <1>2 DEF F

\* The sum over a set in terms of the sum over a smaller one, for the element
\* the fold chooses.
LEMMA SumUnfold ==
    ASSUME NEW fun, NEW S, IsFiniteSet(S)
    PROVE  SumFunctionOnSet(fun, S) =
              IF S = {} THEN 0
              ELSE LET x == CHOOSE y \in S : TRUE
                   IN  fun[x] + SumFunctionOnSet(fun, S \ {x})
<1> DEFINE g == [s \in SUBSET S |-> SumFunctionOnSet(fun, s)]
<1>1. g[S] = SumStep(fun, g, S)
  BY SumExists DEF IsSum
<1> QED
  BY <1>1 DEF SumStep

LEMMA SumEmpty == \A fun : SumFunctionOnSet(fun, {}) = 0
BY SumUnfold, FS_EmptySet

LEMMA SumInt ==
    ASSUME NEW fun, NEW S, IsFiniteSet(S), \A x \in S : fun[x] \in Int
    PROVE  \A s \in SUBSET S : SumFunctionOnSet(fun, s) \in Int
<1> DEFINE F == {s \in SUBSET S : SumFunctionOnSet(fun, s) \in Int}
<1>1. ASSUME NEW s \in SUBSET S, \A x \in s : s \ {x} \in F PROVE s \in F
  <2>1. CASE s = {}
    BY <2>1, SumEmpty
  <2>2. CASE s # {}
    <3> DEFINE c == CHOOSE y \in s : TRUE
    <3>1. c \in s /\ fun[c] \in Int /\ SumFunctionOnSet(fun, s \ {c}) \in Int
      BY <1>1, <2>2
    <3>2. SumFunctionOnSet(fun, s) = fun[c] + SumFunctionOnSet(fun, s \ {c})
      BY <2>2, SumUnfold, FS_Subset
    <3> QED
      BY <3>1, <3>2
  <2> QED
    BY <2>1, <2>2
<1> HIDE DEF F
<1>2. \A s \in SUBSET S : s \in F
  BY <1>1, SetInduction
<1> QED
  BY <1>2 DEF F

\* The order in which the fold chooses does not matter.
LEMMA SumSplit ==
    ASSUME NEW fun, NEW S, IsFiniteSet(S), \A x \in S : fun[x] \in Int, NEW x \in S
    PROVE  SumFunctionOnSet(fun, S) = fun[x] + SumFunctionOnSet(fun, S \ {x})
<1> DEFINE F == {s \in SUBSET S : \A y \in s :
                    SumFunctionOnSet(fun, s) = fun[y] + SumFunctionOnSet(fun, s \ {y})}
<1>1. ASSUME NEW s \in SUBSET S, \A y \in s : s \ {y} \in F PROVE s \in F
  <2> SUFFICES ASSUME NEW y \in s
               PROVE  SumFunctionOnSet(fun, s) = fun[y] + SumFunctionOnSet(fun, s \ {y})
    OBVIOUS
  <2> PICK c \in s : c = CHOOSE z \in s : TRUE
    OBVIOUS
  <2>1. SumFunctionOnSet(fun, s) = fun[c] + SumFunctionOnSet(fun, s \ {c})
    <3>1. IsFiniteSet(s) /\ s # {}
      BY FS_Subset
    <3> QED
      BY <3>1, SumUnfold
  <2>2. CASE y = c
    BY <2>1, <2>2
  <2>3. CASE y # c
    <3> DEFINE r == SumFunctionOnSet(fun, (s \ {c}) \ {y})
    <3>1. SumFunctionOnSet(fun, s \ {c}) = fun[y] + r
      BY <1>1, <2>3
    <3>2. SumFunctionOnSet(fun, s \ {y}) = fun[c] + r
      <4>1. (s \ {y}) \ {c} = (s \ {c}) \ {y}
        OBVIOUS
      <4> QED
        BY <1>1, <2>3, <4>1
    <3>3. r \in Int /\ fun[c] \in Int /\ fun[y] \in Int
      BY SumInt
    <3> HIDE DEF F, r
    <3> QED
      BY <2>1, <3>1, <3>2, <3>3
  <2> QED
    BY <2>2, <2>3
<1> HIDE DEF F
<1>2. \A s \in SUBSET S : s \in F
  BY <1>1, SetInduction
<1> QED
  BY <1>2 DEF F

\* What is used of sums below.
LEMMA SumAdd ==
    ASSUME NEW fun, NEW S, IsFiniteSet(S), NEW x, x \notin S,
           \A y \in S \cup {x} : fun[y] \in Int
    PROVE  SumFunctionOnSet(fun, S \cup {x}) = SumFunctionOnSet(fun, S) + fun[x]
<1>1. IsFiniteSet(S \cup {x}) /\ (S \cup {x}) \ {x} = S
  BY FS_AddElement
<1>2. SumFunctionOnSet(fun, S \cup {x}) = fun[x] + SumFunctionOnSet(fun, S)
  BY <1>1, SumSplit
<1>3. SumFunctionOnSet(fun, S) \in Int
  BY SumInt
<1> QED
  BY <1>2, <1>3

LEMMA SumSame ==
    ASSUME NEW fun, NEW gun, NEW S, IsFiniteSet(S), \A x \in S : fun[x] = gun[x]
    PROVE  SumFunctionOnSet(fun, S) = SumFunctionOnSet(gun, S)
<1> DEFINE F == {s \in SUBSET S : SumFunctionOnSet(fun, s) = SumFunctionOnSet(gun, s)}
<1>1. ASSUME NEW s \in SUBSET S, \A y \in s : s \ {y} \in F PROVE s \in F
  <2>1. CASE s = {}
    BY <2>1, SumEmpty
  <2>2. CASE s # {}
    <3> PICK c \in s : c = CHOOSE z \in s : TRUE
      BY <2>2
    <3>1. SumFunctionOnSet(fun, s \ {c}) = SumFunctionOnSet(gun, s \ {c})
      BY <1>1
    <3>2. IsFiniteSet(s)
      BY FS_Subset
    <3>3. /\ SumFunctionOnSet(fun, s) = fun[c] + SumFunctionOnSet(fun, s \ {c})
          /\ SumFunctionOnSet(gun, s) = gun[c] + SumFunctionOnSet(gun, s \ {c})
      BY <2>2, <3>2, SumUnfold
    <3> QED
      BY <3>1, <3>3
  <2> QED
    BY <2>1, <2>2
<1> HIDE DEF F
<1>2. \A s \in SUBSET S : s \in F
  BY <1>1, SetInduction
<1> QED
  BY <1>2 DEF F
----------------------------------------------------------------------------
(* Where the tasks are *)

P == INSTANCE ThreadPoolProofs WITH Clients <- {Main}, Units <- PE

\* The four places of PE p's task: not accepted (so far, or refused), in the
\* queue, in the worker's hands, and done.
NotAccepted(p) ==
    /\ submitted[p] = <<>> /\ queue[p] = <<>>
    /\ p \notin finished /\ worker[p] # "running"

InQueue(p) ==
    /\ submitted[p] = <<p>> /\ queue[p] = <<p>>
    /\ p \notin finished /\ worker[p] # "running"

InHand(p) ==
    /\ submitted[p] = <<p>> /\ queue[p] = <<>>
    /\ p \notin finished /\ worker[p] = "running" /\ unit[p] = p

Ended(p) ==
    /\ submitted[p] = <<p>> /\ queue[p] = <<>>
    /\ p \in finished /\ worker[p] # "running"

Placed(p) == NotAccepted(p) \/ InQueue(p) \/ InHand(p) \/ Ended(p)

\* The caller's tpool_wait on p's queue has returned.
Past(p) ==
    \/ main.at \in {"join", "waiting"} /\ p < main.pe
    \/ main.at \in {"joined", "done"}

\* A wait that returned saw the task done, or not accepted, or did not look
\* into the queue it was in.
Looked == \A p \in PE : Past(p) => NotAccepted(p) \/ p \in finished \/ p \in missed

\* In a wait the caller is on the queue its loop has reached.
CallOn == main.at = "waiting" => client[Main].at # "idle" /\ client[Main].on = main.pe

ForkInv ==
    /\ P!PoolInv
    /\ main \in [at : MainState, pe : PE] /\ missed \subseteq PE
    /\ \A p \in PE : ~stop[p]
    /\ \A p \in PE : Placed(p)
    /\ CallOn
    /\ Looked

----------------------------------------------------------------------------
(* The pool *)

LEMMA SamePEs ==
    Num \in Nat /\ 0 \in PE /\ P!NPES = Num /\ P!PE = PE /\ Pool!NPES = Num /\ Pool!PE = PE
BY NumAssumption DEF P!NPES, P!PE, PE, Pool!NPES, Pool!PE

\* The pool's step of an operation of ForkJoin.
PoolStep ==
    \/ Pool!AddWork(Main, main.pe, main.pe) \/ Pool!RefuseWork(Main, main.pe, main.pe)
    \/ Pool!WaitCall(Main, main.pe) \/ Pool!WaitBlock(Main) \/ Pool!WaitReturn(Main)
    \/ Pool!SpuriousClientWake(Main)
    \/ \E p \in PE : \/ Pool!Sleep(p) \/ Pool!Take(p) \/ Pool!Complete(p) \/ Pool!Finish(p)
                     \/ Pool!SpuriousWorkerWake(p)

LEMMA PoolStepIsNext ==
    ASSUME main \in [at : MainState, pe : PE], PoolStep
    PROVE  P!Next
<1> USE SamePEs DEF P!poolVars, Pool!poolVars, P!history, Pool!history
<1>1. main.pe \in PE
  OBVIOUS
<1>2. CASE Pool!AddWork(Main, main.pe, main.pe)
  <2>1. P!AddWork(Main, main.pe, main.pe)
    BY <1>2 DEF P!AddWork, Pool!AddWork, P!MayCall, Pool!MayCall, P!Fresh, Pool!Fresh,
      P!Accepted, Pool!Accepted, P!Range, Pool!Range, P!Enqueued, Pool!Enqueued,
      P!Roused, Pool!Roused
  <2> QED
    BY <1>1, <2>1 DEF P!Next, P!ClientCall
<1>3. CASE Pool!RefuseWork(Main, main.pe, main.pe)
  <2>1. P!RefuseWork(Main, main.pe, main.pe)
    BY <1>3 DEF P!RefuseWork, Pool!RefuseWork, P!MayCall, Pool!MayCall, P!Fresh, Pool!Fresh,
      P!Accepted, Pool!Accepted, P!Range, Pool!Range
  <2> QED
    BY <1>1, <2>1 DEF P!Next, P!ClientCall
<1>4. CASE Pool!WaitCall(Main, main.pe)
  <2>1. P!WaitCall(Main, main.pe)
    BY <1>4 DEF P!WaitCall, Pool!WaitCall, P!MayCall, Pool!MayCall, P!InCall, Pool!InCall, P!Range,
      Pool!Range
  <2> QED
    BY <1>1, <2>1 DEF P!Next, P!ClientCall
<1>5. CASE Pool!WaitBlock(Main) \/ Pool!WaitReturn(Main) \/ Pool!SpuriousClientWake(Main)
  <2>1. P!WaitBlock(Main) \/ P!WaitReturn(Main) \/ P!SpuriousClientWake(Main)
    BY <1>5 DEF P!WaitBlock, Pool!WaitBlock, P!WaitReturn, Pool!WaitReturn, P!MustWait,
      Pool!MustWait, P!IdleClient, Pool!IdleClient, P!SpuriousClientWake,
      Pool!SpuriousClientWake
  <2> QED
    BY <2>1 DEF P!Next, P!ClientCheck
<1>6. ASSUME NEW p \in PE, Pool!Sleep(p) \/ Pool!Complete(p) \/ Pool!SpuriousWorkerWake(p)
      PROVE  P!Next
  <2>1. P!Sleep(p) \/ P!Complete(p) \/ P!SpuriousWorkerWake(p)
    BY <1>6 DEF P!Sleep, Pool!Sleep, P!Complete, Pool!Complete, P!SpuriousWorkerWake,
      Pool!SpuriousWorkerWake
  <2> QED
    BY <2>1 DEF P!Next, P!WorkerStep
<1>7. ASSUME NEW p \in PE, Pool!Take(p) PROVE P!Next
  <2>1. P!Take(p)
    BY <1>7 DEF P!Take, Pool!Take, P!MayTake, Pool!MayTake
  <2> QED
    BY <2>1 DEF P!Next, P!WorkerStep
<1>8. ASSUME NEW p \in PE, Pool!Finish(p) PROVE P!Next
  <2>1. P!Finish(p)
    BY <1>8 DEF P!Finish, Pool!Finish, P!SignalWorking, Pool!SignalWorking, P!Waiters,
      Pool!Waiters
  <2> QED
    BY <2>1 DEF P!Next, P!WorkerStep
<1> QED
  BY <1>2, <1>3, <1>4, <1>5, <1>6, <1>7, <1>8 DEF PoolStep

LEMMA PoolKept ==
    ASSUME ForkInv, PoolStep \/ UNCHANGED poolVars
    PROVE  P!PoolInv'
<1>1. Num \in Nat /\ None \notin PE
  BY SamePEs, NoneAssumption
<1>2. P!PoolInv /\ (P!Next \/ UNCHANGED P!vars)
  BY PoolStepIsNext DEF ForkInv, P!vars, P!poolVars, P!history, poolVars
<1> QED
  BY <1>1, <1>2, P!PoolInvStep DEF P!NumAssumption, P!NoneAssumption

----------------------------------------------------------------------------
(* Every step of a collective preserves the invariant *)

\* What the pool's invariant says here: the types, and that a worker that is
\* busy is counted.
LEMMA PoolFacts ==
    ASSUME P!PoolInv
    PROVE  /\ queue \in [PE -> Seq(PE)] /\ submitted \in [PE -> Seq(PE)]
           /\ worker \in [PE -> {"none", "fetch", "asleep", "running", "finish", "exited"}]
           /\ unit \in [PE -> PE \cup {None}]
           /\ working \in [PE -> Nat] /\ stop \in [PE -> BOOLEAN]
           /\ client \in [{Main} -> P!ClientState]
           /\ finished \subseteq PE
           /\ \A p \in PE : working[p] = IF worker[p] \in {"running", "finish"} THEN 1 ELSE 0
BY SamePEs DEF P!PoolInv, P!TypeOK, P!WorkingCountsBusy, P!Busy, P!WorkerState

\* A step that leaves q's task where it is.
TaskKept(q) ==
    /\ queue'[q] = queue[q] /\ submitted'[q] = submitted[q] /\ unit'[q] = unit[q]
    /\ (worker'[q] = "running") = (worker[q] = "running")
    /\ (q \in finished') = (q \in finished)

\* The caller stays where it is, and so do the tasks of the other PEs.
LEMMA OneTaskMoves ==
    ASSUME ForkInv, P!PoolInv', NEW p \in PE, UNCHANGED <<main, missed, stop>>, CallOn',
           \A q \in PE \ {p} : TaskKept(q),
           Placed(p)', Past(p) => NotAccepted(p)' \/ p \in finished' \/ p \in missed
    PROVE  ForkInv'
<1>1. ASSUME NEW q \in PE
      PROVE  Placed(q)' /\ (Past(q)' => (NotAccepted(q)' \/ q \in finished' \/ q \in missed'))
  <2>1. CASE q = p
    BY <2>1 DEF Past
  <2>2. CASE q # p
    <3>1. TaskKept(q) /\ (Past(q)' <=> Past(q))
      BY <2>2 DEF Past
    <3>2. NotAccepted(q)' <=> NotAccepted(q)
      BY <3>1 DEF NotAccepted, TaskKept
    <3>3. Placed(q)' <=> Placed(q)
      BY <3>1, <3>2 DEF Placed, InQueue, InHand, Ended, TaskKept
    <3> QED
      BY <3>1, <3>2, <3>3 DEF ForkInv, Looked, TaskKept
  <2> QED
    BY <2>1, <2>2
<1> QED
  BY <1>1 DEF ForkInv, Looked

\* A worker's step outside its task, and the end of the task.
LEMMA WorkerPreserves ==
    ASSUME ForkInv, NEW p \in PE, UNCHANGED <<main, missed>>,
           \/ Pool!Sleep(p) \/ Pool!Take(p) \/ Pool!Complete(p) \/ Pool!Finish(p)
           \/ Pool!SpuriousWorkerWake(p)
    PROVE  ForkInv'
<1>1. P!PoolInv /\ P!PoolInv'
  BY PoolKept DEF ForkInv, PoolStep
<1>2. Placed(p) /\ Len(queue[p]) \in Nat
  BY <1>1, PoolFacts DEF ForkInv
<1> USE <1>1, PoolFacts DEF Pool!poolVars, Pool!history
<1>3. CASE Pool!Sleep(p) \/ Pool!SpuriousWorkerWake(p)
  <2>1. /\ UNCHANGED <<queue, submitted, unit, finished, stop, client>>
        /\ \A q \in PE : worker'[q] = "running" <=> worker[q] = "running"
    BY <1>3 DEF Pool!Sleep, Pool!SpuriousWorkerWake
  <2>2. CallOn' /\ Placed(p)' /\ (NotAccepted(p)' <=> NotAccepted(p))
    BY <1>2, <2>1 DEF ForkInv, CallOn, Placed, NotAccepted, InQueue, InHand, Ended
  <2> QED
    BY <2>1, <2>2, OneTaskMoves DEF ForkInv, Looked, TaskKept
<1>4. CASE Pool!Take(p)
  <2>1. /\ worker[p] = "fetch" /\ queue[p] # <<>>
        /\ unit' = [unit EXCEPT ![p] = Head(queue[p])]
        /\ queue' = [queue EXCEPT ![p] = Tail(@)]
        /\ worker' = [worker EXCEPT ![p] = "running"]
        /\ UNCHANGED <<submitted, finished, stop, client>>
    BY <1>4 DEF Pool!Take, Pool!MayTake
  <2>2. InQueue(p)
    BY <1>2, <2>1 DEF Placed, NotAccepted, InHand, Ended
  <2>3. InHand(p)'
    BY <2>1, <2>2 DEF InQueue, InHand
  <2>4. CallOn' /\ Placed(p)' /\ (Past(p) => p \in missed)
    BY <2>1, <2>2, <2>3 DEF ForkInv, CallOn, Placed, Looked, NotAccepted, InQueue
  <2> QED
    BY <2>1, <2>4, OneTaskMoves DEF ForkInv, TaskKept
<1>5. CASE Pool!Complete(p)
  <2>1. /\ worker[p] = "running"
        /\ finished' = finished \cup {unit[p]}
        /\ unit' = [unit EXCEPT ![p] = None]
        /\ worker' = [worker EXCEPT ![p] = "finish"]
        /\ UNCHANGED <<queue, submitted, stop, client>>
    BY <1>5 DEF Pool!Complete
  <2>2. InHand(p)
    BY <1>2, <2>1 DEF Placed, NotAccepted, InQueue, Ended
  <2>3. Ended(p)' /\ finished' = finished \cup {p}
    BY <2>1, <2>2 DEF InHand, Ended
  <2>4. CallOn' /\ Placed(p)' /\ p \in finished'
    BY <2>1, <2>3 DEF ForkInv, CallOn, Placed
  <2>5. ASSUME NEW q \in PE \ {p} PROVE TaskKept(q)
    BY <2>1, <2>3 DEF TaskKept
  <2> QED
    BY <2>1, <2>4, <2>5, OneTaskMoves
<1>6. CASE Pool!Finish(p)
  <2>1. /\ worker[p] = "finish"
        /\ worker' = [worker EXCEPT ![p] = "fetch"]
        /\ UNCHANGED <<queue, submitted, unit, finished, stop>>
        /\ UNCHANGED client \/ client' = [client EXCEPT ![Main].at = "check"]
    BY <1>6 DEF Pool!Finish, Pool!SignalWorking, Pool!Waiters
  <2>2. CallOn'
    BY <2>1 DEF ForkInv, CallOn, P!ClientState
  <2>3. Placed(p)' /\ (NotAccepted(p)' <=> NotAccepted(p))
    BY <1>2, <2>1 DEF Placed, NotAccepted, InQueue, InHand, Ended
  <2> QED
    BY <2>1, <2>2, <2>3, OneTaskMoves DEF ForkInv, Looked, TaskKept
<1> QED
  BY <1>3, <1>4, <1>5, <1>6

\* The caller's steps, in its loops and when a wait blocks or returns.
LEMMA CallerPreserves ==
    ASSUME ForkInv, CallerStep \/ (Pool!SpuriousClientWake(Main) /\ UNCHANGED <<main, missed>>)
    PROVE  ForkInv'
<1>1. P!PoolInv /\ P!PoolInv'
  BY PoolKept DEF ForkInv, PoolStep, CallerStep, Submit, Join, JoinBlock, JoinReturn
<1>2. main.pe \in PE /\ Num \in Nat /\ main \in [at : MainState, pe : PE]
  BY SamePEs DEF ForkInv
<1> USE <1>1, <1>2 DEF Pool!poolVars, Pool!history
<1>3. ASSUME NEW again \in MainState, NEW after \in MainState, NextTurn(again, after)
      PROVE  main' \in [at : MainState, pe : PE]
  BY <1>3 DEF NextTurn, PE
<1>4. CASE Submit
  <2>1. /\ main.at = "submit" /\ UNCHANGED missed
        /\ main' \in [at : MainState, pe : PE]
        /\ main'.at = "submit" \/ (main'.at = "join" /\ main'.pe = 0)
    <3>1. main.at = "submit" /\ NextTurn("submit", "join") /\ UNCHANGED missed
      BY <1>4 DEF Submit
    <3>2. main'.at = "submit" \/ (main'.at = "join" /\ main'.pe = 0)
      BY <3>1 DEF NextTurn
    <3> QED
      BY <1>3, <3>1, <3>2 DEF MainState
  <2>2. \A p \in PE : ~Past(p) /\ ~Past(p)'
    BY <2>1 DEF Past, PE
  <2>3. CASE Pool!RefuseWork(Main, main.pe, main.pe)
    BY <2>1, <2>2, <2>3, PoolFacts DEF Pool!RefuseWork, ForkInv, CallOn, Looked, Placed, NotAccepted,
      InQueue, InHand, Ended
  <2>4. CASE Pool!AddWork(Main, main.pe, main.pe)
    <3> PICK e \in PE : e = main.pe
      OBVIOUS
    <3>1. /\ queue' = [queue EXCEPT ![e] = Append(@, e)]
          /\ submitted' = [submitted EXCEPT ![e] = Append(@, e)]
          /\ worker' = [worker EXCEPT ![e] = IF @ = "asleep" THEN "fetch" ELSE @]
          /\ UNCHANGED <<unit, finished, stop, client>>
      BY <2>4, PoolFacts DEF Pool!AddWork, Pool!Enqueued, Pool!Roused
    <3>2. submitted[e] = <<>>
      <4>1. e \notin Pool!Range(submitted[e])
        BY <2>4, SamePEs DEF Pool!AddWork, Pool!Fresh, Pool!Accepted
      <4>2. submitted[e] # <<e>>
        BY <4>1 DEF Pool!Range
      <4> QED
        BY <4>2 DEF ForkInv, Placed, NotAccepted, InQueue, InHand, Ended
    <3>3. NotAccepted(e)
      BY <3>2 DEF ForkInv, Placed, InQueue, InHand, Ended
    <3>4. InQueue(e)'
      BY <3>1, <3>3, PoolFacts DEF NotAccepted, InQueue
    <3>5. ASSUME NEW q \in PE, q # e PROVE Placed(q)'
      BY <3>1, <3>5, PoolFacts DEF ForkInv, Placed, NotAccepted, InQueue, InHand, Ended
    <3>6. \A q \in PE : Placed(q)'
      BY <3>4, <3>5 DEF Placed
    <3> QED
      BY <2>1, <2>2, <3>1, <3>6 DEF ForkInv, CallOn, Looked
  <2> QED
    BY <1>4, <2>3, <2>4 DEF Submit
<1>5. CASE Join
  <2>1. /\ main.at = "join" /\ main' = [main EXCEPT !.at = "waiting"]
        /\ client' = [client EXCEPT ![Main] = Pool!InCall("wait", main.pe)]
        /\ UNCHANGED <<missed, queue, submitted, worker, unit, finished, stop>>
    BY <1>5 DEF Join, Pool!WaitCall
  <2>2. CallOn'
    BY <2>1, PoolFacts DEF CallOn, Pool!InCall
  <2>3. \A p \in PE : (Past(p)' <=> Past(p)) /\ (Placed(p)' <=> Placed(p))
                    /\ (NotAccepted(p)' <=> NotAccepted(p))
    BY <2>1 DEF Past, Placed, NotAccepted, InQueue, InHand, Ended
  <2>4. main' \in [at : MainState, pe : PE]
    BY <2>1 DEF MainState
  <2> QED
    BY <2>1, <2>2, <2>3, <2>4 DEF ForkInv, Looked
<1>6. CASE /\ JoinBlock \/ Pool!SpuriousClientWake(Main)
           /\ UNCHANGED <<main, missed>>
  <2>1. /\ \E b \in {"blocked", "check"} : client' = [client EXCEPT ![Main].at = b]
        /\ UNCHANGED <<main, missed, queue, submitted, worker, unit, finished, stop>>
    BY <1>6 DEF JoinBlock, Pool!WaitBlock, Pool!SpuriousClientWake
  <2>2. CallOn'
    BY <2>1, PoolFacts DEF ForkInv, CallOn, P!ClientState
  <2>3. \A p \in PE : (Past(p)' <=> Past(p)) /\ (Placed(p)' <=> Placed(p))
                    /\ (NotAccepted(p)' <=> NotAccepted(p))
    BY <2>1 DEF Past, Placed, NotAccepted, InQueue, InHand, Ended
  <2> QED
    BY <2>1, <2>2, <2>3 DEF ForkInv, Looked
<1>7. CASE JoinReturn
  <2> PICK e \in PE : e = main.pe
    OBVIOUS
  <2>1. /\ main.at = "waiting"
        /\ missed' = missed \cup Range(queue[e])
        /\ UNCHANGED <<queue, submitted, worker, unit, finished, stop>>
        /\ ~Pool!MustWait(e)
    BY <1>7, PoolFacts DEF JoinReturn, Pool!WaitReturn, ForkInv, CallOn
  <2>2. main' \in [at : MainState, pe : PE] /\ main'.at # "waiting"
    BY <1>3, <1>7 DEF JoinReturn, NextTurn, MainState
  <2>3. worker[e] # "running"
    BY <2>1, PoolFacts DEF ForkInv, Pool!MustWait
  <2>4. NotAccepted(e)' \/ e \in finished' \/ e \in missed'
    <3>1. CASE InQueue(e)
      BY <2>1, <3>1 DEF InQueue, Range
    <3>2. CASE NotAccepted(e)
      BY <2>1, <3>2 DEF NotAccepted
    <3>3. CASE Ended(e)
      BY <2>1, <3>3 DEF Ended
    <3> QED
      BY <2>3, <3>1, <3>2, <3>3 DEF ForkInv, Placed, InHand
  <2>5. \A p \in PE : Past(p)' => Past(p) \/ p = e
    BY <1>7, <2>1 DEF Past, JoinReturn, NextTurn, PE
  <2>6. \A p \in PE : (Placed(p)' <=> Placed(p)) /\ (NotAccepted(p)' <=> NotAccepted(p))
    BY <2>1 DEF Placed, NotAccepted, InQueue, InHand, Ended
  <2>7. Looked'
    BY <2>1, <2>4, <2>5, <2>6 DEF ForkInv, Looked
  <2>8. missed' \subseteq PE
    BY <2>1, PoolFacts DEF ForkInv, Range
  <2> QED
    BY <2>1, <2>2, <2>6, <2>7, <2>8 DEF ForkInv, CallOn
<1> QED
  BY <1>4, <1>5, <1>6, <1>7 DEF CallerStep, JoinBlock

\* The end of the collective, once the caller is through with its waits.
LEMMA ReturnPreserves ==
    ASSUME ForkInv, main.at = "joined", main' = [main EXCEPT !.at = "done"],
           UNCHANGED <<missed, poolVars>>
    PROVE  ForkInv'
<1>1. P!PoolInv'
  BY PoolKept DEF ForkInv
<1>2. main' \in [at : MainState, pe : PE] /\ main'.at = "done"
  BY DEF ForkInv, MainState
<1> QED
  BY <1>1, <1>2 DEF ForkInv, CallOn, Looked, Past, Placed, NotAccepted, InQueue, InHand, Ended,
    poolVars

LEMMA ForkKept == ASSUME ForkInv, UNCHANGED forkVars PROVE ForkInv'
<1>1. P!PoolInv'
  BY PoolKept DEF ForkInv, forkVars, poolVars
<1> QED
  BY <1>1 DEF ForkInv, CallOn, Looked, Past, Placed, NotAccepted, InQueue, InHand, Ended,
    forkVars, poolVars

\* A task that is still to be run when the collective has returned is one the
\* wait on its PE's queue did not look at.
LEMMA LateWasMissed ==
    ASSUME ForkInv, NEW p \in PE, worker[p] = "running", Returned
    PROVE  unit[p] = p /\ p \in missed
BY DEF ForkInv, Placed, NotAccepted, InQueue, InHand, Ended, Looked, Past, Returned

LEMMA ForkInvInit == ForkInit => ForkInv
<1> SUFFICES ASSUME ForkInit PROVE ForkInv
  OBVIOUS
<1>1. P!Init
  BY SamePEs DEF ForkInit, Pool!Init, P!Init, Pool!ThreadsPerQueue, P!ThreadsPerQueue,
    Pool!IdleClient, P!IdleClient
<1>2. P!PoolInv
  BY <1>1, P!PoolInvInit, SamePEs, NoneAssumption DEF P!NumAssumption, P!NoneAssumption
<1> QED
  BY <1>2, SamePEs DEF ForkInit, ForkInv, Pool!Init, CallOn, Looked, Past, Placed,
    NotAccepted, MainState

\* Types and the invariant.
LEMMA ForkTypes == ForkInv => ForkTypeOK
<1> SUFFICES ASSUME ForkInv PROVE ForkTypeOK
  OBVIOUS
<1>1. Pool!TypeOK
  BY SamePEs DEF ForkInv, P!PoolInv, P!TypeOK, Pool!TypeOK, P!WorkerState, Pool!WorkerState,
    P!ClientState, Pool!ClientState
<1> QED
  BY <1>1 DEF ForkInv, ForkTypeOK

----------------------------------------------------------------------------
(* Which tasks a reduction loses and which outlive it *)

\* A PE whose partial sum the caller read before its task had stored it is one
\* whose task the wait missed or the pool never accepted.
UnseenWasMissed ==
    \A p \in gathered \ seen : p \in missed \/ submitted[p] = <<>>

\* The caller reads partial sums after its waits only.
GatheredLate ==
    /\ gathered \subseteq PE
    /\ gathered # {} => main.at \in {"joined", "done"}

ReduceInv == ForkInv /\ GatheredLate /\ UnseenWasMissed /\ StrayWasMissed

\* The PE whose cell the caller reads next.
LEMMA NextGathered ==
    ASSUME gathered \subseteq PE, gathered # PE
    PROVE  Cardinality(gathered) \in PE /\ IsFiniteSet(gathered)
<1>1. IsFiniteSet(PE) /\ Cardinality(PE) = Num
  BY SamePEs, FS_Interval, NumAssumption DEF PE
<1>2. IsFiniteSet(gathered) /\ Cardinality(gathered) <= Num /\ Cardinality(gathered) # Num
  BY <1>1, FS_Subset
<1>3. Cardinality(gathered) \in Nat
  BY <1>2, FS_CardinalityType
<1> QED
  BY <1>2, <1>3, SamePEs DEF PE

LEMMA ReduceInvInit == Init => ReduceInv
BY ForkInvInit DEF Init, ReduceInv, GatheredLate, UnseenWasMissed, StrayWasMissed

\* Steps that leave the reduction's own record alone.
LEMMA RecordKept ==
    ASSUME ReduceInv, ForkInv', UNCHANGED <<gathered, seen, stray>>,
           missed \subseteq missed',
           gathered # {} => main'.at \in {"joined", "done"} /\ UNCHANGED submitted
    PROVE  ReduceInv'
BY DEF ReduceInv, GatheredLate, UnseenWasMissed, StrayWasMissed

LEMMA ReduceInvStep == ReduceInv /\ [Next]_vars => ReduceInv'
<1> SUFFICES ASSUME ReduceInv, [Next]_vars PROVE ReduceInv'
  OBVIOUS
<1>1. ForkInv /\ GatheredLate
  BY DEF ReduceInv
<1>2. CASE CallerStep /\ UNCHANGED reduceVars
  <2>1. ForkInv'
    BY <1>1, <1>2, CallerPreserves
  <2>2. gathered = {} /\ missed \subseteq missed'
    BY <1>1, <1>2 DEF CallerStep, Submit, Join, JoinBlock, JoinReturn, GatheredLate
  <2> QED
    BY <1>2, <2>1, <2>2, RecordKept DEF reduceVars
<1>3. CASE Gather
  <2>1. ForkInv'
    BY <1>1, <1>3, ForkKept DEF Gather
  <2>2. PICK p \in PE : /\ gathered' = gathered \cup {p}
                        /\ seen' = IF p \in finished THEN seen \cup {p} ELSE seen
    <3>1. main.at = "joined" /\ gathered # PE /\ gathered \subseteq PE
      BY <1>1, <1>3 DEF Gather, GatheredLate
    <3>2. Cardinality(gathered) \in PE
      BY <3>1, NextGathered
    <3> QED
      BY <1>3, <3>2 DEF Gather
  <2>3. p \in finished \/ p \in missed \/ submitted[p] = <<>>
    BY <1>1, <1>3 DEF Gather, ForkInv, Looked, Past, NotAccepted
  <2> QED
    BY <1>3, <2>1, <2>2, <2>3
    DEF Gather, ReduceInv, GatheredLate, UnseenWasMissed, StrayWasMissed, forkVars, poolVars
<1>4. CASE Fill \/ \E p \in PE : AddElement(p)
  <2>1. UNCHANGED <<forkVars, gathered, seen, stray>>
    BY <1>4 DEF Fill, AddElement
  <2> QED
    BY <1>1, <2>1, ForkKept, RecordKept DEF forkVars, poolVars, GatheredLate
<1>5. CASE Return
  <2>1. ForkInv' /\ main'.at = "done"
    BY <1>1, <1>5, ReturnPreserves DEF Return, ForkInv
  <2> QED
    BY <1>5, <2>1, RecordKept DEF Return, reduceVars, poolVars
<1>6. ASSUME NEW p \in PE, WorkerLoop(p), UNCHANGED reduceVars PROVE ReduceInv'
  <2>1. ForkInv'
    BY <1>1, <1>6, WorkerPreserves DEF WorkerLoop
  <2>2. UNCHANGED <<main, missed, submitted>>
    BY <1>6 DEF WorkerLoop, Pool!Sleep, Pool!Take, Pool!Finish, Pool!history
  <2> QED
    BY <1>1, <1>6, <2>1, <2>2, RecordKept DEF reduceVars, GatheredLate
<1>7. ASSUME NEW p \in PE, Store(p) PROVE ReduceInv'
  <2>1. ForkInv'
    BY <1>1, <1>7, WorkerPreserves DEF Store
  <2>2. UNCHANGED submitted
    BY <1>7 DEF Store, Pool!Complete
  <2> QED
    BY <1>1, <1>7, <2>1, <2>2, RecordKept DEF Store, GatheredLate
<1>8. ASSUME NEW p \in PE, Astray(p) PROVE ReduceInv'
  <2>1. ForkInv'
    BY <1>1, <1>8, WorkerPreserves DEF Astray
  <2>2. p \in missed
    BY <1>1, <1>8, LateWasMissed DEF Astray
  <2>3. UNCHANGED <<main, missed, submitted, gathered, seen>> /\ stray' = stray \cup {p}
    BY <1>8 DEF Astray, Pool!Complete
  <2> QED
    BY <2>1, <2>2, <2>3 DEF ReduceInv, GatheredLate, UnseenWasMissed, StrayWasMissed
<1>9. CASE Spurious /\ UNCHANGED reduceVars
  <2>1. ForkInv'
    BY <1>1, <1>9, CallerPreserves, WorkerPreserves DEF Spurious
  <2>2. UNCHANGED <<main, missed, submitted>>
    BY <1>9 DEF Spurious, Pool!SpuriousClientWake, Pool!SpuriousWorkerWake, Pool!history
  <2> QED
    BY <1>1, <1>9, <2>1, <2>2, RecordKept DEF reduceVars, GatheredLate
<1>10. CASE UNCHANGED vars
  <2>1. UNCHANGED <<forkVars, gathered, seen, stray>>
    BY <1>10 DEF vars, reduceVars
  <2> QED
    BY <1>1, <2>1, ForkKept, RecordKept DEF forkVars, poolVars, GatheredLate
<1> QED
  BY <1>2, <1>3, <1>4, <1>5, <1>6, <1>7, <1>8, <1>9, <1>10 DEF Next, Caller, Worker

LEMMA ReduceInvariant == Spec => []ReduceInv
BY ReduceInvInit, ReduceInvStep, PTL DEF Spec

\* A step of a reduction is a step of the pool or leaves it alone.
LEMMA ReduceStepsPool ==
    ASSUME ForkInv, [Next]_vars
    PROVE  PoolStep \/ UNCHANGED poolVars
<1>1. CASE CallerStep \/ Spurious
  BY <1>1 DEF CallerStep, Submit, Join, JoinBlock, JoinReturn, Spurious, PoolStep
<1>2. CASE Gather \/ Fill \/ Return \/ UNCHANGED vars
  BY <1>2 DEF Gather, Fill, Return, vars, forkVars
<1>3. ASSUME NEW p \in PE, Worker(p) PROVE PoolStep \/ UNCHANGED poolVars
  BY <1>3 DEF Worker, WorkerLoop, AddElement, Store, Astray, PoolStep, forkVars
<1> QED
  BY <1>1, <1>2, <1>3 DEF Next, Caller

\* The pool a reduction runs on does what TaskService promises, however tasks
\* and caller interleave: FIFO per PE, one task at a time, and tpool_wait
\* returns only while the PE runs none.
THEOREM PoolServed == Spec => PoolServes
<1>1. Init => Pool!Service!Init
  BY SamePEs DEF Init, ForkInit, Pool!Init, Pool!IdleClient, Pool!Service!Init, Pool!Pending,
    Pool!WaitsOn
<1>2. ReduceInv /\ [Next]_vars => [Pool!Service!Next]_(Pool!Service!svars)
  <2> SUFFICES ASSUME ReduceInv, [Next]_vars PROVE [Pool!Service!Next]_(Pool!Service!svars)
    OBVIOUS
  <2>1. P!PoolInv /\ (P!Next \/ UNCHANGED P!vars)
    BY ReduceStepsPool, PoolStepIsNext DEF ReduceInv, ForkInv, P!vars, P!poolVars, P!history,
      poolVars
  <2>2. Num \in Nat /\ None \notin PE
    BY SamePEs, NoneAssumption
  <2>3. [P!Service!Next]_(P!Service!svars)
    BY <2>1, <2>2, P!ServiceStep DEF P!NumAssumption, P!NoneAssumption
  <2>4. Pool!Pending = P!Pending /\ Pool!WaitsOn = P!WaitsOn
        /\ Pool!Pending' = P!Pending' /\ Pool!WaitsOn' = P!WaitsOn'
    BY SamePEs DEF Pool!Pending, P!Pending, Pool!WaitsOn, P!WaitsOn
  <2> QED
    BY <2>3, <2>4, SamePEs DEF P!Service!Next, Pool!Service!Next, P!Service!svars,
      Pool!Service!svars, P!Service!Start, Pool!Service!Start, P!Service!Done,
      Pool!Service!Done, P!Service!Submit, Pool!Service!Submit, P!Service!BeginWait,
      Pool!Service!BeginWait, P!Service!ShutDown, Pool!Service!ShutDown, P!Service!EndWait,
      Pool!Service!EndWait
<1> QED
  BY <1>1, <1>2, ReduceInvariant, PTL DEF Spec, PoolServes, Pool!ImplementsService,
    Pool!Service!Spec

\* A task that runs when the call is over, on arguments that are gone, is one
\* tpool_wait never looked at; a task that had started is waited for.
THEOREM StrayMissed == Spec => []StrayWasMissed
<1>1. ReduceInv => StrayWasMissed
  BY DEF ReduceInv
<1> QED
  BY <1>1, ReduceInvariant, PTL

\* What the result lacks is exactly accounted for: a PE whose partial sum was
\* read too early was missed by the wait, or its task never accepted.
THEOREM LossMissed == Spec => []UnseenWasMissed
<1>1. ReduceInv => UnseenWasMissed
  BY DEF ReduceInv
<1> QED
  BY <1>1, ReduceInvariant, PTL

----------------------------------------------------------------------------
(* What the result is made of *)

\* ElemsPerTask is a quotient.
LEMMA Blocks ==
    ASSUME nelems \in Nat \ {0}
    PROVE  /\ ElemsPerTask \in Nat /\ Num * ElemsPerTask <= nelems
           /\ nelems < Num => ElemsPerTask = 0
           /\ nelems >= Num => ElemsPerTask >= 1
<1> DEFINE K == ElemsPerTask
           R == nelems % Num
<1>1. Num \in Nat \ {0}
  BY NumAssumption
<1>2. K \in Int /\ R \in 0 .. Num - 1 /\ nelems = Num * K + R
  BY <1>1 DEF ElemsPerTask
<1> HIDE DEF K, R
<1>3. K >= 0
  <2> SUFFICES ASSUME K <= -1 PROVE FALSE
    BY <1>2
  <2>1. Num * K <= -Num
    BY <1>1, <1>2
  <2> QED
    BY <1>1, <1>2, <2>1
<1>4. nelems < Num => K = 0
  <2> SUFFICES ASSUME nelems < Num, K >= 1 PROVE FALSE
    BY <1>2, <1>3
  <2>1. Num * K >= Num
    BY <1>1, <1>2
  <2> QED
    BY <1>1, <1>2, <2>1
<1>5. nelems >= Num => K >= 1
  <2> SUFFICES ASSUME nelems >= Num, K = 0 PROVE FALSE
    BY <1>2, <1>3
  <2> QED
    BY <1>1, <1>2
<1> QED
  BY <1>1, <1>2, <1>3, <1>4, <1>5 DEF K

\* The parts are intervals that do not overlap, and all of src.
LEMMA Parts ==
    ASSUME nelems \in Nat \ {0}
    PROVE  \A p \in PE :
              /\ Start(p) \in Nat /\ End(p) \in Nat /\ Start(p) <= End(p) /\ End(p) <= nelems
              /\ Start(p) \in Index
              /\ nelems >= Num => /\ Start(p) < End(p)
                                  /\ \A q \in PE : p < q => End(p) <= Start(q)
              /\ nelems < Num => Start(p) = 0 /\ End(p) = IF p = Num - 1 THEN nelems ELSE 0
<1> SUFFICES ASSUME NEW p \in PE
             PROVE  /\ Start(p) \in Nat /\ End(p) \in Nat /\ Start(p) <= End(p) /\ End(p) <= nelems
                    /\ Start(p) \in Index
                    /\ nelems >= Num => /\ Start(p) < End(p)
                                        /\ \A q \in PE : p < q => End(p) <= Start(q)
                    /\ nelems < Num => Start(p) = 0 /\ End(p) = IF p = Num - 1 THEN nelems ELSE 0
  OBVIOUS
<1> DEFINE K == ElemsPerTask
<1>1. /\ K \in Nat /\ Num * K <= nelems /\ Num \in Nat \ {0} /\ p \in Nat /\ p <= Num - 1
      /\ nelems < Num => K = 0
      /\ nelems >= Num => K >= 1
  BY Blocks, NumAssumption DEF PE
<1>2. Start(p) = p * K /\ End(p) = IF p = Num - 1 THEN nelems ELSE p * K + K
  BY DEF Start, End
<1> HIDE DEF K
<1>3. p * K \in Nat /\ p * K + K = (p + 1) * K
  BY <1>1
<1>4. ASSUME NEW a \in Nat, NEW b \in Nat, a <= b PROVE a * K <= b * K
  BY <1>1, <1>4
<1>5. (p + 1) * K <= Num * K /\ p * K + K <= nelems
  BY <1>1, <1>3, <1>4
<1>6. ASSUME NEW q \in PE, p < q PROVE End(p) <= Start(q)
  <2>1. q \in Nat /\ p # Num - 1 /\ p + 1 <= q
    BY <1>1, <1>6 DEF PE
  <2>2. (p + 1) * K <= q * K
    BY <1>1, <1>4, <2>1
  <2> QED
    BY <1>2, <1>3, <2>1, <2>2 DEF Start, K
<1>7. nelems >= Num => Start(p) < End(p)
  BY <1>1, <1>2, <1>3, <1>5
<1>8. nelems < Num => Start(p) = 0 /\ End(p) = IF p = Num - 1 THEN nelems ELSE 0
  BY <1>1, <1>2
<1>9. Start(p) <= nelems - 1
  BY <1>1, <1>2, <1>3, <1>5, <1>8
<1> QED
  BY <1>1, <1>2, <1>3, <1>5, <1>6, <1>7, <1>8, <1>9 DEF Index

\* An element belongs to the PE whose part it is in.
LEMMA PartsAreOwned ==
    ASSUME nelems \in Nat, nelems >= Num, NEW p \in PE
    PROVE  {i \in Index : Owner(i) = p} = Start(p) .. End(p) - 1
<1> DEFINE K == ElemsPerTask
<1>1. nelems \in Nat \ {0} /\ Num \in Nat \ {0} /\ p \in Nat /\ p <= Num - 1
  BY NumAssumption DEF PE
<1>2. K \in Nat /\ K >= 1 /\ Num * K <= nelems
  BY <1>1, Blocks
<1> SUFFICES ASSUME NEW i \in Index
             PROVE  Owner(i) = p <=> Start(p) <= i /\ i <= End(p) - 1
  BY <1>1, Parts DEF Index
<1> DEFINE d == i \div K
           r == i % K
<1> HIDE DEF K
<1>3. d \in Int /\ r \in 0 .. K - 1 /\ i = K * d + r /\ i \in Nat /\ i <= nelems - 1
  BY <1>1, <1>2 DEF Index
<1> HIDE DEF d, r
<1>4. Owner(i) = IF d <= Num - 1 THEN d ELSE Num - 1
  <2>1. Owner(i) = CHOOSE x \in {d, Num - 1} : \A y \in {d, Num - 1} : x <= y
    BY DEF Owner, Min, d, K
  <2> QED
    BY <1>1, <1>3, <2>1
<1>5. ASSUME NEW a \in Int, NEW b \in Int, a <= b PROVE a * K <= b * K
  BY <1>2, <1>5
<1>6. Start(p) = p * K /\ End(p) = IF p = Num - 1 THEN nelems ELSE p * K + K
  BY DEF Start, End, K
<1>7. p * K \in Int /\ d * K \in Int /\ K * d = d * K
      /\ (p + 1) * K = p * K + K /\ (d + 1) * K = d * K + K
  BY <1>1, <1>2, <1>3
<1>8. CASE d = p
  <2>1. Owner(i) = p
    BY <1>1, <1>4, <1>8
  <2> QED
    BY <1>1, <1>2, <1>3, <1>6, <1>7, <1>8, <2>1
<1>9. CASE d < p
  <2>1. Owner(i) # p
    BY <1>1, <1>3, <1>4, <1>9
  <2>2. (d + 1) * K <= p * K
    BY <1>1, <1>3, <1>5, <1>9
  <2> QED
    BY <1>2, <1>3, <1>6, <1>7, <2>1, <2>2
<1>10. CASE d > p
  <2>1. Owner(i) = p <=> p = Num - 1
    BY <1>1, <1>3, <1>4, <1>10
  <2>2. (p + 1) * K <= d * K
    BY <1>1, <1>3, <1>5, <1>10
  <2> QED
    BY <1>1, <1>2, <1>3, <1>6, <1>7, <2>1, <2>2
<1> QED
  BY <1>1, <1>3, <1>8, <1>9, <1>10

\* TypeOK without what ForkInv says.
ReduceTypes ==
    /\ nelems \in Sizes /\ inPlace \in BOOLEAN
    /\ dest \in [Index -> Int]
    /\ sum \in [PE -> Int]
    /\ next \in [PE -> 0 .. nelems]
    /\ final \in Int
    /\ filled \in 0 .. nelems

\* The caller reads the cells in the order of the PEs, and stores nothing
\* before it has read them all.
GatherOrder ==
    /\ gathered = 0 .. Cardinality(gathered) - 1
    /\ seen \subseteq gathered \cap finished
    /\ gathered # PE => filled = 0 /\ ~Returned

\* As long as the caller reads: how far each task is, what its cell holds, and
\* that nothing else has been stored.
CellsInv ==
    nelems >= Num /\ gathered # PE =>
        /\ \A p \in PE : /\ next[p] \in Start(p) .. End(p)
                         /\ sum[p] = SumOf(Start(p) .. next[p] - 1)
                         /\ dest[Start(p)] = IF p \in finished THEN PartialSum(p)
                                            ELSE InitialDest(Start(p))
        /\ \A i \in Index : (\A p \in PE : i # Start(p)) => dest[i] = InitialDest(i)

ValueInv == ForkInv /\ GatheredLate /\ ReduceTypes /\ GatherOrder /\ CellsInv /\ GatherExplained

LEMMA TypeFacts ==
    ASSUME nelems \in Sizes
    PROVE  /\ nelems \in Nat \ {0} /\ Num \in Nat \ {0}
           /\ \A i \in Index : i \in Nat /\ SrcAt(i) \in Int /\ InitialDest(i) \in Int
<1>1. nelems \in Nat \ {0} /\ nelems <= Len(Src) /\ Num \in Nat \ {0}
  BY SizesAssumption, SrcAssumption, NumAssumption
<1>2. ASSUME NEW i \in Index PROVE i \in Nat /\ SrcAt(i) \in Int /\ InitialDest(i) \in Int
  <2>1. i \in Nat /\ i + 1 \in 1 .. Len(Src)
    BY <1>1, SrcAssumption DEF Index
  <2> QED
    BY <2>1, SrcAssumption DEF SrcAt, InitialDest
<1> QED
  BY <1>1, <1>2

LEMMA SumOfFacts ==
    ASSUME nelems \in Sizes
    PROVE  /\ SumOf({}) = 0
           /\ \A S \in SUBSET Index : SumOf(S) \in Int
           /\ \A a \in Nat, b \in Index :
                 a <= b => SumOf(a .. b) = SumOf(a .. b - 1) + SrcAt(b)
<1> DEFINE fun == [i \in Index |-> SrcAt(i)]
<1>1. nelems \in Nat /\ IsFiniteSet(Index) /\ \A i \in Index : fun[i] \in Int
  <2>1. nelems \in Nat /\ \A i \in Index : fun[i] \in Int
    BY TypeFacts
  <2>2. IsFiniteSet(0 .. nelems - 1)
    BY <2>1, FS_Interval
  <2> QED
    BY <2>1, <2>2 DEF Index
<1>2. SumOf({}) = 0
  BY SumEmpty DEF SumOf
<1>3. \A S \in SUBSET Index : SumOf(S) \in Int
  <2> HIDE DEF fun
  <2> QED BY <1>1, SumInt DEF SumOf, fun
<1>4. ASSUME NEW a \in Nat, NEW b \in Index, a <= b
      PROVE  SumOf(a .. b) = SumOf(a .. b - 1) + SrcAt(b)
  <2>1. b \in Nat /\ IsFiniteSet(a .. b - 1) /\ b \notin a .. b - 1
    BY <1>1, FS_Interval DEF Index
  <2>2. a .. b = (a .. b - 1) \cup {b} /\ a .. b \subseteq Index
    BY <1>1, <1>4, <2>1 DEF Index
  <2>3. \A y \in (a .. b - 1) \cup {b} : fun[y] \in Int
    BY <1>1, <2>2
  <2> HIDE DEF fun
  <2>4. SumFunctionOnSet(fun, (a .. b - 1) \cup {b}) = SumFunctionOnSet(fun, a .. b - 1) + fun[b]
    BY <2>1, <2>3, SumAdd
  <2> QED
    BY <2>2, <2>4 DEF SumOf, fun
<1> QED
  BY <1>2, <1>3, <1>4

LEMMA ValueInvInit == Init => ValueInv
<1> SUFFICES ASSUME Init PROVE ValueInv
  OBVIOUS
<1>1. ForkInv
  BY ForkInvInit DEF Init
<1>2. nelems \in Sizes /\ nelems \in Nat \ {0} /\ gathered = {}
  BY TypeFacts DEF Init
<1>3. ReduceTypes
  BY <1>2, TypeFacts, Parts DEF Init, ReduceTypes
<1>4. GatherOrder /\ GatheredLate
  BY <1>2, FS_EmptySet DEF Init, ForkInit, GatherOrder, GatheredLate, Returned, PE
<1>5. \A p \in PE : p \notin finished
  BY DEF Init, ForkInit, Pool!Init
<1>6. CellsInv
  <2>1. ASSUME NEW p \in PE
        PROVE  /\ next[p] \in Start(p) .. End(p)
               /\ sum[p] = SumOf(Start(p) .. next[p] - 1)
               /\ dest[Start(p)] = InitialDest(Start(p))
    <3>1. next[p] = Start(p) /\ Start(p) .. Start(p) - 1 = {}
      BY <1>2, Parts DEF Init
    <3> QED
      BY <1>2, <3>1, Parts, SumOfFacts DEF Init
  <2> QED
    BY <1>5, <2>1 DEF Init, CellsInv
<1>7. GatherExplained
  BY <1>2, SumEmpty DEF Init, GatherExplained
<1> QED
  BY <1>1, <1>3, <1>4, <1>6, <1>7 DEF ValueInv

\* Steps that leave the values alone.
LEMMA ValuesKept ==
    ASSUME ValueInv, ForkInv',
           UNCHANGED <<nelems, inPlace, dest, sum, next, final, gathered, filled, seen, finished>>,
           gathered # PE => ~Returned',
           gathered # {} => main'.at \in {"joined", "done"}
    PROVE  ValueInv'
<1>1. GatheredLate' /\ GatherOrder' /\ ReduceTypes'
  BY DEF ValueInv, GatheredLate, GatherOrder, ReduceTypes, Index
<1>2. \A p \in PE : /\ Start(p)' = Start(p) /\ End(p)' = End(p)
                   /\ PartialSum(p)' = PartialSum(p)
  BY DEF Start, End, ElemsPerTask, PartialSum, SumOf, Index, Owner
<1>3. \A i : InitialDest(i)' = InitialDest(i)
  BY DEF InitialDest
<1>4. CellsInv'
  BY <1>2, <1>3 DEF ValueInv, CellsInv, Index, SumOf
<1>5. GatherExplained'
  BY <1>2, <1>3 DEF ValueInv, GatherExplained, Contribution
<1> QED
  BY <1>1, <1>4, <1>5 DEF ValueInv

\* What a running task finds.
LEMMA RunningFacts ==
    ASSUME ValueInv, NEW p \in PE, worker[p] = "running"
    PROVE  /\ p \notin finished /\ unit[p] = p
           /\ nelems >= Num /\ gathered # PE /\ next[p] < End(p) => Source(next[p]) = SrcAt(next[p])
<1>1. p \notin finished /\ unit[p] = p
  BY DEF ValueInv, ForkInv, Placed, NotAccepted, InQueue, InHand, Ended
<1>2. ASSUME nelems >= Num, gathered # PE, next[p] < End(p)
      PROVE  Source(next[p]) = SrcAt(next[p])
  <2> PICK j \in Index : j = next[p] /\ Start(p) <= j /\ j < End(p)
    <3>1. next[p] \in Start(p) .. End(p)
      BY <1>2 DEF ValueInv, CellsInv
    <3> QED
      BY <1>2, <3>1, TypeFacts, Parts DEF ValueInv, ReduceTypes, Index
  <2>1. CASE j = Start(p)
    BY <1>1, <1>2, <2>1 DEF ValueInv, CellsInv, Source, InitialDest
  <2>2. CASE j # Start(p)
    <3>1. ASSUME NEW q \in PE PROVE j # Start(q)
      <4>1. p \in Int /\ q \in Int /\ j \in Int
        BY NumAssumption, TypeFacts DEF PE, ValueInv, ReduceTypes
      <4>2. nelems \in Nat \ {0}
        BY TypeFacts DEF ValueInv, ReduceTypes
      <4>3. CASE q < p
        <5>1. End(q) <= Start(p) /\ Start(q) < End(q) /\ Start(q) \in Nat /\ End(q) \in Nat
              /\ Start(p) \in Nat
          BY <1>2, <4>2, <4>3, Parts
        <5> QED
          BY <4>1, <5>1
      <4>4. CASE p < q
        <5>1. End(p) <= Start(q) /\ Start(q) \in Nat /\ End(p) \in Nat
          BY <1>2, <4>2, <4>4, Parts
        <5> QED
          BY <4>1, <5>1
      <4> QED
        BY <2>2, <4>1, <4>3, <4>4
    <3> QED
      BY <1>2, <3>1 DEF ValueInv, CellsInv, Source, InitialDest
  <2> QED
    BY <2>1, <2>2
<1> QED
  BY <1>1, <1>2

LEMMA AddElementKeepsValues ==
    ASSUME ValueInv, NEW p \in PE, AddElement(p)
    PROVE  ValueInv'
<1>1. ForkInv'
  BY ForkKept DEF ValueInv, AddElement
<1>2. /\ UNCHANGED <<nelems, inPlace, dest, final, gathered, filled, seen, finished, main>>
      /\ worker[p] = "running" /\ next[p] < End(p)
      /\ sum' = [sum EXCEPT ![p] = @ + Source(next[p])]
      /\ next' = [next EXCEPT ![p] = @ + 1]
  BY DEF AddElement, Running, forkVars, poolVars
<1>3. nelems \in Nat \ {0} /\ next[p] \in 0 .. nelems /\ End(p) \in Nat /\ End(p) <= nelems
      /\ Start(p) \in Nat
  BY TypeFacts, Parts DEF ValueInv, ReduceTypes
<1>4. next[p] \in Index
  BY <1>2, <1>3 DEF Index
<1>5. Source(next[p]) \in Int
  BY <1>4, TypeFacts DEF ValueInv, ReduceTypes, Source
<1>6. ReduceTypes'
  BY <1>2, <1>3, <1>5 DEF ValueInv, ReduceTypes, Index
<1>7. GatheredLate' /\ GatherOrder'
  BY <1>2 DEF ValueInv, GatheredLate, GatherOrder, Returned
<1>8. \A q \in PE : /\ Start(q)' = Start(q) /\ End(q)' = End(q)
                   /\ PartialSum(q)' = PartialSum(q)
  BY <1>2 DEF Start, End, ElemsPerTask, PartialSum, SumOf, Index, Owner
<1>9. \A i : InitialDest(i)' = InitialDest(i)
  BY <1>2 DEF InitialDest
<1>10. GatherExplained'
  BY <1>2, <1>8, <1>9 DEF ValueInv, GatherExplained, Contribution
<1>11. ASSUME nelems >= Num, gathered # PE, NEW q \in PE
       PROVE  next'[q] \in Start(q) .. End(q) /\ sum'[q] = SumOf(Start(q) .. next'[q] - 1)
  <2>1. next[q] \in Start(q) .. End(q) /\ sum[q] = SumOf(Start(q) .. next[q] - 1)
    BY <1>11 DEF ValueInv, CellsInv
  <2>2. CASE q # p
    BY <1>2, <2>1, <2>2 DEF ValueInv, ReduceTypes
  <2>3. CASE q = p
    <3>1. next'[p] = next[p] + 1 /\ sum'[p] = sum[p] + SrcAt(next[p])
      BY <1>2, <1>11, RunningFacts DEF ValueInv, ReduceTypes
    <3>2. SumOf(Start(p) .. next[p]) = SumOf(Start(p) .. next[p] - 1) + SrcAt(next[p])
      BY <1>3, <1>4, <2>1, <2>3, SumOfFacts DEF ValueInv, ReduceTypes
    <3>3. next'[p] \in Start(p) .. End(p) /\ next'[p] - 1 = next[p]
      BY <1>2, <1>3, <2>1, <2>3, <3>1
    <3> QED
      BY <2>1, <2>3, <3>1, <3>2, <3>3
  <2> QED
    BY <2>2, <2>3
<1>12. CellsInv'
  BY <1>2, <1>8, <1>9, <1>11 DEF ValueInv, CellsInv, Index, SumOf
<1> QED
  BY <1>1, <1>6, <1>7, <1>10, <1>12 DEF ValueInv

LEMMA StoreKeepsValues ==
    ASSUME ValueInv, NEW p \in PE, Store(p)
    PROVE  ValueInv'
<1>1. ForkInv'
  BY WorkerPreserves DEF ValueInv, Store
<1>2. /\ UNCHANGED <<nelems, inPlace, sum, next, final, gathered, filled, seen, main>>
      /\ worker[p] = "running" /\ next[p] >= End(p)
      /\ dest' = [dest EXCEPT ![Start(p)] = sum[p]]
      /\ finished' = finished \cup {p}
  BY RunningFacts DEF Store, Running, Pool!Complete
<1>3. nelems \in Nat \ {0}
  BY TypeFacts DEF ValueInv, ReduceTypes
<1>4. ReduceTypes'
  BY <1>2, <1>3, Parts DEF ValueInv, ReduceTypes, Index
<1>5. GatheredLate' /\ GatherOrder'
  BY <1>2 DEF ValueInv, GatheredLate, GatherOrder, Returned
<1>6. \A q \in PE : /\ Start(q)' = Start(q) /\ End(q)' = End(q)
                   /\ PartialSum(q)' = PartialSum(q)
  BY <1>2 DEF Start, End, ElemsPerTask, PartialSum, SumOf, Index, Owner
<1>7. \A i : InitialDest(i)' = InitialDest(i)
  BY <1>2 DEF InitialDest
<1>8. GatherExplained'
  BY <1>2, <1>6, <1>7 DEF ValueInv, GatherExplained, Contribution
<1>9. ASSUME nelems >= Num, gathered # PE
      PROVE  /\ \A q \in PE : dest'[Start(q)] = IF q \in finished' THEN PartialSum(q)
                                                 ELSE InitialDest(Start(q))
             /\ \A i \in Index : (\A q \in PE : i # Start(q)) => dest'[i] = InitialDest(i)
  <2>1. /\ dest \in [Index -> Int] /\ Start(p) \in Index
        /\ \A q \in PE : q # p => Start(q) # Start(p) /\ Start(q) \in Index
    <3>1. ASSUME NEW q \in PE, NEW r \in PE, q < r PROVE Start(q) # Start(r)
      <4>1. Start(q) < End(q) /\ End(q) <= Start(r) /\ Start(q) \in Nat /\ End(q) \in Nat
            /\ Start(r) \in Nat
        BY <1>3, <1>9, <3>1, Parts
      <4> QED
        BY <4>1
    <3>2. \A q \in PE : q \in Int
      BY NumAssumption DEF PE
    <3>3. \A q \in PE : q # p => q < p \/ p < q
      BY <3>2
    <3> QED
      BY <1>3, <3>1, <3>3, Parts DEF ValueInv, ReduceTypes
  <2>2. sum[p] = PartialSum(p)
    <3>1. next[p] \in Start(p) .. End(p) /\ sum[p] = SumOf(Start(p) .. next[p] - 1)
      BY <1>9 DEF ValueInv, CellsInv
    <3>2. next[p] = End(p)
      BY <1>2, <1>3, <3>1, Parts
    <3> QED
      BY <1>3, <1>9, <3>1, <3>2, PartsAreOwned DEF PartialSum
  <2>3. ASSUME NEW q \in PE
        PROVE  dest'[Start(q)] = IF q \in finished' THEN PartialSum(q) ELSE InitialDest(Start(q))
    <3>1. CASE q = p
      BY <1>2, <2>1, <2>2, <3>1
    <3>2. CASE q # p
      BY <1>2, <1>9, <2>1, <3>2 DEF ValueInv, CellsInv
    <3> QED
      BY <3>1, <3>2
  <2> QED
    BY <1>2, <1>9, <2>1, <2>3 DEF ValueInv, CellsInv
<1>10. CellsInv'
  BY <1>2, <1>6, <1>7, <1>9 DEF ValueInv, CellsInv, Index, SumOf
<1> QED
  BY <1>1, <1>4, <1>5, <1>8, <1>10 DEF ValueInv

LEMMA GatherKeepsValues ==
    ASSUME ValueInv, Gather
    PROVE  ValueInv'
<1>1. ForkInv'
  BY ForkKept DEF ValueInv, Gather
<1>2. gathered \subseteq PE /\ gathered # PE /\ IsFiniteSet(gathered)
  BY NextGathered DEF Gather, ValueInv, GatheredLate
<1> PICK c \in PE : c = Cardinality(gathered)
  BY <1>2, NextGathered
<1>3. /\ UNCHANGED <<nelems, inPlace, dest, sum, next, filled, finished, main>>
      /\ main.at = "joined"
      /\ final' = final + dest[Start(c)]
      /\ gathered' = gathered \cup {c}
      /\ seen' = IF c \in finished THEN seen \cup {c} ELSE seen
  BY DEF Gather, forkVars, poolVars
<1>4. c \in Nat /\ gathered = 0 .. c - 1 /\ c \notin gathered
  BY NumAssumption DEF ValueInv, GatherOrder, PE
<1>5. gathered' = 0 .. c /\ Cardinality(gathered') = c + 1
  <2>1. gathered' = 0 .. c
    <3>1. \A a \in Nat : (0 .. a - 1) \cup {a} = 0 .. a
      OBVIOUS
    <3> QED
      BY <1>3, <1>4, <3>1, Zenon
  <2>2. Cardinality(0 .. c) = c + 1
    BY <1>4, FS_Interval
  <2> QED
    BY <2>1, <2>2
<1>6. nelems \in Nat \ {0} /\ Start(c) \in Index
  BY TypeFacts, Parts DEF ValueInv, ReduceTypes
<1>7. ReduceTypes'
  BY <1>3, <1>6 DEF ValueInv, ReduceTypes, Index
<1>8. GatheredLate'
  BY <1>2, <1>3 DEF GatheredLate
<1>9. GatherOrder'
  <2>1. gathered' = 0 .. Cardinality(gathered') - 1
    <3>1. (c + 1) - 1 = c
      BY <1>4
    <3> QED
      BY <1>5, <3>1, Zenon
  <2>2. seen' \subseteq gathered' \cap finished'
    BY <1>3 DEF ValueInv, GatherOrder
  <2>3. filled' = 0 /\ ~Returned'
    BY <1>2, <1>3 DEF ValueInv, GatherOrder, Returned
  <2> QED
    BY <2>1, <2>2, <2>3 DEF GatherOrder
<1>10. \A q \in PE : /\ Start(q)' = Start(q) /\ End(q)' = End(q)
                    /\ PartialSum(q)' = PartialSum(q)
  BY <1>3 DEF Start, End, ElemsPerTask, PartialSum, SumOf, Index, Owner
<1>11. \A i : InitialDest(i)' = InitialDest(i)
  BY <1>3 DEF InitialDest
<1>12. CellsInv'
  BY <1>2, <1>3, <1>10, <1>11 DEF ValueInv, CellsInv, Index, SumOf
<1>13. ASSUME nelems >= Num PROVE final' = SumFunctionOnSet(Contribution', gathered')
  <2>1. dest[Start(c)] = IF c \in finished THEN PartialSum(c) ELSE InitialDest(Start(c))
    BY <1>2, <1>13 DEF ValueInv, CellsInv
  <2>2. c \notin seen
    BY <1>4 DEF ValueInv, GatherOrder
  <2>3. Contribution'[c] = dest[Start(c)] /\ \A q \in gathered : Contribution'[q] = Contribution[q]
    BY <1>2, <1>3, <1>4, <1>10, <1>11, <2>1, <2>2 DEF Contribution
  <2>4. \A q \in PE : Contribution'[q] \in Int
    <3>1. \A q \in PE : PartialSum(q) \in Int /\ InitialDest(Start(q)) \in Int
      BY <1>6, TypeFacts, Parts, SumOfFacts DEF ValueInv, ReduceTypes, PartialSum
    <3> QED
      BY <1>10, <1>11, <3>1 DEF Contribution
  <2> DEFINE new == Contribution'
  <2> HIDE DEF new
  <2>5. SumFunctionOnSet(new, gathered \cup {c}) = SumFunctionOnSet(new, gathered) + new[c]
    <3>1. \A q \in gathered \cup {c} : new[q] \in Int
      BY <1>2, <2>4 DEF new
    <3> QED
      BY <1>2, <1>4, <3>1, SumAdd
  <2>6. SumFunctionOnSet(new, gathered) = SumFunctionOnSet(Contribution, gathered)
    <3>1. \A q \in gathered : new[q] = Contribution[q]
      BY <2>3 DEF new
    <3> QED
      BY <1>2, <3>1, SumSame
  <2>7. final = SumFunctionOnSet(Contribution, gathered)
    BY <1>13 DEF ValueInv, GatherExplained
  <2> QED
    BY <1>3, <2>3, <2>5, <2>6, <2>7 DEF new
<1>14. GatherExplained'
  BY <1>3, <1>13 DEF GatherExplained
<1> QED
  BY <1>1, <1>7, <1>8, <1>9, <1>12, <1>14 DEF ValueInv

\* Once the caller has read every cell, only types and the order matter.
LEMMA GatheredAll ==
    ASSUME ValueInv, ForkInv', ReduceTypes', gathered = PE, finished \subseteq finished',
           UNCHANGED <<nelems, inPlace, final, gathered, seen>>,
           gathered # {} => main'.at \in {"joined", "done"}
    PROVE  ValueInv'
<1>1. \A q \in PE : Start(q)' = Start(q) /\ PartialSum(q)' = PartialSum(q)
  BY DEF Start, End, ElemsPerTask, PartialSum, SumOf, Index, Owner
<1>2. GatherExplained'
  BY <1>1 DEF ValueInv, GatherExplained, Contribution, InitialDest
<1> QED
  BY <1>2 DEF ValueInv, GatheredLate, GatherOrder, CellsInv

LEMMA ValueInvStep == ValueInv /\ [Next]_vars => ValueInv'
<1> SUFFICES ASSUME ValueInv, [Next]_vars PROVE ValueInv'
  OBVIOUS
<1>1. ForkInv /\ GatheredLate /\ (gathered # PE => ~Returned) /\ PE # {}
  BY SamePEs DEF ValueInv, GatherOrder
<1>2. CASE CallerStep /\ UNCHANGED reduceVars
  <2>1. ForkInv' /\ gathered = {} /\ UNCHANGED finished
    BY <1>1, <1>2, CallerPreserves
    DEF CallerStep, Submit, Join, JoinBlock, JoinReturn, GatheredLate, Pool!AddWork,
      Pool!RefuseWork, Pool!WaitCall, Pool!WaitBlock, Pool!WaitReturn, Pool!poolVars, Pool!history
  <2>2. main'.at # "done"
    BY <1>1, <1>2 DEF CallerStep, Submit, Join, JoinBlock, JoinReturn, NextTurn, ForkInv, MainState
  <2> QED
    BY <1>2, <2>1, <2>2, ValuesKept DEF reduceVars, Returned
<1>3. CASE Fill
  <2>1. ForkInv' /\ gathered = PE
    BY <1>1, <1>3, ForkKept DEF Fill
  <2>2. ReduceTypes'
    <3>1. filled + 1 \in 0 .. nelems
      BY <1>3, TypeFacts DEF Fill, ValueInv, ReduceTypes
    <3> QED
      BY <1>3, <3>1 DEF Fill, ValueInv, ReduceTypes, Index
  <2> QED
    BY <1>1, <1>3, <2>1, <2>2, GatheredAll DEF Fill, GatheredLate, forkVars, poolVars
<1>4. CASE Return
  <2>1. ForkInv' /\ main'.at = "done"
    BY <1>1, <1>4, ReturnPreserves DEF Return, ForkInv
  <2>2. gathered = PE
    BY <1>4, TypeFacts DEF Return, ValueInv, ReduceTypes, GatherOrder
  <2>3. ReduceTypes'
    BY <1>4 DEF Return, reduceVars, ValueInv, ReduceTypes, Index
  <2> QED
    BY <1>4, <2>1, <2>2, <2>3, GatheredAll DEF Return, reduceVars, poolVars
<1>5. ASSUME NEW p \in PE, WorkerLoop(p), UNCHANGED reduceVars PROVE ValueInv'
  <2>1. ForkInv'
    BY <1>1, <1>5, WorkerPreserves DEF WorkerLoop
  <2>2. UNCHANGED <<main, missed, finished>>
    BY <1>5 DEF WorkerLoop, Pool!Sleep, Pool!Take, Pool!Finish, Pool!history
  <2> QED
    BY <1>1, <1>5, <2>1, <2>2, ValuesKept DEF reduceVars, GatheredLate, Returned
<1>6. ASSUME NEW p \in PE, Astray(p) PROVE ValueInv'
  <2>1. ForkInv' /\ gathered = PE
    BY <1>1, <1>6, WorkerPreserves DEF Astray
  <2>2. ReduceTypes'
    BY <1>6, SrcAssumption DEF Astray, ValueInv, ReduceTypes, Index
  <2> QED
    BY <1>1, <1>6, <2>1, <2>2, GatheredAll DEF Astray, GatheredLate, Pool!Complete
<1>7. CASE Spurious /\ UNCHANGED reduceVars
  <2>1. ForkInv'
    BY <1>1, <1>7, CallerPreserves, WorkerPreserves DEF Spurious
  <2>2. UNCHANGED <<main, missed, finished>>
    BY <1>7 DEF Spurious, Pool!SpuriousClientWake, Pool!SpuriousWorkerWake, Pool!history
  <2> QED
    BY <1>1, <1>7, <2>1, <2>2, ValuesKept DEF reduceVars, GatheredLate, Returned
<1>8. CASE UNCHANGED vars
  <2>1. ForkInv'
    BY <1>1, <1>8, ForkKept DEF vars
  <2> QED
    BY <1>1, <1>8, <2>1, ValuesKept DEF vars, forkVars, poolVars, reduceVars, GatheredLate, Returned
<1> QED
  BY <1>2, <1>3, <1>4, <1>5, <1>6, <1>7, <1>8, GatherKeepsValues, AddElementKeepsValues,
    StoreKeepsValues DEF Next, Caller, Worker

LEMMA ValueInvariant == Spec => []ValueInv
BY ValueInvInit, ValueInvStep, PTL DEF Spec

\* The result is made of the partial sums of the tasks that had stored when the
\* caller looked, and for the others of what dest held before: every element is
\* counted once, and no task disturbs another, in place or not.
THEOREM ResultExplained == Spec => []GatherExplained
<1>1. ValueInv => GatherExplained
  BY DEF ValueInv
<1> QED
  BY <1>1, ValueInvariant, PTL

\* Type correctness of the reduction.
THEOREM ReduceTypesCorrect == Spec => []TypeOK
<1>1. ReduceInv /\ ValueInv => TypeOK
  <2> SUFFICES ASSUME ReduceInv, ValueInv PROVE TypeOK
    OBVIOUS
  <2>1. ForkTypeOK
    BY ForkTypes DEF ReduceInv
  <2>2. gathered \subseteq PE /\ seen \subseteq PE /\ stray \subseteq PE
    BY DEF ReduceInv, GatheredLate, ValueInv, GatherOrder, StrayWasMissed, ForkInv
  <2> QED
    BY <2>1, <2>2 DEF ValueInv, ReduceTypes, TypeOK
<1> QED
  BY <1>1, ReduceInvariant, ValueInvariant, PTL

----------------------------------------------------------------------------
(* Fewer elements than PEs *)

Last == Num - 1

\* What the last task has summed: it may have found its first element already
\* overwritten, if the reduction is in place.
LastSums(n) ==
    {SumOf(0 .. n - 1)}
        \cup IF inPlace /\ n > 0 THEN {SumOf(0 .. n - 1) - SrcAt(0)} ELSE {}

\* With fewer elements than PEs, as long as the caller reads and has found each
\* task to have stored: everything goes through dest[0].
SmallInv ==
    nelems < Num /\ seen = gathered /\ gathered # PE =>
        /\ \A i \in Index \ {0} : dest[i] = InitialDest(i)
        /\ \A p \in PE \ {Last} : sum[p] = 0
        /\ sum[Last] \in LastSums(next[Last])
        /\ Last \notin finished =>
              /\ final = 0
              /\ dest[0] = IF finished = {} THEN InitialDest(0) ELSE 0
        /\ Last \in finished =>
              /\ next[Last] = nelems /\ dest[0] \in {0, sum[Last]}
              /\ \E k \in 0 .. Cardinality(gathered) : final = k * sum[Last]

SmallValueInv == ValueInv /\ SmallInv /\ SmallExplained

LEMMA SmallFacts ==
    ASSUME ValueInv, nelems < Num
    PROVE  /\ nelems \in Nat \ {0} /\ 0 \in Index
           /\ Last \in PE /\ \A p \in PE : Start(p) = 0 /\ End(p) = IF p = Last THEN nelems ELSE 0
           /\ Total = SumOf(0 .. nelems - 1) /\ Total \in Int /\ SrcAt(0) \in Int
           /\ dest[0] \in Int /\ \A p \in PE : sum[p] \in Int /\ next[p] \in 0 .. nelems
<1>1. nelems \in Nat \ {0} /\ 0 \in Index /\ nelems \in Sizes
  BY TypeFacts DEF ValueInv, ReduceTypes, Index
<1>2. Last \in PE /\ \A p \in PE : Start(p) = 0 /\ End(p) = IF p = Last THEN nelems ELSE 0
  BY <1>1, Parts, NumAssumption DEF Last, PE
<1>3. Total = SumOf(0 .. nelems - 1) /\ Total \in Int /\ SrcAt(0) \in Int
  BY <1>1, TypeFacts, SumOfFacts DEF Total, Index
<1> QED
  BY <1>1, <1>2, <1>3 DEF ValueInv, ReduceTypes

LEMMA SmallInit == Init => SmallValueInv
<1> SUFFICES ASSUME Init PROVE SmallValueInv
  OBVIOUS
<1>1. ValueInv
  BY ValueInvInit
<1>2. gathered = {} /\ gathered # PE /\ finished = {} /\ \A p \in PE : sum[p] = 0 /\ next[p] = Start(p)
  BY SamePEs DEF Init, ForkInit, Pool!Init
<1>3. SmallInv
  <2> SUFFICES ASSUME nelems < Num PROVE SmallInv
    BY DEF SmallInv
  <2>1. sum[Last] = 0 /\ next[Last] = 0
    BY <1>1, <1>2, SmallFacts
  <2>2. SumOf(0 .. 0 - 1) = 0
    <3>1. 0 .. 0 - 1 = {}
      OBVIOUS
    <3> QED
      BY <1>1, <3>1, SumOfFacts DEF ValueInv, ReduceTypes
  <2>3. sum[Last] \in LastSums(next[Last])
    BY <2>1, <2>2 DEF LastSums
  <2>4. \A i \in Index : dest[i] = InitialDest(i)
    BY DEF Init
  <2> QED
    BY <1>1, <1>2, <2>3, <2>4, SmallFacts DEF SmallInv, Init
<1> QED
  BY <1>1, <1>2, <1>3 DEF SmallValueInv, SmallExplained, AllGathered

LEMMA SmallKept ==
    ASSUME SmallValueInv, ValueInv',
           UNCHANGED <<nelems, inPlace, final, gathered, seen>>,
           gathered = PE \/ UNCHANGED <<dest, sum, next, finished>>
    PROVE  SmallValueInv'
<1>1. Total' = Total
  BY DEF Total, SumOf, Index
<1>2. SmallExplained'
  BY <1>1 DEF SmallValueInv, SmallExplained, AllGathered
<1>3. SmallInv'
  <2>1. CASE gathered = PE
    BY <2>1 DEF SmallInv
  <2>2. CASE UNCHANGED <<dest, sum, next, finished>>
    BY <2>2 DEF SmallValueInv, SmallInv, LastSums, SumOf, Index, InitialDest
  <2> QED
    BY <2>1, <2>2
<1> QED
  BY <1>2, <1>3 DEF SmallValueInv

LEMMA AddElementKeepsSmall ==
    ASSUME SmallValueInv, NEW p \in PE, AddElement(p)
    PROVE  SmallValueInv'
<1>1. ValueInv /\ ValueInv' /\ worker[p] = "running" /\ p \notin finished
  BY AddElementKeepsValues, RunningFacts DEF SmallValueInv, AddElement, Running
<1>2. /\ UNCHANGED <<nelems, inPlace, dest, final, gathered, filled, seen, finished, main>>
      /\ next[p] < End(p)
      /\ sum' = [sum EXCEPT ![p] = @ + Source(next[p])]
      /\ next' = [next EXCEPT ![p] = @ + 1]
  BY DEF AddElement, forkVars, poolVars
<1> SUFFICES ASSUME nelems < Num, seen = gathered, gathered # PE PROVE SmallValueInv'
  <2>1. Total' = Total
    BY <1>2 DEF Total, SumOf, Index
  <2>2. SmallExplained'
    BY <1>2, <2>1 DEF SmallValueInv, SmallExplained, AllGathered
  <2> QED
    BY <1>1, <1>2, <2>2 DEF SmallValueInv, SmallInv
<1>3. p = Last /\ next[p] \in 0 .. nelems - 1 /\ next[p] \in Index /\ Last \in PE /\ 0 \in Index
  <2>1. p = Last
    BY <1>1, <1>2, SmallFacts
  <2> QED
    BY <1>1, <1>2, <2>1, SmallFacts DEF Index
<1>4. sum'[Last] = sum[Last] + Source(next[Last]) /\ next'[Last] = next[Last] + 1
      /\ \A q \in PE \ {Last} : sum'[q] = sum[q]
  BY <1>1, <1>2, <1>3 DEF ValueInv, ReduceTypes
<1>5. sum'[Last] \in LastSums(next'[Last])
  <2> PICK n \in Index : n = next[Last] /\ n \in Nat
    BY <1>1, <1>3, SmallFacts
  <2> DEFINE A == SumOf(0 .. n - 1)
             B == SumOf(0 .. (n + 1) - 1)
  <2>1. B = A + SrcAt(n) /\ A \in Int /\ SrcAt(n) \in Int /\ SrcAt(0) \in Int
    <3>1. (n + 1) - 1 = n /\ 0 .. n - 1 \in SUBSET Index
      BY <1>1, SmallFacts DEF Index
    <3>2. SumOf(0 .. n) = A + SrcAt(n)
      BY <1>1, SumOfFacts DEF ValueInv, ReduceTypes
    <3>3. A \in Int /\ SrcAt(n) \in Int /\ SrcAt(0) \in Int
      BY <1>1, <1>3, <3>1, SumOfFacts, TypeFacts DEF ValueInv, ReduceTypes
    <3> QED
      BY <3>1, <3>2, <3>3
  <2>2. n = 0 => A = 0
    <3>1. 0 .. 0 - 1 = {}
      OBVIOUS
    <3> QED
      BY <1>1, <3>1, SumOfFacts DEF ValueInv, ReduceTypes
  <2>3. sum[Last] \in LastSums(n)
    BY DEF SmallValueInv, SmallInv
  <2>4. sum[Last] = A \/ (inPlace /\ n > 0 /\ sum[Last] = A - SrcAt(0))
    BY <2>3 DEF LastSums
  <2>5. sum'[Last] = B \/ (inPlace /\ sum'[Last] = B - SrcAt(0))
    <3>1. CASE n > 0
      <4>1. Source(n) = SrcAt(n)
        BY <3>1 DEF SmallValueInv, SmallInv, Source, InitialDest
      <4> HIDE DEF A, B
      <4> QED
        BY <1>4, <2>1, <2>4, <4>1
    <3>2. CASE n = 0
      <4>1. Source(0) = SrcAt(0) \/ (inPlace /\ Source(0) = 0)
        BY <1>1, <1>3 DEF SmallValueInv, SmallInv, Source, InitialDest
      <4>2. sum[Last] = 0 /\ B = SrcAt(0)
        <5> HIDE DEF A, B
        <5> QED BY <2>1, <2>2, <2>4, <3>2
      <4> HIDE DEF A, B
      <4> QED
        BY <1>4, <2>1, <3>2, <4>1, <4>2
    <3> QED
      BY <3>1, <3>2
  <2>6. LastSums(n + 1) = {B} \cup IF inPlace THEN {B - SrcAt(0)} ELSE {}
    BY DEF LastSums
  <2> HIDE DEF A, B
  <2> QED
    BY <1>4, <2>5, <2>6
<1>6. \A n : LastSums(n)' = LastSums(n)
  BY <1>2 DEF LastSums, SumOf, Index
<1>7. SmallInv'
  BY <1>1, <1>2, <1>3, <1>4, <1>5, <1>6 DEF SmallValueInv, SmallInv, Index, InitialDest
<1> QED
  BY <1>1, <1>2, <1>7 DEF SmallValueInv, SmallExplained, AllGathered

LEMMA StoreKeepsSmall ==
    ASSUME SmallValueInv, NEW p \in PE, Store(p)
    PROVE  SmallValueInv'
<1>1. ValueInv /\ ValueInv' /\ worker[p] = "running" /\ p \notin finished
  BY StoreKeepsValues, RunningFacts DEF SmallValueInv, Store, Running
<1>2. /\ UNCHANGED <<nelems, inPlace, sum, next, final, gathered, filled, seen, main>>
      /\ next[p] >= End(p)
      /\ dest' = [dest EXCEPT ![Start(p)] = sum[p]]
      /\ finished' = finished \cup {p}
  BY <1>1, RunningFacts DEF Store, Pool!Complete
<1>3. SmallExplained'
  <2>1. Total' = Total
    BY <1>2 DEF Total, SumOf, Index
  <2> QED
    BY <1>2, <2>1 DEF SmallValueInv, SmallExplained, AllGathered
<1>4. ASSUME nelems < Num, seen = gathered, gathered # PE PROVE SmallInv'
  <2>1. /\ dest'[0] = sum[p] /\ \A i \in Index \ {0} : dest'[i] = dest[i]
        /\ Last \in PE /\ 0 \in Index
    BY <1>1, <1>2, <1>4, SmallFacts DEF ValueInv, ReduceTypes
  <2>2. \A n : LastSums(n)' = LastSums(n)
    BY <1>2 DEF LastSums, SumOf, Index
  <2>3. CASE p = Last
    <3>1. next[Last] = nelems /\ Last \notin finished /\ Last \in finished' /\ final = 0
      BY <1>1, <1>2, <1>4, <2>3, SmallFacts DEF SmallValueInv, SmallInv
    <3>2. \E k \in 0 .. Cardinality(gathered) : final = k * sum[Last]
      <4>1. 0 \in 0 .. Cardinality(gathered)
        BY <1>1, NextGathered, FS_CardinalityType, <1>4 DEF ValueInv, GatheredLate
      <4>2. 0 * sum[Last] = 0
        BY <1>1, <1>4, <2>1, SmallFacts
      <4> QED
        BY <3>1, <4>1, <4>2
    <3> QED
      BY <1>2, <1>4, <2>1, <2>2, <2>3, <3>1, <3>2 DEF SmallValueInv, SmallInv, Index, InitialDest
  <2>4. CASE p # Last
    <3>1. sum[p] = 0 /\ (Last \in finished' <=> Last \in finished) /\ finished' # {}
      BY <1>2, <1>4, <2>4 DEF SmallValueInv, SmallInv
    <3> QED
      BY <1>2, <1>4, <2>1, <2>2, <3>1 DEF SmallValueInv, SmallInv, Index, InitialDest
  <2> QED
    BY <2>3, <2>4
<1>5. SmallInv'
  BY <1>2, <1>4 DEF SmallInv
<1> QED
  BY <1>1, <1>3, <1>5 DEF SmallValueInv

LEMMA GatherKeepsSmall ==
    ASSUME SmallValueInv, Gather
    PROVE  SmallValueInv'
<1>1. ValueInv /\ ValueInv' /\ gathered \subseteq PE /\ gathered # PE
  BY GatherKeepsValues DEF SmallValueInv, Gather, ValueInv, GatheredLate
<1> PICK c \in PE : c = Cardinality(gathered)
  BY <1>1, NextGathered
<1>2. /\ UNCHANGED <<nelems, inPlace, dest, sum, next, filled, finished, main>>
      /\ final' = final + dest[Start(c)]
      /\ gathered' = gathered \cup {c}
      /\ seen' = IF c \in finished THEN seen \cup {c} ELSE seen
  BY DEF Gather, forkVars, poolVars
<1>3. c \in Nat /\ c + 1 <= Num /\ c \notin gathered /\ c \notin seen /\ seen \subseteq finished
      /\ seen' \subseteq finished'
  BY <1>1, NumAssumption DEF ValueInv, GatherOrder, PE
<1>4. Cardinality(gathered') = c + 1
  BY <1>1, <1>2, <1>3, NextGathered, FS_AddElement
<1>5. CASE ~(nelems < Num /\ seen' = gathered')
  <2>1. Total' = Total
    BY <1>2 DEF Total, SumOf, Index
  <2>2. SmallExplained'
    BY <1>2, <1>5 DEF SmallExplained, AllGathered
  <2> QED
    BY <1>1, <1>2, <1>5, <2>2 DEF SmallValueInv, SmallInv
<1>6. CASE nelems < Num /\ seen' = gathered'
  <2>1. seen = gathered /\ c \in finished
    BY <1>2, <1>3, <1>6
  <2>2. /\ final' = final + dest[0] /\ Last \in PE /\ sum[Last] \in Int
        /\ sum[Last] \in LastSums(next[Last])
    BY <1>1, <1>2, <1>6, <2>1, SmallFacts DEF SmallValueInv, SmallInv
  <2>3. Last \notin finished => final' = 0
    BY <1>1, <1>6, <2>1, <2>2 DEF SmallValueInv, SmallInv
  <2>4. ASSUME Last \in finished
        PROVE  /\ next[Last] = nelems /\ dest[0] \in {0, sum[Last]}
               /\ \E k \in 0 .. c + 1 : final' = k * sum[Last]
    <3>1. /\ next[Last] = nelems /\ dest[0] \in {0, sum[Last]}
          /\ \E k \in 0 .. c : final = k * sum[Last]
      BY <1>1, <1>6, <2>1, <2>4 DEF SmallValueInv, SmallInv
    <3> PICK k \in 0 .. c : final = k * sum[Last]
      BY <3>1
    <3> PICK s \in Int : s = sum[Last]
      BY <2>2
    <3>2. k * s + 0 = k * s /\ k * s + s = (k + 1) * s /\ k \in 0 .. c + 1 /\ k + 1 \in 0 .. c + 1
      BY <1>3
    <3>3. final' = k * s \/ final' = (k + 1) * s
      BY <2>2, <3>1, <3>2
    <3> QED
      BY <3>1, <3>2, <3>3
  <2>5. \A n : LastSums(n)' = LastSums(n)
    BY <1>2 DEF LastSums, SumOf, Index
  <2>6. SmallInv'
    BY <1>1, <1>2, <1>4, <1>6, <2>1, <2>2, <2>3, <2>4, <2>5
    DEF SmallValueInv, SmallInv, Index, InitialDest
  <2>7. ASSUME gathered' = PE
        PROVE  \E k \in 0 .. Num : final' \in {k * Total}
                  \cup IF inPlace THEN {k * (Total - SrcAt(0))} ELSE {}
    <3>1. Last \in finished
      BY <1>2, <1>3, <1>6, <2>2, <2>7
    <3>2. sum[Last] \in {Total} \cup IF inPlace THEN {Total - SrcAt(0)} ELSE {}
      BY <1>1, <1>6, <2>2, <2>4, <3>1, SmallFacts DEF LastSums
    <3>3. PICK k \in 0 .. c + 1 : final' = k * sum[Last]
      BY <2>4, <3>1
    <3>4. k \in 0 .. Num
      BY <1>3, NumAssumption
    <3> QED
      BY <3>2, <3>3, <3>4
  <2>8. SmallExplained'
    <3>1. Total' = Total
      BY <1>2 DEF Total, SumOf, Index
    <3> QED
      BY <1>2, <2>7, <3>1 DEF SmallExplained, AllGathered
  <2> QED
    BY <1>1, <2>6, <2>8 DEF SmallValueInv
<1> QED
  BY <1>5, <1>6

LEMMA SmallStep == SmallValueInv /\ [Next]_vars => SmallValueInv'
<1> SUFFICES ASSUME SmallValueInv, [Next]_vars PROVE SmallValueInv'
  OBVIOUS
<1>1. ValueInv /\ ValueInv' /\ ForkInv
  BY ValueInvStep DEF SmallValueInv, ValueInv
<1>2. CASE (CallerStep \/ Spurious) /\ UNCHANGED reduceVars
  <2>1. UNCHANGED finished
    BY <1>2 DEF CallerStep, Spurious, Submit, Join, JoinBlock, JoinReturn, Pool!AddWork,
      Pool!RefuseWork, Pool!WaitCall, Pool!WaitBlock, Pool!WaitReturn, Pool!SpuriousClientWake,
      Pool!SpuriousWorkerWake, Pool!poolVars, Pool!history
  <2> QED
    BY <1>1, <1>2, <2>1, SmallKept DEF reduceVars
<1>3. CASE Fill
  BY <1>1, <1>3, SmallKept DEF Fill
<1>4. CASE Return
  BY <1>1, <1>4, SmallKept DEF Return, reduceVars, poolVars
<1>5. ASSUME NEW p \in PE, WorkerLoop(p), UNCHANGED reduceVars PROVE SmallValueInv'
  <2>1. UNCHANGED finished
    BY <1>5 DEF WorkerLoop, Pool!Sleep, Pool!Take, Pool!Finish, Pool!history
  <2> QED
    BY <1>1, <1>5, <2>1, SmallKept DEF reduceVars
<1>6. ASSUME NEW p \in PE, Astray(p) PROVE SmallValueInv'
  <2>1. gathered = PE
    BY <1>1, <1>6 DEF Astray, ValueInv, GatherOrder
  <2> QED
    BY <1>1, <1>6, <2>1, SmallKept DEF Astray
<1>7. CASE UNCHANGED vars
  BY <1>1, <1>7, SmallKept DEF vars, forkVars, poolVars, reduceVars
<1> QED
  BY <1>2, <1>3, <1>4, <1>5, <1>6, <1>7, GatherKeepsSmall, AddElementKeepsSmall,
    StoreKeepsSmall DEF Next, Caller, Worker

\* With fewer elements than PEs the result is a multiple of the sum, or in place
\* of the sum without the first element.
THEOREM FewElementsExplained == Spec => []SmallExplained
<1>1. SmallValueInv => SmallExplained
  BY DEF SmallValueInv
<1> QED
  BY <1>1, SmallInit, SmallStep, PTL DEF Spec

\* What the result of a reduction is made of, for any number of PEs and elements.
THEOREM SumIsExplained == Spec => []SumExplained
<1>1. GatherExplained /\ SmallExplained => SumExplained
  BY DEF SumExplained
<1> QED
  BY <1>1, ResultExplained, FewElementsExplained, PTL

----------------------------------------------------------------------------
(* The broadcasts *)

\* In the tree form the pool is not used.
TreeIdle ==
    form = "tree" =>
        /\ main.at \in {"submit", "done"}
        /\ \A p \in PE : submitted[p] = <<>> /\ args[p] # "live"

\* Arguments are live from the allocation to the end of the task.
ArgsLive ==
    \A p \in PE : args[p] = "live" <=> p \in refused \/ (submitted[p] # <<>> /\ p \notin finished)

\* What was refused has not been accepted.
RefusedApart == refused \subseteq PE /\ finished \subseteq PE /\ \A p \in refused : submitted[p] = <<>>

ArgsInv ==
    /\ ForkInv
    /\ args \in [PE -> {"none", "live", "freed"}]
    /\ TreeIdle /\ ArgsLive /\ RefusedApart

\* dest is overwritten by the first task that ends, unless no task copies; a
\* late value is that of a task the waits missed; the tree's buffer keeps what
\* it was loaded with, and dest gets that in the end.
TargetInv ==
    /\ target = "reused" => missed \cap finished # {}
    /\ form # "tree" /\ target = "stale" => (form = "longlong" /\ root # 0) \/ finished = {}
    /\ form = "tree" =>
          /\ target # "reused"
          /\ Returned => (target = "value" <=> root = 0)
          /\ ~Returned => buffer \in {"none", IF root = 0 THEN "value" ELSE "unset"}

\* The caller may reuse src once the call has returned.
BroadcastInv ==
    /\ ArgsInv
    /\ src \in {"value", "reused"} /\ (src = "reused" => Returned)
    /\ TargetInv

LEMMA BroadcastInvInit == BroadcastInit => BroadcastInv
<1> SUFFICES ASSUME BroadcastInit PROVE BroadcastInv
  OBVIOUS
<1>1. ForkInv
  BY ForkInvInit DEF BroadcastInit
<1>2. /\ \A p \in PE : submitted[p] = <<>> /\ args[p] = "none"
      /\ refused = {} /\ finished = {} /\ main.at = "submit"
  BY DEF BroadcastInit, ForkInit, Pool!Init, PE, Pool!PE, Pool!NPES
<1> QED
  BY <1>1, <1>2
  DEF BroadcastInit, BroadcastInv, ArgsInv, TreeIdle, ArgsLive, RefusedApart, TargetInv, Returned

LEMMA AcceptedSet == ForkInv => Pool!Accepted = {p \in PE : submitted[p] # <<>>}
<1> SUFFICES ASSUME ForkInv PROVE Pool!Accepted = {p \in PE : submitted[p] # <<>>}
  OBVIOUS
<1>1. \A p \in PE : submitted[p] = <<>> \/ submitted[p] = <<p>>
  BY DEF ForkInv, Placed, NotAccepted, InQueue, InHand, Ended
<1>2. Pool!Range(<<>>) = {} /\ \A p \in PE : Pool!Range(<<p>>) = {p}
  BY DEF Pool!Range
<1>3. \A p \in PE : Pool!Range(submitted[p]) = IF submitted[p] # <<>> THEN {p} ELSE {}
  BY <1>1, <1>2
<1>4. Pool!Accepted = UNION {Pool!Range(submitted[p]) : p \in PE}
  BY SamePEs DEF Pool!Accepted
<1>5. ASSUME NEW q PROVE q \in Pool!Accepted <=> q \in PE /\ submitted[q] # <<>>
  <2>1. q \in Pool!Accepted <=> \E p \in PE : q \in Pool!Range(submitted[p])
    BY <1>4
  <2> QED
    BY <1>3, <2>1
<1> QED
  BY <1>5

LEMMA ArgsOwnedFollows == ArgsInv => ArgsOwned
BY AcceptedSet DEF ArgsInv, ArgsLive, RefusedApart, ArgsOwned

\* Steps that leave the arguments alone.
LEMMA ArgsKept ==
    ASSUME ArgsInv, ForkInv', UNCHANGED <<form, args, refused, submitted, finished>>,
           form = "tree" => main'.at \in {"submit", "done"}
    PROVE  ArgsInv'
BY DEF ArgsInv, TreeIdle, ArgsLive, RefusedApart

LEMMA SubmitKeepsArgs ==
    ASSUME ArgsInv, SubmitCopy
    PROVE  ArgsInv'
<1>1. ForkInv' /\ ForkInv
  BY CallerPreserves DEF SubmitCopy, CallerStep, ArgsInv
<1> PICK e \in PE : e = main.pe
  BY <1>1 DEF ForkInv
<1>2. /\ form # "tree" /\ form' = form
      /\ args' = [args EXCEPT ![e] = "live"]
      /\ Pool!AddWork(Main, e, e) \/ Pool!RefuseWork(Main, e, e)
  BY DEF SubmitCopy, Submit, input
<1>3. e \notin refused /\ submitted[e] = <<>> /\ e \notin finished
  <2>1. e \notin Pool!Accepted /\ e \notin refused
    BY <1>2 DEF Pool!AddWork, Pool!RefuseWork, Pool!Fresh
  <2>2. submitted[e] = <<>>
    BY <1>1, <2>1, AcceptedSet
  <2> QED
    BY <1>1, <2>1, <2>2 DEF ForkInv, Placed, NotAccepted, InQueue, InHand, Ended
<1>4. /\ finished' = finished
      /\ \/ /\ submitted' = [submitted EXCEPT ![e] = Append(@, e)]
            /\ refused' = refused
         \/ submitted' = submitted /\ refused' = refused \cup {e}
  BY <1>2 DEF Pool!AddWork, Pool!RefuseWork, Pool!poolVars
<1>5. /\ submitted \in [PE -> Seq(PE)]
      /\ \A q \in PE : submitted'[q] # <<>> <=> submitted[q] # <<>> \/ (q = e /\ e \notin refused')
  <2>1. submitted \in [PE -> Seq(PE)]
    BY <1>1, PoolFacts DEF ForkInv
  <2>2. Append(<<>>, e) # <<>>
    OBVIOUS
  <2> QED
    BY <1>3, <1>4, <2>1, <2>2
<1>6. ArgsLive' /\ RefusedApart'
  BY <1>2, <1>3, <1>4, <1>5 DEF ArgsInv, ArgsLive, RefusedApart
<1> QED
  BY <1>1, <1>2, <1>6 DEF ArgsInv, TreeIdle

LEMMA CopyKeepsArgs ==
    ASSUME ArgsInv, NEW p \in PE, Copy(p)
    PROVE  ArgsInv' /\ form # "tree"
<1>1. ForkInv' /\ ForkInv
  BY WorkerPreserves DEF Copy, ArgsInv
<1>2. worker[p] = "running" /\ InHand(p)
  BY <1>1 DEF Copy, ForkInv, Placed, NotAccepted, InQueue, Ended
<1>3. /\ args' = [args EXCEPT ![p] = "freed"]
      /\ finished' = finished \cup {p}
      /\ UNCHANGED <<form, main, submitted, refused>>
  BY <1>2 DEF Copy, Released, Pool!Complete, InHand, input
<1>4. submitted[p] # <<>> /\ form # "tree" /\ p \notin refused
  BY <1>2 DEF InHand, ArgsInv, TreeIdle, RefusedApart
<1> QED
  BY <1>1, <1>3, <1>4 DEF ArgsInv, TreeIdle, ArgsLive, RefusedApart

\* The tree's caller returns; there is no task it could have missed.
LEMMA TreeReturnKeepsFork ==
    ASSUME ArgsInv, TreeReturn
    PROVE  ForkInv'
<1>1. ForkInv /\ form = "tree" /\ main' = [main EXCEPT !.at = "done"] /\ UNCHANGED <<missed, poolVars>>
  BY DEF TreeReturn, ArgsInv
<1>2. P!PoolInv'
  BY <1>1, PoolKept
<1>3. main' \in [at : MainState, pe : PE] /\ main'.at = "done"
  BY <1>1 DEF ForkInv, MainState
<1>4. \A p \in PE : NotAccepted(p)
  BY <1>1 DEF ArgsInv, TreeIdle, ForkInv, Placed, NotAccepted, InQueue, InHand, Ended
<1> QED
  BY <1>1, <1>2, <1>3, <1>4 DEF ForkInv, CallOn, Looked, Placed, NotAccepted, poolVars

\* Steps that end no task and leave dest and the tree's buffer alone.
LEMMA TargetKept ==
    ASSUME TargetInv, UNCHANGED <<form, root, target, finished, buffer>>,
           missed \subseteq missed', form = "tree" => (Returned' <=> Returned)
    PROVE  TargetInv'
BY DEF TargetInv

\* A task that ends stores src, which is still the value of the call, or the
\* task was missed.
LEMMA CopyKeepsTarget ==
    ASSUME BroadcastInv, NEW p \in PE, Copy(p)
    PROVE  TargetInv'
<1>1. /\ UNCHANGED <<form, root, src, main, missed>>
      /\ target' = IF form = "longlong" => root = 0 THEN src ELSE target
      /\ finished' = finished \cup {unit[p]}
  BY DEF Copy, Copies, MyPE, input, Pool!Complete
<1>2. form # "tree" /\ worker[p] = "running" /\ ForkInv
  BY CopyKeepsArgs DEF BroadcastInv, ArgsInv, Copy
<1>3. src = "reused" => unit[p] \in missed \cap finished'
  BY <1>1, <1>2, LateWasMissed DEF BroadcastInv
<1>4. target' = "reused" => missed' \cap finished' # {}
  <2>1. CASE target' = src
    BY <1>1, <1>3, <2>1
  <2>2. CASE target' = target
    BY <1>1, <2>2 DEF BroadcastInv, TargetInv
  <2> QED
    BY <1>1, <2>1, <2>2
<1>5. target' = "stale" => form' = "longlong" /\ root' # 0
  BY <1>1 DEF BroadcastInv
<1> QED
  BY <1>1, <1>2, <1>4, <1>5 DEF TargetInv

LEMMA BroadcastInvStep == BroadcastInv /\ [BroadcastNext]_broadcastSystem => BroadcastInv'
<1> SUFFICES ASSUME BroadcastInv, [BroadcastNext]_broadcastSystem PROVE BroadcastInv'
  OBVIOUS
<1> USE DEF input, tree
<1>1. /\ ForkInv /\ ArgsInv /\ TargetInv
      /\ src \in {"value", "reused"} /\ (src = "reused" => Returned)
  BY DEF BroadcastInv, ArgsInv
<1>2. CASE SubmitCopy
  <2>1. ArgsInv'
    BY <1>1, <1>2, SubmitKeepsArgs
  <2>2. /\ UNCHANGED <<form, root, src, target, finished, buffer, missed>>
        /\ form # "tree" /\ ~Returned
    BY <1>2 DEF SubmitCopy, Submit, Pool!AddWork, Pool!RefuseWork, Pool!poolVars, Returned
  <2>3. TargetInv'
    BY <1>1, <2>2, TargetKept
  <2> QED
    BY <1>1, <2>1, <2>2, <2>3 DEF BroadcastInv
<1>3. CASE TreeStage \/ TreeLoad
  <2>1. /\ UNCHANGED <<forkVars, form, root, src, target, args>> /\ main.at = "submit"
        /\ buffer' \in {buffer, IF root = 0 THEN src ELSE "unset"}
    BY <1>3 DEF TreeStage, TreeLoad, PutInto, MyPE
  <2>2. ArgsInv'
    BY <1>1, <2>1, ForkKept, ArgsKept DEF forkVars, poolVars, ArgsInv, TreeIdle
  <2>3. UNCHANGED <<finished, missed, main>> /\ ~Returned /\ src = "value"
    BY <1>1, <2>1 DEF forkVars, poolVars, Returned
  <2>4. TargetInv'
    BY <1>1, <2>1, <2>3 DEF TargetInv, Returned
  <2> QED
    BY <1>1, <2>1, <2>2, <2>3, <2>4 DEF BroadcastInv
<1>4. CASE TreeReturn
  <2>1. /\ UNCHANGED <<form, root, src, args, refused, submitted, finished>>
        /\ form = "tree" /\ ~Returned
        /\ target' = buffer /\ buffer # "none"
        /\ main'.at = "done"
    BY <1>1, <1>4 DEF TreeReturn, Returned, poolVars, ForkInv
  <2>2. ArgsInv'
    BY <1>1, <1>4, <2>1, TreeReturnKeepsFork, ArgsKept
  <2>3. TargetInv'
    BY <1>1, <2>1 DEF TargetInv, Returned
  <2> QED
    BY <1>1, <2>1, <2>2, <2>3 DEF BroadcastInv
<1>5. CASE (Join \/ JoinBlock \/ JoinReturn) /\ UNCHANGED broadcastVars
  <2>1. ForkInv'
    BY <1>1, <1>5, CallerPreserves DEF CallerStep
  <2>2. /\ UNCHANGED <<form, root, src, target, args, refused, submitted, finished, buffer>>
        /\ form # "tree" /\ ~Returned /\ missed \subseteq missed'
    BY <1>1, <1>5 DEF broadcastVars, Join, JoinBlock, JoinReturn, Pool!WaitCall, Pool!WaitBlock,
      Pool!WaitReturn, Pool!history, ArgsInv, TreeIdle, Returned
  <2>3. ArgsInv' /\ TargetInv'
    BY <1>1, <2>1, <2>2, ArgsKept, TargetKept
  <2> QED
    BY <1>1, <2>2, <2>3 DEF BroadcastInv
<1>6. CASE BroadcastReturn
  <2>1. ForkInv'
    BY <1>1, <1>6, ReturnPreserves DEF BroadcastReturn
  <2>2. /\ UNCHANGED <<form, root, src, target, args, refused, submitted, finished, buffer, missed>>
        /\ form # "tree" /\ ~Returned
    BY <1>1, <1>6 DEF BroadcastReturn, broadcastVars, poolVars, ArgsInv, TreeIdle, Returned
  <2>3. ArgsInv' /\ TargetInv'
    BY <1>1, <2>1, <2>2, ArgsKept, TargetKept
  <2> QED
    BY <1>1, <2>2, <2>3 DEF BroadcastInv
<1>7. CASE Reuse
  <2>1. UNCHANGED <<forkVars, form, root, target, args, buffer>> /\ Returned /\ src' = "reused"
    BY <1>7 DEF Reuse
  <2>2. ArgsInv' /\ Returned'
    BY <1>1, <2>1, ForkKept, ArgsKept DEF forkVars, poolVars, Returned
  <2>3. TargetInv'
    BY <1>1, <2>1, <2>2, TargetKept DEF forkVars, poolVars
  <2> QED
    BY <2>1, <2>2, <2>3 DEF BroadcastInv
<1>8. ASSUME NEW p \in PE, Copy(p) PROVE BroadcastInv'
  <2>1. UNCHANGED <<src, main>>
    BY <1>8 DEF Copy
  <2>2. ArgsInv' /\ TargetInv'
    BY <1>1, <1>8, CopyKeepsArgs, CopyKeepsTarget
  <2> QED
    BY <1>1, <2>1, <2>2 DEF BroadcastInv, Returned
<1>9. ASSUME NEW p \in PE, WorkerLoop(p), UNCHANGED broadcastVars PROVE BroadcastInv'
  <2>1. ForkInv'
    BY <1>1, <1>9, WorkerPreserves DEF WorkerLoop
  <2>2. UNCHANGED <<form, root, src, target, args, refused, submitted, finished, main, missed, buffer>>
    BY <1>9 DEF broadcastVars, WorkerLoop, Pool!Sleep, Pool!Take, Pool!Finish, Pool!history
  <2>3. ArgsInv' /\ TargetInv'
    BY <1>1, <2>1, <2>2, ArgsKept, TargetKept DEF ArgsInv, TreeIdle, Returned
  <2> QED
    BY <1>1, <2>2, <2>3 DEF BroadcastInv, Returned
<1>10. CASE Spurious /\ UNCHANGED broadcastVars
  <2>1. ForkInv'
    BY <1>1, <1>10, CallerPreserves, WorkerPreserves DEF Spurious
  <2>2. UNCHANGED <<form, root, src, target, args, refused, submitted, finished, main, missed, buffer>>
    BY <1>10 DEF broadcastVars, Spurious, Pool!SpuriousClientWake, Pool!SpuriousWorkerWake, Pool!history
  <2>3. ArgsInv' /\ TargetInv'
    BY <1>1, <2>1, <2>2, ArgsKept, TargetKept DEF ArgsInv, TreeIdle, Returned
  <2> QED
    BY <1>1, <2>2, <2>3 DEF BroadcastInv, Returned
<1>11. CASE UNCHANGED broadcastSystem
  <2>1. UNCHANGED <<forkVars, form, root, src, target, args, buffer>>
    BY <1>11 DEF broadcastSystem, broadcastVars
  <2>2. ArgsInv' /\ TargetInv'
    BY <1>1, <2>1, ForkKept, ArgsKept, TargetKept DEF forkVars, poolVars, ArgsInv, TreeIdle, Returned
  <2> QED
    BY <1>1, <2>1, <2>2 DEF BroadcastInv, Returned, forkVars
<1> QED
  BY <1>2, <1>3, <1>4, <1>5, <1>6, <1>7, <1>8, <1>9, <1>10, <1>11
  DEF BroadcastNext, BroadcastCaller, BroadcastWorker

LEMMA BroadcastInvariant == BroadcastSpec => []BroadcastInv
BY BroadcastInvInit, BroadcastInvStep, PTL DEF BroadcastSpec

\* The arguments of a broadcast are live exactly while a task that will free
\* them is to come, and for ever if the task was refused.
THEOREM ArgumentsOwned == BroadcastSpec => []ArgsOwned
<1>1. BroadcastInv => ArgsOwned
  BY ArgsOwnedFollows DEF BroadcastInv
<1> QED
  BY <1>1, BroadcastInvariant, PTL

\* A dest that is stale after the call: the waits missed every task, as the
\* pool would otherwise have run one before the last of them returned.
LEMMA TargetFollows == BroadcastInv => TargetExplained
<1> SUFFICES ASSUME BroadcastInv PROVE TargetExplained
  OBVIOUS
<1>1. TargetInv /\ ForkInv
  BY DEF BroadcastInv, ArgsInv
<1>2. ASSUME Returned, form # "tree", target = "stale", ~(form = "longlong" /\ root # 0),
             NEW p \in Pool!Accepted
      PROVE  p \in missed
  <2>1. p \in PE /\ submitted[p] # <<>>
    BY <1>1, AcceptedSet
  <2>2. p \notin finished
    BY <1>1, <1>2 DEF TargetInv
  <2> QED
    BY <1>1, <1>2, <2>1, <2>2 DEF ForkInv, Looked, Past, Returned, NotAccepted
<1> QED
  BY <1>1, <1>2 DEF TargetInv, TargetExplained

\* What can be in dest after a broadcast, for every number of PEs and every root.
THEOREM DestExplained == BroadcastSpec => []TargetExplained
BY TargetFollows, BroadcastInvariant, PTL

----------------------------------------------------------------------------
(* Numbers *)

\* A property of numbers is given as the set T of those that have it.
LEMMA NumberInduction ==
    ASSUME NEW T, 0 \in T, \A k \in Nat : k \in T => k + 1 \in T
    PROVE  \A k \in Nat : k \in T
<1> DEFINE Others == Nat \ T
<1> SUFFICES ASSUME Others # {} PROVE FALSE
  OBVIOUS
<1>1. PICK x \in Others : \A y \in Others : x <= y
  BY LeastNumber
<1>2. x # 0 /\ x - 1 \in Nat
  OBVIOUS
<1>3. x - 1 \in Others
  OBVIOUS
<1> QED
  BY <1>1, <1>2, <1>3

----------------------------------------------------------------------------
(* Powers of two *)

\* 2^k is the number of sets of k elements.
LEMMA PowerSets == \A k \in Nat : 2 ^ k = Cardinality(SUBSET (1 .. k)) /\ IsFiniteSet(SUBSET (1 .. k))
<1> SUFFICES ASSUME NEW k \in Nat PROVE 2 ^ k = Cardinality(SUBSET (1 .. k)) /\ IsFiniteSet(SUBSET (1 .. k))
  OBVIOUS
<1>1. IsFiniteSet(1 .. k) /\ Cardinality(1 .. k) = k
  BY FS_Interval
<1>2. Cardinality(SUBSET (1 .. k)) = 2 ^ Cardinality(1 .. k) /\ IsFiniteSet(SUBSET (1 .. k))
  BY <1>1, FS_SUBSET
<1> QED
  BY <1>1, <1>2

\* So it doubles with k.
LEMMA PowerDoubles ==
    /\ 2 ^ 0 = 1
    /\ \A k \in Nat : 2 ^ (k + 1) = 2 * 2 ^ k /\ 2 ^ k \in Nat
<1>1. 2 ^ 0 = 1
  <2>1. 1 .. 0 = {} /\ SUBSET {} = {{}} /\ 0 \in Nat
    OBVIOUS
  <2> QED
    BY <2>1, PowerSets, FS_Singleton
<1>2. ASSUME NEW k \in Nat PROVE 2 ^ (k + 1) = 2 * 2 ^ k /\ 2 ^ k \in Nat
  <2> DEFINE S == 1 .. k
             A == SUBSET S
             B == {s \cup {k + 1} : s \in A}
             f == [s \in A |-> s \cup {k + 1}]
  <2>1. IsFiniteSet(A) /\ Cardinality(A) \in Nat /\ 2 ^ k = Cardinality(A)
    BY PowerSets, FS_CardinalityType
  <2>2. f \in Bijection(A, B)
    <3>1. f \in [A -> B] /\ \A t \in B : \E s \in A : f[s] = t
      OBVIOUS
    <3>2. ASSUME NEW s \in A, NEW t \in A, f[s] = f[t] PROVE s = t
      <4>1. k + 1 \notin s /\ k + 1 \notin t
        OBVIOUS
      <4>2. s \cup {k + 1} = t \cup {k + 1}
        BY <3>2
      <4> QED
        BY <4>1, <4>2
    <3> QED
      BY <3>1, <3>2 DEF Bijection, Injection, Surjection, IsInjective
  <2>3. IsFiniteSet(B) /\ Cardinality(B) = Cardinality(A)
    BY <2>1, <2>2, FS_Bijection DEF ExistsBijection
  <2>4. A \cap B = {} /\ SUBSET (1 .. k + 1) = A \cup B
    <3>1. A \cap B = {}
      <4>1. \A s \in A : k + 1 \notin s
        OBVIOUS
      <4>2. \A s \in B : k + 1 \in s
        OBVIOUS
      <4> QED
        BY <4>1, <4>2
    <3>2. 1 .. k + 1 = S \cup {k + 1}
      OBVIOUS
    <3>3. A \cup B \subseteq SUBSET (1 .. k + 1)
      BY <3>2
    <3>4. ASSUME NEW s \in SUBSET (1 .. k + 1) PROVE s \in A \cup B
      <4>1. CASE k + 1 \notin s
        BY <3>2, <4>1
      <4>2. CASE k + 1 \in s
        <5>1. s \ {k + 1} \in A /\ s = (s \ {k + 1}) \cup {k + 1}
          BY <3>2, <4>2
        <5> QED
          BY <5>1
      <4> QED
        BY <4>1, <4>2
    <3> QED
      BY <3>1, <3>3, <3>4
  <2> HIDE DEF A, B, f
  <2>5. Cardinality(A \cup B) = Cardinality(A) + Cardinality(B) - 0
    BY <2>1, <2>3, <2>4, FS_Union, FS_EmptySet
  <2>6. k + 1 \in Nat
    OBVIOUS
  <2>7. 2 ^ (k + 1) = Cardinality(A \cup B)
    BY <2>4, <2>6, PowerSets
  <2> QED
    BY <2>1, <2>3, <2>5, <2>7
<1> QED
  BY <1>1, <1>2

LEMMA PowersOfTwo ==
    /\ 2 ^ 0 = 1
    /\ \A k \in Nat : 2 ^ (k + 1) = 2 * 2 ^ k /\ 2 ^ k \in Nat /\ 2 ^ k >= 1
<1> DEFINE T == {k \in Nat : 2 ^ k >= 1}
<1>1. 0 \in T
  BY PowerDoubles
<1>2. ASSUME NEW k \in Nat, k \in T PROVE k + 1 \in T
  <2>1. 2 ^ (k + 1) = 2 * 2 ^ k /\ 2 ^ k \in Nat /\ 2 ^ k >= 1
    BY <1>2, PowerDoubles
  <2> QED
    BY <2>1
<1>3. \A k \in Nat : k \in T
  <2> HIDE DEF T
  <2> QED
    BY <1>1, <1>2, NumberInduction
<1> QED
  BY <1>3, PowerDoubles

\* A number is less than its power of two, and a power divides the later ones.
LEMMA PowerAbove == \A k \in Nat : k < 2 ^ k
<1> DEFINE T == {k \in Nat : k < 2 ^ k}
<1>1. 0 \in T
  BY PowersOfTwo
<1>2. ASSUME NEW k \in Nat, k \in T PROVE k + 1 \in T
  <2>1. 2 ^ (k + 1) = 2 * 2 ^ k /\ 2 ^ k \in Nat /\ k < 2 ^ k
    BY <1>2, PowersOfTwo
  <2> QED
    BY <2>1
<1> HIDE DEF T
<1>3. \A k \in Nat : k \in T
  BY <1>1, <1>2, NumberInduction
<1> QED
  BY <1>3 DEF T

LEMMA PowerDivides ==
    ASSUME NEW k \in Nat, NEW l \in Nat, k <= l
    PROVE  \E e \in Nat : e >= 1 /\ 2 ^ l = 2 ^ k * e
<1> DEFINE T == {j \in Nat : \E e \in Nat : e >= 1 /\ 2 ^ (k + j) = 2 ^ k * e}
           d == 2 ^ k
<1>1. d \in Nat
  BY PowersOfTwo
<1>2. 0 \in T
  <2>1. k + 0 = k /\ d = d * 1
    BY <1>1
  <2> QED
    BY <2>1
<1>3. ASSUME NEW j \in Nat, j \in T PROVE j + 1 \in T
  <2>1. PICK e \in Nat : e >= 1 /\ 2 ^ (k + j) = d * e
    BY <1>3
  <2>2. k + (j + 1) = (k + j) + 1 /\ k + j \in Nat
    OBVIOUS
  <2>3. 2 ^ (k + (j + 1)) = 2 * (d * e)
    BY <2>1, <2>2, PowersOfTwo
  <2>4. 2 * (d * e) = d * (2 * e)
    BY <1>1
  <2>5. 2 * e \in Nat /\ 2 * e >= 1 /\ 2 ^ (k + (j + 1)) = d * (2 * e) /\ j + 1 \in Nat
    BY <2>1, <2>3, <2>4
  <2> HIDE DEF d
  <2>6. \E f \in Nat : f >= 1 /\ 2 ^ (k + (j + 1)) = d * f
    BY <2>5
  <2> QED
    BY <2>5, <2>6 DEF d
<1> HIDE DEF T
<1>4. l - k \in T
  <2>1. l - k \in Nat
    OBVIOUS
  <2> QED
    BY <1>2, <1>3, <2>1, NumberInduction
<1>5. k + (l - k) = l
  OBVIOUS
<1> QED
  BY <1>4, <1>5 DEF T

\* A number with remainder 0 is a multiple.
LEMMA Multiple ==
    ASSUME NEW m \in Nat, NEW d \in Nat, d > 0
    PROVE  m % d = 0 <=> \E c \in Nat : m = d * c
<1> DEFINE q == m \div d
           r == m % d
<1>1. q \in Nat /\ r \in 0 .. d - 1 /\ m = d * q + r
  OBVIOUS
<1> HIDE DEF q, r
<1>2. ASSUME r = 0 PROVE \E c \in Nat : m = d * c
  <2>1. m = d * q
    BY <1>1, <1>2
  <2> QED
    BY <1>1, <2>1
<1>3. ASSUME NEW c \in Nat, m = d * c PROVE r = 0
  <2>1. d * (c - q) = r
    BY <1>1, <1>3
  <2>2. ~(c >= q + 1)
    <3> SUFFICES ASSUME c >= q + 1 PROVE FALSE
      OBVIOUS
    <3>1. PICK e \in Nat : c - q = 1 + e
      BY <1>1
    <3>2. d * (1 + e) = d + d * e /\ d * e >= 0
      OBVIOUS
    <3> QED
      BY <1>1, <2>1, <3>1, <3>2
  <2>3. ~(q >= c + 1)
    <3> SUFFICES ASSUME q >= c + 1 PROVE FALSE
      OBVIOUS
    <3>1. PICK e \in Nat : q - c = 1 + e
      BY <1>1
    <3>2. d * (1 + e) = d + d * e /\ d * e >= 0
      OBVIOUS
    <3>3. d * (q - c) = 0 - r
      BY <1>1, <2>1
    <3> QED
      BY <1>1, <3>1, <3>2, <3>3
  <2>4. c = q /\ d * 0 = 0
    BY <1>1, <2>2, <2>3
  <2> QED
    BY <1>1, <2>1, <2>4
<1> QED
  BY <1>2, <1>3 DEF r

\* q is r with its lowest bit cleared, which is bit k.
Clears(r, q, k) == r = q + 2 ^ k /\ q % 2 ^ (k + 1) = 0

LEMMA LowestBit ==
    ASSUME NEW r \in Nat, NEW q \in Nat, NEW s \in Nat, NEW k \in Nat, NEW l \in Nat,
           Clears(r, q, k), Clears(r, s, l)
    PROVE  ~(k < l)
<1> SUFFICES ASSUME k < l PROVE FALSE
  OBVIOUS
<1> DEFINE d == 2 ^ k
<1>1. d \in Nat /\ d >= 1 /\ 2 ^ (k + 1) = 2 * d /\ 2 ^ (l + 1) = 2 * 2 ^ l /\ 2 ^ l \in Nat /\ 2 ^ l >= 1
  BY PowersOfTwo
<1>2. PICK e \in Nat : 2 ^ l = (2 * d) * e
  <2>1. k + 1 \in Nat /\ k + 1 <= l
    OBVIOUS
  <2> QED
    BY <1>1, <2>1, PowerDivides
<1>3. PICK g \in Nat : q = (2 * d) * g
  <2>1. 2 * d \in Nat /\ 2 * d > 0 /\ q % (2 * d) = 0
    BY <1>1 DEF Clears
  <2> HIDE DEF d
  <2> QED
    BY <2>1, Multiple
<1>4. PICK h \in Nat : s = (2 * 2 ^ l) * h
  <2> DEFINE c == 2 * 2 ^ l
  <2>1. c \in Nat /\ c > 0 /\ s % c = 0
    BY <1>1 DEF Clears
  <2> HIDE DEF c
  <2>2. \E f \in Nat : s = c * f
    BY <2>1, Multiple
  <2> QED
    BY <2>2 DEF c
<1> DEFINE x == e + 2 * (e * h)
           y == 2 * x - 2 * g - 1
<1>5. e * h \in Nat /\ x \in Nat /\ y \in Int /\ y # 0
  BY <1>2, <1>3, <1>4
<1>6. d * y = 0
  <2>1. q + d = s + 2 ^ l
    BY DEF Clears
  <2> HIDE DEF d
  <2>2. s + 2 ^ l = (2 * d) * x
    <3>1. s = (2 * ((2 * d) * e)) * h
      BY <1>2, <1>4
    <3>2. (2 * ((2 * d) * e)) * h + (2 * d) * e = (2 * d) * (e + 2 * (e * h))
      BY <1>1, <1>2, <1>4
    <3> QED
      BY <1>2, <3>1, <3>2
  <2>3. (2 * d) * g + d = (2 * d) * x
    BY <1>3, <2>1, <2>2
  <2> HIDE DEF x
  <2>4. d * (2 * x - 2 * g - 1) = (2 * d) * x - ((2 * d) * g + d)
    BY <1>1, <1>3, <1>5
  <2>5. (2 * d) * x \in Int
    BY <1>1, <1>5
  <2> QED
    BY <2>3, <2>4, <2>5
<1> HIDE DEF d, y
<1>7. CASE y >= 1
  <2>0. y - 1 \in Nat /\ y = 1 + (y - 1)
    BY <1>5, <1>7
  <2>1. PICK f \in Nat : y = 1 + f
    BY <2>0
  <2>2. d * (1 + f) = d + d * f /\ d * f >= 0
    BY <1>1
  <2> QED
    BY <1>1, <1>6, <2>1, <2>2
<1>8. CASE 0 - y >= 1
  <2>0. (0 - y) - 1 \in Nat /\ 0 - y = 1 + ((0 - y) - 1)
    BY <1>5, <1>8
  <2>1. PICK f \in Nat : 0 - y = 1 + f
    BY <2>0
  <2>2. d * (1 + f) = d + d * f /\ d * f >= 0
    BY <1>1
  <2>3. d * (0 - y) = 0
    BY <1>1, <1>5, <1>6
  <2> QED
    BY <1>1, <2>1, <2>2, <2>3
<1> QED
  BY <1>5, <1>7, <1>8

\* Every number but 0 has a lowest bit.
LEMMA HasLowestBit ==
    ASSUME NEW r \in Nat, r # 0
    PROVE  \E q \in 0 .. r - 1 : \E k \in 0 .. r : Clears(r, q, k)
<1> DEFINE Has(t) == \E q \in Nat : \E k \in Nat : Clears(t, q, k)
           Others == {t \in Nat : t # 0 /\ ~Has(t)}
<1>1. Others = {}
  <2> SUFFICES ASSUME Others # {} PROVE FALSE
    OBVIOUS
  <2>1. PICK t \in Others : \A u \in Others : t <= u
    BY LeastNumber
  <2>2. t \in Nat /\ t # 0 /\ ~Has(t)
    OBVIOUS
  <2>3. CASE t % 2 = 1
    <3>1. t - 1 \in Nat /\ (t - 1) % 2 = 0 /\ t = (t - 1) + 1
      BY <2>2, <2>3
    <3>2. 2 ^ 0 = 1 /\ 2 ^ (0 + 1) = 2 * 2 ^ 0
      BY PowersOfTwo
    <3>3. 2 ^ (0 + 1) = 2
      BY <3>2
    <3>4. Clears(t, t - 1, 0)
      BY <3>1, <3>2, <3>3 DEF Clears
    <3> QED
      BY <2>2, <3>1, <3>4
  <2>4. CASE t % 2 = 0
    <3> DEFINE u == t \div 2
    <3>1. u \in Nat /\ u # 0 /\ u < t /\ t = 2 * u
      BY <2>2, <2>4
    <3> HIDE DEF u
    <3>2. Has(u)
      BY <2>1, <2>2, <3>1
    <3>3. PICK q \in Nat, k \in Nat : Clears(u, q, k)
      BY <3>2
    <3> DEFINE d == 2 ^ (k + 1)
    <3>4. d \in Nat /\ d > 0 /\ 2 ^ (k + 1) = 2 * 2 ^ k /\ 2 ^ k \in Nat /\ 2 ^ ((k + 1) + 1) = 2 * d
      <4>1. k + 1 \in Nat
        OBVIOUS
      <4>2. d >= 1
        BY <4>1, PowersOfTwo
      <4> QED
        BY <4>1, <4>2, PowersOfTwo
    <3>5. PICK c \in Nat : q = d * c
      <4>1. q % d = 0
        BY <3>3 DEF Clears
      <4> HIDE DEF d
      <4> QED
        BY <3>4, <4>1, Multiple
    <3>6. 2 * q = (2 * d) * c
      <4> HIDE DEF d
      <4> QED
        BY <3>4, <3>5
    <3>7. (2 * q) % (2 * d) = 0
      <4> DEFINE e == 2 * d
                 p == 2 * q
      <4>1. e \in Nat /\ e > 0 /\ p \in Nat /\ p = e * c
        BY <3>4, <3>6
      <4> HIDE DEF e, p
      <4>2. p % e = 0
        BY <4>1, Multiple
      <4> QED
        BY <4>2 DEF e, p
    <3>8. t = 2 * q + 2 ^ (k + 1)
      <4>1. u = q + 2 ^ k
        BY <3>3 DEF Clears
      <4> QED
        BY <3>1, <3>4, <4>1
    <3>9. Clears(t, 2 * q, k + 1)
      BY <3>4, <3>7, <3>8 DEF Clears
    <3>10. 2 * q \in Nat /\ k + 1 \in Nat
      OBVIOUS
    <3> QED
      BY <2>2, <3>9, <3>10
  <2> QED
    BY <2>2, <2>3, <2>4
<1>2. PICK q \in Nat, k \in Nat : Clears(r, q, k)
  BY <1>1
<1>3. 2 ^ k \in Nat /\ 2 ^ k >= 1 /\ k < 2 ^ k /\ r = q + 2 ^ k
  BY <1>2, PowersOfTwo, PowerAbove DEF Clears
<1>4. q \in 0 .. r - 1 /\ k \in 0 .. r
  BY <1>3
<1> QED
  BY <1>2, <1>4

\* A place has one parent.
LEMMA ParentIs ==
    ASSUME NEW r \in Nat, r # 0, NEW q \in Nat
    PROVE  Parent(r) = q <=> \E k \in Nat : Clears(r, q, k)
<1> DEFINE S == {d \in 0 .. r - 1 : \E k \in 0 .. r : Clears(r, d, k)}
<1>1. PICK a \in 0 .. r - 1, b \in 0 .. r : Clears(r, a, b)
  BY HasLowestBit
<1>2. ASSUME NEW d \in Nat, NEW k \in Nat, Clears(r, d, k) PROVE d = a
  <2>1. a \in Nat /\ b \in Nat
    OBVIOUS
  <2>2. ~(k < b) /\ ~(b < k)
    BY <1>1, <1>2, <2>1, LowestBit
  <2>3. k = b
    BY <2>1, <2>2
  <2>4. r = d + 2 ^ b /\ r = a + 2 ^ b /\ 2 ^ b \in Nat
    BY <1>1, <1>2, <2>1, <2>3, PowersOfTwo DEF Clears
  <2> QED
    BY <2>4
<1>3. S = {a}
  <2>1. a \in S
    BY <1>1
  <2>2. ASSUME NEW d \in S PROVE d = a
    <3>1. d \in Nat /\ \E k \in Nat : Clears(r, d, k)
      OBVIOUS
    <3> QED
      BY <3>1, <1>2
  <2> QED
    BY <2>1, <2>2
<1>4. Parent(r) = Max(S)
  BY DEF Parent, Clears
<1> HIDE DEF S
<1>5. Max({a}) = a
  BY DEF Max
<1>6. Parent(r) = a
  BY <1>3, <1>4, <1>5
<1>7. a \in Nat /\ b \in Nat
  OBVIOUS
<1>8. ASSUME q = a PROVE \E k \in Nat : Clears(r, q, k)
  BY <1>1, <1>7, <1>8
<1> QED
  BY <1>2, <1>6, <1>8

\* numpes_log counts the powers of two below the number of PEs.
LEMMA CeilLogFacts ==
    ASSUME NEW n \in Nat, n > 0
    PROVE  CeilLog(n) \in 0 .. n /\ \A k \in Nat : k < CeilLog(n) <=> 2 ^ k < n
<1> DEFINE S == {k \in 0 .. n : n <= 2 ^ k}
           c == CeilLog(n)
<1>1. PICK x \in S : \A y \in S : x <= y
  <2>1. 2 ^ n \in Nat /\ n < 2 ^ n
    BY PowerAbove, PowersOfTwo
  <2>2. n \in S
    BY <2>1
  <2>3. S \in SUBSET Nat /\ S # {}
    BY <2>2
  <2> HIDE DEF S
  <2> QED
    BY <2>3, LeastNumber
<1>2. c \in S /\ \A y \in S : c <= y
  <2>1. c = Min(S)
    BY DEF CeilLog
  <2> HIDE DEF S, c
  <2> QED
    BY <1>1, <2>1 DEF Min
<1>3. c \in 0 .. n /\ n <= 2 ^ c /\ 2 ^ c \in Nat
  BY <1>2, PowersOfTwo
<1> HIDE DEF c
<1>4. ASSUME NEW k \in Nat, k < c PROVE 2 ^ k < n
  <2>1. k \in 0 .. n /\ k \notin S
    BY <1>2, <1>3, <1>4
  <2>2. ~(n <= 2 ^ k) /\ 2 ^ k \in Nat
    BY <2>1, PowersOfTwo
  <2> QED
    BY <2>2
<1>5. ASSUME NEW k \in Nat, ~(k < c) PROVE ~(2 ^ k < n)
  <2>1. c \in Nat /\ c <= k
    BY <1>3, <1>5
  <2>2. PICK e \in Nat : e >= 1 /\ 2 ^ k = 2 ^ c * e
    BY <2>1, PowerDivides
  <2> DEFINE d == 2 ^ c
  <2>3. d \in Nat /\ n <= d
    BY <1>3
  <2> HIDE DEF d
  <2>4. d * e >= d
    <3>1. e - 1 \in Nat /\ e = (e - 1) + 1
      BY <2>2
    <3>2. PICK f \in Nat : e = f + 1
      BY <3>1
    <3>3. d * (f + 1) = d * f + d /\ d * f \in Nat
      BY <2>3
    <3> QED
      BY <2>3, <3>2, <3>3
  <2> QED
    BY <2>2, <2>3, <2>4 DEF d
<1> QED
  BY <1>3, <1>4, <1>5 DEF c

----------------------------------------------------------------------------
(* The tree *)

\* The stages to come when s are left have the lower numbers, so the caller
\* has put in the others.
PastPuts(s) == {k \in s .. CeilLog(procs) - 1 : Active(k) /\ MyPlace + 2 ^ k < procs}

TreeInv ==
    form = "tree" =>
        /\ procs \in Nat \ {0} /\ root \in 0 .. procs - 1
        /\ stages \in 0 .. CeilLog(procs) /\ (Returned => stages = 0)
        /\ partners = {(MyPlace + 2 ^ k + root) % procs : k \in PastPuts(stages)}

\* Places are numbers of PEs, and a partner's place wraps around at most once.
LEMMA PlaceFacts ==
    ASSUME procs \in Nat \ {0}, root \in 0 .. procs - 1
    PROVE  /\ MyPlace \in 0 .. procs - 1
           /\ \A k \in Nat : 2 ^ k < procs =>
                IF MyPlace + 2 ^ k < procs
                THEN PartnerPlace(k) = MyPlace + 2 ^ k /\ MyPlace < PartnerPlace(k)
                ELSE ~(MyPlace < PartnerPlace(k))
<1> DEFINE m == MyPlace
<1>1. m \in 0 .. procs - 1
  BY DEF MyPlace, MyPE
<1> HIDE DEF m
<1>2. ASSUME NEW k \in Nat, 2 ^ k < procs
      PROVE  IF m + 2 ^ k < procs
             THEN PartnerPlace(k) = m + 2 ^ k /\ m < PartnerPlace(k)
             ELSE ~(m < PartnerPlace(k))
  <2> DEFINE d == 2 ^ k
  <2>1. d \in Nat /\ d >= 1 /\ d < procs
    BY <1>2, PowersOfTwo
  <2>2. PartnerPlace(k) = (m + d) % procs
    BY DEF PartnerPlace, m
  <2> HIDE DEF d
  <2>3. CASE m + d < procs
    <3>1. (m + d) % procs = m + d
      BY <1>1, <2>1, <2>3
    <3> QED
      BY <1>1, <2>1, <2>2, <2>3, <3>1 DEF d
  <2>4. CASE ~(m + d < procs)
    <3>1. (m + d) % procs = m + d - procs
      <4>1. m + d - procs \in 0 .. procs - 1
        BY <1>1, <2>1, <2>4
      <4> QED
        BY <1>1, <2>1, <4>1
    <3> QED
      BY <1>1, <2>1, <2>2, <2>4, <3>1 DEF d
  <2> QED
    BY <2>3, <2>4
<1> QED
  BY <1>1, <1>2 DEF m

LEMMA TreeInvInit == BroadcastInit => TreeInv
<1> SUFFICES ASSUME BroadcastInit, form = "tree"
             PROVE  TreeInv
  BY DEF TreeInv
<1>1. procs \in Nat \ {0} /\ root \in 0 .. procs - 1 /\ stages = CeilLog(procs) /\ partners = {}
  BY TreeAssumption DEF BroadcastInit
<1>2. CeilLog(procs) \in Nat
  BY <1>1, CeilLogFacts
<1>3. PastPuts(stages) = {}
  BY <1>1, <1>2 DEF PastPuts
<1>4. ~Returned
  BY DEF BroadcastInit, ForkInit, Returned
<1> QED
  BY <1>1, <1>2, <1>3, <1>4 DEF TreeInv

LEMMA TreeStageStep == TreeInv /\ TreeStage => TreeInv'
<1> SUFFICES ASSUME TreeInv, TreeStage PROVE TreeInv'
  OBVIOUS
<1> DEFINE k == stages - 1
           c == CeilLog(procs)
           Put(j) == (MyPlace + 2 ^ j + root) % procs
<1>1. /\ form = "tree" /\ procs \in Nat \ {0} /\ root \in 0 .. procs - 1
      /\ partners = {Put(j) : j \in PastPuts(stages)}
      /\ stages \in 0 .. c /\ stages > 0 /\ stages' = k
      /\ UNCHANGED <<form, procs, root>> /\ ~Returned'
  BY DEF TreeInv, TreeStage, input, forkVars, Returned
<1>2. c \in Nat /\ k \in 0 .. c - 1 /\ k \in Nat /\ 2 ^ k < procs
  <2>1. c \in Nat
    BY <1>1, CeilLogFacts
  <2>2. k \in 0 .. c - 1 /\ k \in Nat /\ k < c
    BY <1>1, <2>1
  <2> QED
    BY <1>1, <2>1, <2>2, CeilLogFacts
<1>3. MyPlace' = MyPlace /\ \A j : (Active(j) <=> Active(j)') /\ Put(j)' = Put(j)
  BY <1>1 DEF MyPlace, Active
<1>4. PastPuts(stages)' = IF Active(k) /\ MyPlace + 2 ^ k < procs THEN PastPuts(stages) \cup {k} ELSE PastPuts(stages)
  <2>1. PastPuts(stages)' = {j \in k .. c - 1 : Active(j) /\ MyPlace + 2 ^ j < procs}
    BY <1>1, <1>3 DEF PastPuts, CeilLog
  <2>2. k .. c - 1 = (stages .. c - 1) \cup {k}
    BY <1>1, <1>2
  <2> QED
    BY <2>1, <2>2 DEF PastPuts
<1>5. partners' = IF Active(k) /\ MyPlace + 2 ^ k < procs THEN partners \cup {Put(k)} ELSE partners
  <2>1. IF MyPlace + 2 ^ k < procs
        THEN PartnerPlace(k) = MyPlace + 2 ^ k /\ MyPlace < PartnerPlace(k)
        ELSE ~(MyPlace < PartnerPlace(k))
    BY <1>1, <1>2, PlaceFacts
  <2> QED
    BY <2>1 DEF TreeStage, Puts
<1>6. partners' = {Put(j) : j \in PastPuts(stages)'}
  BY <1>1, <1>4, <1>5
<1>7. stages' \in 0 .. CeilLog(procs)'
  BY <1>1, <1>2 DEF CeilLog
<1> QED
  BY <1>1, <1>3, <1>6, <1>7 DEF TreeInv

LEMMA TreeKept ==
    ASSUME TreeInv, UNCHANGED <<input, stages, partners>>, form = "tree" => (Returned' => Returned \/ stages = 0)
    PROVE  TreeInv'
BY DEF TreeInv, input, PastPuts, Active, MyPlace, CeilLog

LEMMA TreeInvStep == TreeIdle /\ TreeInv /\ [BroadcastNext]_broadcastSystem => TreeInv'
<1> SUFFICES ASSUME TreeIdle, TreeInv, [BroadcastNext]_broadcastSystem PROVE TreeInv'
  OBVIOUS
<1> USE DEF Returned
<1>1. CASE TreeStage
  BY <1>1, TreeStageStep
<1>2. CASE TreeReturn \/ TreeLoad
  BY <1>2, TreeKept DEF TreeReturn, TreeLoad, forkVars, input
<1>3. CASE SubmitCopy
  BY <1>3, TreeKept DEF SubmitCopy, input, tree
<1>4. CASE (Join \/ JoinBlock \/ JoinReturn) /\ UNCHANGED broadcastVars
  BY <1>4, TreeKept DEF TreeIdle, Join, JoinBlock, JoinReturn, broadcastVars, input, tree
<1>5. CASE BroadcastReturn
  BY <1>5, TreeKept DEF TreeIdle, BroadcastReturn, broadcastVars, input, tree
<1>6. CASE Reuse
  BY <1>6, TreeKept DEF Reuse, forkVars, input, tree
<1>7. ASSUME NEW p \in PE, Copy(p) PROVE TreeInv'
  BY <1>7, TreeKept DEF Copy, input, tree
<1>8. ASSUME NEW p \in PE, WorkerLoop(p), UNCHANGED broadcastVars PROVE TreeInv'
  BY <1>8, TreeKept DEF WorkerLoop, broadcastVars, input, tree
<1>9. CASE Spurious /\ UNCHANGED broadcastVars
  BY <1>9, TreeKept DEF Spurious, broadcastVars, input, tree
<1>10. CASE UNCHANGED broadcastSystem
  BY <1>10, TreeKept DEF broadcastSystem, forkVars, broadcastVars, input, tree
<1> QED
  BY <1>1, <1>2, <1>3, <1>4, <1>5, <1>6, <1>7, <1>8, <1>9, <1>10
  DEF BroadcastNext, BroadcastCaller, BroadcastWorker

\* A child is a place above by a power of two, in a stage the caller is
\* active in.
LEMMA ChildrenAre ==
    ASSUME procs \in Nat \ {0}, root \in 0 .. procs - 1
    PROVE  {r \in 1 .. procs - 1 : Parent(r) = MyPlace} = {MyPlace + 2 ^ k : k \in PastPuts(0)}
<1> DEFINE m == MyPlace
           c == CeilLog(procs)
<1>1. m \in 0 .. procs - 1 /\ c \in Nat /\ \A k \in Nat : k < c <=> 2 ^ k < procs
  BY PlaceFacts, CeilLogFacts
<1> HIDE DEF m, c
<1>2. ASSUME NEW r \in 1 .. procs - 1, Parent(r) = m
      PROVE  \E k \in PastPuts(0) : r = m + 2 ^ k
  <2>1. r \in Nat /\ r # 0 /\ m \in Nat
    BY <1>1
  <2>2. PICK k \in Nat : Clears(r, m, k)
    BY <1>2, <2>1, ParentIs
  <2>3. 2 ^ k \in Nat /\ r = m + 2 ^ k /\ r < procs
    BY <2>2, PowersOfTwo DEF Clears
  <2>4. k < c
    BY <1>1, <2>3
  <2>5. k \in 0 .. c - 1 /\ Active(k)
    BY <1>1, <2>2, <2>4 DEF Clears, Active, m
  <2>6. k \in PastPuts(0)
    BY <2>3, <2>5 DEF PastPuts, m, c
  <2> QED
    BY <2>3, <2>6
<1>3. ASSUME NEW k \in PastPuts(0)
      PROVE  m + 2 ^ k \in 1 .. procs - 1 /\ Parent(m + 2 ^ k) = m
  <2>1. k \in Nat /\ Active(k) /\ m + 2 ^ k < procs
    BY <1>1 DEF PastPuts, m, c
  <2> DEFINE r == m + 2 ^ k
  <2>2. r \in Nat /\ r # 0 /\ r \in 1 .. procs - 1 /\ m \in Nat
    BY <1>1, <2>1, PowersOfTwo
  <2>3. Clears(r, m, k)
    BY <2>1 DEF Clears, Active, m
  <2> HIDE DEF r
  <2>4. Parent(r) = m
    BY <2>1, <2>2, <2>3, ParentIs
  <2> QED
    BY <2>2, <2>4 DEF r
<1> QED
  BY <1>2, <1>3 DEF m

LEMMA ReachesFollows == TreeInv => TreeReachesChildren
<1> SUFFICES ASSUME TreeInv, form = "tree", Returned
             PROVE  partners = {(q + root) % procs : q \in {r \in 1 .. procs - 1 : Parent(r) = MyPlace}}
  BY DEF TreeReachesChildren
<1>1. /\ procs \in Nat \ {0} /\ root \in 0 .. procs - 1
      /\ partners = {(MyPlace + 2 ^ k + root) % procs : k \in PastPuts(0)}
  BY DEF TreeInv
<1> DEFINE Children == {r \in 1 .. procs - 1 : Parent(r) = MyPlace}
<1>2. Children = {MyPlace + 2 ^ k : k \in PastPuts(0)}
  BY <1>1, ChildrenAre
<1> HIDE DEF Children
<1>3. {(q + root) % procs : q \in Children} = {(MyPlace + 2 ^ k + root) % procs : k \in PastPuts(0)}
  BY <1>2
<1> QED
  BY <1>1, <1>3 DEF Children

\* The caller of the tree broadcast puts to its children in the binomial tree
\* and to no other PE, for every number of PEs and every root.
THEOREM TreeChildren == BroadcastSpec => []TreeReachesChildren
<1>1. BroadcastInv => TreeIdle
  BY DEF BroadcastInv, ArgsInv
<1> QED
  BY <1>1, BroadcastInvariant, TreeInvInit, TreeInvStep, ReachesFollows, PTL DEF BroadcastSpec
=============================================================================
