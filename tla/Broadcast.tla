----------------------------- MODULE Broadcast -----------------------------
(***************************************************************************)
(* xbrtime_int_broadcast and xbrtime_longlong_broadcast: every PE gets a   *)
(* task that copies the one element *src to *dest and frees its arguments, *)
(* which the caller allocated.  In the long long version a task copies     *)
(* only if root_pe is xbrtime_mype(), and that is 0 in every thread.       *)
(* After the call the caller may store something else in src.              *)
(*                                                                         *)
(* xbrtime_int_broadcast_deprecated is the caller's part of a binomial     *)
(* tree: it loads a buffer if it is the root, puts the buffer to a partner *)
(* per stage, and unloads it.  The partner's number does not reach the     *)
(* put, which names the caller's buffer twice; the barrier that ends a     *)
(* stage is in Programs.                                                   *)
(*                                                                         *)
(* Names that Reduce has as well carry the word Broadcast: the proofs about *)
(* both are in one module.                                                 *)
(*                                                                         *)
(* Definitions named Bug_... are slips this code invites.  Each stands     *)
(* before the definition it would replace; the specification uses none.    *)
(***************************************************************************)
EXTENDS ForkJoin, FiniteSetsExt

CONSTANT
    TreeProcs   \* bound of the model: numbers of PEs of the tree

ASSUME TreeAssumption == TreeProcs \subseteq Nat \ {0}

VARIABLES
    form,       \* "int", "longlong" or "tree"
    root,       \* its root_pe
    src,        \* "value" at the call, "reused" by the caller later
    target,     \* "stale" at the call; "unset" is what malloc left
    args,       \* args[p]: "none", "live" or "freed"
    procs,      \* the number of PEs
    stages,     \* stages of the tree to come
    partners,   \* PEs the tree has put to
    buffer      \* its temp: "none", "unset" (what malloc left), or a value

input == <<form, root, procs>>
tree == <<stages, partners, buffer>>
broadcastVars == <<input, src, target, args, tree>>
broadcastSystem == <<forkVars, broadcastVars>>

BroadcastTypeOK ==
    /\ ForkTypeOK
    /\ form \in {"int", "longlong", "tree"}
    /\ procs \in TreeProcs \cup {Num} /\ root \in 0 .. procs - 1
    /\ src \in {"value", "reused"}
    /\ target \in {"stale", "value", "reused", "unset"}
    /\ args \in [PE -> {"none", "live", "freed"}]
    /\ stages \in 0 .. procs /\ partners \subseteq 0 .. procs - 1
    /\ buffer \in {"none", "unset", "value"}

\* numpes_log
CeilLog(n) == Min({k \in 0 .. n : n <= 2 ^ k})

BroadcastInit ==
    /\ ForkInit
    /\ form \in {"int", "longlong", "tree"}
    /\ procs \in IF form = "tree" THEN TreeProcs ELSE {Num}
    /\ root \in 0 .. procs - 1
    /\ src = "value" /\ target = "stale"
    /\ args = [p \in PE |-> "none"]
    /\ stages = CeilLog(procs) /\ partners = {} /\ buffer = "none"

----------------------------------------------------------------------------
\* _ID is that of thread 0, whichever thread asks.
MyPE == 0

Copies == form = "longlong" => root = MyPE

\* The arguments are left to the caller.
Bug_Released(p) == args

Released(p) == [args EXCEPT ![p] = "freed"]

\* broadcast_task and longlong_broadcast_task.
Copy(p) ==
    /\ worker[p] = "running"
    /\ target' = IF Copies THEN src ELSE target
    /\ args' = Released(p)
    /\ Pool!Complete(p)
    /\ UNCHANGED <<main, missed, input, src, tree>>

\* The arguments of a task are allocated before the task is added, and stay
\* allocated when it is refused.
SubmitCopy ==
    /\ form # "tree"
    /\ Submit
    /\ args' = [args EXCEPT ![main.pe] = "live"]
    /\ UNCHANGED <<input, src, target, tree>>

BroadcastReturn ==
    /\ main.at = "joined"
    /\ main' = [main EXCEPT !.at = "done"]
    /\ UNCHANGED <<missed, poolVars, broadcastVars>>

Reuse ==
    /\ Returned
    /\ src' = "reused"
    /\ UNCHANGED <<forkVars, input, target, args, tree>>

\* my_vpe: the caller's place in a tree whose root has place 0.
MyPlace == (MyPE - root) % procs

\* The stages a place is active in are taken from the wrong end.
Bug_Active(k) == MyPlace < 2 ^ k

\* (my_vpe & mask) == 0, where mask is the bits below k, and (my_vpe & two_i)
\* == 0, where two_i is bit k.
Active(k) == MyPlace % 2 ^ (k + 1) = 0

\* v_partner; bit k of my_vpe is clear.
PartnerPlace(k) == (MyPlace + 2 ^ k) % procs

\* The buffer is allocated, and loaded by the root.
TreeLoad ==
    /\ form = "tree" /\ main.at = "submit" /\ buffer = "none"
    /\ buffer' = IF root = MyPE THEN src ELSE "unset"
    /\ UNCHANGED <<forkVars, input, src, target, args, stages, partners>>

Puts(k) == Active(k) /\ MyPlace < PartnerPlace(k)

\* What xbrtime_int_put leaves in the memory it is given as dest.
PutInto(dest, source) == source

TreeStage ==
    /\ form = "tree" /\ main.at = "submit" /\ buffer # "none" /\ stages > 0
    /\ stages' = stages - 1
    /\ IF Puts(stages - 1)
         THEN /\ partners' = partners \cup {(PartnerPlace(stages - 1) + root) % procs}
              /\ buffer' = PutInto(buffer, buffer)
         ELSE UNCHANGED <<partners, buffer>>
    /\ UNCHANGED <<forkVars, input, src, target, args>>

\* From the buffer to dest; the buffer is freed.
TreeReturn ==
    /\ form = "tree" /\ main.at = "submit" /\ buffer # "none" /\ stages = 0
    /\ target' = buffer
    /\ buffer' = "none"
    /\ main' = [main EXCEPT !.at = "done"]
    /\ UNCHANGED <<missed, poolVars, input, src, args, stages, partners>>

BroadcastCaller ==
    \/ SubmitCopy \/ TreeLoad \/ TreeStage \/ TreeReturn
    \/ (Join \/ JoinBlock \/ JoinReturn) /\ UNCHANGED broadcastVars
    \/ BroadcastReturn

BroadcastWorker(p) == Copy(p) \/ (WorkerLoop(p) /\ UNCHANGED broadcastVars)

BroadcastNext ==
    \/ BroadcastCaller \/ Reuse
    \/ \E p \in PE : BroadcastWorker(p)
    \/ (Spurious /\ UNCHANGED broadcastVars)

BroadcastSpec == BroadcastInit /\ [][BroadcastNext]_broadcastSystem

----------------------------------------------------------------------------
(* Properties *)

\* Each task's arguments are freed exactly once, by the task, and those of a
\* task that tpool_add_work refused never are.
ArgsOwned ==
    {p \in PE : args[p] = "live"} = refused \cup (Pool!Accepted \ finished)

\* dest holds what the caller stored in src after the call only if a task that
\* the waits had missed ran late, and it still holds what it held before only
\* if they missed every task, with one exception that the comment at line 925,
\* "Each thread will copy the value from src to dest for the root PE", does not
\* make: a long long broadcast from a root other than 0, which xbrtime_mype
\* names to no task.  In the tree dest gets src only if the caller is the root.
TargetExplained ==
    /\ target = "reused" => missed \cap finished # {}
    /\ Returned /\ form # "tree" /\ target = "stale" =>
          (form = "longlong" /\ root # 0) \/ Pool!Accepted \subseteq missed
    /\ Returned /\ form = "tree" => (target = "value" <=> root = 0)

\* A place's parent in the binomial tree: its lowest set bit is cleared.
Parent(q) == Max({d \in 0 .. q - 1 : \E k \in 0 .. q : q = d + 2 ^ k /\ d % 2 ^ (k + 1) = 0})

\* The caller puts to exactly the places it is the parent of in a binomial
\* tree, for numbers of PEs that are no power of two as well: a place has one
\* parent, and the place that wraps around the end is never put to.
TreeReachesChildren ==
    form = "tree" /\ Returned =>
        partners = {(q + root) % procs : q \in {r \in 1 .. procs - 1 : Parent(r) = MyPlace}}
=============================================================================
