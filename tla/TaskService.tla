----------------------------- MODULE TaskService -----------------------------
(***************************************************************************)
(* What the thread pool promises its callers, without threads, locks or    *)
(* condition variables: each PE runs the tasks submitted to it one at a    *)
(* time and in the order of submission, until it is shut down; a caller    *)
(* that waits on a PE is let go only at a moment when no task of that PE   *)
(* is running.  Whether tasks are still pending then is left open, because *)
(* the pool leaves it open.                                                *)
(***************************************************************************)
EXTENDS Sequences

CONSTANTS PE, Clients, Units, None

VARIABLES
    pending,    \* pending[p]: accepted and not started, in order
    current,    \* the task PE p is running, or None
    shut,       \* PE p accepts and starts nothing more
    done,       \* the tasks that finished
    waitsOn     \* waitsOn[c]: the PE caller c waits for, if any: a set

svars == <<pending, current, shut, done, waitsOn>>

Init ==
    /\ pending = [p \in PE |-> <<>>]
    /\ current = [p \in PE |-> None]
    /\ shut = [p \in PE |-> FALSE]
    /\ done = {}
    /\ waitsOn = [c \in Clients |-> {}]

Submit(p, u) ==
    /\ ~shut[p]
    /\ pending' = [pending EXCEPT ![p] = Append(@, u)]
    /\ UNCHANGED <<current, shut, done, waitsOn>>

Start(p) ==
    /\ ~shut[p]
    /\ current[p] = None
    /\ pending[p] # <<>>
    /\ current' = [current EXCEPT ![p] = Head(pending[p])]
    /\ pending' = [pending EXCEPT ![p] = Tail(@)]
    /\ UNCHANGED <<shut, done, waitsOn>>

Done(p) ==
    /\ current[p] # None
    /\ done' = done \cup {current[p]}
    /\ current' = [current EXCEPT ![p] = None]
    /\ UNCHANGED <<pending, shut, waitsOn>>

BeginWait(c, p) ==
    /\ waitsOn[c] = {}
    /\ ~shut[p]
    /\ waitsOn' = [waitsOn EXCEPT ![c] = {p}]
    /\ UNCHANGED <<pending, current, shut, done>>

\* The caller also waits, for the PE's current task to end.
ShutDown(c, p) ==
    /\ waitsOn[c] = {}
    /\ ~shut[p]
    /\ pending' = [pending EXCEPT ![p] = <<>>]
    /\ shut' = [shut EXCEPT ![p] = TRUE]
    /\ waitsOn' = [waitsOn EXCEPT ![c] = {p}]
    /\ UNCHANGED <<current, done>>

EndWait(c, p) ==
    /\ waitsOn[c] = {p}
    /\ current[p] = None
    /\ waitsOn' = [waitsOn EXCEPT ![c] = {}]
    /\ UNCHANGED <<pending, current, shut, done>>

Next ==
    \/ \E p \in PE : Start(p) \/ Done(p) \/ \E u \in Units : Submit(p, u)
    \/ \E c \in Clients, p \in PE :
        BeginWait(c, p) \/ ShutDown(c, p) \/ EndWait(c, p)

Spec == Init /\ [][Next]_svars
=============================================================================
