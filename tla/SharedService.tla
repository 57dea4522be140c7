---------------------------- MODULE SharedService ----------------------------
(***************************************************************************)
(* What a pool with one queue for all its workers promises, without        *)
(* threads, locks or condition variables: tasks start in the order they    *)
(* were submitted, at most Slots of them at a time, each of them once,     *)
(* until the pool is shut down; a caller that waits is let go only at a    *)
(* moment when no task is running.                                         *)
(***************************************************************************)
EXTENDS Sequences, FiniteSets, Naturals

CONSTANTS Slots, Clients, Units

VARIABLES
    pending,    \* accepted and not started, in order
    running,    \* the tasks that are running
    done,       \* the tasks that finished
    shut,       \* nothing more is accepted or started
    waiting     \* the callers that wait

svars == <<pending, running, done, shut, waiting>>

Init ==
    /\ pending = <<>>
    /\ running = {} /\ done = {}
    /\ shut = FALSE
    /\ waiting = {}

Submit(u) ==
    /\ ~shut
    /\ pending' = Append(pending, u)
    /\ UNCHANGED <<running, done, shut, waiting>>

Start ==
    /\ ~shut
    /\ pending # <<>>
    /\ Cardinality(running) < Slots
    /\ Head(pending) \notin running \cup done
    /\ running' = running \cup {Head(pending)}
    /\ pending' = Tail(pending)
    /\ UNCHANGED <<done, shut, waiting>>

Done(u) ==
    /\ u \in running
    /\ running' = running \ {u}
    /\ done' = done \cup {u}
    /\ UNCHANGED <<pending, shut, waiting>>

BeginWait(c) ==
    /\ ~shut /\ c \notin waiting
    /\ waiting' = waiting \cup {c}
    /\ UNCHANGED <<pending, running, done, shut>>

\* What is pending is thrown away.
ShutDown(c) ==
    /\ ~shut /\ c \notin waiting
    /\ shut' = TRUE
    /\ pending' = <<>>
    /\ waiting' = waiting \cup {c}
    /\ UNCHANGED <<running, done>>

EndWait(c) ==
    /\ c \in waiting /\ running = {}
    /\ waiting' = waiting \ {c}
    /\ UNCHANGED <<pending, running, done, shut>>

Next ==
    \/ Start
    \/ \E u \in Units : Submit(u) \/ Done(u)
    \/ \E c \in Clients : BeginWait(c) \/ ShutDown(c) \/ EndWait(c)

Spec == Init /\ [][Next]_svars
=============================================================================
