----------------------------- MODULE TaskRunner -----------------------------
(***************************************************************************)
(* What utx::common::ThreadPool promises to the commands that use it: the  *)
(* tasks start in the order in which they were enqueued, no more of them   *)
(* run at a time than there are workers, each runs once, and the user goes *)
(* on behind the pool only when every task has ended, whether or not one   *)
(* of them threw.                                                          *)
(***************************************************************************)
EXTENDS Naturals, FiniteSets

CONSTANTS
    MaxTasks,   \* no pool is given more tasks
    NumWorkers

VARIABLES
    scope,      \* "open" while its user enqueues and waits, "left" when the user goes
                \* on behind the tasks
    state       \* of each task, in the order of enqueue

vars == <<scope, state>>

Tasks == 1..MaxTasks
NoTasks == [i \in Tasks |-> "none"]
InState(s) == {i \in Tasks : state[i] = s}

Init ==
    /\ scope = "open"
    /\ state = NoTasks

\* The next tasks, up to task n, are put into the queue.
Enqueue(n) ==
    /\ scope = "open"
    /\ state' = [i \in Tasks |-> IF state[i] = "none" /\ i <= n THEN "queued"
                                 ELSE state[i]]
    /\ UNCHANGED scope

\* A worker starts the oldest task of the queue.
Start(i) ==
    /\ scope = "open"
    /\ state[i] = "queued"
    /\ \A j \in InState("queued") : i <= j
    /\ Cardinality(InState("running")) < NumWorkers
    /\ state' = [state EXCEPT ![i] = "running"]
    /\ UNCHANGED scope

End(i) ==
    /\ scope = "open"
    /\ state[i] = "running"
    /\ state' = [state EXCEPT ![i] = "ended"]
    /\ UNCHANGED scope

Leave ==
    /\ scope = "open"
    /\ InState("queued") = {} /\ InState("running") = {}
    /\ scope' = "left"
    /\ UNCHANGED state

Next ==
    \/ \E n \in 0..MaxTasks : Enqueue(n)
    \/ \E i \in Tasks : Start(i) \/ End(i)
    \/ Leave

Spec == Init /\ [][Next]_vars
=============================================================================
